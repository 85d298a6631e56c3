----------------------------- MODULE MCNativeAudit -----------------------------
(* Instances of NativeAudit small enough for TLC. *)
EXTENDS NativeAudit

CONSTANTS r1, r2, r3

Records == {r1, r2, r3}

Evaluation(split) ==
    {<<"dataset_identifier", "mnist">>, <<"dataset_version", "1">>, <<"split", split>>}

\* Of one field, and of one more than the report can hold.
Partial == {<<"split", "test">>}
Wide == Evaluation("test") \cup {<<ToString(i), "on">> : i \in 1..(MaxSemanticFields - 2)}

Config(steps, evaluation, complete) ==
    [readable |-> TRUE, complete |-> complete, flat |-> TRUE, steps |-> steps, epochs |-> 1,
     batch |-> 2, evaluation |-> evaluation, described |-> "resnet"]

Fair == Config(4, Evaluation("test"), TRUE)

\* Every way of check_configs to go on, the boundary of the compute rule included.
Configs ==
    {Config(n, Evaluation("test"), TRUE) : n \in {4, 5, 6}}
    \cup {Config(4, Evaluation("dev"), TRUE), Config(0, Evaluation("test"), FALSE),
          Config(4, Partial, FALSE), Config(4, {}, FALSE),
          [Fair EXCEPT !.described = "vit"], [Fair EXCEPT !.batch = 0, !.complete = FALSE],
          [Fair EXCEPT !.readable = FALSE], [Fair EXCEPT !.flat = FALSE],
          [Fair EXCEPT !.evaluation = Wide],
          [Fair EXCEPT !.evaluation = @ \cup {<<"scorer", "exact">>, <<"metric", "top1">>}],
          [Fair EXCEPT !.epochs = 0, !.complete = FALSE],
          [Fair EXCEPT !.steps = 0, !.epochs = 0, !.complete = FALSE]}

Run(value, seed) == [value |-> value, seed |-> seed]
Results(runs, claimed) == [readable |-> TRUE, runs |-> runs, claimed |-> claimed]

Two == << Run(0, "s1"), Run(2, "s2") >>

\* Means 0, 1, 3/2 and 5/3, sums and gains that overflow, and every way to lack seeds.
Outcomes ==
    {Results(Two, claimed) : claimed \in {{}, {1}, {2}}}
    \cup {Results(runs, {}) : runs \in
            { << Run(0, "s1"), Run(0, "s2") >>, << Run(1, "s1"), Run(2, "s2") >>,
              << Run(1, "s1"), Run(2, "s2"), Run(2, "s3") >>, << Run(2, "s1") >>,
              << Run(2, "s1"), Run(2, "s1") >>, << Run(2, "s1"), Run(2, None) >>,
              << Run(2, "s1"), Run(2, "s1"), Run(2, None) >>,
              << Run(2, None), Run(2, None) >>, << Run(3, "s1"), Run(3, "s2") >>,
              << Run(-3, "s1"), Run(-3, "s2") >>, << Run(4, "s1"), Run(4, "s2") >>,
              << Run(4, "s1"), Run(-4, "s2") >>, <<>> }}
    \cup {[Results(Two, {}) EXCEPT !.readable = FALSE]}

Usual == {Results(Two, {1}), Results(<< Run(-3, "s1"), Run(-3, "s2") >>, {}),
          Results(<< Run(2, "s1") >>, {})}

Sound == [key \in Keys |-> IF key[2] = "train" THEN <<r1>> ELSE <<r2, r3, r2>>]

\* Leaked, reordered, blank, malformed and empty datasets in each place, and both
\* evaluations changed alike.
Data ==
    {[Sound EXCEPT ![key] = f] :
        key \in Keys, f \in {<<r2>>, <<r3, r2, r2>>, <<r2, r3>>, <<r1, r1>>, <<"blank", r1>>,
                             <<r2, "malformed", r3>>, <<>>}}
    \cup {[Sound EXCEPT ![<<"baseline", "eval">>] = f, ![<<"candidate", "eval">>] = f] :
            f \in {<<r1, r2>>, <<r2, r2>>, <<"too_deep">>}}

World(b, c, m, n, data) ==
    [config |-> [baseline |-> b, candidate |-> c],
     results |-> [baseline |-> m, candidate |-> n], data |-> data]

Zero == Results(<< Run(0, "s1"), Run(0, "s2") >>, {})

\* One kind of artifact varies freely while the others are sound, and a few of
\* each vary together.
SomeWorlds ==
    {World(pair[1], pair[2], Zero, Results(Two, {1}), Sound) :
        pair \in ({Fair} \X Configs) \cup (Configs \X {Fair}) \cup {<<c, c>> : c \in Configs}}
    \cup {World(Fair, Fair, pair[1], pair[2], Sound) :
            pair \in (Outcomes \X Usual) \cup (Usual \X Outcomes)}
    \cup {World(Fair, Fair, Zero, Results(Two, {1}), data) : data \in Data}
    \cup {World(Fair, c, m, Results(Two, {1}), data) :
            c \in {Config(6, Evaluation("test"), TRUE), Config(0, Evaluation("test"), FALSE),
                   [Fair EXCEPT !.readable = FALSE]},
            m \in {Results(<< Run(2, "s1") >>, {}), Results(Two, {})},
            data \in {[Sound EXCEPT ![<<"baseline", "eval">>] = <<>>],
                      [Sound EXCEPT ![<<"candidate", "train">>] = <<r2>>]}}

SomeReplacements ==
    {World(Config(4, Evaluation("dev"), TRUE), [Fair EXCEPT !.readable = FALSE], Zero,
           Results(Two, {2}), [Sound EXCEPT ![<<"candidate", "eval">>] = <<r1>>])}

AllFiles == {w.data : w \in SomeWorlds \cup SomeReplacements}
AllWorlds == SomeWorlds \cup SomeReplacements

Claim(higher, threshold, identity) ==
    [usable |-> TRUE, sameDatasets |-> TRUE, higher |-> higher, threshold |-> threshold,
     identity |-> identity]

SomeClaims ==
    {Claim(higher, threshold, None) : higher \in BOOLEAN, threshold \in {0, 1}}
    \cup {Claim(TRUE, 1, "verified"), Claim(TRUE, 1, "foreign"),
          [Claim(TRUE, 1, None) EXCEPT !.usable = FALSE],
          [Claim(TRUE, 1, None) EXCEPT !.sameDatasets = FALSE]}
====
