-------------------------- MODULE MCEphemeralExecution --------------------------
(* Instances of EphemeralExecution small enough for TLC. *)
EXTENDS EphemeralExecution, TLC

CONSTANTS e1, e2, results, config, train, huge

Bound(a, k, artifactKind) ==
    [path |-> a, kind |-> k, candidate |-> [kind |-> artifactKind, reason |-> "named"],
     issued |-> TRUE, defect |-> "none"]
Dataset(a) == Bound(a, "dataset", "dataset")
Fields(a) == Bound(a, "fields", "results")
Table(a) == Bound(a, "table", "results")
Flawed(b, d) == [b EXCEPT !.defect = d]
Unissued(b) == [b EXCEPT !.issued = FALSE]

Plan(i, bs) ==
    [id |-> <<i, {}>>, defects |-> {}, bindings |-> bs, endpoints |-> <<>>, benchmark |-> FALSE]
With(p, ds) == [p EXCEPT !.defects = ds, !.id = <<p.id[1], ds>>]
Forged(p) == [p EXCEPT !.defects = {"identity"}]

\* Two small files and a dataset bound for both splits; a streamed table and a
\* streamed dataset with a metric pair; a benchmark.
Small == Plan("small", <<Fields(config), Fields(results), Dataset(train), Dataset(train)>>)
Large == [Plan("large", <<Fields(config), Dataset(huge), Dataset(huge), Table(results)>>)
            EXCEPT !.endpoints = <<results, config>>]
Pair == [Plan("pair", <<Table(huge), Table(huge), Fields(results)>>)
           EXCEPT !.endpoints = <<huge, results>>]
Benchmark == [Plan("benchmark", <<Table(results), Table(results), Fields(config)>>)
                EXCEPT !.benchmark = TRUE]

\* One path bound as two kinds, with two identities, and as one file read in two ways.
SamePathPlans ==
    {Plan("kinds", <<Fields(config), Dataset(config)>>),
     Plan("identities",
          <<Fields(results), [Table(results) EXCEPT !.candidate.reason = "nearby"]>>),
     Plan("ways", <<Fields(results), Table(results)>>)}

\* Binding flaws.
FlawedPlans ==
    {Plan("representation", <<Fields(config), Flawed(Dataset(results), "representation")>>),
     Plan("adapter", <<Fields(results), Flawed(Dataset(train), "adapter")>>),
     Plan("table", <<Fields(config), Flawed(Table(huge), "adapter")>>)}

DefectivePlans == {With(Small, {d, c}) : d, c \in Defects}
                  \cup {With(Benchmark, {d}) : d \in Defects}

\* Every pair of defects, every limit around the sizes, one execution.
AllPlans == {Small, Large, Pair, Benchmark} \cup SamePathPlans \cup FlawedPlans \cup DefectivePlans
AllLimits == [file : {3, 4}, total : {5, 6, 7}, streamFile : {7, 8}, streamTotal : {5, 6, 7, 9, 10, 11, 12}]

\* Two executions of equal and of different plans: a streamed dataset, a metric pair with
\* a streamed endpoint, flaws in a dataset and in what the adapters did not issue, which
\* go unseen unless the file is streamed.
Trusting == [Small EXCEPT !.id = <<"trusting", {}>>,
                          !.bindings[1] = Unissued(Flawed(@, "adapter"))]
Drifted == Plan("drifted", <<Flawed(Dataset(train), "adapter")>>)
Streaming == Plan("streaming", <<Unissued(Flawed(Fields(huge), "adapter"))>>)
SharedPlans == {Trusting, Pair, Forged(Trusting), Drifted, Streaming}
OneLimit == {[file |-> 2, total |-> 6, streamFile |-> 8, streamTotal |-> 15]}

SmallSizes == (config :> 1) @@ (results :> 2) @@ (train :> 3) @@ (huge :> 8)
====
