------------------------------ MODULE MCArtifactScan ------------------------------
(* Instances of ArtifactScan small enough for TLC. *)
EXTENDS ArtifactScan

CONSTANTS f1, f2, d1, d2

OneFile == {f1}
TwoFiles == {f1, f2}
OneDir == {d1}
TwoDirs == {d1, d2}

\* Every artifact of at most three lines, against every small budget.
AllSnapshots == UNION {[1..n -> LineKinds] : n \in 0..3}
AllLimits == [integrity : {2, 3, 4}, semantic : 1..3, records : 1..3,
              observations : 1..2]

\* Interference: a two-line artifact, other contents of the same size and
\* longer ones, and a budget of exactly its size.
TwoLines == {<<"hit", "miss">>}
Rewrites == {<<"hit", "miss">>, <<"miss", "hit">>, <<"hit", "miss", "hit">>,
             <<"hit", "miss", "hit", "hit">>}
OneSnugLimit ==
    {[integrity |-> 2, semantic |-> 2, records |-> 2, observations |-> 2]}
====
