----------------------------- MODULE MCDatasetAudit -----------------------------
(* Instances of DatasetAudit small enough for TLC. *)
EXTENDS DatasetAudit

CONSTANTS r1, r2

Records == {r1, r2}

\* Three contents in every combination, and every other way a dataset can be in
\* one of the four places, up to the symmetry of the hashes.
Common == {<<r1>>, <<r2, r1, r2>>, <<r2, r1, "malformed">>}
Odd == {<<r2, r1>>, <<r1, r1>>, <<r1, "blank", r2>>, <<"blank">>, <<r1, "malformed">>,
        <<r1, "too_long">>, <<r2, "too_deep">>}
Typical == [key \in Keys |-> <<r2, r1, r2>>]
SomeFiles == [Keys -> Common] \cup {[Typical EXCEPT ![key] = f] : key \in Keys, f \in Odd}

Replacements == {<<r2, r1>>}
SomeLimits == {[semantic |-> 3, records |-> 3], [semantic |-> 2, records |-> 2]}
====
