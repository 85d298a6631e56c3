--------------------------------- MODULE Datasets ---------------------------------
(***************************************************************************)
(* The four datasets of a claim, line by line, and the findings that can   *)
(* be made about them.                                                     *)
(***************************************************************************)
EXTENDS Naturals, Sequences, FiniteSets

CONSTANTS
    Digests,     \* canonical record hashes
    FileChoices  \* the quadruples of datasets a plan may have recorded

Experiments == {"baseline", "candidate"}
Splits == {"train", "eval"}
Keys == Experiments \X Splits

\* A line is the hash of its record, or one of the ways not to be a record:
\* blank, not JSON, longer than a logical record, nested too deeply.
NotRecords == {"blank", "malformed", "too_long", "too_deep"}
LineKinds == Digests \cup NotRecords

ASSUME FactsAssumption ==
    /\ Digests \cap NotRecords = {}
    /\ FileChoices \subseteq [Keys -> Seq(LineKinds)]

\* How often each hash occurs in the first n lines of f.
Multiplicity(f, n) == [d \in Digests |-> Cardinality({i \in 1..n : f[i] = d})]
Whole(f) == Multiplicity(f, Len(f))

\* f can be looked at completely: nothing but records and blank lines.
Clean(f) ==
    /\ \A i \in 1..Len(f) : f[i] \in Digests \cup {"blank"}
    /\ \E i \in 1..Len(f) : f[i] \in Digests

SharedRecord(f, m, g, n) ==
    \E i \in 1..m, j \in 1..n : f[i] \in Digests /\ f[i] = g[j]

Finding(rule, x) == [rule |-> rule, experiment |-> x]
====
