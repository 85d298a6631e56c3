---------------------------- MODULE SnapshotExtraction ----------------------------
(***************************************************************************)
(* What reading a streamed artifact promises its caller, with no files in  *)
(* sight: an extraction of the artifact recorded in the plan either hands  *)
(* over evidence computed from exactly the recorded bytes, and then only   *)
(* when these bytes are well formed and inside every budget, or it hands   *)
(* over nothing.                                                           *)
(*                                                                         *)
(* One artifact is a sequence of logical lines.  A line is "hit" (a row    *)
(* the exact table selector picks), "miss" (a well-formed row it does not  *)
(* pick) or "bad" (bytes that do not parse).  Every line is one unit of    *)
(* the byte budgets.                                                       *)
(***************************************************************************)
EXTENDS Naturals, Sequences, FiniteSets

CONSTANTS
    Snapshots,    \* the artifacts a plan may have recorded
    LimitChoices, \* the StreamingLimits a caller may pass
    Scanners,     \* which registered extractions exist
    Cardinal      \* the expected_cardinality of an exact table selector

ScannerNames == {"jsonl", "delimited", "table", "integrity"}
LineKinds == {"hit", "miss", "bad"}
LimitRecords ==
    [integrity : Nat, semantic : Nat, records : Nat, observations : Nat]

\* StreamingLimits.__post_init__ accepts only positive budgets, and a
\* TableSelector names at least one expected row.
ASSUME ExtractionAssumption ==
    /\ Snapshots \subseteq Seq(LineKinds)
    /\ LimitChoices \subseteq LimitRecords
    /\ Scanners \subseteq ScannerNames
    /\ Cardinal \in Nat \ {0}

VARIABLES
    snap,      \* the bytes recorded when the artifact was discovered
    lim,       \* the budgets of this extraction
    scanner,   \* which of the registered extractions runs
    result,    \* "pending", "evidence", "incomplete" or "raised"
    delivered  \* the lines the evidence was computed from

inputs == <<snap, lim, scanner>>
absVars == <<inputs, result, delivered>>

Delimited(sc) == sc \in {"delimited", "table"}

\* Delimited files spend their first line on the header.
RowsOf(n, sc) == IF Delimited(sc) /\ n > 0 THEN n - 1 ELSE n

\* The rows among the first n lines that become observations.
Selected(s, n, sc) ==
    CASE sc = "table" -> {i \in 2..n : s[i] = "hit"}
      [] sc = "delimited" -> 2..n
      [] OTHER -> 1..n

\* The artifact is well formed and every budget has room for all of it.
Eligible(s, l, sc) ==
    /\ Len(s) <= l.integrity
    /\ sc # "integrity" =>
         /\ \A i \in 1..Len(s) : s[i] # "bad"
         /\ Len(s) <= l.semantic
         /\ RowsOf(Len(s), sc) \in 1..l.records
         /\ Cardinality(Selected(s, Len(s), sc)) <= l.observations
         /\ sc = "table" => Cardinality(Selected(s, Len(s), sc)) = Cardinal

Init ==
    /\ snap \in Snapshots
    /\ lim \in LimitChoices
    /\ scanner \in Scanners
    /\ result = "pending"
    /\ delivered = <<>>

Deliver ==
    /\ result = "pending"
    /\ Eligible(snap, lim, scanner)
    /\ result' = "evidence"
    /\ delivered' = snap
    /\ UNCHANGED inputs

Withhold ==
    /\ result = "pending"
    /\ result' \in {"incomplete", "raised"}
    /\ UNCHANGED <<inputs, delivered>>

Next == Deliver \/ Withhold

Spec == Init /\ [][Next]_absVars
====
