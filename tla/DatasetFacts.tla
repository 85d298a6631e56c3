------------------------------- MODULE DatasetFacts -------------------------------
(***************************************************************************)
(* What the streamed dataset audit promises: it looks at a prefix of each  *)
(* of the four recorded datasets, knows of each whether it looked at all   *)
(* of it, and states exactly the findings such a look warrants.  A finding *)
(* that is existential (a shared record) is warranted by any prefix, one   *)
(* that is universal (no shared record, equal multisets) only by a whole   *)
(* look.                                                                   *)
(***************************************************************************)
EXTENDS Datasets

VARIABLES
    files,    \* the datasets whose hashes the plan recorded
    looked,   \* [done, lines, complete] per dataset
    outcome,  \* "pending", "checked" or "raised"
    findings  \* what check_streaming_dataset_context returned

factVars == <<files, looked, outcome, findings>>

Unseen == [done |-> FALSE, lines |-> 0, complete |-> FALSE]

Complete(x) == looked[<<x, "train">>].complete /\ looked[<<x, "eval">>].complete
Leaks(x) == SharedRecord(files[<<x, "train">>], looked[<<x, "train">>].lines,
                         files[<<x, "eval">>], looked[<<x, "eval">>].lines)
EvaluationsComplete == \A x \in Experiments : looked[<<x, "eval">>].complete
EvaluationsEqual ==
    Whole(files[<<"baseline", "eval">>]) = Whole(files[<<"candidate", "eval">>])

AlignmentRule ==
    IF EvaluationsEqual THEN "EVALUATION_ALIGNED" ELSE "EVALUATION_MISMATCH"

Warranted ==
    {Finding("EXACT_LEAKAGE", x) : x \in {y \in Experiments : Leaks(y)}}
    \cup {Finding("NO_LEAKAGE", x) :
             x \in {y \in Experiments : Complete(y) /\ ~Leaks(y)}}
    \cup {Finding("SCAN_INCOMPLETE", x) : x \in {y \in Experiments : ~Complete(y)}}
    \cup (IF EvaluationsComplete THEN {Finding(AlignmentRule, "both")} ELSE {})

Init ==
    /\ files \in FileChoices
    /\ looked = [k \in Keys |-> Unseen]
    /\ outcome = "pending"
    /\ findings = {}

Look(k, n, complete) ==
    /\ outcome = "pending" /\ ~looked[k].done
    /\ n <= Len(files[k])
    /\ complete => n = Len(files[k]) /\ Clean(files[k])
    /\ looked' = [looked EXCEPT ![k] =
                    [done |-> TRUE, lines |-> n, complete |-> complete]]
    /\ UNCHANGED <<files, outcome, findings>>

Judge ==
    /\ outcome = "pending"
    /\ \A k \in Keys : looked[k].done
    /\ outcome' = "checked"
    /\ findings' = Warranted
    /\ UNCHANGED <<files, looked>>

GiveUp ==
    /\ outcome = "pending"
    /\ outcome' = "raised"
    /\ UNCHANGED <<files, looked, findings>>

Next ==
    \/ \E k \in Keys : \E n \in 0..Len(files[k]), complete \in BOOLEAN :
         Look(k, n, complete)
    \/ Judge
    \/ GiveUp

Spec == Init /\ [][Next]_factVars
====
