------------------------------- MODULE PassiveLook -------------------------------
(***************************************************************************)
(* What reading a passive file promises its caller: the content handed     *)
(* over is one that the path really named, whole and at one moment, while  *)
(* the call was running, and it is never longer than the caller's bound.   *)
(* Nothing recorded earlier says what the content should be.               *)
(***************************************************************************)
EXTENDS Naturals, Sequences

CONSTANTS
    Contents,   \* what a file may hold, as sequences of bytes
    MaxBytes    \* max_bytes of the call

VARIABLES
    shown,      \* {c} while the path names a regular file holding c, else {}
    seen,       \* the contents shown since the call began
    outcome,    \* "pending", "captured" or "refused"
    captured    \* the content handed over

lookVars == <<shown, seen, outcome, captured>>

Shows == {{}} \cup {{c} : c \in Contents}

Init ==
    /\ shown \in Shows
    /\ seen = shown
    /\ outcome = "pending" /\ captured = <<>>

Change ==
    /\ shown' \in Shows
    /\ seen' = seen \cup shown'
    /\ UNCHANGED <<outcome, captured>>

Hand ==
    /\ outcome = "pending"
    /\ outcome' = "captured"
    /\ captured' \in {c \in seen : Len(c) <= MaxBytes}
    /\ UNCHANGED <<shown, seen>>

Refuse ==
    /\ outcome = "pending"
    /\ outcome' = "refused"
    /\ UNCHANGED <<shown, seen, captured>>

Next == Change \/ Hand \/ Refuse

SafeSpec == Init /\ [][Next]_lookVars

\* A call is answered, whatever becomes of the file meanwhile.
Spec == SafeSpec /\ <>(outcome # "pending")
====
