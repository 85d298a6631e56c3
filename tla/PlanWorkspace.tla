------------------------------ MODULE PlanWorkspace ------------------------------
(***************************************************************************)
(* What ephemeral execution promises about the scratch directory named by  *)
(* a plan identity: it is an exclusive workspace.  One execution holds it  *)
(* at a time, an Audit result leaves only the execution that held it until *)
(* then and gave it back, and a workspace whose holder was killed, could   *)
(* not clean up or was robbed of it stays blocked.                         *)
(***************************************************************************)
CONSTANTS
    Executions,
    PlanIds

Free == "free"
Stuck == "stuck"

VARIABLES
    holder,  \* who holds the workspace of each plan identity
    answer   \* what each execution has told its caller

workspaceVars == <<holder, answer>>

Init ==
    /\ holder = [p \in PlanIds |-> Free]
    /\ answer = [e \in Executions |-> "open"]

Acquire(e, p) ==
    /\ answer[e] = "open"
    /\ holder[p] = Free
    /\ \A q \in PlanIds : holder[q] # e
    /\ holder' = [holder EXCEPT ![p] = e]
    /\ UNCHANGED answer

\* The only way to an Audit result.
Report(e, p) ==
    /\ answer[e] = "open"
    /\ holder[p] = e
    /\ holder' = [holder EXCEPT ![p] = Free]
    /\ answer' = [answer EXCEPT ![e] = "audited"]

\* A typed refusal, with the workspace given back, stuck, or never held.
Refuse(e) ==
    /\ answer[e] = "open"
    /\ \E blame \in {"partial", "unavailable", "crashed"} :
         answer' = [answer EXCEPT ![e] = blame]
    /\ \E left \in {Free, Stuck} :
         holder' = [p \in PlanIds |-> IF holder[p] = e THEN left ELSE holder[p]]

\* Another process replaces the directory.
Rob(p) ==
    /\ holder' = [holder EXCEPT ![p] = Stuck]
    /\ UNCHANGED answer

Next ==
    \/ \E e \in Executions, p \in PlanIds : Acquire(e, p) \/ Report(e, p)
    \/ \E e \in Executions : Refuse(e)
    \/ \E p \in PlanIds : Rob(p)

Spec == Init /\ [][Next]_workspaceVars
====
