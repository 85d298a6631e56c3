----------------------------- MODULE MCPassiveCapture -----------------------------
(* Instances of PassiveCapture small enough for TLC. *)
EXTENDS PassiveCapture

CONSTANTS f1, f2, d1, d2

TwoFiles == {f1, f2}
TwoDirs == {d1, d2}

\* Below, at and past a bound of two bytes, with two versions of equal length.
AroundTheBound ==
    {<<>>, <<"a", "a">>, <<"b", "b">>, <<"a", "b", "a">>}

\* Identities are only ever compared: those first bound are called f1 and d1.
MCInit == Init /\ tree.root # d2 /\ tree.parent # d2 /\ tree.entry # f2

MCSpec == MCInit /\ [][Next]_passiveVars /\ WF_passiveVars(Program)
====
