----------------------------- MODULE MCCheckWorkflow -----------------------------
(***************************************************************************)
(* Small pull requests for CheckWorkflow.                                  *)
(***************************************************************************)
EXTENDS CheckWorkflow

\* Two commits of which the audit makes different things, so that a verdict on
\* the wrong one shows; every outcome is one of the first commit.
TwoCommits == {1, 2}
EveryTruth ==
    {<<"SUPPORTED", "NOT_SUPPORTED">>, <<"NOT_SUPPORTED", "SUPPORTED">>,
     <<"INSUFFICIENT_EVIDENCE", "SUPPORTED">>, <<"ERROR", "INSUFFICIENT_EVIDENCE">>}

\* A short review, one of exactly the limit with as many escapes as the hand-off has
\* room for, one that is cut and has one more, and one cut and mostly outside ASCII.
ShortText == [bytes |-> 3000, escapes |-> 60, wide |-> 0]
LimitText == [bytes |-> 60000, escapes |-> 14400, wide |-> 3000]
TabbedText == [bytes |-> 90000, escapes |-> 14401, wide |-> 0]
LongText == [bytes |-> 90000, escapes |-> 2000, wide |-> 48000]
EveryText == {<<LimitText, TabbedText>>, <<TabbedText, ShortText>>, <<ShortText, LongText>>}

AnyOrigin == {"branch", "fork", "external"}
====
