------------------------------ MODULE CheckWorkflow ------------------------------
(***************************************************************************)
(* .github/workflows/claimci.yml with the programs its steps call: every   *)
(* push or reopening of a pull request starts a run of three jobs.  The    *)
(* audit job renders one commit's audit twice, builds a payload and        *)
(* publishes a check; the review job of a fork hands an advisory payload   *)
(* to the publishing job.  Steps fail, runners are lost, writes are torn   *)
(* and pushes arrive at any time.                                          *)
(*                                                                         *)
(* A repository that only uses ClaimCI runs claimci-external.yml, origin   *)
(* "external": ClaimCI comes with the action, the review is run for every  *)
(* pull request, the audit's payload is built whatever failed before it    *)
(* and the fallback is part of that step.                                  *)
(***************************************************************************)
EXTENDS Naturals, FiniteSets

CONSTANTS
    Runs,
    Commits,       \* 1..n, in the order they are pushed
    TruthChoices,  \* what the audit makes of each commit
    TextChoices,   \* the Markdown of each commit's review: see TextAssumption
    Origins,       \* where pull requests come from: "branch", "fork" or "external"
    MaxFaults,     \* bound: steps, renderers and API calls that fail
    MaxLosses      \* bound: runners that disappear

Verdicts == {"SUPPORTED", "NOT_SUPPORTED", "INSUFFICIENT_EVIDENCE"}

SummaryLimit == 60000   \* MAX_CHECK_SUMMARY_BYTES
HandoffLimit == 100000  \* characters of a job output
Envelope == 600         \* the payload around its summary

Least(a, b) == IF a < b THEN a ELSE b

\* Bytes of the Markdown; what JSON adds to those a summary keeps, a byte for each
\* line break, tab, backslash and quotation mark and five for any other control
\* character (_markdown_text replaces line breaks and quotation marks in the values
\* it shows and leaves the others); and how many of the bytes belong to characters
\* outside ASCII, which JSON may escape.
ASSUME TextAssumption ==
    /\ Commits \subseteq Nat \ {0}
    /\ 1 \in Commits /\ \A n \in Commits : 1..n \subseteq Commits
    /\ TruthChoices \subseteq [Commits -> Verdicts \cup {"ERROR"}]
    /\ \A t \in TextChoices, c \in Commits :
         /\ t[c].bytes \in Nat /\ t[c].wide \in 0..t[c].bytes
         /\ t[c].escapes \in 0..(5 * Least(t[c].bytes, SummaryLimit))
    /\ Origins \subseteq {"branch", "fork", "external"}
    /\ {MaxFaults, MaxLosses} \subseteq Nat

Jobs == {"audit", "review"}
Order == [audit  |-> << "base", "head", "python", "install",
                        "render", "payload", "publish", "ended" >>,
          review |-> << "base", "head", "python", "install",
                        "render", "payload", "encode", "ended" >>]
Setup == {"base", "head", "python", "install"}
Places == {"idle", "publish", "encode", "ended"} \cup Setup \cup {"render", "payload"}

None == "none"

\* Files that were not written, and one that was written in part.
NoText == [kind |-> None, commit |-> 0, bytes |-> 0, escapes |-> 0]
NoPayload == [conclusion |-> None, text |-> None, verdict |-> None]
TornPayload == [conclusion |-> "torn", text |-> None, verdict |-> None]

VARIABLES
    truth, text, origin,  \* the commits and the pull request
    latest,    \* the pull request's head
    event,     \* the head of the event that started each run
    faults, losses,
    at,        \* the step each job is at
    good,      \* its set-up steps that succeeded
    broken,    \* a step without continue-on-error has failed
    lost,      \* its runner is gone
    tree,      \* the commit in its pull-request directory
    json, md,  \* the views of the audit
    payload,   \* claimci-check.json
    review,    \* claimci-review.md and .json
    draft,     \* claimci-review-check.json
    handoff,   \* REVIEW_CHECK_B64
    published, \* the publishing job has ended
    refused,   \* history: checks the API did not take
    checks     \* check runs on GitHub

given == <<truth, text, origin>>
auditFiles == <<json, md, payload>>
reviewFiles == <<review, draft, handoff>>
jobVars == <<at, good, broken, lost, tree>>
vars == <<given, latest, event, faults, losses, jobVars, auditFiles, reviewFiles,
          published, refused, checks>>

External == origin = "external"

AllRuns(x) == [r \in Runs |-> x]
BothJobs(x) == [r \in Runs |-> [j \in Jobs |-> x]]

Init ==
    /\ truth \in TruthChoices /\ text \in TextChoices /\ origin \in Origins
    /\ latest = 1 /\ event = AllRuns(0)
    /\ faults = 0 /\ losses = 0
    /\ at = BothJobs("idle") /\ good = BothJobs({}) /\ broken = BothJobs(FALSE)
    /\ lost = BothJobs(FALSE) /\ tree = BothJobs(0)
    /\ json = AllRuns(None) /\ md = AllRuns(None) /\ payload = AllRuns(NoPayload)
    /\ review = AllRuns(NoText) /\ draft = AllRuns(NoText) /\ handoff = AllRuns(NoText)
    /\ published = AllRuns(FALSE) /\ refused = {} /\ checks = {}

StepAfter(j, step) == Order[j][(CHOOSE k \in DOMAIN Order[j] : Order[j][k] = step) + 1]

Advance(r, j) == at' = [at EXCEPT ![r][j] = StepAfter(j, @)]

Break(r, j) == broken' = [broken EXCEPT ![r][j] = TRUE]

\* n failures happen at once.
Faults(n) == faults + n <= MaxFaults /\ faults' = faults + n

-----------------------------------------------------------------------------------
(* Events.                                                                   *)

\* Pushes come at any time; each starts a run of its own, perhaps not one of Runs.
Push ==
    /\ latest' = latest + 1 /\ latest' \in Commits
    /\ UNCHANGED <<given, event, faults, losses, jobVars, auditFiles, reviewFiles,
                   published, refused, checks>>

\* opened, synchronize, reopened and ready_for_review start a run for the head of
\* their event, which may be behind the head of the pull request by now.
Trigger(r) ==
    /\ event[r] = 0
    /\ \E c \in 1..latest : event' = [event EXCEPT ![r] = c]
    \* research_review is skipped for a branch, and a skipped job has ended.  The
    \* external audit has no base to check out.
    /\ at' = [at EXCEPT ![r] = [audit  |-> IF External THEN "head" ELSE "base",
                                review |-> IF origin = "branch" THEN "ended" ELSE "base"]]
    /\ UNCHANGED <<given, latest, faults, losses, good, broken, lost, tree, auditFiles,
                   reviewFiles, published, refused, checks>>

\* A runner disappears with its files; the job has failed and hands off nothing.
LoseRunner(r, j) ==
    /\ at[r][j] \notin {"idle", "ended"}
    /\ losses < MaxLosses /\ losses' = losses + 1
    /\ at' = [at EXCEPT ![r][j] = "ended"]
    /\ lost' = [lost EXCEPT ![r][j] = TRUE]
    /\ Break(r, j)
    /\ handoff' = IF j = "review" THEN [handoff EXCEPT ![r] = NoText] ELSE handoff
    /\ UNCHANGED <<given, latest, event, faults, good, tree, auditFiles, review,
                   draft, published, refused, checks>>

-----------------------------------------------------------------------------------
(* Setting up, the same in both jobs but for the always() of the review's      *)
(* installation.                                                             *)

IsRun(r, j) == ~broken[r][j] \/ (j = "review" /\ at[r][j] = "install" /\ ~External)

\* Installing needs the checkout of the base, where ClaimCI is.
CanSucceed(r, j) == at[r][j] = "install" /\ ~External => "base" \in good[r][j]

\* A plausible slip: check out the branch instead of the event's commit.
SetUpLatest(r, j) ==
    /\ at[r][j] \in Setup /\ IsRun(r, j) /\ CanSucceed(r, j)
    /\ good' = [good EXCEPT ![r][j] = @ \cup {at[r][j]}]
    /\ tree' = IF at[r][j] = "head" THEN [tree EXCEPT ![r][j] = latest] ELSE tree
    /\ Advance(r, j)
    /\ UNCHANGED <<given, latest, event, faults, losses, broken, lost, auditFiles,
                   reviewFiles, published, refused, checks>>

SetUp(r, j) ==
    /\ at[r][j] \in Setup /\ IsRun(r, j) /\ CanSucceed(r, j)
    /\ good' = [good EXCEPT ![r][j] = @ \cup {at[r][j]}]
    /\ tree' = IF at[r][j] = "head" THEN [tree EXCEPT ![r][j] = event[r]] ELSE tree
    /\ Advance(r, j)
    /\ UNCHANGED <<given, latest, event, faults, losses, broken, lost, auditFiles,
                   reviewFiles, published, refused, checks>>

SetUpFails(r, j) ==
    /\ at[r][j] \in Setup /\ IsRun(r, j)
    /\ Faults(IF CanSucceed(r, j) THEN 1 ELSE 0)
    /\ Break(r, j)
    /\ Advance(r, j)
    /\ UNCHANGED <<given, latest, event, losses, good, lost, tree, auditFiles,
                   reviewFiles, published, refused, checks>>

\* A step without always() in a job that has failed.
Skip(r, j) ==
    /\ broken[r][j]
    /\ \/ at[r][j] \in Setup /\ ~IsRun(r, j)
       \/ j = "audit" /\ (at[r][j] = "render" \/ (at[r][j] = "payload" /\ ~External))
    /\ Advance(r, j)
    /\ UNCHANGED <<given, latest, event, faults, losses, good, broken, lost, tree,
                   auditFiles, reviewFiles, published, refused, checks>>

-----------------------------------------------------------------------------------
(* The audit job.                                                            *)

ExitCode(verdict) == CASE verdict = "SUPPORTED" -> 0
                       [] verdict = "NOT_SUPPORTED" -> 1
                       [] OTHER -> 2

Conclusion(verdict) == CASE verdict = "SUPPORTED" -> "success"
                         [] verdict = "NOT_SUPPORTED" -> "failure"
                         [] OTHER -> "action_required"

\* One call of the command line: its exit code and what it left on stdout.  An
\* audit that raises ClaimCIError exits like an insufficient one, a traceback
\* like an unsupported one.
Rendered(verdict) == IF verdict = "ERROR" THEN [code |-> 2, out |-> None]
                     ELSE [code |-> ExitCode(verdict), out |-> verdict]
Failed == {[code |-> c, out |-> None] : c \in {1, 2, 137}}
          \cup {[code |-> 137, out |-> "torn"]}

\* A plausible slip: the exit codes of the two views are not compared.
ViewsUncompared(j, m) ==
    [json |-> IF j.out = None THEN "unknown" ELSE j.out,
     md   |-> CASE m.out = None -> "fallback"
                [] m.out = "torn" -> "torn"
                [] OTHER -> "rendered"]

\* What the script makes of both calls.
Views(j, m) ==
    [json |-> IF j.out = None \/ j.code # m.code THEN "unknown" ELSE j.out,
     md   |-> CASE m.out = None -> "fallback"
                [] m.out = "torn" -> "torn"
                [] OTHER -> "rendered"]

RenderAudit(r) ==
    /\ at[r].audit = "render" /\ ~broken[r].audit
    /\ LET whole == Rendered(truth[tree[r].audit])
       IN \E j, m \in {whole} \cup Failed :
            /\ Faults(Cardinality({x \in {<<j, 1>>, <<m, 2>>} : x[1] # whole}))
            /\ json' = [json EXCEPT ![r] = Views(j, m).json]
            /\ md' = [md EXCEPT ![r] = Views(j, m).md]
    /\ Advance(r, "audit")
    /\ UNCHANGED <<given, latest, event, losses, good, broken, lost, tree, payload,
                   reviewFiles, published, refused, checks>>

\* What both calls have written when the shell dies, before the views are compared.
LeftBehind(verdict) ==
    {[json |-> j, md |-> None] : j \in {None, "torn"}}
    \cup {[json |-> Rendered(verdict).out, md |-> m] : m \in {None, "torn", "rendered"}}

AuditDies(r) ==
    /\ at[r].audit = "render" /\ ~broken[r].audit
    /\ Faults(1)
    /\ \E left \in LeftBehind(truth[tree[r].audit]) :
         /\ json' = [json EXCEPT ![r] = left.json]
         /\ md' = [md EXCEPT ![r] = left.md]
    /\ Break(r, "audit")
    /\ Advance(r, "audit")
    /\ UNCHANGED <<given, latest, event, losses, good, lost, tree, payload,
                   reviewFiles, published, refused, checks>>

\* The shell of a review step dies, with whatever it was to write; the review itself
\* has continue-on-error.
ReviewDies(r) ==
    /\ at[r].review \in {"render", "encode"}
    /\ Faults(1)
    /\ broken' = [broken EXCEPT ![r].review = @ \/ at[r].review = "encode"]
    /\ Advance(r, "review")
    /\ UNCHANGED <<given, latest, event, losses, good, lost, tree, auditFiles,
                   reviewFiles, published, refused, checks>>

\* A plausible slip: an unknown verdict is passed on as inconclusive.
LenientPayload(view, markdown) ==
    [conclusion |-> Conclusion(view), text |-> markdown, verdict |-> view]

IntegrationFailure == [conclusion |-> "failure", text |-> "fixed", verdict |-> None]

\* build_check_payload: a report that is not one of the three verdicts is an
\* integration failure.
Payload(view, markdown) ==
    IF view \in Verdicts /\ markdown # None
      THEN [conclusion |-> Conclusion(view), text |-> markdown, verdict |-> view]
      ELSE IntegrationFailure

\* The builder's exit status fails the step, but for the "|| true" of the external
\* one, where a builder that was never installed leaves the same payload.
BuildPayload(r) ==
    /\ at[r].audit = "payload" /\ (External \/ ~broken[r].audit)
    /\ LET new == Payload(json[r], md[r])
       IN /\ payload' = [payload EXCEPT ![r] = new]
          /\ broken' = [broken EXCEPT ![r].audit = @ \/ (new.verdict = None /\ ~External)]
    /\ Advance(r, "audit")
    /\ UNCHANGED <<given, latest, event, faults, losses, good, lost, tree, json, md,
                   reviewFiles, published, refused, checks>>

\* The file is opened for writing and not written, or written in part.  In the
\* external step only its shell can still fail the job: a failed builder is passed
\* over, and an empty file replaced.
PayloadFails(r) ==
    /\ at[r].audit = "payload" /\ (External \/ ~broken[r].audit)
    /\ Faults(1)
    /\ \/ /\ \E left \in {NoPayload, TornPayload} : payload' = [payload EXCEPT ![r] = left]
          /\ Break(r, "audit")
       \/ /\ External /\ UNCHANGED broken
          /\ \E left \in {IntegrationFailure, TornPayload} :
               payload' = [payload EXCEPT ![r] = left]
    /\ Advance(r, "audit")
    /\ UNCHANGED <<given, latest, event, losses, good, lost, tree, json, md,
                   reviewFiles, published, refused, checks>>

Check(r, name, p) ==
    [run |-> r, name |-> name, sha |-> event[r], conclusion |-> p.conclusion,
     text |-> p.text, verdict |-> p.verdict]

\* A plausible slip: publish only what the job before it made.
PublishSuccessful(r) ==
    /\ at[r].audit = "publish"
    /\ IF broken[r].audit \/ payload[r] \in {NoPayload, TornPayload}
         THEN Break(r, "audit") /\ UNCHANGED checks
         ELSE checks' = checks \cup {Check(r, "audit", payload[r])} /\ UNCHANGED broken
    /\ Advance(r, "audit")
    /\ UNCHANGED <<given, latest, event, faults, losses, good, lost, tree, auditFiles,
                   reviewFiles, published, refused>>

\* if: always().  An empty payload is replaced, a torn one is refused by the API;
\* without a fallback an empty one is, too.
PublishAudit(r) ==
    /\ at[r].audit = "publish"
    /\ LET posted == IF payload[r] = NoPayload /\ ~External THEN IntegrationFailure
                     ELSE payload[r]
       IN IF posted \in {NoPayload, TornPayload}
            THEN Break(r, "audit") /\ UNCHANGED checks
            ELSE checks' = checks \cup {Check(r, "audit", posted)} /\ UNCHANGED broken
    /\ Advance(r, "audit")
    /\ UNCHANGED <<given, latest, event, faults, losses, good, lost, tree, auditFiles,
                   reviewFiles, published, refused>>

PublishFails(r) ==
    /\ at[r].audit = "publish"
    /\ Faults(1) /\ refused' = refused \cup {<<r, "audit">>}
    /\ Break(r, "audit")
    /\ Advance(r, "audit")
    /\ UNCHANGED <<given, latest, event, losses, good, lost, tree, auditFiles,
                   reviewFiles, published, checks>>

-----------------------------------------------------------------------------------
(* The review job.  Every step from the installation on is always() run, in the *)
(* external workflow every step after it.                                    *)

Fixed == [kind |-> "fixed", commit |-> 0, bytes |-> 300, escapes |-> 6]
Fallback == [kind |-> "fallback", commit |-> 0, bytes |-> 200, escapes |-> 5]
Whole(c) == [kind |-> "rendered", commit |-> c, bytes |-> text[c].bytes,
             escapes |-> text[c].escapes]

\* Half a text, with all that JSON escapes in it or with none of it.
Torn(c) ==
    {[kind |-> "torn", commit |-> c, bytes |-> text[c].bytes \div 2, escapes |-> n] :
        n \in {0, Least(text[c].escapes, 5 * (text[c].bytes \div 2))}}

\* claimci review writes both views or, without its inputs, none; it can fail
\* between them and within them.  With a torn JSON nothing is shown.
RunReview(r) ==
    /\ at[r].review = "render"
    /\ LET usual == IF {"base", "install", "head"} \subseteq good[r].review
                      THEN Whole(tree[r].review) ELSE Fallback
           unusual == {Fallback, NoText} \cup
                        (IF usual = Fallback THEN {} ELSE Torn(tree[r].review))
       IN \/ review' = [review EXCEPT ![r] = usual] /\ Faults(0)
          \/ /\ Faults(1)
             /\ \E left \in unusual : review' = [review EXCEPT ![r] = left]
    /\ Advance(r, "review")
    /\ UNCHANGED <<given, latest, event, losses, good, broken, lost, tree, auditFiles,
                   draft, handoff, published, refused, checks>>

\* _bounded_summary; nothing to show is a fixed text of its own.
Bounded(t) == IF t = NoText THEN Fixed ELSE [t EXCEPT !.bytes = Least(@, SummaryLimit)]

\* The module that builds the payload is installed with ClaimCI.
BuildDraft(r) ==
    /\ at[r].review = "payload"
    /\ draft' = [draft EXCEPT ![r] =
                   IF "install" \in good[r].review THEN Bounded(review[r]) ELSE Fixed]
    /\ Advance(r, "review")
    /\ UNCHANGED <<given, latest, event, faults, losses, good, broken, lost, tree,
                   auditFiles, review, handoff, published, refused, checks>>

\* A failed or torn write is replaced; the step may also die.
DraftFails(r) ==
    /\ at[r].review = "payload"
    /\ Faults(1)
    /\ \/ draft' = [draft EXCEPT ![r] = Fixed] /\ UNCHANGED broken
       \/ Break(r, "review") /\ UNCHANGED draft
    /\ Advance(r, "review")
    /\ UNCHANGED <<given, latest, event, losses, good, lost, tree, auditFiles, review,
                   handoff, published, refused, checks>>

\* A plausible slip: ensure_ascii=True.  A character of three bytes becomes six.
EscapedSize(d) ==
    Envelope + d.bytes + d.escapes + (IF d.commit = 0 THEN 0 ELSE text[d.commit].wide)

\* json.dumps(ensure_ascii=False).
JsonSize(d) == Envelope + d.bytes + d.escapes

Base64Size(n) == 4 * ((n + 2) \div 3)

\* An oversized payload is dropped.
Encode(r) ==
    /\ at[r].review = "encode"
    /\ LET d == draft[r]
       IN handoff' = [handoff EXCEPT ![r] =
                        IF d = NoText \/ Base64Size(JsonSize(d)) > HandoffLimit
                          THEN NoText ELSE d]
    /\ Advance(r, "review")
    /\ UNCHANGED <<given, latest, event, faults, losses, good, broken, lost, tree,
                   auditFiles, review, draft, published, refused, checks>>

-----------------------------------------------------------------------------------
(* The publishing job: if: always(), after both others.                      *)

\* A plausible slip: a publisher without always().
ReadyAfterSuccess(r) == ~published[r] /\ \A j \in Jobs : at[r][j] = "ended" /\ ~broken[r][j]

Ready(r) == ~published[r] /\ \A j \in Jobs : at[r][j] = "ended"

Valid(h) == h # NoText /\ h.bytes <= SummaryLimit

PublishReview(r) ==
    /\ Ready(r)
    /\ published' = [published EXCEPT ![r] = TRUE]
    /\ LET shown == IF Valid(handoff[r]) THEN handoff[r] ELSE Fixed
       IN checks' = checks \cup
            {Check(r, "review",
                   [conclusion |-> "neutral", text |-> shown, verdict |-> None])}
    /\ UNCHANGED <<given, latest, event, faults, losses, jobVars, auditFiles,
                   reviewFiles, refused>>

\* continue-on-error: the API or the runner fails.
PublishReviewFails(r) ==
    /\ Ready(r)
    /\ Faults(1) /\ refused' = refused \cup {<<r, "review">>}
    /\ published' = [published EXCEPT ![r] = TRUE]
    /\ UNCHANGED <<given, latest, event, losses, jobVars, auditFiles, reviewFiles,
                   checks>>

-----------------------------------------------------------------------------------

Step(r) ==
    \/ \E j \in Jobs : SetUp(r, j) \/ SetUpFails(r, j) \/ Skip(r, j)
    \/ RenderAudit(r) \/ AuditDies(r) \/ BuildPayload(r) \/ PayloadFails(r)
    \/ PublishAudit(r) \/ PublishFails(r)
    \/ RunReview(r) \/ ReviewDies(r) \/ BuildDraft(r) \/ DraftFails(r) \/ Encode(r)
    \/ PublishReview(r) \/ PublishReviewFails(r)

Next ==
    \/ Push
    \/ \E r \in Runs : \/ Trigger(r) \/ Step(r)
                       \/ \E j \in Jobs : LoseRunner(r, j)

Spec == Init /\ [][Next]_vars

\* GitHub runs every step of a run it has started.
FairSpec == Spec /\ \A r \in Runs : WF_vars(Step(r))

-----------------------------------------------------------------------------------
(* Properties.                                                               *)

ChecksOf(r, name) == {c \in checks : c.run = r /\ c.name = name}

\* The audit job ended on its runner with the API available.
AuditAnswered(r) ==
    at[r].audit = "ended" /\ ~lost[r].audit /\ <<r, "audit">> \notin refused

\* A check that states a verdict states the one the audit gives to the very
\* commit the check is attached to, whatever was pushed while its run went on.
VerdictOfItsCommit ==
    \A c \in checks :
        c.verdict # None =>
            c.verdict = truth[c.sha] /\ c.conclusion = Conclusion(truth[c.sha])

\* A passing check shows the rendered audit: one renderer alone cannot pass.  The
\* external workflow builds the payload although the rendering step died, so there
\* the job may say that something failed instead.
SuccessShowsItsAudit ==
    \A c \in checks : c.conclusion = "success" =>
        c.text = "rendered" \/ (External /\ broken[c.run].audit)

\* Whatever failed before it, the publishing step leaves exactly one check, and
\* a failing one if anything failed, unless the payload was torn; the external one
\* leaves none either if the step with the fallback died, and states the verdict that
\* was there when rendering did.
FailureLeavesACheck ==
    \A r \in Runs :
        AuditAnswered(r) /\ payload[r] # TornPayload /\ (External => payload[r] # NoPayload) =>
            /\ Cardinality(ChecksOf(r, "audit")) = 1
            /\ (IF External THEN {"head", "python", "install"} \ good[r].audit # {} ELSE broken[r].audit) =>
                   \A c \in ChecksOf(r, "audit") : c.conclusion = "failure"

\* The audit job of this repository fails exactly when it publishes no verdict: a
\* verdict never controls the job, and an integration failure never passes for
\* success.  (The external one passes over the builder's exit status.)
JobReflectsIntegration ==
    \A r \in Runs :
        at[r].audit = "ended" /\ ~lost[r].audit /\ ~External =>
            (broken[r].audit <=> \A c \in ChecksOf(r, "audit") : c.verdict \notin Verdicts)

\* A job output takes three bytes of a payload in four characters.
HasRoom(c) ==
    Envelope + Least(text[c].bytes, SummaryLimit) + text[c].escapes
        <= 3 * (HandoffLimit \div 4)

\* The publishing job posts one review check per run, on the commit of its event,
\* whatever became of the review job.  A review that nothing disturbed arrives
\* through the draft, the job output and the validation, bounded but not replaced
\* and with both limits exactly met included, unless what JSON escapes in it leaves
\* the hand-off no room: then the fixed text is posted.
ReviewArrives ==
    \A r \in Runs :
        published[r] /\ <<r, "review">> \notin refused =>
            /\ Cardinality(ChecksOf(r, "review")) = 1
            /\ \A c \in ChecksOf(r, "review") :
                 /\ c.text.commit \in {0, c.sha}
                 /\ origin # "branch" /\ faults = 0 /\ losses = 0 =>
                      c.text = IF HasRoom(c.sha) THEN Bounded(Whole(c.sha)) ELSE Fixed

\* Every run that starts reaches its publishing job and ends it.
Settles == \A r \in Runs : event[r] # 0 ~> published[r]
====
