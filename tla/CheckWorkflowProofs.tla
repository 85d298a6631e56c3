--------------------------- MODULE CheckWorkflowProofs ---------------------------
(***************************************************************************)
(* Proofs about CheckWorkflow, for any runs, commits, texts and numbers of *)
(* failures: which checks a run leaves, and on which commit.               *)
(*                                                                         *)
(* The invariant speaks of one run at a time, of its audit job and of its  *)
(* review job, and of the checks as what these jobs have posted.           *)
(***************************************************************************)
EXTENDS CheckWorkflow, FiniteSetTheorems, TLAPS

-----------------------------------------------------------------------------------
(* The invariant                                                             *)

Kinds == {None, "fixed", "fallback", "torn", "rendered"}
Texts == [kind : Kinds, commit : Commits \cup {0}, bytes : Nat, escapes : Nat]
Payloads == [conclusion : {None, "torn", "success", "failure", "action_required"},
             text : Kinds, verdict : Verdicts \cup {None}]

TypeOK ==
  /\ truth \in TruthChoices /\ text \in TextChoices /\ origin \in Origins
  /\ latest \in Commits /\ event \in [Runs -> Commits \cup {0}]
  /\ faults \in Nat /\ losses \in Nat
  /\ at \in [Runs -> [Jobs -> Places]]
  /\ good \in [Runs -> [Jobs -> SUBSET Setup]]
  /\ broken \in [Runs -> [Jobs -> BOOLEAN]] /\ lost \in [Runs -> [Jobs -> BOOLEAN]]
  /\ tree \in [Runs -> [Jobs -> Commits \cup {0}]]
  /\ json \in [Runs -> Verdicts \cup {None, "unknown", "torn"}]
  /\ md \in [Runs -> Kinds] /\ payload \in [Runs -> Payloads]
  /\ review \in [Runs -> Texts] /\ draft \in [Runs -> Texts] /\ handoff \in [Runs -> Texts]
  /\ published \in [Runs -> BOOLEAN] /\ refused \subseteq Runs \X Jobs

\* The set-up steps a job is past.
Past(step) ==
  IF step \in {"idle", "base"} THEN {}
  ELSE IF step = "head" THEN {"base"}
  ELSE IF step = "python" THEN {"base", "head"}
  ELSE IF step = "install" THEN {"base", "head", "python"}
  ELSE Setup

\* The external audit has no base to check out.
Needed(j) == IF j = "audit" THEN {"head", "python", "install"} ELSE Setup

\* A run has an event once its jobs are at work; what a job has checked out is the event's
\* commit, and one that has not failed has done every step it is past.
Job(r, j) ==
  /\ event[r] = 0 <=> at[r][j] = "idle"
  /\ event[r] = 0 => good[r][j] = {} /\ ~broken[r][j]
  /\ "head" \in good[r][j] => tree[r][j] = event[r]
  /\ ~broken[r][j] /\ (j = "review" => origin # "branch") =>
       Past(at[r][j]) \cap Needed(j) \subseteq good[r][j]

\* The payload that is posted, and what the audit's check says.
Posted(r) == IF payload[r] = NoPayload /\ ~External THEN IntegrationFailure ELSE payload[r]
AuditCheck(r) == Check(r, "audit", Posted(r))
Unposted == {NoPayload, TornPayload}
AuditPosts(r) == AuditAnswered(r) /\ Posted(r) \notin Unposted

Failures == {NoPayload, TornPayload, IntegrationFailure}

\* A payload states the verdict of the views, which is the audit's verdict on the event's
\* commit, or it is one of a failure.
Audit(r) ==
  /\ at[r]["audit"] \in {"idle", "render"} \cup Setup => json[r] = None /\ md[r] = None
  /\ at[r]["audit"] \in {"idle", "render", "payload"} \cup Setup => payload[r] = NoPayload
  /\ json[r] # None => Needed("audit") \subseteq good[r]["audit"]
  /\ json[r] \in Verdicts => json[r] = truth[event[r]]
  /\ json[r] = "SUPPORTED" => md[r] \in {None, "rendered"} \/ broken[r]["audit"]
  /\ payload[r] \notin Failures =>
       /\ json[r] \in Verdicts
       /\ payload[r] = [conclusion |-> Conclusion(json[r]), text |-> md[r], verdict |-> json[r]]
       /\ json[r] = "SUPPORTED" => md[r] = "rendered" \/ (External /\ broken[r]["audit"])
  /\ at[r]["audit"] = "publish" /\ ~External => (broken[r]["audit"] <=> payload[r] \in Failures)
  /\ <<r, "audit">> \in refused \/ lost[r]["audit"] => at[r]["audit"] = "ended"
  /\ AuditPosts(r) => AuditCheck(r) \in checks
  /\ at[r]["audit"] = "ended" /\ ~lost[r]["audit"] /\ ~External =>
       (broken[r]["audit"] <=> <<r, "audit">> \in refused \/ payload[r] \in Failures)

Shown(r) == IF Valid(handoff[r]) THEN handoff[r] ELSE Fixed
ReviewCheck(r) ==
  Check(r, "review", [conclusion |-> "neutral", text |-> Shown(r), verdict |-> None])
ReviewPosts(r) == published[r] /\ <<r, "review">> \notin refused

\* Nothing has failed.
Quiet == faults = 0 /\ losses = 0

\* The whole review, bounded, if the hand-off has room for it.
Sent(c) == IF HasRoom(c) THEN Bounded(Whole(c)) ELSE NoText

\* What the review hands on speaks of the event's commit or of none, and if nothing failed
\* it is the whole review.
Review(r) ==
  /\ {review[r].commit, draft[r].commit, handoff[r].commit} \subseteq {0, event[r]}
  /\ published[r] => at[r]["review"] = "ended"
  /\ <<r, "review">> \in refused => published[r]
  /\ ReviewPosts(r) => ReviewCheck(r) \in checks
  /\ Quiet /\ origin # "branch" /\ event[r] # 0 =>
       /\ ~broken[r]["review"]
       /\ at[r]["review"] \in {"payload", "encode", "ended"} => review[r] = Whole(event[r])
       /\ at[r]["review"] \in {"encode", "ended"} => draft[r] = Bounded(Whole(event[r]))
       /\ at[r]["review"] = "ended" => handoff[r] = Sent(event[r])

Row(r) == Job(r, "audit") /\ Job(r, "review") /\ Audit(r) /\ Review(r)

\* Every check is the one of a job that posts.
Known ==
  \A c \in checks : \E r \in Runs :
     \/ AuditPosts(r) /\ c = AuditCheck(r)
     \/ ReviewPosts(r) /\ c = ReviewCheck(r)

IInv == TypeOK /\ Known /\ \A r \in Runs : Row(r)

-----------------------------------------------------------------------------------
(* Lemmas about steps, texts and events                                      *)

LEMMA AuditSteps ==
  /\ StepAfter("audit", "base") = "head" /\ StepAfter("audit", "head") = "python"
  /\ StepAfter("audit", "python") = "install" /\ StepAfter("audit", "install") = "render"
  /\ StepAfter("audit", "render") = "payload" /\ StepAfter("audit", "payload") = "publish"
  /\ StepAfter("audit", "publish") = "ended"
BY DEF StepAfter, Order

LEMMA ReviewSteps ==
  /\ StepAfter("review", "base") = "head" /\ StepAfter("review", "head") = "python"
  /\ StepAfter("review", "python") = "install" /\ StepAfter("review", "install") = "render"
  /\ StepAfter("review", "render") = "payload" /\ StepAfter("review", "payload") = "encode"
  /\ StepAfter("review", "encode") = "ended"
BY DEF StepAfter, Order

\* What fits the hand-off: three bytes in every four characters.
LEMMA HandoffFits ==
  ASSUME NEW n \in Nat
  PROVE  Base64Size(n) <= HandoffLimit <=> n <= 3 * (HandoffLimit \div 4)
BY DEF Base64Size, HandoffLimit

LEMMA CommitsBelow == ASSUME NEW n \in Commits, NEW c \in 1..n PROVE c \in Commits /\ c # 0
BY TextAssumption

LEMMA PairIsFinite == ASSUME NEW x, NEW y PROVE IsFiniteSet({x, y})
<1>1. IsFiniteSet({x}) /\ {x, y} = {x} \cup {y}
  BY FS_Singleton
<1>2. IsFiniteSet({x} \cup {y})
  BY <1>1, FS_AddElement
<1> QED
  BY <1>1, <1>2

LEMMA TruthType ==
  ASSUME TypeOK, NEW c \in Commits PROVE truth[c] \in Verdicts \cup {"ERROR"}
<1>1. TruthChoices \subseteq [Commits -> Verdicts \cup {"ERROR"}]
  BY TextAssumption
<1> QED
  BY <1>1 DEF TypeOK

LEMMA TextType ==
  ASSUME TypeOK, NEW c \in Commits
  PROVE  text[c].bytes \in Nat /\ text[c].escapes \in Nat /\ c # 0
<1>1. /\ text[c].bytes \in Nat /\ c # 0
      /\ text[c].escapes \in 0..(5 * Least(text[c].bytes, SummaryLimit))
  BY TextAssumption DEF TypeOK
<1>2. 5 * Least(text[c].bytes, SummaryLimit) \in Nat
  BY <1>1 DEF Least, SummaryLimit
<1> QED
  BY <1>1, <1>2

\* A job goes on to a step, and no other job moves.
Moves(r, j, step) ==
  /\ at' \in [Runs -> [Jobs -> Places]] /\ at'[r][j] = step
  /\ \A s \in Runs, k \in Jobs : s # r \/ k # j => at'[s][k] = at[s][k]

LEMMA Advances ==
  ASSUME TypeOK, NEW r \in Runs, NEW j \in Jobs, Advance(r, j),
         StepAfter(j, at[r][j]) \in Places
  PROVE  Moves(r, j, StepAfter(j, at[r][j]))
BY DEF TypeOK, Advance, Moves

\* A job has failed, or nothing about failures has changed.
Broke(r, j) ==
  /\ broken' \in [Runs -> [Jobs -> BOOLEAN]] /\ broken'[r][j]
  /\ \A s \in Runs, k \in Jobs : s # r \/ k # j => broken'[s][k] = broken[s][k]

LEMMA JobBreaks == ASSUME TypeOK, NEW r \in Runs, NEW j \in Jobs, Break(r, j) PROVE Broke(r, j)
BY DEF TypeOK, Break, Broke

-----------------------------------------------------------------------------------
(* What leaves a job alone                                                   *)

\* Nothing the audit job of s depends on has changed.
AuditSame(s) ==
  /\ UNCHANGED given /\ event'[s] = event[s]
  /\ at'[s]["audit"] = at[s]["audit"] /\ good'[s]["audit"] = good[s]["audit"]
  /\ broken'[s]["audit"] = broken[s]["audit"] /\ lost'[s]["audit"] = lost[s]["audit"]
  /\ tree'[s]["audit"] = tree[s]["audit"]
  /\ json'[s] = json[s] /\ md'[s] = md[s] /\ payload'[s] = payload[s]
  /\ <<s, "audit">> \in refused' <=> <<s, "audit">> \in refused

LEMMA AuditFrame ==
  ASSUME NEW s \in Runs, Job(s, "audit"), Audit(s), AuditSame(s), checks \subseteq checks'
  PROVE  /\ Job(s, "audit")' /\ Audit(s)'
         /\ AuditPosts(s)' <=> AuditPosts(s)
         /\ AuditCheck(s)' = AuditCheck(s)
<1>1. (Posted(s))' = Posted(s) /\ AuditCheck(s)' = AuditCheck(s)
      /\ (AuditPosts(s)' <=> AuditPosts(s))
  BY DEF AuditSame, given, Posted, External, AuditCheck, Check, AuditPosts, AuditAnswered
<1>2. Job(s, "audit")'
  BY DEF Job, AuditSame, given
<1>3. Audit(s)'
  BY <1>1 DEF Audit, AuditSame, given, External
<1> QED
  BY <1>1, <1>2, <1>3

\* Nothing the review job of s depends on has changed, but for new failures.
ReviewSame(s) ==
  /\ UNCHANGED given /\ event'[s] = event[s]
  /\ at'[s]["review"] = at[s]["review"] /\ good'[s]["review"] = good[s]["review"]
  /\ broken'[s]["review"] = broken[s]["review"]
  /\ tree'[s]["review"] = tree[s]["review"]
  /\ review'[s] = review[s] /\ draft'[s] = draft[s] /\ handoff'[s] = handoff[s]
  /\ published'[s] = published[s]
  /\ <<s, "review">> \in refused' <=> <<s, "review">> \in refused

LEMMA ReviewFrame ==
  ASSUME NEW s \in Runs, Job(s, "review"), Review(s), ReviewSame(s), checks \subseteq checks',
         Quiet' => Quiet
  PROVE  /\ Job(s, "review")' /\ Review(s)'
         /\ ReviewPosts(s)' <=> ReviewPosts(s)
         /\ ReviewCheck(s)' = ReviewCheck(s)
<1>1. ReviewCheck(s)' = ReviewCheck(s) /\ (ReviewPosts(s)' <=> ReviewPosts(s))
  BY DEF ReviewSame, ReviewCheck, Check, Shown, Valid, ReviewPosts
<1>2. Job(s, "review")'
  BY DEF Job, ReviewSame, given
<1>3. Whole(event[s])' = Whole(event[s])
      /\ Bounded(Whole(event[s]))' = Bounded(Whole(event[s]))
      /\ Sent(event[s])' = Sent(event[s])
  BY DEF ReviewSame, given, Whole, Bounded, Sent, HasRoom
<1>4. Review(s)'
  BY <1>1, <1>3 DEF Review, ReviewSame, given
<1> QED
  BY <1>1, <1>2, <1>4

\* What is known of the old checks stays known, and a new one is the check of a job that posts.
LEMMA KnownFrame ==
  ASSUME Known, NEW r \in Runs,
         \A s \in Runs : AuditPosts(s) => AuditPosts(s)' /\ AuditCheck(s)' = AuditCheck(s),
         \A s \in Runs : ReviewPosts(s) => ReviewPosts(s)' /\ ReviewCheck(s)' = ReviewCheck(s),
         \A c \in checks' \ checks : \/ AuditPosts(r)' /\ c = AuditCheck(r)'
                                     \/ ReviewPosts(r)' /\ c = ReviewCheck(r)'
  PROVE  Known'
<1> SUFFICES ASSUME NEW c \in checks'
             PROVE  \E s \in Runs : \/ AuditPosts(s)' /\ c = AuditCheck(s)'
                                    \/ ReviewPosts(s)' /\ c = ReviewCheck(s)'
  BY DEF Known
<1>1. CASE c \in checks
  BY <1>1 DEF Known
<1>2. CASE c \notin checks
  BY <1>2
<1> QED
  BY <1>1, <1>2

\* A step of the audit job.
LEMMA AuditKeeps ==
  ASSUME IInv, TypeOK', NEW r \in Runs, at[r]["audit"] # "ended",
         \A s \in Runs : s # r => AuditSame(s), \A s \in Runs : ReviewSame(s),
         checks \subseteq checks',
         \A c \in checks' \ checks : AuditPosts(r)' /\ c = AuditCheck(r)',
         Quiet' => Quiet, Job(r, "audit")', Audit(r)'
  PROVE  IInv'
<1>1. \A s \in Runs : Row(s)
  BY DEF IInv
<1>2. ASSUME NEW s \in Runs PROVE Job(s, "review")' /\ Review(s)'
                                  /\ (ReviewPosts(s)' <=> ReviewPosts(s))
                                  /\ ReviewCheck(s)' = ReviewCheck(s)
  BY <1>1, ReviewFrame DEF Row
<1>3. ASSUME NEW s \in Runs, s # r
      PROVE  Job(s, "audit")' /\ Audit(s)' /\ (AuditPosts(s)' <=> AuditPosts(s))
             /\ AuditCheck(s)' = AuditCheck(s)
  BY <1>1, <1>3, AuditFrame DEF Row
<1>4. ~AuditPosts(r)
  BY DEF AuditPosts, AuditAnswered
<1>5. Known'
  BY <1>2, <1>3, <1>4, KnownFrame DEF IInv
<1>6. \A s \in Runs : Row(s)'
  BY <1>2, <1>3 DEF Row
<1> QED
  BY <1>5, <1>6 DEF IInv

\* A step of the review job, or of the publishing job.
LEMMA ReviewKeeps ==
  ASSUME IInv, TypeOK', NEW r \in Runs, ~published[r],
         \A s \in Runs : s # r => ReviewSame(s), \A s \in Runs : AuditSame(s),
         checks \subseteq checks',
         \A c \in checks' \ checks : ReviewPosts(r)' /\ c = ReviewCheck(r)',
         Quiet' => Quiet, Job(r, "review")', Review(r)'
  PROVE  IInv'
<1>1. \A s \in Runs : Row(s)
  BY DEF IInv
<1>2. ASSUME NEW s \in Runs, s # r
      PROVE  Job(s, "review")' /\ Review(s)' /\ (ReviewPosts(s)' <=> ReviewPosts(s))
             /\ ReviewCheck(s)' = ReviewCheck(s)
  BY <1>1, <1>2, ReviewFrame DEF Row
<1>3. ASSUME NEW s \in Runs
      PROVE  Job(s, "audit")' /\ Audit(s)' /\ (AuditPosts(s)' <=> AuditPosts(s))
             /\ AuditCheck(s)' = AuditCheck(s)
  BY <1>1, AuditFrame DEF Row
<1>4. ~ReviewPosts(r)
  BY DEF ReviewPosts
<1>5. Known'
  BY <1>2, <1>3, <1>4, KnownFrame DEF IInv
<1>6. \A s \in Runs : Row(s)'
  BY <1>2, <1>3 DEF Row
<1> QED
  BY <1>5, <1>6 DEF IInv

LEMMA FaultsAdd == ASSUME TypeOK, NEW n \in Nat, Faults(n) PROVE faults' \in Nat /\ faults' >= n /\ faults' >= faults
BY DEF TypeOK, Faults

-----------------------------------------------------------------------------------
(* The audit job                                                             *)

\* What the steps of the audit job leave alone.
OnlyAudit(r) ==
  /\ UNCHANGED <<given, latest, event, losses, good, lost, tree, reviewFiles, published>>
  /\ faults' \in Nat /\ faults' >= faults
  /\ at' \in [Runs -> [Jobs -> Places]] /\ broken' \in [Runs -> [Jobs -> BOOLEAN]]
  /\ \A s \in Runs, k \in Jobs : s # r \/ k # "audit" =>
        at'[s][k] = at[s][k] /\ broken'[s][k] = broken[s][k]
  /\ \A s \in Runs : s # r => json'[s] = json[s] /\ md'[s] = md[s] /\ payload'[s] = payload[s]
  /\ \A s \in Runs, k \in Jobs : s # r \/ k # "audit" =>
        (<<s, k>> \in refused' <=> <<s, k>> \in refused)

LEMMA OnlyAuditKeeps ==
  ASSUME IInv, NEW r \in Runs, at[r]["audit"] # "ended", OnlyAudit(r),
         checks \subseteq checks',
         \A c \in checks' \ checks : AuditPosts(r)' /\ c = AuditCheck(r)',
         refused' \subseteq Runs \X Jobs,
         json' \in [Runs -> Verdicts \cup {None, "unknown", "torn"}],
         md' \in [Runs -> Kinds], payload' \in [Runs -> Payloads],
         Job(r, "audit")', Audit(r)'
  PROVE  IInv'
<1>1. TypeOK'
  BY DEF IInv, TypeOK, OnlyAudit, given, reviewFiles
<1>2. \A s \in Runs : s # r => AuditSame(s)
  BY DEF OnlyAudit, AuditSame, Jobs
<1>3. \A s \in Runs : ReviewSame(s)
  BY DEF OnlyAudit, ReviewSame, Jobs, reviewFiles
<1>4. Quiet' => Quiet
  BY DEF OnlyAudit, Quiet, IInv, TypeOK
<1> QED
  BY <1>1, <1>2, <1>3, <1>4, AuditKeeps DEF OnlyAudit

LEMMA RenderKeeps == ASSUME IInv, NEW r \in Runs, RenderAudit(r) PROVE IInv'
<1> DEFINE whole == Rendered(truth[tree[r]["audit"]])
<1>1. at[r]["audit"] = "render" /\ ~broken[r]["audit"] /\ Row(r) /\ TypeOK
  BY DEF RenderAudit, IInv
<1>2. PICK j \in {whole} \cup Failed, m \in {whole} \cup Failed :
        /\ Faults(Cardinality({x \in {<<j, 1>>, <<m, 2>>} : x[1] # whole}))
        /\ json' = [json EXCEPT ![r] = Views(j, m).json]
        /\ md' = [md EXCEPT ![r] = Views(j, m).md]
  BY DEF RenderAudit
<1>3. Cardinality({x \in {<<j, 1>>, <<m, 2>>} : x[1] # whole}) \in Nat
  <2>1. IsFiniteSet({<<j, 1>>, <<m, 2>>})
    BY PairIsFinite
  <2> QED
    BY <2>1, FS_Subset, FS_CardinalityType
<1>4. /\ "head" \in good[r]["audit"] /\ Needed("audit") \subseteq good[r]["audit"]
      /\ tree[r]["audit"] = event[r] /\ event[r] \in Commits
  <2>1. Past("render") = Setup /\ Needed("audit") \subseteq Setup
    BY DEF Past, Needed, Setup
  <2>2. Past("render") \cap Needed("audit") \subseteq good[r]["audit"]
    BY <1>1 DEF Row, Job
  <2>3. "head" \in good[r]["audit"]
    BY <2>1, <2>2 DEF Needed
  <2> QED
    BY <1>1, <2>1, <2>2, <2>3 DEF Row, Job, TypeOK
<1>5. truth[event[r]] \in Verdicts \cup {"ERROR"}
  BY <1>1, <1>4, TruthType
<1>6. /\ Views(j, m).json \in Verdicts \cup {None, "unknown", "torn"}
      /\ Views(j, m).md \in Kinds
      /\ Views(j, m).json \in Verdicts => Views(j, m).json = truth[event[r]]
      /\ Views(j, m).json = "SUPPORTED" => Views(j, m).md = "rendered"
  BY <1>4, <1>5 DEF Views, Failed, Rendered, ExitCode, Verdicts, Kinds, None
<1>7. Moves(r, "audit", "payload")
  BY <1>1, Advances, AuditSteps DEF RenderAudit, Jobs, Places
<1>8. /\ UNCHANGED <<given, latest, event, losses, good, broken, lost, tree, payload,
                     reviewFiles, published, refused, checks>>
      /\ faults' \in Nat /\ faults' >= faults
  BY <1>1, <1>2, <1>3, FaultsAdd DEF RenderAudit
<1>9. /\ json' \in [Runs -> Verdicts \cup {None, "unknown", "torn"}] /\ md' \in [Runs -> Kinds]
      /\ json'[r] = Views(j, m).json /\ md'[r] = Views(j, m).md
      /\ \A s \in Runs : s # r => json'[s] = json[s] /\ md'[s] = md[s]
  BY <1>1, <1>2, <1>6 DEF TypeOK
<1>10. OnlyAudit(r)
  BY <1>1, <1>7, <1>8, <1>9 DEF OnlyAudit, Moves, TypeOK
<1>11. Job(r, "audit")'
  BY <1>1, <1>4, <1>7, <1>8 DEF Row, Job, Moves, given
<1>12. Audit(r)'
  <2>1. payload'[r] = NoPayload /\ <<r, "audit">> \notin refused' /\ ~lost'[r]["audit"]
    BY <1>1, <1>8 DEF Row, Audit
  <2>2. ~AuditPosts(r)'
    BY <1>7 DEF AuditPosts, AuditAnswered, Moves
  <2> QED
    BY <1>1, <1>4, <1>6, <1>7, <1>8, <1>9, <2>1, <2>2
    DEF Audit, Moves, given, Failures, Setup
<1> QED
  BY <1>1, <1>8, <1>9, <1>10, <1>11, <1>12, OnlyAuditKeeps DEF TypeOK

LEMMA AuditDiesKeeps == ASSUME IInv, NEW r \in Runs, AuditDies(r) PROVE IInv'
<1>1. at[r]["audit"] = "render" /\ ~broken[r]["audit"] /\ Row(r) /\ TypeOK
  BY DEF AuditDies, IInv
<1>2. PICK left \in LeftBehind(truth[tree[r]["audit"]]) :
        json' = [json EXCEPT ![r] = left.json] /\ md' = [md EXCEPT ![r] = left.md]
  BY DEF AuditDies
<1>4. /\ Needed("audit") \subseteq good[r]["audit"]
      /\ tree[r]["audit"] = event[r] /\ event[r] \in Commits
  <2>1. Past("render") = Setup /\ Needed("audit") \subseteq Setup
    BY DEF Past, Needed, Setup
  <2>2. Past("render") \cap Needed("audit") \subseteq good[r]["audit"]
    BY <1>1 DEF Row, Job
  <2>3. "head" \in good[r]["audit"]
    BY <2>1, <2>2 DEF Needed
  <2> QED
    BY <1>1, <2>1, <2>2, <2>3 DEF Row, Job, TypeOK
<1>5. truth[event[r]] \in Verdicts \cup {"ERROR"}
  BY <1>1, <1>4, TruthType
<1>6. /\ left.json \in Verdicts \cup {None, "unknown", "torn"} /\ left.md \in Kinds
      /\ left.json \in Verdicts => left.json = truth[event[r]]
  BY <1>4, <1>5 DEF LeftBehind, Rendered, ExitCode, Verdicts, Kinds, None
<1>7. Moves(r, "audit", "payload") /\ Broke(r, "audit")
  BY <1>1, Advances, JobBreaks, AuditSteps DEF AuditDies, Jobs, Places
<1>8. /\ UNCHANGED <<given, latest, event, losses, good, lost, tree, payload,
                     reviewFiles, published, refused, checks>>
      /\ faults' \in Nat /\ faults' >= faults
  BY <1>1, FaultsAdd DEF AuditDies
<1>9. /\ json' \in [Runs -> Verdicts \cup {None, "unknown", "torn"}] /\ md' \in [Runs -> Kinds]
      /\ json'[r] = left.json /\ md'[r] = left.md
      /\ \A s \in Runs : s # r => json'[s] = json[s] /\ md'[s] = md[s]
  BY <1>1, <1>2, <1>6 DEF TypeOK
<1>10. OnlyAudit(r)
  BY <1>7, <1>8, <1>9 DEF OnlyAudit, Moves, Broke
<1>11. Job(r, "audit")'
  BY <1>1, <1>4, <1>7, <1>8 DEF Row, Job, Moves, Broke, given
<1>12. Audit(r)'
  <2>1. payload'[r] = NoPayload /\ <<r, "audit">> \notin refused' /\ ~lost'[r]["audit"]
    BY <1>1, <1>8 DEF Row, Audit
  <2>2. ~AuditPosts(r)'
    BY <1>7 DEF AuditPosts, AuditAnswered, Moves
  <2> QED
    BY <1>1, <1>4, <1>6, <1>7, <1>8, <1>9, <2>1, <2>2
    DEF Audit, Moves, Broke, given, Failures, Setup
<1> QED
  BY <1>1, <1>8, <1>9, <1>10, <1>11, <1>12, OnlyAuditKeeps DEF TypeOK

LEMMA FailurePayloads ==
  /\ Failures \subseteq Payloads
  /\ \A p \in Failures : p.verdict = None
  /\ \A v \in Verdicts, k \in Kinds :
       LET p == [conclusion |-> Conclusion(v), text |-> k, verdict |-> v]
       IN  p \in Payloads /\ p \notin Failures
BY DEF Failures, NoPayload, TornPayload, IntegrationFailure, Payloads, Kinds, Verdicts, None,
       Conclusion

\* What the builder leaves: a payload, and a broken step unless it states a verdict.
LEMMA BuildKeeps == ASSUME IInv, NEW r \in Runs, BuildPayload(r) PROVE IInv'
<1> DEFINE new == Payload(json[r], md[r])
<1>1. at[r]["audit"] = "payload" /\ (External \/ ~broken[r]["audit"]) /\ Row(r) /\ TypeOK
  BY DEF BuildPayload, IInv
<1>2. new \in Payloads /\ (new \in Failures <=> new.verdict = None)
      /\ (new \notin Failures =>
            /\ json[r] \in Verdicts /\ md[r] # None
            /\ new = [conclusion |-> Conclusion(json[r]), text |-> md[r], verdict |-> json[r]])
  <2>1. json[r] \in Verdicts \cup {None, "unknown", "torn"} /\ md[r] \in Kinds
    BY <1>1 DEF TypeOK
  <2>2. CASE json[r] \in Verdicts /\ md[r] # None
    <3>1. new = [conclusion |-> Conclusion(json[r]), text |-> md[r], verdict |-> json[r]]
      BY <2>2 DEF Payload
    <3>2. new.verdict # None
      BY <2>2, <3>1 DEF Verdicts, None
    <3> QED
      BY <2>1, <2>2, <3>1, <3>2, FailurePayloads
  <2>3. CASE ~(json[r] \in Verdicts /\ md[r] # None)
    <3>1. new = IntegrationFailure /\ new \in Failures
      BY <2>3 DEF Payload, Failures
    <3> QED
      BY <3>1, FailurePayloads
  <2> QED
    BY <2>2, <2>3
<1> HIDE DEF new
<1>3. /\ payload' = [payload EXCEPT ![r] = new]
      /\ broken' = [broken EXCEPT ![r].audit = @ \/ (new.verdict = None /\ ~External)]
  BY DEF BuildPayload, new
<1>4. /\ payload' \in [Runs -> Payloads] /\ payload'[r] = new
      /\ \A s \in Runs : s # r => payload'[s] = payload[s]
  BY <1>1, <1>2, <1>3 DEF TypeOK
<1>5. /\ broken' \in [Runs -> [Jobs -> BOOLEAN]]
      /\ broken'[r]["audit"] = (broken[r]["audit"] \/ (new.verdict = None /\ ~External))
      /\ \A s \in Runs, k \in Jobs : s # r \/ k # "audit" => broken'[s][k] = broken[s][k]
  <2>1. "audit" \in Jobs /\ broken \in [Runs -> [Jobs -> BOOLEAN]]
    BY <1>1 DEF TypeOK, Jobs
  <2>2. (new.verdict = None /\ ~External) \in BOOLEAN
    OBVIOUS
  <2> HIDE DEF External
  <2> QED
    BY <1>3, <2>1, <2>2
<1>7. Moves(r, "audit", "publish")
  BY <1>1, Advances, AuditSteps DEF BuildPayload, Jobs, Places
<1>8. UNCHANGED <<given, latest, event, faults, losses, good, lost, tree, json, md,
                  reviewFiles, published, refused, checks>>
  BY DEF BuildPayload
<1>10. OnlyAudit(r)
  BY <1>1, <1>4, <1>5, <1>7, <1>8 DEF OnlyAudit, Moves, TypeOK
<1>11. Job(r, "audit")'
  <2>1. event[r] # 0 /\ (~broken[r]["audit"] => Needed("audit") \subseteq good[r]["audit"])
    <3>1. Past("payload") = Setup /\ Needed("audit") \subseteq Setup
      BY DEF Past, Needed, Setup
    <3> QED
      BY <1>1, <3>1 DEF Row, Job
  <2> QED
    BY <1>1, <1>5, <1>7, <1>8, <2>1 DEF Row, Job, Moves, given
<1>12. Audit(r)'
  <2>1. <<r, "audit">> \notin refused' /\ ~AuditPosts(r)'
    BY <1>1, <1>7, <1>8 DEF Row, Audit, AuditPosts, AuditAnswered, Moves
  <2>2. new \notin Failures /\ json[r] = "SUPPORTED" =>
          md[r] = "rendered" \/ (External /\ broken[r]["audit"])
    BY <1>1, <1>2 DEF Row, Audit
  <2> QED
    BY <1>1, <1>2, <1>4, <1>5, <1>7, <1>8, <2>1, <2>2
    DEF Row, Audit, Moves, given, External, Setup
<1> QED
  BY <1>1, <1>4, <1>8, <1>10, <1>11, <1>12, OnlyAuditKeeps DEF TypeOK

LEMMA PayloadFailsKeeps == ASSUME IInv, NEW r \in Runs, PayloadFails(r) PROVE IInv'
<1>1. at[r]["audit"] = "payload" /\ (External \/ ~broken[r]["audit"]) /\ Row(r) /\ TypeOK
  BY DEF PayloadFails, IInv
<1>2. PICK left \in Failures : payload' = [payload EXCEPT ![r] = left]
  BY DEF PayloadFails, Failures
<1>3. Break(r, "audit") \/ (External /\ UNCHANGED broken)
  BY DEF PayloadFails
<1>4. /\ payload' \in [Runs -> Payloads] /\ payload'[r] = left
      /\ \A s \in Runs : s # r => payload'[s] = payload[s]
  BY <1>1, <1>2, FailurePayloads DEF TypeOK
<1>5. /\ broken' \in [Runs -> [Jobs -> BOOLEAN]]
      /\ broken'[r]["audit"] \/ (External /\ broken'[r]["audit"] = broken[r]["audit"])
      /\ \A s \in Runs, k \in Jobs : s # r \/ k # "audit" => broken'[s][k] = broken[s][k]
  BY <1>1, <1>3, JobBreaks DEF Broke, TypeOK, Jobs
<1>7. Moves(r, "audit", "publish")
  BY <1>1, Advances, AuditSteps DEF PayloadFails, Jobs, Places
<1>8. /\ UNCHANGED <<given, latest, event, losses, good, lost, tree, json, md,
                     reviewFiles, published, refused, checks>>
      /\ faults' \in Nat /\ faults' >= faults
  BY <1>1, FaultsAdd DEF PayloadFails
<1>10. OnlyAudit(r)
  BY <1>4, <1>5, <1>7, <1>8 DEF OnlyAudit, Moves
<1>11. Job(r, "audit")'
  <2>1. event[r] # 0 /\ (~broken[r]["audit"] => Needed("audit") \subseteq good[r]["audit"])
    <3>1. Past("payload") = Setup /\ Needed("audit") \subseteq Setup
      BY DEF Past, Needed, Setup
    <3> QED
      BY <1>1, <3>1 DEF Row, Job
  <2> QED
    BY <1>1, <1>5, <1>7, <1>8, <2>1 DEF Row, Job, Moves, given
<1>12. Audit(r)'
  <2>1. <<r, "audit">> \notin refused' /\ ~AuditPosts(r)'
    BY <1>1, <1>7, <1>8 DEF Row, Audit, AuditPosts, AuditAnswered, Moves
  <2>2. json[r] = "SUPPORTED" => md[r] \in {None, "rendered"} \/ broken[r]["audit"]
    BY <1>1 DEF Row, Audit
  <2> QED
    BY <1>1, <1>2, <1>4, <1>5, <1>7, <1>8, <2>1, <2>2
    DEF Row, Audit, Moves, given, External, Setup
<1> QED
  BY <1>1, <1>4, <1>8, <1>10, <1>11, <1>12, OnlyAuditKeeps DEF TypeOK

\* What is published is the payload, or what stands for an empty one; the job that posts
\* nothing has failed.
LEMMA PublishKeeps == ASSUME IInv, NEW r \in Runs, PublishAudit(r) PROVE IInv'
<1>1. at[r]["audit"] = "publish" /\ Row(r) /\ TypeOK
  BY DEF PublishAudit, IInv
<1>2. Moves(r, "audit", "ended")
  BY <1>1, Advances, AuditSteps DEF PublishAudit, Jobs, Places
<1>3. UNCHANGED <<given, latest, event, faults, losses, good, lost, tree, auditFiles,
                  reviewFiles, published, refused>>
  BY DEF PublishAudit
<1>4. \/ Posted(r) \in Unposted /\ Break(r, "audit") /\ checks' = checks
      \/ /\ Posted(r) \notin Unposted /\ broken' = broken
         /\ checks' = checks \cup {AuditCheck(r)}
  BY DEF PublishAudit, Posted, Unposted, AuditCheck
<1>5. /\ broken' \in [Runs -> [Jobs -> BOOLEAN]]
      /\ Posted(r) \in Unposted => broken'[r]["audit"]
      /\ Posted(r) \notin Unposted => broken'[r]["audit"] = broken[r]["audit"]
      /\ \A s \in Runs, k \in Jobs : s # r \/ k # "audit" => broken'[s][k] = broken[s][k]
  <2>1. CASE Posted(r) \in Unposted
    <3>1. Broke(r, "audit")
      BY <1>1, <1>4, <2>1, JobBreaks DEF Jobs
    <3> QED
      BY <2>1, <3>1 DEF Broke
  <2>2. CASE Posted(r) \notin Unposted
    BY <1>1, <1>4, <2>2 DEF TypeOK
  <2> QED
    BY <2>1, <2>2
<1>6. /\ Posted(r)' = Posted(r) /\ AuditCheck(r)' = AuditCheck(r)
      /\ External' = External /\ <<r, "audit">> \notin refused'
  BY <1>1, <1>3 DEF Posted, AuditCheck, Check, External, given, auditFiles, Row, Audit
<1>7. OnlyAudit(r)
  BY <1>1, <1>2, <1>3, <1>5 DEF OnlyAudit, Moves, TypeOK, auditFiles
<1>8. Job(r, "audit")'
  <2>1. event[r] # 0 /\ (~broken[r]["audit"] => Needed("audit") \subseteq good[r]["audit"])
    <3>1. Past("publish") = Setup /\ Needed("audit") \subseteq Setup
      BY DEF Past, Needed, Setup
    <3> QED
      BY <1>1, <3>1 DEF Row, Job
  <2>2. event'[r] = event[r] /\ good' = good /\ tree' = tree /\ at'[r]["audit"] = "ended"
    BY <1>2, <1>3 DEF Moves
  <2>3. ~broken'[r]["audit"] => ~broken[r]["audit"]
    BY <1>1, <1>5
  <2> QED
    BY <1>1, <2>1, <2>2, <2>3 DEF Row, Job
<1>9. Posted(r) \notin Unposted => AuditCheck(r)' \in checks'
  BY <1>4, <1>6
<1>10. Posted(r) \in Unposted => ~AuditPosts(r)'
  BY <1>6 DEF AuditPosts
<1>11. Audit(r)'
  <2>1. at'[r]["audit"] = "ended" /\ UNCHANGED <<json, md, payload, truth, origin, event, good, lost>>
    BY <1>2, <1>3 DEF Moves, given, auditFiles
  <2>2. ~External => (broken'[r]["audit"] <=> payload[r] \in Failures)
    <3>1. ~External => (Posted(r) \in Unposted <=> payload[r] = TornPayload)
      BY DEF Posted, Unposted, NoPayload, TornPayload, IntegrationFailure, None
    <3> QED
      BY <1>1, <1>5, <3>1 DEF Row, Audit, Failures
  <2>3. payload[r] \notin Failures =>
          /\ json[r] \in Verdicts
          /\ payload[r] = [conclusion |-> Conclusion(json[r]), text |-> md[r],
                           verdict |-> json[r]]
          /\ json[r] = "SUPPORTED" => md[r] = "rendered" \/ (External /\ broken'[r]["audit"])
    BY <1>1, <1>5 DEF Row, Audit
  <2>4. json[r] = "SUPPORTED" => md[r] \in {None, "rendered"} \/ broken'[r]["audit"]
    BY <1>1, <1>5 DEF Row, Audit
  <2> QED
    BY <1>1, <1>6, <1>9, <1>10, <2>1, <2>2, <2>3, <2>4 DEF Row, Audit, Setup
<1>12. \A c \in checks' \ checks : AuditPosts(r)' /\ c = AuditCheck(r)'
  BY <1>1, <1>2, <1>3, <1>4, <1>6 DEF Row, Audit, AuditPosts, AuditAnswered, Moves
<1> QED
  BY <1>1, <1>3, <1>4, <1>7, <1>8, <1>11, <1>12, OnlyAuditKeeps DEF TypeOK, auditFiles

LEMMA PublishFailsKeeps == ASSUME IInv, NEW r \in Runs, PublishFails(r) PROVE IInv'
<1>1. at[r]["audit"] = "publish" /\ Row(r) /\ TypeOK
  BY DEF PublishFails, IInv
<1>2. Moves(r, "audit", "ended") /\ Broke(r, "audit")
  BY <1>1, Advances, JobBreaks, AuditSteps DEF PublishFails, Jobs, Places
<1>3. /\ UNCHANGED <<given, latest, event, losses, good, lost, tree, auditFiles,
                     reviewFiles, published, checks>>
      /\ faults' \in Nat /\ faults' >= faults
      /\ refused' = refused \cup {<<r, "audit">>}
  BY <1>1, FaultsAdd DEF PublishFails
<1>4. OnlyAudit(r)
  BY <1>1, <1>2, <1>3 DEF OnlyAudit, Moves, Broke, TypeOK, auditFiles
<1>5. Job(r, "audit")'
  <2>1. event[r] # 0
    BY <1>1 DEF Row, Job
  <2>2. event'[r] = event[r] /\ good' = good /\ tree' = tree /\ at'[r]["audit"] = "ended"
        /\ broken'[r]["audit"]
    BY <1>2, <1>3 DEF Moves, Broke
  <2> QED
    BY <1>1, <2>1, <2>2 DEF Row, Job
<1>6. Audit(r)'
  <2>1. /\ at'[r]["audit"] = "ended" /\ broken'[r]["audit"] /\ <<r, "audit">> \in refused'
        /\ UNCHANGED <<json, md, payload, truth, origin, event, good, lost>>
    BY <1>2, <1>3 DEF Moves, Broke, given, auditFiles
  <2>2. ~AuditPosts(r)'
    BY <2>1 DEF AuditPosts, AuditAnswered
  <2> QED
    BY <1>1, <2>1, <2>2 DEF Row, Audit, External, Setup
<1> QED
  <2>1. refused' \subseteq Runs \X Jobs /\ at[r]["audit"] # "ended" /\ checks' = checks
    BY <1>1, <1>3 DEF TypeOK, Jobs
  <2>2. /\ json' \in [Runs -> Verdicts \cup {None, "unknown", "torn"}]
        /\ md' \in [Runs -> Kinds] /\ payload' \in [Runs -> Payloads]
    BY <1>1, <1>3 DEF TypeOK, auditFiles
  <2> QED
    BY <1>4, <1>5, <1>6, <2>1, <2>2, OnlyAuditKeeps

-----------------------------------------------------------------------------------
(* The review job                                                            *)

\* What the steps of the review job leave alone.
OnlyReview(r) ==
  /\ UNCHANGED <<given, latest, event, losses, good, lost, tree, auditFiles, published,
                 refused, checks>>
  /\ faults' \in Nat /\ faults' >= faults
  /\ at' \in [Runs -> [Jobs -> Places]] /\ broken' \in [Runs -> [Jobs -> BOOLEAN]]
  /\ \A s \in Runs, k \in Jobs : s # r \/ k # "review" =>
        at'[s][k] = at[s][k] /\ broken'[s][k] = broken[s][k]
  /\ \A s \in Runs : s # r =>
        review'[s] = review[s] /\ draft'[s] = draft[s] /\ handoff'[s] = handoff[s]

LEMMA OnlyReviewKeeps ==
  ASSUME IInv, NEW r \in Runs, at[r]["review"] \notin {"idle", "ended"}, OnlyReview(r),
         review' \in [Runs -> Texts], draft' \in [Runs -> Texts], handoff' \in [Runs -> Texts],
         ~broken'[r]["review"] /\ origin # "branch" =>
            Past(at'[r]["review"]) \subseteq good[r]["review"],
         at'[r]["review"] # "idle",
         Review(r)'
  PROVE  IInv'
<1>1. TypeOK'
  BY DEF IInv, TypeOK, OnlyReview, given, auditFiles
<1>2. \A s \in Runs : s # r => ReviewSame(s)
  BY DEF OnlyReview, ReviewSame, Jobs
<1>3. \A s \in Runs : AuditSame(s)
  BY DEF OnlyReview, AuditSame, Jobs, auditFiles
<1>4. Quiet' => Quiet
  BY DEF OnlyReview, Quiet, IInv, TypeOK
<1>5. Job(r, "review")'
  <2>1. UNCHANGED <<event, good, tree, origin>>
    BY DEF OnlyReview, given
  <2>2. event[r] # 0 /\ ("head" \in good[r]["review"] => tree[r]["review"] = event[r])
    BY DEF IInv, Row, Job
  <2> QED
    BY <2>1, <2>2 DEF Job
<1>6. ~published[r]
  BY DEF IInv, Row, Review
<1> QED
  BY <1>1, <1>2, <1>3, <1>4, <1>5, <1>6, ReviewKeeps DEF OnlyReview

LEMMA TextTypes ==
  ASSUME TypeOK
  PROVE  /\ {NoText, Fixed, Fallback} \subseteq Texts
         /\ \A c \in Commits : Whole(c) \in Texts /\ Torn(c) \subseteq Texts
         /\ \A t \in Texts : Bounded(t) \in Texts /\ Bounded(t).commit \in {0, t.commit}
<1>1. {NoText, Fixed, Fallback} \subseteq Texts
  BY DEF Texts, Kinds, NoText, Fixed, Fallback, None
<1>2. ASSUME NEW c \in Commits PROVE Whole(c) \in Texts /\ Torn(c) \subseteq Texts
  <2>1. text[c].bytes \in Nat /\ text[c].escapes \in Nat
    BY TextType
  <2>2. text[c].bytes \div 2 \in Nat
        /\ Least(text[c].escapes, 5 * (text[c].bytes \div 2)) \in Nat
    BY <2>1 DEF Least
  <2> QED
    BY <2>1, <2>2 DEF Texts, Kinds, Whole, Torn
<1>3. ASSUME NEW t \in Texts PROVE Bounded(t) \in Texts /\ Bounded(t).commit \in {0, t.commit}
  <2>1. CASE t = NoText
    BY <1>1, <2>1 DEF Bounded, Fixed
  <2>2. CASE t # NoText
    BY <2>2 DEF Bounded, Texts, Least, SummaryLimit
  <2> QED
    BY <2>1, <2>2
<1> QED
  BY <1>1, <1>2, <1>3

\* What a step past the set-up knows of its job.
LEMMA ReviewIsSetUp ==
  ASSUME IInv, NEW r \in Runs, at[r]["review"] \in {"render", "payload", "encode"}
  PROVE  /\ TypeOK /\ Review(r) /\ event[r] \in Commits /\ event[r] # 0 /\ ~published[r]
         /\ "head" \in good[r]["review"] => tree[r]["review"] = event[r]
         /\ ~broken[r]["review"] /\ origin # "branch" => Setup \subseteq good[r]["review"]
         /\ <<r, "review">> \notin refused
<1>1. TypeOK /\ Review(r) /\ Job(r, "review")
  BY DEF IInv, Row
<1>2. Past(at[r]["review"]) = Setup /\ Needed("review") = Setup
  BY DEF Past, Needed
<1> QED
  BY <1>1, <1>2 DEF Job, Review, TypeOK, Setup

LEMMA RunReviewKeeps == ASSUME IInv, NEW r \in Runs, RunReview(r) PROVE IInv'
<1>1. at[r]["review"] = "render"
  BY DEF RunReview
<1>2. /\ TypeOK /\ Review(r) /\ event[r] \in Commits /\ event[r] # 0 /\ ~published[r]
      /\ "head" \in good[r]["review"] => tree[r]["review"] = event[r]
      /\ ~broken[r]["review"] /\ origin # "branch" => Setup \subseteq good[r]["review"]
      /\ <<r, "review">> \notin refused
  BY <1>1, ReviewIsSetUp
<1> DEFINE ready == {"base", "install", "head"} \subseteq good[r]["review"]
           usual == IF ready THEN Whole(tree[r]["review"]) ELSE Fallback
<1>3. PICK t : /\ review' = [review EXCEPT ![r] = t]
               /\ \/ t = usual /\ Faults(0)
                  \/ /\ Faults(1)
                     /\ \/ t \in {Fallback, NoText}
                        \/ usual # Fallback /\ t \in Torn(tree[r]["review"])
  BY DEF RunReview
<1>4. ready => tree[r]["review"] = event[r]
  BY <1>2
<1>5. t \in Texts /\ t.commit \in {0, event[r]}
  <2>1. CASE t = Whole(event[r]) \/ t \in Torn(event[r])
    <3>1. Whole(event[r]) \in Texts /\ Torn(event[r]) \subseteq Texts
      BY <1>2, TextTypes
    <3>2. /\ Whole(event[r]).commit = event[r]
          /\ \A x \in Torn(event[r]) : x.commit = event[r]
      BY DEF Whole, Torn
    <3> QED
      BY <2>1, <3>1, <3>2
  <2>2. CASE t \in {Fallback, NoText}
    BY <1>2, <2>2, TextTypes DEF Fallback, NoText
  <2> QED
    BY <1>3, <1>4, <2>1, <2>2
<1>6. /\ review' \in [Runs -> Texts] /\ review'[r] = t
      /\ \A s \in Runs : s # r => review'[s] = review[s]
  BY <1>2, <1>3, <1>5 DEF TypeOK
<1>7. faults' \in Nat /\ faults' >= faults /\ (faults' = 0 => faults = 0 /\ t = usual)
  BY <1>2, <1>3, FaultsAdd DEF TypeOK, Faults
<1>8. Moves(r, "review", "payload")
  BY <1>1, <1>2, Advances, ReviewSteps DEF RunReview, Jobs, Places
<1>9. UNCHANGED <<given, latest, event, losses, good, broken, lost, tree, auditFiles,
                  draft, handoff, published, refused, checks>>
  BY DEF RunReview
<1>10. OnlyReview(r)
  BY <1>2, <1>6, <1>7, <1>8, <1>9 DEF OnlyReview, Moves, TypeOK
<1>11. Review(r)'
  <2>1. /\ at'[r]["review"] = "payload" /\ published'[r] = FALSE /\ event' = event
        /\ UNCHANGED <<text, origin, refused, losses, broken, draft, handoff>>
    BY <1>2, <1>8, <1>9 DEF Moves, given, TypeOK
  <2>2. Quiet' /\ origin # "branch" => ~broken[r]["review"] /\ t = Whole(event[r])
    BY <1>2, <1>4, <1>7, <2>1 DEF Quiet, Review, Setup
  <2>3. Whole(event[r])' = Whole(event[r])
    BY <2>1 DEF Whole
  <2> QED
    BY <1>2, <1>5, <1>6, <2>1, <2>2, <2>3 DEF Review, ReviewPosts
<1>12. Past("payload") = Setup
  BY DEF Past
<1> QED
  BY <1>1, <1>2, <1>6, <1>8, <1>9, <1>10, <1>11, <1>12, OnlyReviewKeeps DEF TypeOK, Moves

LEMMA ReviewDiesKeeps == ASSUME IInv, NEW r \in Runs, ReviewDies(r) PROVE IInv'
<1>1. at[r]["review"] \in {"render", "encode"}
  BY DEF ReviewDies
<1>2. /\ TypeOK /\ Review(r) /\ event[r] \in Commits /\ event[r] # 0 /\ ~published[r]
      /\ ~broken[r]["review"] /\ origin # "branch" => Setup \subseteq good[r]["review"]
      /\ <<r, "review">> \notin refused
  BY <1>1, ReviewIsSetUp
<1>3. PICK next \in {"payload", "ended"} : Moves(r, "review", next)
  BY <1>1, <1>2, Advances, ReviewSteps DEF ReviewDies, Jobs, Places
<1>4. /\ UNCHANGED <<given, latest, event, losses, good, lost, tree, auditFiles, reviewFiles,
                     published, refused, checks>>
      /\ faults' \in Nat /\ faults' >= faults /\ faults' # 0
  BY <1>2, FaultsAdd DEF ReviewDies, TypeOK, Faults
<1>5. /\ broken' \in [Runs -> [Jobs -> BOOLEAN]]
      /\ ~broken'[r]["review"] => ~broken[r]["review"]
      /\ \A s \in Runs, k \in Jobs : s # r \/ k # "review" => broken'[s][k] = broken[s][k]
  <2>1. broken' = [broken EXCEPT ![r]["review"] = @ \/ at[r]["review"] = "encode"]
    BY DEF ReviewDies
  <2> QED
    BY <1>2, <2>1 DEF TypeOK, Jobs
<1>6. OnlyReview(r)
  BY <1>2, <1>3, <1>4, <1>5 DEF OnlyReview, Moves, TypeOK, reviewFiles
<1>7. Review(r)'
  <2>1. published'[r] = FALSE /\ ~Quiet' /\ UNCHANGED <<event, refused, reviewFiles>>
    BY <1>2, <1>4 DEF Quiet, TypeOK
  <2> QED
    BY <1>2, <2>1 DEF Review, ReviewPosts, reviewFiles
<1>8. Past(next) = Setup
  BY DEF Past
<1> QED
  BY <1>1, <1>2, <1>3, <1>4, <1>5, <1>6, <1>7, <1>8, OnlyReviewKeeps
  DEF TypeOK, Moves, reviewFiles

\* A step of the review job that failures end, and what it leaves.
LEMMA BuildDraftKeeps == ASSUME IInv, NEW r \in Runs, BuildDraft(r) PROVE IInv'
<1>1. at[r]["review"] = "payload"
  BY DEF BuildDraft
<1>2. /\ TypeOK /\ Review(r) /\ event[r] \in Commits /\ event[r] # 0 /\ ~published[r]
      /\ ~broken[r]["review"] /\ origin # "branch" => Setup \subseteq good[r]["review"]
      /\ <<r, "review">> \notin refused
  BY <1>1, ReviewIsSetUp
<1> DEFINE d == IF "install" \in good[r]["review"] THEN Bounded(review[r]) ELSE Fixed
<1>3. d \in Texts /\ d.commit \in {0, event[r]}
  <2>1. review[r] \in Texts /\ review[r].commit \in {0, event[r]}
    BY <1>2 DEF TypeOK, Review
  <2>2. Fixed \in Texts /\ Fixed.commit = 0
    BY <1>2, TextTypes DEF Fixed
  <2>3. Bounded(review[r]) \in Texts /\ Bounded(review[r]).commit \in {0, review[r].commit}
    BY <1>2, <2>1, TextTypes
  <2> QED
    BY <2>1, <2>2, <2>3
<1>4. /\ draft' \in [Runs -> Texts] /\ draft'[r] = d
      /\ \A s \in Runs : s # r => draft'[s] = draft[s]
  BY <1>2, <1>3 DEF TypeOK, BuildDraft
<1>5. Quiet /\ origin # "branch" => d = Bounded(Whole(event[r]))
  BY <1>1, <1>2 DEF Review, Setup
<1> HIDE DEF d
<1>6. Moves(r, "review", "encode")
  BY <1>1, <1>2, Advances, ReviewSteps DEF BuildDraft, Jobs, Places
<1>7. UNCHANGED <<given, latest, event, faults, losses, good, broken, lost, tree, auditFiles,
                  review, handoff, published, refused, checks>>
  BY DEF BuildDraft
<1>8. OnlyReview(r)
  BY <1>2, <1>4, <1>6, <1>7 DEF OnlyReview, Moves, TypeOK
<1>9. Review(r)'
  <2>1. /\ at'[r]["review"] = "encode" /\ published'[r] = FALSE /\ event' = event
        /\ UNCHANGED <<origin, refused, losses, faults, broken, review, handoff>>
    BY <1>2, <1>6, <1>7 DEF Moves, given, TypeOK
  <2>2. Whole(event[r])' = Whole(event[r])
        /\ Bounded(Whole(event[r]))' = Bounded(Whole(event[r]))
        /\ Sent(event[r])' = Sent(event[r])
    BY <1>7 DEF Whole, Bounded, Sent, HasRoom, given
  <2>3. Quiet' <=> Quiet
    BY <2>1 DEF Quiet
  <2> QED
    BY <1>1, <1>2, <1>3, <1>4, <1>5, <2>1, <2>2, <2>3 DEF Review, ReviewPosts
<1>10. Past("encode") = Setup
  BY DEF Past
<1> QED
  BY <1>1, <1>2, <1>4, <1>6, <1>7, <1>8, <1>9, <1>10, OnlyReviewKeeps DEF TypeOK, Moves

LEMMA DraftFailsKeeps == ASSUME IInv, NEW r \in Runs, DraftFails(r) PROVE IInv'
<1>1. at[r]["review"] = "payload"
  BY DEF DraftFails
<1>2. /\ TypeOK /\ Review(r) /\ event[r] \in Commits /\ event[r] # 0 /\ ~published[r]
      /\ ~broken[r]["review"] /\ origin # "branch" => Setup \subseteq good[r]["review"]
      /\ <<r, "review">> \notin refused
  BY <1>1, ReviewIsSetUp
<1>3. \/ draft' = [draft EXCEPT ![r] = Fixed] /\ broken' = broken
      \/ Break(r, "review") /\ draft' = draft
  BY DEF DraftFails
<1>4. /\ draft' \in [Runs -> Texts] /\ draft'[r] \in {Fixed, draft[r]}
      /\ \A s \in Runs : s # r => draft'[s] = draft[s]
  BY <1>2, <1>3, TextTypes DEF TypeOK
<1>5. Fixed.commit = 0
  BY DEF Fixed
<1>6. Moves(r, "review", "encode")
  BY <1>1, <1>2, Advances, ReviewSteps DEF DraftFails, Jobs, Places
<1>7. /\ UNCHANGED <<given, latest, event, losses, good, lost, tree, auditFiles, review,
                     handoff, published, refused, checks>>
      /\ faults' \in Nat /\ faults' >= faults /\ faults' # 0
  BY <1>2, FaultsAdd DEF DraftFails, TypeOK, Faults
<1>8. /\ broken' \in [Runs -> [Jobs -> BOOLEAN]]
      /\ ~broken'[r]["review"] => ~broken[r]["review"]
      /\ \A s \in Runs, k \in Jobs : s # r \/ k # "review" => broken'[s][k] = broken[s][k]
  <2>1. CASE Break(r, "review")
    BY <1>2, <2>1, JobBreaks DEF Broke, Jobs
  <2>2. CASE broken' = broken
    BY <1>2, <2>2 DEF TypeOK
  <2> QED
    BY <1>3, <2>1, <2>2
<1>9. OnlyReview(r)
  BY <1>2, <1>4, <1>6, <1>7, <1>8 DEF OnlyReview, Moves, TypeOK
<1>10. Review(r)'
  <2>1. published'[r] = FALSE /\ ~Quiet' /\ UNCHANGED <<event, refused, review, handoff>>
    BY <1>2, <1>7 DEF Quiet, TypeOK
  <2> QED
    BY <1>2, <1>4, <1>5, <2>1 DEF Review, ReviewPosts
<1>11. Past("encode") = Setup
  BY DEF Past
<1> QED
  BY <1>1, <1>2, <1>4, <1>6, <1>7, <1>8, <1>9, <1>10, <1>11, OnlyReviewKeeps
  DEF TypeOK, Moves

\* The whole review, bounded, passes the hand-off exactly if there is room.
LEMMA WholeReviewFits ==
  ASSUME TypeOK, NEW c \in Commits, NEW d, d = Bounded(Whole(c))
  PROVE  /\ d # NoText /\ d.bytes <= SummaryLimit
         /\ Base64Size(JsonSize(d)) > HandoffLimit <=> ~HasRoom(c)
<1>1. text[c].bytes \in Nat /\ text[c].escapes \in Nat /\ c # 0
  BY TextType
<1>2. /\ d.bytes = Least(text[c].bytes, SummaryLimit) /\ d.escapes = text[c].escapes
      /\ d # NoText
  BY DEF Bounded, Whole, NoText, None
<1>3. d.bytes \in Nat /\ d.bytes <= SummaryLimit
  BY <1>1, <1>2 DEF Least, SummaryLimit
<1>4. JsonSize(d) \in Nat /\ (HasRoom(c) <=> JsonSize(d) <= 3 * (HandoffLimit \div 4))
  BY <1>1, <1>2, <1>3 DEF JsonSize, HasRoom, Envelope
<1>5. Base64Size(JsonSize(d)) <= HandoffLimit <=> HasRoom(c)
  BY <1>4, HandoffFits
<1>6. Base64Size(JsonSize(d)) \in Int
  BY <1>4 DEF Base64Size
<1> QED
  BY <1>2, <1>3, <1>5, <1>6 DEF HandoffLimit

LEMMA EncodeKeeps == ASSUME IInv, NEW r \in Runs, Encode(r) PROVE IInv'
<1>1. at[r]["review"] = "encode"
  BY DEF Encode
<1>2. /\ TypeOK /\ Review(r) /\ event[r] \in Commits /\ event[r] # 0 /\ ~published[r]
      /\ ~broken[r]["review"] /\ origin # "branch" => Setup \subseteq good[r]["review"]
      /\ <<r, "review">> \notin refused
  BY <1>1, ReviewIsSetUp
<1> DEFINE d == draft[r]
           h == IF d = NoText \/ Base64Size(JsonSize(d)) > HandoffLimit THEN NoText ELSE d
<1>3. h \in Texts /\ h.commit \in {0, event[r]}
  BY <1>2, TextTypes DEF TypeOK, Review, NoText
<1>4. /\ handoff' \in [Runs -> Texts] /\ handoff'[r] = h
      /\ \A s \in Runs : s # r => handoff'[s] = handoff[s]
  BY <1>2, <1>3 DEF TypeOK, Encode
<1>5. Quiet /\ origin # "branch" => h = Sent(event[r])
  <2>1. SUFFICES ASSUME Quiet, origin # "branch" PROVE h = Sent(event[r])
    OBVIOUS
  <2>2. d = Bounded(Whole(event[r]))
    BY <1>1, <1>2, <2>1 DEF Review
  <2>3. d # NoText /\ (Base64Size(JsonSize(d)) > HandoffLimit <=> ~HasRoom(event[r]))
    BY <1>2, <2>2, WholeReviewFits
  <2> QED
    BY <2>2, <2>3 DEF Sent
<1> HIDE DEF h
<1>6. Moves(r, "review", "ended")
  BY <1>1, <1>2, Advances, ReviewSteps DEF Encode, Jobs, Places
<1>7. UNCHANGED <<given, latest, event, faults, losses, good, broken, lost, tree, auditFiles,
                  review, draft, published, refused, checks>>
  BY DEF Encode
<1>8. OnlyReview(r)
  BY <1>2, <1>4, <1>6, <1>7 DEF OnlyReview, Moves, TypeOK
<1>9. Review(r)'
  <2>1. /\ at'[r]["review"] = "ended" /\ published'[r] = FALSE /\ event' = event
        /\ UNCHANGED <<origin, refused, losses, faults, broken, review, draft>>
    BY <1>2, <1>6, <1>7 DEF Moves, given, TypeOK
  <2>2. Whole(event[r])' = Whole(event[r])
        /\ Bounded(Whole(event[r]))' = Bounded(Whole(event[r]))
        /\ Sent(event[r])' = Sent(event[r])
    BY <1>7 DEF Whole, Bounded, Sent, HasRoom, given
  <2>3. Quiet' <=> Quiet
    BY <2>1 DEF Quiet
  <2> QED
    BY <1>1, <1>2, <1>3, <1>4, <1>5, <2>1, <2>2, <2>3 DEF Review, ReviewPosts
<1>10. Past("ended") = Setup
  BY DEF Past
<1> QED
  BY <1>1, <1>2, <1>4, <1>6, <1>7, <1>8, <1>9, <1>10, OnlyReviewKeeps DEF TypeOK, Moves

-----------------------------------------------------------------------------------
(* The publishing job                                                        *)

LEMMA PublishReviewKeeps ==
  ASSUME IInv, NEW r \in Runs, PublishReview(r) \/ PublishReviewFails(r) PROVE IInv'
<1>1. /\ ~published[r] /\ at[r]["review"] = "ended" /\ at[r]["audit"] = "ended"
      /\ TypeOK /\ Row(r)
  BY DEF PublishReview, PublishReviewFails, Ready, Jobs, IInv
<1>2. /\ UNCHANGED <<given, latest, event, losses, jobVars, auditFiles, reviewFiles>>
      /\ faults' \in Nat /\ faults' >= faults
      /\ published' = [published EXCEPT ![r] = TRUE]
  BY <1>1, FaultsAdd DEF PublishReview, PublishReviewFails, TypeOK
<1>3. \/ checks' = checks \cup {ReviewCheck(r)} /\ refused' = refused
      \/ checks' = checks /\ refused' = refused \cup {<<r, "review">>}
  BY DEF PublishReview, PublishReviewFails, ReviewCheck, Shown
<1>4. published' \in [Runs -> BOOLEAN] /\ published'[r] = TRUE
      /\ \A s \in Runs : s # r => published'[s] = published[s]
  BY <1>1, <1>2 DEF TypeOK
<1>5. refused' \subseteq Runs \X Jobs /\ refused \subseteq refused'
      /\ \A s \in Runs, k \in Jobs : s # r \/ k # "review" =>
            (<<s, k>> \in refused' <=> <<s, k>> \in refused)
  BY <1>1, <1>3 DEF TypeOK, Jobs
<1>6. TypeOK'
  BY <1>1, <1>2, <1>4, <1>5 DEF TypeOK, given, jobVars, auditFiles, reviewFiles
<1>7. \A s \in Runs : s # r => ReviewSame(s)
  BY <1>2, <1>4, <1>5 DEF ReviewSame, Jobs, jobVars, reviewFiles
<1>8. \A s \in Runs : AuditSame(s)
  BY <1>2, <1>5 DEF AuditSame, Jobs, jobVars, auditFiles
<1>9. Quiet' => Quiet
  BY <1>1, <1>2 DEF Quiet, TypeOK
<1>10. ReviewCheck(r)' = ReviewCheck(r)
  BY <1>2 DEF ReviewCheck, Check, Shown, Valid, reviewFiles
<1>11. <<r, "review">> \notin refused
  BY <1>1 DEF Row, Review
<1>12. Job(r, "review")'
  BY <1>1, <1>2 DEF Row, Job, given, jobVars
<1>13. Review(r)'
  <2>1. UNCHANGED <<at, event, origin, text, broken, review, draft, handoff>>
    BY <1>2 DEF given, jobVars, reviewFiles
  <2>2. Whole(event[r])' = Whole(event[r])
        /\ Bounded(Whole(event[r]))' = Bounded(Whole(event[r]))
        /\ Sent(event[r])' = Sent(event[r])
    BY <2>1 DEF Whole, Bounded, Sent, HasRoom
  <2>3. ReviewPosts(r)' => ReviewCheck(r)' \in checks'
    BY <1>3, <1>10 DEF ReviewPosts
  <2> QED
    BY <1>1, <1>4, <1>9, <2>1, <2>2, <2>3 DEF Row, Review
<1>14. \A c \in checks' \ checks : ReviewPosts(r)' /\ c = ReviewCheck(r)'
  BY <1>3, <1>4, <1>10, <1>11 DEF ReviewPosts
<1> QED
  BY <1>1, <1>3, <1>6, <1>7, <1>8, <1>9, <1>12, <1>13, <1>14, ReviewKeeps

-----------------------------------------------------------------------------------
(* Events and setting up                                                     *)

\* A push moves the head of the pull request and nothing a run depends on.
LEMMA PushKeeps == ASSUME IInv, Push PROVE IInv'
<1>1. UNCHANGED <<given, event, faults, losses, jobVars, auditFiles, reviewFiles, published,
                  refused, checks>> /\ latest' \in Commits
  BY DEF Push
<1>2. TypeOK'
  BY <1>1 DEF IInv, TypeOK, given, jobVars, auditFiles, reviewFiles
<1>3. \A s \in Runs : AuditSame(s) /\ ReviewSame(s)
  BY <1>1 DEF AuditSame, ReviewSame, jobVars, auditFiles, reviewFiles
<1>4. Quiet' => Quiet
  BY <1>1 DEF Quiet
<1>5. ASSUME NEW s \in Runs
      PROVE  Row(s)' /\ (AuditPosts(s)' <=> AuditPosts(s)) /\ AuditCheck(s)' = AuditCheck(s)
             /\ (ReviewPosts(s)' <=> ReviewPosts(s)) /\ ReviewCheck(s)' = ReviewCheck(s)
  BY <1>1, <1>3, <1>4, AuditFrame, ReviewFrame DEF IInv, Row
<1>6. Known'
  BY <1>1, <1>5 DEF IInv, Known
<1> QED
  BY <1>2, <1>5, <1>6 DEF IInv

\* Any step that stutters.
LEMMA StutterKeeps == ASSUME IInv, UNCHANGED vars PROVE IInv'
<1>1. TypeOK'
  BY DEF IInv, TypeOK, vars, given, jobVars, auditFiles, reviewFiles
<1>2. \A s \in Runs : AuditSame(s) /\ ReviewSame(s)
  BY DEF vars, AuditSame, ReviewSame, jobVars, auditFiles, reviewFiles
<1>3. (Quiet' => Quiet) /\ checks' = checks
  BY DEF Quiet, vars
<1>4. ASSUME NEW s \in Runs
      PROVE  Row(s)' /\ (AuditPosts(s)' <=> AuditPosts(s)) /\ AuditCheck(s)' = AuditCheck(s)
             /\ (ReviewPosts(s)' <=> ReviewPosts(s)) /\ ReviewCheck(s)' = ReviewCheck(s)
  BY <1>2, <1>3, AuditFrame, ReviewFrame DEF IInv, Row
<1>5. Known'
  BY <1>3, <1>4 DEF IInv, Known
<1> QED
  BY <1>1, <1>4, <1>5 DEF IInv

\* Steps of one run that concern both of its jobs.
LEMMA RunKeeps ==
  ASSUME IInv, TypeOK', NEW r \in Runs, \A s \in Runs : s # r => AuditSame(s) /\ ReviewSame(s),
         checks' = checks, Quiet' => Quiet, Row(r)',
         AuditPosts(r) => AuditPosts(r)' /\ AuditCheck(r)' = AuditCheck(r),
         ReviewPosts(r) => ReviewPosts(r)' /\ ReviewCheck(r)' = ReviewCheck(r)
  PROVE  IInv'
<1>1. ASSUME NEW s \in Runs, s # r
      PROVE  Row(s)' /\ (AuditPosts(s)' <=> AuditPosts(s)) /\ AuditCheck(s)' = AuditCheck(s)
             /\ (ReviewPosts(s)' <=> ReviewPosts(s)) /\ ReviewCheck(s)' = ReviewCheck(s)
  BY <1>1, AuditFrame, ReviewFrame DEF IInv, Row
<1>2. Known'
  BY <1>1, KnownFrame DEF IInv
<1> QED
  BY <1>1, <1>2 DEF IInv

LEMMA TriggerKeeps == ASSUME IInv, NEW r \in Runs, Trigger(r) PROVE IInv'
<1>1. event[r] = 0 /\ TypeOK /\ Row(r)
  BY DEF Trigger, IInv
<1>2. PICK c \in 1..latest : event' = [event EXCEPT ![r] = c]
  BY DEF Trigger
<1>3. c \in Commits /\ c # 0
  BY <1>1, CommitsBelow DEF TypeOK
<1> DEFINE first == [audit  |-> IF External THEN "head" ELSE "base",
                     review |-> IF origin = "branch" THEN "ended" ELSE "base"]
<1>4. first \in [Jobs -> Places]
  BY DEF Jobs, Places, Setup
<1>5. at' \in [Runs -> [Jobs -> Places]] /\ at'[r] = first
      /\ \A s \in Runs : s # r => at'[s] = at[s]
  BY <1>1, <1>4 DEF Trigger, TypeOK
<1>6. event' \in [Runs -> Commits \cup {0}] /\ event'[r] = c
      /\ \A s \in Runs : s # r => event'[s] = event[s]
  BY <1>1, <1>2, <1>3 DEF TypeOK
<1>7. UNCHANGED <<given, latest, faults, losses, good, broken, lost, tree, auditFiles,
                  reviewFiles, published, refused, checks>>
  BY DEF Trigger
<1>8. at'[r]["audit"] \in {"head", "base"} /\ at'[r]["review"] \in {"ended", "base"}
      /\ (at'[r]["review"] = "ended" => origin = "branch")
      /\ at[r]["audit"] = "idle" /\ at[r]["review"] = "idle"
  BY <1>1, <1>5 DEF Row, Job
<1>9. TypeOK'
  BY <1>1, <1>5, <1>6, <1>7 DEF TypeOK, given, auditFiles, reviewFiles
<1>10. ASSUME NEW s \in Runs, s # r PROVE AuditSame(s) /\ ReviewSame(s)
  BY <1>5, <1>6, <1>7, <1>10 DEF AuditSame, ReviewSame, auditFiles, reviewFiles
<1>11. Job(r, "audit")'
  <2>1. Past(at'[r]["audit"]) \cap Needed("audit") = {}
    BY <1>8 DEF Past, Needed
  <2> QED
    BY <1>1, <1>3, <1>6, <1>7, <1>8, <2>1 DEF Row, Job, given
<1>12. Job(r, "review")'
  <2>1. at'[r]["review"] = "base" => Past(at'[r]["review"]) = {}
    BY DEF Past
  <2> QED
    BY <1>1, <1>3, <1>6, <1>7, <1>8, <2>1 DEF Row, Job, given
<1>13. ~AuditPosts(r) /\ ~AuditPosts(r)' /\ ~ReviewPosts(r) /\ ~published'[r]
  BY <1>1, <1>7, <1>8 DEF AuditPosts, AuditAnswered, ReviewPosts, Row, Review
<1>14. Audit(r)'
  BY <1>1, <1>6, <1>7, <1>8, <1>13 DEF Row, Audit, given, auditFiles, Failures, Setup, Verdicts, None
<1>15. Review(r)'
  <2>1. ~broken'[r]["review"]
    BY <1>1, <1>7 DEF Row, Job
  <2>2. {review'[r].commit, draft'[r].commit, handoff'[r].commit} \subseteq {0, c}
    BY <1>1, <1>7 DEF Row, Review, reviewFiles
  <2>3. <<r, "review">> \notin refused' /\ origin' = origin
    BY <1>1, <1>7, <1>13 DEF Row, Review, given
  <2> QED
    BY <1>6, <1>8, <1>13, <2>1, <2>2, <2>3 DEF Review, ReviewPosts
<1> QED
  BY <1>7, <1>9, <1>10, <1>11, <1>12, <1>13, <1>14, <1>15, RunKeeps DEF Row, Quiet

\* A lost runner ends its job, which has failed and posts nothing.
LEMMA LoseKeeps == ASSUME IInv, NEW r \in Runs, NEW j \in Jobs, LoseRunner(r, j) PROVE IInv'
<1>1. at[r][j] \notin {"idle", "ended"} /\ TypeOK /\ Row(r)
  BY DEF LoseRunner, IInv
<1>2. /\ UNCHANGED <<given, latest, event, faults, good, tree, auditFiles, review, draft,
                     published, refused, checks>>
      /\ losses' \in Nat /\ losses' # 0
  BY <1>1 DEF LoseRunner, TypeOK
<1>3. Broke(r, j)
  BY <1>1, JobBreaks DEF LoseRunner
<1>4. Moves(r, j, "ended")
  <2>1. at' = [at EXCEPT ![r][j] = "ended"] /\ "ended" \in Places
    BY DEF LoseRunner, Places
  <2> QED
    BY <1>1, <2>1 DEF TypeOK, Moves
<1>5. /\ lost' \in [Runs -> [Jobs -> BOOLEAN]] /\ lost'[r][j]
      /\ \A s \in Runs, k \in Jobs : s # r \/ k # j => lost'[s][k] = lost[s][k]
  <2>1. lost' = [lost EXCEPT ![r][j] = TRUE]
    BY DEF LoseRunner
  <2> QED
    BY <1>1, <2>1 DEF TypeOK
<1>6. /\ handoff' \in [Runs -> Texts] /\ handoff'[r] \in {NoText, handoff[r]}
      /\ j = "audit" => handoff'[r] = handoff[r]
      /\ \A s \in Runs : s # r => handoff'[s] = handoff[s]
  <2>1. handoff' = handoff \/ (j = "review" /\ handoff' = [handoff EXCEPT ![r] = NoText])
    BY DEF LoseRunner
  <2> QED
    BY <1>1, <2>1, TextTypes, ZenonT(40) DEF TypeOK
<1>7. TypeOK'
  BY <1>1, <1>2, <1>3, <1>4, <1>5, <1>6 DEF TypeOK, given, auditFiles, Broke, Moves
<1>8. ASSUME NEW s \in Runs, s # r PROVE AuditSame(s) /\ ReviewSame(s)
  BY <1>2, <1>3, <1>4, <1>5, <1>6, <1>8 DEF AuditSame, ReviewSame, auditFiles, Broke, Moves, Jobs
<1>9. ~Quiet' /\ event[r] # 0
  BY <1>1, <1>2 DEF Quiet, TypeOK, Row, Job, Jobs
<1>10. Job(r, j)'
  <2>1. event'[r] = event[r] /\ good' = good /\ tree' = tree /\ at'[r][j] = "ended"
        /\ broken'[r][j]
    BY <1>2, <1>3, <1>4 DEF Moves, Broke
  <2> QED
    BY <1>1, <1>9, <2>1 DEF Row, Job, Jobs
<1>11. CASE j = "audit"
  <2>2. ReviewSame(r)
    BY <1>2, <1>3, <1>4, <1>6, <1>11 DEF ReviewSame, Broke, Moves, Jobs
  <2>3. Audit(r)'
    <3>1. /\ at'[r]["audit"] = "ended" /\ broken'[r]["audit"] /\ lost'[r]["audit"]
          /\ UNCHANGED <<json, md, payload, truth, origin, event, good>>
      BY <1>2, <1>3, <1>4, <1>5, <1>11 DEF Moves, Broke, given, auditFiles
    <3>2. ~AuditPosts(r)'
      BY <3>1 DEF AuditPosts, AuditAnswered
    <3> QED
      BY <1>1, <3>1, <3>2 DEF Row, Audit, External, Setup
  <2>4. ~AuditPosts(r)
    BY <1>1, <1>11 DEF AuditPosts, AuditAnswered
  <2>5. Job(r, "review")' /\ Review(r)' /\ (ReviewPosts(r)' <=> ReviewPosts(r))
        /\ ReviewCheck(r)' = ReviewCheck(r)
    BY <1>1, <1>2, <1>9, <2>2, ReviewFrame DEF Row
  <2> QED
    BY <1>2, <1>7, <1>8, <1>9, <1>10, <1>11, <2>3, <2>4, <2>5, RunKeeps DEF Row
<1>12. CASE j = "review"
  <2>1. AuditSame(r)
    BY <1>2, <1>3, <1>4, <1>5, <1>12 DEF AuditSame, Broke, Moves, Jobs, auditFiles
  <2>2. Job(r, "audit")' /\ Audit(r)' /\ (AuditPosts(r)' <=> AuditPosts(r))
        /\ AuditCheck(r)' = AuditCheck(r)
    BY <1>1, <1>2, <2>1, AuditFrame DEF Row
  <2>3. ~published[r] /\ ~published'[r]
    BY <1>1, <1>2, <1>12 DEF Row, Review
  <2>4. Review(r)'
    <3>1. UNCHANGED <<event, refused, review, draft>>
      BY <1>2
    <3>2. handoff'[r].commit \in {0, event[r]}
      BY <1>1, <1>6 DEF Row, Review, NoText
    <3> QED
      BY <1>1, <1>9, <2>3, <3>1, <3>2 DEF Row, Review, ReviewPosts
  <2> QED
    BY <1>2, <1>7, <1>8, <1>9, <1>10, <1>12, <2>2, <2>3, <2>4, RunKeeps DEF Row, ReviewPosts
<1> QED
  BY <1>11, <1>12 DEF Jobs

\* What setting a job up, in success or failure, leaves alone.
OnlyJob(r, j) ==
  /\ UNCHANGED <<given, latest, event, losses, lost, auditFiles, reviewFiles, published,
                 refused, checks>>
  /\ faults' \in Nat /\ faults' >= faults
  /\ at' \in [Runs -> [Jobs -> Places]] /\ broken' \in [Runs -> [Jobs -> BOOLEAN]]
  /\ good' \in [Runs -> [Jobs -> SUBSET Setup]] /\ tree' \in [Runs -> [Jobs -> Commits \cup {0}]]
  /\ \A s \in Runs, k \in Jobs : s # r \/ k # j =>
        at'[s][k] = at[s][k] /\ broken'[s][k] = broken[s][k]
        /\ good'[s][k] = good[s][k] /\ tree'[s][k] = tree[s][k]

LEMMA OnlyJobKeeps ==
  ASSUME IInv, NEW r \in Runs, NEW j \in Jobs, OnlyJob(r, j), at[r][j] \notin {"idle", "ended"},
         Job(r, j)', j = "audit" => Audit(r)', j = "review" => Review(r)'
  PROVE  IInv'
<1>1. TypeOK'
  BY DEF IInv, TypeOK, OnlyJob, given, auditFiles, reviewFiles
<1>2. Quiet' => Quiet
  BY DEF OnlyJob, Quiet, IInv, TypeOK
<1>3. CASE j = "audit"
  <2>1. (\A s \in Runs : s # r => AuditSame(s)) /\ \A s \in Runs : ReviewSame(s)
    BY <1>3 DEF OnlyJob, AuditSame, ReviewSame, Jobs, auditFiles, reviewFiles
  <2> QED
    BY <1>1, <1>2, <1>3, <2>1, AuditKeeps DEF OnlyJob
<1>4. CASE j = "review"
  <2>1. (\A s \in Runs : s # r => ReviewSame(s)) /\ \A s \in Runs : AuditSame(s)
    BY <1>4 DEF OnlyJob, AuditSame, ReviewSame, Jobs, auditFiles, reviewFiles
  <2>2. ~published[r]
    BY <1>4 DEF IInv, Row, Review
  <2> QED
    BY <1>1, <1>2, <1>4, <2>1, <2>2, ReviewKeeps DEF OnlyJob
<1> QED
  BY <1>3, <1>4 DEF Jobs

LEMMA AfterSetup ==
  ASSUME NEW j \in Jobs, NEW step \in Setup
  PROVE  /\ StepAfter(j, step) \in (Setup \ {"base"}) \cup {"render"}
         /\ Past(StepAfter(j, step)) = Past(step) \cup {step}
BY AuditSteps, ReviewSteps DEF Jobs, Setup, Past

LEMMA SetUpKeeps ==
  ASSUME IInv, NEW r \in Runs, NEW j \in Jobs, SetUp(r, j) \/ SetUpFails(r, j) PROVE IInv'
<1> DEFINE next == StepAfter(j, at[r][j])
<1>1. at[r][j] \in Setup /\ TypeOK /\ Row(r) /\ Job(r, j)
  BY DEF SetUp, SetUpFails, IInv, Row, Jobs
<1>2. next \in (Setup \ {"base"}) \cup {"render"} /\ Past(next) = Past(at[r][j]) \cup {at[r][j]}
  BY <1>1, AfterSetup
<1>3. Moves(r, j, next)
  BY <1>1, <1>2, Advances DEF SetUp, SetUpFails, Places
<1> HIDE DEF next
<1>4. event[r] # 0 /\ event[r] \in Commits \cup {0} /\ at[r][j] \notin {"idle", "ended"}
  BY <1>1 DEF Job, Setup, TypeOK
<1>5. /\ UNCHANGED <<given, latest, event, losses, lost, auditFiles, reviewFiles, published,
                     refused, checks>>
      /\ faults' \in Nat /\ faults' >= faults
  BY <1>1, FaultsAdd DEF SetUp, SetUpFails, TypeOK
<1>6. /\ OnlyJob(r, j) /\ good[r][j] \subseteq good'[r][j]
      /\ "head" \in good'[r][j] => tree'[r][j] = event[r]
      /\ ~broken'[r][j] => ~broken[r][j] /\ at[r][j] \in good'[r][j]
  <2>1. CASE SetUp(r, j)
    <3>1. broken' = broken /\ good' = [good EXCEPT ![r][j] = @ \cup {at[r][j]}]
          /\ \/ tree' = tree /\ at[r][j] # "head"
             \/ tree' = [tree EXCEPT ![r][j] = event[r]]
      BY <2>1 DEF SetUp
    <3>2. /\ good' \in [Runs -> [Jobs -> SUBSET Setup]]
          /\ good'[r][j] = good[r][j] \cup {at[r][j]}
          /\ \A s \in Runs, k \in Jobs : s # r \/ k # j => good'[s][k] = good[s][k]
      BY <1>1, <3>1 DEF TypeOK
    <3>3. /\ tree' \in [Runs -> [Jobs -> Commits \cup {0}]]
          /\ tree'[r][j] = event[r] \/ (tree'[r][j] = tree[r][j] /\ at[r][j] # "head")
          /\ \A s \in Runs, k \in Jobs : s # r \/ k # j => tree'[s][k] = tree[s][k]
      <4>1. tree \in [Runs -> [Jobs -> Commits \cup {0}]]
        BY <1>1 DEF TypeOK
      <4>2. CASE tree' = tree /\ at[r][j] # "head"
        BY <4>1, <4>2
      <4>3. CASE tree' = [tree EXCEPT ![r][j] = event[r]]
        BY <1>4, <4>1, <4>3
      <4> QED
        BY <3>1, <4>2, <4>3
    <3> QED
      BY <1>1, <1>3, <1>5, <3>1, <3>2, <3>3 DEF OnlyJob, Moves, TypeOK, Job
  <2>2. CASE SetUpFails(r, j)
    <3>1. Broke(r, j) /\ good' = good /\ tree' = tree
      BY <1>1, <2>2, JobBreaks DEF SetUpFails
    <3> QED
      BY <1>1, <1>3, <1>5, <3>1 DEF OnlyJob, Moves, Broke, TypeOK, Job
  <2> QED
    BY <2>1, <2>2
<1>7. Job(r, j)'
  <2>1. ~broken'[r][j] /\ (j = "review" => origin # "branch") =>
           Past(next) \cap Needed(j) \subseteq good'[r][j]
    BY <1>1, <1>2, <1>6 DEF Job
  <2>2. next # "idle"
    BY <1>2 DEF Setup
  <2>3. event' = event /\ origin' = origin /\ at'[r][j] = next
    BY <1>3, <1>5 DEF Moves, given
  <2> QED
    BY <1>4, <1>6, <2>1, <2>2, <2>3 DEF Job
<1>8. ASSUME j = "audit" PROVE Audit(r)'
  <2>1. json[r] = None /\ md[r] = None /\ payload[r] = NoPayload
        /\ <<r, "audit">> \notin refused /\ ~lost[r]["audit"]
    BY <1>1, <1>8 DEF Row, Audit, Setup
  <2>2. /\ at'[r]["audit"] \in Setup \cup {"render"}
        /\ UNCHANGED <<json, md, payload, refused, lost>>
    BY <1>2, <1>3, <1>5, <1>8 DEF Moves, auditFiles
  <2>3. ~AuditPosts(r)'
    BY <2>2 DEF AuditPosts, AuditAnswered, Setup
  <2> QED
    BY <2>1, <2>2, <2>3 DEF Audit, Failures, Setup, Verdicts, None
<1>9. ASSUME j = "review" PROVE Review(r)'
  <2>1. Quiet' /\ origin # "branch" => ~broken'[r]["review"]
    <3>1. SUFFICES ASSUME Quiet', origin # "branch" PROVE ~broken'[r]["review"]
      OBVIOUS
    <3>2. Quiet
      BY <1>1, <1>5, <3>1 DEF Quiet, TypeOK
    <3>3. ~broken[r]["review"] /\ Past(at[r]["review"]) \subseteq good[r]["review"]
      <4>1. ~broken[r]["review"]
        BY <1>1, <1>4, <3>1, <3>2 DEF Row, Review
      <4>2. Past(at[r]["review"]) \subseteq Needed("review")
        BY DEF Past, Needed, Setup
      <4> QED
        BY <1>1, <1>9, <3>1, <4>1, <4>2 DEF Job
    <3>4. CanSucceed(r, "review")
      BY <3>3 DEF CanSucceed, Past
    <3>5. ~SetUpFails(r, j)
      BY <1>1, <1>9, <3>1, <3>4 DEF SetUpFails, Faults, Quiet, TypeOK
    <3> QED
      BY <1>9, <3>3, <3>5 DEF SetUp
  <2>2. /\ at'[r]["review"] \in Setup \cup {"render"}
        /\ UNCHANGED <<event, origin, published, refused, review, draft, handoff>>
    BY <1>2, <1>3, <1>5, <1>9 DEF Moves, given, reviewFiles
  <2>3. ~published[r] /\ <<r, "review">> \notin refused
    BY <1>1, <1>4, <1>9 DEF Row, Review
  <2> QED
    BY <1>1, <2>1, <2>2, <2>3 DEF Row, Review, ReviewPosts, Setup
<1> QED
  BY <1>4, <1>6, <1>7, <1>8, <1>9, OnlyJobKeeps

\* A step that is skipped, in a job that has failed.
LEMMA SkipKeeps == ASSUME IInv, NEW r \in Runs, NEW j \in Jobs, Skip(r, j) PROVE IInv'
<1> DEFINE next == StepAfter(j, at[r][j])
<1>1. /\ broken[r][j] /\ TypeOK /\ Row(r) /\ Job(r, j)
      /\ \/ at[r][j] \in Setup
         \/ j = "audit" /\ (at[r][j] = "render" \/ (at[r][j] = "payload" /\ ~External))
  BY DEF Skip, IInv, Row, Jobs
<1>2. \/ at[r][j] \in Setup /\ next \in (Setup \ {"base"}) \cup {"render"}
      \/ j = "audit" /\ at[r][j] = "render" /\ next = "payload"
      \/ j = "audit" /\ at[r][j] = "payload" /\ ~External /\ next = "publish"
  BY <1>1, AfterSetup, AuditSteps
<1>3. Moves(r, j, next)
  BY <1>1, <1>2, Advances DEF Skip, Places
<1> HIDE DEF next
<1>4. event[r] # 0 /\ at[r][j] \notin {"idle", "ended"}
  BY <1>1, <1>2 DEF Job, Setup
<1>5. UNCHANGED <<given, latest, event, faults, losses, good, broken, lost, tree, auditFiles,
                  reviewFiles, published, refused, checks>>
  BY DEF Skip
<1>6. OnlyJob(r, j)
  BY <1>1, <1>3, <1>5 DEF OnlyJob, Moves, TypeOK
<1>7. Job(r, j)'
  BY <1>1, <1>2, <1>3, <1>4, <1>5 DEF Job, Moves, Setup, given
<1>8. ASSUME j = "audit" PROVE Audit(r)'
  <2>1. /\ payload[r] = NoPayload /\ <<r, "audit">> \notin refused /\ ~lost[r]["audit"]
        /\ at[r]["audit"] # "payload" => json[r] = None /\ md[r] = None
        /\ broken[r]["audit"]
    BY <1>1, <1>2, <1>8 DEF Row, Audit, Setup
  <2>2. /\ at'[r]["audit"] = next /\ next # "ended"
        /\ UNCHANGED <<json, md, payload, refused, lost, broken, good, truth, event, origin>>
    BY <1>2, <1>3, <1>5, <1>8 DEF Moves, auditFiles, given, Setup
  <2>3. ~AuditPosts(r)'
    BY <2>2 DEF AuditPosts, AuditAnswered
  <2> QED
    BY <1>1, <1>2, <1>8, <2>1, <2>2, <2>3 DEF Row, Audit, External, Failures, Setup
<1>9. ASSUME j = "review" PROVE Review(r)'
  <2>1. at'[r]["review"] \in Setup \cup {"render"}
    BY <1>2, <1>3, <1>9 DEF Moves
  <2>2. ~published[r] /\ <<r, "review">> \notin refused
    BY <1>1, <1>4, <1>9 DEF Row, Review
  <2>3. ~(Quiet /\ origin # "branch")
    BY <1>1, <1>4, <1>9 DEF Row, Review
  <2> QED
    BY <1>1, <1>5, <2>1, <2>2, <2>3 DEF Row, Review, ReviewPosts, Quiet, given, reviewFiles, Setup
<1> QED
  BY <1>4, <1>6, <1>7, <1>8, <1>9, OnlyJobKeeps

-----------------------------------------------------------------------------------
(* The invariant holds                                                       *)

LEMMA Initially == Init => IInv
<1> SUFFICES ASSUME Init PROVE IInv
  OBVIOUS
<1>1. TypeOK
  <2>1. latest \in Commits
    BY TextAssumption DEF Init
  <2>2. NoText \in Texts /\ NoPayload \in Payloads
    BY DEF NoText, NoPayload, Texts, Payloads, Kinds, None
  <2> QED
    BY <2>1, <2>2 DEF Init, TypeOK, AllRuns, BothJobs, Places, Kinds
<1>2. Known
  BY DEF Init, Known
<1>3. ASSUME NEW r \in Runs PROVE Row(r)
  <2>1. /\ event[r] = 0 /\ json[r] = None /\ md[r] = None /\ payload[r] = NoPayload
        /\ review[r] = NoText /\ draft[r] = NoText /\ handoff[r] = NoText
        /\ published[r] = FALSE /\ refused = {}
        /\ \A j \in Jobs : at[r][j] = "idle" /\ good[r][j] = {} /\ broken[r][j] = FALSE
                           /\ lost[r][j] = FALSE
    BY DEF Init, AllRuns, BothJobs
  <2>2. "audit" \in Jobs /\ "review" \in Jobs
    BY DEF Jobs
  <2>3. Job(r, "audit") /\ Job(r, "review")
    BY <2>1, <2>2 DEF Job, Past
  <2>4. Audit(r)
    BY <2>1, <2>2 DEF Audit, AuditPosts, AuditAnswered, Failures, Verdicts, None
  <2>5. Review(r)
    BY <2>1, <2>2 DEF Review, ReviewPosts, NoText
  <2> QED
    BY <2>3, <2>4, <2>5 DEF Row
<1> QED
  BY <1>1, <1>2, <1>3 DEF IInv

LEMMA NextKeeps == IInv /\ [Next]_vars => IInv'
<1> SUFFICES ASSUME IInv, [Next]_vars PROVE IInv'
  OBVIOUS
<1>1. CASE Push \/ UNCHANGED vars
  BY <1>1, PushKeeps, StutterKeeps
<1>2. ASSUME NEW r \in Runs, Trigger(r) PROVE IInv'
  BY <1>2, TriggerKeeps
<1>3. ASSUME NEW r \in Runs, NEW j \in Jobs, LoseRunner(r, j) PROVE IInv'
  BY <1>3, LoseKeeps
<1>4. ASSUME NEW r \in Runs, NEW j \in Jobs, SetUp(r, j) \/ SetUpFails(r, j) \/ Skip(r, j)
      PROVE  IInv'
  BY <1>4, SetUpKeeps, SkipKeeps
<1>5. ASSUME NEW r \in Runs,
             RenderAudit(r) \/ AuditDies(r) \/ BuildPayload(r) \/ PayloadFails(r)
             \/ PublishAudit(r) \/ PublishFails(r)
      PROVE  IInv'
  BY <1>5, RenderKeeps, AuditDiesKeeps, BuildKeeps, PayloadFailsKeeps, PublishKeeps,
     PublishFailsKeeps
<1>6. ASSUME NEW r \in Runs,
             RunReview(r) \/ ReviewDies(r) \/ BuildDraft(r) \/ DraftFails(r) \/ Encode(r)
             \/ PublishReview(r) \/ PublishReviewFails(r)
      PROVE  IInv'
  BY <1>6, RunReviewKeeps, ReviewDiesKeeps, BuildDraftKeeps, DraftFailsKeeps, EncodeKeeps,
     PublishReviewKeeps
<1> QED
  BY <1>1, <1>2, <1>3, <1>4, <1>5, <1>6 DEF Next, Step

LEMMA Invariance == Spec => []IInv
BY Initially, NextKeeps, PTL DEF Spec

-----------------------------------------------------------------------------------
(* The properties                                                            *)

\* A check that states a verdict is an audit's, and the payload of its run.
LEMMA VerdictCheck ==
  ASSUME IInv, NEW c \in checks, c.verdict # None \/ c.conclusion = "success"
  PROVE  \E r \in Runs : /\ c = AuditCheck(r) /\ payload[r] \notin Failures
                         /\ Posted(r) = payload[r]
<1>1. PICK r \in Runs : \/ AuditPosts(r) /\ c = AuditCheck(r)
                        \/ ReviewPosts(r) /\ c = ReviewCheck(r)
  BY DEF IInv, Known
<1>2. c = AuditCheck(r)
  <2>1. ReviewCheck(r).verdict = None /\ ReviewCheck(r).conclusion = "neutral"
    BY DEF ReviewCheck, Check
  <2> QED
    BY <1>1, <2>1
<1>3. Posted(r).verdict # None \/ Posted(r).conclusion = "success"
  BY <1>2 DEF AuditCheck, Check
<1>4. Posted(r) \notin Failures
  BY <1>3 DEF Failures, NoPayload, TornPayload, IntegrationFailure, None
<1> QED
  BY <1>2, <1>4 DEF Posted, Failures

\* Such a payload states what the views show, which is the audit of the event's commit.
LEMMA StatedPayload ==
  ASSUME IInv, NEW r \in Runs, payload[r] \notin Failures
  PROVE  /\ json[r] \in Verdicts /\ json[r] = truth[event[r]]
         /\ payload[r].conclusion = Conclusion(json[r]) /\ payload[r].verdict = json[r]
         /\ payload[r].text = md[r]
         /\ json[r] = "SUPPORTED" => md[r] = "rendered" \/ (External /\ broken[r]["audit"])
<1>1. Audit(r)
  BY DEF IInv, Row
<1>2. payload[r] = [conclusion |-> Conclusion(json[r]), text |-> md[r], verdict |-> json[r]]
  BY <1>1 DEF Audit
<1>3. /\ payload[r].conclusion = Conclusion(json[r]) /\ payload[r].verdict = json[r]
      /\ payload[r].text = md[r]
  BY <1>2
<1> QED
  BY <1>1, <1>3 DEF Audit

\* The verdict a check states is the one the audit gives to the commit it is attached to.
THEOREM VerdictIsOfItsCommit == Spec => []VerdictOfItsCommit
<1>1. IInv => VerdictOfItsCommit
  <2> SUFFICES ASSUME IInv, NEW c \in checks, c.verdict # None
               PROVE  c.verdict = truth[c.sha] /\ c.conclusion = Conclusion(truth[c.sha])
    BY DEF VerdictOfItsCommit
  <2>1. PICK r \in Runs : c = AuditCheck(r) /\ payload[r] \notin Failures
                          /\ Posted(r) = payload[r]
    BY VerdictCheck
  <2>2. /\ json[r] = truth[event[r]] /\ payload[r].conclusion = Conclusion(json[r])
        /\ payload[r].verdict = json[r]
    BY <2>1, StatedPayload
  <2> QED
    BY <2>1, <2>2 DEF AuditCheck, Check
<1> QED
  BY <1>1, Invariance, PTL

\* A passing check shows the rendered audit of both views.
THEOREM SuccessShowsTheAudit == Spec => []SuccessShowsItsAudit
<1>1. IInv => SuccessShowsItsAudit
  <2> SUFFICES ASSUME IInv, NEW c \in checks, c.conclusion = "success"
               PROVE  c.text = "rendered" \/ (External /\ broken[c.run].audit)
    BY DEF SuccessShowsItsAudit
  <2>1. PICK r \in Runs : c = AuditCheck(r) /\ payload[r] \notin Failures
                          /\ Posted(r) = payload[r]
    BY VerdictCheck
  <2>2. /\ json[r] \in Verdicts /\ payload[r].conclusion = Conclusion(json[r])
        /\ payload[r].text = md[r]
        /\ json[r] = "SUPPORTED" => md[r] = "rendered" \/ (External /\ broken[r]["audit"])
    BY <2>1, StatedPayload
  <2>3. c.text = md[r] /\ c.run = r /\ Conclusion(json[r]) = "success"
    BY <2>1, <2>2 DEF AuditCheck, Check
  <2>4. json[r] = "SUPPORTED"
    BY <2>2, <2>3 DEF Conclusion, Verdicts
  <2> QED
    BY <2>2, <2>3, <2>4
<1> QED
  BY <1>1, Invariance, PTL

\* The checks of one job are the one it posts, if it posts.
LEMMA ChecksOfJob ==
  ASSUME IInv, NEW r \in Runs
  PROVE  /\ ChecksOf(r, "audit") \subseteq {AuditCheck(r)}
         /\ ChecksOf(r, "audit") # {} <=> AuditPosts(r)
         /\ ChecksOf(r, "review") \subseteq {ReviewCheck(r)}
         /\ ChecksOf(r, "review") # {} <=> ReviewPosts(r)
<1>1. /\ AuditPosts(r) => AuditCheck(r) \in checks
      /\ ReviewPosts(r) => ReviewCheck(r) \in checks
  BY DEF IInv, Row, Audit, Review
<1>2. \A s \in Runs : /\ AuditCheck(s).run = s /\ AuditCheck(s).name = "audit"
                      /\ ReviewCheck(s).run = s /\ ReviewCheck(s).name = "review"
  BY DEF AuditCheck, ReviewCheck, Check
<1>3. ASSUME NEW c \in checks, c.run = r
      PROVE  \/ AuditPosts(r) /\ c = AuditCheck(r) /\ c.name = "audit"
             \/ ReviewPosts(r) /\ c = ReviewCheck(r) /\ c.name = "review"
  BY <1>2, <1>3 DEF IInv, Known
<1> QED
  BY <1>1, <1>2, <1>3 DEF ChecksOf

LEMMA OneCheck ==
  ASSUME NEW S, NEW c, S \subseteq {c}, S # {} PROVE Cardinality(S) = 1 /\ S = {c}
<1>1. S = {c}
  OBVIOUS
<1> QED
  BY <1>1, FS_Singleton

\* Whatever failed before it, a publishing step that is answered leaves exactly one check,
\* a failing one if anything failed.
THEOREM FailureLeavesItsCheck == Spec => []FailureLeavesACheck
<1>1. IInv => FailureLeavesACheck
  <2> SUFFICES ASSUME IInv, NEW r \in Runs, AuditAnswered(r), payload[r] # TornPayload,
                      External => payload[r] # NoPayload
               PROVE  /\ Cardinality(ChecksOf(r, "audit")) = 1
                      /\ (IF External
                          THEN {"head", "python", "install"} \ good[r].audit # {}
                          ELSE broken[r].audit) =>
                            \A c \in ChecksOf(r, "audit") : c.conclusion = "failure"
    BY DEF FailureLeavesACheck
  <2>1. Posted(r) \notin Unposted
    BY DEF Posted, Unposted, IntegrationFailure, NoPayload, TornPayload, None
  <2>2. AuditPosts(r)
    BY <2>1 DEF AuditPosts
  <2>3. Cardinality(ChecksOf(r, "audit")) = 1 /\ ChecksOf(r, "audit") = {AuditCheck(r)}
    BY <2>2, ChecksOfJob, OneCheck
  <2>4. ASSUME IF External THEN {"head", "python", "install"} \ good[r]["audit"] # {}
               ELSE broken[r]["audit"]
        PROVE  Posted(r) = IntegrationFailure
    <3>1. Audit(r)
      BY DEF IInv, Row
    <3>2. payload[r] \in Failures
      <4>1. CASE External
        <5>1. json[r] = None
          BY <2>4, <3>1, <4>1 DEF Audit, Needed
        <5> QED
          BY <3>1, <5>1 DEF Audit, Verdicts, None
      <4>2. CASE ~External
        BY <2>4, <3>1, <4>2 DEF Audit, AuditAnswered
      <4> QED
        BY <4>1, <4>2
    <3> QED
      BY <3>2 DEF Posted, Failures
  <2>5. AuditCheck(r).conclusion = Posted(r).conclusion
    BY DEF AuditCheck, Check
  <2> QED
    BY <2>3, <2>4, <2>5 DEF IntegrationFailure
<1> QED
  BY <1>1, Invariance, PTL

\* The audit job of this repository fails exactly when it publishes no verdict.
THEOREM JobReflectsItsIntegration == Spec => []JobReflectsIntegration
<1>1. IInv => JobReflectsIntegration
  <2> SUFFICES ASSUME IInv, NEW r \in Runs, at[r]["audit"] = "ended", ~lost[r]["audit"],
                      ~External
               PROVE  broken[r]["audit"] <=>
                        \A c \in ChecksOf(r, "audit") : c.verdict \notin Verdicts
    BY DEF JobReflectsIntegration
  <2>1. Audit(r)
    BY DEF IInv, Row
  <2>2. broken[r]["audit"] <=> <<r, "audit">> \in refused \/ payload[r] \in Failures
    BY <2>1 DEF Audit
  <2>3. AuditPosts(r) <=> <<r, "audit">> \notin refused /\ payload[r] # TornPayload
    BY DEF AuditPosts, AuditAnswered, Posted, Unposted, IntegrationFailure, NoPayload,
       TornPayload, None
  <2>4. CASE ~AuditPosts(r)
    BY <2>2, <2>3, <2>4, ChecksOfJob DEF Failures
  <2>5. CASE AuditPosts(r)
    <3>1. ChecksOf(r, "audit") = {AuditCheck(r)}
      BY <2>5, ChecksOfJob, OneCheck
    <3>2. AuditCheck(r).verdict = Posted(r).verdict
      BY DEF AuditCheck, Check
    <3>3. Posted(r).verdict \in Verdicts <=> payload[r] \notin Failures
      BY <2>1 DEF Posted, Failures, IntegrationFailure, NoPayload, TornPayload, None, Verdicts,
         Audit
    <3> QED
      BY <2>2, <2>3, <2>5, <3>1, <3>2, <3>3
  <2> QED
    BY <2>4, <2>5
<1> QED
  BY <1>1, Invariance, PTL

\* One review check per run, on the commit of its event; an undisturbed review arrives
\* whole or cut at the limit, whatever its size, exactly if its escapes leave it room.
THEOREM UndisturbedReviewArrives == Spec => []ReviewArrives
<1>1. IInv => ReviewArrives
  <2> SUFFICES ASSUME IInv, NEW r \in Runs, published[r], <<r, "review">> \notin refused
               PROVE  /\ Cardinality(ChecksOf(r, "review")) = 1
                      /\ \A c \in ChecksOf(r, "review") :
                           /\ c.text.commit \in {0, c.sha}
                           /\ origin # "branch" /\ faults = 0 /\ losses = 0 =>
                                c.text = IF HasRoom(c.sha) THEN Bounded(Whole(c.sha))
                                                           ELSE Fixed
    BY DEF ReviewArrives
  <2>1. TypeOK /\ Review(r) /\ Job(r, "review")
    BY DEF IInv, Row
  <2>2. Cardinality(ChecksOf(r, "review")) = 1 /\ ChecksOf(r, "review") = {ReviewCheck(r)}
    BY ChecksOfJob, OneCheck DEF ReviewPosts
  <2>3. ReviewCheck(r).text = Shown(r) /\ ReviewCheck(r).sha = event[r]
    BY DEF ReviewCheck, Check
  <2>4. Shown(r).commit \in {0, event[r]}
    BY <2>1 DEF Review, Shown, Fixed
  <2>5. ASSUME origin # "branch", Quiet
        PROVE  Shown(r) = IF HasRoom(event[r]) THEN Bounded(Whole(event[r])) ELSE Fixed
    <3>1. at[r]["review"] = "ended"
      BY <2>1 DEF Review
    <3>2. event[r] # 0 /\ event[r] \in Commits
      BY <2>1, <3>1 DEF Job, TypeOK
    <3>3. handoff[r] = Sent(event[r])
      BY <2>1, <2>5, <3>1, <3>2 DEF Review
    <3> QED
      BY <2>1, <3>2, <3>3, WholeReviewFits DEF Shown, Valid, Sent
  <2> QED
    BY <2>2, <2>3, <2>4, <2>5 DEF Quiet
<1> QED
  BY <1>1, Invariance, PTL
====
