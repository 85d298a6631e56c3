------------------------------ MODULE UnifiedAnalysis ------------------------------
(***************************************************************************)
(* integration.py run_unified_analysis behind discovery: the mappings of a *)
(* repository are resolved, one claim's Audit is planned, executed and     *)
(* reviewed.  Between two analyses a person answers what was asked, or the *)
(* repository changes under an approval given earlier.                     *)
(*                                                                         *)
(*   repository  [claim, claims, artifacts, evidence, manifests, proposals]*)
(*                                                                         *)
(* EphemeralExecution has the ways in which execution fails, NativeAudit   *)
(* the verdict of a training experiment: here either may be any.           *)
(***************************************************************************)
EXTENDS AuditPlanner, BenchmarkAudit

CONSTANTS
    Repositories,  \* what may be analyzed first, with what has been approved
    Rewritten,     \* evidence a change may leave in a file
    MaxAnalyses    \* bound: analyses of one claim

ASSUME AnalysisAssumption ==
    /\ MaxAnalyses \in Nat /\ Largest \in Nat
    /\ \A e \in Rewritten : IsEvidence(e)
    /\ \A w \in Repositories :
         /\ DOMAIN w.repo = {"claim", "claims", "artifacts", "evidence", "manifests",
                             "proposals"}
         /\ \A m, n \in w.approved : m = n
         /\ \A m \in w.approved \cup w.repo.manifests \cup w.repo.proposals : IsMapping(m)
         /\ IsFiniteSet(w.repo.evidence)
         /\ \A e \in w.repo.evidence : IsEvidence(e)
         /\ w.repo.claim.threshold => w.repo.claim.audit.threshold \in Int

VARIABLES
    repo,
    approved,  \* the approved mapping, in a set of at most one
    stage,     \* "plan", "execute", "review" or "done"
    count,     \* analyses so far
    plan,      \* what the planner returned
    audit,     \* what the execution returned
    result,
    asked      \* the question the approval answers, nothing having changed since

vars == <<repo, approved, stage, count, plan, audit, result, asked>>

-----------------------------------------------------------------------------------
(* Planning *)

Discovered ==
    Resolution(repo.artifacts, repo.claims, repo.manifests, repo.proposals, approved)

Discovery ==
    [claim |-> repo.claim, artifacts |-> repo.artifacts, evidence |-> repo.evidence,
     candidates |-> Discovered.candidates, approved |-> approved,
     upstream |-> Discovered.upstream]

-----------------------------------------------------------------------------------
(* Execution *)

\* materialize.py: what the native tree cannot represent, first met first.
Slot(kind, role, split) == [kind |-> kind, role |-> role, split |-> split]

BoundEvidence(m, evidence, kind, role) ==
    {EvidenceFor(b, evidence) : b \in {c \in m.bindings : c.kind = kind /\ c.role = role}}

TextualSeed(m, evidence, role, metric) ==
    \E e \in BoundEvidence(m, evidence, "results", role) : \E i \in DOMAIN e.obs :
        e.obs[i].metric = metric /\ e.obs[i].seed = Textual

\* Two observations give a value to one key, in one file or in several.
KeyGivenTwice(m, evidence, role) ==
    \E e, f \in BoundEvidence(m, evidence, "config", role) :
    \E i \in DOMAIN e.obs, j \in DOMAIN f.obs :
        <<e, i>> # <<f, j>> /\ DOMAIN e.obs[i].config \cap DOMAIN f.obs[j].config # {}

Unreferenced(b, evidence) ==
    LET e == EvidenceFor(b, evidence)
    IN  Cardinality({i \in DOMAIN e.obs : b.file \in e.obs[i].refs}) # 1

Unrepresentable(m, evidence, metric) ==
    LET datasets == {Slot("dataset", b.role, b.split) :
                       b \in {c \in m.bindings : c.kind = "dataset" /\ Unreferenced(c, evidence)}}
        results(x) == If(TextualSeed(m, evidence, x, metric), Slot("results", x, Absent))
        config(x) == If(KeyGivenTwice(m, evidence, x), Slot("config", x, Absent))
        tree(x) == IF results(x) # {} THEN results(x) ELSE config(x)
    IN  IF datasets # {} THEN datasets
        ELSE IF tree("baseline") # {} THEN tree("baseline") ELSE tree("candidate")

-----------------------------------------------------------------------------------
(* The result *)

Result(state, verdict, trace, question, bundle) ==
    [state |-> state, verdict |-> verdict, trace |-> trace, question |-> question,
     bundle |-> bundle]

NoResult == Result(None, None, None, {}, {})
Unavailable == Result("unavailable", None, None, {}, {})

End(r) == stage' = "done" /\ result' = r

Init ==
    /\ \E w \in Repositories : repo = w.repo /\ approved = w.approved
    /\ stage = "plan" /\ count = 1 /\ plan = Refused(None) /\ audit = NoAudit
    /\ result = NoResult /\ asked = {}

\* Discovery may raise, and then there is nothing to analyze.
PlanAudit ==
    /\ stage = "plan"
    /\ IF ResolutionRaises(repo.artifacts, repo.claims, repo.manifests, repo.proposals)
       THEN plan' = Refused("unavailable") ELSE plan' = Plan(Request(Discovery))
    /\ CASE plan'.state = "ready" -> stage' = "execute" /\ UNCHANGED result
         [] plan'.state = "unavailable" -> End(Unavailable)
         [] OTHER -> End(Result(plan'.state, None, None, plan'.question, plan'.bundle))
    /\ UNCHANGED <<repo, approved, count, audit, asked>>

Mapped == CHOOSE m \in plan.selected : TRUE
Bundled == CHOOSE b \in plan.bundle : TRUE

\* A plausible slip: a typed failure is reported with the obligations of the plan.
FailedAsPlanned(failure) == Result("partial", None, None, {}, {Bundled})

Failed(failure) ==
    IF Representable(Bundled, failure)
    THEN Result("partial", None, None, {}, {WithFailure(Bundled, failure)})
    ELSE Unavailable

Training == plan.profile.id = "training"

\* execute_ephemeral_audit_with_trace raises for any other reason.
ExecutionFails ==
    /\ stage = "execute" /\ End(Unavailable)
    /\ UNCHANGED <<repo, approved, count, plan, audit, asked>>

NotRepresented ==
    /\ stage = "execute" /\ Training
    /\ \E failure \in Unrepresentable(Mapped, repo.evidence, repo.claim.metric) :
         End(Failed(failure))
    /\ UNCHANGED <<repo, approved, count, plan, audit, asked>>

Audited(a) == audit' = a /\ stage' = "review" /\ result' = NoResult

AuditTraining ==
    /\ stage = "execute" /\ Training
    /\ Unrepresentable(Mapped, repo.evidence, repo.claim.metric) = {}
    /\ \E v \in Verdicts : Audited([NoAudit EXCEPT !.verdict = v])
    /\ UNCHANGED <<repo, approved, count, plan, asked>>

AuditOfBenchmark ==
    /\ stage = "execute" /\ ~Training
    /\ LET a == AuditBenchmark(repo.claim, Mapped, plan.profile, repo.evidence)
       IN  IF a = NoAudit THEN End(Unavailable) /\ UNCHANGED audit ELSE Audited(a)
    /\ UNCHANGED <<repo, approved, count, plan, asked>>

\* The one advisory call succeeds, with or without a place in the trace, or fails.
Review ==
    /\ stage = "review"
    /\ \/ \E trace \in {"advised", "unavailable"} :
            End(Result("complete", audit.verdict, trace, {}, plan.bundle))
       \/ End(Result("partial", audit.verdict, "audited", {}, plan.bundle))
    /\ UNCHANGED <<repo, approved, count, plan, audit, asked>>

-----------------------------------------------------------------------------------
(* Between two analyses *)

Again ==
    /\ stage = "done" /\ count < MaxAnalyses /\ count' = count + 1
    /\ stage' = "plan" /\ plan' = Refused(None) /\ audit' = NoAudit /\ result' = NoResult

\* Somebody approves a choice, laid over a mapping that was proposed if it is partial.
Answer ==
    /\ \E q \in result.question, base \in {{}} \cup {Discovered.candidates[i].bindings :
                                                       i \in DOMAIN Discovered.candidates} :
       \E choice \in q.choices :
          LET whole == Merged(Narrowed(base, KeysOf(repo.artifacts), repo.evidence), choice,
                              plan.profile)
          IN  approved' = {[bindings |-> whole, prov |-> "human", confidence |-> 100,
                            approved |-> TRUE]}
    /\ asked' = result.question
    /\ Again /\ UNCHANGED repo

\* A commit removes or rewrites one file; the approval stays.
Push ==
    /\ Again
    /\ \E e \in repo.evidence :
         \/ repo' = [repo EXCEPT !.artifacts = {a \in @ : a.file # e.file},
                                 !.evidence = {x \in @ : x.file # e.file},
                                 !.proposals = {}, !.manifests = {}]
         \/ \E new \in Rewritten :
              /\ new.file = e.file /\ new.kind = e.kind /\ new # e
              /\ repo' = [repo EXCEPT !.evidence = (@ \ {e}) \cup {new}]
    /\ asked' = {} /\ UNCHANGED approved

Next ==
    \/ PlanAudit \/ ExecutionFails \/ NotRepresented \/ AuditTraining \/ AuditOfBenchmark
    \/ Review \/ Answer \/ Push

Spec == Init /\ [][Next]_vars

-----------------------------------------------------------------------------------
(* Properties *)

Choice(b) == [file |-> b.file, kind |-> b.kind, role |-> b.role, split |-> b.split]
ChoicesOf(m) == {Choice(b) : b \in m.bindings}

\* An approval that concerns the claim is the only mapping its Audit is planned by: a
\* later push that removes what it names, rewrites it or offers something better leads
\* to no plan and never to another one (planner.py _scope_approved_mapping and
\* _select_mapping: nothing is substituted for an approval).
ApprovalIsFinal ==
    \A m \in approved :
        LET own == {b \in m.bindings : Key(b) \in KeysOf(Relevant(repo.artifacts, repo.claim))}
        IN  plan.state = "ready" /\ own # {} =>
                /\ ~Stale(m, repo.artifacts)
                /\ ChoicesOf(Mapped) = {Choice(b) : b \in own}

\* What is executed rests on evidence alone: a person approved it, or nobody proposed any
\* part of it but the code that is sure; every binding stands for exactly one extraction,
\* which says nothing of another role; and a training experiment has all its slots, the
\* results in the claim's metric (planner.py, profiles.py and obligations.py each check a
\* part of this, on mappings the others have narrowed).
ReadyIsEarned ==
    plan.state = "ready" =>
        LET own == Relevant(repo.evidence, repo.claim)
            held(b) == {e \in own : /\ e.file = b.file /\ e.kind = b.kind
                                    /\ e.adapter = b.adapter /\ e.fields = b.fields}
            slot(l) == {b \in Mapped.bindings : InSlot(l, b)}
        IN  /\ Mapped.approved
               \/ /\ Mapped.confidence >= SupportConfidence
                  /\ \A b \in Mapped.bindings : "provider" \notin {Mapped.prov, b.prov}
            /\ \A b \in Mapped.bindings :
                 /\ Cardinality(held(b)) = 1
                 /\ \A e \in held(b) :
                      /\ e.extracted
                      /\ \A i \in DOMAIN e.obs : e.obs[i].role \in {b.role, "unspecified"}
                      /\ plan.profile.id = "training" /\ b.kind = "results" =>
                           \E i \in DOMAIN e.obs : e.obs[i].metric = repo.claim.metric
            /\ plan.profile.id = "training" =>
                 \A l \in ArtifactLeaves :
                    IF l.name = "dataset" THEN Cardinality(slot(l)) = 1 ELSE slot(l) # {}

\* What the provider proposed decides nothing (discovery/mappings.py, planner.py
\* _select_mapping and profiles.py): a plan that nobody approved is the plan there would
\* have been without it, and where there would have been a plan its proposals, as long as
\* all can be offered, lead to that plan, to a question that offers it or that discovery
\* asks of itself, or to none at all, but evidence that is there is not called missing.
ProposalsOnlyAsk ==
    \A alone \in {Plan(Request([Discovery EXCEPT
                    !.candidates = Resolution(repo.artifacts, repo.claims, repo.manifests,
                                              {}, {}).candidates]))} :
    LET same(bindings) == \E m \in alone.selected : Signatures(m.bindings) = Signatures(bindings)
    IN  /\ stage \notin {"plan", "review"} /\ approved = {}
        /\ Cardinality(DOMAIN Discovered.candidates) <= MaxChoices
        => /\ plan.state = "ready" => /\ alone.state = "ready" /\ alone.profile = plan.profile
                                      /\ same(Mapped.bindings)
           /\ alone.state = "ready" =>
                CASE plan.state = "mapping_needed" ->
                        \/ \E q \in plan.question : \E c \in q.choices : same(c)
                        \/ plan.question = Request(Discovery).upstream
                  [] OTHER -> plan.state \in {"ready", "unavailable"}

Open(bundle) == {l \in DOMAIN bundle.leaves : bundle.leaves[l] # "satisfied"}

\* Every ending is explained by what it carries: a verdict is the Audit's own, with a
\* trace, whatever becomes of the advisory call after it, and every obligation was met;
\* without one, an obligation is open, and if a question is asked its answer is all that
\* is open (integration.py run_unified_analysis, obligations.py _build_obligation_bundle
\* and _with_native_representation_failure).
ResultIsExplained ==
    stage = "done" =>
        /\ result.verdict = audit.verdict
        /\ (audit # NoAudit) = (result.trace # None)
        /\ audit # NoAudit =>
             result.state \in {"complete", "partial"} /\ \A b \in result.bundle : Open(b) = {}
        /\ audit = NoAudit =>
             /\ result.state # "complete"
             /\ \A b \in result.bundle : Open(b) # {} \/ ~Compiled(repo.claim)
        /\ result.state = "mapping_needed" =>
             /\ \E q \in result.question : q.choices # {}
             /\ \A b \in result.bundle : \A l \in Open(b) : b.leaves[l] = "mapping"

\* A benchmark is supported only by measurements of the claim's metric that reach the
\* claim, made by one procedure as far as anything bound to the roles or shared by them
\* tells (benchmark_audit.py audit_benchmark); where the drift report finds a difference
\* the Audit stands behind, the claim is refuted (measurement.py).
BenchmarkSupportIsEarned ==
    stage = "review" /\ ~Training =>
        LET of(x) == Observed(Mapped, repo.evidence, x)
            told == UNION {UNION {{<<k, o.config[k]>> : k \in DOMAIN o.config} :
                                    o \in {of(x)[i] : i \in DOMAIN of(x)}} :
                           x \in Compared \cup {"reference"}}
            figures(x) == {of(x)[i].value : i \in {j \in DOMAIN of(x) : of(x)[j].metric # Absent}}
            better(v, w) == IF repo.claim.audit.higher THEN w - v ELSE v - w
        IN  /\ audit.verdict = "SUPPORTED" =>
                 /\ \A x \in Compared : Identities(of(x)) = {repo.claim.metric}
                 /\ \A p, q \in told :
                       p[1] = q[1] /\ p[1][1] \in ComparedSlots
                       /\ p[1] \notin MayDiffer(plan.profile.variant) => p = q
                 /\ \E v \in figures("baseline"), w \in figures("candidate") :
                       better(v, w) >= repo.claim.audit.threshold
            /\ audit.drift = "invalidates" => audit.verdict = "NOT_SUPPORTED"

\* Nobody is asked again for a slot that was answered, whatever the answer was laid over
\* and whether it made a plan or not; and a mapping that is approved as it was offered is
\* used or refused, but nothing is asked any more (planner.py _mapping_question and
\* _question_is_useful; discovery/mappings.py asks nothing beside an approval).  One that
\* is laid over another mapping may fail, and be asked for again.
AnswersAdvance ==
    stage # "plan" =>
        \A q \in asked, m \in approved :
            LET slot == \A c \in q.choices : \E b \in c : c = {b}
            IN  /\ slot => q \notin plan.question
                /\ ~slot /\ m.bindings \in q.choices => plan.state # "mapping_needed"
====
