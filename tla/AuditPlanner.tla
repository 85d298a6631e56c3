------------------------------- MODULE AuditPlanner -------------------------------
(***************************************************************************)
(* planner.py: one claim's share of what discovery issued, and the plan,   *)
(* the question or the refusal made of it.                                 *)
(*                                                                         *)
(*   discovery  [claim, artifacts, evidence, candidates, approved, upstream]*)
(*   request    the same, scoped to the claim                              *)
(*   artifact   [file, kind, claims]                                       *)
(*   question   [claim, choices], a set of binding sets; an approval and   *)
(*              a refusal of one mapping carry the same bindings and are   *)
(*              one choice here                                            *)
(*                                                                         *)
(* candidates is a function from places in their order, some of which may  *)
(* be vacant; approved, upstream, a selected mapping and a plan's question *)
(* are sets of at most one element.  Files are numbered in the order in    *)
(* which the mappings list them.                                           *)
(***************************************************************************)
EXTENDS EvidenceObligations, MappingDiscovery

Key(x) == <<x.file, x.kind>>

KeysOf(S) == {Key(x) : x \in S}

Relevant(S, claim) == {x \in S : claim.id \in x.claims}

-----------------------------------------------------------------------------------
(* Scoping *)

\* _hydrate_binding: a binding takes adapter and selectors from what it resolves to.
Hydrate(b, evidence) ==
    IF ~Resolves(b, evidence) THEN b
    ELSE LET e == EvidenceFor(b, evidence)
         IN  [b EXCEPT !.adapter = e.adapter, !.fields = e.fields]

Narrowed(bindings, keys, evidence) ==
    {Hydrate(b, evidence) : b \in {c \in bindings : Key(c) \in keys}}

\* The first of each provenance and signature, those without a binding left out.
ScopedCandidates(candidates, keys, evidence) ==
    LET m(i) == [candidates[i] EXCEPT
                    !.bindings = Narrowed(candidates[i].bindings, keys, evidence)]
        alike(i, j) == /\ m(i).prov = m(j).prov
                       /\ Signatures(m(i).bindings) = Signatures(m(j).bindings)
        kept(i) == m(i).bindings # {} /\ \A j \in DOMAIN candidates : j < i => ~alike(i, j)
    IN  [i \in {j \in DOMAIN candidates : kept(j)} |-> m(i)]

Stale(m, artifacts) == \E b \in m.bindings : Key(b) \notin KeysOf(artifacts)

\* RepoMapping.scope_to_runtime_bindings raises: the adapter is not determined.
ScopeRaises(bindings) == \E b \in bindings : b.adapter = Absent

\* _scope_approved_mapping: a stale or invalid approval is kept as it is.
ScopedApproval(m, d, keys, evidence) ==
    LET narrowed == Narrowed(m.bindings, keys, evidence)
    IN  IF Stale(m, d.artifacts) THEN {m}
        ELSE IF narrowed = {} THEN {}
        ELSE IF ScopeRaises(narrowed) THEN {m}
        ELSE {[m EXCEPT !.bindings = narrowed]}

ScopedQuestion(q, d, keys, evidence) ==
    LET choices == {Narrowed(c, keys, evidence) : c \in q.choices} \ {{}}
    IN  IF q.claim \in {Absent, d.claim.id} /\ Cardinality(choices) \in 2..MaxChoices
        THEN {[claim |-> d.claim.id, choices |-> choices]} ELSE {}

\* planning_request_from_discovery
Request(d) ==
    LET artifacts == Relevant(d.artifacts, d.claim)
        evidence == Relevant(d.evidence, d.claim)
        keys == KeysOf(artifacts)
    IN  [claim |-> d.claim, artifacts |-> artifacts, evidence |-> evidence,
         candidates |-> ScopedCandidates(d.candidates, keys, evidence),
         approved |-> UNION {ScopedApproval(m, d, keys, evidence) : m \in d.approved},
         upstream |-> UNION {ScopedQuestion(q, d, keys, evidence) : q \in d.upstream}]

-----------------------------------------------------------------------------------
(* Selecting a mapping *)

\* _mapping_is_runtime_revalidatable
Revalidatable(m, r, profile) ==
    /\ \A b \in m.bindings :
         /\ b.role \in Compared \cup (IF profile.id = "benchmark" THEN {"reference"}
                                                                    ELSE {})
         /\ Resolves(b, r.evidence)
         /\ LET e == EvidenceFor(b, r.evidence)
            IN  /\ r.claim.id \in e.claims /\ Exact(e, b) /\ SupportsRole(e, b.role)
                /\ b.kind = "dataset" =>
                     \A i \in DOMAIN e.obs : e.obs[i].refs \subseteq {b.file}
    /\ MatchesProfile(m, profile, r.evidence)

\* The indices of the candidates that revalidate, and their signatures.
Valid(r, profile) ==
    {i \in DOMAIN r.candidates : Revalidatable(r.candidates[i], r, profile)}

ValidSignatures(r, valid) == {Signatures(r.candidates[i].bindings) : i \in valid}

Priority(m) == CASE m.prov = "discovery" -> 0 [] m.prov = "manifest" -> 1 [] OTHER -> 2

\* Smaller provenance priority first, then greater confidence.
Preferred(x, y) ==
    \/ Priority(x) < Priority(y)
    \/ Priority(x) = Priority(y) /\ x.confidence >= y.confidence

\* The smallest identifier breaks a tie; which one that is does not matter.
Best(mappings) ==
    LET best == {m \in mappings : \A n \in mappings : Preferred(m, n)}
    IN  IF best = {} THEN {} ELSE {CHOOSE m \in best : TRUE}

Eligible(m) == m.confidence >= SupportConfidence /\ m.prov # "provider"

\* A plausible slip: the automatic mappings are tried when the approval fails.
SelectMappingOrNext(r, profile, valid) ==
    LET eligible == {r.candidates[i] : i \in {j \in valid : Eligible(r.candidates[j])}}
        approved == {m \in r.approved : Revalidatable(m, r, profile)}
    IN  IF approved # {} THEN approved
        ELSE IF Cardinality(ValidSignatures(r, valid)) # 1 THEN {}
        ELSE Best(eligible)

\* _select_mapping: an approval that fails leaves nothing selected.
SelectMapping(r, profile, valid) ==
    LET eligible == {r.candidates[i] : i \in {j \in valid : Eligible(r.candidates[j])}}
    IN  IF r.approved # {} THEN {m \in r.approved : Revalidatable(m, r, profile)}
        ELSE IF Cardinality(ValidSignatures(r, valid)) # 1 THEN {}
        ELSE Best(eligible)

-----------------------------------------------------------------------------------
(* Asking *)

CandidateQuestion(r, valid) ==
    IF Cardinality(valid) \notin 1..MaxChoices THEN {}
    ELSE {[claim |-> r.claim.id, choices |-> {r.candidates[i].bindings : i \in valid}]}

\* _binding_supports_native_slot
NativeSlot(b, r) ==
    /\ Usable(b, r.evidence, r.claim.metric)
    /\ LET e == EvidenceFor(b, r.evidence)
       IN  /\ Exact(e, b)
           /\ b.kind = "config" => \E i \in DOMAIN e.obs : DOMAIN e.obs[i].config # {}
           /\ b.kind \notin {"results", "config"} =>
                \E i \in DOMAIN e.obs : b.file \in e.obs[i].refs

\* _bindings_can_produce_plan
CanProducePlan(bindings, r, profile, valid) ==
    LET of(kind, role) == {b \in bindings : b.kind = kind /\ b.role = role}
        dataset(role, split) == {b \in of("dataset", role) : b.split = split}
    IN  IF profile.id = "benchmark" THEN Signatures(bindings) \in ValidSignatures(r, valid)
        ELSE \A role \in Compared :
                /\ \A kind \in {"results", "config"} :
                     of(kind, role) # {} /\ \A b \in of(kind, role) : NativeSlot(b, r)
                /\ \A split \in Splits :
                     /\ Cardinality(dataset(role, split)) = 1
                     /\ \A b \in dataset(role, split) : NativeSlot(b, r)

\* The answer laid over a base, slot by slot; what is listed later wins its slot.
Merged(base, choice, profile) ==
    LET slot(b) == <<IF profile.id = "benchmark" THEN b.file ELSE 0, b.kind, b.role, b.split>>
        last(S) == {b \in S : \A c \in S : slot(c) = slot(b) => c.file <= b.file}
    IN  last(choice) \cup {b \in last(base) : \A c \in choice : slot(c) # slot(b)}

\* _question_is_useful
Useful(q, r, profile, valid) ==
    LET bases == {r.candidates[i].bindings : i \in DOMAIN r.candidates}
    IN  \E choice \in q.choices, base \in (IF bases = {} THEN {{}} ELSE bases) :
            CanProducePlan(Merged(base, choice, profile), r, profile, valid)

NotAsked == [question |-> {}, reason |-> Absent]

\* The reason open slots are ambiguous for, when nothing but the candidates is asked.
ReasonFor(r, question, signatures) ==
    IF r.approved # {} THEN IF question # {} THEN "approved_not_applicable" ELSE Absent
    ELSE IF signatures = {} THEN Absent
    ELSE IF question = {} THEN "not_bounded"
    ELSE IF Cardinality(signatures) > 1 THEN "conflicting" ELSE "approval_required"

\* What is asked, a question of discovery's before one of the planner's.
Asking(upstream, question, reason) ==
    IF upstream # {} THEN [question |-> upstream, reason |-> "multiple"]
    ELSE [question |-> question, reason |-> reason]

Clarification(r, profile, valid) ==
    LET useful(questions) == {q \in questions : Useful(q, r, profile, valid)}
        asked(question) == Asking(useful(r.upstream), question,
                                  ReasonFor(r, question, ValidSignatures(r, valid)))
    IN  asked(useful(CandidateQuestion(r, valid)))

-----------------------------------------------------------------------------------
(* The plan *)

Outcome(state, profile, selected, question, bundle) ==
    [state |-> state, profile |-> profile, selected |-> selected, question |-> question,
     bundle |-> bundle]

Refused(state) == Outcome(state, NoProfile(Absent), {}, {}, {})

\* An approval is the only mapping the profile is selected by.
ProfileOf(r) ==
    SelectProfile(r.claim.variant,
                  IF r.approved # {} THEN <<CHOOSE m \in r.approved : TRUE>> ELSE r.candidates,
                  r.evidence)

\* What the obligations leave of a selection.
Concluded(profile, selected, question, bundle) ==
    CASE bundle.decision = "partial" -> Outcome("partial", profile, {}, {}, {bundle})
      [] bundle.decision = "mapping_needed" ->
            Outcome("mapping_needed", profile, {}, question, {bundle})
      [] OTHER -> IF selected = {} THEN Refused("unavailable")
                  ELSE Outcome("ready", profile, selected, {}, {bundle})

Assessed(r, profile, selected, asked) ==
    Concluded(profile, selected, asked.question, AssessProfiled(r, profile, selected, asked))

Chosen(r, profile, valid, selected) ==
    Assessed(r, profile, selected,
             IF selected # {} THEN NotAsked ELSE Clarification(r, profile, valid))

PlanOver(r, profile, valid) == Chosen(r, profile, valid, SelectMapping(r, profile, valid))

PlanUnder(r, profile) ==
    IF profile.state # "selected" THEN Refused("partial")
    ELSE PlanOver(r, profile, Valid(r, profile))

\* plan_ephemeral_audit
Plan(r) ==
    IF \E m \in r.approved : Stale(m, r.artifacts) THEN Refused("unavailable")
    ELSE IF ~Compiled(r.claim)
    THEN Outcome("partial", NoProfile(Absent), {}, {}, {AssessClaim(r, {}, NotAsked)})
    ELSE PlanUnder(r, ProfileOf(r))
====
