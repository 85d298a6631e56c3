---------------------------- MODULE EvidenceObligations ----------------------------
(***************************************************************************)
(* obligations.py: what a claim's policy requires, and what each mapping   *)
(* and each issued artifact contributes to it.                             *)
(*                                                                         *)
(*   claim  [id, primary, metric, variant, threshold, unit, heldOut,       *)
(*           procedure]                                                    *)
(*                                                                         *)
(* A leaf obligation is "satisfied", "missing", "unsupported",             *)
(* "ambiguous", which blocks, or "mapping", an ambiguity that only needs   *)
(* an answer.  The composite comparison.readiness follows from its leaves  *)
(* and is left out, and so are the wordings of the reasons.                *)
(***************************************************************************)
EXTENDS EvidenceProfiles

Leaf(part, role, name, split) ==
    [part |-> part, role |-> role, name |-> name, split |-> split]

ClaimLeaf(field) == Leaf("claim", Absent, field, Absent)
SlotLeaf(kind, role, split) == Leaf("artifact", role, kind, split)
ProfileLeaf(slot) == Leaf("profile", Absent, slot, Absent)
ProcedureLeaf == Leaf("measurement", Absent, "retry_aggregation", Absent)

-----------------------------------------------------------------------------------
(* The policy of a claim *)

\* compile_audit_claim: the deterministic engine audits improvements without unit.
Compiled(claim) ==
    claim.primary = "improvement" /\ ~(claim.threshold /\ claim.unit)

ClaimFields(claim) ==
    CASE claim.primary = "improvement" -> {"metric", "direction", "threshold"}
      [] claim.primary = "absolute" -> {"metric", "quantitative_bound"}
      [] claim.primary = "quantitative" -> {"quantitative_bound"}
      [] OTHER -> {}

ClaimLeaves(claim) ==
    {ClaimLeaf(f) : f \in ClaimFields(claim)
                          \cup (IF claim.heldOut THEN {"held_out"} ELSE {})}

ArtifactLeaves ==
    {SlotLeaf(kind, role, Absent) : kind \in {"results", "config"}, role \in Compared}
    \cup {SlotLeaf("dataset", role, split) : role \in Compared, split \in Splits}

\* The one aggregation the claim may name that the engine carries out itself.
NamesProcedure(claim) == claim.procedure # Absent
Native(claim) == claim.procedure = "arithmetic_mean_v1"

\* claim_field_support: only a threshold can be absent from the source.
ClaimStatus(claim, leaf) ==
    IF leaf.name = "threshold" /\ ~claim.threshold THEN "missing" ELSE "satisfied"

-----------------------------------------------------------------------------------
(* What supports an artifact slot *)

\* A plausible slip: the provenance of the bindings is not consulted.
TrustedAtMappingLevel(m) ==
    m.approved \/ (m.confidence >= SupportConfidence /\ m.prov # "provider")

TrustedForSupport(m) ==
    m.approved \/ (m.confidence >= SupportConfidence /\ Unproposed(m))

Exact(e, b) == e.file = b.file /\ e.kind = b.kind /\ e.adapter = b.adapter
               /\ e.fields = b.fields

\* validated_artifact_support returns instead of raising.
Supports(e, b, m, metric) ==
    /\ TrustedForSupport(m)
    /\ Exact(e, b) /\ SupportsRole(e, b.role)
    /\ b.kind = "results" => \E i \in DOMAIN e.obs : e.obs[i].metric = metric
    /\ b.kind = "config" => \E i \in DOMAIN e.obs : DOMAIN e.obs[i].config # {}
    /\ b.kind = "dataset" =>
         b.split # Absent /\ \E i \in DOMAIN e.obs : b.file \in e.obs[i].refs

InSlot(leaf, b) == b.kind = leaf.name /\ b.role = leaf.role /\ b.split = leaf.split

SelectedSlotStatus(leaf, m, evidence, metric) ==
    LET bound == {b \in m.bindings : InSlot(leaf, b) /\ Resolves(b, evidence)}
    IN  IF \E b \in bound : ~Supports(EvidenceFor(b, evidence), b, m, metric)
        THEN "unsupported"
        ELSE IF bound # {} THEN "satisfied" ELSE "missing"

\* The evidence a binding resolves to agrees with its role and the claim's metric.
Usable(b, evidence, metric) ==
    /\ Resolves(b, evidence)
    /\ SupportsRole(EvidenceFor(b, evidence), b.role)
    /\ b.kind = "results" =>
         \E i \in DOMAIN EvidenceFor(b, evidence).obs :
             EvidenceFor(b, evidence).obs[i].metric = metric

\* The slot is bound alike by every choice, and a trusted candidate supports it.
CommonToChoices(leaf, question, candidates, evidence, metric) ==
    LET of(choice) == Signatures({b \in choice : InSlot(leaf, b)})
        some == of(CHOOSE c \in question.choices : TRUE)
    IN  /\ some # {}
        /\ \A c \in question.choices : of(c) = some
        /\ \A s \in some : \E i \in DOMAIN candidates : \E b \in candidates[i].bindings :
             /\ InSlot(leaf, b) /\ Signature(b) = s /\ Usable(b, evidence, metric)
             /\ Supports(EvidenceFor(b, evidence), b, candidates[i], metric)

\* _unselected_artifact_obligation, and what its caller makes of an ambiguity.
OpenSlotStatus(leaf, r, asked) ==
    LET offered == UNION {{b \in r.candidates[i].bindings : InSlot(leaf, b)} :
                            i \in DOMAIN r.candidates}
        chosen == IF asked.question = {} THEN {}
                  ELSE {b \in UNION (CHOOSE q \in asked.question : TRUE).choices :
                          InSlot(leaf, b)}
    IN  IF ~\E a \in r.artifacts : a.kind = leaf.name THEN "missing"
        ELSE IF ~\E e \in r.evidence : e.kind = leaf.name THEN "unsupported"
        ELSE IF offered \cup chosen = {} THEN "missing"
        ELSE IF ~\E b \in offered \cup chosen : Usable(b, r.evidence, r.claim.metric)
        THEN "unsupported"
        ELSE IF asked.question = {} THEN "ambiguous"
        ELSE IF /\ asked.reason \in {"multiple", "conflicting"}
                /\ \E q \in asked.question :
                     CommonToChoices(leaf, q, r.candidates, r.evidence, r.claim.metric)
        THEN "satisfied"
        ELSE IF asked.reason = Absent THEN "ambiguous" ELSE "mapping"

-----------------------------------------------------------------------------------
(* The aggregation procedure a claim names *)

ProcedureKeys ==
    {<<"evaluation", f>> : f \in {"aggregation", "aggregation_procedure",
                                  "retry_aggregation"}}
    \cup {Protocol("aggregation")}

ProcedureBindings(m, evidence) ==
    {b \in m.bindings : /\ b.kind \in {"config", "benchmark"} /\ b.role \in Compared
                        /\ Resolves(b, evidence)
                        /\ SupportsRole(EvidenceFor(b, evidence), b.role)}

\* One entry for each distinct value of each binding.
ProcedureValues(m, evidence, role) ==
    UNION {LET e == EvidenceFor(b, evidence)
           IN  UNION {{<<b, e.obs[i].config[k]>> :
                         k \in DOMAIN e.obs[i].config \cap b.fields \cap ProcedureKeys} :
                       i \in DOMAIN e.obs} :
           b \in {c \in ProcedureBindings(m, evidence) : c.role = role}}

ProcedureStatus(m, evidence, procedure) ==
    LET values(role) == ProcedureValues(m, evidence, role)
    IN  IF \E role \in Compared : values(role) = {} THEN "missing"
        ELSE IF \E role \in Compared : Cardinality(values(role)) # 1 THEN "ambiguous"
        ELSE IF \A role \in Compared : \A v \in values(role) : v[2] = procedure
             THEN "satisfied" ELSE "unsupported"

\* validated_measurement_procedure_support returns, the status being satisfied.
ProcedureSupported(m, evidence, metric) ==
    /\ TrustedForSupport(m)
    /\ \A b \in ProcedureBindings(m, evidence) :
         LET e == EvidenceFor(b, evidence)
         IN  /\ \A i \in DOMAIN e.obs : e.obs[i].extracted
             /\ b.kind = "config"
                /\ (\E role \in Compared : \E v \in ProcedureValues(m, evidence, role) :
                       v[1] = b)
                => Supports(e, b, m, metric)

ProcedureLeafStatus(r, selected, asked) ==
    LET status(m) == ProcedureStatus(m, r.evidence, r.claim.procedure)
        offered == {status(r.candidates[i]) : i \in DOMAIN r.candidates}
        m == CHOOSE s \in selected : TRUE
    IN  IF ~Native(r.claim) THEN "unsupported"
        ELSE IF selected # {}
        THEN IF status(m) = "satisfied" /\ ~ProcedureSupported(m, r.evidence, r.claim.metric)
             THEN "unsupported" ELSE status(m)
        ELSE IF "satisfied" \in offered
        THEN IF asked.question # {} THEN "mapping" ELSE "ambiguous"
        ELSE IF offered \cap {"unsupported", "ambiguous"} # {} THEN "unsupported"
        ELSE "missing"

-----------------------------------------------------------------------------------
(* The slots of a benchmark profile *)

PairedSlots == {"benchmark.subject", "benchmark.results",
                "benchmark.measurement_config", "measurement.metric_identity",
                "benchmark.run_protocol"}

SlotKinds(slot) ==
    CASE slot = "benchmark.results" -> {"benchmark", "results"}
      [] slot = "benchmark.workload" -> {"benchmark", "config", "results", "dataset"}
      [] OTHER -> {"benchmark", "config", "results"}

\* _profile_projection raises.
ProjectionRaises(slot, e, b) ==
    \/ ~e.extracted
    \/ \E i \in DOMAIN e.obs : ~e.obs[i].extracted
    \/ /\ slot = "benchmark.workload" /\ b.kind = "dataset"
       /\ Cardinality({i \in DOMAIN e.obs : b.file \in e.obs[i].refs}) # 1

\* It returns some value for the slot.
Projects(slot, e, b) ==
    \/ slot = "benchmark.workload" /\ b.kind = "dataset"
    \/ /\ slot \in {"benchmark.results", "measurement.metric_identity"}
       /\ MetricValue \in b.fields
       /\ \E i \in DOMAIN e.obs : e.obs[i].metric # Absent
    \/ \E i \in DOMAIN e.obs : \E k \in DOMAIN e.obs[i].config \cap b.fields :
          k[1] = slot

\* validated_profile_evidence_support returns instead of raising.
SlotSupported(slot, m, r) ==
    LET usable == {b \in m.bindings : /\ b.kind \in SlotKinds(slot)
                                      /\ Resolves(b, r.evidence)
                                      /\ SupportsRole(EvidenceFor(b, r.evidence), b.role)}
        roles == {b.role : b \in {c \in usable :
                                   Projects(slot, EvidenceFor(c, r.evidence), c)}}
    IN  /\ TrustedForSupport(m)
        /\ slot = "benchmark.run_protocol" /\ NamesProcedure(r.claim) =>
             ProcedureStatus(m, r.evidence, r.claim.procedure) = "satisfied"
        /\ \A b \in usable : ~ProjectionRaises(slot, EvidenceFor(b, r.evidence), b)
        /\ \/ Compared \subseteq roles
           \/ slot \notin PairedSlots /\ "reference" \in roles

ProfileLeafStatus(slot, r, selected, asked) ==
    IF selected # {}
    THEN IF slot = "benchmark.run_protocol" /\ NamesProcedure(r.claim)
            /\ ~Native(r.claim) THEN "unsupported"
         ELSE IF \E m \in selected : SlotSupported(slot, m, r) THEN "satisfied"
         ELSE "missing"
    ELSE IF DOMAIN r.candidates = {} THEN "missing"
    ELSE IF asked.question # {} THEN "mapping" ELSE "ambiguous"

-----------------------------------------------------------------------------------
(* The bundle *)

\* _build_obligation_bundle: anything missing, unsupported or unanswerable blocks.
Decision(leaves, compiled, asks) ==
    LET statuses == {leaves[l] : l \in DOMAIN leaves}
        blocked == ~compiled \/ statuses \cap {"missing", "unsupported", "ambiguous"} # {}
        met == statuses \subseteq {"satisfied"}
    IN  CASE ~blocked /\ met -> "ready"
          [] ~blocked /\ ~met /\ asks -> "mapping_needed"
          [] OTHER -> "partial"

Bundle(policy, leaves, compiled, asks) ==
    [policy |-> policy, leaves |-> leaves,
     decision |-> Decision(leaves, compiled, asks)]

\* assess_evidence_obligations, the policy of the claim alone.
AssessClaim(r, selected, asked) ==
    LET compiled == Compiled(r.claim)
        leaves == ClaimLeaves(r.claim)
                  \cup (IF compiled THEN ArtifactLeaves ELSE {})
                  \cup (IF compiled /\ NamesProcedure(r.claim)
                        THEN {ProcedureLeaf} ELSE {})
        status(l) ==
            CASE l.part = "claim" -> ClaimStatus(r.claim, l)
              [] l.part = "measurement" -> ProcedureLeafStatus(r, selected, asked)
              [] OTHER ->
                   IF selected = {} THEN OpenSlotStatus(l, r, asked)
                   ELSE SelectedSlotStatus(l, CHOOSE m \in selected : TRUE, r.evidence,
                                           r.claim.metric)
    IN  Bundle("claim", [l \in leaves |-> status(l)], compiled, asked.question # {})

\* assess_profiled_evidence_obligations
AssessProfiled(r, profile, selected, asked) ==
    IF profile.id = "training" THEN AssessClaim(r, selected, asked)
    ELSE LET leaves == ClaimLeaves(r.claim)
                       \cup {ProfileLeaf(s) : s \in ActiveSlots(profile.variant)}
             status(l) == IF l.part = "claim" THEN ClaimStatus(r.claim, l)
                          ELSE ProfileLeafStatus(l.name, r, selected, asked)
         IN  Bundle("profile", [l \in leaves |-> status(l)], TRUE,
                    asked.question # {})

\* legacy_missing_evidence
MissingEvidence(bundle) ==
    {l \in DOMAIN bundle.leaves :
       l.part = "artifact" /\ bundle.leaves[l] \in {"missing", "unsupported"}}

\* _with_native_representation_failure: which slots a failure is about, and whether
\* it can be told at all; it raises unless some slot of a claim policy is meant.
FailedSlots(bundle, failure) ==
    {l \in DOMAIN bundle.leaves :
       /\ l.part = "artifact" /\ l.name = failure.kind /\ l.role = failure.role
       /\ failure.split \in {Absent, l.split}}

Representable(bundle, failure) ==
    /\ bundle.policy = "claim" /\ bundle.decision = "ready"
    /\ FailedSlots(bundle, failure) # {}

WithFailure(bundle, failure) ==
    Bundle(bundle.policy,
           [l \in DOMAIN bundle.leaves |->
              IF l \in FailedSlots(bundle, failure) THEN "unsupported"
              ELSE bundle.leaves[l]], TRUE, FALSE)
====
