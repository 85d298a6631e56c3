--------------------------- MODULE UnifiedAnalysisProofs ---------------------------
(***************************************************************************)
(* Properties of UnifiedAnalysis for every repository, approval and        *)
(* change.  A plan is a function of the repository and of what was         *)
(* approved, so that most of the proof is about that function: what an     *)
(* obligation bundle says, which mapping is selected, what is asking, and  *)
(* what the audit of a benchmark has added up.  The steps then keep the    *)
(* plan and the audit beside the state they were computed from.            *)
(***************************************************************************)
EXTENDS UnifiedAnalysis, FiniteSetTheorems, SequenceTheorems, WellFoundedInduction, TLAPS

-----------------------------------------------------------------------------------
(* The invariant.                                                            *)

Wellformed ==
    /\ DOMAIN repo = {"claim", "claims", "artifacts", "evidence", "manifests", "proposals"}
    /\ \A m, n \in approved : m = n
    /\ \A m \in approved \cup repo.manifests \cup repo.proposals : IsMapping(m)
    /\ IsFiniteSet(repo.evidence) /\ \A e \in repo.evidence : IsEvidence(e)
    /\ repo.claim.threshold => repo.claim.audit.threshold \in Int

Offered == \A q \in result.question : \A c \in q.choices : \A b \in c : IsBinding(b)

Planned ==
    /\ stage \in {"plan", "execute", "review", "done"}
    /\ stage = "plan" => plan = Refused(None)
    /\ stage # "plan" => plan \in {Refused("unavailable"), Plan(Request(Discovery))}
    /\ stage \in {"execute", "review"} => plan.state = "ready"

AuditedOnce ==
    /\ stage \in {"plan", "execute"} => audit = NoAudit
    /\ stage = "review" => audit # NoAudit

IInv == Wellformed /\ Offered /\ Planned /\ AuditedOnce /\ ResultIsExplained

-----------------------------------------------------------------------------------
(* What the decision of a bundle says of its leaves.                         *)

Statuses == {"satisfied", "missing", "unsupported", "ambiguous", "mapping"}

LEMMA DecisionSays ==
    ASSUME NEW leaves, NEW compiled \in BOOLEAN, NEW asks \in BOOLEAN,
           \A l \in DOMAIN leaves : leaves[l] \in Statuses
    PROVE  /\ Decision(leaves, compiled, asks) \in {"ready", "mapping_needed", "partial"}
           /\ Decision(leaves, compiled, asks) = "ready" =>
                compiled /\ \A l \in DOMAIN leaves : leaves[l] = "satisfied"
           /\ Decision(leaves, compiled, asks) = "mapping_needed" =>
                /\ asks
                /\ \E l \in DOMAIN leaves : leaves[l] # "satisfied"
                /\ \A l \in DOMAIN leaves : leaves[l] \in {"satisfied", "mapping"}
           /\ Decision(leaves, compiled, asks) = "partial" =>
                ~compiled \/ \E l \in DOMAIN leaves : leaves[l] # "satisfied"
<1> DEFINE statuses == {leaves[l] : l \in DOMAIN leaves}
           blocked == ~compiled \/ statuses \cap {"missing", "unsupported", "ambiguous"} # {}
           met == statuses \subseteq {"satisfied"}
           d == Decision(leaves, compiled, asks)
<1>1. d = CASE ~blocked /\ met -> "ready"
            [] ~blocked /\ ~met /\ asks -> "mapping_needed"
            [] OTHER -> "partial"
  BY DEF Decision
<1>2. blocked \in BOOLEAN /\ met \in BOOLEAN
  OBVIOUS
<1>3. /\ ~blocked /\ met => compiled /\ \A l \in DOMAIN leaves : leaves[l] = "satisfied"
      /\ ~met => \E l \in DOMAIN leaves : leaves[l] # "satisfied"
      /\ ~blocked => \A l \in DOMAIN leaves : leaves[l] \in {"satisfied", "mapping"}
      /\ blocked => ~compiled \/ \E l \in DOMAIN leaves : leaves[l] # "satisfied"
  BY DEF Statuses
<1> HIDE DEF blocked, met
<1>4. \/ ~blocked /\ met /\ d = "ready"
      \/ ~blocked /\ ~met /\ asks /\ d = "mapping_needed"
      \/ (blocked \/ (~met /\ ~asks)) /\ d = "partial"
  <2> HIDE DEF d
  <2> QED
    BY <1>1, <1>2
<1> HIDE DEF d
<1>5. /\ d \in {"ready", "mapping_needed", "partial"}
      /\ d = "ready" => compiled /\ \A l \in DOMAIN leaves : leaves[l] = "satisfied"
      /\ d = "mapping_needed" =>
           /\ asks
           /\ \E l \in DOMAIN leaves : leaves[l] # "satisfied"
           /\ \A l \in DOMAIN leaves : leaves[l] \in {"satisfied", "mapping"}
      /\ d = "partial" => ~compiled \/ \E l \in DOMAIN leaves : leaves[l] # "satisfied"
  BY <1>3, <1>4
<1> QED
  BY <1>5 DEF d

LEMMA CompiledIsBoolean == \A claim : Compiled(claim) \in BOOLEAN
  BY DEF Compiled

-----------------------------------------------------------------------------------
(* The two bundles.                                                          *)

LEMMA SlotStatuses ==
    ASSUME NEW leaf, NEW r, NEW selected, NEW asking, NEW m
    PROVE  /\ OpenSlotStatus(leaf, r, asking) \in Statuses
           /\ SelectedSlotStatus(leaf, m, r.evidence, r.claim.metric) \in Statuses
           /\ ProfileLeafStatus(leaf.name, r, selected, asking) \in Statuses
           /\ ClaimStatus(r.claim, leaf) \in Statuses
<1>1. OpenSlotStatus(leaf, r, asking) \in Statuses
  BY DEF OpenSlotStatus, Statuses
<1>2. SelectedSlotStatus(leaf, m, r.evidence, r.claim.metric) \in Statuses
  BY DEF SelectedSlotStatus, Statuses
<1>3. ProfileLeafStatus(leaf.name, r, selected, asking) \in Statuses
  BY DEF ProfileLeafStatus, Statuses
<1>4. ClaimStatus(r.claim, leaf) \in Statuses
  BY DEF ClaimStatus, Statuses
<1> QED
  BY <1>1, <1>2, <1>3, <1>4

LEMMA ProcedureStatuses ==
    ASSUME NEW r, NEW selected, NEW asking
    PROVE  ProcedureLeafStatus(r, selected, asking) \in Statuses
<1> DEFINE status(m) == ProcedureStatus(m, r.evidence, r.claim.procedure)
<1>1. \A m : status(m) \in Statuses
  BY DEF ProcedureStatus, Statuses
<1> HIDE DEF status
<1>2. ProcedureLeafStatus(r, selected, asking) =
        LET offered == {status(r.candidates[i]) : i \in DOMAIN r.candidates}
            m == CHOOSE s \in selected : TRUE
        IN  IF ~Native(r.claim) THEN "unsupported"
            ELSE IF selected # {}
            THEN IF status(m) = "satisfied" /\ ~ProcedureSupported(m, r.evidence, r.claim.metric)
                 THEN "unsupported" ELSE status(m)
            ELSE IF "satisfied" \in offered
            THEN IF asking.question # {} THEN "mapping" ELSE "ambiguous"
            ELSE IF offered \cap {"unsupported", "ambiguous"} # {} THEN "unsupported"
            ELSE "missing"
  BY DEF ProcedureLeafStatus, status
<1> QED
  BY <1>1, <1>2 DEF Statuses

\* What both bundles have in common.
BundleSays(b, compiled, asks) ==
    /\ b.decision = Decision(b.leaves, compiled, asks)
    /\ \A l \in DOMAIN b.leaves : b.leaves[l] \in Statuses

LEMMA ClaimBundle ==
    ASSUME NEW r, NEW selected, NEW asking
    PROVE  LET b == AssessClaim(r, selected, asking)
           IN  /\ DOMAIN b = {"policy", "leaves", "decision"} /\ b.policy = "claim"
               /\ BundleSays(b, Compiled(r.claim), (asking.question # {}))
               /\ Compiled(r.claim) => ArtifactLeaves \subseteq DOMAIN b.leaves
               /\ selected # {} => \A l \in DOMAIN b.leaves \cap ArtifactLeaves :
                    b.leaves[l] = SelectedSlotStatus(l, CHOOSE m \in selected : TRUE,
                                                     r.evidence, r.claim.metric)
<1> DEFINE b == AssessClaim(r, selected, asking)
           compiled == Compiled(r.claim)
           S == ClaimLeaves(r.claim)
                \cup (IF compiled THEN ArtifactLeaves ELSE {})
                \cup (IF compiled /\ NamesProcedure(r.claim) THEN {ProcedureLeaf} ELSE {})
           status(l) ==
             CASE l.part = "claim" -> ClaimStatus(r.claim, l)
               [] l.part = "measurement" -> ProcedureLeafStatus(r, selected, asking)
               [] OTHER ->
                    IF selected = {} THEN OpenSlotStatus(l, r, asking)
                    ELSE SelectedSlotStatus(l, CHOOSE m \in selected : TRUE, r.evidence,
                                            r.claim.metric)
           f == [l \in S |-> status(l)]
<1>1. b = [policy |-> "claim", leaves |-> f,
           decision |-> Decision(f, compiled, asking.question # {})]
  BY DEF AssessClaim, Bundle
<1>2. \A l : status(l) \in Statuses
  <2> TAKE l
  <2>1. CASE l.part = "claim"
    BY <2>1, SlotStatuses
  <2>2. CASE l.part = "measurement"
    BY <2>2, ProcedureStatuses
  <2>3. CASE l.part \notin {"claim", "measurement"}
    BY <2>3, SlotStatuses
  <2> QED
    BY <2>1, <2>2, <2>3
<1>3. \A l \in ArtifactLeaves : l.part = "artifact"
  BY DEF ArtifactLeaves, SlotLeaf, Leaf
<1>4. selected # {} => \A l \in S \cap ArtifactLeaves :
         status(l) = SelectedSlotStatus(l, CHOOSE m \in selected : TRUE, r.evidence,
                                        r.claim.metric)
  BY <1>3
<1>5. compiled => ArtifactLeaves \subseteq S
  OBVIOUS
<1> HIDE DEF b, S, status
<1> QED
  BY <1>1, <1>2, <1>4, <1>5 DEF BundleSays, b

LEMMA ProfileBundle ==
    ASSUME NEW r, NEW profile, NEW selected, NEW asks, profile.id # "training"
    PROVE  BundleSays(AssessProfiled(r, profile, selected, asks), TRUE, (asks.question # {}))
<1> DEFINE b == AssessProfiled(r, profile, selected, asks)
           S == ClaimLeaves(r.claim) \cup {ProfileLeaf(s) : s \in ActiveSlots(profile.variant)}
           status(l) == IF l.part = "claim" THEN ClaimStatus(r.claim, l)
                        ELSE ProfileLeafStatus(l.name, r, selected, asks)
           f == [l \in S |-> status(l)]
<1>1. b = [policy |-> "profile", leaves |-> f,
           decision |-> Decision(f, TRUE, asks.question # {})]
  BY DEF AssessProfiled, Bundle
<1>2. \A l : status(l) \in Statuses
  BY SlotStatuses
<1> HIDE DEF b, S, status
<1> QED
  BY <1>1, <1>2 DEF BundleSays, b

LEMMA ProfileStatus ==
    ASSUME NEW r, NEW profile, NEW selected, NEW asks, profile.id # "training",
           NEW s \in ActiveSlots(profile.variant)
    PROVE  LET leaves == AssessProfiled(r, profile, selected, asks).leaves
           IN  /\ ProfileLeaf(s) \in DOMAIN leaves
               /\ leaves[ProfileLeaf(s)] = ProfileLeafStatus(s, r, selected, asks)
<1> DEFINE S == ClaimLeaves(r.claim) \cup {ProfileLeaf(x) : x \in ActiveSlots(profile.variant)}
           status(l) == IF l.part = "claim" THEN ClaimStatus(r.claim, l)
                        ELSE ProfileLeafStatus(l.name, r, selected, asks)
           leaves == AssessProfiled(r, profile, selected, asks).leaves
<1>1. leaves = [l \in S |-> status(l)]
  BY DEF AssessProfiled, Bundle
<1>2. ProfileLeaf(s) \in S /\ status(ProfileLeaf(s)) = ProfileLeafStatus(s, r, selected, asks)
  BY DEF ProfileLeaf, Leaf
<1> HIDE DEF S, status, leaves
<1> QED
  BY <1>1, <1>2 DEF leaves

\* What a bundle's decision means, whichever policy it is of.
LEMMA BundleDecides ==
    ASSUME NEW b, NEW compiled \in BOOLEAN, NEW asks \in BOOLEAN,
           BundleSays(b, compiled, asks)
    PROVE  /\ b.decision \in {"ready", "mapping_needed", "partial"}
           /\ b.decision = "ready" => compiled /\ Open(b) = {}
           /\ b.decision = "mapping_needed" =>
                /\ asks /\ Open(b) # {}
                /\ \A l \in Open(b) : b.leaves[l] = "mapping"
           /\ b.decision = "partial" => ~compiled \/ Open(b) # {}
<1>1. b.decision = Decision(b.leaves, compiled, asks)
      /\ \A l \in DOMAIN b.leaves : b.leaves[l] \in Statuses
  BY DEF BundleSays
<1> DEFINE leaves == b.leaves
           d == b.decision
<1> HIDE DEF leaves
<1>2. /\ Decision(leaves, compiled, asks) \in {"ready", "mapping_needed", "partial"}
      /\ Decision(leaves, compiled, asks) = "ready" =>
           compiled /\ \A l \in DOMAIN leaves : leaves[l] = "satisfied"
      /\ Decision(leaves, compiled, asks) = "mapping_needed" =>
           /\ asks
           /\ \E l \in DOMAIN leaves : leaves[l] # "satisfied"
           /\ \A l \in DOMAIN leaves : leaves[l] \in {"satisfied", "mapping"}
      /\ Decision(leaves, compiled, asks) = "partial" =>
           ~compiled \/ \E l \in DOMAIN leaves : leaves[l] # "satisfied"
  <2>1. \A l \in DOMAIN leaves : leaves[l] \in Statuses
    BY <1>1 DEF leaves
  <2> QED
    BY <2>1, DecisionSays
<1>3. d = Decision(leaves, compiled, asks)
  BY <1>1 DEF leaves
<1>4. Open(b) = {l \in DOMAIN leaves : leaves[l] # "satisfied"}
  BY DEF Open, leaves
<1> HIDE DEF d
<1>5. \A l \in Open(b) : l \in DOMAIN leaves /\ leaves[l] # "satisfied"
  BY <1>4
<1>6. (\E l \in DOMAIN leaves : leaves[l] # "satisfied") <=> Open(b) # {}
  BY <1>4
<1>7. /\ d \in {"ready", "mapping_needed", "partial"}
      /\ d = "ready" => compiled /\ Open(b) = {}
      /\ d = "mapping_needed" =>
           asks /\ Open(b) # {} /\ \A l \in Open(b) : leaves[l] = "mapping"
      /\ d = "partial" => ~compiled \/ Open(b) # {}
  BY <1>2, <1>3, <1>5, <1>6
<1> QED
  BY <1>7 DEF d, leaves

-----------------------------------------------------------------------------------
(* The four kinds of plan.                                                   *)

\* A question that is asking was found useful, so there is something to choose.
LEMMA ClarificationAsks ==
    ASSUME NEW r, NEW profile, NEW valid,
           NEW q \in Clarification(r, profile, valid).question
    PROVE  q.choices # {} /\ q \in r.upstream \cup CandidateQuestion(r, valid)
<1> DEFINE useful(questions) == {x \in questions : Useful(x, r, profile, valid)}
<1>1. q \in useful(r.upstream) \/ q \in useful(useful(CandidateQuestion(r, valid)))
           \/ q \in useful(CandidateQuestion(r, valid))
  BY DEF Clarification, Asking
<1>2. Useful(q, r, profile, valid) /\ q \in r.upstream \cup CandidateQuestion(r, valid)
  BY <1>1
<1>3. q.choices # {}
  BY <1>2 DEF Useful
<1> QED
  BY <1>2, <1>3

IsReady(r, p) ==
    /\ p.state = "ready" /\ p.question = {}
    /\ ~(\E m \in r.approved : Stale(m, r.artifacts)) /\ Compiled(r.claim)
    /\ p.profile = ProfileOf(r)
    /\ p.selected = SelectMapping(r, p.profile, Valid(r, p.profile)) /\ p.selected # {}
    /\ p.bundle = {AssessProfiled(r, p.profile, p.selected, NotAsked)}
    /\ \A b \in p.bundle : Open(b) = {}

IsAsking(r, p) ==
    /\ p.state = "mapping_needed" /\ p.question # {}
    /\ p.question = Clarification(r, ProfileOf(r), Valid(r, ProfileOf(r))).question
    /\ \A b \in p.bundle : Open(b) # {} /\ \A l \in Open(b) : b.leaves[l] = "mapping"

IsPartial(r, p) ==
    /\ p.state = "partial" /\ p.question = {}
    /\ \A b \in p.bundle : Open(b) # {} \/ ~Compiled(r.claim)

PlanSays(r, p) ==
    p = Refused("unavailable") \/ IsReady(r, p) \/ IsAsking(r, p) \/ IsPartial(r, p)

LEMMA AssessedDecides ==
    ASSUME NEW r, NEW profile, NEW selected, NEW asking, Compiled(r.claim)
    PROVE  LET b == AssessProfiled(r, profile, selected, asking)
           IN  /\ b.decision \in {"ready", "mapping_needed", "partial"}
               /\ b.decision = "ready" => Open(b) = {}
               /\ b.decision = "mapping_needed" =>
                    /\ asking.question # {} /\ Open(b) # {}
                    /\ \A l \in Open(b) : b.leaves[l] = "mapping"
               /\ b.decision = "partial" => Open(b) # {}
<1> DEFINE b == AssessProfiled(r, profile, selected, asking)
           asks == (asking.question # {})
<1>1. BundleSays(b, TRUE, asks)
  <2>1. CASE profile.id = "training"
    <3>1. b = AssessClaim(r, selected, asking)
      BY <2>1 DEF AssessProfiled
    <3>2. BundleSays(AssessClaim(r, selected, asking), Compiled(r.claim), asks)
      BY ClaimBundle
    <3>3. Compiled(r.claim) = TRUE
      BY CompiledIsBoolean
    <3> QED
      BY <3>1, <3>2, <3>3
  <2>2. CASE profile.id # "training"
    BY <2>2, ProfileBundle
  <2> QED
    BY <2>1, <2>2
<1>2. asks \in BOOLEAN
  OBVIOUS
<1> HIDE DEF b, asks
<1>3. /\ b.decision \in {"ready", "mapping_needed", "partial"}
      /\ b.decision = "ready" => TRUE /\ Open(b) = {}
      /\ b.decision = "mapping_needed" =>
           /\ asks /\ Open(b) # {}
           /\ \A l \in Open(b) : b.leaves[l] = "mapping"
      /\ b.decision = "partial" => ~TRUE \/ Open(b) # {}
  BY <1>1, <1>2, BundleDecides
<1> QED
  BY <1>3 DEF b, asks

LEMMA PlanIs == \A r : PlanSays(r, Plan(r))
<1> TAKE r
<1> DEFINE p == Plan(r)
           profile == ProfileOf(r)
           valid == Valid(r, profile)
           selected == SelectMapping(r, profile, valid)
<1>1. CASE \E m \in r.approved : Stale(m, r.artifacts)
  BY <1>1 DEF Plan, PlanSays
<1>2. CASE /\ ~\E m \in r.approved : Stale(m, r.artifacts)
           /\ ~Compiled(r.claim)
  <2>1. p = Outcome("partial", NoProfile(Absent), {}, {}, {AssessClaim(r, {}, NotAsked)})
    BY <1>2 DEF Plan
  <2>2. p.state = "partial" /\ p.question = {}
    BY <2>1 DEF Outcome
  <2> QED
    BY <1>2, <2>2 DEF PlanSays, IsPartial
<1>3. CASE /\ ~\E m \in r.approved : Stale(m, r.artifacts)
           /\ Compiled(r.claim) /\ profile.state # "selected"
  <2>1. p = Refused("partial")
    BY <1>3 DEF Plan, PlanUnder
  <2>2. p.state = "partial" /\ p.question = {} /\ p.bundle = {}
    BY <2>1 DEF Refused, Outcome
  <2> QED
    BY <2>2 DEF PlanSays, IsPartial
<1>4. CASE /\ ~\E m \in r.approved : Stale(m, r.artifacts)
           /\ Compiled(r.claim) /\ profile.state = "selected"
  <2> DEFINE asking == IF selected # {} THEN NotAsked ELSE Clarification(r, profile, valid)
             b == AssessProfiled(r, profile, selected, asking)
  <2>1. p = Concluded(profile, selected, asking.question, b)
    BY <1>4 DEF Plan, PlanUnder, PlanOver, Chosen, Assessed
  <2>2. /\ b.decision \in {"ready", "mapping_needed", "partial"}
        /\ b.decision = "ready" => Open(b) = {}
        /\ b.decision = "mapping_needed" =>
             /\ asking.question # {} /\ Open(b) # {}
             /\ \A l \in Open(b) : b.leaves[l] = "mapping"
        /\ b.decision = "partial" => Open(b) # {}
    BY <1>4, AssessedDecides
  <2>3. NotAsked.question = {}
    BY DEF NotAsked
  <2>4. /\ selected # {} => asking = NotAsked
        /\ selected = {} => asking = Clarification(r, profile, valid)
    OBVIOUS
  <2> HIDE DEF selected, asking, b
  <2>5. CASE b.decision = "partial"
    <3>1. p = Outcome("partial", profile, {}, {}, {b})
      BY <2>1, <2>5 DEF Concluded
    <3> HIDE DEF p
    <3>2. p.state = "partial" /\ p.question = {} /\ p.bundle = {b}
      BY <3>1 DEF Outcome
    <3> QED
      BY <3>2, <2>2, <2>5 DEF PlanSays, IsPartial, p
  <2>6. CASE b.decision = "mapping_needed"
    <3>1. p = Outcome("mapping_needed", profile, {}, asking.question, {b})
      BY <2>1, <2>6 DEF Concluded
    <3> HIDE DEF p
    <3>2. p.state = "mapping_needed" /\ p.question = asking.question /\ p.bundle = {b}
      BY <3>1 DEF Outcome
    <3>3. asking.question # {} /\ asking = Clarification(r, profile, valid)
      BY <2>2, <2>3, <2>4, <2>6
    <3> QED
      BY <3>2, <3>3, <2>2, <2>6 DEF PlanSays, IsAsking, p
  <2>7. CASE b.decision = "ready" /\ selected = {}
    <3>1. p = Refused("unavailable")
      BY <2>1, <2>7 DEF Concluded
    <3> QED
      BY <3>1 DEF PlanSays
  <2>8. CASE b.decision = "ready" /\ selected # {}
    <3>1. p = Outcome("ready", profile, selected, {}, {b})
      BY <2>1, <2>8 DEF Concluded
    <3> HIDE DEF p, profile
    <3>2. /\ p.state = "ready" /\ p.question = {} /\ p.profile = profile
          /\ p.selected = selected /\ p.bundle = {b}
      BY <3>1 DEF Outcome
    <3>3. b = AssessProfiled(r, profile, selected, NotAsked)
      BY <2>4, <2>8 DEF b
    <3>4. selected = SelectMapping(r, profile, Valid(r, profile)) /\ profile = ProfileOf(r)
      BY DEF selected, profile
    <3> QED
      BY <1>4, <3>2, <3>3, <3>4, <2>2, <2>8 DEF PlanSays, IsReady, p
  <2> QED
    BY <2>2, <2>5, <2>6, <2>7, <2>8
<1> QED
  BY <1>1, <1>2, <1>3, <1>4

-----------------------------------------------------------------------------------
(* What discovery and scoping hand on are mappings and bindings.             *)

AreBindings(S) == \A b \in S : IsBinding(b)

\* Hydration fills in adapter and selectors and leaves everything else.
LEMMA Hydrated ==
    ASSUME NEW b, NEW evidence, IsBinding(b)
    PROVE  LET h == Hydrate(b, evidence)
           IN  /\ IsBinding(h)
               /\ h.file = b.file /\ h.kind = b.kind /\ h.role = b.role
               /\ h.split = b.split /\ h.prov = b.prov
<1>1. CASE ~Resolves(b, evidence)
  BY <1>1 DEF Hydrate
<1>2. CASE Resolves(b, evidence)
  <2> DEFINE e == EvidenceFor(b, evidence)
  <2>1. Hydrate(b, evidence) = [b EXCEPT !.adapter = e.adapter, !.fields = e.fields]
    BY <1>2 DEF Hydrate
  <2>2. Hydrate(b, evidence) =
          [file |-> b.file, kind |-> b.kind, role |-> b.role, split |-> b.split,
           adapter |-> e.adapter, fields |-> e.fields, prov |-> b.prov]
    <3> HIDE DEF e
    <3> QED
      BY <2>1 DEF IsBinding
  <2> HIDE DEF e
  <2> QED
    BY <2>2 DEF IsBinding
<1> QED
  BY <1>1, <1>2

LEMMA NarrowedBindings ==
    ASSUME NEW S, NEW keys, NEW evidence, AreBindings(S)
    PROVE  AreBindings(Narrowed(S, keys, evidence))
  BY Hydrated DEF Narrowed, AreBindings

LEMMA CompetitorsBind ==
    ASSUME NEW artifacts, NEW slot \in Slots, NEW a \in Competing(artifacts, slot)
    PROVE  IsBinding(Binding(a, slot.role, slot.split))
<1>1. a.kind = slot.kind
  BY DEF Competing
<1>2. /\ slot.kind # "dataset" => slot.split = Absent
      /\ slot.role \in Roles /\ slot.split \in Splits \cup {Absent}
  BY DEF Slots, Roles
<1>3. "discovery" \in Provenances
  BY DEF Provenances
<1> QED
  BY <1>1, <1>2, <1>3 DEF Binding, IsBinding

LEMMA InferredMappings ==
    ASSUME NEW artifacts, NEW m \in Inferred(artifacts)
    PROVE  IsMapping(m)
<1> DEFINE S == UNION {{Binding(a, slot.role, slot.split) :
                          a \in Winner(Competing(artifacts, slot))} : slot \in Slots}
<1>1. m = Mapping(S, "discovery", InferredConfidence)
  BY DEF Inferred
<1>2. \A b \in S : IsBinding(b)
  <2>1. \A slot \in Slots : Winner(Competing(artifacts, slot)) \subseteq
                              Competing(artifacts, slot)
    BY DEF Winner
  <2> QED
    BY <2>1, CompetitorsBind
<1> HIDE DEF S
<1> QED
  BY <1>1, <1>2 DEF Mapping, IsMapping

LEMMA ProposedMappings ==
    ASSUME Wellformed,
           NEW m \in Proposed(repo.artifacts, repo.claims, repo.manifests, repo.proposals)
    PROVE  IsMapping(m)
  BY InferredMappings DEF Proposed, Wellformed

LEMMA OrderedAre ==
    ASSUME NEW mappings, NEW i \in DOMAIN Ordered(mappings)
    PROVE  Ordered(mappings)[i] \in mappings
  BY DEF Ordered

LEMMA DiscoveredMappings ==
    ASSUME Wellformed, NEW i \in DOMAIN Discovered.candidates
    PROVE  IsMapping(Discovered.candidates[i])
<1> DEFINE S == Proposed(repo.artifacts, repo.claims, repo.manifests, repo.proposals)
<1>1. Discovered.candidates = Ordered(S)
  BY DEF Discovered, Resolution
<1> HIDE DEF S
<1>2. Ordered(S)[i] \in S
  BY <1>1, OrderedAre
<1>3. \A m \in S : IsMapping(m)
  BY ProposedMappings DEF S
<1> QED
  BY <1>1, <1>2, <1>3

LEMMA NarrowedMapping ==
    ASSUME NEW m, IsMapping(m), NEW keys, NEW evidence
    PROVE  LET n == [m EXCEPT !.bindings = Narrowed(m.bindings, keys, evidence)]
           IN  /\ IsMapping(n) /\ n.bindings = Narrowed(m.bindings, keys, evidence)
               /\ n.prov = m.prov /\ n.confidence = m.confidence /\ n.approved = m.approved
<1> DEFINE S == Narrowed(m.bindings, keys, evidence)
<1>1. \A b \in S : IsBinding(b)
  BY NarrowedBindings DEF IsMapping, AreBindings
<1> HIDE DEF S
<1>2. LET n == [m EXCEPT !.bindings = S]
      IN  /\ IsMapping(n) /\ n.bindings = S
          /\ n.prov = m.prov /\ n.confidence = m.confidence /\ n.approved = m.approved
  BY <1>1 DEF IsMapping
<1> QED
  BY <1>2 DEF S

\* A candidate of the request is one that was discovered, narrowed.
LEMMA ScopedIs ==
    ASSUME NEW candidates, NEW keys, NEW evidence,
           NEW i \in DOMAIN ScopedCandidates(candidates, keys, evidence)
    PROVE  /\ i \in DOMAIN candidates
           /\ ScopedCandidates(candidates, keys, evidence)[i] =
                [candidates[i] EXCEPT
                   !.bindings = Narrowed(candidates[i].bindings, keys, evidence)]
  BY DEF ScopedCandidates

LEMMA RequestFields ==
    LET r == Request(Discovery)
    IN  /\ r.claim = repo.claim
        /\ r.artifacts = Relevant(repo.artifacts, repo.claim)
        /\ r.evidence = Relevant(repo.evidence, repo.claim)
        /\ r.candidates = ScopedCandidates(Discovered.candidates, KeysOf(r.artifacts),
                                           r.evidence)
        /\ r.approved = UNION {ScopedApproval(m, Discovery, KeysOf(r.artifacts), r.evidence) :
                                 m \in approved}
        /\ r.upstream = UNION {ScopedQuestion(q, Discovery, KeysOf(r.artifacts), r.evidence) :
                                 q \in Discovered.upstream}
        /\ Discovery.artifacts = repo.artifacts
  BY DEF Request, Discovery

LEMMA RequestedMappings ==
    ASSUME Wellformed, NEW i \in DOMAIN Request(Discovery).candidates
    PROVE  IsMapping(Request(Discovery).candidates[i])
<1> DEFINE keys == KeysOf(Request(Discovery).artifacts)
           evidence == Request(Discovery).evidence
           d == Discovered.candidates
<1>1. Request(Discovery).candidates = ScopedCandidates(d, keys, evidence)
  BY RequestFields
<1> HIDE DEF keys, evidence, d
<1>2. /\ i \in DOMAIN d
      /\ Request(Discovery).candidates[i] =
           [d[i] EXCEPT !.bindings = Narrowed(d[i].bindings, keys, evidence)]
  BY <1>1, ScopedIs
<1>3. IsMapping(d[i])
  BY <1>2, DiscoveredMappings DEF d
<1> QED
  BY <1>2, <1>3, NarrowedMapping

\* What discovery asks is about the artifacts that compete for a slot.
LEMMA AmbiguityChoices ==
    ASSUME NEW ambiguities,
           \A x \in ambiguities : x.slot \in Slots /\ \A a \in x.artifacts :
                                    IsBinding(Binding(a, x.slot.role, x.slot.split)),
           NEW q \in AmbiguityQuestion(ambiguities), NEW c \in q.choices
    PROVE  AreBindings(c)
<1> DEFINE firsts == {x \in ambiguities : \A y \in ambiguities : ~AskedBefore(y, x)}
           first == CHOOSE x \in firsts : TRUE
           offered == {a \in first.artifacts :
                         Cardinality({b \in first.artifacts : Better(b, a)}) < MaxChoices}
           to == IF Cardinality(Affected(first)) = 1
                 THEN CHOOSE x \in Affected(first) : TRUE ELSE Absent
           choices == {{Binding(a, first.slot.role, first.slot.split)} : a \in offered}
<1>1. AmbiguityQuestion(ambiguities) =
        IF firsts = {} THEN {} ELSE {[claim |-> to, choices |-> choices]}
  BY DEF AmbiguityQuestion
<1>2. firsts # {} /\ c \in choices
  <2> HIDE DEF firsts, choices, to
  <2> QED
    BY <1>1
<1>3. first \in ambiguities
  BY <1>2
<1> HIDE DEF first
<1> QED
  BY <1>2, <1>3 DEF AreBindings

LEMMA QuestionChoices ==
    ASSUME NEW q \in Discovered.upstream, NEW c \in q.choices
    PROVE  AreBindings(c)
<1> DEFINE ambiguities == UNION {Ambiguities(s) : s \in Scopes(repo.artifacts, repo.claims)}
<1>1. q \in AmbiguityQuestion(ambiguities)
  BY DEF Discovered, Resolution, Question
<1>2. \A x \in ambiguities : x.slot \in Slots /\ \A a \in x.artifacts :
                               IsBinding(Binding(a, x.slot.role, x.slot.split))
  BY CompetitorsBind DEF Ambiguities
<1> HIDE DEF ambiguities
<1> QED
  BY <1>1, <1>2, AmbiguityChoices

LEMMA AskedBindings ==
    ASSUME Wellformed, NEW profile, NEW valid, valid \subseteq DOMAIN Request(Discovery).candidates,
           NEW q \in Clarification(Request(Discovery), profile, valid).question,
           NEW c \in q.choices
    PROVE  AreBindings(c)
<1> DEFINE r == Request(Discovery)
           keys == KeysOf(r.artifacts)
<1>1. q \in r.upstream \/ q \in CandidateQuestion(r, valid)
  BY ClarificationAsks
<1>2. CASE q \in r.upstream
  <2>1. PICK u \in Discovered.upstream : q \in ScopedQuestion(u, Discovery, keys, r.evidence)
    <3> HIDE DEF r
    <3> QED
      BY <1>2, RequestFields DEF r
  <2>2. q.choices = {Narrowed(x, keys, r.evidence) : x \in u.choices} \ {{}}
    <3> HIDE DEF r, keys
    <3> QED
      BY <2>1 DEF ScopedQuestion
  <2>3. PICK x \in u.choices : c = Narrowed(x, keys, r.evidence)
    BY <2>2
  <2>4. AreBindings(x)
    BY QuestionChoices
  <2> QED
    BY <2>3, <2>4, NarrowedBindings
<1>3. CASE q \in CandidateQuestion(r, valid)
  <2>1. q.choices = {r.candidates[i].bindings : i \in valid}
    <3> HIDE DEF r
    <3> QED
      BY <1>3 DEF CandidateQuestion
  <2>2. PICK i \in valid : c = r.candidates[i].bindings
    BY <2>1
  <2>3. IsMapping(r.candidates[i])
    BY RequestedMappings
  <2> QED
    BY <2>2, <2>3 DEF IsMapping, AreBindings
<1> QED
  BY <1>1, <1>2, <1>3

-----------------------------------------------------------------------------------
(* The steps.                                                                *)

LEMMA PlanFrame ==
    ASSUME repo' = repo, approved' = approved
    PROVE  /\ Plan(Request(Discovery))' = Plan(Request(Discovery))
           /\ Wellformed => Wellformed'
<1>1. Discovery' = Discovery
  BY DEF Discovery, Discovered
<1>2. Plan(Request(Discovery))' = Plan(Request(Discovery))
  BY <1>1
<1>3. Wellformed => Wellformed'
  BY DEF Wellformed
<1> QED
  BY <1>2, <1>3

\* Of every plan but a refusal.
Current == Plan(Request(Discovery))

LEMMA Refusals ==
    \A s : /\ Refused(s).state = s /\ Refused(s).bundle = {} /\ Refused(s).question = {}
           /\ Refused(s).selected = {}
  BY DEF Refused, Outcome

LEMMA CurrentIs == PlanSays(Request(Discovery), Current)
  BY PlanIs DEF Current

LEMMA ReadyPlanIsCurrent ==
    ASSUME Planned, stage # "plan", plan.state = "ready"
    PROVE  plan = Current /\ IsReady(Request(Discovery), plan)
<1>1. plan = Current
  BY Refusals DEF Planned, Current
<1>2. CASE plan = Refused("unavailable")
  BY <1>2, Refusals
<1>3. CASE IsAsking(Request(Discovery), plan) \/ IsPartial(Request(Discovery), plan)
  BY <1>3 DEF IsAsking, IsPartial
<1> QED
  BY <1>1, <1>2, <1>3, CurrentIs DEF PlanSays

LEMMA ReadyBundle ==
    ASSUME Planned, stage # "plan", plan.state = "ready"
    PROVE  /\ plan.bundle = {Bundled} /\ Open(Bundled) = {}
           /\ \E b : plan.bundle = {b}
<1>1. IsReady(Request(Discovery), plan)
  BY ReadyPlanIsCurrent
<1>2. PICK b : plan.bundle = {b} /\ Open(b) = {}
  BY <1>1 DEF IsReady
<1> QED
  BY <1>2 DEF Bundled

LEMMA Results ==
    /\ Unavailable.state = "unavailable" /\ Unavailable.verdict = None
    /\ Unavailable.trace = None /\ Unavailable.question = {} /\ Unavailable.bundle = {}
    /\ \A state, verdict, trace, question, bundle :
         LET r == Result(state, verdict, trace, question, bundle)
         IN  /\ r.state = state /\ r.verdict = verdict /\ r.trace = trace
             /\ r.question = question /\ r.bundle = bundle
    /\ NoResult.question = {} /\ NoAudit.verdict = None
  BY DEF Unavailable, Result, NoResult, NoAudit

\* A failure that can be told opens the obligation it is about.
LEMMA FailureIsOpen ==
    ASSUME NEW b, NEW failure, Representable(b, failure)
    PROVE  Open(WithFailure(b, failure)) # {}
<1> DEFINE slots == FailedSlots(b, failure)
           w == WithFailure(b, failure)
<1>1. PICK l \in slots : TRUE
  BY DEF Representable
<1>2. l \in DOMAIN b.leaves
  BY DEF FailedSlots
<1>3. w.leaves = [x \in DOMAIN b.leaves |-> IF x \in slots THEN "unsupported" ELSE b.leaves[x]]
  BY DEF WithFailure, Bundle
<1> HIDE DEF slots, w
<1>4. l \in Open(w)
  BY <1>1, <1>2, <1>3 DEF Open
<1> QED
  BY <1>4 DEF w

LEMMA FailedIs ==
    ASSUME NEW failure
    PROVE  /\ Failed(failure).state \in {"partial", "unavailable"}
           /\ Failed(failure).verdict = None /\ Failed(failure).trace = None
           /\ Failed(failure).question = {}
           /\ \A b \in Failed(failure).bundle : Open(b) # {}
<1>1. CASE Representable(Bundled, failure)
  <2>1. Failed(failure) = Result("partial", None, None, {}, {WithFailure(Bundled, failure)})
    BY <1>1 DEF Failed
  <2> QED
    BY <2>1, <1>1, Results, FailureIsOpen
<1>2. CASE ~Representable(Bundled, failure)
  <2>1. Failed(failure) = Unavailable
    BY <1>2 DEF Failed
  <2> QED
    BY <2>1, Results
<1> QED
  BY <1>1, <1>2

\* An ending without an Audit.
LEMMA EndsUnaudited ==
    ASSUME NEW r, result' = r, stage' = "done", audit' = NoAudit, repo' = repo,
           r.state \in {"unavailable", "partial"}, r.verdict = None, r.trace = None,
           r.question = {},
           \A b \in r.bundle : Open(b) # {} \/ ~Compiled(repo.claim)
    PROVE  ResultIsExplained' /\ Offered'
<1>1. audit'.verdict = None
  BY Results
<1>2. ResultIsExplained'
  BY <1>1 DEF ResultIsExplained
<1>3. Offered'
  BY DEF Offered
<1> QED
  BY <1>2, <1>3

LEMMA InitHolds == Init => IInv
<1> SUFFICES ASSUME Init PROVE IInv
  OBVIOUS
<1>1. PICK w \in Repositories : repo = w.repo /\ approved = w.approved
  BY DEF Init
<1>2. Wellformed
  BY <1>1, AnalysisAssumption DEF Wellformed
<1>3. Offered
  BY Results DEF Init, Offered
<1>4. Planned
  BY DEF Init, Planned
<1>5. AuditedOnce /\ ResultIsExplained
  BY DEF Init, AuditedOnce, ResultIsExplained
<1> QED
  BY <1>2, <1>3, <1>4, <1>5 DEF IInv

LEMMA PlanningQuestion ==
    ASSUME Wellformed, NEW q \in Current.question, NEW c \in q.choices
    PROVE  AreBindings(c)
<1> DEFINE r == Request(Discovery)
           valid == Valid(r, ProfileOf(r))
<1>1. q \in Clarification(r, ProfileOf(r), valid).question
  <2> HIDE DEF r, valid
  <2>1. CASE Current = Refused("unavailable")
    BY <2>1, Refusals
  <2>2. CASE IsReady(r, Current) \/ IsPartial(r, Current)
    BY <2>2 DEF IsReady, IsPartial
  <2>3. CASE IsAsking(r, Current)
    BY <2>3 DEF IsAsking, valid
  <2> QED
    BY <2>1, <2>2, <2>3, CurrentIs DEF PlanSays, r
<1>2. valid \subseteq DOMAIN r.candidates
  BY DEF Valid
<1> HIDE DEF valid
<1> QED
  BY <1>1, <1>2, AskedBindings

LEMMA PlanAuditKeeps == IInv /\ PlanAudit => IInv'
<1> SUFFICES ASSUME IInv, PlanAudit PROVE IInv'
  OBVIOUS
<1> DEFINE p == plan'
<1>1. /\ stage = "plan" /\ repo' = repo /\ approved' = approved /\ audit' = NoAudit
      /\ p \in {Refused("unavailable"), Current}
  BY DEF IInv, AuditedOnce, PlanAudit, Current
<1>2. Wellformed' /\ Plan(Request(Discovery))' = Current
  BY <1>1, PlanFrame DEF IInv, Current
<1>3. /\ p.state = "ready" => stage' = "execute" /\ result' = result
      /\ p.state = "unavailable" => stage' = "done" /\ result' = Unavailable
      /\ p.state \notin {"ready", "unavailable"} =>
           stage' = "done" /\ result' = Result(p.state, None, None, p.question, p.bundle)
  BY DEF PlanAudit, End
<1>4. \/ p = Refused("unavailable") /\ p.state = "unavailable"
      \/ IsReady(Request(Discovery), p) \/ IsAsking(Request(Discovery), p)
      \/ IsPartial(Request(Discovery), p)
  BY <1>1, CurrentIs, Refusals DEF PlanSays
<1>5. Planned'
  <2>1. stage' \in {"execute", "done"} /\ (stage' = "execute" => p.state = "ready")
    BY <1>3
  <2> QED
    BY <1>1, <1>2, <2>1 DEF Planned, Current
<1>6. AuditedOnce'
  BY <1>1, <1>3 DEF AuditedOnce
<1>7. ResultIsExplained' /\ Offered'
  <2>1. CASE p = Refused("unavailable") /\ p.state = "unavailable"
    <3>1. result' = Unavailable /\ stage' = "done"
      BY <2>1, <1>3
    <3> QED
      BY <3>1, <1>1, Results, EndsUnaudited
  <2>2. CASE IsReady(Request(Discovery), p)
    <3>1. stage' = "execute" /\ result' = result
      BY <2>2, <1>3 DEF IsReady
    <3>2. ResultIsExplained'
      BY <3>1 DEF ResultIsExplained
    <3>3. Offered'
      BY <3>1 DEF IInv, Offered
    <3> QED
      BY <3>2, <3>3
  <2>3. CASE IsPartial(Request(Discovery), p)
    <3>1. result' = Result("partial", None, None, p.question, p.bundle) /\ stage' = "done"
      BY <2>3, <1>3 DEF IsPartial
    <3>2. p.question = {} /\ \A b \in p.bundle : Open(b) # {} \/ ~Compiled(repo.claim)
      BY <2>3, RequestFields DEF IsPartial
    <3> HIDE DEF p
    <3>3. /\ result'.state = "partial" /\ result'.verdict = None /\ result'.trace = None
          /\ result'.question = {} /\ result'.bundle = p.bundle
      BY <3>1, <3>2, Results
    <3> QED
      BY <3>1, <3>2, <3>3, <1>1, EndsUnaudited
  <2>4. CASE IsAsking(Request(Discovery), p)
    <3>1. result' = Result("mapping_needed", None, None, p.question, p.bundle) /\ stage' = "done"
      BY <2>4, <1>3 DEF IsAsking
    <3>2. /\ p.question # {}
          /\ p.question = Clarification(Request(Discovery), ProfileOf(Request(Discovery)),
                            Valid(Request(Discovery), ProfileOf(Request(Discovery)))).question
          /\ \A b \in p.bundle : Open(b) # {} /\ \A l \in Open(b) : b.leaves[l] = "mapping"
      BY <2>4 DEF IsAsking
    <3>3. p = Current
      BY <2>4, <1>1, Refusals DEF IsAsking
    <3>4. \A q \in p.question : \A c \in q.choices : \A b \in c : IsBinding(b)
      BY <3>3, PlanningQuestion DEF IInv, AreBindings
    <3>5. \E q \in p.question : q.choices # {}
      BY <3>2, ClarificationAsks
    <3> HIDE DEF p
    <3>6. /\ result'.state = "mapping_needed" /\ result'.verdict = None /\ result'.trace = None
          /\ result'.question = p.question /\ result'.bundle = p.bundle
      BY <3>1, Results
    <3>7. Offered'
      BY <3>4, <3>6 DEF Offered
    <3>8. ResultIsExplained'
      <4>1. audit' = NoAudit /\ audit'.verdict = None
        BY <1>1, Results
      <4> QED
        BY <4>1, <3>2, <3>5, <3>6 DEF ResultIsExplained
    <3> QED
      BY <3>7, <3>8
  <2> QED
    BY <1>4, <2>1, <2>2, <2>3, <2>4
<1> QED
  BY <1>2, <1>5, <1>6, <1>7 DEF IInv

LEMMA UnauditedKeeps ==
    IInv /\ (ExecutionFails \/ NotRepresented) => IInv'
<1> SUFFICES ASSUME IInv, ExecutionFails \/ NotRepresented PROVE IInv'
  OBVIOUS
<1>1. /\ stage = "execute" /\ stage' = "done" /\ plan' = plan
      /\ repo' = repo /\ approved' = approved /\ audit' = NoAudit
  BY DEF IInv, AuditedOnce, ExecutionFails, NotRepresented, End
<1>2. Wellformed' /\ Plan(Request(Discovery))' = Plan(Request(Discovery))
  BY <1>1, PlanFrame DEF IInv
<1>3. Planned' /\ AuditedOnce'
  BY <1>1, <1>2 DEF IInv, Planned, AuditedOnce
<1>4. ResultIsExplained' /\ Offered'
  <2>1. CASE ExecutionFails
    BY <2>1, <1>1, Results, EndsUnaudited DEF ExecutionFails, End
  <2>2. CASE NotRepresented
    <3>1. PICK failure : result' = Failed(failure)
      BY <2>2 DEF NotRepresented, End
    <3>2. /\ Failed(failure).state \in {"partial", "unavailable"}
          /\ Failed(failure).verdict = None /\ Failed(failure).trace = None
          /\ Failed(failure).question = {}
          /\ \A b \in Failed(failure).bundle : Open(b) # {}
      BY FailedIs
    <3> QED
      BY <3>1, <3>2, <1>1, EndsUnaudited
  <2> QED
    BY <2>1, <2>2
<1> QED
  BY <1>2, <1>3, <1>4 DEF IInv

LEMMA AuditedKeeps == IInv /\ (AuditTraining \/ AuditOfBenchmark) => IInv'
<1> SUFFICES ASSUME IInv, AuditTraining \/ AuditOfBenchmark PROVE IInv'
  OBVIOUS
<1>1. /\ stage = "execute" /\ plan' = plan /\ repo' = repo /\ approved' = approved
  BY DEF AuditTraining, AuditOfBenchmark
<1>2. Wellformed' /\ Plan(Request(Discovery))' = Plan(Request(Discovery))
  BY <1>1, PlanFrame DEF IInv
<1>3. \/ stage' = "review" /\ audit' # NoAudit /\ result' = NoResult
      \/ stage' = "done" /\ audit' = NoAudit /\ result' = Unavailable
  <2>1. CASE AuditTraining
    <3>1. PICK v \in Verdicts : Audited([NoAudit EXCEPT !.verdict = v])
      BY <2>1 DEF AuditTraining
    <3>2. [NoAudit EXCEPT !.verdict = v].verdict = v
      BY DEF NoAudit
    <3>3. v # None
      BY DEF Verdicts, None
    <3> QED
      BY <3>1, <3>2, <3>3, Results DEF Audited
  <2>2. CASE AuditOfBenchmark
    BY <2>2 DEF AuditOfBenchmark, Audited, End, IInv, AuditedOnce
  <2> QED
    BY <2>1, <2>2
<1>4. CASE stage' = "review" /\ audit' # NoAudit /\ result' = NoResult
  <2>1. Planned' /\ AuditedOnce'
    BY <1>1, <1>2, <1>4 DEF IInv, Planned, AuditedOnce
  <2>2. Offered' /\ ResultIsExplained'
    BY <1>4, Results DEF Offered, ResultIsExplained
  <2> QED
    BY <1>2, <2>1, <2>2 DEF IInv
<1>5. CASE stage' = "done" /\ audit' = NoAudit /\ result' = Unavailable
  <2>1. Planned' /\ AuditedOnce'
    BY <1>1, <1>2, <1>5 DEF IInv, Planned, AuditedOnce
  <2>2. Offered' /\ ResultIsExplained'
    BY <1>1, <1>5, Results, EndsUnaudited
  <2> QED
    BY <1>2, <2>1, <2>2 DEF IInv
<1> QED
  BY <1>3, <1>4, <1>5

LEMMA ReviewKeeps == IInv /\ Review => IInv'
<1> SUFFICES ASSUME IInv, Review PROVE IInv'
  OBVIOUS
<1>1. /\ stage = "review" /\ stage' = "done" /\ plan' = plan /\ audit' = audit
      /\ repo' = repo /\ approved' = approved
  BY DEF Review, End
<1>2. Wellformed' /\ Plan(Request(Discovery))' = Plan(Request(Discovery))
  BY <1>1, PlanFrame DEF IInv
<1>3. Planned' /\ AuditedOnce'
  BY <1>1, <1>2 DEF IInv, Planned, AuditedOnce
<1>4. audit # NoAudit /\ \A b \in plan.bundle : Open(b) = {}
  BY <1>1, ReadyBundle DEF IInv, Planned, AuditedOnce
<1>5. \E state \in {"complete", "partial"}, trace \in {"advised", "unavailable", "audited"} :
        result' = Result(state, audit.verdict, trace, {}, plan.bundle)
  BY DEF Review, End
<1>6. /\ result'.state \in {"complete", "partial"} /\ result'.trace # None
      /\ result'.verdict = audit.verdict /\ result'.question = {}
      /\ result'.bundle = plan.bundle
  BY <1>5, Results DEF None
<1>7. Offered' /\ ResultIsExplained'
  BY <1>1, <1>4, <1>6 DEF Offered, ResultIsExplained
<1> QED
  BY <1>2, <1>3, <1>7 DEF IInv

LEMMA AgainStarts ==
    ASSUME Again, Wellformed'
    PROVE  IInv'
<1>1. /\ stage' = "plan" /\ plan' = Refused(None) /\ audit' = NoAudit /\ result' = NoResult
  BY DEF Again
<1>2. Offered' /\ ResultIsExplained'
  BY <1>1, Results DEF Offered, ResultIsExplained
<1>3. Planned' /\ AuditedOnce'
  BY <1>1 DEF Planned, AuditedOnce
<1> QED
  BY <1>2, <1>3 DEF IInv

\* An answer binds what was offered, over what was proposed.
LEMMA AnswerKeeps == IInv /\ Answer => IInv'
<1> SUFFICES ASSUME IInv, Answer PROVE IInv'
  OBVIOUS
<1> DEFINE keys == KeysOf(repo.artifacts)
           bases == {{}} \cup {Discovered.candidates[i].bindings :
                                 i \in DOMAIN Discovered.candidates}
           whole(base, choice) == Merged(Narrowed(base, keys, repo.evidence), choice,
                                         plan.profile)
           approval(base, choice) == [bindings |-> whole(base, choice), prov |-> "human",
                                      confidence |-> 100, approved |-> TRUE]
<1>1. Again /\ repo' = repo
  BY DEF Answer
<1>0. PICK q \in result.question, base \in bases :
          \E choice \in q.choices : approved' = {approval(base, choice)}
  BY DEF Answer
<1>2. PICK choice \in q.choices : approved' = {approval(base, choice)}
  BY <1>0
<1>3. AreBindings(base)
  <2>1. \A i \in DOMAIN Discovered.candidates : AreBindings(Discovered.candidates[i].bindings)
    BY DiscoveredMappings DEF IInv, IsMapping, AreBindings
  <2> QED
    BY <1>2, <2>1 DEF AreBindings
<1>4. AreBindings(Narrowed(base, keys, repo.evidence)) /\ AreBindings(choice)
  BY <1>2, <1>3, NarrowedBindings DEF IInv, Offered, AreBindings
<1>5. AreBindings(whole(base, choice))
  <2> DEFINE S == Narrowed(base, keys, repo.evidence)
  <2> HIDE DEF S
  <2>1. Merged(S, choice, plan.profile) \subseteq S \cup choice
    BY DEF Merged
  <2> QED
    BY <1>4, <2>1 DEF AreBindings, S
<1>6. IsMapping(approval(base, choice))
  <2> HIDE DEF whole
  <2> QED
    BY <1>5 DEF IsMapping, AreBindings
<1> HIDE DEF approval
<1>7. Wellformed'
  BY <1>1, <1>2, <1>6 DEF IInv, Wellformed
<1> QED
  BY <1>1, <1>7, AgainStarts

LEMMA PushKeeps == IInv /\ Push => IInv'
<1> SUFFICES ASSUME IInv, Push PROVE IInv'
  OBVIOUS
<1>1. Again /\ approved' = approved
  BY DEF Push
<1>2. PICK e \in repo.evidence :
         \/ repo' = [repo EXCEPT !.artifacts = {a \in @ : a.file # e.file},
                                 !.evidence = {x \in @ : x.file # e.file},
                                 !.proposals = {}, !.manifests = {}]
         \/ \E new \in Rewritten :
              /\ new.file = e.file /\ new.kind = e.kind /\ new # e
              /\ repo' = [repo EXCEPT !.evidence = (@ \ {e}) \cup {new}]
  BY DEF Push
<1>3. /\ DOMAIN repo' = DOMAIN repo
      /\ repo'.manifests \subseteq repo.manifests /\ repo'.proposals \subseteq repo.proposals
      /\ \A x \in repo'.evidence : IsEvidence(x)
      /\ repo'.claim = repo.claim
  <2>1. CASE repo' = [repo EXCEPT !.artifacts = {a \in @ : a.file # e.file},
                                  !.evidence = {x \in @ : x.file # e.file},
                                  !.proposals = {}, !.manifests = {}]
    BY <2>1 DEF IInv, Wellformed
  <2>2. CASE \E new \in Rewritten :
               /\ new.file = e.file /\ new.kind = e.kind /\ new # e
               /\ repo' = [repo EXCEPT !.evidence = (@ \ {e}) \cup {new}]
    BY <2>2, AnalysisAssumption DEF IInv, Wellformed
  <2> QED
    BY <1>2, <2>1, <2>2
<1>4. IsFiniteSet(repo'.evidence)
  <2>1. CASE repo' = [repo EXCEPT !.artifacts = {a \in @ : a.file # e.file},
                                  !.evidence = {x \in @ : x.file # e.file},
                                  !.proposals = {}, !.manifests = {}]
    <3>1. repo'.evidence \subseteq repo.evidence
      BY <2>1 DEF IInv, Wellformed
    <3> QED
      BY <3>1, FS_Subset DEF IInv, Wellformed
  <2>2. CASE \E new \in Rewritten :
               /\ new.file = e.file /\ new.kind = e.kind /\ new # e
               /\ repo' = [repo EXCEPT !.evidence = (@ \ {e}) \cup {new}]
    <3>1. PICK new : repo'.evidence = (repo.evidence \ {e}) \cup {new}
      BY <2>2 DEF IInv, Wellformed
    <3>2. IsFiniteSet(repo.evidence \ {e})
      BY FS_Subset DEF IInv, Wellformed
    <3> QED
      BY <3>1, <3>2, FS_AddElement
  <2> QED
    BY <1>2, <2>1, <2>2
<1>5. Wellformed'
  BY <1>1, <1>3, <1>4 DEF IInv, Wellformed
<1> QED
  BY <1>1, <1>5, AgainStarts

LEMMA StutterKeeps == IInv /\ UNCHANGED vars => IInv'
<1> SUFFICES ASSUME IInv, UNCHANGED vars PROVE IInv'
  OBVIOUS
<1>1. Wellformed' /\ Plan(Request(Discovery))' = Plan(Request(Discovery))
  BY PlanFrame DEF IInv, vars
<1>2. Planned'
  BY <1>1 DEF IInv, Planned, vars
<1>3. Offered' /\ AuditedOnce' /\ ResultIsExplained'
  BY DEF IInv, Offered, AuditedOnce, ResultIsExplained, vars
<1> QED
  BY <1>1, <1>2, <1>3 DEF IInv

LEMMA Invariance == Spec => []IInv
<1>1. IInv /\ [Next]_vars => IInv'
  BY PlanAuditKeeps, UnauditedKeeps, AuditedKeeps, ReviewKeeps, AnswerKeeps, PushKeeps,
     StutterKeeps DEF Next
<1> QED
  BY <1>1, InitHolds, PTL DEF Spec

\* However an analysis ends, what it returns says why (integration.py
\* run_unified_analysis, obligations.py _build_obligation_bundle).
THEOREM EveryEndingIsExplained == Spec => []ResultIsExplained
<1>1. IInv => ResultIsExplained
  BY DEF IInv
<1> QED
  BY <1>1, Invariance, PTL

-----------------------------------------------------------------------------------
(* The mapping that is selected.                                             *)

\* What is selected can be executed, and there is one of it.
LEMMA SelectedIs ==
    ASSUME NEW r, NEW profile, NEW selected,
           selected = SelectMapping(r, profile, Valid(r, profile)), selected # {},
           \A m, n \in r.approved : m = n
    PROVE  /\ \A m, n \in selected : m = n
           /\ \A m \in selected :
                /\ Revalidatable(m, r, profile)
                /\ r.approved # {} => m \in r.approved
                /\ r.approved = {} => \E i \in DOMAIN r.candidates : m = r.candidates[i]
<1> DEFINE valid == Valid(r, profile)
           eligible == {r.candidates[i] : i \in {j \in valid : Eligible(r.candidates[j])}}
<1>1. valid = {i \in DOMAIN r.candidates : Revalidatable(r.candidates[i], r, profile)}
  BY DEF Valid
<1>2. selected = IF r.approved # {} THEN {m \in r.approved : Revalidatable(m, r, profile)}
                 ELSE IF Cardinality(ValidSignatures(r, valid)) # 1 THEN {}
                 ELSE Best(eligible)
  BY DEF SelectMapping
<1>3. CASE r.approved # {}
  BY <1>2, <1>3
<1>4. CASE r.approved = {}
  <2>1. selected = Best(eligible)
    BY <1>2, <1>4
  <2>2. \A m \in eligible : Revalidatable(m, r, profile)
                            /\ \E i \in DOMAIN r.candidates : m = r.candidates[i]
    BY <1>1
  <2> HIDE DEF eligible
  <2> DEFINE best == {m \in eligible : \A n \in eligible : Preferred(m, n)}
  <2>3. best # {} /\ selected = {CHOOSE m \in best : TRUE}
    BY <2>1 DEF Best
  <2>4. (CHOOSE m \in best : TRUE) \in eligible
    BY <2>3
  <2> QED
    BY <1>4, <2>2, <2>3, <2>4
<1> QED
  BY <1>3, <1>4

\* How the one approval is scoped.
LEMMA ApprovalScoped ==
    ASSUME Wellformed, NEW m \in approved
    PROVE  LET r == Request(Discovery)
               narrowed == Narrowed(m.bindings, KeysOf(r.artifacts), r.evidence)
           IN  \/ r.approved = {m}
               \/ r.approved = {} /\ narrowed = {}
               \/ /\ ~Stale(m, repo.artifacts)
                  /\ r.approved = {[m EXCEPT !.bindings = narrowed]}
<1> DEFINE r == Request(Discovery)
           keys == KeysOf(r.artifacts)
           narrowed == Narrowed(m.bindings, keys, r.evidence)
<1>1. approved = {m}
  BY DEF Wellformed
<1>2. r.approved = ScopedApproval(m, Discovery, keys, r.evidence)
                   /\ Discovery.artifacts = repo.artifacts
  <2>1. r.approved = UNION {ScopedApproval(n, Discovery, keys, r.evidence) : n \in approved}
    BY RequestFields
  <2> HIDE DEF r, keys
  <2> QED
    BY <1>1, <2>1, RequestFields
<1> HIDE DEF r, keys
<1>3. r.approved = IF Stale(m, repo.artifacts) THEN {m}
                   ELSE IF narrowed = {} THEN {}
                   ELSE IF ScopeRaises(narrowed) THEN {m}
                   ELSE {[m EXCEPT !.bindings = narrowed]}
  BY <1>2 DEF ScopedApproval
<1> HIDE DEF narrowed
<1>4. \/ r.approved = {m}
      \/ r.approved = {} /\ narrowed = {}
      \/ ~Stale(m, repo.artifacts) /\ r.approved = {[m EXCEPT !.bindings = narrowed]}
  BY <1>3
<1> QED
  BY <1>4 DEF narrowed, r, keys

LEMMA ApprovedMappings ==
    ASSUME Wellformed
    PROVE  /\ \A m, n \in Request(Discovery).approved : m = n
           /\ \A m \in Request(Discovery).approved : IsMapping(m)
<1>1. CASE approved = {}
  <2>1. Request(Discovery).approved = {}
    BY <1>1, RequestFields
  <2> QED
    BY <2>1
<1>2. CASE approved # {}
  <2>1. PICK m \in approved : IsMapping(m)
    BY <1>2 DEF Wellformed
  <2> DEFINE r == Request(Discovery)
             n == [m EXCEPT !.bindings = Narrowed(m.bindings, KeysOf(r.artifacts), r.evidence)]
  <2>2. r.approved = {m} \/ r.approved = {} \/ r.approved = {n}
    BY ApprovalScoped
  <2>3. IsMapping(n)
    BY <2>1, NarrowedMapping
  <2> HIDE DEF r, n
  <2>4. (\A x, y \in r.approved : x = y) /\ \A x \in r.approved : IsMapping(x)
    BY <2>1, <2>2, <2>3
  <2> QED
    BY <2>4 DEF r
<1> QED
  BY <1>1, <1>2

\* The mapping a ready plan executes.
LEMMA MappedIs ==
    ASSUME Wellformed, Planned, plan.state = "ready"
    PROVE  LET r == Request(Discovery)
           IN  /\ stage # "plan" /\ IsReady(r, plan) /\ plan.selected = {Mapped}
               /\ Revalidatable(Mapped, r, plan.profile) /\ IsMapping(Mapped)
               /\ r.approved # {} => Mapped \in r.approved
<1> DEFINE r == Request(Discovery)
           valid == Valid(r, plan.profile)
<1>1. stage # "plan"
  BY Refusals DEF Planned, None
<1>2. IsReady(r, plan)
  BY <1>1, ReadyPlanIsCurrent
<1>3. plan.selected = SelectMapping(r, plan.profile, valid) /\ plan.selected # {}
  BY <1>2 DEF IsReady
<1>4. /\ \A m, n \in r.approved : m = n
      /\ \A m \in r.approved : IsMapping(m)
      /\ \A i \in DOMAIN r.candidates : IsMapping(r.candidates[i])
  BY ApprovedMappings, RequestedMappings
<1> HIDE DEF r
<1>5. /\ \A m, n \in plan.selected : m = n
      /\ \A m \in plan.selected :
           /\ Revalidatable(m, r, plan.profile)
           /\ r.approved # {} => m \in r.approved
           /\ r.approved = {} => \E i \in DOMAIN r.candidates : m = r.candidates[i]
  BY <1>3, <1>4, SelectedIs
<1>6. Mapped \in plan.selected
  BY <1>3 DEF Mapped
<1>7. plan.selected = {Mapped} /\ IsMapping(Mapped)
  BY <1>4, <1>5, <1>6
<1> QED
  BY <1>1, <1>2, <1>5, <1>6, <1>7 DEF r

-----------------------------------------------------------------------------------
(* Approvals.                                                                *)

\* What is stale in the repository is stale in the claim's share of it.
LEMMA StaleInShare ==
    ASSUME NEW m, NEW artifacts, NEW claim, Stale(m, artifacts)
    PROVE  Stale(m, Relevant(artifacts, claim))
  BY DEF Stale, Relevant, KeysOf

LEMMA ChoicesSurviveHydration ==
    ASSUME NEW S, NEW keys, NEW evidence, AreBindings(S)
    PROVE  /\ {Choice(b) : b \in Narrowed(S, keys, evidence)} =
                {Choice(b) : b \in {c \in S : Key(c) \in keys}}
           /\ {c \in S : Key(c) \in keys} # {} => Narrowed(S, keys, evidence) # {}
<1> DEFINE own == {c \in S : Key(c) \in keys}
<1>1. Narrowed(S, keys, evidence) = {Hydrate(b, evidence) : b \in own}
  BY DEF Narrowed
<1>2. \A b \in own : Choice(Hydrate(b, evidence)) = Choice(b)
  BY Hydrated DEF AreBindings, Choice
<1> HIDE DEF own
<1>3. {Choice(b) : b \in {Hydrate(x, evidence) : x \in own}} = {Choice(b) : b \in own}
  BY <1>2
<1>4. own # {} => {Hydrate(b, evidence) : b \in own} # {}
  OBVIOUS
<1> QED
  BY <1>1, <1>3, <1>4 DEF own

LEMMA ApprovalDecides == Wellformed /\ Planned => ApprovalIsFinal
<1> SUFFICES ASSUME Wellformed, Planned, plan.state = "ready", NEW m \in approved,
                    {b \in m.bindings :
                       Key(b) \in KeysOf(Relevant(repo.artifacts, repo.claim))} # {}
             PROVE  /\ ~Stale(m, repo.artifacts)
                    /\ ChoicesOf(Mapped) =
                         {Choice(b) : b \in {x \in m.bindings :
                            Key(x) \in KeysOf(Relevant(repo.artifacts, repo.claim))}}
  BY DEF ApprovalIsFinal
<1> DEFINE r == Request(Discovery)
           keys == KeysOf(r.artifacts)
           own == {b \in m.bindings : Key(b) \in keys}
           narrowed == Narrowed(m.bindings, keys, r.evidence)
           n == [m EXCEPT !.bindings = narrowed]
<1>1. r.artifacts = Relevant(repo.artifacts, repo.claim)
  BY RequestFields
<1>2. IsMapping(m) /\ AreBindings(m.bindings)
  BY DEF Wellformed, IsMapping, AreBindings
<1>3. own # {}
  BY <1>1
<1>4. narrowed # {} /\ {Choice(b) : b \in narrowed} = {Choice(b) : b \in own}
  BY <1>2, <1>3, ChoicesSurviveHydration
<1>5. \/ r.approved = {m}
      \/ r.approved = {} /\ narrowed = {}
      \/ ~Stale(m, repo.artifacts) /\ r.approved = {n}
  BY ApprovalScoped
<1>6. n.bindings = narrowed
  BY <1>2, NarrowedMapping
<1>7. IsReady(r, plan) /\ (r.approved # {} => Mapped \in r.approved)
  BY MappedIs
<1> HIDE DEF r, n, narrowed
<1>8. CASE r.approved = {m}
  <2>1. Mapped = m /\ ~Stale(m, r.artifacts)
    BY <1>7, <1>8 DEF IsReady
  <2>2. own = m.bindings
    BY <2>1 DEF Stale
  <2>3. ~Stale(m, repo.artifacts)
    BY <2>1, <1>1, StaleInShare
  <2> QED
    BY <1>1, <2>1, <2>2, <2>3 DEF ChoicesOf
<1>9. CASE ~Stale(m, repo.artifacts) /\ r.approved = {n}
  <2>1. Mapped = n
    BY <1>7, <1>9
  <2> QED
    BY <1>1, <1>4, <1>6, <1>9, <2>1 DEF ChoicesOf
<1> QED
  BY <1>4, <1>5, <1>8, <1>9

\* Nothing is ever substituted for an approval that concerns the claim, however the
\* repository changes under it (planner.py _scope_approved_mapping, _select_mapping).
THEOREM ApprovalsAreFinal == Spec => []ApprovalIsFinal
<1>1. IInv => ApprovalIsFinal
  BY ApprovalDecides DEF IInv
<1> QED
  BY <1>1, Invariance, PTL

-----------------------------------------------------------------------------------
(* What readiness rests on.                                                  *)

Held(b, evidence) == {e \in evidence : Exact(e, b)}

LEMMA OneHeld ==
    ASSUME NEW b, NEW evidence, IsFiniteSet(evidence),
           Resolves(b, evidence), Exact(EvidenceFor(b, evidence), b)
    PROVE  /\ Held(b, evidence) = {EvidenceFor(b, evidence)}
           /\ Cardinality(Held(b, evidence)) = 1
           /\ EvidenceFor(b, evidence) \in evidence
<1> DEFINE S == Matches(b, evidence)
           e == EvidenceFor(b, evidence)
<1>1. Cardinality(S) = 1
  BY DEF Resolves
<1>2. IsFiniteSet(S)
  BY FS_Subset DEF Matches
<1>3. \E x : S = {x}
  <2> HIDE DEF S
  <2> QED
    BY <1>1, <1>2, FS_Singleton
<1>4. S = {e} /\ e \in evidence
  BY <1>3 DEF EvidenceFor, Matches
<1>5. Held(b, evidence) \subseteq S
  BY DEF Held, Matches, Exact
<1>6. e \in Held(b, evidence)
  BY <1>4 DEF Held
<1>7. Held(b, evidence) = {e}
  BY <1>4, <1>5, <1>6
<1>8. Cardinality({e}) = 1
  BY FS_Singleton
<1> QED
  BY <1>4, <1>7, <1>8

\* A slot that is satisfied by a selection is bound, and by supported evidence only.
LEMMA SlotIsSupported ==
    ASSUME NEW leaf, NEW m, NEW evidence, NEW metric,
           SelectedSlotStatus(leaf, m, evidence, metric) = "satisfied"
    PROVE  LET bound == {b \in m.bindings : InSlot(leaf, b) /\ Resolves(b, evidence)}
           IN  bound # {} /\ \A b \in bound : Supports(EvidenceFor(b, evidence), b, m, metric)
  BY DEF SelectedSlotStatus

\* What a training experiment's plan is made of.
LEMMA TrainingBundle ==
    ASSUME NEW r, NEW p, IsReady(r, p), p.profile.id = "training", NEW m, p.selected = {m},
           NEW l \in ArtifactLeaves
    PROVE  SelectedSlotStatus(l, m, r.evidence, r.claim.metric) = "satisfied"
<1> DEFINE b == AssessProfiled(r, p.profile, p.selected, NotAsked)
<1>1. b = AssessClaim(r, p.selected, NotAsked)
  BY DEF IsReady, AssessProfiled
<1>2. Open(b) = {} /\ Compiled(r.claim)
  BY DEF IsReady
<1>3. /\ ArtifactLeaves \subseteq DOMAIN b.leaves
      /\ \A x \in DOMAIN b.leaves \cap ArtifactLeaves :
           b.leaves[x] = SelectedSlotStatus(x, CHOOSE s \in p.selected : TRUE, r.evidence,
                                            r.claim.metric)
  <2> DEFINE c == AssessClaim(r, p.selected, NotAsked)
  <2>1. /\ Compiled(r.claim) => ArtifactLeaves \subseteq DOMAIN c.leaves
        /\ p.selected # {} => \A x \in DOMAIN c.leaves \cap ArtifactLeaves :
             c.leaves[x] = SelectedSlotStatus(x, CHOOSE s \in p.selected : TRUE, r.evidence,
                                              r.claim.metric)
    BY ClaimBundle
  <2> HIDE DEF b, c
  <2>2. b = c /\ p.selected # {}
    BY <1>1 DEF c
  <2> QED
    BY <1>2, <2>1, <2>2
<1> HIDE DEF b
<1>4. b.leaves[l] = "satisfied"
  BY <1>2, <1>3 DEF Open
<1>5. (CHOOSE s \in p.selected : TRUE) = m
  OBVIOUS
<1> QED
  BY <1>3, <1>4, <1>5

LEMMA ProfileBundled ==
    ASSUME NEW r, NEW p, IsReady(r, p), p.profile.id # "training", NEW m, p.selected = {m},
           NEW s \in ActiveSlots(p.profile.variant)
    PROVE  SlotSupported(s, m, r)
<1> DEFINE b == AssessProfiled(r, p.profile, p.selected, NotAsked)
<1>1. Open(b) = {}
  BY DEF IsReady
<1>2. ProfileLeaf(s) \in DOMAIN b.leaves
      /\ b.leaves[ProfileLeaf(s)] = ProfileLeafStatus(s, r, p.selected, NotAsked)
  BY ProfileStatus
<1> HIDE DEF b
<1>3. ProfileLeafStatus(s, r, p.selected, NotAsked) = "satisfied"
  BY <1>1, <1>2 DEF Open
<1>4. \E x \in p.selected : SlotSupported(s, x, r)
  BY <1>3 DEF ProfileLeafStatus
<1> QED
  BY <1>4

\* Nobody proposed what is trusted, unless somebody approved it.
TrustEarned(m) ==
    \/ m.approved
    \/ m.confidence >= SupportConfidence /\ \A b \in m.bindings : "provider" \notin {m.prov, b.prov}

LEMMA TrustIsEarned ==
    ASSUME NEW m, TrustedForSupport(m) PROVE TrustEarned(m)
  BY DEF TrustedForSupport, Unproposed, TrustEarned

LEMMA RolesAgree ==
    ASSUME NEW e, NEW role, SupportsRole(e, role)
    PROVE  \A i \in DOMAIN e.obs : e.obs[i].role \in {role, "unspecified"}
  BY DEF SupportsRole, ObservedRoles

\* A binding and the one extraction it stands for.
LEMMA RevalidatedBinding ==
    ASSUME Wellformed, NEW m, NEW profile, NEW r, r = Request(Discovery),
           Revalidatable(m, r, profile), NEW b \in m.bindings
    PROVE  LET e == EvidenceFor(b, r.evidence)
           IN  /\ Resolves(b, r.evidence) /\ SupportsRole(e, b.role)
               /\ Cardinality(Held(b, r.evidence)) = 1 /\ Held(b, r.evidence) = {e}
               /\ b.kind \in Kinds
<1> DEFINE e == EvidenceFor(b, r.evidence)
<1>1. Resolves(b, r.evidence) /\ Exact(e, b) /\ SupportsRole(e, b.role)
  BY DEF Revalidatable
<1>2. r.evidence = Relevant(repo.evidence, repo.claim)
  BY RequestFields
<1>3. r.evidence \subseteq repo.evidence /\ IsFiniteSet(r.evidence)
  <2>1. r.evidence \subseteq repo.evidence
    BY <1>2 DEF Relevant
  <2>2. IsFiniteSet(repo.evidence)
    BY DEF Wellformed
  <2> QED
    BY <2>1, <2>2, FS_Subset
<1>4. Held(b, r.evidence) = {e} /\ Cardinality(Held(b, r.evidence)) = 1 /\ e \in r.evidence
  BY <1>1, <1>3, OneHeld
<1> HIDE DEF e
<1>5. b.kind \in Kinds
  BY <1>1, <1>3, <1>4 DEF Exact, Wellformed, IsEvidence
<1> QED
  BY <1>1, <1>4, <1>5 DEF e

LEMMA SlotsOfLeaves ==
    \A kind, role, split, b :
        InSlot(SlotLeaf(kind, role, split), b) <=>
            b.kind = kind /\ b.role = role /\ b.split = split
  BY DEF InSlot, SlotLeaf, Leaf

\* A training experiment: each of its slots is supported, and nothing is bound beside.
LEMMA TrainingIsEarned ==
    ASSUME Wellformed, NEW r, r = Request(Discovery), NEW p, IsReady(r, p),
           p.profile.id = "training", NEW m, p.selected = {m}, IsMapping(m),
           Revalidatable(m, r, p.profile)
    PROVE  /\ TrustEarned(m)
           /\ \A b \in m.bindings :
                LET e == EvidenceFor(b, r.evidence)
                IN  /\ e.extracted
                    /\ b.kind = "results" => \E i \in DOMAIN e.obs : e.obs[i].metric = r.claim.metric
           /\ \A l \in ArtifactLeaves :
                IF l.name = "dataset" THEN Cardinality({b \in m.bindings : InSlot(l, b)}) = 1
                ELSE {b \in m.bindings : InSlot(l, b)} # {}
<1> DEFINE bound(l) == {b \in m.bindings : InSlot(l, b) /\ Resolves(b, r.evidence)}
<1>1. \A l \in ArtifactLeaves :
        /\ bound(l) # {}
        /\ \A b \in bound(l) : Supports(EvidenceFor(b, r.evidence), b, m, r.claim.metric)
  BY TrainingBundle, SlotIsSupported
<1>2. \A role \in Compared : \A kind \in {"results", "config"} :
        SlotLeaf(kind, role, Absent) \in ArtifactLeaves
  BY DEF ArtifactLeaves
<1>3. TrustedForSupport(m)
  <2>1. PICK b \in bound(SlotLeaf("results", "baseline", Absent)) : TRUE
    BY <1>1, <1>2 DEF Compared
  <2> HIDE DEF bound
  <2> QED
    BY <1>1, <1>2, <2>1 DEF Compared, Supports
<1>4. TrainingComplete(m, r.evidence)
  BY DEF Revalidatable, MatchesProfile
<1>5. ASSUME NEW b \in m.bindings
      PROVE  LET e == EvidenceFor(b, r.evidence)
             IN  /\ e.extracted
                 /\ b.kind = "results" => \E i \in DOMAIN e.obs : e.obs[i].metric = r.claim.metric
  <2> DEFINE e == EvidenceFor(b, r.evidence)
  <2>1. e.extracted /\ Resolves(b, r.evidence)
    BY <1>4 DEF TrainingComplete, Recovered
  <2>2. ASSUME b.kind = "results"
        PROVE  \E i \in DOMAIN e.obs : e.obs[i].metric = r.claim.metric
    <3>1. b.role \in Compared /\ b.split = Absent
      BY <2>2 DEF Revalidatable, IsMapping, IsBinding
    <3> DEFINE l == SlotLeaf("results", b.role, Absent)
    <3>2. l \in ArtifactLeaves
      BY <3>1, <1>2
    <3>3. InSlot(l, b)
      BY <2>2, <3>1, SlotsOfLeaves
    <3>4. b \in bound(l)
      BY <2>1, <3>3
    <3>5. Supports(e, b, m, r.claim.metric)
      BY <1>1, <3>2, <3>4
    <3> QED
      BY <2>2, <3>5 DEF Supports
  <2> QED
    BY <2>1, <2>2
<1>6. ASSUME NEW l \in ArtifactLeaves
      PROVE  IF l.name = "dataset" THEN Cardinality({b \in m.bindings : InSlot(l, b)}) = 1
             ELSE {b \in m.bindings : InSlot(l, b)} # {}
  <2>1. CASE l.name # "dataset"
    <3>1. bound(l) # {}
      BY <1>1
    <3> QED
      BY <2>1, <3>1
  <2>2. CASE l.name = "dataset"
    <3>1. PICK role \in Compared, split \in Splits : l = SlotLeaf("dataset", role, split)
      BY <2>2 DEF ArtifactLeaves, SlotLeaf, Leaf
    <3>2. Cardinality({b \in m.bindings : b.role = role /\ b.kind = "dataset" /\ b.split = split}) = 1
      BY <1>4 DEF TrainingComplete
    <3>3. {b \in m.bindings : InSlot(l, b)} =
            {b \in m.bindings : b.role = role /\ b.kind = "dataset" /\ b.split = split}
      BY <3>1, SlotsOfLeaves
    <3> QED
      BY <2>2, <3>2, <3>3
  <2> QED
    BY <2>1, <2>2
<1> QED
  BY <1>3, <1>5, <1>6, TrustIsEarned

\* A benchmark: its workload is read from every kind of file, and only if extracted.
LEMMA BenchmarkIsEarned ==
    ASSUME Wellformed, NEW r, r = Request(Discovery), NEW p, IsReady(r, p),
           p.profile.id # "training", NEW m, p.selected = {m},
           Revalidatable(m, r, p.profile)
    PROVE  /\ TrustEarned(m)
           /\ \A b \in m.bindings : EvidenceFor(b, r.evidence).extracted
<1>1. SlotSupported("benchmark.workload", m, r)
  <2>1. "benchmark.workload" \in ActiveSlots(p.profile.variant)
    BY DEF ActiveSlots
  <2> QED
    BY <2>1, ProfileBundled
<1>2. TrustedForSupport(m)
  BY <1>1 DEF SlotSupported
<1>3. ASSUME NEW b \in m.bindings PROVE EvidenceFor(b, r.evidence).extracted
  <2>1. /\ Resolves(b, r.evidence) /\ SupportsRole(EvidenceFor(b, r.evidence), b.role)
        /\ b.kind \in Kinds
    BY RevalidatedBinding
  <2>2. SlotKinds("benchmark.workload") = {"benchmark", "config", "results", "dataset"}
    BY DEF SlotKinds
  <2>3. b.kind \in SlotKinds("benchmark.workload")
    BY <2>1, <2>2 DEF Kinds
  <2>4. ~ProjectionRaises("benchmark.workload", EvidenceFor(b, r.evidence), b)
    BY <1>1, <2>1, <2>3 DEF SlotSupported
  <2> QED
    BY <2>4 DEF ProjectionRaises
<1> QED
  BY <1>2, <1>3, TrustIsEarned

LEMMA ReadinessDecides == Wellformed /\ Planned => ReadyIsEarned
<1> SUFFICES ASSUME Wellformed, Planned, plan.state = "ready" PROVE ReadyIsEarned
  BY DEF ReadyIsEarned
<1> DEFINE r == Request(Discovery)
           own == Relevant(repo.evidence, repo.claim)
           training == plan.profile.id = "training"
           held(b) == {e \in own : /\ e.file = b.file /\ e.kind = b.kind
                                   /\ e.adapter = b.adapter /\ e.fields = b.fields}
           slot(l) == {b \in Mapped.bindings : InSlot(l, b)}
<1>1. /\ IsReady(r, plan) /\ plan.selected = {Mapped}
      /\ Revalidatable(Mapped, r, plan.profile) /\ IsMapping(Mapped)
  BY MappedIs
<1>2. r.evidence = own /\ r.claim = repo.claim
  BY RequestFields
<1>3. \A b \in Mapped.bindings :
        LET e == EvidenceFor(b, own)
        IN  /\ Cardinality(held(b)) = 1 /\ held(b) = {e}
            /\ \A i \in DOMAIN e.obs : e.obs[i].role \in {b.role, "unspecified"}
  <2> TAKE b \in Mapped.bindings
  <2> DEFINE e == EvidenceFor(b, r.evidence)
  <2>1. /\ SupportsRole(e, b.role)
        /\ Cardinality(Held(b, r.evidence)) = 1 /\ Held(b, r.evidence) = {e}
    BY <1>1, RevalidatedBinding
  <2>2. held(b) = Held(b, r.evidence)
    BY <1>2 DEF Held, Exact
  <2>3. \A i \in DOMAIN e.obs : e.obs[i].role \in {b.role, "unspecified"}
    BY <2>1, RolesAgree
  <2> QED
    BY <1>2, <2>1, <2>2, <2>3
<1>4. /\ TrustEarned(Mapped)
      /\ \A b \in Mapped.bindings :
           LET e == EvidenceFor(b, own)
           IN  /\ e.extracted
               /\ training /\ b.kind = "results" =>
                    \E i \in DOMAIN e.obs : e.obs[i].metric = repo.claim.metric
      /\ training => \A l \in ArtifactLeaves :
           IF l.name = "dataset" THEN Cardinality(slot(l)) = 1 ELSE slot(l) # {}
  <2>1. CASE training
    <3>1. /\ TrustEarned(Mapped)
          /\ \A b \in Mapped.bindings :
               LET e == EvidenceFor(b, r.evidence)
               IN  /\ e.extracted
                   /\ b.kind = "results" =>
                        \E i \in DOMAIN e.obs : e.obs[i].metric = r.claim.metric
          /\ \A l \in ArtifactLeaves :
               IF l.name = "dataset"
               THEN Cardinality({b \in Mapped.bindings : InSlot(l, b)}) = 1
               ELSE {b \in Mapped.bindings : InSlot(l, b)} # {}
      BY <2>1, <1>1, TrainingIsEarned
    <3> HIDE DEF r, own
    <3> QED
      BY <2>1, <3>1, <1>2
  <2>2. CASE ~training
    BY <2>2, <1>1, <1>2, BenchmarkIsEarned
  <2> QED
    BY <2>1, <2>2
<1> HIDE DEF r, own, training, slot
<1>5. \A b \in Mapped.bindings :
        /\ Cardinality(held(b)) = 1
        /\ \A e \in held(b) :
             /\ e.extracted
             /\ \A i \in DOMAIN e.obs : e.obs[i].role \in {b.role, "unspecified"}
             /\ training /\ b.kind = "results" =>
                  \E i \in DOMAIN e.obs : e.obs[i].metric = repo.claim.metric
  <2> HIDE DEF held
  <2> QED
    BY <1>3, <1>4
<1>6. Mapped.approved
         \/ /\ Mapped.confidence >= SupportConfidence
            /\ \A b \in Mapped.bindings : "provider" \notin {Mapped.prov, b.prov}
  BY <1>4 DEF TrustEarned
<1> QED
  BY <1>4, <1>5, <1>6 DEF ReadyIsEarned, own, training, slot

\* What is executed rests on extracted evidence alone, each binding on exactly one
\* extraction of its own role, and nobody has to trust a proposal for it (planner.py,
\* profiles.py and obligations.py, each of which checks a part).
THEOREM ReadinessIsEarned == Spec => []ReadyIsEarned
<1>1. IInv => ReadyIsEarned
  BY ReadinessDecides DEF IInv
<1> QED
  BY <1>1, Invariance, PTL

-----------------------------------------------------------------------------------
(* Answers.                                                                  *)

\* The bindings of a whole mapping that can be revalidated under a profile of the claim.
IssuedWhole(c) ==
    LET evidence == Relevant(repo.evidence, repo.claim)
        m == [bindings |-> c]
        roles(allowed) == \A b \in c : b.role \in allowed
    IN  /\ c # {}
        /\ \A b \in c :
             /\ Key(b) \in KeysOf(Relevant(repo.artifacts, repo.claim))
             /\ Hydrate(b, evidence) = b /\ Resolves(b, evidence)
             /\ LET e == EvidenceFor(b, evidence)
                IN  /\ repo.claim.id \in e.claims /\ Exact(e, b) /\ SupportsRole(e, b.role)
                    /\ b.kind = "dataset" =>
                         \A i \in DOMAIN e.obs : e.obs[i].refs \subseteq {b.file}
        /\ \/ /\ repo.claim.variant \in {Absent, "quality"}
              /\ TrainingComplete(m, evidence) /\ roles(Compared)
           \/ /\ BenchmarkFacts(m, evidence, repo.claim.variant).complete
              /\ Cardinality(c) <= MaxExecutableBindings
              /\ roles(Compared \cup {"reference"})

AskedForSlot(q) == \A c \in q.choices : \E b \in c : c = {b}

\* A question is about one slot or offers whole mappings.
AskedIs ==
    \A q \in asked \cup result.question : AskedForSlot(q) \/ \A c \in q.choices : IssuedWhole(c)

\* What is made of a mapping depends on its bindings alone.
LEMMA BindingsDecide ==
    ASSUME NEW m, NEW n, m.bindings = n.bindings, NEW evidence, NEW variant
    PROVE  /\ BenchmarkFacts(m, evidence, variant) = BenchmarkFacts(n, evidence, variant)
           /\ TrainingComplete(m, evidence) = TrainingComplete(n, evidence)
           /\ TrainingShape(m) = TrainingShape(n)
<1>1. Recovered(m, evidence) = Recovered(n, evidence)
  BY DEF Recovered
<1>2. ConfigEntries(m, evidence) = ConfigEntries(n, evidence)
  BY <1>1 DEF ConfigEntries
<1>3. \A role : MetricEntries(m, evidence, role) = MetricEntries(n, evidence, role)
  BY <1>1 DEF MetricEntries
<1>4. \A role : MetricNames(m, evidence, role) = MetricNames(n, evidence, role)
  BY <1>3 DEF MetricNames
<1>5. \A entries, form : FormComplete(m, evidence, entries, form) =
                         FormComplete(n, evidence, entries, form)
  BY <1>3 DEF FormComplete
<1>6. BenchmarkFacts(m, evidence, variant) = BenchmarkFacts(n, evidence, variant)
  <2> DEFINE entries == ConfigEntries(n, evidence)
             form == ResultForm(entries)
             positive == \E x \in entries :
                x.key[1] \in {"benchmark.workload", "benchmark.measurement_config",
                              "benchmark.run_protocol", "benchmark.environment",
                              "benchmark.evaluator"}
             given ==
                /\ \A slot \in {"benchmark.subject", "benchmark.workload",
                                 "benchmark.measurement_config",
                                 "benchmark.run_protocol"} : SlotPresent(entries, slot)
             needed ==
                /\ NeedsEnvironment(variant) => SlotPresent(entries, "benchmark.environment")
                /\ NeedsEvaluator(variant) => SlotPresent(entries, "benchmark.evaluator")
                /\ \A key \in RequiredKeys(variant, form) : KeyPresent(entries, key)
                /\ \A keys \in AlternativeKeys(variant) :
                     \E key \in keys : KeyPresent(entries, key)
             whole(x) ==
                /\ given
                /\ \A role \in Compared : Cardinality(MetricNames(x, evidence, role)) = 1
                /\ needed
                /\ FormComplete(x, evidence, entries, form)
             facts(complete) ==
                IF variant = Absent \/ ConfigRaises(entries) THEN NothingRecovered
                ELSE [positive |-> positive, form |-> form, complete |-> complete]
  <2>1. BenchmarkFacts(n, evidence, variant) = facts(whole(n))
    BY DEF BenchmarkFacts
  <2>2. BenchmarkFacts(m, evidence, variant) = facts(whole(m))
    BY <1>2 DEF BenchmarkFacts
  <2>3. whole(m) = whole(n)
    <3> HIDE DEF given, needed, entries, form
    <3> QED
      BY <1>4, <1>5
  <2> HIDE DEF whole, facts
  <2> QED
    BY <2>1, <2>2, <2>3
<1>7. TrainingComplete(m, evidence) = TrainingComplete(n, evidence)
  BY <1>1 DEF TrainingComplete
<1> QED
  BY <1>6, <1>7 DEF TrainingShape

\* A profile that is selected for a claim.
Suits(profile, claim) ==
    \/ profile.id = "benchmark" /\ profile.variant = claim.variant
    \/ profile.id = "training" /\ claim.variant \in {Absent, "quality"}

LEMMA SelectedSuits ==
    ASSUME NEW claim, NEW mappings, NEW evidence,
           SelectProfile(claim.variant, mappings, evidence).state = "selected"
    PROVE  Suits(SelectProfile(claim.variant, mappings, evidence), claim)
<1> DEFINE variant == claim.variant
           records == ProfileRecords(variant, mappings, evidence)
           effective == Effective(records)
           p == SelectProfile(variant, mappings, evidence)
           undecided == variant \in {Absent, "quality"}
<1>1. p = SelectAmong(variant, records, effective)
  BY DEF SelectProfile, SelectOf
<1> HIDE DEF records, effective, p
<1>2. \/ p = NoProfile("ambiguous") \/ p = NoProfile("unresolved")
      \/ p = Profile("training", Absent, {}, TRUE) /\ undecided
      \/ p = Profile("training", Absent, {}, FALSE) /\ undecided
      \/ \E form, complete : p = Profile("benchmark", variant, form, complete)
  BY <1>1 DEF SelectAmong
<1>3. p.state = "selected"
  BY DEF p
<1>4. \A s : NoProfile(s).state = s
  BY DEF NoProfile
<1>5. \A id, v, form, complete : /\ Profile(id, v, form, complete).id = id
                                 /\ Profile(id, v, form, complete).variant = v
  BY DEF Profile
<1>6. Suits(p, claim)
  <2>1. p # NoProfile("ambiguous") /\ p # NoProfile("unresolved")
    BY <1>3, <1>4
  <2>2. CASE undecided /\ \E v, form, complete : p = Profile("training", v, form, complete)
    BY <1>5, <2>2 DEF Suits
  <2>3. CASE \E form, complete : p = Profile("benchmark", variant, form, complete)
    BY <1>5, <2>3 DEF Suits
  <2> HIDE DEF undecided
  <2> QED
    BY <1>2, <2>1, <2>2, <2>3
<1> QED
  BY <1>6 DEF p

\* What the planner offers of its own accord are whole mappings.
LEMMA RevalidIsWhole ==
    ASSUME NEW r, r.claim = repo.claim, r.evidence = Relevant(repo.evidence, repo.claim),
           NEW m, NEW profile, Revalidatable(m, r, profile), Suits(profile, repo.claim),
           m.bindings # {},
           \A b \in m.bindings :
              /\ Key(b) \in KeysOf(Relevant(repo.artifacts, repo.claim))
              /\ Hydrate(b, r.evidence) = b
    PROVE  IssuedWhole(m.bindings)
<1> DEFINE evidence == Relevant(repo.evidence, repo.claim)
           c == m.bindings
           n == [bindings |-> c]
           e(b) == EvidenceFor(b, evidence)
           roles(allowed) == \A b \in c : b.role \in allowed
<1>1. \A b \in c :
        /\ Key(b) \in KeysOf(Relevant(repo.artifacts, repo.claim))
        /\ Hydrate(b, evidence) = b /\ Resolves(b, evidence)
        /\ repo.claim.id \in e(b).claims /\ Exact(e(b), b) /\ SupportsRole(e(b), b.role)
        /\ b.kind = "dataset" => \A i \in DOMAIN e(b).obs : e(b).obs[i].refs \subseteq {b.file}
        /\ b.role \in Compared \cup (IF profile.id = "benchmark" THEN {"reference"} ELSE {})
  BY DEF Revalidatable
<1>2. MatchesProfile(m, profile, evidence)
  BY DEF Revalidatable
<1>3. /\ BenchmarkFacts(m, evidence, profile.variant) = BenchmarkFacts(n, evidence, profile.variant)
      /\ TrainingComplete(m, evidence) = TrainingComplete(n, evidence)
  <2>1. m.bindings = n.bindings
    OBVIOUS
  <2> HIDE DEF n
  <2> QED
    BY <2>1, BindingsDecide
<1> HIDE DEF e, n, evidence
<1>4. \/ /\ repo.claim.variant \in {Absent, "quality"}
         /\ TrainingComplete(n, evidence) /\ roles(Compared)
      \/ /\ BenchmarkFacts(n, evidence, repo.claim.variant).complete
         /\ Cardinality(c) <= MaxExecutableBindings
         /\ roles(Compared \cup {"reference"})
  <2>1. CASE profile.id = "training" /\ repo.claim.variant \in {Absent, "quality"}
    BY <1>1, <1>2, <1>3, <2>1 DEF MatchesProfile
  <2>2. CASE profile.id = "benchmark" /\ profile.variant = repo.claim.variant
    BY <1>1, <1>2, <1>3, <2>2 DEF MatchesProfile
  <2> QED
    BY <2>1, <2>2 DEF Suits
<1> QED
  BY <1>1, <1>4 DEF IssuedWhole, e, n, evidence

\* The profile of one mapping alone.
LEMMA AloneEffective ==
    ASSUME NEW m, NEW variant, NEW evidence
    PROVE  LET records == ProfileRecords(variant, <<m>>, evidence)
           IN  /\ DOMAIN records = {1} /\ Effective(records) = {1}
               /\ records[1].facts = BenchmarkFacts(m, evidence, variant)
               /\ records[1].training = TrainingComplete(m, evidence)
<1> DEFINE records == ProfileRecords(variant, <<m>>, evidence)
<1>1. /\ DOMAIN records = {1}
      /\ records[1] = [facts |-> BenchmarkFacts(m, evidence, variant),
                       training |-> TrainingComplete(m, evidence),
                       shape |-> TrainingShape(m), trusted |-> Unproposed(m)]
  BY DEF ProfileRecords
<1> HIDE DEF records
<1>2. Effective(records) = {1}
  BY <1>1 DEF Effective
<1> QED
  BY <1>1, <1>2 DEF records

LEMMA TrainingAlone ==
    ASSUME NEW m, NEW variant \in {Absent, "quality"}, NEW evidence,
           TrainingComplete(m, evidence),
           SelectProfile(variant, <<m>>, evidence).state = "selected"
    PROVE  SelectProfile(variant, <<m>>, evidence).id = "training"
<1> DEFINE records == ProfileRecords(variant, <<m>>, evidence)
           p == SelectProfile(variant, <<m>>, evidence)
<1>1. p = SelectAmong(variant, records, {1})
  BY AloneEffective DEF SelectProfile, SelectOf
<1>2. records[1].training
  BY AloneEffective
<1> HIDE DEF records, p
<1>3. p = NoProfile("ambiguous") \/ p = Profile("training", Absent, {}, TRUE)
  BY <1>1, <1>2 DEF SelectAmong
<1> QED
  BY <1>3 DEF p, NoProfile, Profile

LEMMA CompleteBenchmark ==
    ASSUME NEW m, NEW evidence, NEW variant,
           BenchmarkFacts(m, evidence, variant).complete
    PROVE  LET facts == BenchmarkFacts(m, evidence, variant)
           IN  /\ variant # Absent /\ facts.positive /\ facts.form # {}
               /\ \A role \in Compared : Cardinality(MetricNames(m, evidence, role)) = 1
<1> DEFINE entries == ConfigEntries(m, evidence)
           form == ResultForm(entries)
           facts == BenchmarkFacts(m, evidence, variant)
           positive == \E x \in entries :
              x.key[1] \in {"benchmark.workload", "benchmark.measurement_config",
                            "benchmark.run_protocol", "benchmark.environment",
                            "benchmark.evaluator"}
           rest ==
              /\ NeedsEnvironment(variant) => SlotPresent(entries, "benchmark.environment")
              /\ NeedsEvaluator(variant) => SlotPresent(entries, "benchmark.evaluator")
              /\ \A key \in RequiredKeys(variant, form) : KeyPresent(entries, key)
              /\ \A keys \in AlternativeKeys(variant) :
                   \E key \in keys : KeyPresent(entries, key)
           whole ==
              /\ \A slot \in {"benchmark.subject", "benchmark.workload",
                               "benchmark.measurement_config",
                               "benchmark.run_protocol"} : SlotPresent(entries, slot)
              /\ \A role \in Compared : Cardinality(MetricNames(m, evidence, role)) = 1
              /\ rest
              /\ FormComplete(m, evidence, entries, form)
<1>1. facts = IF variant = Absent \/ ConfigRaises(entries) THEN NothingRecovered
              ELSE [positive |-> positive, form |-> form, complete |-> whole]
  BY DEF BenchmarkFacts
<1>2. facts.complete
  OBVIOUS
<1> HIDE DEF facts
<1>3. variant # Absent /\ facts = [positive |-> positive, form |-> form, complete |-> whole]
  <2> HIDE DEF whole, positive, form
  <2> QED
    BY <1>1, <1>2 DEF NothingRecovered
<1>4. whole
  <2> HIDE DEF whole, positive, form
  <2> QED
    BY <1>2, <1>3
<1>5. positive
  <2>1. SlotPresent(entries, "benchmark.workload")
    BY <1>4
  <2> HIDE DEF entries
  <2>2. \E role : \E k \in Keys(entries, role) : k[1] = "benchmark.workload"
    BY <2>1 DEF SlotPresent, Compared
  <2> QED
    BY <2>2 DEF Keys
<1>6. form # {}
  <2>1. FormComplete(m, evidence, entries, form)
    BY <1>4
  <2> HIDE DEF entries, form
  <2>2. CASE form = {}
    BY <2>1, <2>2 DEF FormComplete, Compared
  <2> QED
    BY <2>2
<1>7. facts.positive /\ facts.form # {}
  <2> HIDE DEF whole, positive, form
  <2> QED
    BY <1>3, <1>5, <1>6
<1> QED
  BY <1>3, <1>4, <1>7 DEF facts

LEMMA BenchmarkAlone ==
    ASSUME NEW m, NEW variant, NEW evidence,
           BenchmarkFacts(m, evidence, variant).complete,
           SelectProfile(variant, <<m>>, evidence).state = "selected"
    PROVE  LET p == SelectProfile(variant, <<m>>, evidence)
           IN  /\ p.id = "benchmark" /\ p.variant = variant
               /\ p.form = BenchmarkFacts(m, evidence, variant).form
<1> DEFINE records == ProfileRecords(variant, <<m>>, evidence)
           p == SelectProfile(variant, <<m>>, evidence)
           facts == BenchmarkFacts(m, evidence, variant)
<1>1. p = SelectAmong(variant, records, {1})
  BY AloneEffective DEF SelectProfile, SelectOf
<1>2. records[1].facts = facts
  BY AloneEffective
<1>3. facts.complete /\ facts.positive /\ facts.form # {} /\ variant # Absent
  BY CompleteBenchmark
<1>4. p.state = "selected"
  OBVIOUS
<1> HIDE DEF records, p, facts
<1>5. /\ {i \in {1} : records[i].facts.complete} = {1}
      /\ {i \in {1} : records[i].facts.positive} = {1}
  BY <1>2, <1>3
<1>6. First({1}) = 1
  BY DEF First
<1>7. FormOf(records, {1}, {1}) = facts.form
  BY <1>2, <1>6 DEF FormOf
<1>8. Cardinality({records[i].facts.form : i \in {1}}) = 1
  <2>1. {records[i].facts.form : i \in {1}} = {facts.form}
    BY <1>2
  <2> QED
    BY <2>1, FS_Singleton
<1>9. p = NoProfile("ambiguous") \/ p = Profile("benchmark", variant, facts.form, TRUE)
  <2> DEFINE undecided == variant \in {Absent, "quality"}
             training == \E i \in {1} : records[i].training
             forms == {records[i].facts.form : i \in {1}}
             unshaped == IF \E i \in {1} : records[i].shape
                         THEN Profile("training", Absent, {}, FALSE) ELSE NoProfile("unresolved")
  <2>1. p = IF undecided /\ training /\ {1} # {} THEN NoProfile("ambiguous")
            ELSE IF undecided /\ training THEN Profile("training", Absent, {}, TRUE)
            ELSE IF variant # Absent /\ (~undecided \/ {1} # {})
            THEN IF Cardinality(forms) > 1 THEN Profile("benchmark", variant, {}, FALSE)
                 ELSE Profile("benchmark", variant,
                              IF facts.form = {} THEN {"raw_run_series"} ELSE facts.form,
                              {1} # {})
            ELSE unshaped
    BY <1>1, <1>5, <1>7 DEF SelectAmong
  <2>2. ~(Cardinality(forms) > 1)
    BY <1>8
  <2> HIDE DEF undecided, training, forms, unshaped
  <2> QED
    BY <2>1, <2>2, <1>3
<1> QED
  BY <1>4, <1>9 DEF p, facts, NoProfile, Profile

LEMMA HydratedOnce ==
    ASSUME NEW x, IsBinding(x), NEW evidence, NEW b, b = Hydrate(x, evidence),
           Resolves(b, evidence), Exact(EvidenceFor(b, evidence), b)
    PROVE  Hydrate(b, evidence) = b
<1> DEFINE e == EvidenceFor(x, evidence)
           f == EvidenceFor(b, evidence)
<1>1. Resolves(x, evidence)
  BY DEF Hydrate
<1>2. b = [x EXCEPT !.adapter = e.adapter, !.fields = e.fields]
  BY <1>1 DEF Hydrate
<1>3. Hydrate(b, evidence) = [b EXCEPT !.adapter = f.adapter, !.fields = f.fields]
  BY DEF Hydrate
<1>4. f.adapter = b.adapter /\ f.fields = b.fields
  BY DEF Exact
<1> HIDE DEF e, f
<1>5. b = [file |-> x.file, kind |-> x.kind, role |-> x.role, split |-> x.split,
           adapter |-> e.adapter, fields |-> e.fields, prov |-> x.prov]
  BY <1>2 DEF IsBinding
<1> QED
  BY <1>3, <1>4, <1>5

\* A whole mapping is approved as it is.
LEMMA ApprovedWhole ==
    ASSUME Wellformed, NEW m \in approved, IssuedWhole(m.bindings)
    PROVE  \E n : Request(Discovery).approved = {n} /\ n.bindings = m.bindings
<1> DEFINE r == Request(Discovery)
           keys == KeysOf(r.artifacts)
           narrowed == Narrowed(m.bindings, keys, r.evidence)
<1>1. r.artifacts = Relevant(repo.artifacts, repo.claim)
      /\ r.evidence = Relevant(repo.evidence, repo.claim)
  BY RequestFields
<1>2. narrowed = m.bindings /\ m.bindings # {}
  <2>1. \A b \in m.bindings : Key(b) \in keys /\ Hydrate(b, r.evidence) = b
    BY <1>1 DEF IssuedWhole
  <2>2. m.bindings # {}
    BY DEF IssuedWhole
  <2> HIDE DEF r, keys
  <2> QED
    BY <2>1, <2>2 DEF Narrowed
<1>3. \/ r.approved = {m}
      \/ r.approved = {} /\ narrowed = {}
      \/ r.approved = {[m EXCEPT !.bindings = narrowed]}
  BY ApprovalScoped
<1>4. [m EXCEPT !.bindings = narrowed].bindings = narrowed
  BY NarrowedMapping DEF Wellformed
<1> HIDE DEF r, narrowed
<1> QED
  BY <1>2, <1>3, <1>4 DEF r

\* It revalidates under the profile it selects.
LEMMA WholeRevalidates ==
    ASSUME NEW m, IssuedWhole(m.bindings), NEW r, r.claim = repo.claim,
           r.evidence = Relevant(repo.evidence, repo.claim), NEW profile,
           profile = SelectProfile(r.claim.variant, <<m>>, r.evidence),
           profile.state = "selected"
    PROVE  Revalidatable(m, r, profile)
<1> DEFINE evidence == Relevant(repo.evidence, repo.claim)
           variant == repo.claim.variant
           c == m.bindings
           n == [bindings |-> c]
           e(b) == EvidenceFor(b, evidence)
           roles(allowed) == \A b \in c : b.role \in allowed
<1>1. \A b \in c :
        /\ Resolves(b, evidence)
        /\ repo.claim.id \in e(b).claims /\ Exact(e(b), b) /\ SupportsRole(e(b), b.role)
        /\ b.kind = "dataset" => \A i \in DOMAIN e(b).obs : e(b).obs[i].refs \subseteq {b.file}
  BY DEF IssuedWhole
<1>2. \/ /\ variant \in {Absent, "quality"}
         /\ TrainingComplete(n, evidence) /\ roles(Compared)
      \/ /\ BenchmarkFacts(n, evidence, variant).complete
         /\ Cardinality(c) <= MaxExecutableBindings
         /\ roles(Compared \cup {"reference"})
  BY DEF IssuedWhole
<1>3. /\ BenchmarkFacts(m, evidence, variant) = BenchmarkFacts(n, evidence, variant)
      /\ TrainingComplete(m, evidence) = TrainingComplete(n, evidence)
  <2>1. m.bindings = n.bindings
    OBVIOUS
  <2> HIDE DEF n
  <2> QED
    BY <2>1, BindingsDecide
<1> HIDE DEF n
<1>4. /\ MatchesProfile(m, profile, evidence)
      /\ roles(Compared \cup (IF profile.id = "benchmark" THEN {"reference"} ELSE {}))
  <2>1. CASE /\ variant \in {Absent, "quality"}
             /\ TrainingComplete(n, evidence) /\ roles(Compared)
    <3>1. profile.id = "training"
      <4>1. TrainingComplete(m, evidence) /\ variant \in {Absent, "quality"}
        BY <1>3, <2>1
      <4> QED
        BY <4>1, TrainingAlone
    <3> QED
      BY <1>3, <2>1, <3>1 DEF MatchesProfile
  <2>2. CASE /\ BenchmarkFacts(n, evidence, variant).complete
             /\ Cardinality(c) <= MaxExecutableBindings
             /\ roles(Compared \cup {"reference"})
    <3>1. /\ profile.id = "benchmark" /\ profile.variant = variant
          /\ profile.form = BenchmarkFacts(m, evidence, variant).form
      BY <1>3, <2>2, BenchmarkAlone
    <3> QED
      BY <1>3, <2>2, <3>1 DEF MatchesProfile
  <2> QED
    BY <1>2, <2>1, <2>2
<1> QED
  BY <1>1, <1>4 DEF Revalidatable

LEMMA WholeIsPlanned ==
    ASSUME Wellformed, NEW m \in approved, IssuedWhole(m.bindings)
    PROVE  Current.state # "mapping_needed"
<1> DEFINE r == Request(Discovery)
           profile == ProfileOf(r)
<1>1. PICK n : r.approved = {n} /\ n.bindings = m.bindings
  BY ApprovedWhole
<1>2. r.claim = repo.claim /\ r.evidence = Relevant(repo.evidence, repo.claim)
  BY RequestFields
<1>3. Current = Plan(r)
  BY DEF Current
<1> HIDE DEF r
<1>4. profile = SelectProfile(r.claim.variant, <<n>>, r.evidence)
  <2>1. (CHOOSE x \in r.approved : TRUE) = n
    BY <1>1
  <2> QED
    BY <1>1, <2>1 DEF ProfileOf
<1>5. CASE \/ \E x \in r.approved : Stale(x, r.artifacts)
           \/ ~Compiled(r.claim) \/ profile.state # "selected"
  BY <1>3, <1>5 DEF Plan, PlanUnder, Refused, Outcome
<1>6. CASE /\ ~\E x \in r.approved : Stale(x, r.artifacts)
           /\ Compiled(r.claim) /\ profile.state = "selected"
  <2>1. SelectMapping(r, profile, Valid(r, profile)) = {n}
    <3>1. Revalidatable(n, r, profile)
      BY <1>1, <1>2, <1>4, <1>6, WholeRevalidates
    <3> QED
      BY <1>1, <3>1 DEF SelectMapping
  <2>2. Current = Assessed(r, profile, {n}, NotAsked)
    BY <1>3, <1>6, <2>1 DEF Plan, PlanUnder, PlanOver, Chosen
  <2> DEFINE b == AssessProfiled(r, profile, {n}, NotAsked)
  <2>3. NotAsked.question = {}
    BY DEF NotAsked
  <2>4. b.decision \in {"ready", "mapping_needed", "partial"} /\ b.decision # "mapping_needed"
    BY <1>6, <2>3, AssessedDecides
  <2>5. Current = Concluded(profile, {n}, NotAsked.question, b)
    BY <2>2 DEF Assessed
  <2> HIDE DEF b
  <2> QED
    BY <2>4, <2>5 DEF Concluded, Outcome
<1> QED
  BY <1>5, <1>6

\* It holds something of either role, so that it is more than one slot.
LEMMA WholeIsMore ==
    ASSUME NEW c, IssuedWhole(c), NEW b \in c PROVE c # {b}
<1> DEFINE evidence == Relevant(repo.evidence, repo.claim)
           variant == repo.claim.variant
           m == [bindings |-> c]
<1>1. \A role \in Compared : \E x \in c : x.role = role
  <2>1. CASE TrainingComplete(m, evidence)
    BY <2>1 DEF TrainingComplete
  <2>2. CASE BenchmarkFacts(m, evidence, variant).complete
    <3>1. \A role \in Compared : Cardinality(MetricNames(m, evidence, role)) = 1
      BY <2>2, CompleteBenchmark
    <3>2. \A role \in Compared : MetricNames(m, evidence, role) # {}
      BY <3>1, FS_EmptySet
    <3>3. \A role \in Compared : MetricEntries(m, evidence, role) # {}
      BY <3>2 DEF MetricNames
    <3>4. \A role \in Compared : \E x \in Recovered(m, evidence) : x.role = role
      BY <3>3 DEF MetricEntries
    <3> QED
      BY <3>4 DEF Recovered
  <2> QED
    BY <2>1, <2>2 DEF IssuedWhole
<1> QED
  BY <1>1 DEF Compared

LEMMA SlotChoices ==
    ASSUME NEW u \in Discovered.upstream, NEW x \in u.choices
    PROVE  \E b : x = {b}
<1> DEFINE ambiguities == UNION {Ambiguities(s) : s \in Scopes(repo.artifacts, repo.claims)}
           firsts == {y \in ambiguities : \A z \in ambiguities : ~AskedBefore(z, y)}
           first == CHOOSE y \in firsts : TRUE
           offered == {a \in first.artifacts :
                         Cardinality({b \in first.artifacts : Better(b, a)}) < MaxChoices}
           to == IF Cardinality(Affected(first)) = 1
                 THEN CHOOSE y \in Affected(first) : TRUE ELSE Absent
           choices == {{Binding(a, first.slot.role, first.slot.split)} : a \in offered}
<1>1. u \in AmbiguityQuestion(ambiguities)
  BY DEF Discovered, Resolution, Question
<1>2. AmbiguityQuestion(ambiguities) =
        IF firsts = {} THEN {} ELSE {[claim |-> to, choices |-> choices]}
  BY DEF AmbiguityQuestion
<1>3. x \in choices
  <2> HIDE DEF ambiguities, firsts, choices, to
  <2> QED
    BY <1>1, <1>2
<1> HIDE DEF first
<1> QED
  BY <1>3

LEMMA UpstreamIsForSlot ==
    ASSUME NEW q \in Request(Discovery).upstream
    PROVE  AskedForSlot(q)
<1> DEFINE r == Request(Discovery)
           keys == KeysOf(r.artifacts)
<1>1. PICK u \in Discovered.upstream : q \in ScopedQuestion(u, Discovery, keys, r.evidence)
  <2> HIDE DEF r
  <2> QED
    BY RequestFields DEF r
<1> HIDE DEF r, keys
<1>2. q.choices = {Narrowed(x, keys, r.evidence) : x \in u.choices} \ {{}}
  BY <1>1 DEF ScopedQuestion
<1>3. SUFFICES ASSUME NEW c \in q.choices PROVE \E b \in c : c = {b}
  BY DEF AskedForSlot
<1>4. PICK x \in u.choices : c = Narrowed(x, keys, r.evidence) /\ c # {}
  BY <1>2
<1>5. PICK b : x = {b}
  BY SlotChoices
<1>6. c \subseteq {Hydrate(b, r.evidence)}
  BY <1>4, <1>5 DEF Narrowed
<1> QED
  BY <1>4, <1>6

LEMMA CandidateIsWhole ==
    ASSUME Wellformed, NEW r, r = Request(Discovery), NEW profile, Suits(profile, repo.claim),
           NEW i \in Valid(r, profile)
    PROVE  IssuedWhole(r.candidates[i].bindings)
<1> DEFINE m == r.candidates[i]
           keys == KeysOf(r.artifacts)
           d == Discovered.candidates
<1>1. i \in DOMAIN r.candidates /\ Revalidatable(m, r, profile)
  BY DEF Valid
<1>2. /\ r.claim = repo.claim /\ r.evidence = Relevant(repo.evidence, repo.claim)
      /\ r.artifacts = Relevant(repo.artifacts, repo.claim)
      /\ r.candidates = ScopedCandidates(d, keys, r.evidence)
  BY RequestFields
<1> HIDE DEF d
<1>3. i \in DOMAIN d /\ m = [d[i] EXCEPT !.bindings = Narrowed(d[i].bindings, keys, r.evidence)]
  <2> HIDE DEF keys
  <2> QED
    BY <1>1, <1>2, ScopedIs
<1>4. IsMapping(d[i])
  BY <1>3, DiscoveredMappings DEF d
<1>5. m.bindings = Narrowed(d[i].bindings, keys, r.evidence)
  BY <1>3, <1>4, NarrowedMapping
<1>6. m.bindings # {}
  <2> HIDE DEF keys
  <2>1. Narrowed(d[i].bindings, keys, r.evidence) # {}
    <3> DEFINE n(j) == [d[j] EXCEPT !.bindings = Narrowed(d[j].bindings, keys, r.evidence)]
    <3>1. n(i).bindings # {}
      BY <1>1, <1>2 DEF ScopedCandidates
    <3>2. n(i).bindings = Narrowed(d[i].bindings, keys, r.evidence)
      BY <1>4, NarrowedMapping
    <3> QED
      BY <3>1, <3>2
  <2> QED
    BY <1>5, <2>1
<1>7. \A b \in m.bindings : Key(b) \in keys /\ Hydrate(b, r.evidence) = b
  <2> SUFFICES ASSUME NEW b \in m.bindings
               PROVE  Key(b) \in keys /\ Hydrate(b, r.evidence) = b
    OBVIOUS
  <2> HIDE DEF keys, m
  <2>1. PICK x \in d[i].bindings : Key(x) \in keys /\ b = Hydrate(x, r.evidence)
    BY <1>5 DEF Narrowed
  <2>2. IsBinding(x)
    BY <1>4, <2>1 DEF IsMapping
  <2>3. Key(b) = Key(x)
    BY <2>1, <2>2, Hydrated DEF Key
  <2>4. Resolves(b, r.evidence) /\ Exact(EvidenceFor(b, r.evidence), b)
    BY <1>1 DEF Revalidatable
  <2> QED
    BY <2>1, <2>2, <2>3, <2>4, HydratedOnce
<1> HIDE DEF m
<1>8. \A b \in m.bindings :
        /\ Key(b) \in KeysOf(Relevant(repo.artifacts, repo.claim))
        /\ Hydrate(b, r.evidence) = b
  BY <1>2, <1>7
<1> HIDE DEF keys
<1>9. IssuedWhole(m.bindings)
  BY <1>1, <1>2, <1>6, <1>8, RevalidIsWhole
<1> QED
  BY <1>9 DEF m

\* What a plan asks: of discovery's, only where nothing is approved.
LEMMA PlanAsks ==
    ASSUME Wellformed, NEW q \in Current.question
    PROVE  \/ approved = {} /\ AskedForSlot(q)
           \/ q.choices # {} /\ \A c \in q.choices : IssuedWhole(c)
<1> DEFINE r == Request(Discovery)
           profile == ProfileOf(r)
           valid == Valid(r, profile)
<1>1. Current = Plan(r)
  BY DEF Current
<1>2. IsAsking(r, Current)
  BY CurrentIs, Refusals DEF PlanSays, IsReady, IsPartial
<1>3. q \in Clarification(r, profile, valid).question
  BY <1>2 DEF IsAsking
<1>4. q.choices # {} /\ q \in r.upstream \cup CandidateQuestion(r, valid)
  <2> HIDE DEF r, profile, valid
  <2> QED
    BY <1>3, ClarificationAsks
<1>5. CASE q \in r.upstream
  <2>1. AskedForSlot(q)
    BY <1>5, UpstreamIsForSlot
  <2>2. approved = {}
    BY <1>5, RequestFields DEF Discovered, Resolution, Question
  <2> QED
    BY <2>1, <2>2
<1>6. CASE q \in CandidateQuestion(r, valid)
  <2>1. profile.state = "selected"
    <3> HIDE DEF r
    <3>1. CASE profile.state # "selected"
      BY <1>1, <1>2, <3>1 DEF Plan, PlanUnder, Refused, Outcome, IsAsking
    <3> QED
      BY <3>1
  <2>2. r.claim = repo.claim
    BY RequestFields
  <2>3. Suits(profile, repo.claim)
    <3> HIDE DEF r
    <3> QED
      BY <2>1, <2>2, SelectedSuits DEF ProfileOf
  <2>4. q.choices = {r.candidates[i].bindings : i \in valid}
    <3> HIDE DEF r, valid
    <3> QED
      BY <1>6 DEF CandidateQuestion
  <2>5. \A i \in valid : IssuedWhole(r.candidates[i].bindings)
    BY <2>3, CandidateIsWhole
  <2> HIDE DEF r, valid
  <2> QED
    BY <1>4, <2>4, <2>5
<1> QED
  BY <1>4, <1>5, <1>6

LEMMA AnswersDecide == Wellformed /\ Planned /\ AskedIs => AnswersAdvance
<1> SUFFICES ASSUME Wellformed, Planned, AskedIs, stage # "plan",
                    NEW q \in asked, NEW m \in approved
             PROVE  /\ AskedForSlot(q) => q \notin plan.question
                    /\ ~AskedForSlot(q) /\ m.bindings \in q.choices
                          => plan.state # "mapping_needed"
  BY DEF AnswersAdvance, AskedForSlot
<1>1. CASE plan = Refused("unavailable")
  BY <1>1, Refusals
<1>2. CASE plan = Current
  <2>1. ASSUME AskedForSlot(q), q \in Current.question PROVE FALSE
    <3>1. PICK c \in q.choices : IssuedWhole(c)
      BY <2>1, PlanAsks
    <3> QED
      BY <2>1, <3>1, WholeIsMore DEF AskedForSlot
  <2>2. ASSUME ~AskedForSlot(q), m.bindings \in q.choices
        PROVE  Current.state # "mapping_needed"
    BY <2>2, WholeIsPlanned DEF AskedIs
  <2> QED
    BY <1>2, <2>1, <2>2
<1> QED
  BY <1>1, <1>2 DEF Planned, Current

-----------------------------------------------------------------------------------

LEMMA IssuedFrame ==
    ASSUME repo' = repo, NEW c PROVE IssuedWhole(c) => IssuedWhole(c)'
  BY DEF IssuedWhole

LEMMA AskedFrame ==
    ASSUME AskedIs, repo' = repo, asked' \cup result'.question \subseteq asked \cup result.question
    PROVE  AskedIs'
  BY IssuedFrame DEF AskedIs, AskedForSlot

LEMMA AskedInit == Init => AskedIs
  BY Results DEF Init, AskedIs

LEMMA AskedKeeps == IInv /\ AskedIs /\ [Next]_vars => AskedIs'
<1> SUFFICES ASSUME IInv, AskedIs, [Next]_vars PROVE AskedIs'
  OBVIOUS
<1>1. CASE PlanAudit
  <2>1. repo' = repo /\ asked' = asked
    BY <1>1 DEF PlanAudit
  <2>2. result'.question \subseteq result.question \cup Current.question
    <3>1. plan' = Refused("unavailable") \/ plan' = Current
      BY <1>1 DEF PlanAudit, Current
    <3>2. plan'.question \subseteq Current.question
      BY <3>1, Refusals
    <3>3. \/ result' = result \/ result' = Unavailable
          \/ result' = Result(plan'.state, None, None, plan'.question, plan'.bundle)
      BY <1>1 DEF PlanAudit, End
    <3> QED
      BY <3>2, <3>3, Results
  <2>3. \A q \in Current.question : AskedForSlot(q) \/ \A c \in q.choices : IssuedWhole(c)
    BY PlanAsks DEF IInv
  <2> QED
    BY <2>1, <2>2, <2>3, IssuedFrame DEF AskedIs, AskedForSlot
<1>2. CASE ExecutionFails
  <2>1. repo' = repo /\ asked' = asked /\ result' = Unavailable
    BY <1>2 DEF ExecutionFails, End
  <2> QED
    BY <2>1, Results, AskedFrame
<1>3. CASE NotRepresented
  <2>1. repo' = repo /\ asked' = asked /\ \E failure : result' = Failed(failure)
    BY <1>3 DEF NotRepresented, End
  <2>2. result'.question = {}
    BY <2>1, Results DEF Failed
  <2> QED
    BY <2>1, <2>2, AskedFrame
<1>4. CASE AuditTraining \/ AuditOfBenchmark
  <2>1. repo' = repo /\ asked' = asked /\ (result' = NoResult \/ result' = Unavailable)
    BY <1>4 DEF AuditTraining, AuditOfBenchmark, Audited, End
  <2> QED
    BY <2>1, Results, AskedFrame
<1>5. CASE Review
  <2>1. repo' = repo /\ asked' = asked
        /\ \E state, trace : result' = Result(state, audit.verdict, trace, {}, plan.bundle)
    BY <1>5 DEF Review, End
  <2>2. result'.question = {}
    BY <2>1, Results
  <2> QED
    BY <2>1, <2>2, AskedFrame
<1>6. CASE Answer
  <2>1. repo' = repo /\ asked' = result.question /\ result' = NoResult
    BY <1>6 DEF Answer, Again
  <2> QED
    BY <2>1, Results, AskedFrame
<1>7. CASE Push
  <2>1. asked' = {} /\ result' = NoResult
    BY <1>7 DEF Push, Again
  <2> QED
    BY <2>1, Results DEF AskedIs
<1>8. CASE UNCHANGED vars
  <2>1. repo' = repo /\ asked' = asked /\ result' = result
    BY <1>8 DEF vars
  <2> QED
    BY <2>1, AskedFrame
<1> QED
  BY <1>1, <1>2, <1>3, <1>4, <1>5, <1>6, <1>7, <1>8 DEF Next

\* An answer is not asked for again: not for a slot, and not for a mapping approved as it
\* was offered (planner.py _question_is_useful, _scope_approved_mapping and _select_mapping;
\* discovery/mappings.py _mapping_question).
THEOREM AnswersAreFinal == Spec => []AnswersAdvance
<1>1. Spec => []AskedIs
  <2>1. AskedIs /\ IInv /\ [Next]_vars => AskedIs'
    BY AskedKeeps
  <2> QED
    BY <2>1, AskedInit, Invariance, PTL DEF Spec
<1>2. IInv /\ AskedIs => AnswersAdvance
  BY AnswersDecide DEF IInv
<1> QED
  BY <1>1, <1>2, Invariance, PTL

-----------------------------------------------------------------------------------
(* Induction and recursion over an interval of numbers, for sets and functions.   *)

LEMMA LeastNumber ==
    ASSUME NEW S, S \subseteq Nat, S # {}
    PROVE  \E n \in S : \A m \in S : n <= m
<1> DEFINE Below == {p \in Nat \X Nat : p[1] < p[2]}
<1>1. IsWellFoundedOn(OpToRel(<, Nat), Nat)
  BY NatLessThanWellFounded
<1>2. OpToRel(<, Nat) = Below
  BY DEF OpToRel
<1>3. \A m, n \in Nat : <<m, n>> \notin Below => n <= m
  OBVIOUS
<1> HIDE DEF Below
<1>4. IsWellFoundedOn(Below, Nat)
  BY <1>1, <1>2
<1>5. PICK n \in S : \A m \in S : <<m, n>> \notin Below
  BY <1>4, WFMin
<1>6. \A m \in S : n <= m
  BY <1>3, <1>5
<1> QED
  BY <1>6

LEMMA Reaches ==
    ASSUME NEW N \in Nat, NEW S, 0 \in S,
           \A n \in 1..N : n - 1 \in S => n \in S
    PROVE  N \in S
<1> DEFINE Missed == (0..N) \ S
<1> SUFFICES ASSUME Missed # {} PROVE FALSE
  OBVIOUS
<1>1. Missed \subseteq Nat
  OBVIOUS
<1>2. PICK n \in Missed : \A m \in Missed : n <= m
  <2> HIDE DEF Missed
  <2> QED
    BY <1>1, LeastNumber
<1>3. n \in 1..N /\ n - 1 \notin Missed
  BY <1>2
<1> QED
  BY <1>3

LEMMA UpTo ==
    ASSUME NEW N \in Nat, NEW S, 0 \in S,
           \A n \in 1..N : n - 1 \in S => n \in S
    PROVE  \A n \in 0..N : n \in S
<1> SUFFICES ASSUME NEW n \in 0..N PROVE n \in S
  OBVIOUS
<1>1. n \in Nat /\ \A i \in 1..n : i - 1 \in S => i \in S
  OBVIOUS
<1> QED
  BY <1>1, Reaches

\* A function that starts with a and goes on as g says.
IsStep(g, N, A) == g \in [(1..N) \X A -> A]
Follows(h, g, a, N) == h[0] = a /\ \A n \in 1..N : h[n] = g[<<n, h[n - 1]>>]

LEMMA Iterates ==
    ASSUME NEW A, NEW a \in A, NEW N \in Nat, NEW g, IsStep(g, N, A)
    PROVE  \E h \in [0..N -> A] : Follows(h, g, a, N)
<1> DEFINE Start(n) == {h \in [0..n -> A] :
                          h[0] = a /\ \A i \in 1..n : h[i] = g[<<i, h[i - 1]>>]}
           S == {n \in 0..N : Start(n) # {}}
<1>1. 0 \in S
  <2>1. [i \in 0..0 |-> a] \in Start(0)
    OBVIOUS
  <2> QED
    BY <2>1
<1>2. ASSUME NEW n \in 1..N, n - 1 \in S PROVE n \in S
  <2>1. PICK h \in [0..(n - 1) -> A] :
          h[0] = a /\ \A i \in 1..(n - 1) : h[i] = g[<<i, h[i - 1]>>]
    BY <1>2
  <2> DEFINE b == g[<<n, h[n - 1]>>]
             k == [i \in 0..n |-> IF i = n THEN b ELSE h[i]]
  <2>2. h[n - 1] \in A /\ b \in A
    BY <2>1 DEF IsStep
  <2>3. \A i \in 0..(n - 1) : k[i] = h[i]
    BY <2>1
  <2>4. k[n] = g[<<n, k[n - 1]>>]
    <3>1. n \in 0..n /\ n - 1 \in 0..(n - 1)
      OBVIOUS
    <3>2. k[n] = b
      BY <3>1
    <3>3. k[n - 1] = h[n - 1]
      BY <2>3, <3>1
    <3> QED
      BY <3>2, <3>3
  <2>5. ASSUME NEW i \in 1..(n - 1) PROVE k[i] = g[<<i, k[i - 1]>>]
    <3>1. i \in 0..(n - 1) /\ i - 1 \in 0..(n - 1)
      OBVIOUS
    <3>2. h[i] = g[<<i, h[i - 1]>>]
      BY <2>1
    <3> HIDE DEF k
    <3> QED
      BY <2>3, <3>1, <3>2
  <2>6. k \in [0..n -> A]
    BY <2>1, <2>2
  <2>7. k[0] = a
    BY <2>1
  <2> HIDE DEF k
  <2>8. \A i \in 1..n : k[i] = g[<<i, k[i - 1]>>]
    <3> SUFFICES ASSUME NEW i \in 1..n PROVE k[i] = g[<<i, k[i - 1]>>]
      OBVIOUS
    <3>1. i = n \/ i \in 1..(n - 1)
      OBVIOUS
    <3> QED
      BY <2>4, <2>5, <3>1
  <2>9. k \in Start(n)
    BY <2>6, <2>7, <2>8
  <2> QED
    BY <2>9
<1>3. N \in S
  <2> HIDE DEF S
  <2> QED
    BY <1>1, <1>2, Reaches
<1> QED
  BY <1>3 DEF Follows

-----------------------------------------------------------------------------------
(* Sums: of as many numbers, at most that many times the greatest.             *)

LEMMA SumSteps ==
    ASSUME NEW v \in Seq(Int)
    PROVE  \E s : /\ s[0] = 0 /\ \A n \in 0..Len(v) : s[n] \in Int
                  /\ \A n \in 1..Len(v) : s[n] = s[n - 1] + v[n]
                  /\ SumOf(v) = s[Len(v)]
<1> DEFINE N == Len(v)
           g == [x \in (1..N) \X Int |-> x[2] + v[x[1]]]
           F(s) == [n \in 0..N |-> IF n = 0 THEN 0 ELSE s[n - 1] + v[n]]
           s == CHOOSE s : s = F(s)
<1>1. N \in Nat /\ \A n \in 1..N : v[n] \in Int
  OBVIOUS
<1>2. s = F(s)
  <2>1. g \in [(1..N) \X Int -> Int]
    BY <1>1
  <2>2. PICK h \in [0..N -> Int] : h[0] = 0 /\ \A n \in 1..N : h[n] = g[<<n, h[n - 1]>>]
    <3> HIDE DEF g, N
    <3>1. IsStep(g, N, Int)
      BY <2>1 DEF IsStep
    <3>2. 0 \in Int
      OBVIOUS
    <3>3. \E h \in [0..N -> Int] : Follows(h, g, 0, N)
      BY <1>1, <3>1, <3>2, Iterates
    <3> QED
      BY <3>3 DEF Follows
  <2>3. \A n \in 1..N : h[n - 1] \in Int /\ h[n] = h[n - 1] + v[n]
    <3> SUFFICES ASSUME NEW n \in 1..N PROVE h[n - 1] \in Int /\ h[n] = h[n - 1] + v[n]
      OBVIOUS
    <3>1. n - 1 \in 0..N
      BY <1>1
    <3>2. h[n] = g[<<n, h[n - 1]>>]
      BY <2>2
    <3>3. h[n - 1] \in Int
      BY <2>2, <3>1
    <3> QED
      BY <3>2, <3>3
  <2>4. h = F(h)
    <3>1. \A n \in 0..N : n = 0 \/ n \in 1..N
      BY <1>1
    <3> HIDE DEF g
    <3> QED
      BY <2>2, <2>3, <3>1
  <2> HIDE DEF F
  <2> QED
    BY <2>4
<1>3. SumOf(v) = s[N]
  BY DEF SumOf
<1> HIDE DEF s
<1>4. s[0] = 0 /\ \A n \in 1..N : s[n] = s[n - 1] + v[n]
  <2>1. 0 \in 0..N /\ \A n \in 1..N : n \in 0..N /\ n # 0
    BY <1>1
  <2> QED
    BY <1>2, <2>1
<1>5. \A n \in 0..N : s[n] \in Int
  <2> DEFINE Typed == {n \in 0..N : s[n] \in Int}
  <2>1. 0 \in Typed
    BY <1>1, <1>4
  <2>2. ASSUME NEW n \in 1..N, n - 1 \in Typed PROVE n \in Typed
    BY <1>1, <1>4, <2>2
  <2> HIDE DEF Typed
  <2>3. \A n \in 0..N : n \in Typed
    BY <1>1, <2>1, <2>2, UpTo
  <2> QED
    BY <2>3 DEF Typed
<1> QED
  BY <1>3, <1>4, <1>5

LEMMA Onwards ==
    ASSUME NEW n \in Nat, NEW x \in Int, NEW y \in Int, NEW s \in Int
    PROVE  /\ s <= n * x /\ x <= y => s + y <= (n + 1) * y
           /\ s <= n * x /\ y <= x => s + y <= (n + 1) * x
           /\ n * x <= s /\ y <= x => (n + 1) * y <= s + y
           /\ n * x <= s /\ x <= y => (n + 1) * x <= s + y
<1>1. x <= y => n * x <= n * y
  OBVIOUS
<1>2. y <= x => n * y <= n * x
  OBVIOUS
<1>3. (n + 1) * y = n * y + y /\ (n + 1) * x = n * x + x
  OBVIOUS
<1>4. n * x \in Int /\ n * y \in Int
  OBVIOUS
<1> QED
  BY <1>1, <1>2, <1>3, <1>4

LEMMA SumBounds ==
    ASSUME NEW v \in Seq(Int), Len(v) > 0
    PROVE  \E i, j \in 1..Len(v) : Len(v) * v[i] <= SumOf(v) /\ SumOf(v) <= Len(v) * v[j]
<1> DEFINE N == Len(v)
<1>1. PICK s : /\ s[0] = 0 /\ \A n \in 0..N : s[n] \in Int
               /\ \A n \in 1..N : s[n] = s[n - 1] + v[n]
               /\ SumOf(v) = s[N]
  BY SumSteps
<1>2. N \in Nat /\ N > 0 /\ \A n \in 1..N : v[n] \in Int
  OBVIOUS
<1> HIDE DEF N
<1> DEFINE Fine == {n \in 0..N : n > 0 => \E i, j \in 1..n : n * v[i] <= s[n] /\ s[n] <= n * v[j]}
<1>3. 0 \in Fine
  BY <1>2
<1>4. ASSUME NEW n \in 1..N, n - 1 \in Fine PROVE n \in Fine
  <2>1. s[n] = s[n - 1] + v[n] /\ s[n - 1] \in Int /\ s[n] \in Int /\ n \in Nat
        /\ n \in 0..N /\ n - 1 \in 0..N
    BY <1>1, <1>2
  <2>2. CASE n = 1
    BY <1>1, <1>2, <2>1, <2>2
  <2>3. CASE n # 1
    <3>1. PICK i \in 1..(n - 1), j \in 1..(n - 1) :
             (n - 1) * v[i] <= s[n - 1] /\ s[n - 1] <= (n - 1) * v[j]
      BY <1>4, <2>3
    <3> DEFINE x == v[i]
               y == v[j]
               z == v[n]
               t == s[n - 1]
               k == n - 1
    <3>2. x \in Int /\ y \in Int /\ z \in Int /\ t \in Int /\ k \in Nat /\ k + 1 = n
      BY <1>2, <2>1
    <3>3. k * x <= t /\ t <= k * y /\ s[n] = t + z
      BY <2>1, <3>1
    <3> HIDE DEF x, y, z, t, k
    <3>4. n * z <= s[n] \/ n * x <= s[n]
      BY <3>2, <3>3, Onwards
    <3>5. s[n] <= n * z \/ s[n] <= n * y
      BY <3>2, <3>3, Onwards
    <3>6. i \in 1..n /\ j \in 1..n /\ n \in 1..n
      OBVIOUS
    <3> QED
      BY <2>1, <3>4, <3>5, <3>6 DEF x, y, z
  <2> QED
    BY <2>2, <2>3
<1>5. N \in Fine
  <2> HIDE DEF Fine
  <2> QED
    BY <1>2, <1>3, <1>4, Reaches
<1> QED
  BY <1>1, <1>2, <1>5 DEF N

-----------------------------------------------------------------------------------
(* What is bound to a role, and what was observed there.                     *)

LEMMA FilesInOrder ==
    ASSUME NEW S, IsFiniteSet(S), \A b \in S : b.file \in Nat
    PROVE  \E s \in [1..Cardinality(S) -> S] :
              /\ IsInjective(s)
              /\ \A i, j \in DOMAIN s : i < j => s[i].file <= s[j].file
<1> DEFINE InOrder(T, s) == /\ IsInjective(s)
                            /\ \A i, j \in DOMAIN s : i < j => s[i].file <= s[j].file
           N == Cardinality(S)
           Fine == {n \in 0..N : \A T \in SUBSET S : Cardinality(T) = n =>
                                    \E s \in [1..n -> T] : InOrder(T, s)}
<1>1. N \in Nat
  BY FS_CardinalityType
<1>2. 0 \in Fine
  <2> SUFFICES ASSUME NEW T \in SUBSET S, Cardinality(T) = 0
               PROVE  \E s \in [1..0 -> T] : InOrder(T, s)
    BY <1>1
  <2>1. [i \in 1..0 |-> i] \in [1..0 -> T] /\ InOrder(T, [i \in 1..0 |-> i])
    BY DEF IsInjective
  <2> QED
    BY <2>1
<1>3. ASSUME NEW n \in 1..N, n - 1 \in Fine PROVE n \in Fine
  <2> SUFFICES ASSUME NEW T \in SUBSET S, Cardinality(T) = n
               PROVE  \E s \in [1..n -> T] : InOrder(T, s)
    BY <1>1
  <2>1. IsFiniteSet(T) /\ T # {}
    BY <1>1, FS_Subset, FS_EmptySet
  <2>2. PICK b \in T : \A c \in T : b.file <= c.file
    <3> DEFINE files == {c.file : c \in T}
    <3>1. files \subseteq Nat /\ files # {}
      BY <2>1
    <3>2. PICK f \in files : \A k \in files : f <= k
      <4> HIDE DEF files
      <4> QED
        BY <3>1, LeastNumber
    <3> QED
      BY <3>2
  <2> DEFINE U == T \ {b}
  <2>3. Cardinality(U) = n - 1 /\ U \in SUBSET S
    BY <2>1, <2>2, FS_RemoveElement
  <2>4. PICK u \in [1..(n - 1) -> U] : InOrder(U, u)
    <3> HIDE DEF U, InOrder
    <3> QED
      BY <1>3, <2>3
  <2> DEFINE s == [i \in 1..n |-> IF i = 1 THEN b ELSE u[i - 1]]
  <2>5. \A i \in 1..n : i = 1 \/ i - 1 \in 1..(n - 1)
    OBVIOUS
  <2>6. \A i \in 1..(n - 1) : u[i] \in T /\ u[i] # b
    BY <2>4
  <2>7. s \in [1..n -> T]
    BY <2>2, <2>5, <2>6
  <2>8. IsInjective(s)
    <3> SUFFICES ASSUME NEW i \in 1..n, NEW j \in 1..n, s[i] = s[j] PROVE i = j
      BY <2>7 DEF IsInjective
    <3>1. CASE i = 1 \/ j = 1
      BY <2>5, <2>6, <3>1
    <3>2. CASE i # 1 /\ j # 1
      <4>1. i - 1 \in 1..(n - 1) /\ j - 1 \in 1..(n - 1) /\ u[i - 1] = u[j - 1]
        BY <2>5, <3>2
      <4>2. i - 1 = j - 1
        BY <2>4, <4>1 DEF IsInjective
      <4> QED
        BY <4>2
    <3> QED
      BY <3>1, <3>2
  <2>9. ASSUME NEW i \in 1..n, NEW j \in 1..n, i < j PROVE s[i].file <= s[j].file
    <3>1. j # 1 /\ j - 1 \in 1..(n - 1) /\ s[j] = u[j - 1] /\ s[j] \in T
      BY <2>5, <2>6, <2>9
    <3>2. CASE i = 1
      BY <2>2, <3>1, <3>2
    <3>3. CASE i # 1
      <4>1. i - 1 \in 1..(n - 1) /\ s[i] = u[i - 1] /\ i - 1 < j - 1
        BY <2>5, <2>9, <3>1, <3>3
      <4> QED
        BY <2>4, <3>1, <4>1
    <3> QED
      BY <3>2, <3>3
  <2>10. InOrder(T, s)
    <3> HIDE DEF s
    <3> QED
      BY <2>7, <2>8, <2>9
  <2> QED
    BY <2>7, <2>10
<1>4. N \in Fine
  <2> HIDE DEF Fine
  <2> QED
    BY <1>1, <1>2, <1>3, Reaches
<1> QED
  BY <1>4

LEMMA BoundIs ==
    ASSUME NEW m, NEW role, IsFiniteSet({b \in m.bindings : b.role = role}),
           \A b \in m.bindings : b.file \in Nat
    PROVE  BoundTo(m, role) \in Seq({b \in m.bindings : b.role = role})
<1> DEFINE S == {b \in m.bindings : b.role = role}
           Right(s) == /\ IsInjective(s)
                       /\ \A i, j \in DOMAIN s : i < j => s[i].file <= s[j].file
<1>1. BoundTo(m, role) = CHOOSE s \in [1..Cardinality(S) -> S] : Right(s)
  BY DEF BoundTo
<1>2. \E s \in [1..Cardinality(S) -> S] : Right(s)
  BY FilesInOrder
<1>3. Cardinality(S) \in Nat
  BY FS_CardinalityType
<1> HIDE DEF S, Right
<1>4. BoundTo(m, role) \in [1..Cardinality(S) -> S]
  BY <1>1, <1>2
<1>5. BoundTo(m, role) \in Seq(S)
  BY <1>3, <1>4
<1> QED
  BY <1>5 DEF S

\* The observations behind a role are observations of the evidence bound to it.
LEMMA ObservedIs ==
    ASSUME NEW m, NEW evidence, NEW role, IsFiniteSet({b \in m.bindings : b.role = role}),
           NEW O,
           \A b \in m.bindings : b.file \in Nat /\ EvidenceFor(b, evidence).obs \in Seq(O)
    PROVE  Observed(m, evidence, role) \in Seq(O)
<1> DEFINE bound == BoundTo(m, role)
           N == Len(bound)
           A == Seq(O)
           seen(n) == EvidenceFor(bound[n], evidence).obs
           g == [x \in (1..N) \X A |-> x[2] \o seen(x[1])]
           F(s) == [n \in 0..N |-> IF n = 0 THEN <<>> ELSE s[n - 1] \o seen(n)]
           s == CHOOSE s : s = F(s)
<1>0. Observed(m, evidence, role) = s[N]
  BY DEF Observed
<1>1. N \in Nat /\ \A n \in 1..N : seen(n) \in A
  <2>1. bound \in Seq({b \in m.bindings : b.role = role})
    BY BoundIs
  <2> HIDE DEF bound
  <2>2. N \in Nat /\ \A n \in 1..N : bound[n] \in m.bindings
    BY <2>1
  <2> QED
    BY <2>2
<1> HIDE DEF bound, N, seen
<1>2. <<>> \in A /\ \A n \in 1..N, a \in A : a \o seen(n) \in A
  BY <1>1
<1>3. s = F(s)
  <2>1. g \in [(1..N) \X A -> A]
    <3> HIDE DEF A
    <3> QED
      BY <1>2
  <2>2. PICK h \in [0..N -> A] : h[0] = <<>> /\ \A n \in 1..N : h[n] = g[<<n, h[n - 1]>>]
    <3> HIDE DEF g, A
    <3>1. IsStep(g, N, A)
      BY <2>1 DEF IsStep
    <3>2. \E h \in [0..N -> A] : Follows(h, g, <<>>, N)
      BY <1>1, <1>2, <3>1, Iterates
    <3> QED
      BY <3>2 DEF Follows
  <2> HIDE DEF A
  <2>3. \A n \in 1..N : h[n] = h[n - 1] \o seen(n)
    <3> SUFFICES ASSUME NEW n \in 1..N PROVE h[n] = h[n - 1] \o seen(n)
      OBVIOUS
    <3>1. n - 1 \in 0..N
      BY <1>1
    <3>2. h[n] = g[<<n, h[n - 1]>>]
      BY <2>2
    <3>3. h[n - 1] \in A
      BY <2>2, <3>1
    <3> QED
      BY <3>2, <3>3
  <2>4. h = F(h)
    <3>1. \A n \in 0..N : n = 0 \/ n \in 1..N
      BY <1>1
    <3> HIDE DEF g
    <3> QED
      BY <2>2, <2>3, <3>1
  <2> HIDE DEF F
  <2> QED
    BY <2>4
<1> HIDE DEF s, A
<1>4. s[0] = <<>> /\ \A n \in 1..N : s[n] = s[n - 1] \o seen(n)
  <2>1. 0 \in 0..N /\ \A n \in 1..N : n \in 0..N /\ n # 0
    BY <1>1
  <2> QED
    BY <1>3, <2>1
<1> DEFINE Typed == {n \in 0..N : s[n] \in A}
<1>5. 0 \in Typed
  BY <1>1, <1>2, <1>4
<1>6. ASSUME NEW n \in 1..N, n - 1 \in Typed PROVE n \in Typed
  <2>1. s[n - 1] \in A
    BY <1>6
  <2>2. s[n] \in A
    BY <1>2, <1>4, <2>1
  <2> QED
    BY <1>1, <2>2
<1> HIDE DEF Typed
<1>7. N \in Typed
  BY <1>1, <1>5, <1>6, Reaches
<1> QED
  BY <1>0, <1>7 DEF Typed, A

\* The runs of a metric are those of the observations of that metric.
RunOf(o) == [value |-> o.value, seed |-> IF o.seed = Textual THEN None ELSE o.seed]

LEMMA RunsAre ==
    ASSUME NEW O, NEW obs \in Seq(O), NEW metric
    PROVE  RawRuns(obs, metric) \in
             Seq({RunOf(obs[i]) : i \in {k \in DOMAIN obs : obs[k].metric = metric}})
<1> DEFINE R == {RunOf(obs[i]) : i \in {k \in DOMAIN obs : obs[k].metric = metric}}
           N == Len(obs)
           A == Seq(R)
           own(n) == obs[n].metric = metric
           next(n, a) == IF own(n) THEN Append(a, RunOf(obs[n])) ELSE a
           g == [x \in (1..N) \X A |-> next(x[1], x[2])]
           F(s) == [n \in 0..N |-> IF n = 0 THEN <<>> ELSE next(n, s[n - 1])]
           s == CHOOSE s : s = F(s)
<1>0. RawRuns(obs, metric) = s[N]
  BY DEF RawRuns, RunOf
<1>1. N \in Nat /\ \A n \in 1..N : own(n) => RunOf(obs[n]) \in R
  <2>1. N \in Nat /\ DOMAIN obs = 1..N
    OBVIOUS
  <2> HIDE DEF N
  <2> QED
    BY <2>1
<1> HIDE DEF R, N
<1>2. <<>> \in A /\ \A n \in 1..N, a \in A : next(n, a) \in A
  <2> SUFFICES ASSUME NEW n \in 1..N, NEW a \in A PROVE next(n, a) \in A
    OBVIOUS
  <2>1. ASSUME own(n) PROVE Append(a, RunOf(obs[n])) \in A
    BY <1>1, <2>1
  <2> QED
    BY <2>1
<1> HIDE DEF own, next
<1>3. s = F(s)
  <2>1. g \in [(1..N) \X A -> A]
    <3> HIDE DEF A
    <3> QED
      BY <1>2
  <2>2. PICK h \in [0..N -> A] : h[0] = <<>> /\ \A n \in 1..N : h[n] = g[<<n, h[n - 1]>>]
    <3> HIDE DEF g, A
    <3>1. IsStep(g, N, A)
      BY <2>1 DEF IsStep
    <3>2. \E h \in [0..N -> A] : Follows(h, g, <<>>, N)
      BY <1>1, <1>2, <3>1, Iterates
    <3> QED
      BY <3>2 DEF Follows
  <2> HIDE DEF A
  <2>3. \A n \in 1..N : h[n] = next(n, h[n - 1])
    <3> SUFFICES ASSUME NEW n \in 1..N PROVE h[n] = next(n, h[n - 1])
      OBVIOUS
    <3>1. n - 1 \in 0..N
      BY <1>1
    <3>2. h[n] = g[<<n, h[n - 1]>>]
      BY <2>2
    <3>3. h[n - 1] \in A
      BY <2>2, <3>1
    <3> QED
      BY <3>2, <3>3
  <2>4. h = F(h)
    <3>1. \A n \in 0..N : n = 0 \/ n \in 1..N
      BY <1>1
    <3> HIDE DEF g
    <3> QED
      BY <2>2, <2>3, <3>1
  <2> HIDE DEF F
  <2> QED
    BY <2>4
<1> HIDE DEF s, A
<1>4. s[0] = <<>> /\ \A n \in 1..N : s[n] = next(n, s[n - 1])
  <2>1. 0 \in 0..N /\ \A n \in 1..N : n \in 0..N /\ n # 0
    BY <1>1
  <2> QED
    BY <1>3, <2>1
<1> DEFINE Typed == {n \in 0..N : s[n] \in A}
<1>5. 0 \in Typed
  BY <1>1, <1>2, <1>4
<1>6. ASSUME NEW n \in 1..N, n - 1 \in Typed PROVE n \in Typed
  BY <1>1, <1>2, <1>4, <1>6
<1> HIDE DEF Typed
<1>7. N \in Typed
  BY <1>1, <1>5, <1>6, Reaches
<1> QED
  BY <1>0, <1>7 DEF Typed, A, R

-----------------------------------------------------------------------------------
(* A claimed improvement that the means reach is reached by two measurements.  *)

LEMMA TotalBounds ==
    ASSUME NEW R, NEW runs \in Seq(R), \A x \in R : x.value \in Int, Len(runs) > 0
    PROVE  /\ Total(runs) \in Int
           /\ \E i, j \in 1..Len(runs) : /\ Len(runs) * runs[i].value <= Total(runs)
                                         /\ Total(runs) <= Len(runs) * runs[j].value
<1> DEFINE v == [i \in DOMAIN runs |-> runs[i].value]
<1>1. DOMAIN runs = 1..Len(runs) /\ Len(runs) \in Nat /\ \A i \in 1..Len(runs) : runs[i] \in R
  OBVIOUS
<1>2. v \in [1..Len(runs) -> Int]
  BY <1>1
<1>3. v \in Seq(Int) /\ Len(v) = Len(runs)
  BY <1>1, <1>2
<1>4. Total(runs) = SumOf(v)
  BY DEF Total
<1>5. \A i \in 1..Len(runs) : v[i] = runs[i].value
  BY <1>1
<1> HIDE DEF v
<1>6. Total(runs) \in Int
  <2>1. PICK s : (\A n \in 0..Len(v) : s[n] \in Int) /\ SumOf(v) = s[Len(v)]
    BY <1>3, SumSteps
  <2> QED
    BY <1>1, <1>3, <1>4, <2>1
<1>7. \E i, j \in 1..Len(v) : Len(v) * v[i] <= SumOf(v) /\ SumOf(v) <= Len(v) * v[j]
  BY <1>3, SumBounds
<1> QED
  BY <1>3, <1>4, <1>5, <1>6, <1>7

LEMMA Cancels ==
    ASSUME NEW t \in Int, NEW d \in Int, NEW p \in Nat, p > 0, t * p <= d * p
    PROVE  t <= d
<1> SUFFICES ASSUME d + 1 <= t PROVE FALSE
  OBVIOUS
<1>1. (d + 1) * p <= t * p
  OBVIOUS
<1>2. (d + 1) * p = d * p + p
  OBVIOUS
<1>3. d * p \in Int /\ t * p \in Int
  OBVIOUS
<1> QED
  BY <1>1, <1>2, <1>3

LEMMA Apart ==
    ASSUME NEW l \in Nat, NEW h \in Nat, l > 0, h > 0, NEW low \in Int, NEW high \in Int,
           NEW v \in Int, NEW w \in Int, NEW t \in Int,
           l * v <= low, high <= h * w, t * (l * h) <= high * l - low * h
    PROVE  t <= w - v
<1>1. high * l <= (h * w) * l /\ (l * v) * h <= low * h
  OBVIOUS
<1>2. (h * w) * l = w * (l * h) /\ (l * v) * h = v * (l * h)
  OBVIOUS
<1> DEFINE p == l * h
<1>3. p \in Nat /\ p > 0
  OBVIOUS
<1>4. w * p - v * p = (w - v) * p
  BY <1>3
<1>5. high * l \in Int /\ low * h \in Int /\ w * p \in Int /\ v * p \in Int /\ t * p \in Int
  BY <1>3
<1>6. t * p <= w * p - v * p
  <2>1. high * l <= w * p /\ v * p <= low * h
    BY <1>1, <1>2
  <2> HIDE DEF p
  <2>2. t * p <= high * l - low * h
    BY DEF p
  <2> QED
    BY <1>5, <2>1, <2>2
<1> HIDE DEF p
<1> QED
  BY <1>3, <1>4, <1>6, Cancels

Reach(claim, v, w) ==
    claim.threshold <= (IF claim.higher THEN w - v ELSE v - w)

LEMMA GainReached ==
    ASSUME NEW R, \A x \in R : x.value \in Int,
           NEW b, NEW c, b.runs \in Seq(R), c.runs \in Seq(R), b.runs # <<>>, c.runs # <<>>,
           NEW claim, claim.threshold \in Int,
           ClaimFinding(b, c, claim).impact # "INVALIDATES"
    PROVE  \E i \in DOMAIN b.runs, j \in DOMAIN c.runs :
              Reach(claim, b.runs[i].value, c.runs[j].value)
<1> DEFINE m == Len(b.runs)
           n == Len(c.runs)
           B == Total(b.runs)
           C == Total(c.runs)
           t == claim.threshold
<1>1. /\ m \in Nat /\ m > 0 /\ DOMAIN b.runs = 1..m /\ \A i \in 1..m : b.runs[i].value \in Int
      /\ n \in Nat /\ n > 0 /\ DOMAIN c.runs = 1..n /\ \A i \in 1..n : c.runs[i].value \in Int
  OBVIOUS
<1>2. B \in Int /\ C \in Int
  BY <1>1, TotalBounds
<1>3. PICK bl \in 1..m, bh \in 1..m : m * b.runs[bl].value <= B /\ B <= m * b.runs[bh].value
  BY <1>1, TotalBounds
<1>4. PICK cl \in 1..n, ch \in 1..n : n * c.runs[cl].value <= C /\ C <= n * c.runs[ch].value
  BY <1>1, TotalBounds
<1>5. Gain(b, c, claim) >= t * Pairs(b, c)
  BY DEF ClaimFinding, Found
<1>6. Pairs(b, c) = m * n /\ Gain(b, c, claim) = IF claim.higher THEN C * m - B * n ELSE -(C * m - B * n)
  BY DEF Pairs, Gain
<1> HIDE DEF m, n, B, C
<1>7. CASE claim.higher
  <2>1. t * (m * n) <= C * m - B * n
    BY <1>1, <1>2, <1>5, <1>6, <1>7
  <2> HIDE DEF t
  <2>2. t <= c.runs[ch].value - b.runs[bl].value
    BY <1>1, <1>2, <1>3, <1>4, <2>1, Apart DEF t
  <2> QED
    BY <1>1, <1>7, <2>2 DEF Reach, t
<1>8. CASE ~claim.higher
  <2>1. t * (n * m) <= B * n - C * m
    BY <1>1, <1>2, <1>5, <1>6, <1>8
  <2> HIDE DEF t
  <2>2. t <= b.runs[bh].value - c.runs[cl].value
    BY <1>1, <1>2, <1>3, <1>4, <2>1, Apart DEF t
  <2> QED
    BY <1>1, <1>8, <2>2 DEF Reach, t
<1> QED
  BY <1>7, <1>8

-----------------------------------------------------------------------------------
(* What findings that neither invalidate nor withhold say of the results.    *)

Harmless(fs) == \A f \in fs : f.impact \notin {"INVALIDATES", "INSUFFICIENT"}

LEMMA SupportIsHarmless ==
    ASSUME NEW fs, Verdict(fs) = "SUPPORTED"
    PROVE  Harmless(fs)
  BY DEF Verdict, Harmless

LEMMA HarmfulIf ==
    ASSUME NEW condition, NEW f, Harmless(If(condition, f)),
           f.impact \in {"INVALIDATES", "INSUFFICIENT"}
    PROVE  ~condition
  BY DEF Harmless, If

\* Measurements of the metric in one role's observations.
Figures(obs, metric) ==
    {obs[i].value : i \in {k \in DOMAIN obs : obs[k].metric = metric}}

Numbered(obs) ==
    /\ \E O : obs \in Seq(O)
    /\ \A i \in DOMAIN obs : obs[i].metric # Absent => obs[i].value \in Int

\* Both roles measured the metric alone, and two of their values reach the claim.
ReachedBy(obs, claim) ==
    /\ claim.metric # Absent /\ \A x \in Compared : Identities(obs[x]) = {claim.metric}
    /\ \E v \in Figures(obs["baseline"], claim.metric),
          w \in Figures(obs["candidate"], claim.metric) : Reach(claim.audit, v, w)

LEMMA OwnRuns ==
    ASSUME NEW obs, Numbered(obs), NEW metric, metric # Absent
    PROVE  \E R : /\ RawRuns(obs, metric) \in Seq(R)
                  /\ \A x \in R : x.value \in Int /\ x.value \in Figures(obs, metric)
<1> DEFINE R == {RunOf(obs[i]) : i \in {k \in DOMAIN obs : obs[k].metric = metric}}
<1>1. PICK O : obs \in Seq(O)
  BY DEF Numbered
<1>2. RawRuns(obs, metric) \in Seq(R)
  BY <1>1, RunsAre
<1>3. \A x \in R : x.value \in Int /\ x.value \in Figures(obs, metric)
  BY DEF Numbered, RunOf, Figures
<1> QED
  BY <1>2, <1>3

LEMMA OwnMetric ==
    ASSUME NEW role, NEW obs, NEW metric, Harmless(RawIssues(role, obs, metric)),
           Identities(obs) # {}
    PROVE  /\ metric # Absent /\ Identities(obs) = {metric}
           /\ RawRuns(obs, metric) # <<>>
<1>1. /\ Harmless(If(Identities(obs) \ {metric} # {},
                     Found("BENCHMARK.METRIC_MISMATCH", role, "INVALIDATES")))
      /\ Harmless(If(RawRuns(obs, metric) = <<>>, Insufficient(role)))
  BY DEF RawIssues, Harmless
<1>2. /\ Found("BENCHMARK.METRIC_MISMATCH", role, "INVALIDATES").impact = "INVALIDATES"
      /\ Insufficient(role).impact = "INSUFFICIENT"
  BY DEF Found, Insufficient
<1>3. ~(Identities(obs) \ {metric} # {})
  BY <1>1, <1>2, HarmfulIf
<1>4. ~(RawRuns(obs, metric) = <<>>)
  BY <1>1, <1>2, HarmfulIf
<1>5. Absent \notin Identities(obs)
  BY DEF Identities
<1> QED
  BY <1>3, <1>4, <1>5

LEMMA RawReach ==
    ASSUME NEW obs, NEW claim, \A x \in Compared : Numbered(obs[x]),
           \A x \in Compared : Identities(obs[x]) # {}, claim.audit.threshold \in Int,
           Harmless(RawFindings(obs, claim))
    PROVE  ReachedBy(obs, claim)
<1> DEFINE results == RawSeries(obs, claim)
           b == results["baseline"]
           c == results["candidate"]
<1>1. \A x \in Compared : Harmless(RawIssues(x, obs[x], claim.metric))
  BY DEF RawFindings, Harmless
<1>2. \A x \in Compared : /\ claim.metric # Absent /\ Identities(obs[x]) = {claim.metric}
                          /\ RawRuns(obs[x], claim.metric) # <<>>
  BY <1>1, OwnMetric
<1>3. /\ \A x \in Compared : results[x].runs = RawRuns(obs[x], claim.metric)
      /\ "baseline" \in Compared /\ "candidate" \in Compared
  BY DEF RawSeries, Compared
<1>4. Measured(results)
  BY <1>2, <1>3 DEF Measured
<1>5. RunFindings(b, c, claim.audit) \subseteq RawFindings(obs, claim)
  BY <1>4 DEF RawFindings
<1>6. ClaimFinding(b, c, claim.audit) \in RunFindings(b, c, claim.audit)
  BY DEF RunFindings
<1>7. ClaimFinding(b, c, claim.audit).impact # "INVALIDATES"
  BY <1>5, <1>6 DEF Harmless
<1>0. claim.metric # Absent
  BY <1>2, <1>3
<1>8. PICK P : /\ b.runs \in Seq(P)
               /\ \A x \in P : x.value \in Int
                                /\ x.value \in Figures(obs["baseline"], claim.metric)
  BY <1>0, <1>3, OwnRuns
<1>9. PICK Q : /\ c.runs \in Seq(Q)
               /\ \A x \in Q : x.value \in Int
                                /\ x.value \in Figures(obs["candidate"], claim.metric)
  BY <1>0, <1>3, OwnRuns
<1>10. b.runs # <<>> /\ c.runs # <<>>
  BY <1>2, <1>3
<1> HIDE DEF results, b, c
<1>11. b.runs \in Seq(P \cup Q) /\ c.runs \in Seq(P \cup Q)
  BY <1>8, <1>9
<1>12. \A x \in P \cup Q : x.value \in Int
  BY <1>8, <1>9
<1>13. PICK i \in DOMAIN b.runs, j \in DOMAIN c.runs :
          Reach(claim.audit, b.runs[i].value, c.runs[j].value)
  BY <1>7, <1>10, <1>11, <1>12, GainReached
<1>14. b.runs[i] \in P /\ c.runs[j] \in Q
  BY <1>8, <1>9, <1>13
<1> QED
  BY <1>0, <1>2, <1>8, <1>9, <1>13, <1>14 DEF ReachedBy

\* Aggregates that the claim compares.
LEMMA AggregatesReach ==
    ASSUME NEW v \in Int, NEW w \in Int, NEW claim, claim.threshold \in Int,
           Harmless(AggregateFindings(v, w, claim))
    PROVE  Reach(claim, v, w)
<1> DEFINE R == {[value |-> v, seed |-> None], [value |-> w, seed |-> None]}
           b == Aggregate(v)
           c == Aggregate(w)
<1>1. \A x \in R : x.value \in Int
  OBVIOUS
<1>2. /\ b.runs = <<[value |-> v, seed |-> None]>>
      /\ c.runs = <<[value |-> w, seed |-> None]>>
  BY DEF Aggregate
<1>3. ClaimFinding(b, c, claim).impact # "INVALIDATES"
  BY DEF AggregateFindings, Harmless
<1> HIDE DEF b, c
<1>4. b.runs \in Seq(R) /\ c.runs \in Seq(R) /\ b.runs # <<>> /\ c.runs # <<>>
  BY <1>2
<1>5. /\ DOMAIN b.runs = {1} /\ b.runs[1].value = v
      /\ DOMAIN c.runs = {1} /\ c.runs[1].value = w
  BY <1>2
<1> HIDE DEF R
<1>6. PICK i \in DOMAIN b.runs, j \in DOMAIN c.runs :
         Reach(claim, b.runs[i].value, c.runs[j].value)
  BY <1>1, <1>3, <1>4, GainReached
<1> QED
  BY <1>5, <1>6

LEMMA ScalarFigures ==
    ASSUME NEW obs, Numbered(obs), NEW metric, metric # Absent,
           NEW v \in Scalars(obs, metric)
    PROVE  v \in Int /\ v \in Figures(obs, metric)
<1>1. PICK R : /\ RawRuns(obs, metric) \in Seq(R)
               /\ \A x \in R : x.value \in Int /\ x.value \in Figures(obs, metric)
  BY OwnRuns
<1> DEFINE runs == RawRuns(obs, metric)
<1>2. Len(runs) = 1 /\ v = runs[1].value
  BY DEF Scalars
<1> HIDE DEF runs
<1>3. runs[1] \in R
  BY <1>1, <1>2 DEF runs
<1> QED
  BY <1>1, <1>2, <1>3

LEMMA ReportedReach ==
    ASSUME NEW values, NEW obs, NEW claim, \A x \in Compared : Numbered(obs[x]),
           \A x \in Compared : Identities(obs[x]) # {}, claim.audit.threshold \in Int,
           Harmless(ReportedFindings(values, obs, claim))
    PROVE  ReachedBy(obs, claim)
<1> DEFINE value(x) == CHOOSE v \in Scalars(obs[x], claim.metric) : TRUE
           comparable ==
             /\ \A x \in Compared : /\ Given(values[x], Protocol("sample_count"))
                                    /\ Scalars(obs[x], claim.metric) # {}
             /\ Given(values["baseline"], Protocol("statistic"))
             /\ Given(values["baseline"], Protocol("aggregation"))
             /\ ~GainOverflows(Aggregate(value("baseline")), Aggregate(value("candidate")),
                               claim.audit)
           issues == UNION {ScalarIssues(x, obs[x], claim.metric) : x \in Compared}
           compared == AggregateFindings(value("baseline"), value("candidate"), claim.audit)
<1>1. ReportedFindings(values, obs, claim) =
        issues \cup (IF comparable THEN compared ELSE {Insufficient("aggregate")})
  BY DEF ReportedFindings
<1>2. "baseline" \in Compared /\ "candidate" \in Compared
  BY DEF Compared
<1>3. comparable => \A x \in Compared : Scalars(obs[x], claim.metric) # {}
  OBVIOUS
<1>4. \A x \in Compared : RawIssues(x, obs[x], claim.metric) \subseteq issues
  BY DEF ScalarIssues
<1> HIDE DEF comparable, issues, compared
<1>5. Insufficient("aggregate").impact = "INSUFFICIENT"
  BY DEF Insufficient, Found
<1>6. comparable
  BY <1>1, <1>5 DEF Harmless
<1>7. Harmless(issues) /\ Harmless(compared)
  BY <1>1, <1>6 DEF Harmless
<1>8. \A x \in Compared : claim.metric # Absent /\ Identities(obs[x]) = {claim.metric}
  <2> SUFFICES ASSUME NEW x \in Compared
               PROVE  claim.metric # Absent /\ Identities(obs[x]) = {claim.metric}
    OBVIOUS
  <2>1. Harmless(RawIssues(x, obs[x], claim.metric))
    BY <1>4, <1>7 DEF Harmless
  <2> QED
    BY <2>1, OwnMetric
<1>9. \A x \in Compared : value(x) \in Scalars(obs[x], claim.metric)
  BY <1>3, <1>6
<1> HIDE DEF value
<1>10. \A x \in Compared : value(x) \in Int /\ value(x) \in Figures(obs[x], claim.metric)
  BY <1>8, <1>9, ScalarFigures
<1>11. Reach(claim.audit, value("baseline"), value("candidate"))
  BY <1>2, <1>7, <1>10, AggregatesReach DEF compared
<1> QED
  BY <1>2, <1>8, <1>10, <1>11 DEF ReachedBy

LEMMA DerivedReach ==
    ASSUME NEW values, NEW obs, NEW claim, \A x \in Compared : Numbered(obs[x]),
           \A x \in Compared : Identities(obs[x]) # {}, claim.audit.threshold \in Int,
           Harmless(DerivedFindings(values, obs, claim))
    PROVE  ReachedBy(obs, claim)
<1> DEFINE derived(x) == Derived(values[x], obs[x], claim.metric)
           value(x) == CHOOSE v \in derived(x) : TRUE
           issues(x) == DerivationIssues(x, values[x], obs[x], claim.metric)
           comparable == \A x \in Compared : derived(x) # {}
           compared == AggregateFindings(value("baseline"), value("candidate"), claim.audit)
<1>1. DerivedFindings(values, obs, claim) =
        (UNION {issues(x) : x \in Compared}) \cup (IF comparable THEN compared ELSE {})
  BY DEF DerivedFindings
<1>2. "baseline" \in Compared /\ "candidate" \in Compared
  BY DEF Compared
<1>3. \A x \in Compared : Harmless(issues(x))
  <2> HIDE DEF issues, comparable, compared
  <2> QED
    BY <1>1 DEF Harmless
<1>4. ASSUME NEW x \in Compared
      PROVE  /\ derived(x) # {} /\ derived(x) = Scalars(obs[x], claim.metric)
             /\ claim.metric # Absent /\ Identities(obs[x]) = {claim.metric}
  <2> DEFINE product == Product(values[x])
             scalars == Scalars(obs[x], claim.metric)
             found == Found("BENCHMARK.DERIVATION_MISMATCH", x, "INVALIDATES")
  <2>1. issues(x) = (IF product = {} THEN {} ELSE ScalarIssues(x, obs[x], claim.metric))
                    \cup (IF derived(x) = {} THEN {Insufficient(x)}
                          ELSE If(product # scalars, found))
    BY DEF DerivationIssues
  <2>2. derived(x) = IF scalars = {} THEN {} ELSE product
    BY DEF Derived
  <2>3. Insufficient(x).impact = "INSUFFICIENT" /\ found.impact = "INVALIDATES"
    BY DEF Insufficient, Found
  <2>4. RawIssues(x, obs[x], claim.metric) \subseteq ScalarIssues(x, obs[x], claim.metric)
    BY DEF ScalarIssues
  <2> HIDE DEF product, scalars, found, derived, issues
  <2>5. derived(x) # {}
    BY <1>3, <2>1, <2>3 DEF Harmless
  <2>6. product # {} /\ derived(x) = product
    BY <2>2, <2>5
  <2>7. Harmless(If(product # scalars, found))
    BY <1>3, <2>1, <2>5 DEF Harmless
  <2>8. ~(product # scalars)
    BY <2>3, <2>7, HarmfulIf
  <2>9. Harmless(RawIssues(x, obs[x], claim.metric))
    BY <1>3, <2>1, <2>4, <2>6 DEF Harmless
  <2> QED
    BY <2>5, <2>6, <2>8, <2>9, OwnMetric DEF scalars
<1>5. Harmless(compared)
  <2>1. comparable
    BY <1>4
  <2> HIDE DEF comparable, compared, issues
  <2> QED
    BY <1>1, <2>1 DEF Harmless
<1>6. \A x \in Compared : value(x) \in Scalars(obs[x], claim.metric)
  BY <1>4
<1> HIDE DEF value
<1>7. \A x \in Compared : value(x) \in Int /\ value(x) \in Figures(obs[x], claim.metric)
  BY <1>4, <1>6, ScalarFigures
<1>8. Reach(claim.audit, value("baseline"), value("candidate"))
  BY <1>2, <1>5, <1>7, AggregatesReach DEF compared
<1> QED
  BY <1>2, <1>4, <1>7, <1>8 DEF ReachedBy

-----------------------------------------------------------------------------------
(* What the protocol of a comparison without a mismatch is.                  *)

Told == Compared \cup {"reference"}

LEMMA OneProcedure ==
    ASSUME NEW values, NEW variant, \A x \in Told : ~ProjectionConflicts(values[x]),
           ProtocolMismatches(values, variant) = {},
           NEW x \in Told, NEW y \in Told, NEW p \in values[x], NEW q \in values[y],
           p[1] = q[1], p[1][1] \in ComparedSlots, p[1] \notin MayDiffer(variant)
    PROVE  p = q
<1> DEFINE slot == p[1][1]
           P(z) == Procedure(slot, values[z], variant)
           b == InEffect(slot, values, "baseline", variant)
           c == InEffect(slot, values, "candidate", variant)
<1>1. p \in P(x) /\ q \in P(y)
  BY DEF Procedure
<1>2. ASSUME NEW z \in Told, NEW s \in P(z), NEW t \in P(z), s[1] = t[1] PROVE s = t
  BY <1>2 DEF Procedure, ProjectionConflicts
<1>3. /\ ~(b # {} /\ c # {} /\ b # c)
      /\ \A r \in Compared : ~ContradictsShared(slot, values, r, variant)
  <2> DEFINE found(r) == Found(MismatchRule(slot), r, "INVALIDATES")
             between == If(b # {} /\ c # {} /\ b # c, found(slot))
             against == {found(r) : r \in {s \in Compared :
                                             ContradictsShared(slot, values, s, variant)}}
  <2>1. between \cup against \subseteq ProtocolMismatches(values, variant)
    BY DEF ProtocolMismatches
  <2>2. between = {} /\ against = {}
    <3> HIDE DEF between, against
    <3> QED
      BY <2>1
  <2>3. ~(b # {} /\ c # {} /\ b # c)
    <3> HIDE DEF b, c, found
    <3> QED
      BY <2>2 DEF If
  <2>4. \A r \in Compared : ~ContradictsShared(slot, values, r, variant)
    <3> HIDE DEF found
    <3> QED
      BY <2>2
  <2> QED
    BY <2>3, <2>4
<1>4. /\ b = Overlaid(P("reference"), P("baseline"))
      /\ c = Overlaid(P("reference"), P("candidate"))
  BY DEF InEffect
<1>5. \A r \in Compared : \A s \in P("reference"), t \in P(r) : s[1] = t[1] => s = t
  BY <1>3 DEF ContradictsShared
<1>6. ASSUME NEW s \in P("baseline"), NEW t \in P("candidate"), s[1] = t[1] PROVE s = t
  <2>1. s \in b /\ t \in c
    BY <1>4 DEF Overlaid
  <2>2. b = c
    BY <1>3, <2>1
  <2>3. s \in P("candidate") \/ ~Given(P("candidate"), s[1])
    BY <1>4, <2>1, <2>2 DEF Overlaid
  <2>4. s \in P("candidate")
    BY <1>6, <2>3 DEF Given
  <2> QED
    BY <1>2, <1>6, <2>4 DEF Told, Compared
<1> HIDE DEF P, b, c
<1>7. x \in {"baseline", "candidate", "reference"} /\ y \in {"baseline", "candidate", "reference"}
  BY DEF Told, Compared
<1>8. CASE x = y
  BY <1>1, <1>2, <1>8
<1>9. CASE x = "reference" /\ y # x
  BY <1>1, <1>5, <1>7, <1>9 DEF Compared
<1>10. CASE y = "reference" /\ y # x
  BY <1>1, <1>5, <1>7, <1>10 DEF Compared
<1>11. CASE x = "baseline" /\ y = "candidate"
  BY <1>1, <1>6, <1>11
<1>12. CASE x = "candidate" /\ y = "baseline"
  BY <1>1, <1>6, <1>12
<1> QED
  BY <1>7, <1>8, <1>9, <1>10, <1>11, <1>12

-----------------------------------------------------------------------------------
(* Which findings a drift report refers to.                                  *)

MismatchRules ==
    {"DATASET.EVALUATION_MISMATCH", "CONFIG.EVALUATION_MISMATCH",
     "BENCHMARK.WORKLOAD_MISMATCH", "BENCHMARK.METRIC_MISMATCH", "BENCHMARK.CONFIG_MISMATCH"}

Graded(fs) == \A f \in fs : f.rule \in MismatchRules => f.impact = "INVALIDATES"

LEMMA GradedFinding ==
    ASSUME NEW condition, NEW rule, NEW x, NEW impact,
           rule \notin MismatchRules \/ impact = "INVALIDATES"
    PROVE  Graded(If(condition, Found(rule, x, impact))) /\ Graded({Found(rule, x, impact)})
  BY DEF Graded, If, Found

LEMMA GradedTogether ==
    ASSUME NEW S, NEW T, Graded(S), Graded(T)
    PROVE  Graded(S \cup T)
  BY DEF Graded

LEMMA GradedProtocol ==
    ASSUME NEW values, NEW obs, NEW variant
    PROVE  Graded(ProtocolFindings(values, obs, variant))
<1>1. Graded(ProtocolMismatches(values, variant))
  BY DEF ProtocolMismatches, Graded, If, Found
<1> DEFINE same == /\ Identities(obs["baseline"]) = Identities(obs["candidate"])
                   /\ Cardinality(Identities(obs["baseline"])) = 1
           verified == If(ProtocolMismatches(values, variant) = {} /\ same,
                          Found("BENCHMARK.PROTOCOL_VERIFIED", "both", "NONE"))
<1>2. Graded(verified)
  <2> HIDE DEF same
  <2> QED
    BY GradedFinding DEF MismatchRules
<1>3. ProtocolFindings(values, obs, variant) = ProtocolMismatches(values, variant) \cup verified
  BY DEF ProtocolFindings
<1> QED
  BY <1>1, <1>2, <1>3, GradedTogether

LEMMA GradedInsufficient == \A x : Graded({Insufficient(x)})
  BY GradedFinding DEF Insufficient, MismatchRules

LEMMA GradedIssues ==
    ASSUME NEW role, NEW obs, NEW metric
    PROVE  Graded(RawIssues(role, obs, metric)) /\ Graded(ScalarIssues(role, obs, metric))
  BY DEF Graded, RawIssues, ScalarIssues, If, Insufficient, Found, MismatchRules

LEMMA GradedComparison ==
    ASSUME NEW b, NEW c, NEW claim
    PROVE  Graded({ClaimFinding(b, c, claim)})
  BY DEF Graded, ClaimFinding, Found, MismatchRules

LEMMA GradedRuns ==
    ASSUME NEW b, NEW c, NEW claim
    PROVE  Graded(RunFindings(b, c, claim))
<1> DEFINE issues == SeedIssues("baseline", b) \cup SeedIssues("candidate", c)
                     \cup If(Imbalanced(Len(b.runs), Len(c.runs)),
                             Found("SEED.IMBALANCE", "both", "NONE"))
           told == {Found("RESULT.RECOMPUTED", "both", "NONE")}
                   \cup If(Mismatches(b), Found("RESULT.SUMMARY_MISMATCH", "baseline", "INVALIDATES"))
                   \cup If(Mismatches(c), Found("RESULT.SUMMARY_MISMATCH", "candidate", "INVALIDATES"))
           verified == If(issues = {}, Found("SEED.EVIDENCE_VERIFIED", "both", "NONE"))
<1>1. Graded(issues)
  BY DEF Graded, SeedIssues, If, Found, MismatchRules
<1>2. Graded(told)
  BY DEF Graded, If, Found, MismatchRules
<1>3. Graded(verified)
  <2> HIDE DEF issues
  <2> QED
    BY GradedFinding DEF MismatchRules
<1>4. RunFindings(b, c, claim) = issues \cup told \cup verified \cup {ClaimFinding(b, c, claim)}
  <2> HIDE DEF issues
  <2> QED
    BY DEF RunFindings, issues
<1> HIDE DEF issues, told, verified
<1> QED
  BY <1>1, <1>2, <1>3, <1>4, GradedComparison DEF Graded

LEMMA GradedAggregates ==
    ASSUME NEW v, NEW w, NEW claim
    PROVE  Graded(AggregateFindings(v, w, claim))
<1>1. AggregateFindings(v, w, claim) =
        {Found("RESULT.AGGREGATE_VERIFIED", "both", "NONE")}
        \cup {ClaimFinding(Aggregate(v), Aggregate(w), claim)}
  BY DEF AggregateFindings
<1>2. Graded({Found("RESULT.AGGREGATE_VERIFIED", "both", "NONE")})
  BY GradedFinding DEF MismatchRules
<1> QED
  BY <1>1, <1>2, GradedComparison, GradedTogether

LEMMA GradedForms ==
    ASSUME NEW values, NEW obs, NEW claim
    PROVE  /\ Graded(RawFindings(obs, claim))
           /\ Graded(ReportedFindings(values, obs, claim))
           /\ Graded(DerivedFindings(values, obs, claim))
<1>1. Graded(RawFindings(obs, claim))
  BY GradedIssues, GradedRuns DEF RawFindings, Graded
<1>2. Graded(ReportedFindings(values, obs, claim))
  BY GradedIssues, GradedAggregates, GradedInsufficient DEF ReportedFindings, Graded
<1>3. ASSUME NEW x PROVE Graded(DerivationIssues(x, values[x], obs[x], claim.metric))
  <2> DEFINE found == If(Product(values[x]) # Scalars(obs[x], claim.metric),
                         Found("BENCHMARK.DERIVATION_MISMATCH", x, "INVALIDATES"))
  <2>1. Graded(found)
    BY GradedFinding
  <2>2. DerivationIssues(x, values[x], obs[x], claim.metric) \subseteq
          ScalarIssues(x, obs[x], claim.metric) \cup {Insufficient(x)} \cup found
    BY DEF DerivationIssues
  <2> HIDE DEF found
  <2> QED
    BY <2>1, <2>2, GradedIssues, GradedInsufficient DEF Graded
<1>4. Graded(DerivedFindings(values, obs, claim))
  BY <1>3, GradedAggregates DEF DerivedFindings, Graded
<1> QED
  BY <1>1, <1>2, <1>4

\* A difference that the report calls invalidating has a finding behind it.
LEMMA DriftHasFinding ==
    ASSUME NEW baseline, NEW candidate, NEW rules,
           Drift(baseline, candidate, rules) = "invalidates"
    PROVE  rules \cap MismatchRules # {}
<1> DEFINE states == {State(k, baseline[k], candidate[k], rules) : k \in DOMAIN baseline}
<1>1. "invalidates" \in states
  <2> HIDE DEF states
  <2> QED
    BY DEF Drift, states
<1>2. PICK k \in DOMAIN baseline : State(k, baseline[k], candidate[k], rules) = "invalidates"
  BY <1>1
<1>3. rules \cap Invalidating(k) # {}
  BY <1>2 DEF State
<1>4. Invalidating(k) \subseteq MismatchRules
  BY DEF Invalidating, MismatchRules
<1> QED
  BY <1>3, <1>4

-----------------------------------------------------------------------------------
(* What is bound to a role of a plan that is ready.                          *)

\* A binding of a plan that is ready stands for evidence of its own file.
LEMMA MappedFor ==
    ASSUME Wellformed, Planned, plan.state = "ready", NEW b \in Mapped.bindings
    PROVE  /\ IsBinding(b) /\ EvidenceFor(b, repo.evidence) \in repo.evidence
           /\ \E e \in repo.evidence : e.file = b.file /\ e.kind = b.kind
                                       /\ e.adapter = b.adapter /\ e.fields = b.fields
<1> DEFINE r == Request(Discovery)
           e == EvidenceFor(b, r.evidence)
<1>1. Revalidatable(Mapped, r, plan.profile) /\ IsMapping(Mapped)
  BY MappedIs
<1>2. Held(b, r.evidence) = {e}
  BY <1>1, RevalidatedBinding
<1>3. r.evidence \subseteq repo.evidence
  BY RequestFields DEF Relevant
<1> HIDE DEF r, e
<1>4. /\ e \in repo.evidence /\ e.file = b.file /\ e.kind = b.kind
      /\ e.adapter = b.adapter /\ e.fields = b.fields
  BY <1>2, <1>3 DEF Held, Exact
<1>5. e \in Matches(b, repo.evidence)
  BY <1>4 DEF Matches
<1>6. EvidenceFor(b, repo.evidence) \in Matches(b, repo.evidence)
  BY <1>5 DEF EvidenceFor
<1> QED
  BY <1>1, <1>4, <1>6 DEF IsMapping, Matches

LEMMA FinitelyMany ==
    ASSUME Wellformed, Planned, plan.state = "ready", NEW role
    PROVE  IsFiniteSet({b \in Mapped.bindings : b.role = role})
<1> DEFINE T == (repo.evidence \X (Splits \cup {Absent})) \X Provenances
           made(e, split, prov) ==
             [file |-> e.file, kind |-> e.kind, role |-> role, split |-> split,
              adapter |-> e.adapter, fields |-> e.fields, prov |-> prov]
           f == [t \in T |-> made(t[1][1], t[1][2], t[2])]
           image == {f[t] : t \in T}
           S == {b \in Mapped.bindings : b.role = role}
<1>1. IsFiniteSet(Splits \cup {Absent}) /\ IsFiniteSet(Provenances)
  <2>1. \A x : IsFiniteSet({x})
    BY FS_Singleton
  <2>2. IsFiniteSet({"train"} \cup {"eval"})
    BY <2>1, FS_Union
  <2>3. IsFiniteSet(Splits \cup {Absent})
    BY <2>1, <2>2, FS_AddElement DEF Splits
  <2>4. IsFiniteSet({"discovery"} \cup {"adapter"})
    BY <2>1, FS_Union
  <2>5. IsFiniteSet(({"discovery"} \cup {"adapter"}) \cup {"manifest"})
    BY <2>4, FS_AddElement
  <2>6. IsFiniteSet((({"discovery"} \cup {"adapter"}) \cup {"manifest"}) \cup {"provider"})
    BY <2>5, FS_AddElement
  <2>7. Provenances =
          (((({"discovery"} \cup {"adapter"}) \cup {"manifest"}) \cup {"provider"})
           \cup {"human"})
    BY DEF Provenances
  <2>8. IsFiniteSet(Provenances)
    BY <2>6, <2>7, FS_AddElement
  <2> QED
    BY <2>3, <2>8
<1>2. IsFiniteSet(T)
  <2>1. IsFiniteSet(repo.evidence)
    BY DEF Wellformed
  <2> DEFINE U == Splits \cup {Absent}
  <2> HIDE DEF U
  <2>2. IsFiniteSet(repo.evidence \X U)
    BY <1>1, <2>1, FS_Product DEF U
  <2> QED
    BY <1>1, <2>2, FS_Product DEF U
<1>3. S \subseteq image
  <2> SUFFICES ASSUME NEW b \in Mapped.bindings, b.role = role PROVE b \in image
    OBVIOUS
  <2>1. PICK e \in repo.evidence : e.file = b.file /\ e.kind = b.kind
                                   /\ e.adapter = b.adapter /\ e.fields = b.fields
    BY MappedFor
  <2>2. IsBinding(b)
    BY MappedFor
  <2>3. b.split \in Splits \cup {Absent} /\ b.prov \in Provenances
    BY <2>2 DEF IsBinding
  <2>4. b = [file |-> b.file, kind |-> b.kind, role |-> b.role, split |-> b.split,
             adapter |-> b.adapter, fields |-> b.fields, prov |-> b.prov]
    BY <2>2 DEF IsBinding
  <2>5. b = made(e, b.split, b.prov)
    BY <2>1, <2>4
  <2> DEFINE t == <<<<e, b.split>>, b.prov>>
  <2>6. t \in T /\ t[1][1] = e /\ t[1][2] = b.split /\ t[2] = b.prov
    BY <2>1, <2>3
  <2> HIDE DEF t, T, made
  <2>7. f[t] = made(e, b.split, b.prov)
    BY <2>6
  <2> QED
    BY <2>5, <2>6, <2>7
<1> HIDE DEF T, made
<1>4. f \in Surjection(T, image)
  BY DEF Surjection
<1> HIDE DEF f, image
<1>5. IsFiniteSet(image)
  BY <1>2, <1>4, FS_Surjection
<1> QED
  BY <1>3, <1>5, FS_Subset

LEMMA MappedObservations ==
    ASSUME Wellformed, Planned, plan.state = "ready", NEW role
    PROVE  Numbered(Observed(Mapped, repo.evidence, role))
<1> DEFINE O == UNION {{e.obs[i] : i \in DOMAIN e.obs} : e \in repo.evidence}
           obs == Observed(Mapped, repo.evidence, role)
<1>1. \A e \in repo.evidence : e.obs \in Seq(O)
  <2> SUFFICES ASSUME NEW e \in repo.evidence PROVE e.obs \in Seq(O)
    OBVIOUS
  <2> DEFINE own == {e.obs[i] : i \in DOMAIN e.obs}
  <2>1. e.obs \in Seq(own)
    BY DEF Wellformed, IsEvidence
  <2>2. own \subseteq O
    OBVIOUS
  <2> HIDE DEF own, O
  <2> QED
    BY <2>1, <2>2
<1>2. \A o \in O : o.metric # Absent => o.value \in Int
  <2> SUFFICES ASSUME NEW e \in repo.evidence, NEW i \in DOMAIN e.obs
               PROVE  e.obs[i].metric # Absent => e.obs[i].value \in Int
    OBVIOUS
  <2>1. IsEvidence(e)
    BY DEF Wellformed
  <2> QED
    BY <2>1 DEF IsEvidence
<1>3. \A b \in Mapped.bindings :
        b.file \in Nat /\ EvidenceFor(b, repo.evidence).obs \in Seq(O)
  <2> HIDE DEF O
  <2> QED
    BY <1>1, MappedFor DEF Wellformed, IsEvidence
<1> HIDE DEF O
<1>4. obs \in Seq(O)
  BY <1>3, FinitelyMany, ObservedIs
<1> HIDE DEF obs
<1>5. \A i \in DOMAIN obs : obs[i] \in O
  BY <1>4
<1> QED
  BY <1>2, <1>4, <1>5 DEF Numbered, obs

-----------------------------------------------------------------------------------
(* The Audit of a benchmark.                                                 *)

LEMMA AuditSays ==
    ASSUME NEW claim, NEW m, NEW profile, NEW evidence,
           AuditBenchmark(claim, m, profile, evidence) # NoAudit,
           claim.threshold => claim.audit.threshold \in Int,
           NEW obs, obs = [x \in Told |-> Observed(m, evidence, x)],
           \A x \in Told : Numbered(obs[x])
    PROVE  LET a == AuditBenchmark(claim, m, profile, evidence)
               values == [x \in Told |-> Projection(obs[x])]
           IN  /\ claim.audit.threshold \in Int
               /\ a.verdict = "SUPPORTED" =>
                    /\ ReachedBy(obs, claim)
                    /\ \A x \in Told : ~ProjectionConflicts(values[x])
                    /\ ProtocolMismatches(values, profile.variant) = {}
               /\ a.drift = "invalidates" => a.verdict = "NOT_SUPPORTED"
<1> DEFINE a == AuditBenchmark(claim, m, profile, evidence)
           values == [x \in Told |-> Projection(obs[x])]
           variant == profile.variant
           protocol == ProtocolFindings(values, obs, variant)
           checked == CASE profile.form = {"raw_run_series"} -> RawFindings(obs, claim)
                        [] profile.form = {"reported_aggregate"} ->
                             ReportedFindings(values, obs, claim)
                        [] OTHER -> DerivedFindings(values, obs, claim)
           findings == protocol \cup checked
           rules == {f.rule : f \in findings}
           effective(x) == [slot \in ComparedSlots |-> InEffect(slot, values, x, variant)]
           metric(x) == CHOOSE i \in Identities(obs[x]) : TRUE
           fails == \/ ~profile.complete \/ ~claim.threshold
                    \/ \E x \in Told : ProjectionConflicts(values[x])
                    \/ profile.form = {"raw_run_series"} /\ RawRaises(RawSeries(obs, claim), claim)
                    \/ \E x \in Compared : Cardinality(Identities(obs[x])) # 1
           drift == Drift(BenchmarkProtocol(metric("baseline"), effective("baseline")),
                          BenchmarkProtocol(metric("candidate"), effective("candidate")), rules)
<1>1. a = IF fails THEN NoAudit
          ELSE [verdict |-> Verdict(findings), rules |-> rules, drift |-> drift]
  <2>1. DOMAIN obs = Told
    OBVIOUS
  <2>2. obs = [x \in Compared \cup {"reference"} |-> Observed(m, evidence, x)]
    BY DEF Told
  <2> QED
    BY <2>1, <2>2 DEF AuditBenchmark, Told
<1> HIDE DEF drift, rules, findings, fails, a
<1>2. ~fails /\ a.verdict = Verdict(findings) /\ a.drift = drift
  BY <1>1 DEF a
<1>3. /\ claim.audit.threshold \in Int /\ \A x \in Told : ~ProjectionConflicts(values[x])
      /\ \A x \in Compared : Cardinality(Identities(obs[x])) = 1
  BY <1>2 DEF fails
<1>4. \A x \in Compared : Identities(obs[x]) # {} /\ Numbered(obs[x])
  BY <1>3, FS_EmptySet DEF Told
<1>5. ASSUME a.verdict = "SUPPORTED"
      PROVE  ReachedBy(obs, claim) /\ ProtocolMismatches(values, variant) = {}
  <2>1. Harmless(findings)
    BY <1>2, <1>5, SupportIsHarmless
  <2> HIDE DEF values
  <2>2. Harmless(checked) /\ Harmless(protocol)
    <3> HIDE DEF checked, protocol
    <3> QED
      BY <2>1 DEF Harmless, findings
  <2>3. ReachedBy(obs, claim)
    <3>1. \/ checked = RawFindings(obs, claim)
          \/ checked = ReportedFindings(values, obs, claim)
          \/ checked = DerivedFindings(values, obs, claim)
      OBVIOUS
    <3> HIDE DEF checked
    <3>2. CASE checked = RawFindings(obs, claim)
      BY <1>3, <1>4, <2>2, <3>2, RawReach
    <3>3. CASE checked = ReportedFindings(values, obs, claim)
      BY <1>3, <1>4, <2>2, <3>3, ReportedReach
    <3>4. CASE checked = DerivedFindings(values, obs, claim)
      BY <1>3, <1>4, <2>2, <3>4, DerivedReach
    <3> QED
      BY <3>1, <3>2, <3>3, <3>4
  <2>4. ProtocolMismatches(values, variant) \subseteq protocol
    BY DEF ProtocolFindings
  <2>5. \A f \in ProtocolMismatches(values, variant) : f.impact = "INVALIDATES"
    BY DEF ProtocolMismatches, If, Found
  <2> HIDE DEF protocol
  <2> QED
    BY <2>2, <2>3, <2>4, <2>5 DEF Harmless
<1>6. ASSUME a.drift = "invalidates" PROVE a.verdict = "NOT_SUPPORTED"
  <2>1. rules \cap MismatchRules # {}
    BY <1>2, <1>6, DriftHasFinding DEF drift
  <2>2. PICK f \in findings : f.rule \in MismatchRules
    BY <2>1 DEF rules
  <2>3. Graded(findings)
    <3> HIDE DEF values
    <3>1. Graded(protocol)
      BY GradedProtocol
    <3>2. Graded(checked)
      BY GradedForms
    <3> HIDE DEF protocol, checked
    <3> QED
      BY <3>1, <3>2, GradedTogether DEF findings
  <2>4. f.impact = "INVALIDATES"
    BY <2>2, <2>3 DEF Graded
  <2> QED
    BY <1>2, <2>2, <2>4 DEF Verdict
<1> QED
  BY <1>3, <1>5, <1>6 DEF a

-----------------------------------------------------------------------------------
(* The support of a benchmark.                                               *)

AuditedAs ==
    stage = "review" /\ ~Training =>
        audit = AuditBenchmark(repo.claim, Mapped, plan.profile, repo.evidence)

LEMMA AuditedAsInit == Init => AuditedAs
  BY DEF Init, AuditedAs

LEMMA AuditedAsKeeps == AuditedAs /\ Planned /\ [Next]_vars => AuditedAs'
<1> SUFFICES ASSUME AuditedAs, Planned, [Next]_vars PROVE AuditedAs'
  OBVIOUS
<1>1. CASE PlanAudit
  <2>1. stage' \in {"execute", "done"}
    BY <1>1 DEF PlanAudit, End
  <2> QED
    BY <2>1 DEF AuditedAs
<1>2. CASE AuditTraining
  <2>1. Training /\ plan' = plan
    BY <1>2 DEF AuditTraining
  <2> QED
    BY <2>1 DEF AuditedAs, Training
<1>3. CASE AuditOfBenchmark
  <2> DEFINE a == AuditBenchmark(repo.claim, Mapped, plan.profile, repo.evidence)
  <2>1. repo' = repo /\ plan' = plan /\ (stage' = "done" \/ audit' = a)
    BY <1>3 DEF AuditOfBenchmark, End, Audited
  <2> QED
    BY <2>1 DEF AuditedAs, Training, Mapped
<1>4. CASE ExecutionFails \/ NotRepresented \/ Review
  <2>1. stage' = "done"
    BY <1>4 DEF ExecutionFails, NotRepresented, Review, End
  <2> QED
    BY <2>1 DEF AuditedAs
<1>5. CASE Answer \/ Push
  <2>1. stage' = "plan"
    BY <1>5 DEF Answer, Push, Again
  <2> QED
    BY <2>1 DEF AuditedAs
<1>6. CASE UNCHANGED vars
  <2>1. repo' = repo /\ plan' = plan /\ stage' = stage /\ audit' = audit
    BY <1>6 DEF vars
  <2> QED
    BY <2>1 DEF AuditedAs, Training, Mapped
<1> QED
  BY <1>1, <1>2, <1>3, <1>4, <1>5, <1>6 DEF Next

LEMMA SupportDecides ==
    Wellformed /\ Planned /\ AuditedOnce /\ AuditedAs => BenchmarkSupportIsEarned
<1> SUFFICES ASSUME Wellformed, Planned, AuditedOnce, AuditedAs, stage = "review", ~Training
             PROVE  BenchmarkSupportIsEarned
  BY DEF BenchmarkSupportIsEarned
<1> DEFINE of(x) == Observed(Mapped, repo.evidence, x)
           obs == [x \in Told |-> of(x)]
           values == [x \in Told |-> Projection(obs[x])]
           claim == repo.claim
           variant == plan.profile.variant
           told == UNION {UNION {{<<k, o.config[k]>> : k \in DOMAIN o.config} :
                                   o \in {of(x)[i] : i \in DOMAIN of(x)}} :
                          x \in Compared \cup {"reference"}}
           figures(x) ==
             {of(x)[i].value : i \in {j \in DOMAIN of(x) : of(x)[j].metric # Absent}}
           better(v, w) == IF repo.claim.audit.higher THEN w - v ELSE v - w
<1>1. /\ plan.state = "ready" /\ audit # NoAudit
      /\ audit = AuditBenchmark(claim, Mapped, plan.profile, repo.evidence)
  BY DEF Planned, AuditedOnce, AuditedAs
<1>2. \A x \in Told : Numbered(of(x))
  BY <1>1, MappedObservations
<1>3. claim.threshold => claim.audit.threshold \in Int
  BY DEF Wellformed
<1>4. /\ claim.audit.threshold \in Int
      /\ audit.verdict = "SUPPORTED" =>
           /\ ReachedBy(obs, claim)
           /\ \A x \in Told : ~ProjectionConflicts(values[x])
           /\ ProtocolMismatches(values, variant) = {}
      /\ audit.drift = "invalidates" => audit.verdict = "NOT_SUPPORTED"
  <2> HIDE DEF claim
  <2>1. \A x \in Told : Numbered(obs[x])
    BY <1>2
  <2>2. obs = [x \in Told |-> Observed(Mapped, repo.evidence, x)]
    OBVIOUS
  <2> HIDE DEF obs
  <2> QED
    BY <1>1, <1>3, <2>1, <2>2, AuditSays
<1>5. ASSUME audit.verdict = "SUPPORTED"
      PROVE  \A x \in Compared : Identities(of(x)) = {claim.metric}
  <2>1. \A x \in Compared : obs[x] = of(x)
    BY DEF Told
  <2> HIDE DEF obs
  <2> QED
    BY <1>4, <1>5, <2>1 DEF ReachedBy
<1>6. ASSUME audit.verdict = "SUPPORTED", NEW p \in told, NEW q \in told,
             p[1] = q[1], p[1][1] \in ComparedSlots, p[1] \notin MayDiffer(variant)
      PROVE  p = q
  <2>1. ASSUME NEW s \in told, s[1][1] \in ComparedSlots
        PROVE  \E x \in Told : s \in values[x]
    <3>1. PICK x \in Told : \E i \in DOMAIN of(x) : \E k \in DOMAIN of(x)[i].config :
                               s = <<k, of(x)[i].config[k]>>
      BY DEF Told
    <3>2. PICK i \in DOMAIN of(x) : \E k \in DOMAIN of(x)[i].config :
                                      s = <<k, of(x)[i].config[k]>>
      BY <3>1
    <3>3. PICK k \in DOMAIN of(x)[i].config : s = <<k, of(x)[i].config[k]>>
      BY <3>2
    <3>4. k[1] \in ProfileSlots
      BY <2>1, <3>3 DEF ComparedSlots
    <3>5. obs[x] = of(x) /\ values[x] = Projection(obs[x])
      OBVIOUS
    <3> HIDE DEF of, obs, values
    <3>6. s \in Projection(of(x))
      BY <3>3, <3>4 DEF Projection
    <3> QED
      BY <3>5, <3>6
  <2>2. PICK x \in Told : p \in values[x]
    BY <1>6, <2>1
  <2>3. PICK y \in Told : q \in values[y]
    BY <1>6, <2>1
  <2> HIDE DEF values, told
  <2> QED
    BY <1>4, <1>6, <2>2, <2>3, OneProcedure
<1>7. ASSUME audit.verdict = "SUPPORTED"
      PROVE  \E v \in figures("baseline"), w \in figures("candidate") :
                better(v, w) >= claim.audit.threshold
  <2>1. ReachedBy(obs, claim)
    BY <1>4, <1>7
  <2>2. obs["baseline"] = of("baseline") /\ obs["candidate"] = of("candidate")
    BY DEF Told, Compared
  <2>3. Numbered(of("baseline")) /\ Numbered(of("candidate"))
    BY <1>2 DEF Told, Compared
  <2> HIDE DEF obs, of
  <2>4. claim.metric # Absent
        /\ \E v \in Figures(of("baseline"), claim.metric),
              w \in Figures(of("candidate"), claim.metric) : Reach(claim.audit, v, w)
    BY <2>1, <2>2 DEF ReachedBy
  <2>5. PICK v \in Figures(of("baseline"), claim.metric),
             w \in Figures(of("candidate"), claim.metric) : Reach(claim.audit, v, w)
    BY <2>4
  <2>6. /\ v \in figures("baseline") /\ v \in Int
        /\ w \in figures("candidate") /\ w \in Int
    BY <2>3, <2>4 DEF Figures, Numbered
  <2>7. better(v, w) >= claim.audit.threshold
    <3> HIDE DEF figures
    <3> QED
      BY <1>4, <2>5, <2>6 DEF Reach
  <2> QED
    BY <2>6, <2>7
<1>8. /\ audit.verdict = "SUPPORTED" =>
           /\ \A x \in Compared : Identities(of(x)) = {claim.metric}
           /\ \A p, q \in told :
                 p[1] = q[1] /\ p[1][1] \in ComparedSlots
                 /\ p[1] \notin MayDiffer(variant) => p = q
           /\ \E v \in figures("baseline"), w \in figures("candidate") :
                 better(v, w) >= claim.audit.threshold
      /\ audit.drift = "invalidates" => audit.verdict = "NOT_SUPPORTED"
  <2> HIDE DEF of, told, figures, better, values, obs, claim, variant
  <2> QED
    BY <1>4, <1>5, <1>6, <1>7
<1> QED
  BY <1>8 DEF BenchmarkSupportIsEarned

\* A supported benchmark rests on two measurements of the claim's metric that reach the
\* claim, taken by one procedure (benchmark_audit.py audit_benchmark), and a difference the
\* drift report stands behind refutes it (measurement.py).
THEOREM BenchmarkSupportIsJustified == Spec => []BenchmarkSupportIsEarned
<1>1. Spec => []AuditedAs
  <2>1. AuditedAs /\ IInv /\ [Next]_vars => AuditedAs'
    BY AuditedAsKeeps DEF IInv
  <2> QED
    BY <2>1, AuditedAsInit, Invariance, PTL DEF Spec
<1>2. IInv /\ AuditedAs => BenchmarkSupportIsEarned
  BY SupportDecides DEF IInv
<1> QED
  BY <1>1, <1>2, Invariance, PTL
====
