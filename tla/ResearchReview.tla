----------------------------- MODULE ResearchReview -----------------------------
(***************************************************************************)
(* claimci/review/orchestrator.py run_review with the operators of         *)
(* sources.py, tools.py and evidence.py it calls: two calls to a language  *)
(* model, and between them the deterministic audits and the selection of   *)
(* evidence, all under one budget of files.  The checkout is read four     *)
(* times and may be edited in between, for as long as a call takes.        *)
(***************************************************************************)
EXTENDS Integers, FiniteSets, Sequences

CONSTANTS
    PathOrder,      \* the paths of the checkout, sorted
    PlanOrder,      \* and in the order the plans list them
    Manifests,      \* those that are manifests, the shallowest first
    Documents,      \* changed text that may hold claims
    Code,           \* source and test files
    Sprawling,      \* code whose excerpt cannot be localised to the change
    Trees,          \* contents of the checkout, and what its manifests declare
    ChangeChoices,  \* the paths the pull request may change
    ConfigChoices,
    ClaimChoices,   \* claims the model may return, with their routing
    MaxEdits, MaxFaults, MaxChars  \* bounds: edits, exceptions, a reply's length

Paths == {PathOrder[i] : i \in DOMAIN PathOrder}
ManifestSet == {Manifests[i] : i \in DOMAIN Manifests}

\* A manifest that cannot be used declares nothing, any other itself too.  A
\* claim's hints may name anything.
ASSUME ReviewAssumption ==
    /\ PathOrder \in Seq(Paths) /\ Manifests \in Seq(Paths) /\ PlanOrder \in Seq(Paths)
    /\ \A p \in Paths : \E i \in DOMAIN PlanOrder : PlanOrder[i] = p
    /\ Documents \cup Code \subseteq Paths /\ Sprawling \subseteq Code
    /\ \A t \in Trees :
         /\ t.present \subseteq Paths /\ t.declares \in [ManifestSet -> SUBSET Paths]
         /\ \A m \in ManifestSet : t.declares[m] # {} => m \in t.declares[m]
    /\ \A c \in ClaimChoices : c.matches \subseteq Paths /\ c.audited \in BOOLEAN
    /\ \A f \in ConfigChoices :
         f.enabled \in BOOLEAN /\ f.calls \in 1..2 /\ {f.files, f.context, f.output} \subseteq Nat
    /\ {MaxEdits, MaxFaults, MaxChars} \subseteq Nat

VARIABLES
    config, changed,  \* given
    tree,             \* the checkout
    edits, faults,
    pc,
    index,            \* repository_paths
    sources,          \* the files shown to the first call
    plans,            \* the audits room was reserved for
    accepted, rejected,
    audits,           \* the deterministic audits and what they consumed
    evidence,         \* the excerpts for the second call
    made,             \* calls to the model
    calls,            \* the recorded ones: length and completeness of each reply
    status, code,     \* the result
    shown             \* the interpretations in the result

given == <<config, changed>>
outcome == <<status, code, shown>>
gathered == <<index, sources, plans>>
vars == <<given, tree, edits, faults, pc, gathered, accepted, rejected, audits,
          evidence, made, calls, outcome>>

None == "none"
NothingShown == [c \in {} |-> {}]

Init ==
    /\ config \in ConfigChoices /\ changed \in ChangeChoices
    /\ tree \in Trees /\ edits = 0 /\ faults = 0
    /\ pc = "start"
    /\ index = {} /\ sources = {} /\ plans = {}
    /\ accepted = {} /\ rejected = FALSE /\ audits = {} /\ evidence = {}
    /\ made = 0 /\ calls = <<>>
    /\ status = None /\ code = None /\ shown = NothingShown

Least(a, b) == IF a < b THEN a ELSE b

\* The first n members of S in the order of s.
FirstOf(s, S, n) ==
    {s[i] : i \in {k \in DOMAIN s : /\ s[k] \in S
                                   /\ Cardinality({s[j] : j \in 1..(k - 1)} \cap S) < n}}

\* n exceptions happen at once.
Faults(n) == faults + n <= MaxFaults /\ faults' = faults + n

End(s, c) == pc' = "done" /\ status' = s /\ code' = c /\ shown' = NothingShown

\* The handler around everything: the calls made so far are all that is reported.
Fail == End("UNAVAILABLE", "REVIEW_UNAVAILABLE")

Edit ==
    /\ pc # "done" /\ edits < MaxEdits /\ edits' = edits + 1
    /\ tree' \in Trees
    /\ UNCHANGED <<given, faults, pc, gathered, accepted, rejected, audits, evidence,
                   made, calls, outcome>>

\* Anything outside the two calls may raise.
Raises ==
    /\ pc \notin {"start", "done"} /\ Faults(1)
    /\ Fail
    /\ UNCHANGED <<given, tree, edits, gathered, accepted, rejected, audits, evidence,
                   made, calls>>

-----------------------------------------------------------------------------------
(* Before the first call.                                                    *)

Disabled ==
    /\ pc = "start" /\ ~config.enabled
    /\ End("DISABLED", None)
    /\ UNCHANGED <<given, tree, edits, faults, gathered, accepted, rejected, audits,
                   evidence, made, calls>>

\* The title takes one unit of the context, each document one.
Collect ==
    /\ pc = "start" /\ config.enabled
    /\ pc' = "plan"
    /\ index' = tree.present
    /\ sources' = FirstOf(PathOrder, Documents \cap changed \cap tree.present,
                          Least(config.files, config.context - 1))
    /\ UNCHANGED <<given, tree, edits, faults, plans, accepted, rejected, audits,
                   evidence, made, calls, outcome>>

PlannedPaths(ps) == UNION {p.paths : p \in ps}

\* plan_manifest_audits: room is reserved manifest by manifest.
Reserve(ps, t, m) ==
    IF /\ m \in t.present /\ t.declares[m] # {}
       /\ Cardinality(PlannedPaths(ps) \cup t.declares[m]) <= config.files
      THEN ps \cup {[manifest |-> m, paths |-> t.declares[m]]}
      ELSE ps

PlanAudits(t, requested) ==
    LET ps[n \in 0..Len(Manifests)] ==
          IF n = 0 THEN {}
          ELSE IF Manifests[n] \in requested THEN Reserve(ps[n - 1], t, Manifests[n])
          ELSE ps[n - 1]
    IN ps[Len(Manifests)]

\* discover_manifests: at most four of the indexed ones.
Discovered == FirstOf(Manifests, index \cap tree.present, Least(4, config.files))

\* select_relevant_manifest_audit_plans
Relevant(ps) == {p \in ps : p.paths \cap changed \cap index # {}}

\* _sources_after_manifest_reservation: the files left go to the first documents.
Kept(ps) ==
    LET fits(kept, p) == /\ p \in sources
                         /\ \/ p \in PlannedPaths(ps)
                            \/ Cardinality(PlannedPaths(ps) \cup kept) < config.files
        kept[n \in 0..Len(PathOrder)] ==
          IF n = 0 THEN {}
          ELSE IF fits(kept[n - 1], PathOrder[n]) THEN kept[n - 1] \cup {PathOrder[n]}
          ELSE kept[n - 1]
    IN kept[Len(PathOrder)]

Plan ==
    /\ pc = "plan"
    /\ LET ps == Relevant(PlanAudits(tree, Discovered))
       IN /\ plans' = ps /\ sources' = Kept(ps)
          /\ IF 2 + Cardinality(Kept(ps)) > config.context
               THEN End("UNAVAILABLE", "CONTEXT_LIMIT")
               ELSE pc' = "extract" /\ UNCHANGED outcome
    /\ UNCHANGED <<given, tree, edits, faults, index, accepted, rejected, audits,
                   evidence, made, calls>>

-----------------------------------------------------------------------------------
(* The first call.                                                           *)

Record(chars, whole) == calls' = Append(calls, [chars |-> chars, whole |-> whole])

\* A plausible slip: a second attempt.
ExtractAgain ==
    /\ pc = "extract" /\ made' = made + 1
    /\ UNCHANGED <<given, tree, edits, faults, pc, gathered, accepted, rejected, audits,
                   evidence, calls, outcome>>

\* The model times out, refuses or is not there: the call is not recorded.
ExtractRaises ==
    /\ pc = "extract" /\ made' = made + 1
    /\ Fail
    /\ UNCHANGED <<given, tree, edits, faults, gathered, accepted, rejected, audits,
                   evidence, calls>>

ExtractIncomplete ==
    /\ pc = "extract" /\ made' = made + 1
    /\ \E chars \in 0..MaxChars : Record(chars, FALSE)
    /\ \E c \in {"CLAIM_EXTRACTION_TRUNCATED", "CLAIM_EXTRACTION_INCOMPLETE"} :
         End("PARTIAL", c)
    /\ UNCHANGED <<given, tree, edits, faults, gathered, accepted, rejected, audits,
                   evidence>>

\* Too long, not what the schema says, or with no candidate that passes.
ExtractUnusable ==
    /\ pc = "extract" /\ made' = made + 1
    /\ \E chars \in 0..MaxChars : Record(chars, TRUE)
    /\ Fail
    /\ UNCHANGED <<given, tree, edits, faults, gathered, accepted, rejected, audits,
                   evidence>>

ExtractClaims ==
    /\ pc = "extract" /\ made' = made + 1
    /\ \E chars \in 0..Least(MaxChars, config.output) : Record(chars, TRUE)
    /\ accepted' \in SUBSET ClaimChoices
    /\ rejected' \in BOOLEAN
    /\ rejected' => accepted' # {}
    /\ pc' = "audit"
    /\ UNCHANGED <<given, tree, edits, faults, gathered, audits, evidence, outcome>>

-----------------------------------------------------------------------------------
(* Audits and evidence.                                                      *)

\* A plausible slip: every study of the checkout is audited after all.
RequestedAll == Discovered

Requested == {p.manifest : p \in plans}

\* The manifests are read and planned a second time; an audit that raises is left
\* out.
RunAudits ==
    /\ pc = "audit" /\ pc' = "evidence"
    /\ LET ps == PlanAudits(tree, Requested)
       IN \E lost \in SUBSET ps :
            Faults(Cardinality(lost)) /\ audits' = ps \ lost
    /\ UNCHANGED <<given, tree, edits, gathered, accepted, rejected, evidence, made,
                   calls, outcome>>

\* The paths of the first plan of each manifest that was audited.
BundlePaths ==
    PlannedPaths({p \in plans : \E a \in audits : a.manifest = p.manifest})

\* Where a claim's evidence may be, by trusted routing, by the path's name, and by
\* a hint of the model.
Priority(c) == IF c.audited THEN BundlePaths \cap index ELSE {}
Matched(c) == c.matches \cap changed \cap index
Hinted(c) == {p \in c.hints \cap index \cap tree.present : p \in Code \cup c.matches}
Routed(c) == Priority(c) \cup Matched(c) \cup Hinted(c)

First == UNION {Priority(c) : c \in accepted}
Rest == (UNION {Routed(c) : c \in accepted}) \ First

\* A plausible slip: the files of the first call are not counted.
SpentOnAudits == BundlePaths \cap index

\* selected_paths: files that cost no further place.
Spent == sources \cup (BundlePaths \cap index)

\* An excerpt takes one unit of the context.
Excerpt(p) ==
    [path |-> p, claims |-> {c \in accepted : p \in Routed(c)},
     \* Cut at its start, if its whole point was the exact path.
     citable |-> ~(p \in Sprawling /\ \E c \in accepted : p \in Hinted(c))]

Fits(refs, p) ==
    /\ Cardinality(refs) < config.context
    /\ p \in Spent \/ Cardinality(Spent \cup {r.path : r \in refs}) < config.files
    /\ p \in tree.present

\* The members of S, in the order of s, are added to what there is.
Gather(start, s, S) ==
    LET refs[n \in 0..Len(s)] ==
          IF n = 0 THEN start
          ELSE IF s[n] \in S /\ Fits(refs[n - 1], s[n])
            THEN refs[n - 1] \cup {Excerpt(s[n])}
          ELSE refs[n - 1]
    IN refs[Len(s)]

\* A plausible slip: routed paths in the order of their names.
GatheredByName == Gather({}, PathOrder, First \cup Rest)

\* What the audits consumed, then the rest by name.
Gathered == Gather(Gather({}, PlanOrder, First), PathOrder, Rest)

SynthesisSize(refs) ==
    1 + Cardinality(accepted) + Cardinality(audits) + Cardinality({r \in refs : r.citable})

Discover ==
    /\ pc = "evidence"
    /\ evidence' = Gathered
    /\ CASE Cardinality(Spent) > config.files -> Fail
         [] Cardinality(Spent) <= config.files /\ config.calls < 2 ->
              End("PARTIAL", "CALL_LIMIT")
         [] /\ Cardinality(Spent) <= config.files /\ config.calls >= 2
            /\ SynthesisSize(Gathered) > config.context ->
              End("PARTIAL", "CONTEXT_LIMIT")
         [] OTHER -> pc' = "synthesize" /\ UNCHANGED outcome
    /\ UNCHANGED <<given, tree, edits, faults, gathered, accepted, rejected, audits,
                   made, calls>>

-----------------------------------------------------------------------------------
(* The second call.                                                          *)

SynthesisRaises ==
    /\ pc = "synthesize" /\ made' = made + 1
    /\ Fail
    /\ UNCHANGED <<given, tree, edits, faults, gathered, accepted, rejected, audits,
                   evidence, calls>>

SynthesisIncomplete ==
    /\ pc = "synthesize" /\ made' = made + 1
    /\ \E chars \in 0..MaxChars : Record(chars, FALSE)
    /\ \E c \in {"SYNTHESIS_TRUNCATED", "SYNTHESIS_INCOMPLETE"} : End("PARTIAL", c)
    /\ UNCHANGED <<given, tree, edits, faults, gathered, accepted, rejected, audits,
                   evidence>>

SynthesisTooLong ==
    /\ pc = "synthesize" /\ made' = made + 1
    /\ \E chars \in 0..MaxChars :
         Record(chars, TRUE) /\ calls[1].chars + chars > config.output
    /\ End("PARTIAL", "SYNTHESIS_OUTPUT_LIMIT")
    /\ UNCHANGED <<given, tree, edits, faults, gathered, accepted, rejected, audits,
                   evidence>>

\* A plausible slip: any issued evidence may be cited.
IssuedTo(c) == {r.path : r \in {x \in evidence : x.citable}}

Citable(c) == {r.path : r \in {x \in evidence : x.citable /\ c \in x.claims}}

\* _parse_interpretations: each accepted claim once, citing what it was issued.
Valid(rows) ==
    DOMAIN rows = accepted /\ \A c \in DOMAIN rows : rows[c] \subseteq Citable(c)

\* What the model may say: for some claims, one citation or none.
Rows == UNION {[S -> {{}} \cup {{p} : p \in Paths}] : S \in SUBSET ClaimChoices}

SynthesisInvalid ==
    /\ pc = "synthesize" /\ made' = made + 1
    /\ \E chars \in 0..Least(MaxChars, config.output - calls[1].chars) : Record(chars, TRUE)
    /\ End("PARTIAL", "SYNTHESIS_INVALID")
    /\ UNCHANGED <<given, tree, edits, faults, gathered, accepted, rejected, audits,
                   evidence>>

\* routing_incomplete: a claim the model gave hints for has nothing to cite.
RoutingIncomplete == \E c \in accepted : c.hints # {} /\ Citable(c) = {}

SynthesisAccepted ==
    /\ pc = "synthesize" /\ made' = made + 1
    /\ \E chars \in 0..Least(MaxChars, config.output - calls[1].chars) : Record(chars, TRUE)
    /\ \E rows \in Rows : Valid(rows) /\ shown' = rows
    /\ pc' = "done"
    /\ status' = IF rejected \/ RoutingIncomplete THEN "PARTIAL" ELSE "COMPLETE"
    /\ code' = CASE rejected -> "CLAIM_CANDIDATES_REJECTED"
                 [] ~rejected /\ RoutingIncomplete -> "EVIDENCE_ROUTING_INCOMPLETE"
                 [] OTHER -> None
    /\ UNCHANGED <<given, tree, edits, faults, gathered, accepted, rejected, audits,
                   evidence>>

-----------------------------------------------------------------------------------

Next ==
    \/ Edit \/ Raises
    \/ Disabled \/ Collect \/ Plan
    \/ ExtractRaises \/ ExtractIncomplete \/ ExtractUnusable \/ ExtractClaims
    \/ RunAudits \/ Discover
    \/ SynthesisRaises \/ SynthesisIncomplete \/ SynthesisTooLong \/ SynthesisInvalid
    \/ SynthesisAccepted

Spec == Init /\ [][Next]_vars

-----------------------------------------------------------------------------------
(* Properties.                                                               *)

EvidencePaths == {r.path : r \in evidence}

\* "maximum selected files" is one limit for both calls together: the files shown
\* to the first, those reserved for the audits that took place and those shown to
\* the second, and so for what the audits consumed if nobody edits the checkout.
FilesWithinLimit ==
    /\ Cardinality(sources \cup PlannedPaths(plans)) <= config.files
    /\ Cardinality(sources \cup (BundlePaths \cap index) \cup EvidencePaths) <= config.files
    /\ edits = 0 => \A a \in audits : a.paths \subseteq BundlePaths

\* Audits and plans agree: planning again with fewer manifests must find room for
\* every audit that room was reserved for, and for no other.
PlannedIsAudited ==
    pc \in {"evidence", "synthesize"} =>
        /\ \A a \in audits : \E p \in plans : p.manifest = a.manifest
        /\ edits = 0 /\ faults = 0 => audits = plans

\* The evidence was looked for, if there were audits.
Searched == pc = "synthesize" \/ status \in {"PARTIAL", "COMPLETE"}

\* Heuristic matches and hints never displace the files of a deterministic audit:
\* each of them is excerpted for every claim it can inform, unless those files
\* alone exhaust the context.
PriorityIsServed ==
    Searched /\ edits = 0 /\ Cardinality(BundlePaths) <= config.context =>
        \A c \in accepted, p \in BundlePaths \cap index :
            c.audited => \E r \in evidence : r.path = p /\ c \in r.claims

\* A review is COMPLETE only if both calls were, no candidate was dropped, each
\* accepted claim is interpreted with evidence of its own and each claim with hints
\* has some; and it shows an interpretation only within the output limit.
CompleteIsWhole ==
    /\ status = "COMPLETE" =>
        /\ Len(calls) = 2 /\ \A i \in DOMAIN calls : calls[i].whole
        /\ ~rejected
        /\ DOMAIN shown = accepted
        /\ \A c \in accepted : c.hints # {} => \E r \in evidence : r.citable /\ c \in r.claims
    /\ \A c \in DOMAIN shown, p \in Paths :
         p \in shown[c] => \E r \in evidence : r.path = p /\ c \in r.claims /\ r.citable
    /\ shown # NothingShown => calls[1].chars + calls[2].chars <= config.output

\* No reply, however bad, is answered by another attempt: never more calls than
\* configured, never a second one after an incomplete first, and at most the last
\* is missing from the record.
CallsHonoured ==
    /\ made <= config.calls
    /\ made \in {Len(calls), Len(calls) + 1} /\ (made > Len(calls) => status = "UNAVAILABLE")
    /\ made = 2 => calls[1].whole
    /\ status = "DISABLED" => made = 0

\* "An unrelated study elsewhere in a large repository must not reserve the review
\* file budget": the plans are those of the studies the pull request changes.
UnrelatedStudiesReserveNothing ==
    pc = "extract" /\ edits = 0 =>
        plans = PlanAudits(tree, {m \in ManifestSet \cap index :
                                    tree.declares[m] \cap changed \cap index # {}})
====
