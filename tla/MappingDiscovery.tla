------------------------------ MODULE MappingDiscovery ------------------------------
(***************************************************************************)
(* discovery/mappings.py: which mappings are proposed for the artifacts of *)
(* a repository, and the one question that is asked when two artifacts     *)
(* compete for a slot.                                                     *)
(*                                                                         *)
(*   artifact  [file, kind, claims, role, split, confidence]               *)
(*             role and split are those the tokens of its path name        *)
(*                                                                         *)
(* Two mappings have the same identifier when they have the same origin    *)
(* and the same bindings.  A set of at most one element stands for an      *)
(* optional mapping or question.                                           *)
(***************************************************************************)
EXTENDS Evidence, SequencesExt

MaxMappingCandidates == 16
MaxChoices == 8
InferredConfidence == 95

\* Files are numbered in the order of their paths.
Slots ==
    [kind : {"results", "config"}, role : Compared, split : {Absent}]
    \cup [kind : {"dataset"}, role : Compared, split : Splits]

Competing(artifacts, slot) ==
    {a \in artifacts : a.kind = slot.kind /\ a.role = slot.role
                       /\ (a.kind = "dataset" => a.split = slot.split)}

Better(a, b) ==
    a.confidence > b.confidence \/ (a.confidence = b.confidence /\ a.file < b.file)

\* Confidences are hundredths here and binary floats in the code, where 0.90 - 0.80 is
\* less than 0.10: the ones from which the float ten hundredths below is a full tenth off.
FullTenths ==
    (10..11) \cup (13..14) \cup (16..17) \cup (19..20) \cup (22..23) \cup (25..28) \cup (31..34)
    \cup (39..40) \cup (45..46) \cup (51..56) \cup (67..68) \cup (79..81) \cup (92..93)

Outdoes(a, b) ==
    \/ a.confidence > b.confidence + 10
    \/ a.confidence = b.confidence + 10 /\ a.confidence \in FullTenths

\* The winner of a slot has a margin of a tenth over every other artifact.
Winner(artifacts) ==
    {a \in artifacts : \A b \in artifacts \ {a} : Outdoes(a, b)}

Binding(a, role, split) ==
    [file |-> a.file, kind |-> a.kind, role |-> role, split |-> split,
     adapter |-> Absent, fields |-> {}, prov |-> "discovery"]

Mapping(bindings, prov, confidence) ==
    [bindings |-> bindings, prov |-> prov, confidence |-> confidence, approved |-> FALSE]

\* _inferred_mapping: one binding for each slot that has a winner.
Inferred(artifacts) ==
    LET bindings == UNION {{Binding(a, slot.role, slot.split) :
                              a \in Winner(Competing(artifacts, slot))} : slot \in Slots}
    IN  IF bindings = {} THEN {}
        ELSE {Mapping(bindings, "discovery", InferredConfidence)}

Ambiguities(artifacts) ==
    {[slot |-> slot, artifacts |-> Competing(artifacts, slot)] :
       slot \in {s \in Slots : /\ Competing(artifacts, s) # {}
                               /\ Winner(Competing(artifacts, s)) = {}}}

\* The artifacts are looked at claim by claim.
Scopes(artifacts, claims) ==
    IF claims = {} THEN {artifacts}
    ELSE {{a \in artifacts : c \in a.claims} : c \in claims}

-----------------------------------------------------------------------------------
(* The question *)

Affected(ambiguity) == UNION {a.claims : a \in ambiguity.artifacts}

SlotPriority(slot) ==
    CASE slot.kind = "results" /\ slot.role = "candidate" -> 40
      [] slot.kind = "results" -> 30
      [] slot.kind = "config" /\ slot.role = "candidate" -> 20
      [] slot.kind = "config" -> 10
      [] slot.role = "candidate" -> 8
      [] OTHER -> 6

\* First what concerns most claims, then by slot, train before eval.
AskedBefore(x, y) ==
    LET claims(a) == Cardinality(Affected(a))
        rank(a) == 2 * SlotPriority(a.slot) + (IF a.slot.split = "eval" THEN 0 ELSE 1)
    IN  claims(x) > claims(y) \/ (claims(x) = claims(y) /\ rank(x) > rank(y))

\* _mapping_question: each choice binds the one slot.
AmbiguityQuestion(ambiguities) ==
    LET firsts == {x \in ambiguities : \A y \in ambiguities : ~AskedBefore(y, x)}
        first == CHOOSE x \in firsts : TRUE
        offered == {a \in first.artifacts :
                      Cardinality({b \in first.artifacts : Better(b, a)}) < MaxChoices}
    IN  IF firsts = {} THEN {}
        ELSE {[claim |-> IF Cardinality(Affected(first)) = 1
                         THEN CHOOSE c \in Affected(first) : TRUE ELSE Absent,
               choices |-> {{Binding(a, first.slot.role, first.slot.split)} : a \in offered}]}

-----------------------------------------------------------------------------------
(* The resolution *)

Tier(m) == IF m.prov = "manifest" THEN 0 ELSE 1

\* Manifest hints first, then by confidence; identifiers break a tie.
Precedes(x, y) ==
    Tier(x) < Tier(y) \/ (Tier(x) = Tier(y) /\ x.confidence > y.confidence)

SameIdentifier(x, y) == x.prov = y.prov /\ Signatures(x.bindings) = Signatures(y.bindings)

Proposed(artifacts, claims, manifests, proposals) ==
    manifests \cup proposals \cup UNION {Inferred(s) : s \in Scopes(artifacts, claims)}

\* Two proposals with one identifier raise, and nothing is discovered.
ResolutionRaises(artifacts, claims, manifests, proposals) ==
    \E x, y \in Proposed(artifacts, claims, manifests, proposals) :
        x # y /\ SameIdentifier(x, y)

Ordered(mappings) ==
    LET named == SetToSeq(mappings)
        name(m) == CHOOSE i \in DOMAIN named : named[i] = m
        before(n, m) == Precedes(n, m) \/ (~Precedes(m, n) /\ name(n) < name(m))
        place(m) == 1 + Cardinality({n \in mappings : before(n, m)})
    IN  [i \in {place(m) : m \in mappings} \cap 1..MaxMappingCandidates |->
           CHOOSE m \in mappings : place(m) = i]

\* A plausible slip: the question is asked whatever has been approved.
QuestionAlways(artifacts, claims, manifests, approved) ==
    AmbiguityQuestion(UNION {Ambiguities(s) : s \in Scopes(artifacts, claims)})

\* Nobody is asked what an approval or a manifest answers.
Question(artifacts, claims, manifests, approved) ==
    IF approved # {} \/ manifests # {} THEN {}
    ELSE AmbiguityQuestion(UNION {Ambiguities(s) : s \in Scopes(artifacts, claims)})

\* resolve_mappings
Resolution(artifacts, claims, manifests, proposals, approved) ==
    [candidates |-> Ordered(Proposed(artifacts, claims, manifests, proposals)),
     upstream |-> Question(artifacts, claims, manifests, approved)]
====
