--------------------------------- MODULE Evidence ---------------------------------
(***************************************************************************)
(* What the planner is given: passive evidence extracted from the          *)
(* repository's files, and mappings that bind files to the slots of an     *)
(* experiment.  Shared by the profiles, the obligations and the planner.   *)
(*                                                                         *)
(*   evidence     [file, kind, adapter, fields, extracted, claims, obs]    *)
(*     fields     the targets and expressions its selectors read           *)
(*     extracted  the adapter's match rests on adapter extraction only     *)
(*     claims     the claims its artifact is relevant to                   *)
(*     obs        a sequence of [role, metric, value, seed, config, refs,  *)
(*                extracted]                                               *)
(*   binding      [file, kind, role, split, adapter, fields, prov]         *)
(*   mapping      [bindings, prov, confidence, approved]                   *)
(*                                                                         *)
(* An observation's config is a function from the profile keys it has to   *)
(* their values; confidence is in hundredths.                              *)
(***************************************************************************)
EXTENDS Integers, Sequences, FiniteSets

Compared == {"baseline", "candidate"}
Roles == Compared \cup {"reference", "unspecified"}
Kinds == {"results", "config", "dataset", "benchmark"}
Splits == {"train", "eval"}

\* adapter_id None, mappings (), dataset_split None and metric_name None.
Absent == "none"

\* Who bound a file to its slot, or the code that did.
Provenances == {"discovery", "adapter", "manifest", "provider", "human"}

\* ArtifactBinding: only a dataset carries a split.
IsBinding(b) ==
    /\ b \in [file : {b.file}, kind : {b.kind}, role : Roles, split : Splits \cup {Absent},
               adapter : {b.adapter}, fields : {b.fields}, prov : Provenances]
    /\ b.kind # "dataset" => b.split = Absent

\* RepoMapping
IsMapping(m) ==
    /\ DOMAIN m = {"bindings", "prov", "confidence", "approved"}
    /\ \A b \in m.bindings : IsBinding(b)

\* NormalizedEvidence: an observation of a metric has its value.
IsEvidence(e) ==
    /\ e.file \in Nat /\ e.kind \in Kinds
    /\ e.obs \in Seq({e.obs[i] : i \in DOMAIN e.obs})
    /\ \A i \in DOMAIN e.obs : e.obs[i].metric # Absent => e.obs[i].value \in Int

-----------------------------------------------------------------------------------
(* evidence_identity.py *)

Matches(b, evidence) ==
    {e \in evidence :
        /\ e.file = b.file /\ e.kind = b.kind
        /\ b.adapter \in {Absent, e.adapter}
        /\ b.fields \in {{}, e.fields}}

\* One binding stands for one evidence variant; ambiguity fails closed.
Resolves(b, evidence) == Cardinality(Matches(b, evidence)) = 1

EvidenceFor(b, evidence) == CHOOSE e \in Matches(b, evidence) : TRUE

\* The same file, kind, role, split and selectors, whatever their provenance.
Signature(b) == [file |-> b.file, kind |-> b.kind, role |-> b.role,
                 adapter |-> b.adapter, split |-> b.split, fields |-> b.fields]

Signatures(bindings) == {Signature(b) : b \in bindings}

-----------------------------------------------------------------------------------
(* Roles and provenance *)

ObservedRoles(e) ==
    {e.obs[i].role : i \in DOMAIN e.obs} \ {"unspecified"}

SupportsRole(e, role) == ObservedRoles(e) \subseteq {role}

\* No part of an automatic mapping was proposed by a provider.
Unproposed(m) ==
    m.approved \/ "provider" \notin {m.prov} \cup {b.prov : b \in m.bindings}

\* Trusted enough to satisfy an obligation.
SupportConfidence == 90
====
