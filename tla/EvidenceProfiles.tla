----------------------------- MODULE EvidenceProfiles -----------------------------
(***************************************************************************)
(* profiles.py: which fixed evidence profile a claim is audited under,     *)
(* from the claim's metric and from what the mappings make of the passive  *)
(* evidence.                                                               *)
(*                                                                         *)
(* A profile key is a pair <<slot, field>>, a profile value a string; the  *)
(* wording a metric's variant is recognised by is the claim's field        *)
(* variant.                                                                *)
(***************************************************************************)
EXTENDS Evidence

Variants == {"latency", "throughput", "kernel", "cost", "quality"}
ResultForms == {"raw_run_series", "reported_aggregate", "deterministic_derivation"}

MetricValue == <<"metric", "value">>
Subject(f) == <<"benchmark.subject", f>>
Workload(f) == <<"benchmark.workload", f>>
Config(f) == <<"benchmark.measurement_config", f>>
Protocol(f) == <<"benchmark.run_protocol", f>>
Environment(f) == <<"benchmark.environment", f>>
Evaluator(f) == <<"benchmark.evaluator", f>>
Identity(f) == <<"measurement.metric_identity", f>>

ProfileSlots ==
    {"benchmark.subject", "benchmark.workload", "benchmark.measurement_config",
     "benchmark.run_protocol", "benchmark.environment", "benchmark.evaluator",
     "measurement.metric_identity"}

NeedsEnvironment(variant) == variant \in {"latency", "throughput", "kernel", "cost"}
NeedsEvaluator(variant) == variant \in {"quality", "cost"}

\* The slots a variant activates.
ActiveSlots(variant) ==
    {"benchmark.subject", "benchmark.results", "benchmark.workload",
     "benchmark.measurement_config", "measurement.metric_identity",
     "benchmark.run_protocol"}
    \cup (IF NeedsEnvironment(variant) THEN {"benchmark.environment"} ELSE {})
    \cup (IF NeedsEvaluator(variant) THEN {"benchmark.evaluator"} ELSE {})

\* _variant_components_complete: every key of RequiredKeys, and one of each group.
RequiredKeys(variant, form) ==
    CASE variant = "latency" ->
            {Workload("id"), Config("timing_boundary"), Protocol("warmup"),
             Protocol("sample_count"), Protocol("aggregation"),
             Environment("hardware")}
      [] variant = "throughput" ->
            {Workload("id"), Protocol("aggregation"), Environment("hardware"),
             Environment("runtime")}
      [] variant = "kernel" ->
            {Workload(f) : f \in {"tensor_shape", "dtype", "layout",
                                  "tensor_generation"}}
            \cup {Protocol(f) : f \in {"generation_seed", "warmup", "timing_method"}}
            \cup {Environment(f) : f \in {"compiler", "runtime", "hardware"}}
      [] variant = "quality" -> {Evaluator("id"), Evaluator("scoring")}
      [] OTHER ->
            {Environment("provider"), Environment("sku"),
             Config("measurement_window"), Evaluator("included_costs"),
             Evaluator("excluded_costs"),
             IF form = {"deterministic_derivation"} THEN Evaluator("formula_family")
                                                    ELSE Protocol("aggregation")}

AlternativeKeys(variant) ==
    CASE variant = "throughput" ->
            {{Workload(f) : f \in {"batch_size", "concurrency", "sequence_length"}},
             {Protocol("sample_count"), Protocol("step_count")},
             {Config("timing_boundary"), Config("memory_collection")}}
      [] variant = "quality" ->
            {{Workload("corpus"), Workload("id")},
             {Identity("definition"), Identity("configuration"),
              Evaluator("metric_definition"), Evaluator("metric_config")}}
      [] variant = "cost" ->
            {{Workload("workload_volume"), Workload("token_volume")},
             {Environment("pricing_snapshot"), Environment("pricing_version")}}
      [] OTHER -> {}

-----------------------------------------------------------------------------------
(* Scalars: a count is one of a few digits *)

Digits == {"0", "1", "2", "3"}
CountOf(value) == CHOOSE n \in 0..3 : value = <<"0", "1", "2", "3">>[n + 1]

PositiveKeys ==
    {Workload(f) : f \in {"sequence_length", "batch_size", "concurrency",
                          "workload_volume", "token_volume"}}
    \cup {Protocol("sample_count"), Protocol("step_count")}
NonnegativeKeys == {Protocol("warmup"), Protocol("generation_seed")}

Scalar(key, value) ==
    /\ key \in PositiveKeys => value \in {"1", "2", "3"}
    /\ key \in NonnegativeKeys => value \in Digits

-----------------------------------------------------------------------------------
(* What a mapping recovers *)

\* _mapping_evidence: the bindings that resolve to adapter-extracted evidence.
Recovered(m, evidence) ==
    {b \in m.bindings : Resolves(b, evidence) /\ EvidenceFor(b, evidence).extracted}

Observations(b, evidence) ==
    LET e == EvidenceFor(b, evidence)
    IN  {i \in DOMAIN e.obs : e.obs[i].extracted}

\* _config_values: only profile keys that a selector of the binding reads.
ConfigEntries(m, evidence) ==
    UNION {LET e == EvidenceFor(b, evidence)
           IN  UNION {{[role |-> b.role, key |-> k, value |-> e.obs[i].config[k]] :
                         k \in {f \in DOMAIN e.obs[i].config \cap b.fields :
                                   f[1] \in ProfileSlots}} :
                       i \in Observations(b, evidence)} :
           b \in {c \in Recovered(m, evidence) : c.role # "unspecified"}}

\* Two values of a key within a role, or a scalar out of its range, raise.
ConfigRaises(entries) ==
    \/ \E x, y \in entries : x.role = y.role /\ x.key = y.key /\ x.value # y.value
    \/ \E x \in entries : ~Scalar(x.key, x.value)

Keys(entries, role) == {x.key : x \in {y \in entries : y.role = role}}

Value(entries, role, key) ==
    (CHOOSE x \in entries : x.role = role /\ x.key = key).value

\* One entry of _metrics for each measured observation of a metric binding.
MetricEntries(m, evidence, role) ==
    UNION {{<<b, i>> : i \in {j \in Observations(b, evidence) :
                                EvidenceFor(b, evidence).obs[j].metric # Absent}} :
           b \in {c \in Recovered(m, evidence) :
                    c.role = role /\ MetricValue \in c.fields}}

MetricNames(m, evidence, role) ==
    {EvidenceFor(x[1], evidence).obs[x[2]].metric :
       x \in MetricEntries(m, evidence, role)}

\* Given once for both roles, or by each of them.
KeyPresent(entries, key) ==
    \/ key \in Keys(entries, "reference")
    \/ \A role \in Compared : key \in Keys(entries, role)

SlotPresent(entries, slot) ==
    \/ \E k \in Keys(entries, "reference") : k[1] = slot
    \/ \A role \in Compared : \E k \in Keys(entries, role) : k[1] = slot

\* The one result form the roles agree on, raw runs when none is named.
ResultForm(entries) ==
    LET named == {x.value : x \in {y \in entries : y.key = Protocol("result_form")}}
    IN  IF named = {} THEN {"raw_run_series"}
        ELSE IF Cardinality(named) = 1 THEN named \cap ResultForms ELSE {}

\* What each form asks of both roles themselves.
FormComplete(m, evidence, entries, form) ==
    LET has(role, key) == key \in Keys(entries, role)
        val(role, key) == Value(entries, role, key)
        runs(role) == Cardinality(MetricEntries(m, evidence, role))
    IN  \A role \in Compared :
        CASE form = {"raw_run_series"} ->
                /\ has(role, Protocol("sample_count"))
                /\ has(role, Protocol("aggregation"))
                /\ CountOf(val(role, Protocol("sample_count"))) = runs(role)
                /\ val(role, Protocol("aggregation")) = "arithmetic_mean_v1"
          [] form = {"reported_aggregate"} ->
                /\ \A f \in {"sample_count", "aggregation", "statistic"} :
                     has(role, Protocol(f))
                /\ runs(role) = 1
          [] form = {"deterministic_derivation"} ->
                /\ \A f \in {"formula_family", "unit_value", "quantity"} :
                     has(role, Evaluator(f))
                /\ val(role, Evaluator("formula_family")) = "multiply_v1"
          [] OTHER -> FALSE

NothingRecovered == [positive |-> FALSE, form |-> {}, complete |-> FALSE]

BenchmarkFacts(m, evidence, variant) ==
    LET entries == ConfigEntries(m, evidence)
        form == ResultForm(entries)
    IN  IF variant = Absent \/ ConfigRaises(entries) THEN NothingRecovered
        ELSE
        [positive |-> \E x \in entries :
             x.key[1] \in {"benchmark.workload", "benchmark.measurement_config",
                           "benchmark.run_protocol", "benchmark.environment",
                           "benchmark.evaluator"},
         form |-> form,
         complete |->
             /\ \A slot \in {"benchmark.subject", "benchmark.workload",
                              "benchmark.measurement_config",
                              "benchmark.run_protocol"} : SlotPresent(entries, slot)
             /\ \A role \in Compared :
                  Cardinality(MetricNames(m, evidence, role)) = 1
             /\ NeedsEnvironment(variant) =>
                  SlotPresent(entries, "benchmark.environment")
             /\ NeedsEvaluator(variant) => SlotPresent(entries, "benchmark.evaluator")
             /\ \A key \in RequiredKeys(variant, form) : KeyPresent(entries, key)
             /\ \A keys \in AlternativeKeys(variant) :
                  \E key \in keys : KeyPresent(entries, key)
             /\ FormComplete(m, evidence, entries, form)]

\* One results and config file and exactly one file of each split for each role,
\* and nothing in the mapping that is not extracted for its own role.
TrainingComplete(m, evidence) ==
    /\ \A role \in Compared :
        /\ \A kind \in {"results", "config"} :
             \E b \in m.bindings : b.role = role /\ b.kind = kind
        /\ \A split \in Splits :
             Cardinality({b \in m.bindings : b.role = role /\ b.kind = "dataset"
                                              /\ b.split = split}) = 1
    /\ \A b \in m.bindings :
         /\ b \in Recovered(m, evidence)
         /\ SupportsRole(EvidenceFor(b, evidence), b.role)

TrainingShape(m) ==
    \A role \in Compared : \A kind \in {"results", "config"} :
        \E b \in m.bindings : b.role = role /\ b.kind = kind

-----------------------------------------------------------------------------------
(* The selection *)

Profile(id, variant, form, complete) ==
    [state |-> "selected", id |-> id, variant |-> variant, form |-> form,
     complete |-> complete]

NoProfile(state) ==
    [state |-> state, id |-> Absent, variant |-> Absent, form |-> {},
     complete |-> FALSE]

\* A plausible slip: a proposed mapping counts although a trusted one is complete.
EffectiveAll(records) == DOMAIN records

\* Proposed mappings are ignored once a trusted one is complete.
Effective(records) ==
    {i \in DOMAIN records :
       \/ records[i].trusted
       \/ \A j \in DOMAIN records :
            records[j].trusted =>
                ~(records[j].training \/ records[j].facts.complete)}

First(S) == CHOOSE i \in S : \A j \in S : i <= j

\* What is known of each mapping, in their order.
ProfileRecords(variant, mappings, evidence) ==
    [i \in DOMAIN mappings |->
       [facts |-> BenchmarkFacts(mappings[i], evidence, variant),
        training |-> TrainingComplete(mappings[i], evidence),
        shape |-> TrainingShape(mappings[i]),
        trusted |-> Unproposed(mappings[i])]]

\* The form of the first complete mapping, or else of the first that hints at one.
FormOf(records, whole, hinted) ==
    IF whole \cup hinted = {} THEN {}
    ELSE records[First(IF whole # {} THEN whole ELSE hinted)].facts.form

SelectAmong(variant, records, effective) ==
    LET whole == {i \in effective : records[i].facts.complete}
        hinted == {i \in effective : records[i].facts.positive}
        training == \E i \in effective : records[i].training
        undecided == variant \in {Absent, "quality"}
        form == FormOf(records, whole, hinted)
    IN  IF undecided /\ training /\ whole # {} THEN NoProfile("ambiguous")
        ELSE IF undecided /\ training THEN Profile("training", Absent, {}, TRUE)
        ELSE IF variant # Absent /\ (~undecided \/ hinted # {})
        THEN IF Cardinality({records[i].facts.form : i \in whole}) > 1
             THEN Profile("benchmark", variant, {}, FALSE)
             ELSE Profile("benchmark", variant,
                          IF form = {} THEN {"raw_run_series"} ELSE form, whole # {})
        ELSE IF \E i \in effective : records[i].shape
             THEN Profile("training", Absent, {}, FALSE)
             ELSE NoProfile("unresolved")

SelectOf(variant, records) == SelectAmong(variant, records, Effective(records))

\* select_evidence_profile, over the approved mapping or over all candidates.
SelectProfile(variant, mappings, evidence) ==
    SelectOf(variant, ProfileRecords(variant, mappings, evidence))

MaxExecutableBindings == 16

\* mapping_matches_evidence_profile
MatchesProfile(m, profile, evidence) ==
    IF profile.id = "training" THEN TrainingComplete(m, evidence)
    ELSE LET facts == BenchmarkFacts(m, evidence, profile.variant)
         IN  /\ Cardinality(m.bindings) <= MaxExecutableBindings
             /\ facts.complete
             /\ profile.form \in {{}, facts.form}
====
