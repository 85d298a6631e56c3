----------------------------- MODULE MeasurementDrift -----------------------------
(***************************************************************************)
(* measurement.py: what is recovered of the procedure each side was        *)
(* measured by, and whether it is the same one.  The report is advisory:   *)
(* it refers to the findings of the Audit and adds none.                   *)
(*                                                                         *)
(*   component  [coverage, fields], fields a set of <<key, value>> pairs;  *)
(*              an identity commits to both and to nothing else            *)
(*   protocol   a function from component kinds to components              *)
(*                                                                         *)
(* Source snapshots and the binding identities of components have no       *)
(* bearing on the states: nothing recovers a component as bytes only.      *)
(***************************************************************************)
EXTENDS Naturals, FiniteSets

MaxSemanticFields == 32

RequiredKinds == {"metric", "evaluation_dataset", "evaluation_config"}

\* _component_from_values: too many fields are as good as none.
Component(fields, required) ==
    IF fields # {} /\ Cardinality(fields) <= MaxSemanticFields
    THEN [coverage |-> "recovered", fields |-> fields]
    ELSE [coverage |-> IF required THEN "missing" ELSE "not_applicable", fields |-> {}]

-----------------------------------------------------------------------------------
(* A training experiment *)

\* The optional component an evaluation key belongs to.
OptionalTokens ==
    [evaluator_implementation     |-> {"evaluator", "scorer"},
     prompt_template              |-> {"prompt", "prompt_template", "template"},
     decoding_parameters          |-> {"decoding", "sampling"},
     test_selection               |-> {"test_selection", "selection", "subset", "filter"},
     retry_aggregation            |-> {"aggregation", "aggregation_procedure", "retry",
                                       "adjudication"},
     normalization_postprocessing |-> {"normalization", "postprocessing", "postprocess"},
     benchmark_version            |-> {"benchmark"}]

MetricTokens == {"metric", "metric_name", "metric_definition", "metric_version",
                 "metric_config"}

DatasetTokens == {"dataset_identifier", "dataset_version", "split"}

Tokens(evaluation) == {x[1] : x \in evaluation}

Restricted(evaluation, tokens) == {x \in evaluation : x[1] \in tokens}

\* _dataset_values: the declared identity and the multiset of the records; records is
\* {} or holds the multiset of a dataset that was read completely.
DatasetFields(evaluation, records) ==
    IF records = {} \/ ~(DatasetTokens \subseteq Tokens(evaluation)) THEN {}
    ELSE Restricted(evaluation, DatasetTokens) \X records

\* _recover_protocol; the flattened evaluation mapping is empty where none is recovered.
TrainingProtocol(metric, evaluation, records) ==
    [kind \in RequiredKinds \cup DOMAIN OptionalTokens |->
       CASE kind = "metric" ->
              Component({<<"name", metric>>} \cup Restricted(evaluation, MetricTokens), TRUE)
         [] kind = "evaluation_dataset" -> Component(DatasetFields(evaluation, records), TRUE)
         [] kind = "evaluation_config" -> Component(evaluation, TRUE)
         [] OTHER -> Component(Restricted(evaluation, OptionalTokens[kind]), FALSE)]

-----------------------------------------------------------------------------------
(* A benchmark *)

BenchmarkSource ==
    [metric                       |-> "measurement.metric_identity",
     evaluation_dataset           |-> "benchmark.workload",
     evaluation_config            |-> "benchmark.measurement_config",
     retry_aggregation            |-> "benchmark.run_protocol",
     evaluator_implementation     |-> "benchmark.evaluator",
     benchmark_version            |-> "benchmark.environment"]

BenchmarkRequired == RequiredKinds \cup {"retry_aggregation"}

\* _recover_benchmark_protocol: fields is a function from component prefixes.
BenchmarkProtocol(metric, fields) ==
    [kind \in RequiredKinds \cup DOMAIN OptionalTokens |->
       IF kind \notin DOMAIN BenchmarkSource THEN Component({}, FALSE)
       ELSE Component(fields[BenchmarkSource[kind]]
                      \cup (IF kind = "metric"
                            THEN {<<<<BenchmarkSource[kind], "name">>, metric>>} ELSE {}),
                      kind \in BenchmarkRequired)]

-----------------------------------------------------------------------------------
(* The comparison *)

\* The findings of the Audit that can stand behind a difference.
Invalidating(kind) ==
    CASE kind = "evaluation_dataset" ->
            {"DATASET.EVALUATION_MISMATCH", "CONFIG.EVALUATION_MISMATCH",
             "BENCHMARK.WORKLOAD_MISMATCH"}
      [] kind = "metric" -> {"CONFIG.EVALUATION_MISMATCH", "BENCHMARK.METRIC_MISMATCH"}
      [] OTHER -> {"CONFIG.EVALUATION_MISMATCH", "BENCHMARK.CONFIG_MISMATCH"}

\* A plausible slip: a difference invalidates whether or not the Audit found it.
StateAlone(kind, b, c, rules) ==
    CASE b.coverage = "not_applicable" /\ c.coverage = "not_applicable" -> "not_assessed"
      [] "missing" \in {b.coverage, c.coverage} -> "insufficient"
      [] b = c -> "verified"
      [] OTHER -> "invalidates"

\* _component_state
State(kind, b, c, rules) ==
    LET coverages == {b.coverage, c.coverage}
        compared == "missing" \notin coverages /\ coverages # {"not_applicable"}
    IN
    CASE coverages = {"not_applicable"} -> "not_assessed"
      [] "missing" \in coverages -> "insufficient"
      [] compared /\ b = c -> "verified"
      [] OTHER -> IF rules \cap Invalidating(kind) # {} THEN "invalidates"
                                                       ELSE "insufficient"

\* compare_measurement_protocols: the gravest state of any component.
Drift(baseline, candidate, rules) ==
    LET states == {State(k, baseline[k], candidate[k], rules) : k \in DOMAIN baseline}
    IN  CASE "invalidates" \in states -> "invalidates"
          [] "invalidates" \notin states /\ "insufficient" \in states -> "insufficient"
          [] {"invalidates", "insufficient"} \cap states = {} /\ "verified" \in states ->
                "verified"
          [] OTHER -> "not_assessed"
====
