------------------------------- MODULE BenchmarkAudit -------------------------------
(***************************************************************************)
(* benchmark_audit.py: the evidence bound to each role is compared with    *)
(* the other role's and with what is shared, and the results are checked   *)
(* in the form the profile was selected with.                              *)
(*                                                                         *)
(*   observation  [role, metric, value, seed, config, refs, extracted]     *)
(*   claim        with audit [higher, threshold], what is asserted         *)
(*                                                                         *)
(* An Audit that raises yields nothing.  The identity of an approved       *)
(* metric binding is not part of the model.                                *)
(***************************************************************************)
EXTENDS EvidenceProfiles, ResultCheck, MeasurementDrift

\* A seed that is not an integer.
Textual == "textual"

-----------------------------------------------------------------------------------
(* What is bound to a role *)

\* The bindings of a role, in the order of their files.
BoundTo(m, role) ==
    LET bound == {b \in m.bindings : b.role = role}
    IN  CHOOSE s \in [1..Cardinality(bound) -> bound] :
          /\ IsInjective(s)
          /\ \A i, j \in DOMAIN s : i < j => s[i].file <= s[j].file

\* The observations behind a role, in the order of its bindings.
Observed(m, evidence, role) ==
    LET bound == BoundTo(m, role)
        read[n \in 0..Len(bound)] ==
            IF n = 0 THEN <<>> ELSE read[n - 1] \o EvidenceFor(bound[n], evidence).obs
    IN  read[Len(bound)]

\* _config_projection: the profile values of every observation, selected or not.
Projection(obs) ==
    UNION {{<<k, obs[i].config[k]>> : k \in {f \in DOMAIN obs[i].config : f[1] \in ProfileSlots}} :
             i \in DOMAIN obs}

\* It raises: two values of one key, or a scalar out of its range.
ProjectionConflicts(values) ==
    \/ \E x, y \in values : x[1] = y[1] /\ x # y
    \/ \E x \in values : ~Scalar(x[1], x[2])

Given(values, key) == \E x \in values : x[1] = key
ValueOf(values, key) == (CHOOSE x \in values : x[1] = key)[2]

Identities(obs) == {obs[i].metric : i \in DOMAIN obs} \ {Absent}

-----------------------------------------------------------------------------------
(* The protocol *)

ComparedSlots == ProfileSlots \ {"benchmark.subject"}

MismatchRule(slot) ==
    CASE slot = "benchmark.workload" -> "BENCHMARK.WORKLOAD_MISMATCH"
      [] slot = "measurement.metric_identity" -> "BENCHMARK.METRIC_MISMATCH"
      [] OTHER -> "BENCHMARK.CONFIG_MISMATCH"

\* What a derivation multiplies, and where a cost is incurred, may differ.
MayDiffer(variant) ==
    {Evaluator("unit_value"), Evaluator("quantity")}
    \cup (IF variant = "cost" THEN {Environment("provider"), Environment("sku")} ELSE {})

\* _procedure_component
Procedure(slot, values, variant) ==
    {x \in values : x[1][1] = slot /\ x[1] \notin MayDiffer(variant)}

\* A role's own values, over those it shares.
Overlaid(shared, own) == own \cup {x \in shared : ~Given(own, x[1])}

\* _effective_component
InEffect(slot, values, role, variant) ==
    Overlaid(Procedure(slot, values["reference"], variant),
             Procedure(slot, values[role], variant))

ContradictsShared(slot, values, role, variant) ==
    \E x \in Procedure(slot, values["reference"], variant),
       y \in Procedure(slot, values[role], variant) : x[1] = y[1] /\ x # y

\* A plausible slip: what a role says against the shared reference is overlooked.
OnlyBetweenRoles(values, variant) ==
    UNION {LET b == InEffect(slot, values, "baseline", variant)
               c == InEffect(slot, values, "candidate", variant)
           IN  If(b # {} /\ c # {} /\ b # c, Found(MismatchRule(slot), slot, "INVALIDATES")) :
             slot \in ComparedSlots}

ProtocolMismatches(values, variant) ==
    UNION {LET b == InEffect(slot, values, "baseline", variant)
               c == InEffect(slot, values, "candidate", variant)
           IN  If(b # {} /\ c # {} /\ b # c, Found(MismatchRule(slot), slot, "INVALIDATES"))
               \cup {Found(MismatchRule(slot), role, "INVALIDATES") :
                       role \in {r \in Compared : ContradictsShared(slot, values, r, variant)}} :
             slot \in ComparedSlots}

ProtocolFindings(values, obs, variant) ==
    LET mismatches == ProtocolMismatches(values, variant)
        same == /\ Identities(obs["baseline"]) = Identities(obs["candidate"])
                /\ Cardinality(Identities(obs["baseline"])) = 1
    IN  mismatches
        \cup If(mismatches = {} /\ same, Found("BENCHMARK.PROTOCOL_VERIFIED", "both", "NONE"))

-----------------------------------------------------------------------------------
(* The results *)

Insufficient(x) == Found("BENCHMARK.PROCEDURE_INSUFFICIENT", x, "INSUFFICIENT")

\* _raw_results: the runs of the claim's metric.
RawRuns(obs, metric) ==
    LET run(o) == [value |-> o.value, seed |-> IF o.seed = Textual THEN None ELSE o.seed]
        runs[n \in 0..Len(obs)] ==
            IF n = 0 THEN <<>>
            ELSE IF obs[n].metric = metric THEN Append(runs[n - 1], run(obs[n]))
            ELSE runs[n - 1]
    IN  runs[Len(obs)]

RawIssues(role, obs, metric) ==
    If(Identities(obs) \ {metric} # {}, Found("BENCHMARK.METRIC_MISMATCH", role, "INVALIDATES"))
    \cup If(RawRuns(obs, metric) = <<>>, Insufficient(role))

RawSeries(obs, claim) ==
    [x \in Compared |-> [runs |-> RawRuns(obs[x], claim.metric), claimed |-> {}]]

Measured(results) == \A x \in Compared : results[x].runs # <<>>

\* check_results raises on sums or an improvement that leave the finite numbers.
RawRaises(results, claim) ==
    /\ Measured(results)
    /\ \/ \E x \in Compared : ~Summarizable(results[x].runs)
       \/ GainOverflows(results["baseline"], results["candidate"], claim.audit)

RawFindings(obs, claim) ==
    LET results == RawSeries(obs, claim)
    IN  (UNION {RawIssues(x, obs[x], claim.metric) : x \in Compared})
        \cup (IF Measured(results)
              THEN RunFindings(results["baseline"], results["candidate"], claim.audit) ELSE {})

\* _single_metric_value
Scalars(obs, metric) ==
    LET runs == RawRuns(obs, metric)
    IN  IF Len(runs) = 1 THEN {runs[1].value} ELSE {}

ScalarIssues(role, obs, metric) ==
    RawIssues(role, obs, metric) \cup If(Scalars(obs, metric) = {}, Insufficient(role))

\* The statistic and the aggregation are read off the baseline alone.
ReportedFindings(values, obs, claim) ==
    LET value(x) == CHOOSE v \in Scalars(obs[x], claim.metric) : TRUE
        comparable ==
            /\ \A x \in Compared : /\ Given(values[x], Protocol("sample_count"))
                                   /\ Scalars(obs[x], claim.metric) # {}
            /\ Given(values["baseline"], Protocol("statistic"))
            /\ Given(values["baseline"], Protocol("aggregation"))
            /\ ~GainOverflows(Aggregate(value("baseline")), Aggregate(value("candidate")),
                              claim.audit)
    IN  (UNION {ScalarIssues(x, obs[x], claim.metric) : x \in Compared})
        \cup (IF comparable
              THEN AggregateFindings(value("baseline"), value("candidate"), claim.audit)
              ELSE {Insufficient("aggregate")})

\* multiply_v1 of a role's own inputs, where they can be read.
Product(values) ==
    LET factors == {Evaluator("unit_value"), Evaluator("quantity")}
        number(key) == CountOf(ValueOf(values, key))
        product == number(Evaluator("unit_value")) * number(Evaluator("quantity"))
    IN  IF /\ <<Evaluator("formula_family"), "multiply_v1">> \in values
           /\ \A key \in factors : Given(values, key) /\ ValueOf(values, key) \in Digits
           /\ Finite(product)
        THEN {product} ELSE {}

\* What is audited is computed again, but only where something was reported.
Derived(values, obs, metric) ==
    IF Scalars(obs, metric) = {} THEN {} ELSE Product(values)

DerivationIssues(role, values, obs, metric) ==
    (IF Product(values) = {} THEN {} ELSE ScalarIssues(role, obs, metric))
    \cup (IF Derived(values, obs, metric) = {} THEN {Insufficient(role)}
          ELSE If(Product(values) # Scalars(obs, metric),
                  Found("BENCHMARK.DERIVATION_MISMATCH", role, "INVALIDATES")))

DerivedFindings(values, obs, claim) ==
    LET value(x) == CHOOSE v \in Derived(values[x], obs[x], claim.metric) : TRUE
    IN  (UNION {DerivationIssues(x, values[x], obs[x], claim.metric) : x \in Compared})
        \cup (IF \A x \in Compared : Derived(values[x], obs[x], claim.metric) # {}
              THEN AggregateFindings(value("baseline"), value("candidate"), claim.audit)
              ELSE {})

-----------------------------------------------------------------------------------
(* The Audit *)

NoAudit == [verdict |-> None, rules |-> {}, drift |-> None]

\* audit_benchmark, of the mapping a plan selected and the profile it was made under.
AuditBenchmark(claim, m, profile, evidence) ==
    LET obs == [x \in Compared \cup {"reference"} |-> Observed(m, evidence, x)]
        values == [x \in DOMAIN obs |-> Projection(obs[x])]
        effective(x) == [slot \in ComparedSlots |-> InEffect(slot, values, x, profile.variant)]
        metric(x) == CHOOSE i \in Identities(obs[x]) : TRUE
        findings ==
            ProtocolFindings(values, obs, profile.variant)
            \cup CASE profile.form = {"raw_run_series"} -> RawFindings(obs, claim)
                   [] profile.form = {"reported_aggregate"} -> ReportedFindings(values, obs, claim)
                   [] OTHER -> DerivedFindings(values, obs, claim)
        rules == {f.rule : f \in findings}
    IN  IF \/ ~profile.complete \/ ~claim.threshold
           \/ \E x \in DOMAIN obs : ProjectionConflicts(values[x])
           \/ profile.form = {"raw_run_series"} /\ RawRaises(RawSeries(obs, claim), claim)
           \/ \E x \in Compared : Cardinality(Identities(obs[x])) # 1
        THEN NoAudit
        ELSE [verdict |-> Verdict(findings), rules |-> rules,
              drift |-> Drift(BenchmarkProtocol(metric("baseline"), effective("baseline")),
                              BenchmarkProtocol(metric("candidate"), effective("candidate")),
                              rules)]
====
