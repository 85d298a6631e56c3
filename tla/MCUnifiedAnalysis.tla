--------------------------- MODULE MCUnifiedAnalysis ---------------------------
(* Instances of UnifiedAnalysis small enough for TLC. *)
EXTENDS UnifiedAnalysis, TLC

-----------------------------------------------------------------------------------
(* A training experiment: files 1 to 4 of the baseline, 5 to 8 of the candidate  *)

Steps == <<"training", "steps">>
Procedures == <<"evaluation", "aggregation">>

Nothing == [k \in {} |-> "none"]

Observation(metric, value, seed, config, refs) ==
    [role |-> "unspecified", metric |-> metric, value |-> value, seed |-> seed,
     config |-> config, refs |-> refs, extracted |-> TRUE]

Run(metric, value, seed) == Observation(metric, value, seed, Nothing, {})

Ev(file, kind, fields, obs) ==
    [file |-> file, kind |-> kind, adapter |-> "json", fields |-> fields,
     extracted |-> TRUE, claims |-> {"c1"}, obs |-> obs]

KindOf == <<"results", "config", "dataset", "dataset", "results", "config", "dataset", "dataset">>
RoleOf(f) == IF f <= 4 THEN "baseline" ELSE "candidate"
SplitOf(f) == IF f \in {3, 7} THEN "train" ELSE IF f \in {4, 8} THEN "eval" ELSE Absent

ResultsOf(f) == Ev(f, "results", {MetricValue}, <<Run("acc", 1, "s1"), Run("acc", 2, "s2")>>)
ConfigOf(f) ==
    Ev(f, "config", {Steps, Procedures},
       <<Observation(Absent, 0, None, (Steps :> "2") @@ (Procedures :> "arithmetic_mean_v1"), {})>>)
DatasetOf(f) == Ev(f, "dataset", {}, <<Observation(Absent, 0, None, Nothing, {f})>>)

EvidenceOf(f) ==
    CASE KindOf[f] = "results" -> ResultsOf(f)
      [] KindOf[f] = "config" -> ConfigOf(f)
      [] OTHER -> DatasetOf(f)

Artifact(file, kind, role, split, confidence) ==
    [file |-> file, kind |-> kind, claims |-> {"c1"}, role |-> role, split |-> split,
     confidence |-> confidence]

ArtifactOf(f) == Artifact(f, KindOf[f], RoleOf(f), SplitOf(f), 90)

Claim(primary, variant, threshold, unit, procedure) ==
    [id |-> "c1", primary |-> primary, metric |-> "acc", variant |-> variant,
     threshold |-> threshold, unit |-> unit, heldOut |-> TRUE, procedure |-> procedure,
     audit |-> [higher |-> TRUE, threshold |-> 1]]

Improved == Claim("improvement", Absent, TRUE, FALSE, Absent)

Claims ==
    {Improved, [Improved EXCEPT !.variant = "quality"], [Improved EXCEPT !.threshold = FALSE],
     [Improved EXCEPT !.unit = TRUE], [Improved EXCEPT !.procedure = "arithmetic_mean_v1"],
     [Improved EXCEPT !.procedure = "median"], [Improved EXCEPT !.primary = "absolute"]}

Files(fs) == [artifacts |-> {ArtifactOf(f) : f \in fs}, evidence |-> {EvidenceOf(f) : f \in fs}]

Sound == Files(1..8)

Instead(files, new) == [files EXCEPT !.evidence = {e \in @ : e.file # new.file} \cup {new}]

\* What a file may hold that does not serve its slot, or serves it another way.
OddEvidence ==
    UNION {{[EvidenceOf(f) EXCEPT !.obs[1].role = RoleOf(9 - f)],
            [EvidenceOf(f) EXCEPT !.adapter = "csv"],
            [EvidenceOf(f) EXCEPT !.extracted = FALSE],
            [EvidenceOf(f) EXCEPT !.claims = {"c2"}]} : f \in {1, 2, 4}}
    \cup {[ResultsOf(5) EXCEPT !.obs[2].seed = Textual],
          [ResultsOf(5) EXCEPT !.obs[1].metric = "f1", !.obs[2].metric = "f1"],
          [ConfigOf(6) EXCEPT !.obs[1].config = Nothing],
          [ConfigOf(6) EXCEPT !.obs = @ \o @],
          [ConfigOf(6) EXCEPT !.obs[1].config[Procedures] = "median"],
          [DatasetOf(8) EXCEPT !.obs[1].refs = {4}], [DatasetOf(8) EXCEPT !.obs = @ \o @]}

\* File 9 beside another: a second candidate for its slot, sure or not.
Beside(f, confidence) ==
    [artifacts |-> Sound.artifacts
                   \cup {Artifact(9, KindOf[f], RoleOf(f), SplitOf(f), confidence)},
     evidence |-> Sound.evidence
                  \cup {IF KindOf[f] = "dataset" THEN DatasetOf(9)
                        ELSE [EvidenceOf(f) EXCEPT !.file = 9]}]

OddBeside == {Instead(Beside(5, 90), [ResultsOf(9) EXCEPT !.obs = <<Run("f1", 1, "s1")>>]),
              Instead(Beside(1, 90), [ResultsOf(1) EXCEPT !.obs = <<Run("f1", 1, "s1")>>])}

Trees ==
    {Sound} \cup {Files(1..8 \ {f}) : f \in {1, 3, 6}}
    \cup {[Sound EXCEPT !.evidence = {e \in @ : e.file # f}] : f \in {2, 4}}
    \cup {Instead(Sound, e) : e \in OddEvidence}
    \cup {[Sound EXCEPT !.evidence = @ \cup {[ResultsOf(1) EXCEPT !.adapter = "csv"]}]}
    \cup {Beside(f, confidence) : f \in {2, 5, 8}, confidence \in {90, 80, 70}}
    \cup OddBeside

Bound(f, prov) ==
    [Binding(ArtifactOf(f), RoleOf(f), SplitOf(f)) EXCEPT !.prov = prov]

\* The same slots, file 9 in the place of f or beside it.
Whole(prov) == {Bound(f, prov) : f \in 1..8}
Nine(f, prov) == [Bound(f, prov) EXCEPT !.file = 9]
Exchanged(f, prov) == (Whole(prov) \ {Bound(f, prov)}) \cup {Nine(f, prov)}
Added(f, prov) == Whole(prov) \cup {Nine(f, prov)}

Proposals ==
    {{}} \cup {{Mapping(bs, "provider", 95)} :
                 bs \in {Whole("provider"), Exchanged(2, "provider"), Added(2, "provider"),
                         Added(5, "provider"), Exchanged(8, "provider")}}
    \cup {{Mapping(Whole("provider"), "provider", 80),
           Mapping(Exchanged(5, "provider"), "provider", 80)}}

Manifests ==
    {{}} \cup {{Mapping(bs, "manifest", c)} :
                 bs \in {Whole("manifest"), Added(2, "manifest"),
                         (Whole("manifest") \ {Bound(5, "manifest")}) \cup {Bound(5, "provider")}},
                 c \in {95, 85}}

Approval(bs) == {[bindings |-> bs, prov |-> "human", confidence |-> 100, approved |-> TRUE]}
Approvals == {{}, Approval(Whole("human")), Approval(Exchanged(5, "human")),
              Approval(Whole("human") \ {Bound(7, "human")}), Approval(Exchanged(2, "human"))}

World(claim, files, manifests, proposals, approval) ==
    [repo |-> [claim |-> claim, claims |-> {"c1", "c2"}, artifacts |-> files.artifacts,
               evidence |-> files.evidence, manifests |-> manifests, proposals |-> proposals],
     approved |-> approval]

TrainingWorlds ==
    {World(claim, files, {}, {}, {}) : claim \in Claims, files \in Trees}
    \cup {World(Improved, files, {}, proposals, approval) :
            files \in Trees, proposals \in Proposals, approval \in {{}}}
    \cup {World(Improved, files, manifests, {}, {}) : files \in Trees, manifests \in Manifests}
    \cup {World(Improved, files, {}, {}, approval) : files \in Trees, approval \in Approvals}
    \cup {World(claim, files, {}, {}, Approval(Whole("human"))) :
            claim \in Claims, files \in {Sound, Beside(5, 90)}}
    \cup {World(Improved, Beside(f, 90), {}, {}, Approval(Added(f, "human"))) : f \in {2, 5}}

-----------------------------------------------------------------------------------
(* A benchmark: file 1 of the baseline, 2 of the candidate, 3 shared by both     *)

Ask == [latency |-> "time", cost |-> "dollars", quality |-> "acc"]

Benchmarked(variant) ==
    [Claim("improvement", variant, TRUE, FALSE, Absent) EXCEPT
        !.metric = Ask[variant], !.heldOut = FALSE,
        !.audit = [higher |-> variant = "quality", threshold |-> 1]]

FormKeys(form) ==
    CASE form = "raw_run_series" -> {Protocol("sample_count"), Protocol("aggregation")}
      [] form = "reported_aggregate" ->
            {Protocol(f) : f \in {"result_form", "sample_count", "aggregation", "statistic"}}
      [] OTHER -> {Protocol("result_form"), Evaluator("formula_family"), Evaluator("unit_value"),
                   Evaluator("quantity")}

AllKeys(variant, form) ==
    {Subject("name"), Workload("id"), Config("timing_boundary"), Protocol("warmup")}
    \cup RequiredKeys(variant, {form}) \cup FormKeys(form)
    \cup {CHOOSE k \in keys : TRUE : keys \in AlternativeKeys(variant)}

\* The better file has the lower value, but for a quality the higher one.
Figure(variant, f) == IF (variant = "quality") = (f = 1) THEN 1 ELSE 3

Usual(key, variant, form, f) ==
    CASE key = Protocol("aggregation") -> "arithmetic_mean_v1"
      [] key = Protocol("result_form") -> form
      [] key = Protocol("sample_count") -> "2"
      [] key = Evaluator("formula_family") -> "multiply_v1"
      [] key \in {Evaluator("quantity"), Subject("name")} -> ToString(Figure(variant, f))
      [] key = Evaluator("unit_value") -> "1"
      [] key \in PositiveKeys \cup NonnegativeKeys -> "1"
      [] OTHER -> "x"

Measurement(variant, form, f) ==
    LET all == [k \in AllKeys(variant, form) |-> Usual(k, variant, form, f)]
        v == Figure(variant, f)
        first == Observation(Ask[variant], v, "s1", all, {})
    IN  Ev(f, "results", {MetricValue} \cup DOMAIN all,
           IF form = "raw_run_series" THEN <<first, Run(Ask[variant], v, "s2")>> ELSE <<first>>)

Shared(config) == Ev(3, "config", DOMAIN config,
                     <<Observation(Absent, 0, None, config, {})>>)

Files3(e, f, g) ==
    [artifacts |-> {Artifact(1, "results", "baseline", Absent, 90),
                    Artifact(2, "results", "candidate", Absent, 90),
                    Artifact(3, "config", "unspecified", Absent, 90)},
     evidence |-> {e, f, g}]

Without(fn, k) == [x \in DOMAIN fn \ {k} |-> fn[x]]
Only(fn, k) == [x \in {k} |-> fn[x]]

\* Another value of a key, in its range, but for the aggregation.
Other(key, value) ==
    IF key = Protocol("result_form") THEN "reported_aggregate"
    ELSE IF value \in Digits THEN "2" ELSE "y"

Unselected(metric, config) ==
    [Observation(metric, 1, "s3", config, {}) EXCEPT !.extracted = FALSE]

\* One file says something else than usual.
Twisted(e) ==
    LET all == e.obs[1].config
        metric == e.obs[1].metric
    IN  {[e EXCEPT !.obs[1].config[k] = Other(k, all[k])] : k \in DOMAIN all}
        \cup {[e EXCEPT !.obs[1].config = Without(all, k)] : k \in DOMAIN all}
        \cup {[e EXCEPT !.obs = Append(@, Unselected(Absent, Only(all, k)))] : k \in DOMAIN all}
        \cup {[e EXCEPT !.obs = Append(@, Unselected(Absent, k :> Other(k, all[k])))] :
                k \in {Workload("id"), Protocol("warmup")}}
        \cup {[e EXCEPT !.obs = Append(@, Unselected(x, Nothing))] : x \in {metric, "foreign"}}
        \cup {[e EXCEPT !.obs[1].metric = "foreign"], [e EXCEPT !.obs[1].value = 2],
              [e EXCEPT !.obs[1].value = 9], [e EXCEPT !.obs[1].seed = Textual],
              [e EXCEPT !.obs[1].seed = None], [e EXCEPT !.obs[1].role = "baseline"],
              [e EXCEPT !.obs[1].extracted = FALSE],
              [e EXCEPT !.obs[1].config = (Evaluator("prompt") :> "x") @@ all,
                        !.fields = @ \cup {Evaluator("prompt")}]}

Pure(variant, form) ==
    Files3(Measurement(variant, form, 1), Measurement(variant, form, 2), Shared(Nothing))

\* A key the files share, or that the shared file gives as well.
SharedKeys(variant, form) ==
    {k \in AllKeys(variant, form) : Usual(k, variant, form, 1) = Usual(k, variant, form, 2)}

Sharing(variant, form, k) ==
    LET e(f) == Measurement(variant, form, f)
        all(f) == e(f).obs[1].config
        less(f) == [e(f) EXCEPT !.obs[1].config = Without(all(f), k), !.fields = @ \ {k}]
    IN  {Files3(less(1), less(2), Shared(Only(all(1), k))),
         Files3(less(1), e(2), Shared(Only(all(1), k)))}
        \cup {Files3(e(1), e(2), Shared(k :> v)) : v \in {all(1)[k], Other(k, all(1)[k])}}

Asked == {<<v, form>> \in {"latency", "cost", "quality"} \X ResultForms : TRUE}

BenchmarkBinding(f, role, prov) ==
    [file |-> f, kind |-> IF f = 3 THEN "config" ELSE "results", role |-> role,
     split |-> Absent, adapter |-> Absent, fields |-> {}, prov |-> prov]

Two(prov) == {BenchmarkBinding(1, "baseline", prov), BenchmarkBinding(2, "candidate", prov)}
Three(prov) == Two(prov) \cup {BenchmarkBinding(3, "reference", prov)}

BenchmarkWorlds ==
    {World(Benchmarked(a[1]), Pure(a[1], a[2]), {}, {}, approval) :
       a \in Asked, approval \in {{}, Approval(Two("human")), Approval(Three("human"))}}
    \cup UNION {{World(Benchmarked(a[1]), Instead(Pure(a[1], a[2]), e), {}, {}, {}) :
                   e \in UNION {Twisted(Measurement(a[1], a[2], f)) : f \in {1, 2}}} :
                a \in Asked}
    \cup UNION {{World(Benchmarked(a[1]), files, {}, {}, Approval(Three("human"))) :
                   files \in UNION {Sharing(a[1], a[2], k) : k \in SharedKeys(a[1], a[2])}} :
                a \in Asked}
    \cup UNION {{World(Benchmarked(a[1]), files, {Mapping(Three("manifest"), "manifest", 95)},
                       {}, {}) :
                   files \in UNION {Sharing(a[1], a[2], k) : k \in {Workload("id")}}} :
                a \in Asked}

\* A provider reads a benchmark, or one more file, beside a training experiment.
Benchmark(f) == [Measurement("quality", "raw_run_series", f) EXCEPT !.file = f + 10,
                                                                    !.kind = "benchmark"]
Beneath ==
    [artifacts |-> Sound.artifacts
                   \cup {Artifact(f + 10, "benchmark", "unspecified", Absent, 90) : f \in {1, 2}},
     evidence |-> Sound.evidence \cup {Benchmark(1), Benchmark(2)}]
OfBenchmark(f) ==
    [BenchmarkBinding(f, RoleOf(4 * f), "provider") EXCEPT !.file = f + 10, !.kind = "benchmark"]

MixedWorlds ==
    {World([Improved EXCEPT !.variant = variant], Beneath, {},
           {Mapping(bindings, "provider", 95)}, {}) :
       variant \in {Absent, "quality"},
       bindings \in {{OfBenchmark(1), OfBenchmark(2)}, Whole("provider") \cup {OfBenchmark(1)}}}

\* File 4 is a second candidate of a benchmark; a person or a provider knows of both.
Rivals(variant, form) ==
    [Pure(variant, form) EXCEPT
        !.artifacts = @ \cup {Artifact(4, "results", "candidate", Absent, 90)},
        !.evidence = @ \cup {[Measurement(variant, form, 2) EXCEPT !.file = 4]}]
With(f, prov) == {BenchmarkBinding(1, "baseline", prov), BenchmarkBinding(f, "candidate", prov)}
Either(prov) == {Mapping(With(f, prov), prov, 95) : f \in {2, 4}}

RivalWorlds ==
    UNION {{World(Benchmarked(a[1]), Rivals(a[1], a[2]), Either("manifest"), {}, {}),
            World(Benchmarked(a[1]), Rivals(a[1], a[2]), {}, Either("provider"), {})} : a \in Asked}

\* Files 1 and 9 serve both claims, and a sure choice between them is made for one of the
\* two only, as file 10 competes for the other.
SharedFiles ==
    [artifacts |->
        {[ArtifactOf(1) EXCEPT !.claims = {"c1", "c2"}, !.confidence = 100],
         [Artifact(9, "results", "baseline", Absent, 85) EXCEPT !.claims = {"c1", "c2"}],
         [Artifact(10, "results", "baseline", Absent, 95) EXCEPT !.claims = {"c2"}]}
        \cup {ArtifactOf(f) : f \in 2..8},
     evidence |-> Beside(1, 90).evidence]

SharedWorlds ==
    {World(Improved, SharedFiles, manifests, proposals, {}) :
       manifests \in {{}, {Mapping(Exchanged(1, "manifest"), "manifest", 95)}},
       proposals \in {{}} \cup {{Mapping(bs, "provider", 95)} :
                                 bs \in {Whole("provider"), Exchanged(1, "provider")}}}

AllRepositories ==
    TrainingWorlds \cup BenchmarkWorlds \cup MixedWorlds \cup RivalWorlds \cup SharedWorlds

AnyRewritten ==
    {[ResultsOf(5) EXCEPT !.obs[1].metric = "f1", !.obs[2].metric = "f1"],
     [ResultsOf(5) EXCEPT !.adapter = "csv"], [ConfigOf(6) EXCEPT !.obs[1].role = "baseline"],
     [ConfigOf(6) EXCEPT !.obs[1].config = Nothing], [DatasetOf(8) EXCEPT !.obs = @ \o @]}
====
