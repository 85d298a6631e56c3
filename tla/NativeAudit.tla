------------------------------- MODULE NativeAudit -------------------------------
(***************************************************************************)
(* claimci/audit.py audit_research with the checks of config_check.py,     *)
(* result_check.py and dataset_check.py: eight artifacts are read one      *)
(* after the other, each becomes findings alone or with its counterpart,   *)
(* and the findings decide the verdict.  The datasets may come from the    *)
(* context of a streaming audit instead.                                   *)
(***************************************************************************)
EXTENDS Datasets, ResultCheck, MeasurementDrift, SequencesExt

CONSTANTS
    WorldChoices,  \* contents of the artifacts
    Replacements,  \* those another process may put in their place
    ClaimChoices,  \* what the manifest claims
    MaxEdits       \* bound: artifacts edited while the audit reads

Kinds == {"config", "results"} \cup Splits
Artifacts == Kinds \X Experiments

\* _evaluation_mapping_complete
Declares(evaluation) == DatasetTokens \subseteq Tokens(evaluation)

\* 0 is a number that is missing or not positive; evaluation is a set of <<field,
\* value>> pairs, flat when all are scalars; described holds what is only compared.
\* claimed is empty or holds the summary.  A dataset that is not text has a
\* malformed line; the limit on the length of a record is the stream's.
IsConfig(c) ==
    /\ {c.readable, c.complete, c.flat} \subseteq BOOLEAN
    /\ {c.steps, c.epochs, c.batch} \subseteq Nat /\ IsFiniteSet(c.evaluation)
    /\ c.complete => c.steps * c.epochs * c.batch > 0 /\ Declares(c.evaluation)

IsResults(r) ==
    /\ r.readable \in BOOLEAN /\ r.claimed \subseteq -Largest..Largest
    /\ r.runs \in Seq([value : -Largest..Largest, seed : {run.seed : run \in Range(r.runs)}])

IsWorld(w) ==
    /\ DOMAIN w = {"config", "results", "data"}
    /\ DOMAIN w.config = Experiments /\ DOMAIN w.results = Experiments
    /\ \A x \in Experiments : IsConfig(w.config[x]) /\ IsResults(w.results[x])
    /\ w.data \in [Keys -> Seq(LineKinds \ {"too_long"})]

ASSUME WorldAssumption ==
    /\ Largest \in Nat /\ MaxEdits \in Nat /\ Replacements \subseteq WorldChoices
    /\ \A w \in WorldChoices : IsWorld(w) /\ w.data \in FileChoices
    /\ \A c \in ClaimChoices :
         /\ {c.usable, c.higher, c.sameDatasets} \subseteq BOOLEAN /\ c.threshold \in 0..Largest
         /\ c.identity \in {None, "verified", "foreign"}

VARIABLES
    claim,
    world,    \* the artifacts
    streamed, \* whether there is a dataset_scan_context
    looked,   \* what its four scans have looked at, as in DatasetFacts
    edits,
    at,       \* the artifact read next
    seen,     \* what each artifact held when it was read
    loaded,   \* the artifacts that could be read
    findings,
    verdict

vars == <<claim, world, streamed, looked, edits, at, seen, loaded, findings, verdict>>

-----------------------------------------------------------------------------------
(* config_check.py                                                           *)

\* _compute_proxies: steps and epochs, alone and times the batch size.
Proxies(c) == << c.steps * c.batch, c.steps, c.epochs * c.batch, c.epochs >>

\* The first proxy both sides have; none of them is 0 then.
Bases(b, c) == {i \in 1..4 : Proxies(b)[i] > 0 /\ Proxies(c)[i] > 0}

ComputeMismatch(b, c) ==
    \E i \in Bases(b, c) :
        /\ \A j \in Bases(b, c) : i <= j
        /\ 2 * Proxies(c)[i] >= 3 * Proxies(b)[i]

SameParameters(b, c) == <<b.steps, b.epochs, b.batch>> = <<c.steps, c.epochs, c.batch>>

\* A plausible slip: a mapping one side does not declare differs, too.
EvaluationDiffers(b, c) == b.evaluation # c.evaluation

EvaluationMismatch(b, c) ==
    Declares(b.evaluation) /\ Declares(c.evaluation) /\ b.evaluation # c.evaluation

ConfigIssues(b, c) ==
    If(~(b.complete /\ c.complete), Found("CONFIG.MISSING_FIELDS", "both", "INSUFFICIENT"))
    \cup If(ComputeMismatch(b, c), Found("CONFIG.COMPUTE_MISMATCH", "both", "INVALIDATES"))
    \cup If(EvaluationMismatch(b, c), Found("CONFIG.EVALUATION_MISMATCH", "both", "INVALIDATES"))
    \cup If(~SameParameters(b, c) /\ ~ComputeMismatch(b, c),
            Found("CONFIG.TRAINING_PARAMETER_DIFFERENCE", "both", "NONE"))
    \cup If(b.described # c.described, Found("CONFIG.DESCRIPTION_DIFFERENCE", "both", "NONE"))

ConfigFindings(b, c) ==
    {Found("CONFIG.LOADED", "both", "NONE")} \cup ConfigIssues(b, c)
    \cup If(ConfigIssues(b, c) = {}, Found("CONFIG.FAIRNESS_VERIFIED", "both", "NONE"))

-----------------------------------------------------------------------------------
(* result_check.py                                                           *)

ResultFindings(b, c) ==
    IF GainOverflows(b, c, claim) THEN {Found("RESULT.INVALID", "both", "INSUFFICIENT")}
                                  ELSE RunFindings(b, c, claim)

-----------------------------------------------------------------------------------
(* dataset_check.py.                                                         *)

\* A plausible slip: a record that occurs twice in one split is leaked.
LeaksRepeated(train, eval) ==
    \E d \in Digests : Whole(train)[d] + Whole(eval)[d] > 1

\* Counter(train) & Counter(eval)
Leaks(train, eval) ==
    \E d \in Digests : Whole(train)[d] > 0 /\ Whole(eval)[d] > 0

LeakageFinding(x, train, eval) ==
    IF Leaks(train, eval) THEN Found("DATASET.EXACT_LEAKAGE", x, "INVALIDATES")
                          ELSE Found("DATASET.NO_LEAKAGE", x, "NONE")

AlignmentFinding(b, c) ==
    IF Whole(b) = Whole(c) THEN Found("DATASET.EVALUATION_ALIGNED", "both", "NONE")
                           ELSE Found("DATASET.EVALUATION_MISMATCH", "both", "INVALIDATES")

\* The same rules stated by check_streaming_dataset_context.
Stream(files, look) ==
    INSTANCE DatasetFacts WITH looked <- look, outcome <- verdict, findings <- findings

StreamRule == [EXACT_LEAKAGE       |-> <<"DATASET.EXACT_LEAKAGE", "INVALIDATES">>,
               NO_LEAKAGE          |-> <<"DATASET.NO_LEAKAGE", "NONE">>,
               SCAN_INCOMPLETE     |-> <<"DATASET.SCAN_INCOMPLETE", "INSUFFICIENT">>,
               EVALUATION_ALIGNED  |-> <<"DATASET.EVALUATION_ALIGNED", "NONE">>,
               EVALUATION_MISMATCH |-> <<"DATASET.EVALUATION_MISMATCH", "INVALIDATES">>]

StreamFindings(files, look) ==
    {Found(StreamRule[f.rule][1], f.experiment, StreamRule[f.rule][2]) :
        f \in Stream(files, look)!Warranted}

-----------------------------------------------------------------------------------
(* audit_research.                                                           *)

\* Configs, results, then each experiment's splits.
ReadOrder == << <<"config", "baseline">>, <<"config", "candidate">>,
                <<"results", "baseline">>, <<"results", "candidate">>,
                <<"train", "baseline">>, <<"eval", "baseline">>,
                <<"train", "candidate">>, <<"eval", "candidate">> >>

\* load_config, load_results and load_dataset.
Loadable(w, a) ==
    CASE a[1] = "config" -> w.config[a[2]].readable
      [] a[1] = "results" -> w.results[a[2]].readable /\ Summarizable(w.results[a[2]].runs)
      [] OTHER -> Clean(w.data[<<a[2], a[1]>>])

\* What one artifact held.
Copy(s, w, a) ==
    CASE a[1] = "config" -> [s EXCEPT !.config[a[2]] = w.config[a[2]]]
      [] a[1] = "results" -> [s EXCEPT !.results[a[2]] = w.results[a[2]]]
      [] OTHER -> [s EXCEPT !.data[<<a[2], a[1]>>] = w.data[<<a[2], a[1]>>]]

\* A plausible slip: an evaluation that could not be read counts as empty.
ComparisonsEagerly(s, l, a) ==
    LET eval(x) == IF <<"eval", x>> \in l THEN s.data[<<x, "eval">>] ELSE <<>>
    IN IF a = <<"eval", "candidate">>
         THEN {AlignmentFinding(eval("baseline"), eval("candidate"))}
         ELSE {}

\* What is compared once artifact a is read: l is what could be loaded.
Comparisons(s, l, a) ==
    LET both(kind) == {<<kind, "baseline">>, <<kind, "candidate">>} \subseteq l
        whole(x) == {<<"train", x>>, <<"eval", x>>} \subseteq l
    IN CASE a = <<"config", "candidate">> /\ both("config") ->
              ConfigFindings(s.config["baseline"], s.config["candidate"])
         [] a = <<"results", "candidate">> /\ both("results") ->
              ResultFindings(s.results["baseline"], s.results["candidate"])
         [] a[1] = "eval" ->
              If(whole(a[2]), LeakageFinding(a[2], s.data[<<a[2], "train">>],
                                             s.data[<<a[2], "eval">>]))
              \cup If(a[2] = "candidate" /\ both("eval"),
                      AlignmentFinding(s.data[<<"baseline", "eval">>],
                                       s.data[<<"candidate", "eval">>]))
         [] OTHER -> {}

\* _artifact_failure looks at the path a second time to name the rule.
FailureRules ==
    [config  |-> {"CONFIG.MISSING", "CONFIG.INVALID"},
     results |-> {"RESULT.MISSING", "RESULT.INVALID"},
     train   |-> {"DATASET.MISSING", "DATASET.INVALID"},
     eval    |-> {"DATASET.MISSING", "DATASET.INVALID"}]

Failures(a) == {Found(r, a[2], "INSUFFICIENT") : r \in FailureRules[a[1]]}

WholeLook(f) ==
    [done |-> TRUE, lines |-> IF Clean(f) THEN Len(f) ELSE 0, complete |-> Clean(f)]

\* A scan that stopped at a budget or an error before the end of f.
PartLooks(f) == [done : {TRUE}, lines : 0..Len(f), complete : {FALSE}]

Init ==
    /\ claim \in ClaimChoices /\ world \in WorldChoices /\ streamed \in BOOLEAN
    /\ LET looks == [key \in Keys |-> WholeLook(world.data[key])]
       IN looked \in {looks} \cup
            (IF streamed THEN UNION {{[looks EXCEPT ![key] = part] :
                                        part \in PartLooks(world.data[key])} : key \in Keys}
                         ELSE {})
    /\ edits = 0 /\ at = 0 /\ seen = world /\ loaded = {} /\ findings = {}
    /\ verdict = None

\* Another process replaces one artifact that has yet to be read; streamed datasets
\* have been read.
Edit ==
    /\ verdict = None /\ edits < MaxEdits /\ edits' = edits + 1
    /\ \E w \in Replacements, i \in DOMAIN ReadOrder :
         /\ i >= at
         /\ ReadOrder[i][1] \in Splits => ~streamed
         /\ world' = Copy(world, w, ReadOrder[i]) /\ world' # world
    /\ UNCHANGED <<claim, streamed, looked, at, seen, loaded, findings, verdict>>

\* load_research_spec: an unusable manifest ends the audit without a result.
LoadManifest ==
    /\ at = 0 /\ verdict = None
    /\ IF claim.usable THEN at' = 1 /\ UNCHANGED verdict
                       ELSE verdict' = "ERROR" /\ UNCHANGED at
    /\ UNCHANGED <<claim, world, streamed, looked, edits, seen, loaded, findings>>

Read ==
    /\ at \in DOMAIN ReadOrder /\ ~(streamed /\ ReadOrder[at][1] \in Splits)
    /\ LET a == ReadOrder[at]
       IN /\ seen' = Copy(seen, world, a)
          /\ IF Loadable(world, a)
               THEN /\ loaded' = loaded \cup {a}
                    /\ findings' = findings \cup Comparisons(seen', loaded', a)
               ELSE /\ UNCHANGED loaded
                    /\ \E f \in Failures(a) :
                         findings' = findings \cup {f} \cup Comparisons(seen', loaded, a)
    /\ at' = at + 1
    /\ UNCHANGED <<claim, world, streamed, looked, edits, verdict>>

\* check_streaming_dataset_context, for a context of the manifest's datasets only.
UseContext ==
    /\ at \in DOMAIN ReadOrder /\ streamed /\ ReadOrder[at][1] \in Splits /\ verdict = None
    /\ IF claim.sameDatasets
         THEN /\ findings' = findings \cup StreamFindings(world.data, looked)
              /\ at' = Len(ReadOrder) + 1 /\ UNCHANGED verdict
         ELSE verdict' = "ERROR" /\ UNCHANGED <<findings, at>>
    /\ UNCHANGED <<claim, world, streamed, looked, edits, seen, loaded>>

\* _metric_identity_finding, then the verdict.
Judge ==
    /\ at = Len(ReadOrder) + 1 /\ verdict = None
    /\ IF claim.identity = "foreign"
         THEN verdict' = "ERROR" /\ UNCHANGED findings
         ELSE /\ findings' = findings \cup
                   If(claim.identity = "verified",
                      Found("RESULT.METRIC_IDENTITY_VERIFIED", "both", "NONE"))
              /\ verdict' = Verdict(findings')
    /\ UNCHANGED <<claim, world, streamed, looked, edits, at, seen, loaded>>

\* The procedure an experiment was measured by, of what could be read.
Recovered(x) ==
    LET config == seen.config[x]
        eval == IF streamed THEN world.data[<<x, "eval">>] ELSE seen.data[<<x, "eval">>]
    IN  TrainingProtocol("metric",
            IF <<"config", x>> \in loaded /\ config.flat THEN config.evaluation ELSE {},
            IF IF streamed THEN looked[<<x, "eval">>].complete ELSE <<"eval", x>> \in loaded
            THEN {Whole(eval)} ELSE {})

\* measurement_drift of the result.
Report == Drift(Recovered("baseline"), Recovered("candidate"), {f.rule : f \in findings})

Next == Edit \/ LoadManifest \/ Read \/ UseContext \/ Judge

Spec == Init /\ [][Next]_vars

-----------------------------------------------------------------------------------

Looked == \A key \in Keys : looked[key].complete
Everything == loaded = Artifacts \/ (streamed /\ {"config", "results"} \X Experiments = loaded /\ Looked)

FairConfigs(b, c) ==
    /\ b.complete /\ c.complete /\ b.evaluation = c.evaluation
    /\ 2 * c.steps * c.batch < 3 * b.steps * b.batch

IndependentRuns(r) ==
    /\ Len(r.runs) >= 2
    /\ \A i \in DOMAIN r.runs : r.runs[i].seed # None
    /\ IsInjective([i \in DOMAIN r.runs |-> r.runs[i].seed])

HonestSummary(r) == \A c \in r.claimed : c * Len(r.runs) = Total(r.runs)

Improves(b, c) ==
    /\ Gain(b, c, claim) >= claim.threshold * Pairs(b, c)
    /\ Gain(b, c, claim) <= Largest * Pairs(b, c)

SoundSplits(data) ==
    /\ \A x \in Experiments : ~SharedRecord(data[<<x, "train">>], Len(data[<<x, "train">>]),
                                            data[<<x, "eval">>], Len(data[<<x, "eval">>]))
    /\ Whole(data[<<"baseline", "eval">>]) = Whole(data[<<"candidate", "eval">>])

(* The verdict is SUPPORTED exactly for what the manifest claims and all the *)
(* evidence bears out: everything could be read, the configurations are      *)
(* complete and grant the candidate less than half as much compute again,    *)
(* both sides have several runs with seeds of their own, their summaries and *)
(* the improvement follow from the runs, and the evaluations are the same    *)
(* records and unseen in training.  (determine_verdict over the findings of  *)
(* check_configs, check_results and the dataset checks.)                     *)
SupportedIsEarned ==
    verdict \in Verdicts =>
        ((verdict = "SUPPORTED") <=>
            /\ Everything
            /\ FairConfigs(seen.config["baseline"], seen.config["candidate"])
            /\ \A x \in Experiments :
                 IndependentRuns(seen.results[x]) /\ HonestSummary(seen.results[x])
            /\ Improves(seen.results["baseline"], seen.results["candidate"])
            /\ SoundSplits(IF streamed THEN world.data ELSE seen.data))

\* The verdict had only the artifacts of l been readable, all of them in memory.
VerdictFrom(s, l) ==
    Verdict((UNION {Comparisons(s, l, a) : a \in l})
            \cup (UNION {Failures(a) : a \in Artifacts \ l}))

(* Nobody gains by withholding evidence: with any of the artifacts missing   *)
(* the claim is not supported, and what then counts against it would have    *)
(* counted against it anyway.  (audit_research compares only what it could   *)
(* load.)                                                                    *)
WithholdingNeverHelps ==
    verdict \in Verdicts /\ ~streamed =>
        \A l \in SUBSET loaded :
            /\ l # Artifacts => VerdictFrom(seen, l) # "SUPPORTED"
            /\ VerdictFrom(seen, l) = "NOT_SUPPORTED" => verdict = "NOT_SUPPORTED"

\* What the audit of the same files in memory would have said.
InMemory ==
    VerdictFrom([seen EXCEPT !.data = world.data],
                loaded \cup {a \in Splits \X Experiments : Clean(world.data[<<a[2], a[1]>>])})

(* A streaming audit says what the audit in memory says when it has looked   *)
(* at everything, and less when it has not: it never supports more, and of   *)
(* readable files it never invalidates more.  (check_streaming_dataset_context*)
(* against check_dataset_leakage and check_evaluation_alignment.)            *)
StreamedAgrees ==
    streamed /\ verdict \in Verdicts =>
        /\ Looked => verdict = InMemory
        /\ verdict = "SUPPORTED" => InMemory = "SUPPORTED"
        /\ verdict = "NOT_SUPPORTED" /\ (\A key \in Keys : Clean(world.data[key]))
              => InMemory = "NOT_SUPPORTED"

(* The advisory measurement report, which compares the procedures a second   *)
(* time, never contradicts the verdict it is printed beside: a procedure it  *)
(* says has changed is one the Audit invalidates, one it has verified is one *)
(* the Audit found no fault with, and a claim that is supported, of mappings *)
(* the report can hold, has a verified procedure.  (compare_measurement_     *)
(* protocols against check_configs and check_evaluation_alignment.)          *)
ReportFollowsVerdict ==
    verdict \in Verdicts =>
        /\ Report = "invalidates" => verdict = "NOT_SUPPORTED"
        /\ Report = "verified" =>
             {f.rule : f \in findings} \cap
                 {"CONFIG.EVALUATION_MISMATCH", "DATASET.EVALUATION_MISMATCH"} = {}
        /\ verdict = "SUPPORTED" =>
             \/ Report = "verified"
             \/ \E x \in Experiments :
                    LET config == seen.config[x]
                    IN  ~config.flat \/ Cardinality(config.evaluation) > MaxSemanticFields

-----------------------------------------------------------------------------------
(* The inductive invariant behind the theorems.                              *)

\* The artifacts read so far, and what comparing them has given.
Behind ==
    {a \in {ReadOrder[i] : i \in {j \in DOMAIN ReadOrder : j < at}} :
        ~(streamed /\ a[1] \in Splits)}

Compared ==
    (UNION {Comparisons(seen, loaded, a) : a \in Behind})
    \cup (IF streamed /\ at = Len(ReadOrder) + 1
            THEN StreamFindings(world.data, looked) ELSE {})

\* A scan that claims to be complete has looked at all of a readable dataset.
LooksInv ==
    \A key \in Keys :
        /\ looked[key].complete \in BOOLEAN
        /\ looked[key].lines \in 0..Len(world.data[key])
        /\ looked[key].complete => /\ Clean(world.data[key])
                                  /\ looked[key].lines = Len(world.data[key])

\* What was compared stays true of what was seen, and every artifact that could not
\* be read has left a finding; there are no others but the metric identity.
FindingsInv ==
    /\ Compared \subseteq findings
    /\ findings \subseteq Compared \cup (UNION {Failures(a) : a \in Behind \ loaded})
                         \cup {Found("RESULT.METRIC_IDENTITY_VERIFIED", "both", "NONE")}
    /\ \A a \in Behind \ loaded : findings \cap Failures(a) # {}

AuditInv ==
    /\ claim \in ClaimChoices /\ streamed \in BOOLEAN
    /\ IsWorld(world) /\ IsWorld(seen)
    /\ at \in 0..(Len(ReadOrder) + 1)
    /\ streamed => (at <= 5 \/ at = Len(ReadOrder) + 1) /\ LooksInv
    /\ loaded \subseteq Behind /\ \A a \in loaded : Loadable(seen, a)
    /\ verdict \in Verdicts \cup {None, "ERROR"}
    /\ verdict \in Verdicts => at = Len(ReadOrder) + 1 /\ verdict = Verdict(findings)
    /\ FindingsInv
====
