# A TLA+ development of ClaimCI

ClaimCI reads the research artifacts of a pull request, re-derives what they
support, and publishes two GitHub checks: a deterministic audit of the claim in
`research.yaml`, and an advisory, always neutral research review written with
two calls to a language model.  This directory models the parts whose
correctness depends on order, interference, budgets and partial failure, checks
them with TLC on small instances, and proves the most important facts with the
TLA+ proof system.

Paths below are relative to `src/`.

## 1. The system

| part | files | state it keeps | operations |
|---|---|---|---|
| Streamed source and scan | `claimci/analysis/artifact_source.py`, `claimci/analysis/adapters/streaming.py` | issued identities, open descriptor, running hash, byte counters, parser position | issue source, open scan, read chunk, drain, verify, finish, close; schema and observation extraction |
| Streaming dataset audit | `claimci/analysis/streaming_dataset.py`, `claimci/dataset_check.py` | SQLite spill of record hashes, scratch budget, four scan reports, lifecycle of the factory-only context | scan a split, add a batch, drop a failed split, count, intersect, compare, close |
| Research review | `claimci/review/orchestrator.py`, `provider.py`, `tools.py`, `evidence.py`, `sources.py` | calls made, token bounds, parsed claims, evidence routing | extract claims, run manifest audits, synthesise, classify the outcome |
| Check publication | `.github/workflows/claimci.yml`, `claimci-external.yml`, `claimci/github.py`, `claimci/review/github.py` | step outcomes, output files, published check runs | audit, build payload, publish, review of fork heads in a second job |
| Ephemeral execution | `claimci/analysis/materialize.py` | plan tree in a scratch root, captured artifacts, root identities | validate, capture, create exclusively, write, audit, trace, clean up |
| Unified analysis | `claimci/analysis/integration.py`, `claimci/review/analysis_bridge.py` | plan, deterministic outcome, advisory interpretation | plan, execute, one advisory call, attach |
| Mapping discovery | `claimci/analysis/discovery/mappings.py` | none between calls | propose mappings, rank them, ask one question |
| Planner and obligations | `claimci/analysis/planner.py`, `obligations.py`, `profiles.py`, `evidence_identity.py`, `claim_types.py` | none between calls | scope to a claim, select profile and mapping, assess obligations, ask, derive plan identity |
| Metric bindings | `claimci/analysis/metric_identity.py` | none between calls | propose, approve and integrate a pair of metric endpoints |
| Passive capture | `claimci/passive_files.py` | component identities of one capture | look up, open, read, re-verify |
| Native audit | `claimci/audit.py`, `config_check.py`, `result_check.py`, `dataset_check.py` | findings in order | check configs, results, datasets, metric identity; determine verdict |
| Benchmark audit | `claimci/benchmark_audit.py`, `claimci/measurement.py` | none | compare protocols, check results in one of three forms, report drift |
| Contracts and trace | `claimci/analysis/contracts.py`, `trace.py` | immutable values | construct, hash, compare |
| Discovery | `claimci/analysis/discovery/*` but for mappings, `claimci/analysis/claims.py` | candidate lists | enumerate repository, find claims and artifacts |
| Adapters over bytes | `claimci/analysis/adapters/*` | none | parse one captured artifact |
| Command line, reports | `claimci/cli.py`, `report.py`, `review/report.py`, `parsing.py`, `models.py` | none | render, exit codes |

The streamed reader, the spill, the ephemeral tree and the passive capture run
in one process but share the file system with whatever else runs on the
machine.  The two check jobs run in parallel on separate runners and meet only
in job outputs and in the check runs they publish.  Nothing is persisted between
runs.

### What is hard about it

* **Interference.**  Research artifacts are read from a checkout that other
  processes may edit.  The streamed reader opens an artifact twice and looks at
  path, parent, root and descriptor in more than ten separate system calls; two
  executions of one plan, or a stranger, may use the same scratch root.
* **Budgets.**  Every reader stops at limits of bytes, records, files or rows.
  At each limit the question is the same: was this all there was?  An answer
  that is wrong by one turns a partial look into a complete one.
* **Partial failure.**  Scans, batches, datasets, audits, workflow steps and
  calls to the model fail one at a time while their neighbours succeed, and
  handlers run code that can fail again.
* **Two decisions about one fact.**  A manifest is planned twice, leakage is
  decided by two implementations, a job's status and a check's conclusion are
  set by different steps; whether a mapping is to be trusted is asked by
  discovery, profiles, obligations and planner, each of a differently narrowed
  version of it.
* **Answers that outlive what they were given for.**  A question is answered
  against one commit and laid over what is discovered at the next.

There is no retry, no queue and no message passing in the program; ordering and
delivery only arise between the jobs of the workflow.

### What makes each part correct

| part | correct when |
|---|---|
| Streamed source and scan | evidence is computed from exactly the recorded bytes, both times; a report is never issued over a file that changed; budgets bound the work; it always ends |
| Streaming dataset audit | every finding is true of the whole datasets; failed splits contribute nothing; what fits the budgets is decided; the spill is removed |
| Native audit | SUPPORTED is earned; missing evidence never helps; both dataset checks agree; the drift report never contradicts the verdict |
| Benchmark audit | SUPPORTED only for two measurements of one metric by one procedure |
| Ephemeral execution | a result comes from the tree the execution wrote; it removes that tree and no other; nobody waits |
| Research review | one limit of files holds for both calls; planned audits run; COMPLETE means nothing was dropped |
| Check publication | a check on a commit is about that commit; every failure leaves a check; the job's status tells integration failures from verdicts |
| Unified analysis | an advisory failure leaves the deterministic outcome alone; no outcome without an audit; a failure names what is missing |
| Mapping discovery, planner | a plan rests on evidence alone; what a provider proposes leads to questions only; an approval is final; what was answered is not asked again |
| Passive capture | captured bytes are one content that the path named during the call |

The hazards behind these, with the line at which each bites and the property
that would catch it, are listed in `PROJECT.json`.

## 2. The modules

| module | models | composed with |
|---|---|---|
| `SnapshotExtraction` | the promise of an extraction: one atomic look at the recorded artifact | |
| `ArtifactScan` | `artifact_source.py` and `adapters/streaming.py`, one system call per step | extends and implements `SnapshotExtraction` |
| `Datasets`, `DatasetFacts` | four datasets and the findings a look at them warrants | |
| `DatasetAudit` | `streaming_dataset.py` and `check_streaming_dataset_context` | extends `Datasets`, implements `DatasetFacts`, assumes what `ArtifactScan` guarantees |
| `PassiveLook` | the promise of reading a passive file: one look at a content shown during the call | |
| `PassiveCapture` | both functions of `passive_files.py`, one system call per step | implements `PassiveLook` |
| `ResultCheck` | `result_check.py` and `determine_verdict`, pure operators | |
| `MeasurementDrift` | `measurement.py`: protocols and the drift report, pure operators | |
| `NativeAudit` | `audit_research` with `config_check.py`, `dataset_check.py` | extends `Datasets`, `ResultCheck`, `MeasurementDrift`, takes the streamed findings from `DatasetFacts` |
| `Evidence` | evidence, bindings and mappings as the analysis modules share them | |
| `EvidenceProfiles` | `profiles.py`: which profile a claim is audited under | extends `Evidence` |
| `EvidenceObligations` | `obligations.py`: policy of a claim, status of each leaf, the decision | extends `EvidenceProfiles` |
| `MappingDiscovery` | `discovery/mappings.py`: candidates, their order, the one question | extends `Evidence` |
| `AuditPlanner` | `planner.py`: scoping, selection, question, plan | extends `EvidenceObligations`, `MappingDiscovery` |
| `BenchmarkAudit` | `benchmark_audit.py` in its three result forms | extends `EvidenceProfiles`, `ResultCheck`, `MeasurementDrift` |
| `UnifiedAnalysis` | `run_unified_analysis`, again after an answer or a push | extends `AuditPlanner`, `BenchmarkAudit` |
| `PlanWorkspace` | exclusive workspaces, one per plan identity | |
| `EphemeralExecution` | `execute_ephemeral_audit_with_trace` and what it calls, any number of executions side by side | implements `PlanWorkspace` |
| `ResearchReview` | `run_review` with `tools.py`, `evidence.py`, `sources.py` | |
| `CheckWorkflow` | the three jobs of `claimci.yml`, or of `claimci-external.yml`, with the exit codes and payload builders they rely on | |
| `MC*` | the instances TLC checks | |
| `*Proofs` | theorems about `ArtifactScan`, `DatasetAudit`, `PassiveCapture`, `NativeAudit`, `UnifiedAnalysis`, `EphemeralExecution`, `ResearchReview`, `CheckWorkflow` | each extends its module |

### State and actions

Definitions carry the names of the code or say in a comment which function they
are; `map` in `PROJECT.json` gives the lines of each.

**ArtifactScan.**  The file system is four variables (what the path leads to,
the content of each inode, its modification and change time); `Relink` and
`Rewrite` change it between any two steps.  `issued`, `before` and `opened` are
the identities the code remembers.  `IssueRoot`, `LookupPath`, `StatPath`,
`IssueFile` are `artifact_source_from_snapshot` and the way to `os.open`;
`OpenScan` the open with its `fstat`; `ReadBlock`, `ReadPastBudget`, `ReadEof`,
`ReadError` the outcomes of one `os.read`; `ParseLine` and `EndOfLines` the loop
of each extraction; `VerifyFile`, `VerifyRoot`, `VerifyParent`, `VerifyPath` the
checks of `finish` in their order; `Report*` its result.  One logical line is one unit of the byte
budgets.  `reported` and `dirty` are history.

**DatasetAudit.**  `rows` is the SQLite table, `pending` the batch, `Begin` to
`Refinish` one pass of `_scan_dataset` with its two handlers, `Flush` a
transaction that is committed or rolled back, `exhausted` the sticky flag, and
`CheckOverlap`, `CheckAlignment`, `Close` the life of the context.  A failed
read, verification or statement is a separate step (`ScanRaises`, `FlushFails`,
`ContractError`, ...).

**NativeAudit.**  One step reads one artifact (`Read`) and adds the findings
that become possible with it; `UseContext` takes the streamed findings instead;
`Judge` is the metric identity and `determine_verdict`, with the drift report
over what was recovered of both procedures.  `Edit` replaces an
artifact between two reads.  Numbers are integers, a mean is a sum and a count,
and the finite numbers are `-Largest..Largest`.

**EphemeralExecution.**  `step[e]` is where execution `e` is; `captured`,
`passive`, `integrity`, `mine` are its locals, and `intact` remembers which paths
it read whole and found as the plan recorded them.  A binding carries the
artifact candidate it names, how it is read (dataset, table or fields), whether
its id is one the adapters issue (`issued`, "evidence-v2-...") and what is wrong
with it; `AsPlanned` says whose fields are not extracted again.  `Validate` is the sequence of
entry checks, `Capture` one binding under both totals, `CreateTree`/`Collide`
the `os.mkdir`, `Identify` the `lstat` after it, `Write` one native file,
`ReadTree` the Audit's second reading, `Unwind`, `LookUpTree`, `RemoveTree` the
`finally`.  `SystemFault`, `Crash`, `ChangeCheckout` and `ReplaceTree` are the
world.

**ResearchReview.**  One action per stage of `run_review` and per way a call can
end (`ExtractRaises`, `ExtractIncomplete`, ...).  The tree may be edited between
stages, which matters because manifests are planned before the first call and
audited after it.  The three greedy reservations (`Gather` and the two before it)
are recursive functions over an order: paths by name, or in `PlanOrder`, the order
in which plans list them.

**CheckWorkflow.**  `at[r][j]` is the step job `j` of run `r` is at; a step
succeeds, fails, or its runner disappears.  The files a step leaves (`json`,
`md`, `payload`, `review`, `draft`) are whole, torn or absent, and sizes are
bytes, so that the limits of the code are the limits of the model; `escapes` is
what JSON adds to them.  `origin`
says where the pull request comes from; `External` is `claimci-external.yml`,
which differs in what it checks out, which steps are `always()` run, and where
the audit's fallback is.

**PassiveCapture.**  `LookRoot` to `Open` are the `lstat`, `resolve`, `stat` and
`open` calls in their order, `ReadBlock` and `EndOfRead` the loop of the function
that runs (`reader`), `FstatAgain` to `RecheckPath` the checks afterwards; the
locals are what the code compares.  `Rebind` and `Rewrite` are other processes.

**UnifiedAnalysis.**  `stage` is where `run_unified_analysis` is.  `PlanAudit` is
the whole of discovery and planning, a pure function of the repository and the
approval; `NotRepresented`, `ExecutionFails`, `AuditTraining`,
`AuditOfBenchmark` are the ways execution ends, `Review` the advisory call.
Between two analyses `Answer` approves a choice of the question that was asked
and `Push` removes or rewrites a file.  `plan`, `audit` and `result` are what
the three stages hand over; `asked` is history.

The operators under it keep the names of the code where they can:
`SelectProfile`, `AssessClaim`, `AssessProfiled`, `SelectMapping`, `Plan` (in
steps from `PlanUnder` to `Concluded`),
`Resolution`, `AuditBenchmark`.  A file is a number in the order of paths, an
observation a record with a function from profile keys to values, an optional
value a set of at most one element, and an exception an outcome of its own.

### Simplifications a reader should know

* `AuditPlanner` takes evidence after metric bindings were integrated
  (`metric_identity.py`), and claims that were recovered from text; it leaves
  out the older path for claims without a recovered scientific claim and the
  plan identity, a hash of what is compared here.
* `UnifiedAnalysis` lets execution fail for any reason `EphemeralExecution`
  has; the verdict of a training experiment is any, as `NativeAudit` says which.
* Results of a benchmark are small integers; no decimal is rounded.
* `DatasetAudit` reads a dataset through the guarantee proved for
  `ArtifactScan` (a scan that finishes read the recorded bytes); the capacity of
  the spill is counted in rows.  A killed process leaves the spill behind; no
  property says otherwise.
* `EphemeralExecution` captures an artifact in one step: the recorded hash
  makes a capture either the recorded bytes or a refusal.  The windows between
  `mkdir` and `lstat` and between `lstat` and `rmtree` cannot be closed by the
  code; the model lets nobody into them, as the scratch root is private to an
  invocation.  Two bindings of one path differ in the kind or in one other fact of their
  candidate, standing for all of them; evidence that is no dataset has one
  binding, so the refusal of duplicate table evidence (`materialize.py:703`) has
  no action.
* `MappingDiscovery` counts confidences in hundredths; `FullTenths` are those at
  which the code's difference of floats reaches 0.10.
* `ResearchReview` measures excerpts in units and replies in `chars`; what the model answers is any member of small sets.
* `NativeAudit` does not round: the code compares means rounded to a float,
  the model exact fractions.
* A plan without datasets is refused by the streaming lookup
  (`materialize.py:1123`) before the check that would call it PARTIAL
  (`materialize.py:1200`); `UndisturbedOutcome` states the order as it is.

## 3. What the runs show

| run | bounds | what it shows |
|---|---|---|
| `scan_outcomes` | all artifacts of up to 3 lines of each kind, all small budgets, 4 scanners, 1 failing read | evidence exactly for the eligible artifacts, boundaries included |
| `scan_interference` | 2 lines, 2 files, 2 directories, 2 changes anywhere | `EvidenceFromOneSnapshot`, `ReportsOnStableFile`; implements `SnapshotExtraction`; `Terminates` |
| `dataset_scans` | 3 contents in all places, 7 odd ones in each, batches of 2, 5 rows, 2 failures, 1 replaced file | `FindingsSound`, `SpillHoldsPrefix`, `UndisturbedDecides`, `SpillRemoved`; implements `DatasetFacts` |
| `native_audit` | every rule at its boundary, 8 claims, up to 1 edit, looks cut off anywhere | `SupportedIsEarned`, `WithholdingNeverHelps`, `StreamedAgrees`, `ReportFollowsVerdict` |
| `execution_outcomes` | 1 execution, every pair of defects, paths bound in two ways, ids not issued, limits around the sizes | what is audited and what is refused, exactly |
| `execution_sharing` | 2 executions of 5 plans (one with a streamed metric pair), 1 fault, 1 changed file, 1 kill, 1 replaced tree | `ResultFromOwnTree`, `RemovesOnlyOwnTree`, `OutcomesAreEarned`, `BlockedOnlyForCause`, `Settles`; implements `PlanWorkspace` |
| `review_outcomes` | 2 studies sharing a file, 1 edit, 1 exception | `FilesWithinLimit`, `PlannedIsAudited`, `PriorityIsServed`, `CompleteIsWhole`, `CallsHonoured` |
| `workflow_outcomes` | 1 run of either workflow, 2 commits, 2 failing steps, 1 lost runner | `VerdictOfItsCommit`, `SuccessShowsItsAudit`, `FailureLeavesACheck`, `JobReflectsIntegration`, `ReviewArrives`, `Settles` |
| `passive_capture` | 4 contents around a bound of 2 bytes, 2 files, 2 directories, 2 changes, 1 failing read, both functions | `UndisturbedOutcome`; implements `PassiveLook` |
| `analysis_outcomes` | some 2000 repositories, 2 analyses with an answer or a push between | `ApprovalIsFinal`, `ReadyIsEarned`, `ProposalsOnlyAsk`, `ResultIsExplained`, `BenchmarkSupportIsEarned`, `AnswersAdvance` |

*Why the bounds are enough.*  Three lines are one more than a chunk and admit
every order of line kinds before, at and after a budget; two changes let a file
be replaced and put back, which is the way to deceive a check of identities, and
the theorems drop the bound.  Two records suffice to tell multisets from sets,
and five rows let the spill fill up in the third or the fourth split.  Two
executions are all a lock is about; the theorems hold for any number.  Two
studies are the least that can compete for room.  A passive file of the bound,
below it and past it, and two changes, meet every comparison of identities.
The analysis is a function of its repository, so what counts is which
repositories there are: a complete training experiment of eight files and a
complete benchmark of two or three, in each variant and result form, with one
thing else at a time (a file missing, unreadable, of another role or claim, or
saying something else in one key; a second file for a slot; a value shared,
overlaid or contradicted; an unselected observation; a second whole mapping;
every kind of claim),
crossed with what manifests and providers propose and what has been approved.
Two analyses are an answer and its effect.  `ProposalsOnlyAsk` is limited to at
most eight candidates, the number a question can offer.  One run of the workflow
suffices since runs share nothing but the check list.

Two runs end in a counterexample, each against a sentence of the repository:

* `scan_budget`: an artifact one line longer than the integrity budget is
  reported as integrity-verified: `read_chunk` counts and hashes the block before
  it raises, and the scanner's handler finishes once more with all bytes read.
* `review_unrelated`: an untouched study elsewhere takes the file budget of the
  changed one, because plans are filtered after room has been reserved.

### What was noticed besides

The models state these as the code has them; the properties are written so that
they hold with them.

* Not every bounded review "remains inside the bounded job handoff", as a comment
  has it (`review/github.py:241`).  The summary may have 60000 bytes, the hand-off
  100000 base64 characters, which are 75000 bytes; with the envelope of the payload
  that leaves 14400 for what JSON escapes.  `_markdown_text` replaces line breaks
  and quotation marks in the values it shows and leaves tabs, backslashes and other
  control characters, which take one byte more or five.  A review with more of them
  is dropped (`claimci.yml:274`) and the fixed text is posted, although nothing
  failed.  `ReviewArrives` states both cases; the run has a text at 14400 and one
  past it.
* An error of `lstat` right after `mkdir` (`materialize.py:2062`), or of
  `rmtree`, leaves the tree, and every later execution of that plan is refused;
  the design of the ephemeral plan promises one cleanup boundary for every
  failure.  `BlockedOnlyForCause` allows for it by `faults > 0`.
* A payload builder that dies in its write leaves a file that is not empty
  (`claimci.yml:101`); it is posted and no check appears.
  `FailureLeavesACheck` excepts the torn payload.
* The external workflow passes over the payload builder's exit status
  (`claimci-external.yml:74`), so its job is green on an integration failure; it
  builds a payload although the rendering step died, so a passing check can stand
  beside a red job without the audit's text; and nothing replaces the payload when
  the step with the fallback dies.  `JobReflectsIntegration`,
  `SuccessShowsItsAudit` and `FailureLeavesACheck` say how much of them is left
  there.
* When a dataset is looked up again, only the first binding of its path is
  (`materialize.py:686`).  The fields of a small artifact whose id does not begin
  with "evidence-v2-" are taken as planned outside a benchmark
  (`materialize.py:712`): the bytes are hashed, what the plan read in them is not
  looked at again.  `OutcomesAreEarned` speaks of the bindings that are looked at
  (`Revalidated`), and of the bytes of all.
* Two valid mappings that differ only in a binding of a kind no slot requires
  make a bundle that says READY with a plan that is UNAVAILABLE
  (`MixedWorlds`).
* A question may be asked no answer to which makes a plan (`OddBeside`):
  `_question_is_useful` lays a choice over candidates of every slot, the answer
  is validated for itself.
* Where two mappings of a benchmark compete, an answer laid over another mapping
  than the one it was offered for may not apply, and be asked for again
  (`RivalWorlds`; `approved_mapping_not_applicable`).  `AnswersAdvance` therefore
  speaks of a slot that was answered and of a mapping approved as it was offered.
* Discovery asks of all claims at once.  Two artifacts that serve two claims may be
  told apart by confidence for one and not for the other, and the question then
  reaches both (`SharedWorlds`, `planner.py:760`).  A plan without proposals does not
  need it; beside a proposal that disagrees it is asked, although no choice of it is
  the plan there would have been.  `ProposalsOnlyAsk` says so.
* Discovery asks about one ambiguous slot even when several are
  (`mappings.py:213`).
* A plan for a benchmark can be READY and its Audit raise, as
  `_config_projection` looks at observations no selector selected.
* Evidence of a benchmark that cannot be represented is UNAVAILABLE, never
  PARTIAL with the leaf named.
* A drift report may say INSUFFICIENT beside SUPPORTED, where the differing
  component has no native comparison, and VERIFIED where a value contradicts
  what both roles share.

### Fairness

`Terminates`, `SpillRemoved`, `Settles` and the answer in `PassiveLook` need that a process that can take a
step takes one: weak fairness of the program (`WF_scanVars(Program)`,
`WF_auditVars(AuditNext)`, `WF_passiveVars(Program)`), of each execution by itself (`WF_vars(Advance(e))`)
and of each run of the workflow.  A single-threaded program on a running machine
gives as much; nothing is assumed of the environment, which may fail to act, or
act up to its bound.  A crash is a step after which no progress is claimed.
One thing is assumed of the other processes all the same: what they put at a path is
a file, a directory, a link or nothing.  The code opens a path without `O_NONBLOCK`
(`artifact_source.py:283`, `passive_files.py:65`), so that a named pipe put there
between the `lstat` and the `os.open` would keep the open waiting for a writer;
`Terminates` and the answer of a passive look say nothing of that case.  A file
that grows while it is read grows `MaxChanges` times at most in a run; what ends the
drain of one that never stops growing is the integrity budget, and the
theorem `ReadsAreBounded` says for any number of changes how little is read past it.
The scans of one artifact are checked for deadlock; in the other runs
the program really ends, and the final states have no step.

## 4. What is proved

For every value of the constants that satisfies the named assumptions:

| theorem | statement |
|---|---|
| `ScanTypeCorrect`, `AuditTypeCorrect`, `ExecutionTypeCorrect` | `TypeOK` of the three modules |
| `EvidenceIsSnapshot` | evidence is computed from exactly the recorded lines, in both passes |
| `ReadsAreBounded` | a scan reads one unit past its integrity budget, or two where a handler finishes again, and who has read the second raises and reports nothing |
| `ScanImplementsSnapshot` | the reader implements `SnapshotExtraction` |
| `NoReportOnChangedFile` | no report is issued over a file that was written to while it was open |
| `EvidenceIfEligible` | undisturbed, evidence comes exactly from an eligible artifact |
| `SpillIsPrefix` | the rows of a split are the multiset of a prefix of its dataset |
| `FindingsAreSound` | every finding is true of the whole datasets |
| `AuditImplementsFacts` | the streaming audit implements `DatasetFacts` |
| `FittingDatasetsAreDecided` | undisturbed, datasets that fit are looked at completely and compared |
| `CaptureIsOneLook`, `AnsweredCaptureImplementsLook` | every step of a capture is one of `PassiveLook`; a capture that is answered implements it |
| `UndisturbedCapture` | with nobody else at work, what comes back is a function of the path |
| `SupportedVerdictsAreEarned` | SUPPORTED exactly for what all the evidence bears out |
| `WithheldEvidenceIsNoHelp` | a missing artifact never improves the verdict |
| `BothAuditsAgree` | the streamed audit says what the audit in memory says, and never more |
| `ReportIsConsistent` | the measurement report never contradicts the verdict |
| `ApprovalsAreFinal` | an approval that concerns the claim is the only mapping it is planned by |
| `ReadinessIsEarned` | what is executed was approved or has nothing a provider proposed, and is complete and exact |
| `EveryEndingIsExplained` | every result has its reason, and a question offers something |
| `AnswersAreFinal` | a slot that was answered, or a mapping approved as offered, is not asked for again |
| `BenchmarkSupportIsJustified` | a supported benchmark rests on two measurements that reach the claim, taken by one procedure |
| `AuditsOnlyItsOwnTree` | a returned result comes from the whole tree the execution wrote |
| `CleanupIsOwn` | cleanup removes only a directory the remover made (an action property) |
| `TreesAreWorkspaces` | the trees implement `PlanWorkspace` |
| `EndingsAreEarned` | a result stands for a complete capture, read whole as recorded, without a flaw that is looked for; PARTIAL for a limitation of the plan |
| `NothingIsLeftBehind` | only a kill, a failed call or a replacement leaves a scratch directory |
| `FlawlessPlansAreAudited` | undisturbed, a plan without flaws is audited exactly when its artifacts fit and no path is bound as two kinds or identities |
| `OneLimitOfFiles` | both calls and the audits share one limit of files |
| `AuditsAreThosePlanned` | in an undisturbed checkout, what was promised its files is audited on them |
| `AuditedFilesComeFirst` | a routed file an audit consumed is not crowded out by others |
| `CompleteReviewIsWhole` | COMPLETE means nothing was dropped |
| `CallsAreBudgeted` | the calls stay within the configured number and stop at the first failure |
| `VerdictIsOfItsCommit` | a check that states a verdict is on the commit that was audited |
| `SuccessShowsTheAudit` | a passing check stands beside the report it was made from |
| `FailureLeavesItsCheck` | every failure that can still be published leaves a failing check |
| `JobReflectsItsIntegration` | the job fails exactly when no check of its states a verdict |
| `UndisturbedReviewArrives` | the review is posted once, cut only at the summary limit, exactly if its JSON escapes leave it room in the hand-off; else the fixed text is |

*ArtifactScan.*  `EvidenceFromOneSnapshot` is not inductive: that evidence is
right depends on what a scan claims before it verifies.  `ScanInv` adds where an
outcome may exist (`OutcomeInv`), that pass 2 follows a whole pass 1
(`PassInv`), that the parser accepted only what budgets allow (`ParserInv`),
that a claim to be complete covers the artifact's length (`ClaimInv`), and how
far reading may go (`BudgetInv`).  With them the last check, that the bytes are
the recorded ones, closes the argument; the refinement follows because
`ClaimInv` and `ParserInv` together are eligibility.  Two more invariants say
what a file's identity tells: a write to the open file moves its change time on,
and who has passed the last `fstat` has seen none (`StableInv`); while nothing
has changed, every identity that was remembered is the one still there, and an
eligible artifact gives no reason to stop (`UndisturbedInv`).

*DatasetAudit.*  `AuditInv` says that the rows of the split in hand are the
multiset of the flushed lines and the pending batch is exactly the rest
(`LocalInv`), that later splits have no rows (`AheadInv`), and that the findings
so far are those of the rows (`CheckInv`).  Counting lemmas about
`Multiplicity` carry a batch, or its roll-back, through.  That the spill has room
for datasets that fit (`SmoothInv`) takes an injection: every row a batch would
make is a distinct record of one of the four files.

*PassiveCapture.*  What was consumed is a prefix of the content the open file
had all along, as long as its change time is the one seen first; every rewrite
moves that time on, so the last `fstat` decides which case it is.  The rest of
the invariant keeps what the path was bound to during the call, as
`PassiveLook` has to name a content that was shown.  For an undisturbed call a
second invariant says that each identity remembered is the one still there.

*NativeAudit.*  Other processes may replace an artifact between two reads, so
the findings might be of no one world.  `AuditInv` rules it out: no comparison
involves an artifact that is read later, hence what was compared stays true of
what was seen (`FindingsInv`), and an artifact that could not be read has left
a finding.  At the verdict the findings are therefore those of one world,
`seen`, and the rest is about rules: when each is found, which invalidate and
which withhold, what the streamed rules are in terms of the others (through
the multisets of whole datasets), and what a component of the report can be
where no rule was found.

*UnifiedAnalysis.*  A plan is a function of the repository and the approval.
The lemmas follow that function: what scoping does to a mapping, what a bundle
that is ready says of its leaves, where a selected mapping comes from, what a
question offers.  The invariant keeps the plan equal to that function
(`Planned`), so that `ReadyIsEarned` and `ApprovalIsFinal` hold of the state
although the approval may change between two analyses.  For answers a second
invariant (`AskedIs`) remembers of every question asked that it is about one slot,
or offers whole mappings that can be revalidated; an approved mapping that is
whole selects by itself a profile that it fits (`WholeIsPlanned`), and beside an
approval nothing is asked about a slot (`PlanAsks`).  For a benchmark a third one
(`AuditedAs`) keeps the audit equal to what `AuditBenchmark` makes of the mapping
under review.  `AuditSays` is about that function: SUPPORTED leaves no finding that
invalidates or withholds, for raw runs, reported aggregates and derived values.
That two measurements reach the claim when two averages do rests on sums: a total
lies between its count times its least and its count times its greatest number
(`TotalBounds`), and a gain between averages is at most one between two numbers
(`GainReached`).  The observations of a role are collected binding by binding in
the order of their files, which exists since there are finitely many
(`FilesInOrder`, `FinitelyMany`); that these recursions have values at all is
shown once (`Iterates`).  Findings a drift report relies on always invalidate
(`GradedForms`, `DriftHasFinding`).

*EphemeralExecution.*  `WorkspaceInv` relates inodes to their makers
(`InodeInv`), the place in the code to what exists (`Placed`), executions of one
plan to each other (`Excluding`) and the files of a tree to its writer
(`Filed`).  The refinement maps a directory to its holder: an execution past
`mkdir` whose inode is still at the path, or "stuck".  For the outcomes,
`EarnedInv` says of each place in the code what has been checked before it
(`Passed`), `FoundInv` which artifacts have been found as recorded (an endpoint of
the metric pair not before its own check), and `BlameInv` gives a directory whose maker is gone its cause.
Without faults and replacements there is no such cause, so an undisturbed
execution finds the way free and its own tree in place; that a capture refuses
it only for its sizes (`SmoothInv`) needs what the byte counters count, the sum
of the sizes as the number of bytes of a set of artifacts (`SumAdds`, `SumGrows`).

*ResearchReview.*  Claims, manifests and evidence reserve files one after the
other, each in an order of its own.  That each reservation stays within what
is left is shown by induction over its order, by a least-number principle on
the positions, and so is that planning a second time with only the manifests
that got a plan gives each the same files.  The invariant over the steps is
plain then.

*CheckWorkflow.*  The invariant speaks of one run: what its jobs have done
determines which files are there, whose they are, and which checks they have
posted.  Which review goes through the two limits, the bytes of a summary and the
characters of a job output, is arithmetic on sizes (`HandoffFits`,
`WholeReviewFits`).

`ScanTypeCorrect`, `AuditTypeCorrect`, `ExecutionTypeCorrect`, `ReadsAreBounded`
and `CaptureIsOneLook` state what no run checks any more.

### Assumptions

They give the constants their types and are evaluated by the runs:
`ExtractionAssumption`, `ScanAssumption`, `FactsAssumption`, `AuditAssumption`,
`PassiveAssumption`, `NamesAssumption`, `WorldAssumption`,
`AnalysisAssumption`, `PlanAssumption`, `ExecutionAssumption`,
`ReviewAssumption`, `TextAssumption`.  Those that say more than a type:

* `PassiveAssumption`, `NamesAssumption`: a content is a sequence of bytes, and
  what is no file or directory has no identity.
* `WorldAssumption`: evaluation mappings are finite; a number is at most
  `Largest` as a float is; a dataset in memory has no record that is too long,
  which is a limit of the stream only; there, such a record is one at which a
  look is cut off.
* `AnalysisAssumption`: at most one mapping is approved, by bindings of the five
  provenances, and a claim that states a threshold states a number.  Evidence is
  finite, its files are numbered in the order of their paths, and an observation
  that names a metric has a number for it (`contracts.py:689`); here numbers are
  integers, the measurements counted in a common unit.
* `ReviewAssumption`: every path has a place in the order of plans; a manifest
  that declares anything declares itself.
* `TextAssumption`: commits are numbered from 1 on, and JSON adds at most five
  bytes to each byte of a text it escapes.

### Only model-checked

* Everything that needs fairness: `Terminates`, `SpillRemoved`, `Settles` and
  that a passive call is answered.  Liveness and ENABLED are beyond the prover.
* Of `UnifiedAnalysis`, `ProposalsOnlyAsk`.  It compares a plan with the one there
  would have been without the proposals, so its proof relates two runs of
  discovery.  Between mappings of one rank the model takes any, where the code goes by
  the hash of a mapping's identity; nothing ties the choice from a set to the choice
  from a part of it, so that for constants in general two plans could differ by the
  choice alone.  In the run they do not.

What a recursive definition computes is proved where it is written as a function
on the natural numbers; the library's induction theorems cannot be instantiated,
so those proofs pick a least counterexample.

## 5. Plan

Done, in this order: the streamed reader, the dataset audit, the ephemeral
execution, the workflow, the review, the native audit, the passive capture, the
benchmark audit with the drift report, and the analysis from discovered mappings
to the result; then the proofs, about all of these.  Next:

1. `ProposalsOnlyAsk` of `UnifiedAnalysis`, with ranks that break every tie by an
   order of mappings given as a constant.
2. The bounded trace (`trace.py`), the pairing of metric endpoints
   (`metric_identity.py`) and the repository walk (`discovery/repository.py`).

### Not modelled

* `metric_identity.py`: a pair of endpoints is proposed, approved and bound to
  evidence by hashes of its parts; the planner's model starts after it.
* `trace.py`: whether there is a trace and which kind is part of the result, what
  it lists is not.
* The wording patterns of discovery, the parsers of one captured artifact (their
  streamed counterparts are modelled), the type checks of the immutable
  contracts, reports and their layout, decimal rounding, and the suffix of a
  dataset's file name (`materialize.py:1057`).
* The action, the template and the scripts of the external installation, which
  install one package and write text.

## 6. Running it

    tlc -config ScanInterference.cfg MCArtifactScan.tla
    tlapm ArtifactScanProofs.tla

and likewise for the other pairs that `PROJECT.json` lists.  The longest run
takes about a minute.
