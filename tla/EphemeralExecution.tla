---------------------------- MODULE EphemeralExecution ----------------------------
(***************************************************************************)
(* analysis/materialize.py, execute_ephemeral_audit_with_trace: a plan is  *)
(* checked, its artifacts are captured and revalidated, the scratch tree   *)
(* named by the plan identity is created exclusively, written, audited and *)
(* removed on the way out.  Executions of equal and of different plans may *)
(* run side by side in one scratch root; the checkout may change, system   *)
(* calls fail, processes be killed and the tree be replaced meanwhile.     *)
(*                                                                         *)
(* One capture of a small artifact is one step: it hands out bytes only if *)
(* they hash to the recorded digest.  One scan of a streamed artifact is   *)
(* one step by the guarantee of ArtifactScan.                              *)
(***************************************************************************)
EXTENDS Naturals, Sequences, FiniteSets, FiniteSetsExt

CONSTANTS
    Executions,
    PlanChoices,  \* see PlanAssumption
    Artifacts,
    Size,         \* recorded size of each artifact
    Streamable,   \* .jsonl, .csv and .tsv paths
    LimitChoices, \* MaterializationLimits
    MaxFaults,    \* bound: system calls that fail
    MaxChanges,   \* bound: changes of the checkout
    MaxSwaps,     \* bound: trees another process replaces
    MaxCrashes    \* bound: executions that are killed

\* What can be wrong with a plan, with the check that notices it: in the order
\* of the checks at entry, and later on.
EntryChecks == << <<"identity", "unavailable">>, <<"scope", "unavailable">>,
                  <<"missing", "partial">>, <<"threshold", "partial">>,
                  <<"provenance", "unavailable">>, <<"binding", "unavailable">> >>
Roles == {"baseline", "candidate"}
NativeFiles == Roles \cup {"manifest"}
LimitationDefects == {"missing", "threshold"} \cup Roles
Defects == {EntryChecks[i][1] : i \in DOMAIN EntryChecks} \cup Roles
           \cup {"metric", "profile", "datasets", "audit"}
\* A binding with the evidence it binds: how it is read, the ArtifactCandidate it names
\* (its ArtifactKind, and one fact beside kind, size and digest), whether its id has the
\* form the adapters issue ("evidence-v2-..."), and what is wrong with it.
Kinds == {"dataset", "table", "fields"}
Candidates == [kind : {"dataset", "results", "config"}, reason : {"named", "nearby"}]
BindingDefects == {"none", "representation", "adapter"}
Bindings ==
    {b \in [path : Artifacts, kind : Kinds, candidate : Candidates, issued : BOOLEAN,
            defect : BindingDefects] :
        b.kind = "dataset" <=> b.candidate.kind = "dataset"}
PlanIds == {p.id : p \in PlanChoices}

ASSUME PlanAssumption ==
    /\ \A p \in PlanChoices :
         /\ DOMAIN p = {"id", "defects", "bindings", "endpoints", "benchmark"}
         /\ p.defects \subseteq Defects
         /\ p.bindings \in Seq(Bindings)
         /\ p.endpoints \in Seq({p.bindings[i].path : i \in DOMAIN p.bindings})
         /\ p.benchmark \in BOOLEAN
    \* derive_ephemeral_plan_id commits to everything in a plan.
    /\ \A p, q \in PlanChoices :
         p.id = q.id => p = q \/ "identity" \in p.defects \cup q.defects
    /\ Size \in [Artifacts -> Nat]
    /\ LimitChoices \subseteq
         [file : Nat, total : Nat, streamFile : Nat, streamTotal : Nat]
    /\ {MaxFaults, MaxChanges, MaxSwaps, MaxCrashes} \subseteq Nat

ASSUME ExecutionAssumption == {"free", "stuck"} \cap Executions = {}

Nobody == 0  \* no inode

Steps == {"start", "capture", "revalidate", "endpoints", "create", "identify",
          "spill", "baseline", "candidate", "manifest", "load", "read",
          "unwind", "lookup", "remove", "done", "crashed"}

VARIABLES
    plan,      \* the plan of each execution
    lim,
    files,     \* whether each artifact still is what the plans recorded
    trees,     \* the directory at each plan identity: its inode and its files
    inodes,    \* inodes handed out
    faults, changes, swaps, crashes,
    \* locals of each execution
    step,
    at,        \* index of the binding or endpoint in hand
    captured,  \* paths
    passive, integrity,  \* passive_total, integrity_total
    scanned,   \* revalidated_datasets
    stale,     \* an endpoint of the metric pair failed
    intact,    \* history: paths it read whole and found as the plans recorded them
    mine,      \* created_identity
    spill,     \* the dataset spill exists
    seen,      \* what the Audit read: names with who wrote them
    outcome,
    made       \* history: the inode its mkdir created

inputs == <<plan, lim>>
world == <<files, inodes, faults, changes, swaps, crashes>>
captureVars == <<captured, passive, integrity, scanned, stale, intact>>
treeVars == <<trees, mine, made, spill, seen>>
vars == <<inputs, world, trees, step, at, captureVars, mine, spill, seen,
          outcome, made>>

NoTree == [inode |-> Nobody, files |-> {}]
AllOf(x) == [e \in Executions |-> x]

Init ==
    /\ plan \in [Executions -> PlanChoices]
    /\ lim \in LimitChoices
    /\ files = [a \in Artifacts |-> TRUE]
    /\ trees = [p \in PlanIds |-> NoTree]
    /\ inodes = 0 /\ faults = 0 /\ changes = 0 /\ swaps = 0 /\ crashes = 0
    /\ step = AllOf("start") /\ at = AllOf(1)
    /\ captured = AllOf({}) /\ passive = AllOf(0) /\ integrity = AllOf(0)
    /\ scanned = AllOf({}) /\ stale = AllOf(FALSE) /\ intact = AllOf({})
    /\ mine = AllOf(Nobody) /\ spill = AllOf(FALSE) /\ seen = AllOf({})
    /\ outcome = AllOf("pending") /\ made = AllOf(Nobody)

Home(e) == trees[plan[e].id]

Goto(e, s) == step' = [step EXCEPT ![e] = s]

\* A plausible slip: cleanup after a good result only.
RaiseUncleaned(e, class) ==
    /\ outcome' = [outcome EXCEPT ![e] = class]
    /\ Goto(e, IF class = "audited" THEN "unwind" ELSE "done")

\* The except clauses and the finally: cleanup only for a known identity.
Raise(e, class) ==
    /\ outcome' = [outcome EXCEPT ![e] = class]
    /\ Goto(e, IF mine[e] = Nobody THEN "done" ELSE "unwind")

-----------------------------------------------------------------------------------
(* Before the tree exists.                                                   *)

FailedEntryChecks(p) == {i \in DOMAIN EntryChecks : EntryChecks[i][1] \in p.defects}

Refusal(p) == EntryChecks[Min(FailedEntryChecks(p))][2]

\* _validate_runtime_roots, the plan's own checks and _evidence_by_binding.
Validate(e) ==
    /\ step[e] = "start"
    /\ IF FailedEntryChecks(plan[e]) # {}
         THEN Raise(e, Refusal(plan[e]))
         ELSE Goto(e, "capture") /\ UNCHANGED outcome
    /\ UNCHANGED <<inputs, world, treeVars, at, captureVars>>

Current(e) == plan[e].bindings[at[e]]
Streamed(a) == Size[a] > lim.file

WithinFileBounds(a) ==
    /\ Size[a] <= lim.streamFile
    /\ Streamed(a) => a \in Streamable

\* A plausible slip: both totals over all artifacts.
OneCounter(e, a) ==
    /\ integrity[e] + Size[a] <= lim.streamTotal
    /\ passive[e] + Size[a] <= lim.total

WithinTotals(e, a) ==
    /\ integrity[e] + Size[a] <= lim.streamTotal
    /\ ~Streamed(a) => passive[e] + Size[a] <= lim.total

\* One path cannot be captured as two kinds of artifact, or with two identities.
Conflict(e) ==
    \E i \in 1..(at[e] - 1) : /\ plan[e].bindings[i].path = Current(e).path
                              /\ plan[e].bindings[i].candidate # Current(e).candidate

Readable(a) == Streamed(a) \/ files[a]

\* A path is captured once, whatever binds it again.
Capture(e) ==
    /\ step[e] = "capture" /\ at[e] <= Len(plan[e].bindings)
    /\ ~Conflict(e)
    /\ LET a == Current(e).path
       IN IF a \in captured[e]
            THEN UNCHANGED <<captured, passive, integrity, intact>>
            ELSE /\ WithinFileBounds(a) /\ WithinTotals(e, a) /\ Readable(a)
                 /\ captured' = [captured EXCEPT ![e] = @ \cup {a}]
                 /\ integrity' = [integrity EXCEPT ![e] = @ + Size[a]]
                 /\ passive' = [passive EXCEPT
                                  ![e] = @ + (IF Streamed(a) THEN 0 ELSE Size[a])]
                 /\ intact' = IF Streamed(a) THEN intact
                              ELSE [intact EXCEPT ![e] = @ \cup {a}]
    /\ Goto(e, "revalidate")
    /\ UNCHANGED <<inputs, world, treeVars, at, scanned, stale, outcome>>

CaptureRefused(e) ==
    /\ step[e] = "capture" /\ at[e] <= Len(plan[e].bindings)
    /\ LET a == Current(e).path
       IN \/ Conflict(e)
          \/ /\ a \notin captured[e]
             /\ ~(WithinFileBounds(a) /\ WithinTotals(e, a) /\ Readable(a))
    /\ Raise(e, "unavailable")
    /\ UNCHANGED <<inputs, world, treeVars, at, captureVars>>

IsEndpoint(p, a) == \E k \in DOMAIN p.endpoints : p.endpoints[k] = a

\* Fields of a small artifact under an id the adapters did not issue are taken as
\* planned, except in a benchmark.
AsPlanned(e) ==
    LET b == Current(e)
    IN b.kind = "fields" /\ ~plan[e].benchmark /\ ~Streamed(b.path) /\ ~b.issued

\* A plausible slip: datasets already captured count as revalidated.
RevalidatesUncaptured(e) ==
    LET b == Current(e)
    IN IF b.kind = "dataset"
         THEN b.path \notin captured[e]
         ELSE ~IsEndpoint(plan[e], b.path) /\ ~AsPlanned(e)

\* A dataset is extracted afresh once per path, other evidence each time (only a
\* dataset has two bindings for one evidence, its splits), the metric pair by its
\* own check later.
NeedsRevalidation(e) ==
    LET b == Current(e)
    IN IF b.kind = "dataset"
         THEN b.path \notin scanned[e]
         ELSE ~IsEndpoint(plan[e], b.path) /\ ~AsPlanned(e)

Revalidate(e) ==
    /\ step[e] = "revalidate"
    /\ LET b == Current(e)
       IN \/ /\ NeedsRevalidation(e)
             /\ \/ /\ b.kind = "dataset" /\ b.defect = "representation"
                   /\ Raise(e, "partial")
                \/ /\ b.defect = "adapter" \/ (Streamed(b.path) /\ ~files[b.path])
                   /\ Raise(e, "unavailable")
             /\ UNCHANGED <<at, scanned, intact>>
          \/ /\ NeedsRevalidation(e) =>
                  /\ b.defect = "none"
                  /\ Streamed(b.path) => files[b.path]
             /\ scanned' = IF b.kind = "dataset"
                             THEN [scanned EXCEPT ![e] = @ \cup {b.path}]
                             ELSE scanned
             /\ intact' = IF NeedsRevalidation(e)
                            THEN [intact EXCEPT ![e] = @ \cup {b.path}]
                            ELSE intact
             /\ at' = [at EXCEPT ![e] = @ + 1]
             /\ Goto(e, "capture")
             /\ UNCHANGED outcome
    /\ UNCHANGED <<inputs, world, treeVars, captured, passive, integrity, stale>>

AllCaptured(e) ==
    /\ step[e] = "capture" /\ at[e] > Len(plan[e].bindings)
    /\ Goto(e, "endpoints")
    /\ at' = [at EXCEPT ![e] = 1]
    /\ UNCHANGED <<inputs, world, treeVars, captureVars, outcome>>

\* _revalidate_metric_binding extracts both endpoints before it judges.
ScanEndpoint(e) ==
    /\ step[e] = "endpoints" /\ at[e] <= Len(plan[e].endpoints)
    /\ LET a == plan[e].endpoints[at[e]]
           changed == Streamed(a) /\ ~files[a]
       IN /\ stale' = [stale EXCEPT ![e] = @ \/ changed]
          /\ intact' = IF changed THEN intact ELSE [intact EXCEPT ![e] = @ \cup {a}]
    /\ at' = [at EXCEPT ![e] = @ + 1]
    /\ UNCHANGED <<inputs, world, treeVars, step, captured, passive, integrity,
                   scanned, outcome>>

\* Then _revalidate_profile_selection, which reads no file.
JudgeBinding(e) ==
    /\ step[e] = "endpoints" /\ at[e] > Len(plan[e].endpoints)
    /\ IF stale[e] \/ plan[e].defects \cap {"metric", "profile"} # {}
         THEN Raise(e, "unavailable")
         ELSE Goto(e, "create") /\ UNCHANGED outcome
    /\ UNCHANGED <<inputs, world, treeVars, at, captureVars>>

-----------------------------------------------------------------------------------
(* The tree.                                                                 *)

\* A plausible slip: mkdir(exist_ok=True).
CreateOrReuse(e) ==
    /\ step[e] = "create"
    /\ IF Home(e) = NoTree
         THEN /\ inodes' = inodes + 1
              /\ trees' = [trees EXCEPT ![plan[e].id] =
                             [inode |-> inodes', files |-> {}]]
              /\ made' = [made EXCEPT ![e] = inodes']
         ELSE UNCHANGED <<inodes, trees, made>>
    /\ Goto(e, "identify")
    /\ UNCHANGED <<inputs, files, faults, changes, swaps, crashes, at,
                   captureVars, mine, spill, seen, outcome>>

CreateTree(e) ==
    /\ step[e] = "create"
    /\ Home(e) = NoTree
    /\ inodes' = inodes + 1
    /\ trees' = [trees EXCEPT ![plan[e].id] = [inode |-> inodes', files |-> {}]]
    /\ made' = [made EXCEPT ![e] = inodes']
    /\ Goto(e, "identify")
    /\ UNCHANGED <<inputs, files, faults, changes, swaps, crashes, at,
                   captureVars, mine, spill, seen, outcome>>

\* A plausible slip: wait for the other execution to go away.
CollideAndRetry(e) ==
    /\ step[e] = "create"
    /\ Home(e) # NoTree
    /\ UNCHANGED vars

Collide(e) ==
    /\ step[e] = "create"
    /\ Home(e) # NoTree
    /\ Raise(e, "unavailable")
    /\ UNCHANGED <<inputs, world, treeVars, at, captureVars>>

Identify(e) ==
    /\ step[e] = "identify"
    /\ mine' = [mine EXCEPT ![e] = Home(e).inode]
    /\ Goto(e, IF plan[e].benchmark THEN "read" ELSE "spill")
    /\ UNCHANGED <<inputs, world, trees, made, spill, seen, at, captureVars, outcome>>

StreamsDatasets(p) ==
    \E i \in DOMAIN p.bindings :
        p.bindings[i].kind = "dataset" /\ Streamed(p.bindings[i].path)

\* _streaming_dataset_sources and stream_dataset_audit_context: what the scans
\* of the four datasets make of a changed file is a finding, not a refusal.
EnterDatasets(e) ==
    /\ step[e] = "spill"
    /\ IF "datasets" \in plan[e].defects
         THEN Raise(e, "unavailable") /\ UNCHANGED spill
         ELSE /\ spill' = [spill EXCEPT ![e] = StreamsDatasets(plan[e])]
              /\ Goto(e, "baseline") /\ UNCHANGED outcome
    /\ UNCHANGED <<inputs, world, trees, mine, made, seen, at, captureVars>>

After(s) == CASE s = "baseline" -> "candidate"
              [] s = "candidate" -> "manifest"
              [] OTHER -> "load"

\* Every native file is created exclusively, role by role and the manifest last.
Write(e) ==
    /\ step[e] \in NativeFiles
    /\ IF step[e] \in plan[e].defects
         THEN Raise(e, "partial") /\ UNCHANGED trees
         ELSE IF \E f \in Home(e).files : f[1] = step[e]
           THEN Raise(e, "unavailable") /\ UNCHANGED trees
           ELSE /\ trees' = [trees EXCEPT ![plan[e].id].files =
                               @ \cup {<<step[e], e>>}]
                /\ Goto(e, After(step[e])) /\ UNCHANGED outcome
    /\ UNCHANGED <<inputs, world, mine, made, spill, seen, at, captureVars>>

\* audit_research loads the manifest first.
LoadManifest(e) ==
    /\ step[e] = "load"
    /\ IF \E f \in Home(e).files : f[1] = "manifest"
         THEN Goto(e, "read") /\ UNCHANGED outcome
         ELSE Raise(e, "unavailable")
    /\ UNCHANGED <<inputs, world, treeVars, at, captureVars>>

\* The Audit; a trace that cannot be built becomes an unavailable trace and
\* leaves the result alone.
ReadTree(e) ==
    /\ step[e] = "read"
    /\ IF "audit" \in plan[e].defects
         THEN Raise(e, "unavailable") /\ UNCHANGED seen
         ELSE /\ seen' = [seen EXCEPT ![e] =
                            IF plan[e].benchmark THEN {} ELSE Home(e).files]
              /\ Raise(e, "audited")
    /\ UNCHANGED <<inputs, world, trees, mine, made, spill, at, captureVars>>

\* The ExitStack leaves the dataset context.
Unwind(e) ==
    /\ step[e] = "unwind"
    /\ spill' = [spill EXCEPT ![e] = FALSE]
    /\ Goto(e, "lookup")
    /\ UNCHANGED <<inputs, world, trees, mine, made, seen, at, captureVars, outcome>>

-----------------------------------------------------------------------------------
(* _cleanup_plan_tree.  An error in the finally replaces the result.         *)

\* Two plausible slips: a foreign directory is left alone in silence, or removed.
LookUpQuietly(e) ==
    /\ step[e] = "lookup"
    /\ Goto(e, IF Home(e).inode = mine[e] THEN "remove" ELSE "done")
    /\ UNCHANGED <<inputs, world, treeVars, at, captureVars, outcome>>
LookUpUnchecked(e) ==
    /\ step[e] = "lookup"
    /\ Goto(e, IF Home(e) # NoTree THEN "remove" ELSE "done")
    /\ UNCHANGED <<inputs, world, treeVars, at, captureVars, outcome>>

LookUpTree(e) ==
    /\ step[e] = "lookup"
    /\ IF Home(e).inode = mine[e]
         THEN Goto(e, "remove") /\ UNCHANGED outcome
         ELSE /\ Goto(e, "done")
              /\ outcome' = IF Home(e) = NoTree
                              THEN outcome
                              ELSE [outcome EXCEPT ![e] = "unavailable"]
    /\ UNCHANGED <<inputs, world, treeVars, at, captureVars>>

RemoveTree(e) ==
    /\ step[e] = "remove"
    /\ trees' = [trees EXCEPT ![plan[e].id] = NoTree]
    /\ Goto(e, "done")
    /\ UNCHANGED <<inputs, world, mine, made, spill, seen, at, captureVars, outcome>>

-----------------------------------------------------------------------------------
(* What can go wrong.                                                        *)

CallingSystem == Steps \ {"endpoints", "unwind", "done", "crashed"}

\* A system call of the current step fails; cleanup that fails stops there.
SystemFault(e) ==
    /\ step[e] \in CallingSystem
    /\ faults < MaxFaults
    /\ faults' = faults + 1
    /\ IF step[e] \in {"lookup", "remove"}
         THEN /\ outcome' = [outcome EXCEPT ![e] = "unavailable"]
              /\ Goto(e, "done")
         ELSE Raise(e, "unavailable")
    \* rmtree may have removed a part.
    /\ trees' \in {trees} \cup
         (IF step[e] = "remove"
            THEN {[trees EXCEPT ![plan[e].id].files = fs] : fs \in SUBSET Home(e).files}
            ELSE {})
    /\ UNCHANGED <<inputs, files, inodes, changes, swaps, crashes, mine, made,
                   spill, seen, at, captureVars>>

Crash(e) ==
    /\ step[e] \notin {"done", "crashed"}
    /\ crashes < MaxCrashes
    /\ crashes' = crashes + 1
    /\ Goto(e, "crashed")
    /\ UNCHANGED <<inputs, files, inodes, faults, changes, swaps, treeVars, at,
                   captureVars, outcome>>

ChangeCheckout(a) ==
    /\ changes < MaxChanges
    /\ changes' = changes + 1
    /\ files' = [files EXCEPT ![a] = ~@]
    /\ UNCHANGED <<inputs, inodes, faults, swaps, crashes, step, treeVars, at,
                   captureVars, outcome>>

\* Another process puts a directory of its own in place of a tree.  The moment
\* between mkdir and lstat, and the one between lstat and rmtree, cannot be
\* closed by the code: the scratch root is private to the invocation.
ReplaceTree(p) ==
    /\ swaps < MaxSwaps
    /\ trees[p] # NoTree
    /\ \A e \in Executions : plan[e].id = p => step[e] \notin {"identify", "remove"}
    /\ swaps' = swaps + 1
    /\ inodes' = inodes + 1
    /\ trees' = [trees EXCEPT ![p] = [inode |-> inodes', files |-> {}]]
    /\ UNCHANGED <<inputs, files, faults, changes, crashes, step, mine, made,
                   spill, seen, at, captureVars, outcome>>

-----------------------------------------------------------------------------------

Advance(e) ==
    \/ Validate(e) \/ Capture(e) \/ CaptureRefused(e) \/ Revalidate(e)
    \/ AllCaptured(e) \/ ScanEndpoint(e) \/ JudgeBinding(e)
    \/ CreateTree(e) \/ Collide(e) \/ Identify(e) \/ EnterDatasets(e)
    \/ Write(e) \/ LoadManifest(e) \/ ReadTree(e)
    \/ Unwind(e) \/ LookUpTree(e) \/ RemoveTree(e)

Next ==
    \/ \E e \in Executions : Advance(e) \/ SystemFault(e) \/ Crash(e)
    \/ \E a \in Artifacts : ChangeCheckout(a)
    \/ \E p \in PlanIds : ReplaceTree(p)

Spec == Init /\ [][Next]_vars

\* An execution is a thread that runs on.
FairSpec == Spec /\ \A e \in Executions : WF_vars(Advance(e))

-----------------------------------------------------------------------------------
(* Properties.                                                               *)

\* Every variable keeps its type, the byte counters of _capture_plan_artifacts
\* stay within the limits they enforce, and the binding in hand exists.
TypeOK ==
    /\ plan \in [Executions -> PlanChoices] /\ lim \in LimitChoices
    /\ files \in [Artifacts -> BOOLEAN]
    /\ trees \in [PlanIds ->
                    [inode : Nat, files : SUBSET (NativeFiles \X Executions)]]
    /\ inodes \in Nat
    /\ faults \in 0..MaxFaults /\ changes \in 0..MaxChanges
    /\ swaps \in 0..MaxSwaps /\ crashes \in 0..MaxCrashes
    /\ step \in [Executions -> Steps] /\ at \in [Executions -> Nat \ {0}]
    /\ \A e \in Executions : step[e] = "revalidate" => at[e] <= Len(plan[e].bindings)
    /\ captured \in [Executions -> SUBSET Artifacts]
    /\ passive \in [Executions -> 0..lim.total]
    /\ integrity \in [Executions -> 0..lim.streamTotal]
    /\ scanned \in [Executions -> SUBSET Artifacts]
    /\ stale \in [Executions -> BOOLEAN]
    /\ intact \in [Executions -> SUBSET Artifacts]
    /\ mine \in [Executions -> Nat] /\ made \in [Executions -> Nat]
    /\ spill \in [Executions -> BOOLEAN]
    /\ seen \in [Executions -> SUBSET (NativeFiles \X Executions)]
    /\ outcome \in [Executions -> {"pending", "audited", "partial", "unavailable"}]

Paths(p) == {p.bindings[i].path : i \in DOMAIN p.bindings}

\* An AuditResult handed to the caller (execute_ephemeral_audit_with_trace
\* returned) was computed from the whole tree as this very execution wrote it,
\* whoever else used the scratch root and whatever replaced the tree meanwhile.
ResultFromOwnTree ==
    \A e \in Executions :
        step[e] = "done" /\ outcome[e] = "audited" /\ ~plan[e].benchmark =>
            seen[e] = NativeFiles \X {e}

\* Which bindings _capture_plan_artifacts revalidates in their own right, when files
\* up to `small' bytes are held in memory: the first one of a dataset's path; of the
\* others that the metric pair's own check does not read, every table, and fields if
\* the plan is a benchmark, the file is streamed or the adapters issued the id.
Revalidated(p, small, i) ==
    LET b == p.bindings[i]
    IN IF b.kind = "dataset"
         THEN \A j \in DOMAIN p.bindings : j < i /\ p.bindings[j].kind = "dataset" =>
                 p.bindings[j].path # b.path
         ELSE /\ \A k \in DOMAIN p.endpoints : p.endpoints[k] # b.path
              /\ b.kind = "table" \/ p.benchmark \/ Size[b.path] > small \/ b.issued

Flaws(p, small) ==
    {p.bindings[i].defect : i \in {j \in DOMAIN p.bindings : Revalidated(p, small, j)}}

Earned(e) ==
    /\ outcome[e] = "audited" =>
         /\ Flaws(plan[e], lim.file) \subseteq {"none"}
         /\ plan[e].defects \subseteq
              (IF plan[e].benchmark THEN NativeFiles \cup {"datasets"} ELSE {})
         /\ captured[e] = Paths(plan[e])
    /\ outcome[e] = "partial" =>
         "representation" \in Flaws(plan[e], lim.file) \/ plan[e].defects \cap LimitationDefects # {}

ReadWhole(e) == outcome[e] = "audited" => intact[e] = Paths(plan[e])

\* A result needs a plan without a flaw that is looked for, every artifact of which was
\* captured and read whole as recorded by this execution, streamed ones and the metric
\* pair after the capture; and a PARTIAL refusal needs a limitation of the plan itself:
\* neither a changed file nor a failing system call nor a collision may be reported as
\* missing evidence.
OutcomesAreEarned == \A e \in Executions : Earned(e) /\ ReadWhole(e)

\* Cleanup (_cleanup_plan_tree) removes only a directory that the removing
\* execution created: never the tree of another execution or another process.
RemovesOnlyOwnTree ==
    [][\A p \in PlanIds :
          trees[p] # NoTree /\ trees'[p] = NoTree =>
              \E e \in Executions :
                  /\ step[e] = "remove" /\ step'[e] = "done"
                  /\ plan[e].id = p /\ made[e] = trees[p].inode]_vars

\* A plan identity is blocked only for cause: by a running execution, a killed
\* one, a failed system call, or a foreign directory; and a spill exists only
\* while its execution runs or after it was killed.
BlockedOnlyForCause ==
    /\ \A p \in PlanIds :
         trees[p] # NoTree =>
            \/ faults > 0 \/ swaps > 0
            \/ \E e \in Executions : /\ plan[e].id = p /\ made[e] = trees[p].inode
                                     /\ step[e] # "done"
    /\ \A e \in Executions : step[e] = "done" => ~spill[e]

\* The bytes of a set of artifacts, one by one.
BytesOf(S) == UNION {{a} \X (1..Size[a]) : a \in S}
SumOfSizes(S) == Cardinality(BytesOf(S))

\* The budgets as a statement about all artifacts of a plan.
WithinBudgets(p) ==
    /\ \A a \in Paths(p) : WithinFileBounds(a)
    /\ SumOfSizes(Paths(p)) <= lim.streamTotal
    /\ SumOfSizes({a \in Paths(p) : ~Streamed(a)}) <= lim.total

Unclashing(p) ==
    \A i, j \in DOMAIN p.bindings :
        p.bindings[i].path = p.bindings[j].path =>
            p.bindings[i].candidate = p.bindings[j].candidate

Flawless(p) ==
    p.defects = {} /\ \A i \in DOMAIN p.bindings : p.bindings[i].defect = "none"

Fits(p) == WithinBudgets(p) /\ Unclashing(p)

Undisturbed(e) ==
    /\ faults = 0 /\ changes = 0 /\ swaps = 0
    /\ \A d \in Executions \ {e} : plan[d].id # plan[e].id

\* Left alone, a plan without flaws whose artifacts fit the budgets, exactly at
\* a limit included, is audited, and one outside the budgets is unavailable.
UndisturbedOutcome ==
    \A e \in Executions :
        step[e] = "done" /\ Undisturbed(e) /\ Flawless(plan[e]) =>
            outcome[e] = (IF Fits(plan[e]) THEN "audited" ELSE "unavailable")

\* Every execution that is not killed comes to an end.
Settles == \A e \in Executions : <>(step[e] \in {"done", "crashed"})

Live(e) == step[e] \notin {"done", "crashed"}

Holds(e, p) ==
    /\ Live(e) /\ plan[e].id = p
    /\ made[e] # Nobody /\ made[e] = trees[p].inode

\* The directory as the lock it is.
Holder(p) ==
    IF trees[p] = NoTree THEN "free"
    ELSE IF \E e \in Executions : Holds(e, p)
      THEN CHOOSE e \in Executions : Holds(e, p)
      ELSE "stuck"

Answer(e) == CASE step[e] = "done" -> outcome[e]
               [] step[e] = "crashed" -> "crashed"
               [] OTHER -> "open"

Workspace == INSTANCE PlanWorkspace
    WITH holder <- [p \in PlanIds |-> Holder(p)],
         answer <- [e \in Executions |-> Answer(e)]

\* Directories created exclusively and removed by identity are exclusive
\* workspaces, and results come only from holders that gave theirs back.
ImplementsWorkspace == Workspace!Spec

-----------------------------------------------------------------------------------
(* The inductive invariant behind the theorems.                              *)

BeforeTree == {"start", "capture", "revalidate", "endpoints", "create"}
Building == {"spill", "baseline", "candidate", "manifest", "load", "read"}
Leaving == {"unwind", "lookup", "remove"}
Inside == Building \cup Leaving

Foreign(p) ==
    trees[p].inode # Nobody /\ \A d \in Executions : made[d] # trees[p].inode

\* Inodes are handed out once, and only its maker's plan names a tree.
InodeInv ==
    /\ \A p \in PlanIds : /\ trees[p].inode <= inodes
                          /\ trees[p].inode = Nobody => trees[p] = NoTree
    /\ \A e \in Executions : made[e] <= inodes
    /\ \A e, d \in Executions : made[e] # Nobody /\ made[e] = made[d] => e = d
    /\ \A e \in Executions, p \in PlanIds :
         trees[p].inode # Nobody /\ trees[p].inode = made[e] => p = plan[e].id

\* What an execution knows at each step.
Placed(e) ==
    /\ step[e] \in BeforeTree \cup {"identify"} => mine[e] = Nobody
    /\ step[e] \in BeforeTree => made[e] = Nobody
    /\ step[e] = "identify" => made[e] # Nobody /\ Home(e).inode = made[e]
    /\ step[e] \in Inside => made[e] # Nobody /\ mine[e] = made[e]
    /\ step[e] = "remove" => Home(e).inode = made[e]
    /\ step[e] \in BeforeTree \cup Building \cup {"identify"} => outcome[e] = "pending"
    /\ step[e] \in Leaving \cup {"done"} => outcome[e] # "pending"

\* The tree of an execution inside is its own or a foreign one.
Excluding(e) ==
    step[e] \in Inside /\ Home(e).inode # made[e] => Foreign(plan[e].id)

Written(s) == CASE s = "candidate" -> {"baseline"}
                [] s = "manifest" -> Roles
                [] s \in {"load", "read"} -> NativeFiles
                [] OTHER -> {}

\* What its own tree holds while an execution builds it, and what it has read.
Filed(e) ==
    ~plan[e].benchmark =>
        /\ step[e] \in Building \cup {"identify"} /\ Home(e).inode = made[e] =>
             Home(e).files = Written(step[e]) \X {e}
        /\ step[e] \in Leaving /\ Home(e).inode = made[e] /\ outcome[e] = "audited" =>
             seen[e] = NativeFiles \X {e}
        /\ step[e] = "done" /\ outcome[e] = "audited" => seen[e] = NativeFiles \X {e}

WorkspaceInv ==
    InodeInv /\ \A e \in Executions : Placed(e) /\ Excluding(e) /\ Filed(e)

\* What the checks so far have established at each step, and what has been captured.
Passed(e) ==
    LET p == plan[e]
        Behind == {i \in DOMAIN p.bindings : i < at[e]}
    IN /\ step[e] = "start" => at[e] = 1 /\ captured[e] = {} /\ scanned[e] = {}
       /\ step[e] \in (BeforeTree \ {"start"}) \cup {"identify"} \cup Building =>
            FailedEntryChecks(p) = {}
       /\ step[e] \in {"capture", "revalidate"} =>
            /\ \A i \in Behind : /\ p.bindings[i].path \in captured[e]
                                 /\ Revalidated(p, lim.file, i) => p.bindings[i].defect = "none"
            /\ scanned[e] = {p.bindings[i].path :
                               i \in {j \in Behind : p.bindings[j].kind = "dataset"}}
            /\ captured[e] \subseteq Paths(p)
       /\ step[e] = "revalidate" => Current(e).path \in captured[e]
       /\ step[e] \in {"endpoints", "create", "identify"} \cup Building =>
            captured[e] = Paths(p) /\ Flaws(p, lim.file) \subseteq {"none"}
       /\ step[e] \in {"create", "identify"} \cup Building =>
            p.defects \cap {"metric", "profile"} = {}
       /\ ~p.benchmark /\ step[e] \in Building \ {"spill"} =>
            p.defects \cap ({"datasets"} \cup Written(step[e])) = {}

EarnedInv == \A e \in Executions : Passed(e) /\ Earned(e)

\* What has been found intact at each step: a small artifact when it is captured, a
\* streamed one with its first binding, an endpoint when its turn comes.
Found(e) ==
    LET p == plan[e]
    IN /\ step[e] \in BeforeTree => intact[e] \subseteq Paths(p)
       /\ step[e] \in {"capture", "revalidate"} =>
            /\ \A a \in captured[e] : Streamed(a) \/ a \in intact[e]
            /\ \A i \in DOMAIN p.bindings : i < at[e] =>
                 \/ p.bindings[i].path \in intact[e]
                 \/ IsEndpoint(p, p.bindings[i].path)
       /\ step[e] = "endpoints" =>
            \A a \in Paths(p) :
               \/ a \in intact[e] \/ stale[e]
               \/ \E k \in DOMAIN p.endpoints : k >= at[e] /\ p.endpoints[k] = a
       /\ step[e] \in {"create", "identify"} \cup Building => intact[e] = Paths(p)

FoundInv == \A e \in Executions : Found(e) /\ ReadWhole(e)

\* Who is to blame for a tree, and until when a spill may exist.
BlameInv ==
    /\ BlockedOnlyForCause
    /\ \A e \in Executions :
         step[e] \in BeforeTree \cup {"identify", "spill", "lookup", "remove"} => ~spill[e]

\* Behind UndisturbedOutcome: what the counters count, and that a plan which got past
\* the capture fits and is audited in its own tree.
Counted(e) ==
    LET p == plan[e]
        taken == {i \in DOMAIN p.bindings :
                    i < at[e] \/ (i = at[e] /\ step[e] = "revalidate")}
    IN /\ integrity[e] = SumOfSizes(captured[e])
       /\ passive[e] = SumOfSizes({a \in captured[e] : ~Streamed(a)})
       /\ \A a \in captured[e] : WithinFileBounds(a)
       /\ \A i, j \in taken :
            p.bindings[i].path = p.bindings[j].path =>
                p.bindings[i].candidate = p.bindings[j].candidate

Smooth(e) ==
    /\ step[e] \in {"start", "capture", "revalidate"} => Counted(e)
    /\ step[e] \in BeforeTree => ~stale[e]
    /\ step[e] \in {"endpoints", "create", "identify"} \cup Inside => Fits(plan[e])
    /\ step[e] \in {"spill", "load"} \cup NativeFiles => ~plan[e].benchmark
    /\ step[e] \in Leaving \cup {"done"} =>
         outcome[e] = (IF Fits(plan[e]) THEN "audited" ELSE "unavailable")

SmoothInv ==
    /\ changes = 0 => \A a \in Artifacts : files[a]
    /\ \A e \in Executions : Undisturbed(e) /\ Flawless(plan[e]) => Smooth(e)
====
