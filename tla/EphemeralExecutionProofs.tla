------------------------- MODULE EphemeralExecutionProofs -------------------------
(***************************************************************************)
(* Proofs about EphemeralExecution, for any number of executions, plans,   *)
(* artifacts, limits, failures, kills and replaced trees.                  *)
(***************************************************************************)
EXTENDS EphemeralExecution, FiniteSetTheorems, TLAPS

-----------------------------------------------------------------------------------
(* Type correctness.                                                         *)

\* What the assumption says of the plan an execution has.
LEMMA PlanFacts ==
  ASSUME TypeOK, NEW e \in Executions
  PROVE  /\ plan[e] \in PlanChoices /\ plan[e].id \in PlanIds
         /\ plan[e].bindings \in Seq(Bindings) /\ plan[e].benchmark \in BOOLEAN
<1>1. plan[e] \in PlanChoices
  BY DEF TypeOK
<1> QED
  BY <1>1, PlanAssumption DEF PlanIds

LEMMA BindingFacts ==
  ASSUME TypeOK, NEW e \in Executions, at[e] <= Len(plan[e].bindings)
  PROVE  Current(e) \in Bindings /\ Current(e).path \in Artifacts
         /\ Size[Current(e).path] \in Nat
<1>1. at[e] \in 1..Len(plan[e].bindings)
  BY PlanFacts DEF TypeOK
<1>2. Current(e) \in Bindings
  BY <1>1, PlanFacts DEF Current
<1> QED
  BY <1>2, PlanAssumption DEF Bindings

LEMMA EndpointFacts ==
  ASSUME TypeOK, NEW e \in Executions, at[e] <= Len(plan[e].endpoints)
  PROVE  /\ at[e] \in DOMAIN plan[e].endpoints
         /\ plan[e].endpoints[at[e]] \in Artifacts
         /\ plan[e].endpoints[at[e]] \in Paths(plan[e])
<1> DEFINE p == plan[e]
<1>1. p.endpoints \in Seq(Paths(p))
  BY PlanFacts, PlanAssumption DEF Paths
<1>2. at[e] \in DOMAIN p.endpoints
  BY <1>1 DEF TypeOK
<1>3. p.endpoints[at[e]] \in Paths(p)
  BY <1>1, <1>2
<1>4. \A i \in DOMAIN p.bindings : p.bindings[i].path \in Artifacts
  <2>1. \A i \in DOMAIN p.bindings : p.bindings[i] \in Bindings
    BY PlanFacts
  <2>2. \A b \in Bindings : b.path \in Artifacts
    BY DEF Bindings
  <2> QED
    BY <2>1, <2>2
<1> QED
  BY <1>2, <1>3, <1>4 DEF Paths

LEMMA RefusalType ==
  ASSUME NEW p, FailedEntryChecks(p) # {}
  PROVE  Refusal(p) \in {"partial", "unavailable"}
<1> DEFINE F == FailedEntryChecks(p)
<1>1. F \subseteq 1..6
  BY DEF FailedEntryChecks, EntryChecks
<1>2. \E x \in F : \A y \in F : x <= y
  <2>1. \A x \in F : x \in {1, 2, 3, 4, 5, 6}
    BY <1>1
  <2> HIDE DEF F
  <2>2. F # {}
    BY DEF F
  <2> QED
    BY <2>1, <2>2
<1>3. Min(F) \in 1..6
  BY <1>1, <1>2 DEF Min
<1> HIDE DEF F
<1>4. \A i \in 1..6 : EntryChecks[i][2] \in {"partial", "unavailable"}
  BY DEF EntryChecks
<1> QED
  BY <1>3, <1>4 DEF Refusal, F

LEMMA RaiseTypes ==
  ASSUME TypeOK, NEW e \in Executions, NEW class \in {"audited", "partial", "unavailable"},
         Raise(e, class)
  PROVE  /\ outcome' \in [Executions -> {"pending", "audited", "partial", "unavailable"}]
         /\ step' \in [Executions -> Steps]
BY DEF TypeOK, Raise, Goto, Steps

LEMMA GotoTypes ==
  ASSUME TypeOK, NEW e \in Executions, NEW s \in Steps, Goto(e, s)
  PROVE  step' \in [Executions -> Steps]
BY DEF TypeOK, Goto

LEMMA ValidateTypes == ASSUME TypeOK, NEW e \in Executions, Validate(e) PROVE TypeOK'
<1>1. "capture" \in Steps
  BY DEF Steps
<1>2. /\ outcome' \in [Executions -> {"pending", "audited", "partial", "unavailable"}]
      /\ step' \in [Executions -> Steps]
  <2>1. CASE FailedEntryChecks(plan[e]) # {}
    BY <2>1, RefusalType, RaiseTypes DEF Validate
  <2>2. CASE FailedEntryChecks(plan[e]) = {}
    BY <1>1, <2>2, GotoTypes DEF Validate, TypeOK
  <2> QED
    BY <2>1, <2>2
<1>3. \A d \in Executions : step'[d] = "revalidate" => at'[d] <= Len(plan[d].bindings)
  BY DEF Validate, Raise, Goto, TypeOK
<1> QED
  BY <1>2, <1>3 DEF Validate, TypeOK, inputs, world, captureVars, treeVars

LEMMA CaptureTypes == ASSUME TypeOK, NEW e \in Executions, Capture(e) PROVE TypeOK'
<1> DEFINE a == Current(e).path
<1>1. a \in Artifacts /\ Size[a] \in Nat
  BY BindingFacts DEF Capture
<1>2. "revalidate" \in Steps
  BY DEF Steps
<1>3. step' \in [Executions -> Steps]
  BY <1>2, GotoTypes DEF Capture
<1>4. lim.total \in Nat /\ lim.streamTotal \in Nat
  BY PlanAssumption DEF TypeOK
<1>5. /\ captured' \in [Executions -> SUBSET Artifacts]
      /\ passive' \in [Executions -> 0..lim.total]
      /\ integrity' \in [Executions -> 0..lim.streamTotal]
  <2>1. CASE a \in captured[e]
    BY <2>1 DEF Capture, TypeOK
  <2>2. CASE a \notin captured[e]
    <3>1. WithinTotals(e, a)
      BY <2>2 DEF Capture
    <3>2. captured' = [captured EXCEPT ![e] = @ \cup {a}]
      BY <2>2 DEF Capture
    <3>3. integrity' = [integrity EXCEPT ![e] = @ + Size[a]]
      BY <2>2 DEF Capture
    <3>4. passive' = [passive EXCEPT ![e] = @ + (IF Streamed(a) THEN 0 ELSE Size[a])]
      BY <2>2 DEF Capture
    <3>5. captured' \in [Executions -> SUBSET Artifacts]
      BY <1>1, <3>2 DEF TypeOK
    <3>6. integrity[e] + Size[a] \in 0..lim.streamTotal
      BY <1>1, <1>4, <3>1 DEF TypeOK, WithinTotals
    <3>7. passive[e] + (IF Streamed(a) THEN 0 ELSE Size[a]) \in 0..lim.total
      BY <1>1, <1>4, <3>1 DEF TypeOK, WithinTotals
    <3>8. integrity' \in [Executions -> 0..lim.streamTotal]
      BY <3>3, <3>6 DEF TypeOK
    <3>9. passive' \in [Executions -> 0..lim.total]
      BY <3>4, <3>7 DEF TypeOK
    <3> QED
      BY <3>5, <3>8, <3>9
  <2> QED
    BY <2>1, <2>2
<1>6. \A d \in Executions : step'[d] = "revalidate" => at'[d] <= Len(plan[d].bindings)
  BY DEF Capture, Goto, TypeOK
<1>7. intact' \in [Executions -> SUBSET Artifacts]
  <2>1. intact' = intact \/ intact' = [intact EXCEPT ![e] = intact[e] \cup {a}]
    BY DEF Capture
  <2>2. intact[e] \cup {a} \in SUBSET Artifacts
    BY <1>1 DEF TypeOK
  <2> QED
    BY <2>1, <2>2 DEF TypeOK
<1> QED
  BY <1>3, <1>5, <1>6, <1>7 DEF Capture, TypeOK, inputs, world, treeVars

LEMMA RevalidateTypes == ASSUME TypeOK, NEW e \in Executions, Revalidate(e) PROVE TypeOK'
<1>0. at[e] <= Len(plan[e].bindings)
  BY DEF Revalidate, TypeOK
<1>1. Current(e).path \in Artifacts
  BY <1>0, BindingFacts
<1>2. "capture" \in Steps
  BY DEF Steps
<1>3. /\ outcome' \in [Executions -> {"pending", "audited", "partial", "unavailable"}]
      /\ step' \in [Executions -> Steps]
  BY <1>2, RaiseTypes, GotoTypes DEF Revalidate, TypeOK
<1>4. at' \in [Executions -> Nat \ {0}]
  <2>1. at' = at \/ at' = [at EXCEPT ![e] = at[e] + 1]
    BY DEF Revalidate
  <2>2. at[e] + 1 \in Nat \ {0}
    BY DEF TypeOK
  <2> QED
    BY <2>1, <2>2 DEF TypeOK
<1>5. scanned' \in [Executions -> SUBSET Artifacts]
  <2> DEFINE more == scanned[e] \cup {Current(e).path}
  <2>1. \/ scanned' = scanned
        \/ scanned' = [scanned EXCEPT ![e] = more]
    BY DEF Revalidate
  <2>2. more \in SUBSET Artifacts
    BY <1>1 DEF TypeOK
  <2> HIDE DEF more
  <2> QED
    BY <2>1, <2>2 DEF TypeOK
<1>6. \A d \in Executions : step'[d] = "revalidate" => at'[d] <= Len(plan[d].bindings)
  <2>1. step' = [step EXCEPT ![e] = step'[e]] /\ step'[e] # "revalidate"
    BY DEF Revalidate, Raise, Goto, TypeOK
  <2>2. \A d \in Executions \ {e} : at'[d] = at[d] /\ step'[d] = step[d]
    BY <2>1 DEF Revalidate, TypeOK
  <2> QED
    BY <2>1, <2>2 DEF TypeOK
<1>7. UNCHANGED <<inputs, world, treeVars, captured, passive, integrity, stale>>
  BY DEF Revalidate
<1>8. intact' \in [Executions -> SUBSET Artifacts]
  <2>1. \/ intact' = intact
        \/ intact' = [intact EXCEPT ![e] = intact[e] \cup {Current(e).path}]
    BY DEF Revalidate
  <2>2. intact[e] \cup {Current(e).path} \in SUBSET Artifacts
    BY <1>1 DEF TypeOK
  <2> QED
    BY <2>1, <2>2 DEF TypeOK
<1> QED
  BY <1>3, <1>4, <1>5, <1>6, <1>7, <1>8 DEF TypeOK, inputs, world, treeVars

LEMMA CheckingTypes ==
  ASSUME TypeOK, NEW e \in Executions,
         CaptureRefused(e) \/ AllCaptured(e) \/ ScanEndpoint(e) \/ JudgeBinding(e)
  PROVE  TypeOK'
<1> USE DEF inputs, world, treeVars, captureVars
<1>1. {"endpoints", "create"} \subseteq Steps
  BY DEF Steps
<1>2. CASE CaptureRefused(e)
  BY <1>2, RaiseTypes DEF CaptureRefused, Raise, Goto, TypeOK
<1>3. CASE AllCaptured(e)
  <2>1. step' \in [Executions -> Steps]
    BY <1>1, <1>3, GotoTypes DEF AllCaptured
  <2>2. at' \in [Executions -> Nat \ {0}]
    BY <1>3 DEF AllCaptured, TypeOK
  <2>3. \A d \in Executions : step'[d] = "revalidate" => at'[d] <= Len(plan[d].bindings)
    BY <1>3 DEF AllCaptured, Goto, TypeOK
  <2> QED
    BY <1>3, <2>1, <2>2, <2>3 DEF AllCaptured, TypeOK
<1>4. CASE ScanEndpoint(e)
  <2>1. stale' \in [Executions -> BOOLEAN]
    <3>1. PICK x : stale' = [stale EXCEPT ![e] = stale[e] \/ x]
      BY <1>4 DEF ScanEndpoint
    <3>2. (stale[e] \/ x) \in BOOLEAN
      OBVIOUS
    <3> QED
      BY <3>1, <3>2 DEF TypeOK
  <2>2. at' \in [Executions -> Nat \ {0}]
    BY <1>4 DEF ScanEndpoint, TypeOK
  <2>3. intact' \in [Executions -> SUBSET Artifacts]
    <3> DEFINE a == plan[e].endpoints[at[e]]
    <3>1. intact' = intact \/ intact' = [intact EXCEPT ![e] = intact[e] \cup {a}]
      BY <1>4 DEF ScanEndpoint
    <3>2. intact[e] \cup {a} \in SUBSET Artifacts
      BY <1>4, EndpointFacts DEF ScanEndpoint, TypeOK
    <3> HIDE DEF a
    <3> QED
      BY <3>1, <3>2 DEF TypeOK
  <2> QED
    BY <1>4, <2>1, <2>2, <2>3 DEF ScanEndpoint, TypeOK
<1>5. CASE JudgeBinding(e)
  <2>1. /\ outcome' \in [Executions -> {"pending", "audited", "partial", "unavailable"}]
        /\ step' \in [Executions -> Steps]
    BY <1>1, <1>5, RaiseTypes, GotoTypes DEF JudgeBinding, TypeOK
  <2>2. \A d \in Executions : step'[d] = "revalidate" => at'[d] <= Len(plan[d].bindings)
    BY <1>5 DEF JudgeBinding, Raise, Goto, TypeOK
  <2> QED
    BY <1>5, <2>1, <2>2 DEF JudgeBinding, TypeOK
<1> QED
  BY <1>2, <1>3, <1>4, <1>5

\* A step that leaves the captures alone keeps the type if it keeps the type of
\* what it does change, and enters no revalidation.
LEMMA TreeStepTypes ==
  ASSUME TypeOK, UNCHANGED <<inputs, at, captureVars>>,
         files' \in [Artifacts -> BOOLEAN],
         inodes' \in Nat, faults' \in 0..MaxFaults, changes' \in 0..MaxChanges,
         swaps' \in 0..MaxSwaps, crashes' \in 0..MaxCrashes,
         trees' \in [PlanIds ->
                       [inode : Nat, files : SUBSET (NativeFiles \X Executions)]],
         step' \in [Executions -> Steps],
         \A d \in Executions : step'[d] = "revalidate" => step[d] = "revalidate",
         mine' \in [Executions -> Nat], made' \in [Executions -> Nat],
         spill' \in [Executions -> BOOLEAN],
         seen' \in [Executions -> SUBSET (NativeFiles \X Executions)],
         outcome' \in [Executions -> {"pending", "audited", "partial", "unavailable"}]
  PROVE  TypeOK'
BY DEF TypeOK, inputs, captureVars

\* Where a step of an execution goes.
LEMMA NoRevalidation ==
  ASSUME TypeOK, NEW e \in Executions, NEW s, s # "revalidate",
         step' = [step EXCEPT ![e] = s]
  PROVE  \A d \in Executions : step'[d] = "revalidate" => step[d] = "revalidate"
BY DEF TypeOK

Tree == [inode : Nat, files : SUBSET (NativeFiles \X Executions)]

LEMMA TreeTypes ==
  ASSUME TypeOK, NEW e \in Executions
  PROVE  /\ NoTree \in Tree /\ Home(e) \in Tree
         /\ \A n \in Nat : [inode |-> n, files |-> {}] \in Tree
         /\ \A t \in Tree : [trees EXCEPT ![plan[e].id] = t] \in [PlanIds -> Tree]
         /\ \A fs \in SUBSET (NativeFiles \X Executions) :
              [trees EXCEPT ![plan[e].id].files = fs] \in [PlanIds -> Tree]
<1>1. plan[e].id \in PlanIds
  BY PlanFacts
<1>2. trees \in [PlanIds -> Tree]
  BY DEF TypeOK, Tree
<1>3. Home(e) \in Tree
  BY <1>1, <1>2 DEF Home
<1>4. ASSUME NEW fs \in SUBSET (NativeFiles \X Executions)
      PROVE  [trees EXCEPT ![plan[e].id].files = fs] \in [PlanIds -> Tree]
  <2>1. [trees EXCEPT ![plan[e].id].files = fs]
          = [trees EXCEPT ![plan[e].id] = [Home(e) EXCEPT !.files = fs]]
    BY <1>1, <1>2 DEF Home
  <2>2. [Home(e) EXCEPT !.files = fs] \in Tree
    BY <1>3 DEF Tree
  <2> QED
    BY <1>1, <1>2, <2>1, <2>2
<1> QED
  BY <1>1, <1>2, <1>3, <1>4 DEF NoTree, Nobody, Tree

LEMMA CreatingTypes ==
  ASSUME TypeOK, NEW e \in Executions, CreateTree(e) \/ Collide(e) \/ Identify(e)
  PROVE  TypeOK'
<1> USE DEF inputs, world, treeVars
<1>1. {"identify", "read", "spill"} \subseteq Steps
  BY DEF Steps
<1>2. CASE CreateTree(e)
  <2>1. inodes' \in Nat /\ inodes' = inodes + 1
    BY <1>2 DEF CreateTree, TypeOK
  <2>2. trees' \in [PlanIds -> Tree]
    BY <1>2, <2>1, TreeTypes DEF CreateTree
  <2>3. made' \in [Executions -> Nat]
    BY <1>2, <2>1 DEF CreateTree, TypeOK
  <2>4. step' \in [Executions -> Steps] /\ step' = [step EXCEPT ![e] = "identify"]
    BY <1>1, <1>2, GotoTypes DEF CreateTree, Goto
  <2>5. UNCHANGED <<inputs, at, captureVars, files, faults, changes, swaps, crashes,
                    mine, spill, seen, outcome>>
    BY <1>2 DEF CreateTree
  <2>6. \A d \in Executions : step'[d] = "revalidate" => step[d] = "revalidate"
    BY <2>4, NoRevalidation
  <2> QED
    BY <2>1, <2>2, <2>3, <2>4, <2>5, <2>6, TreeStepTypes DEF TypeOK, Tree
<1>3. CASE Collide(e)
  <2>1. /\ outcome' \in [Executions -> {"pending", "audited", "partial", "unavailable"}]
        /\ step' \in [Executions -> Steps]
    BY <1>3, RaiseTypes DEF Collide
  <2>2. \A d \in Executions : step'[d] = "revalidate" => step[d] = "revalidate"
    BY <1>3, NoRevalidation DEF Collide, Raise, Goto
  <2>3. UNCHANGED <<inputs, world, treeVars, at, captureVars>>
    BY <1>3 DEF Collide
  <2> QED
    BY <2>1, <2>2, <2>3, TreeStepTypes DEF TypeOK
<1>4. CASE Identify(e)
  <2>1. PICK s \in {"read", "spill"} : step' = [step EXCEPT ![e] = s]
    BY <1>4 DEF Identify, Goto
  <2>2. step' \in [Executions -> Steps]
    BY <1>1, <2>1 DEF TypeOK
  <2>3. mine' \in [Executions -> Nat]
    <3>1. Home(e).inode \in Nat
      BY TreeTypes DEF Tree
    <3> QED
      BY <1>4, <3>1 DEF Identify, TypeOK
  <2>4. \A d \in Executions : step'[d] = "revalidate" => step[d] = "revalidate"
    BY <2>1, NoRevalidation
  <2>5. UNCHANGED <<inputs, world, trees, made, spill, seen, at, captureVars, outcome>>
    BY <1>4 DEF Identify
  <2> QED
    BY <2>2, <2>3, <2>4, <2>5, TreeStepTypes DEF TypeOK
<1> QED
  BY <1>2, <1>3, <1>4

LEMMA BuildingTypes ==
  ASSUME TypeOK, NEW e \in Executions,
         EnterDatasets(e) \/ Write(e) \/ LoadManifest(e) \/ ReadTree(e)
  PROVE  TypeOK'
<1> USE DEF inputs, world, treeVars
<1> DEFINE Settled ==
      /\ outcome' \in [Executions -> {"pending", "audited", "partial", "unavailable"}]
      /\ step' \in [Executions -> Steps]
      /\ \A d \in Executions : step'[d] = "revalidate" => step[d] = "revalidate"
<1>1. ASSUME NEW class \in {"audited", "partial", "unavailable"}, Raise(e, class)
      PROVE  Settled
  BY <1>1, RaiseTypes, NoRevalidation DEF Raise, Goto
<1>2. ASSUME NEW s \in Steps, s # "revalidate", Goto(e, s), UNCHANGED outcome
      PROVE  Settled
  BY <1>2, GotoTypes, NoRevalidation DEF Goto, TypeOK
<1> HIDE DEF Settled
<1>3. CASE EnterDatasets(e)
  <2>1. Settled
    <3>1. "baseline" \in Steps
      BY DEF Steps
    <3> QED
      BY <1>1, <1>2, <1>3, <3>1 DEF EnterDatasets
  <2>2. spill' \in [Executions -> BOOLEAN]
    <3>1. StreamsDatasets(plan[e]) \in BOOLEAN
      BY DEF StreamsDatasets
    <3>2. spill' = spill \/ spill' = [spill EXCEPT ![e] = StreamsDatasets(plan[e])]
      BY <1>3 DEF EnterDatasets
    <3> QED
      BY <3>1, <3>2 DEF TypeOK
  <2>3. UNCHANGED <<inputs, world, trees, mine, made, seen, at, captureVars>>
    BY <1>3 DEF EnterDatasets
  <2> QED
    BY <2>1, <2>2, <2>3, TreeStepTypes DEF TypeOK, Settled
<1>4. CASE Write(e)
  <2>1. After(step[e]) \in Steps /\ After(step[e]) # "revalidate"
    BY DEF After, Steps
  <2>2. Settled
    BY <1>1, <1>2, <1>4, <2>1 DEF Write
  <2>3. trees' \in [PlanIds -> Tree]
    <3> DEFINE fs == Home(e).files \cup {<<step[e], e>>}
    <3>1. fs \in SUBSET (NativeFiles \X Executions)
      BY <1>4, TreeTypes DEF Write, Tree
    <3>2. trees' = trees \/ trees' = [trees EXCEPT ![plan[e].id].files = fs]
      BY <1>4 DEF Write, Home
    <3> HIDE DEF fs
    <3>3. [trees EXCEPT ![plan[e].id].files = fs] \in [PlanIds -> Tree]
      BY <3>1, TreeTypes
    <3>4. trees \in [PlanIds -> Tree]
      BY DEF TypeOK, Tree
    <3> QED
      BY <3>2, <3>3, <3>4
  <2>4. UNCHANGED <<inputs, world, mine, made, spill, seen, at, captureVars>>
    BY <1>4 DEF Write
  <2> QED
    BY <2>2, <2>3, <2>4, TreeStepTypes DEF TypeOK, Settled, Tree
<1>5. CASE LoadManifest(e)
  <2>1. Settled
    <3>1. "read" \in Steps
      BY DEF Steps
    <3> QED
      BY <1>1, <1>2, <1>5, <3>1 DEF LoadManifest
  <2>2. UNCHANGED <<inputs, world, treeVars, at, captureVars>>
    BY <1>5 DEF LoadManifest
  <2> QED
    BY <2>1, <2>2, TreeStepTypes DEF TypeOK, Settled
<1>6. CASE ReadTree(e)
  <2>1. Settled
    BY <1>1, <1>6 DEF ReadTree
  <2>2. seen' \in [Executions -> SUBSET (NativeFiles \X Executions)]
    <3> DEFINE fs == IF plan[e].benchmark THEN {} ELSE Home(e).files
    <3>1. fs \in SUBSET (NativeFiles \X Executions)
      BY TreeTypes DEF Tree
    <3>2. seen' = seen \/ seen' = [seen EXCEPT ![e] = fs]
      BY <1>6 DEF ReadTree
    <3> HIDE DEF fs
    <3> QED
      BY <3>1, <3>2 DEF TypeOK
  <2>3. UNCHANGED <<inputs, world, trees, mine, made, spill, at, captureVars>>
    BY <1>6 DEF ReadTree
  <2> QED
    BY <2>1, <2>2, <2>3, TreeStepTypes DEF TypeOK, Settled
<1> QED
  BY <1>3, <1>4, <1>5, <1>6

LEMMA CleanupTypes ==
  ASSUME TypeOK, NEW e \in Executions, Unwind(e) \/ LookUpTree(e) \/ RemoveTree(e)
  PROVE  TypeOK'
<1> USE DEF inputs, world, treeVars
<1>1. {"lookup", "remove", "done"} \subseteq Steps
  BY DEF Steps
<1>2. PICK s \in {"lookup", "remove", "done"} : step' = [step EXCEPT ![e] = s]
  BY DEF Unwind, LookUpTree, RemoveTree, Goto
<1>3. step' \in [Executions -> Steps]
  BY <1>1, <1>2 DEF TypeOK
<1>4. \A d \in Executions : step'[d] = "revalidate" => step[d] = "revalidate"
  BY <1>2, NoRevalidation
<1>5. outcome' \in [Executions -> {"pending", "audited", "partial", "unavailable"}]
  BY DEF Unwind, LookUpTree, RemoveTree, TypeOK
<1>6. spill' \in [Executions -> BOOLEAN]
  BY DEF Unwind, LookUpTree, RemoveTree, TypeOK
<1>7. trees' \in [PlanIds -> Tree]
  BY TreeTypes, ZenonT(40) DEF Unwind, LookUpTree, RemoveTree, TypeOK, Tree
<1>8. UNCHANGED <<inputs, world, mine, made, seen, at, captureVars>>
  BY DEF Unwind, LookUpTree, RemoveTree
<1> QED
  BY <1>3, <1>4, <1>5, <1>6, <1>7, <1>8, TreeStepTypes DEF TypeOK, Tree

LEMMA FaultTypes == ASSUME TypeOK, NEW e \in Executions, SystemFault(e) PROVE TypeOK'
<1> USE DEF inputs
<1>1. faults' \in 0..MaxFaults
  <2>1. MaxFaults \in Nat
    BY PlanAssumption
  <2> QED
    BY <2>1 DEF SystemFault, TypeOK
<1>2. /\ outcome' \in [Executions -> {"pending", "audited", "partial", "unavailable"}]
      /\ step' \in [Executions -> Steps]
      /\ \A d \in Executions : step'[d] = "revalidate" => step[d] = "revalidate"
  <2>1. CASE step[e] \in {"lookup", "remove"}
    <3>1. "done" \in Steps
      BY DEF Steps
    <3>2. step' = [step EXCEPT ![e] = "done"]
      BY <2>1 DEF SystemFault, Goto
    <3>3. outcome' = [outcome EXCEPT ![e] = "unavailable"]
      BY <2>1 DEF SystemFault
    <3> QED
      BY <3>1, <3>2, <3>3, NoRevalidation DEF TypeOK
  <2>2. CASE step[e] \notin {"lookup", "remove"}
    <3>1. Raise(e, "unavailable")
      BY <2>2 DEF SystemFault
    <3> QED
      BY <3>1, RaiseTypes, NoRevalidation DEF Raise, Goto
  <2> QED
    BY <2>1, <2>2
<1>3. trees' \in [PlanIds -> Tree]
  <2>1. ASSUME NEW fs \in SUBSET Home(e).files
        PROVE  [trees EXCEPT ![plan[e].id].files = fs] \in [PlanIds -> Tree]
    <3>1. fs \in SUBSET (NativeFiles \X Executions)
      BY TreeTypes DEF Tree
    <3> QED
      BY <3>1, TreeTypes
  <2>2. \/ trees' = trees
        \/ \E fs \in SUBSET Home(e).files :
             trees' = [trees EXCEPT ![plan[e].id].files = fs]
    BY DEF SystemFault
  <2>3. trees \in [PlanIds -> Tree]
    BY DEF TypeOK, Tree
  <2> QED
    BY <2>1, <2>2, <2>3
<1>4. UNCHANGED <<inputs, files, inodes, changes, swaps, crashes, mine, made, spill,
                  seen, at, captureVars>>
  BY DEF SystemFault
<1> QED
  BY <1>1, <1>2, <1>3, <1>4, TreeStepTypes DEF TypeOK, Tree

LEMMA CrashTypes == ASSUME TypeOK, NEW e \in Executions, Crash(e) PROVE TypeOK'
<1>1. crashes' \in 0..MaxCrashes
  <2>1. MaxCrashes \in Nat
    BY PlanAssumption
  <2> QED
    BY <2>1 DEF Crash, TypeOK
<1>2. step' \in [Executions -> Steps] /\ step' = [step EXCEPT ![e] = "crashed"]
  BY DEF Crash, Goto, TypeOK, Steps
<1>3. \A d \in Executions : step'[d] = "revalidate" => step[d] = "revalidate"
  BY <1>2, NoRevalidation
<1>4. UNCHANGED <<inputs, files, inodes, faults, changes, swaps, treeVars, at,
                  captureVars, outcome>>
  BY DEF Crash
<1> QED
  BY <1>1, <1>2, <1>3, <1>4, TreeStepTypes DEF TypeOK, treeVars

LEMMA OthersTypes ==
  ASSUME TypeOK,
         (\E a \in Artifacts : ChangeCheckout(a)) \/ (\E p \in PlanIds : ReplaceTree(p))
  PROVE  TypeOK'
<1>1. MaxChanges \in Nat /\ MaxSwaps \in Nat
  BY PlanAssumption
<1>2. CASE \E a \in Artifacts : ChangeCheckout(a)
  <2>1. PICK a \in Artifacts : ChangeCheckout(a)
    BY <1>2
  <2>2. changes' \in 0..MaxChanges
    BY <1>1, <2>1 DEF ChangeCheckout, TypeOK
  <2>3. files' \in [Artifacts -> BOOLEAN]
    BY <2>1 DEF ChangeCheckout, TypeOK
  <2>4. UNCHANGED <<inputs, inodes, faults, swaps, crashes, step, treeVars, at,
                    captureVars, outcome>>
    BY <2>1 DEF ChangeCheckout
  <2> QED
    BY <2>2, <2>3, <2>4 DEF TypeOK, inputs, treeVars, captureVars
<1>3. CASE \E p \in PlanIds : ReplaceTree(p)
  <2>1. PICK p \in PlanIds : ReplaceTree(p)
    BY <1>3
  <2>2. swaps' \in 0..MaxSwaps
    BY <1>1, <2>1 DEF ReplaceTree, TypeOK
  <2>3. inodes' \in Nat
    BY <2>1 DEF ReplaceTree, TypeOK
  <2>4. trees' \in [PlanIds -> Tree]
    BY <2>1, <2>3 DEF ReplaceTree, TypeOK, Tree
  <2>5. UNCHANGED <<inputs, files, faults, changes, crashes, step, mine, made,
                    spill, seen, at, captureVars, outcome>>
    BY <2>1 DEF ReplaceTree
  <2> QED
    BY <2>2, <2>3, <2>4, <2>5 DEF TypeOK, inputs, captureVars, Tree
<1> QED
  BY <1>2, <1>3

LEMMA InitTypes == Init => TypeOK
<1> SUFFICES ASSUME Init PROVE TypeOK
  OBVIOUS
<1>1. {MaxFaults, MaxChanges, MaxSwaps, MaxCrashes} \subseteq Nat
  BY PlanAssumption
<1>2. lim.total \in Nat /\ lim.streamTotal \in Nat
  BY PlanAssumption DEF Init
<1>3. /\ step \in [Executions -> Steps]
      /\ \A e \in Executions : step[e] # "revalidate"
  BY DEF Init, AllOf, Steps
<1>4. trees \in [PlanIds -> Tree]
  BY DEF Init, NoTree, Nobody, Tree
<1>5. /\ at \in [Executions -> Nat \ {0}]
      /\ mine \in [Executions -> Nat] /\ made \in [Executions -> Nat]
      /\ passive \in [Executions -> 0..lim.total]
      /\ integrity \in [Executions -> 0..lim.streamTotal]
  BY <1>2 DEF Init, AllOf, Nobody
<1>6. /\ captured \in [Executions -> SUBSET Artifacts]
      /\ scanned \in [Executions -> SUBSET Artifacts]
      /\ intact \in [Executions -> SUBSET Artifacts]
      /\ stale \in [Executions -> BOOLEAN] /\ spill \in [Executions -> BOOLEAN]
      /\ seen \in [Executions -> SUBSET (NativeFiles \X Executions)]
      /\ outcome \in [Executions -> {"pending", "audited", "partial", "unavailable"}]
  BY DEF Init, AllOf
<1>7. /\ faults \in 0..MaxFaults /\ changes \in 0..MaxChanges
      /\ swaps \in 0..MaxSwaps /\ crashes \in 0..MaxCrashes /\ inodes \in Nat
  BY <1>1 DEF Init
<1>8. /\ plan \in [Executions -> PlanChoices] /\ lim \in LimitChoices
      /\ files \in [Artifacts -> BOOLEAN]
  BY DEF Init
<1> QED
  BY <1>3, <1>4, <1>5, <1>6, <1>7, <1>8 DEF TypeOK, Tree

LEMMA NextTypes == TypeOK /\ [Next]_vars => TypeOK'
<1> SUFFICES ASSUME TypeOK, [Next]_vars PROVE TypeOK'
  OBVIOUS
<1>1. ASSUME NEW e \in Executions, Advance(e) PROVE TypeOK'
  BY <1>1, ValidateTypes, CaptureTypes, RevalidateTypes, CheckingTypes,
     CreatingTypes, BuildingTypes, CleanupTypes DEF Advance
<1>2. CASE UNCHANGED vars
  BY <1>2 DEF vars, inputs, world, captureVars, TypeOK
<1> QED
  BY <1>1, <1>2, FaultTypes, CrashTypes, OthersTypes DEF Next

\* TypeOK of an execution of any plans in any number: the byte counters of
\* _capture_plan_artifacts never pass the limits, and no binding index runs away.
THEOREM ExecutionTypeCorrect == Spec => []TypeOK
<1> QED
  BY InitTypes, NextTypes, PTL DEF Spec

-----------------------------------------------------------------------------------
(* The workspace invariant.                                                  *)

Own(e) == Placed(e) /\ Excluding(e) /\ Filed(e)

\* An execution that does nothing keeps its invariant while its tree is left alone.
LEMMA Bystander ==
  ASSUME NEW d \in Executions, Own(d), plan' = plan,
         trees'[plan[d].id] = trees[plan[d].id],
         step'[d] = step[d], mine'[d] = mine[d], made'[d] = made[d],
         seen'[d] = seen[d], outcome'[d] = outcome[d],
         Foreign(plan[d].id) => Foreign(plan[d].id)'
  PROVE  Own(d)'
<1>1. Placed(d)'
  BY DEF Own, Placed, Home
<1>2. Excluding(d)'
  BY DEF Own, Excluding, Home
<1>3. Filed(d)'
  BY DEF Own, Filed, Home
<1> QED
  BY <1>1, <1>2, <1>3 DEF Own

\* Steps that leave the trees alone and change the locals of one execution.
LEMMA LocalStep ==
  ASSUME TypeOK, WorkspaceInv, NEW e \in Executions,
         UNCHANGED <<plan, trees, made, inodes>>,
         \A d \in Executions \ {e} :
            /\ step'[d] = step[d] /\ outcome'[d] = outcome[d]
            /\ mine'[d] = mine[d] /\ seen'[d] = seen[d],
         Own(e)'
  PROVE  WorkspaceInv'
<1>1. InodeInv'
  BY DEF WorkspaceInv, InodeInv
<1>2. ASSUME NEW d \in Executions PROVE Own(d)'
  <2>1. Own(d)
    BY DEF WorkspaceInv, Own
  <2>2. Foreign(plan[d].id) => Foreign(plan[d].id)'
    BY DEF Foreign
  <2>3. CASE d # e
    BY <2>1, <2>2, <2>3, Bystander
  <2> QED
    BY <2>3
<1> QED
  BY <1>1, <1>2 DEF WorkspaceInv, Own

\* An execution that refuses without a tree.
LEMMA RefusesOutside ==
  ASSUME TypeOK, WorkspaceInv, NEW e \in Executions, step[e] \in BeforeTree \cup {"identify"},
         UNCHANGED <<plan, trees, made, inodes, mine, seen>>,
         NEW class \in {"partial", "unavailable"}, Raise(e, class)
  PROVE  WorkspaceInv'
<1>1. Own(e)
  BY DEF WorkspaceInv, Own
<1>2. mine[e] = Nobody
  BY <1>1 DEF Own, Placed
<1>3. step'[e] = "done" /\ outcome'[e] = class
  BY <1>2 DEF Raise, Goto, TypeOK
<1>4. Own(e)'
  BY <1>3 DEF Own, Placed, Excluding, Filed, Building, Inside, Leaving, BeforeTree
<1> QED
  BY <1>4, LocalStep DEF Raise, Goto, TypeOK

\* One that goes on checking.
LEMMA ChecksOn ==
  ASSUME TypeOK, WorkspaceInv, NEW e \in Executions, step[e] \in BeforeTree,
         UNCHANGED <<plan, trees, made, inodes, mine, seen, outcome>>,
         \/ UNCHANGED step
         \/ \E s \in BeforeTree : Goto(e, s)
  PROVE  WorkspaceInv'
<1>1. Own(e)
  BY DEF WorkspaceInv, Own
<1>2. step'[e] \in BeforeTree
  BY DEF Goto, TypeOK
<1>3. Own(e)'
  BY <1>1, <1>2 DEF Own, Placed, Excluding, Filed, Building, Inside, Leaving, BeforeTree
<1> QED
  BY <1>3, LocalStep DEF Goto, TypeOK

\* One that fails inside: it leaves through the cleanup.
LEMMA RefusesInside ==
  ASSUME TypeOK, WorkspaceInv, NEW e \in Executions, step[e] \in Building,
         UNCHANGED <<plan, trees, made, inodes, mine, seen>>,
         NEW class \in {"partial", "unavailable"}, Raise(e, class)
  PROVE  WorkspaceInv'
<1>1. Own(e)
  BY DEF WorkspaceInv, Own
<1>2. mine[e] # Nobody /\ mine[e] = made[e]
  BY <1>1 DEF Own, Placed, Inside
<1>3. step'[e] = "unwind" /\ outcome'[e] = class
  BY <1>2 DEF Raise, Goto, TypeOK
<1>4. Placed(e)'
  BY <1>2, <1>3 DEF Placed, Building, Inside, Leaving, BeforeTree
<1>5. Excluding(e)'
  BY <1>1 DEF Own, Excluding, Home, Foreign, Inside
<1>6. Filed(e)'
  BY <1>3 DEF Filed, Building
<1> QED
  BY <1>4, <1>5, <1>6, LocalStep DEF Raise, Goto, TypeOK, Own

LEMMA CheckingKeeps ==
  ASSUME TypeOK, WorkspaceInv, NEW e \in Executions,
         \/ Validate(e) \/ Capture(e) \/ CaptureRefused(e) \/ Revalidate(e)
         \/ AllCaptured(e) \/ ScanEndpoint(e) \/ JudgeBinding(e) \/ Collide(e)
  PROVE  WorkspaceInv'
<1>1. UNCHANGED <<plan, trees, made, inodes, mine, seen>> /\ step[e] \in BeforeTree
  BY DEF Validate, Capture, CaptureRefused, Revalidate, AllCaptured, ScanEndpoint,
     JudgeBinding, Collide, inputs, world, treeVars, BeforeTree
<1>2. {"capture", "revalidate", "endpoints", "create"} \subseteq BeforeTree
  BY DEF BeforeTree
<1>3. \/ \E class \in {"partial", "unavailable"} : Raise(e, class)
      \/ UNCHANGED outcome /\ (UNCHANGED step \/ \E s \in BeforeTree : Goto(e, s))
  <2>1. CASE Validate(e)
    BY <1>2, <2>1, RefusalType DEF Validate
  <2>2. CASE Revalidate(e)
    BY <1>2, <2>2 DEF Revalidate
  <2>3. CASE Capture(e) \/ CaptureRefused(e) \/ AllCaptured(e)
    BY <1>2, <2>3 DEF Capture, CaptureRefused, AllCaptured
  <2>4. CASE ScanEndpoint(e) \/ JudgeBinding(e) \/ Collide(e)
    BY <1>2, <2>4 DEF ScanEndpoint, JudgeBinding, Collide
  <2> QED
    BY <2>1, <2>2, <2>3, <2>4
<1> QED
  BY <1>1, <1>3, RefusesOutside, ChecksOn

LEMMA CreateKeeps ==
  ASSUME TypeOK, WorkspaceInv, NEW e \in Executions, CreateTree(e)
  PROVE  WorkspaceInv'
<1> DEFINE n == inodes + 1
           q == plan[e].id
<1>1. /\ Own(e) /\ made[e] = Nobody /\ mine[e] = Nobody /\ outcome[e] = "pending"
      /\ trees[q] = NoTree /\ trees[q].inode = Nobody /\ q \in PlanIds
  BY PlanFacts DEF WorkspaceInv, Own, Placed, CreateTree, BeforeTree, Home, NoTree
<1>2. n \in Nat /\ n # Nobody
  BY DEF TypeOK, Nobody
<1>3. /\ trees' = [trees EXCEPT ![q] = [inode |-> n, files |-> {}]]
      /\ made' = [made EXCEPT ![e] = n] /\ inodes' = n
      /\ step' = [step EXCEPT ![e] = "identify"]
      /\ UNCHANGED <<plan, mine, seen, outcome>>
  BY DEF CreateTree, Goto, inputs
<1>4. /\ \A p \in PlanIds : trees[p].inode # n /\ trees[p].inode <= n
      /\ \A d \in Executions : made[d] # n /\ made[d] <= n
  <2>1. /\ \A p \in PlanIds : trees[p].inode \in Nat
        /\ \A d \in Executions : made[d] \in Nat
        /\ inodes \in Nat
    BY DEF TypeOK
  <2> QED
    BY <2>1 DEF WorkspaceInv, InodeInv
<1>5. /\ trees'[q] = [inode |-> n, files |-> {}]
      /\ \A p \in PlanIds \ {q} : trees'[p] = trees[p]
      /\ made'[e] = n /\ \A d \in Executions \ {e} : made'[d] = made[d]
  BY <1>1, <1>3 DEF TypeOK
<1> HIDE DEF n, q
<1>6. InodeInv'
  <2>1. InodeInv
    BY DEF WorkspaceInv
  <2>2. \A p \in PlanIds : trees'[p].inode <= n /\ (trees'[p].inode = Nobody => trees'[p] = NoTree)
    BY <1>2, <1>4, <1>5, <2>1 DEF InodeInv
  <2>3. \A d \in Executions : made'[d] <= n
    BY <1>2, <1>4, <1>5
  <2>4. \A d, c \in Executions : made'[d] # Nobody /\ made'[d] = made'[c] => d = c
    BY <1>4, <1>5, <2>1 DEF InodeInv
  <2>5. \A d \in Executions, p \in PlanIds :
          trees'[p].inode # Nobody /\ trees'[p].inode = made'[d] => p = plan[d].id
    <3> SUFFICES ASSUME NEW d \in Executions, NEW p \in PlanIds,
                        trees'[p].inode # Nobody, trees'[p].inode = made'[d]
                 PROVE  p = plan[d].id
      OBVIOUS
    <3>1. CASE d = e /\ p = q
      BY <3>1 DEF q
    <3>2. CASE d = e /\ p # q
      BY <1>4, <1>5, <3>2
    <3>3. CASE d # e /\ p = q
      BY <1>4, <1>5, <3>3
    <3>4. CASE d # e /\ p # q
      BY <1>5, <2>1, <3>4 DEF InodeInv
    <3> QED
      BY <3>1, <3>2, <3>3, <3>4
  <2> QED
    BY <1>3, <2>2, <2>3, <2>4, <2>5 DEF InodeInv
<1>7. ASSUME NEW d \in Executions, d # e PROVE Own(d)'
  <2>1. Own(d)
    BY DEF WorkspaceInv, Own
  <2>2. step'[d] = step[d]
    BY <1>3, <1>7 DEF TypeOK
  <2>3. CASE plan[d].id # q
    <3>1. plan[d].id \in PlanIds /\ trees'[plan[d].id] = trees[plan[d].id]
      BY <1>5, <2>3, PlanFacts
    <3>2. Foreign(plan[d].id) => Foreign(plan[d].id)'
      BY <1>3, <1>4, <1>5, <3>1 DEF Foreign
    <3> QED
      BY <1>3, <1>5, <1>7, <2>1, <2>2, <3>1, <3>2, Bystander
  <2>4. CASE plan[d].id = q
    <3>1. step[d] \notin Inside \cup {"identify"}
      BY <1>1, <2>1, <2>4 DEF Own, Placed, Excluding, Foreign, Home, Inside
    <3>2. Placed(d)'
      BY <1>3, <1>5, <1>7, <2>1, <2>2, <3>1 DEF Own, Placed, Inside, Leaving
    <3>3. Excluding(d)' /\ Filed(d)'
      BY <1>3, <2>1, <2>2, <3>1 DEF Own, Excluding, Filed, Inside
    <3> QED
      BY <3>2, <3>3 DEF Own
  <2> QED
    BY <2>3, <2>4
<1>8. Own(e)'
  <2>1. step'[e] = "identify" /\ mine'[e] = Nobody /\ outcome'[e] = "pending"
    BY <1>1, <1>3 DEF TypeOK
  <2>2. Home(e)' = [inode |-> n, files |-> {}]
    BY <1>3, <1>5 DEF Home, q
  <2>3. Placed(e)'
    BY <1>2, <1>5, <2>1, <2>2 DEF Placed, BeforeTree, Inside, Building, Leaving
  <2>4. Excluding(e)' /\ Filed(e)'
    BY <2>1, <2>2 DEF Excluding, Filed, Inside, Building, Leaving, Written
  <2> QED
    BY <2>3, <2>4 DEF Own
<1> QED
  BY <1>6, <1>7, <1>8 DEF WorkspaceInv, Own

LEMMA IdentifyKeeps ==
  ASSUME TypeOK, WorkspaceInv, NEW e \in Executions, Identify(e)
  PROVE  WorkspaceInv'
<1>1. Own(e) /\ step[e] = "identify"
  BY DEF WorkspaceInv, Own, Identify
<1>2. made[e] # Nobody /\ Home(e).inode = made[e] /\ outcome[e] = "pending"
  BY <1>1 DEF Own, Placed
<1>3. /\ UNCHANGED <<plan, trees, made, inodes, seen, outcome>>
      /\ mine' = [mine EXCEPT ![e] = Home(e).inode]
      /\ step' = [step EXCEPT ![e] = IF plan[e].benchmark THEN "read" ELSE "spill"]
  BY DEF Identify, Goto, inputs, world
<1>4. mine'[e] = made[e] /\ step'[e] = IF plan[e].benchmark THEN "read" ELSE "spill"
  BY <1>2, <1>3 DEF TypeOK
<1>5. Placed(e)'
  BY <1>2, <1>3, <1>4 DEF Placed, BeforeTree, Inside, Building, Leaving
<1>6. Excluding(e)'
  BY <1>2, <1>3 DEF Excluding, Home
<1>7. Filed(e)'
  <2>1. ~plan[e].benchmark => Home(e).files = {}
    <3>1. Written("identify") = {}
      BY DEF Written
    <3> QED
      BY <1>1, <1>2, <3>1 DEF Own, Filed
  <2>2. Written("spill") = {}
    BY DEF Written
  <2> QED
    BY <1>3, <1>4, <2>1, <2>2 DEF Filed, Leaving, Home
<1> QED
  BY <1>3, <1>5, <1>6, <1>7, LocalStep DEF TypeOK, Own

\* An execution inside that goes from one step to the next without writing.
LEMMA BuildsOn ==
  ASSUME TypeOK, WorkspaceInv, NEW e \in Executions,
         UNCHANGED <<plan, trees, made, inodes, mine, seen, outcome>>,
         \/ step[e] = "spill" /\ Goto(e, "baseline")
         \/ step[e] = "load" /\ Goto(e, "read")
         \/ step[e] = "unwind" /\ Goto(e, "lookup")
  PROVE  WorkspaceInv'
<1>1. Own(e)
  BY DEF WorkspaceInv, Own
<1>2. \/ step[e] = "spill" /\ step'[e] = "baseline"
      \/ step[e] = "load" /\ step'[e] = "read"
      \/ step[e] = "unwind" /\ step'[e] = "lookup"
  BY DEF Goto, TypeOK
<1>3. Placed(e)'
  BY <1>1, <1>2 DEF Own, Placed, BeforeTree, Inside, Building, Leaving
<1>4. Excluding(e)'
  BY <1>1, <1>2 DEF Own, Excluding, Inside, Building, Leaving, Home, Foreign
<1>5. Filed(e)'
  <2>1. Written("spill") = Written("baseline") /\ Written("load") = Written("read")
    BY DEF Written
  <2> QED
    BY <1>1, <1>2, <2>1 DEF Own, Filed, Building, Leaving, Home
<1> QED
  BY <1>3, <1>4, <1>5, LocalStep DEF Goto, TypeOK, Own

LEMMA ReadKeeps ==
  ASSUME TypeOK, WorkspaceInv, NEW e \in Executions, ReadTree(e), "audit" \notin plan[e].defects
  PROVE  WorkspaceInv'
<1>1. Own(e) /\ step[e] = "read"
  BY DEF WorkspaceInv, Own, ReadTree
<1>2. mine[e] # Nobody /\ mine[e] = made[e]
  BY <1>1 DEF Own, Placed, Inside, Building
<1> DEFINE fs == IF plan[e].benchmark THEN {} ELSE Home(e).files
<1>3. /\ UNCHANGED <<plan, trees, made, inodes, mine>>
      /\ seen' = [seen EXCEPT ![e] = fs]
      /\ outcome' = [outcome EXCEPT ![e] = "audited"]
      /\ step' = [step EXCEPT ![e] = "unwind"]
  BY <1>2 DEF ReadTree, Raise, Goto, inputs, world
<1>4. seen'[e] = fs /\ outcome'[e] = "audited" /\ step'[e] = "unwind"
  BY <1>3 DEF TypeOK
<1>5. Placed(e)'
  BY <1>2, <1>3, <1>4 DEF Placed, BeforeTree, Inside, Building, Leaving
<1>6. Excluding(e)'
  BY <1>1, <1>3 DEF Own, Excluding, Inside, Building, Home, Foreign
<1>7. Filed(e)'
  <2>1. Written("read") = NativeFiles
    BY DEF Written
  <2> QED
    BY <1>1, <1>3, <1>4, <2>1 DEF Own, Filed, Building, Home
<1> QED
  BY <1>3, <1>5, <1>6, <1>7, LocalStep DEF TypeOK, Own

\* An execution in its own tree changes that tree's files or removes it; the
\* others in the scratch root do not notice.
LEMMA OthersKeep ==
  ASSUME TypeOK, WorkspaceInv, NEW e \in Executions,
         UNCHANGED <<plan, made, inodes>>,
         \/ trees' = [trees EXCEPT ![plan[e].id] = NoTree] /\ Home(e).inode = made[e]
         \/ /\ \E fs : trees' = [trees EXCEPT ![plan[e].id].files = fs]
            /\ step[e] \in Inside
         \/ UNCHANGED trees,
         \A d \in Executions \ {e} :
            /\ step'[d] = step[d] /\ outcome'[d] = outcome[d]
            /\ mine'[d] = mine[d] /\ seen'[d] = seen[d],
         made[e] # Nobody,
         Own(e)'
  PROVE  WorkspaceInv'
<1> DEFINE q == plan[e].id
<1>1. q \in PlanIds /\ Own(e)
  BY PlanFacts DEF WorkspaceInv, Own
<1>2. /\ \A p \in PlanIds \ {q} : trees'[p] = trees[p]
      /\ \/ trees'[q] = NoTree /\ trees[q].inode = made[e]
         \/ trees'[q].inode = trees[q].inode /\ step[e] \in Inside
         \/ trees'[q] = trees[q]
  BY <1>1, ZenonT(40) DEF TypeOK, Home
<1> HIDE DEF q
<1>3. \A p \in PlanIds :
        \/ trees'[p] = NoTree \/ trees'[p] = trees[p]
        \/ trees'[p].inode = trees[p].inode /\ trees[p].inode # Nobody
  <2>1. step[e] \in Inside => trees[q].inode # Nobody
    BY <1>1 DEF Own, Excluding, Foreign, Home, q
  <2>2. \/ trees'[q] = NoTree \/ trees'[q] = trees[q]
        \/ trees'[q].inode = trees[q].inode /\ trees[q].inode # Nobody
    BY <1>2, <2>1
  <2>3. \A p \in PlanIds : p = q \/ trees'[p] = trees[p]
    BY <1>2
  <2> QED
    BY <2>2, <2>3
<1>4. InodeInv'
  <2>1. InodeInv /\ NoTree.inode = Nobody /\ \A p \in PlanIds : Nobody <= inodes
    BY DEF WorkspaceInv, NoTree, Nobody, TypeOK
  <2> QED
    BY <1>3, <2>1 DEF InodeInv
<1>5. ASSUME NEW d \in Executions, d # e PROVE Own(d)'
  <2>1. Own(d) /\ plan[d].id \in PlanIds /\ made[d] \in Nat
    BY PlanFacts DEF WorkspaceInv, Own, TypeOK
  <2>2. made[d] # Nobody => made[d] # made[e]
    BY <1>5 DEF WorkspaceInv, InodeInv
  <2>3. CASE trees'[plan[d].id] = trees[plan[d].id]
    <3>1. Foreign(plan[d].id) => Foreign(plan[d].id)'
      BY <2>3 DEF Foreign
    <3> QED
      BY <1>5, <2>1, <2>3, <3>1, Bystander
  <2>4. CASE plan[d].id = q /\ trees'[q] = NoTree /\ trees[q].inode = made[e]
    <3>1. step[d] \notin Inside \cup {"identify"}
      BY <2>1, <2>2, <2>4 DEF Own, Placed, Excluding, Foreign, Home, Inside
    <3>2. Placed(d)'
      BY <1>5, <2>1, <3>1 DEF Own, Placed, Inside, Leaving
    <3>3. Excluding(d)' /\ Filed(d)'
      BY <1>5, <2>1, <3>1 DEF Own, Excluding, Filed, Inside
    <3> QED
      BY <3>2, <3>3 DEF Own
  <2>5. CASE plan[d].id = q /\ trees'[q].inode = trees[q].inode /\ step[e] \in Inside
    <3>1. trees[q].inode = made[e] \/ Foreign(q)
      BY <1>1, <2>5 DEF Own, Excluding, Home, q
    <3>2. trees[q].inode # made[d] \/ made[d] = Nobody
      BY <2>2, <3>1 DEF Foreign
    <3>3. Placed(d)'
      BY <1>5, <2>1, <2>5 DEF Own, Placed, Home
    <3>4. Excluding(d)'
      BY <1>5, <2>1, <2>5 DEF Own, Excluding, Foreign, Home
    <3>5. Filed(d)'
      <4>1. step[d] \in Building \cup Leaving \cup {"identify"} => made[d] # Nobody
        BY <2>1 DEF Own, Placed, Inside
      <4> QED
        BY <1>5, <2>1, <2>5, <3>2, <4>1 DEF Own, Filed, Home
    <3> QED
      BY <3>3, <3>4, <3>5 DEF Own
  <2> QED
    BY <1>2, <2>1, <2>3, <2>4, <2>5
<1> QED
  BY <1>4, <1>5 DEF WorkspaceInv, Own

LEMMA WriteKeeps ==
  ASSUME TypeOK, WorkspaceInv, NEW e \in Executions, Write(e)
  PROVE  WorkspaceInv'
<1>1. Own(e) /\ step[e] \in Building /\ step[e] \in NativeFiles /\ plan[e].id \in PlanIds
  BY PlanFacts DEF WorkspaceInv, Own, Write, Building, NativeFiles, Roles
<1>2. UNCHANGED <<plan, made, inodes, mine, seen>>
  BY DEF Write, inputs, world
<1>3. CASE \E class \in {"partial", "unavailable"} : Raise(e, class) /\ UNCHANGED trees
  BY <1>1, <1>2, <1>3, RefusesInside
<1>4. CASE /\ trees' = [trees EXCEPT ![plan[e].id].files = @ \cup {<<step[e], e>>}]
           /\ Goto(e, After(step[e])) /\ UNCHANGED outcome
  <2>1. step' = [step EXCEPT ![e] = After(step[e])] /\ step'[e] = After(step[e])
    BY <1>4 DEF Goto, TypeOK
  <2>2. /\ \/ step[e] = "baseline" /\ step'[e] = "candidate"
           \/ step[e] = "candidate" /\ step'[e] = "manifest"
           \/ step[e] = "manifest" /\ step'[e] = "load"
        /\ Written(step'[e]) = Written(step[e]) \cup {step[e]}
    BY <1>1, <2>1 DEF NativeFiles, Roles, After, Written
  <2>3. /\ Home(e)'.inode = Home(e).inode
        /\ Home(e)'.files = Home(e).files \cup {<<step[e], e>>}
    BY <1>1, <1>2, <1>4 DEF Home, TypeOK
  <2>4. Placed(e)'
    BY <1>1, <1>2, <1>4, <2>2 DEF Own, Placed, BeforeTree, Inside, Building, Leaving
  <2>5. Excluding(e)'
    BY <1>1, <1>2, <2>3 DEF Own, Excluding, Inside, Foreign, Home
  <2>6. Filed(e)'
    <3>1. CASE ~plan[e].benchmark /\ Home(e).inode = made[e]
      <4>1. Home(e).files = Written(step[e]) \X {e}
        BY <1>1, <3>1 DEF Own, Filed
      <4>2. Home(e)'.files = Written(step'[e]) \X {e}
        BY <2>2, <2>3, <4>1
      <4> QED
        BY <2>2, <4>2 DEF Filed, Leaving
    <3>2. CASE plan[e].benchmark \/ Home(e).inode # made[e]
      BY <1>2, <2>2, <2>3, <3>2 DEF Filed, Leaving
    <3> QED
      BY <3>1, <3>2
  <2>7. Own(e)' /\ step[e] \in Inside /\ made[e] # Nobody
    BY <1>1, <2>4, <2>5, <2>6 DEF Own, Placed, Inside
  <2>8. \E fs : trees' = [trees EXCEPT ![plan[e].id].files = fs]
    BY <1>4
  <2>9. \A d \in Executions \ {e} :
           /\ step'[d] = step[d] /\ outcome'[d] = outcome[d]
           /\ mine'[d] = mine[d] /\ seen'[d] = seen[d]
    BY <1>2, <1>4, <2>1 DEF TypeOK
  <2> QED
    BY <1>2, <2>7, <2>8, <2>9, OthersKeep
<1> QED
  BY <1>3, <1>4 DEF Write

LEMMA BuildingKeeps ==
  ASSUME TypeOK, WorkspaceInv, NEW e \in Executions,
         EnterDatasets(e) \/ LoadManifest(e) \/ ReadTree(e) \/ Unwind(e)
  PROVE  WorkspaceInv'
<1> USE DEF inputs, world, treeVars
<1>1. CASE EnterDatasets(e)
  BY <1>1, RefusesInside, BuildsOn DEF EnterDatasets, Building
<1>2. CASE LoadManifest(e)
  BY <1>2, RefusesInside, BuildsOn DEF LoadManifest, Building
<1>3. CASE ReadTree(e)
  BY <1>3, RefusesInside, ReadKeeps DEF ReadTree, Building
<1>4. CASE Unwind(e)
  BY <1>4, BuildsOn DEF Unwind
<1> QED
  BY <1>1, <1>2, <1>3, <1>4

LEMMA LookUpKeeps ==
  ASSUME TypeOK, WorkspaceInv, NEW e \in Executions, LookUpTree(e)
  PROVE  WorkspaceInv'
<1>1. Own(e) /\ step[e] = "lookup"
  BY DEF WorkspaceInv, Own, LookUpTree
<1>2. UNCHANGED <<plan, trees, made, inodes, mine, seen>>
  BY DEF LookUpTree, inputs, world, treeVars
<1>3. mine[e] = made[e] /\ outcome[e] # "pending"
  BY <1>1 DEF Own, Placed, Inside, Leaving
<1>4. \/ step'[e] = "remove" /\ outcome'[e] = outcome[e] /\ Home(e).inode = mine[e]
      \/ step'[e] = "done" /\ Home(e).inode # mine[e]
           /\ outcome'[e] = IF Home(e) = NoTree THEN outcome[e] ELSE "unavailable"
  BY DEF LookUpTree, Goto, TypeOK
<1>5. Home(e).inode # mine[e] => Home(e) # NoTree
  BY <1>1, <1>3 DEF Own, Excluding, Inside, Leaving, Foreign, Home, NoTree
<1>6. Placed(e)'
  BY <1>1, <1>2, <1>3, <1>4 DEF Own, Placed, BeforeTree, Inside, Building, Leaving, Home
<1>7. Excluding(e)'
  BY <1>2, <1>3, <1>4 DEF Excluding, Inside, Building, Leaving, Home
<1>8. Filed(e)'
  BY <1>1, <1>2, <1>4, <1>5 DEF Own, Filed, Building, Leaving, Home
<1>9. \A d \in Executions \ {e} : step'[d] = step[d] /\ outcome'[d] = outcome[d]
  BY DEF LookUpTree, Goto, TypeOK
<1> QED
  BY <1>2, <1>6, <1>7, <1>8, <1>9, LocalStep DEF Own

\* An execution that ends leaves nothing behind that binds it.
LEMMA DoneOwns ==
  ASSUME NEW e \in Executions, step'[e] = "done", outcome'[e] # "pending",
         plan'[e] = plan[e],
         ~plan[e].benchmark /\ outcome'[e] = "audited" => seen'[e] = NativeFiles \X {e}
  PROVE  Own(e)'
BY DEF Own, Placed, Excluding, Filed, BeforeTree, Inside, Building, Leaving

LEMMA RemoveKeeps ==
  ASSUME TypeOK, WorkspaceInv, NEW e \in Executions, RemoveTree(e)
  PROVE  WorkspaceInv'
<1>1. Own(e) /\ step[e] = "remove"
  BY DEF WorkspaceInv, Own, RemoveTree
<1>2. /\ made[e] # Nobody /\ Home(e).inode = made[e] /\ outcome[e] # "pending"
      /\ ~plan[e].benchmark /\ outcome[e] = "audited" => seen[e] = NativeFiles \X {e}
  BY <1>1 DEF Own, Placed, Filed, Inside, Leaving
<1>3. /\ UNCHANGED <<plan, made, inodes, mine, seen, outcome>>
      /\ trees' = [trees EXCEPT ![plan[e].id] = NoTree]
      /\ step' = [step EXCEPT ![e] = "done"]
  BY DEF RemoveTree, Goto, inputs, world
<1>4. step'[e] = "done" /\ \A d \in Executions \ {e} : step'[d] = step[d]
  BY <1>3 DEF TypeOK
<1>5. Own(e)'
  BY <1>2, <1>3, <1>4, DoneOwns
<1> QED
  BY <1>2, <1>3, <1>4, <1>5, OthersKeep

LEMMA FaultKeeps ==
  ASSUME TypeOK, WorkspaceInv, NEW e \in Executions, SystemFault(e)
  PROVE  WorkspaceInv'
<1>1. Own(e) /\ step[e] \in CallingSystem
  BY DEF WorkspaceInv, Own, SystemFault
<1>2. UNCHANGED <<plan, made, inodes, mine, seen>>
  BY DEF SystemFault, inputs
<1>3. CASE step[e] \in {"lookup", "remove"}
  <2>1. /\ step'[e] = "done" /\ outcome'[e] = "unavailable"
        /\ \A d \in Executions \ {e} : step'[d] = step[d] /\ outcome'[d] = outcome[d]
    BY <1>3 DEF SystemFault, Goto, TypeOK
  <2>2. Own(e)'
    BY <1>2, <2>1, DoneOwns
  <2>3. made[e] # Nobody /\ step[e] \in Inside
    BY <1>1, <1>3 DEF Own, Placed, Inside, Leaving
  <2>4. UNCHANGED trees \/ \E fs : trees' = [trees EXCEPT ![plan[e].id].files = fs]
    BY DEF SystemFault
  <2> QED
    BY <1>2, <2>1, <2>2, <2>3, <2>4, OthersKeep
<1>4. CASE step[e] \notin {"lookup", "remove"}
  <2>1. Raise(e, "unavailable") /\ UNCHANGED trees
    BY <1>4 DEF SystemFault
  <2>2. step[e] \in Building \/ step[e] \in BeforeTree \cup {"identify"}
    BY <1>1, <1>4 DEF CallingSystem, Steps, Building, BeforeTree, NativeFiles, Roles
  <2> QED
    BY <1>2, <2>1, <2>2, RefusesInside, RefusesOutside
<1> QED
  BY <1>3, <1>4

LEMMA CrashKeeps ==
  ASSUME TypeOK, WorkspaceInv, NEW e \in Executions, Crash(e)
  PROVE  WorkspaceInv'
<1>1. UNCHANGED <<plan, trees, made, inodes, mine, seen, outcome>>
  BY DEF Crash, inputs, treeVars
<1>2. step'[e] = "crashed" /\ \A d \in Executions \ {e} : step'[d] = step[d]
  BY DEF Crash, Goto, TypeOK
<1>3. Own(e)'
  BY <1>2 DEF Own, Placed, Excluding, Filed, BeforeTree, Inside, Building, Leaving
<1> QED
  BY <1>1, <1>2, <1>3, LocalStep

LEMMA ReplaceKeeps ==
  ASSUME TypeOK, WorkspaceInv, NEW q \in PlanIds, ReplaceTree(q)
  PROVE  WorkspaceInv'
<1> DEFINE n == inodes + 1
<1>1. /\ UNCHANGED <<plan, step, mine, made, seen, outcome>>
      /\ inodes' = n
      /\ trees' = [trees EXCEPT ![q] = [inode |-> n, files |-> {}]]
      /\ \A d \in Executions : plan[d].id = q => step[d] \notin {"identify", "remove"}
  BY DEF ReplaceTree, inputs
<1>2. n \in Nat /\ n # Nobody
  BY DEF TypeOK, Nobody
<1>3. /\ \A p \in PlanIds : trees[p].inode # n /\ trees[p].inode <= n
      /\ \A d \in Executions : made[d] # n /\ made[d] <= n
  <2>1. /\ \A p \in PlanIds : trees[p].inode \in Nat
        /\ \A d \in Executions : made[d] \in Nat
        /\ inodes \in Nat
    BY DEF TypeOK
  <2> QED
    BY <2>1 DEF WorkspaceInv, InodeInv
<1>4. /\ trees'[q] = [inode |-> n, files |-> {}]
      /\ \A p \in PlanIds \ {q} : trees'[p] = trees[p]
  BY <1>1 DEF TypeOK
<1> HIDE DEF n
<1>5. InodeInv'
  <2>1. InodeInv
    BY DEF WorkspaceInv
  <2>2. \A p \in PlanIds : trees'[p].inode <= n /\ (trees'[p].inode = Nobody => trees'[p] = NoTree)
    BY <1>2, <1>3, <1>4, <2>1 DEF InodeInv
  <2>3. \A d \in Executions, p \in PlanIds :
          trees'[p].inode # Nobody /\ trees'[p].inode = made[d] => p = plan[d].id
    BY <1>3, <1>4, <2>1 DEF InodeInv
  <2> QED
    BY <1>1, <1>3, <2>1, <2>2, <2>3 DEF InodeInv
<1>6. ASSUME NEW d \in Executions PROVE Own(d)'
  <2>1. Own(d) /\ plan[d].id \in PlanIds
    BY PlanFacts DEF WorkspaceInv, Own
  <2>2. CASE plan[d].id # q
    <3>1. trees'[plan[d].id] = trees[plan[d].id]
      BY <1>4, <2>1, <2>2
    <3>2. Foreign(plan[d].id) => Foreign(plan[d].id)'
      BY <1>1, <3>1 DEF Foreign
    <3> QED
      BY <1>1, <2>1, <3>1, <3>2, Bystander
  <2>3. CASE plan[d].id = q
    <3>1. Home(d)'.inode = n /\ step[d] \notin {"identify", "remove"}
      BY <1>1, <1>4, <2>3 DEF Home
    <3>2. Placed(d)'
      BY <1>1, <2>1, <3>1 DEF Own, Placed
    <3>3. Excluding(d)'
      BY <1>1, <1>2, <1>3, <1>4, <2>3 DEF Excluding, Foreign
    <3>4. Filed(d)'
      BY <1>1, <1>3, <2>1, <3>1 DEF Own, Filed
    <3> QED
      BY <3>2, <3>3, <3>4 DEF Own
  <2> QED
    BY <2>2, <2>3
<1> QED
  BY <1>5, <1>6 DEF WorkspaceInv, Own

LEMMA InitKeeps == Init => WorkspaceInv
<1> SUFFICES ASSUME Init PROVE WorkspaceInv
  OBVIOUS
<1>1. /\ \A p \in PlanIds : trees[p] = NoTree /\ trees[p].inode = Nobody
      /\ \A e \in Executions : /\ made[e] = Nobody /\ mine[e] = Nobody
                               /\ step[e] = "start" /\ outcome[e] = "pending"
      /\ inodes = 0
  BY DEF Init, AllOf, NoTree
<1>2. InodeInv
  BY <1>1 DEF InodeInv, Nobody
<1>3. \A e \in Executions : Placed(e) /\ Excluding(e) /\ Filed(e)
  BY <1>1 DEF Placed, Excluding, Filed, BeforeTree, Inside, Building, Leaving
<1> QED
  BY <1>2, <1>3 DEF WorkspaceInv

LEMMA NextKeeps == TypeOK /\ WorkspaceInv /\ [Next]_vars => WorkspaceInv'
<1> SUFFICES ASSUME TypeOK, WorkspaceInv, [Next]_vars PROVE WorkspaceInv'
  OBVIOUS
<1>1. ASSUME NEW e \in Executions, Advance(e) PROVE WorkspaceInv'
  BY <1>1, CheckingKeeps, CreateKeeps, IdentifyKeeps, WriteKeeps, BuildingKeeps,
     LookUpKeeps, RemoveKeeps DEF Advance
<1>2. CASE \E a \in Artifacts : ChangeCheckout(a)
  BY <1>2 DEF ChangeCheckout, inputs, treeVars, WorkspaceInv, InodeInv, Placed,
     Excluding, Filed, Home, Foreign
<1>3. CASE UNCHANGED vars
  BY <1>3 DEF vars, inputs, world, WorkspaceInv, InodeInv, Placed, Excluding, Filed,
     Home, Foreign
<1> QED
  BY <1>1, <1>2, <1>3, FaultKeeps, CrashKeeps, ReplaceKeeps DEF Next

LEMMA WorkspaceInvariant == Spec => [](TypeOK /\ WorkspaceInv)
<1> QED
  BY InitTypes, NextTypes, InitKeeps, NextKeeps, PTL DEF Spec

\* An AuditResult comes from the whole tree that the execution itself wrote.
THEOREM AuditsOnlyItsOwnTree == Spec => []ResultFromOwnTree
<1>1. WorkspaceInv => ResultFromOwnTree
  BY DEF WorkspaceInv, Filed, ResultFromOwnTree
<1> QED
  BY <1>1, WorkspaceInvariant, PTL

\* _cleanup_plan_tree never removes a directory of anybody else.
THEOREM CleanupIsOwn == Spec => RemovesOnlyOwnTree
<1> DEFINE OwnRemoval ==
      \A p \in PlanIds :
          trees[p] # NoTree /\ trees'[p] = NoTree =>
              \E e \in Executions :
                  /\ step[e] = "remove" /\ step'[e] = "done"
                  /\ plan[e].id = p /\ made[e] = trees[p].inode
<1>1. TypeOK /\ WorkspaceInv /\ [Next]_vars => OwnRemoval
  <2> SUFFICES ASSUME TypeOK, WorkspaceInv, [Next]_vars, NEW p \in PlanIds,
                      trees[p] # NoTree, trees'[p] = NoTree
               PROVE  \E e \in Executions :
                        /\ step[e] = "remove" /\ step'[e] = "done"
                        /\ plan[e].id = p /\ made[e] = trees[p].inode
    OBVIOUS
  <2>1. trees[p].inode # Nobody /\ trees'[p].inode = Nobody /\ trees'[p] # trees[p]
    BY DEF WorkspaceInv, InodeInv, NoTree
  <2>2. ASSUME NEW e \in Executions,
               \/ \E fs : trees' = [trees EXCEPT ![plan[e].id].files = fs]
               \/ trees' = [trees EXCEPT ![plan[e].id] = [inode |-> inodes + 1, files |-> {}]]
               \/ UNCHANGED trees
        PROVE  FALSE
    <3>1. inodes + 1 # Nobody
      BY DEF TypeOK, Nobody
    <3>2. /\ \A fs : LET new == [trees EXCEPT ![plan[e].id].files = fs]
                     IN new[p].inode = trees[p].inode
          /\ LET new == [trees EXCEPT ![plan[e].id] =
                           [inode |-> inodes + 1, files |-> {}]]
             IN new[p] = trees[p] \/ new[p].inode = inodes + 1
      BY DEF TypeOK
    <3> QED
      BY <2>1, <2>2, <3>1, <3>2
  <2>3. ASSUME NEW q \in PlanIds, ReplaceTree(q) PROVE FALSE
    <3>1. inodes + 1 # Nobody
      BY DEF TypeOK, Nobody
    <3> QED
      BY <2>1, <2>3, <3>1 DEF ReplaceTree, TypeOK
  <2>4. ~UNCHANGED trees
    BY <2>1
  <2>5. PICK e \in Executions : Advance(e) \/ SystemFault(e)
    BY <2>3, <2>4 DEF Next, vars, Crash, ChangeCheckout, treeVars
  <2>6. RemoveTree(e)
    <3>1. ~SystemFault(e)
      BY <2>2 DEF SystemFault
    <3>2. ~CreateTree(e) /\ ~Write(e)
      BY <2>2 DEF CreateTree, Write
    <3>3. \/ CreateTree(e) \/ Write(e) \/ RemoveTree(e)
      BY <2>4, <2>5, <3>1 DEF Advance, treeVars, Validate, Capture, CaptureRefused,
         Revalidate, AllCaptured, ScanEndpoint, JudgeBinding, Collide, Identify,
         EnterDatasets, LoadManifest, ReadTree, Unwind, LookUpTree
    <3> QED
      BY <3>2, <3>3
  <2>7. step[e] = "remove" /\ step'[e] = "done" /\ plan[e].id = p
    BY <2>1, <2>6 DEF RemoveTree, Goto, TypeOK
  <2>8. made[e] = trees[p].inode
    BY <2>7 DEF WorkspaceInv, Placed, Home
  <2> QED
    BY <2>7, <2>8
<1>2. Spec => [][OwnRemoval]_vars
  BY <1>1, WorkspaceInvariant, PTL DEF Spec
<1> QED
  BY <1>2 DEF RemovesOnlyOwnTree

-----------------------------------------------------------------------------------
(* Directories created exclusively implement exclusive workspaces.           *)

HolderFacts ==
    \A p \in PlanIds :
        /\ Holder(p) = "free" <=> trees[p] = NoTree
        /\ Holder(p) = "stuck" <=> trees[p] # NoTree /\ \A e \in Executions : ~Holds(e, p)
        /\ \A e \in Executions : Holder(p) = e <=> Holds(e, p)
        /\ Holder(p) \in {"free", "stuck"} \cup Executions

LEMMA HolderIs == TypeOK /\ WorkspaceInv => HolderFacts
<1> SUFFICES ASSUME TypeOK, WorkspaceInv, NEW p \in PlanIds
             PROVE  /\ Holder(p) = "free" <=> trees[p] = NoTree
                    /\ Holder(p) = "stuck" <=>
                         trees[p] # NoTree /\ \A e \in Executions : ~Holds(e, p)
                    /\ \A e \in Executions : Holder(p) = e <=> Holds(e, p)
                    /\ Holder(p) \in {"free", "stuck"} \cup Executions
  BY DEF HolderFacts
<1>1. \A e, d \in Executions : Holds(e, p) /\ Holds(d, p) => e = d
  BY DEF Holds, WorkspaceInv, InodeInv
<1>2. \A e \in Executions : Holds(e, p) => trees[p] # NoTree
  BY DEF Holds, NoTree
<1>3. \A e \in Executions : e # "free" /\ e # "stuck"
  BY ExecutionAssumption
<1>4. CASE trees[p] = NoTree
  BY <1>2, <1>3, <1>4 DEF Holder
<1>5. CASE trees[p] # NoTree /\ \E e \in Executions : Holds(e, p)
  <2> DEFINE h == CHOOSE e \in Executions : Holds(e, p)
  <2>1. h \in Executions /\ Holds(h, p)
    BY <1>5
  <2>2. Holder(p) = h
    BY <1>5 DEF Holder
  <2> HIDE DEF h
  <2> QED
    BY <1>1, <1>3, <1>5, <2>1, <2>2
<1>6. CASE trees[p] # NoTree /\ \A e \in Executions : ~Holds(e, p)
  <2>1. Holder(p) = "stuck"
    BY <1>6 DEF Holder
  <2> QED
    BY <1>3, <1>6, <2>1
<1> QED
  BY <1>4, <1>5, <1>6

LEMMA SameHolder ==
  ASSUME HolderFacts, HolderFacts', NEW p \in PlanIds,
         trees'[p] = NoTree <=> trees[p] = NoTree,
         \A e \in Executions : Holds(e, p)' <=> Holds(e, p)
  PROVE  Holder(p)' = Holder(p)
<1>1. CASE trees[p] = NoTree
  BY <1>1 DEF HolderFacts
<1>2. CASE trees[p] # NoTree /\ \A e \in Executions : ~Holds(e, p)
  BY <1>2 DEF HolderFacts
<1>3. CASE \E e \in Executions : Holds(e, p)
  <2>1. PICK e \in Executions : Holds(e, p)
    BY <1>3
  <2> QED
    BY <2>1 DEF HolderFacts
<1> QED
  BY <1>1, <1>2, <1>3

Ended(s) == s \in {"done", "crashed"}

\* What stays the same for the holders when no inode is made or goes.
LEMMA SameHolds ==
  ASSUME plan' = plan, made' = made, NEW e \in Executions, NEW p \in PlanIds,
         trees'[p].inode = trees[p].inode, Ended(step'[e]) <=> Ended(step[e])
  PROVE  Holds(e, p)' <=> Holds(e, p)
BY DEF Holds, Live, Ended

LEMMA Stutters ==
  ASSUME HolderFacts, HolderFacts', plan' = plan, made' = made,
         \A p \in PlanIds : /\ trees'[p].inode = trees[p].inode
                            /\ trees'[p] = NoTree <=> trees[p] = NoTree,
         \A e \in Executions :
            \/ step'[e] = step[e] /\ outcome'[e] = outcome[e]
            \/ ~Ended(step[e]) /\ ~Ended(step'[e])
  PROVE  UNCHANGED <<[p \in PlanIds |-> Holder(p)], [e \in Executions |-> Answer(e)]>>
<1>1. \A p \in PlanIds : Holder(p)' = Holder(p)
  BY SameHolder, SameHolds
<1>2. \A e \in Executions : Answer(e)' = Answer(e)
  BY DEF Answer, Ended
<1> QED
  BY <1>1, <1>2

\* An execution that ends without a result.
LEMMA Refuses ==
  ASSUME HolderFacts, HolderFacts', NEW e \in Executions, plan' = plan, made' = made,
         Live(e), Ended(step'[e]),
         step'[e] = "done" => outcome'[e] \in {"partial", "unavailable"},
         \A d \in Executions \ {e} : step'[d] = step[d] /\ outcome'[d] = outcome[d],
         \/ \A p \in PlanIds : /\ trees'[p].inode = trees[p].inode
                               /\ trees'[p] = NoTree <=> trees[p] = NoTree
         \/ /\ Holds(e, plan[e].id) /\ trees'[plan[e].id] = NoTree
            /\ \A p \in PlanIds \ {plan[e].id} : trees'[p] = trees[p]
  PROVE  Workspace!Refuse(e)
<1> DEFINE left == IF trees'[plan[e].id] = NoTree THEN "free" ELSE "stuck"
<1>1. Answer(e) = "open" /\ Answer(e)' \in {"partial", "unavailable", "crashed"}
  BY DEF Answer, Live, Ended
<1>2. \A d \in Executions : d # e => Answer(d)' = Answer(d)
  BY DEF Answer
<1>3. \A p \in PlanIds : ~Holds(e, p)'
  BY DEF Holds, Live, Ended
<1>4. ASSUME NEW p \in PlanIds, Holder(p) = e PROVE Holder(p)' = left
  <2>1. Holds(e, p) /\ p = plan[e].id /\ trees[p] # NoTree
    <3>1. Holds(e, p) /\ Holder(p) # "free"
      BY <1>4, ExecutionAssumption DEF HolderFacts
    <3> QED
      BY <3>1 DEF HolderFacts, Holds
  <2>2. CASE trees'[p] = NoTree
    BY <2>1, <2>2 DEF HolderFacts
  <2>3. CASE trees'[p] # NoTree
    <3>1. trees'[p].inode = trees[p].inode
      BY <2>1, <2>3
    <3>2. \A d \in Executions : ~Holds(d, p)
             \/ d = e
      BY <1>4, <2>1 DEF HolderFacts
    <3>3. \A d \in Executions \ {e} : Holds(d, p)' => Holds(d, p)
      BY <3>1 DEF Holds, Live
    <3>4. \A d \in Executions : ~Holds(d, p)'
      BY <1>3, <3>2, <3>3
    <3> QED
      BY <2>1, <2>3, <3>4 DEF HolderFacts
  <2> QED
    BY <2>2, <2>3
<1>5. ASSUME NEW p \in PlanIds, Holder(p) # e PROVE Holder(p)' = Holder(p)
  <2>1. ~Holds(e, p)
    BY <1>5 DEF HolderFacts
  <2>2. trees'[p].inode = trees[p].inode /\ (trees'[p] = NoTree <=> trees[p] = NoTree)
    BY <2>1
  <2>3. \A d \in Executions : Holds(d, p)' <=> Holds(d, p)
    BY <1>3, <2>1, <2>2 DEF Holds, Live
  <2> QED
    BY <2>2, <2>3, SameHolder
<1>6. left \in {"free", "stuck"}
  OBVIOUS
<1> HIDE DEF left
<1>7. [p \in PlanIds |-> Holder(p)]'
        = [p \in PlanIds |-> IF [r \in PlanIds |-> Holder(r)][p] = e
                               THEN left ELSE [r \in PlanIds |-> Holder(r)][p]]
  BY <1>4, <1>5
<1>8. [d \in Executions |-> Answer(d)]'
        = [[d \in Executions |-> Answer(d)] EXCEPT ![e] = Answer(e)']
  BY <1>2
<1> QED
  BY <1>1, <1>6, <1>7, <1>8 DEF Workspace!Refuse, Workspace!Free, Workspace!Stuck

\* CreateTree takes the workspace.
LEMMA CreateAcquires ==
  ASSUME TypeOK, WorkspaceInv, HolderFacts, HolderFacts', NEW e \in Executions, CreateTree(e)
  PROVE  Workspace!Acquire(e, plan[e].id)
<1>q. PICK q \in PlanIds : q = plan[e].id
  BY PlanFacts
<1> DEFINE n == inodes + 1
<1>1. made[e] = Nobody /\ trees[q] = NoTree
  BY <1>q DEF WorkspaceInv, Placed, CreateTree, BeforeTree, Home
<1>2. /\ trees' = [trees EXCEPT ![q] = [inode |-> n, files |-> {}]]
      /\ made' = [made EXCEPT ![e] = n] /\ step' = [step EXCEPT ![e] = "identify"]
      /\ UNCHANGED <<plan, outcome>> /\ step[e] = "create"
  BY <1>q DEF CreateTree, Goto, inputs
<1>3. n # Nobody /\ \A p \in PlanIds : trees[p].inode # n
  <2>1. inodes \in Nat /\ \A p \in PlanIds : trees[p].inode \in Nat /\ trees[p].inode <= inodes
    BY DEF TypeOK, WorkspaceInv, InodeInv
  <2> QED
    BY <2>1 DEF Nobody
<1>4. /\ trees'[q] = [inode |-> n, files |-> {}] /\ made'[e] = n /\ step'[e] = "identify"
      /\ \A p \in PlanIds \ {q} : trees'[p] = trees[p]
      /\ \A d \in Executions \ {e} : made'[d] = made[d] /\ step'[d] = step[d]
  BY <1>1, <1>2 DEF TypeOK
<1> HIDE DEF n
<1>5. \A p \in PlanIds : ~Holds(e, p)
  BY <1>1 DEF Holds
<1>6. Holder(q) = "free"
  BY <1>1 DEF HolderFacts
<1>7. Holder(q)' = e
  <2>1. Holds(e, q)'
    BY <1>q, <1>2, <1>3, <1>4 DEF Holds, Live
  <2> QED
    BY <1>1, <2>1 DEF HolderFacts
<1>8. ASSUME NEW p \in PlanIds, p # q PROVE Holder(p)' = Holder(p)
  <2>1. trees'[p] = trees[p]
    BY <1>4, <1>8
  <2>2. ~Holds(e, p)'
    BY <1>q, <1>2, <1>8 DEF Holds
  <2>3. \A d \in Executions : Holds(d, p)' <=> Holds(d, p)
    BY <1>2, <1>4, <1>5, <2>1, <2>2 DEF Holds, Live
  <2> QED
    BY <2>1, <2>3, SameHolder
<1>9. \A d \in Executions : Answer(d)' = Answer(d)
  BY <1>2, <1>4 DEF Answer
<1>10. Answer(e) = "open"
  BY <1>2 DEF Answer
<1>11. \A p \in PlanIds : Holder(p) # e
  BY <1>5 DEF HolderFacts
<1>12. [p \in PlanIds |-> Holder(p)]'
         = [[p \in PlanIds |-> Holder(p)] EXCEPT ![q] = e]
  BY <1>7, <1>8
<1>13. [d \in Executions |-> Answer(d)]' = [d \in Executions |-> Answer(d)]
  BY <1>9
<1> QED
  BY <1>q, <1>6, <1>10, <1>11, <1>12, <1>13 DEF Workspace!Acquire, Workspace!Free

\* RemoveTree gives it back, and only then is there a result.
LEMMA RemoveReports ==
  ASSUME TypeOK, WorkspaceInv, HolderFacts, HolderFacts', NEW e \in Executions, RemoveTree(e),
         outcome[e] = "audited"
  PROVE  Workspace!Report(e, plan[e].id)
<1>q. PICK q \in PlanIds : q = plan[e].id
  BY PlanFacts
<1>1. Holds(e, q)
  BY <1>q DEF WorkspaceInv, Placed, RemoveTree, Home, Holds, Live, Inside, Leaving
<1>2. /\ trees' = [trees EXCEPT ![q] = NoTree]
      /\ step' = [step EXCEPT ![e] = "done"]
      /\ UNCHANGED <<plan, made, outcome>> /\ step[e] = "remove"
  BY <1>q DEF RemoveTree, Goto, inputs
<1>3. /\ trees'[q] = NoTree /\ \A p \in PlanIds \ {q} : trees'[p] = trees[p]
      /\ step'[e] = "done" /\ \A d \in Executions \ {e} : step'[d] = step[d]
  BY <1>1, <1>2 DEF TypeOK
<1>4. Holder(q) = e /\ Holder(q)' = "free"
  BY <1>1, <1>3 DEF HolderFacts
<1>5. ASSUME NEW p \in PlanIds, p # q PROVE Holder(p)' = Holder(p)
  <2>1. trees'[p] = trees[p]
    BY <1>3, <1>5
  <2>2. ~Holds(e, p) /\ ~Holds(e, p)'
    BY <1>q, <1>2, <1>5 DEF Holds
  <2>3. \A d \in Executions : Holds(d, p)' <=> Holds(d, p)
    BY <1>2, <1>3, <2>1, <2>2 DEF Holds, Live
  <2> QED
    BY <2>1, <2>3, SameHolder
<1>6. Answer(e) = "open" /\ Answer(e)' = "audited"
  BY <1>2, <1>3 DEF Answer
<1>7. \A d \in Executions \ {e} : Answer(d)' = Answer(d)
  BY <1>2, <1>3 DEF Answer
<1>8. [p \in PlanIds |-> Holder(p)]'
        = [[p \in PlanIds |-> Holder(p)] EXCEPT ![q] = "free"]
  BY <1>4, <1>5
<1>9. [d \in Executions |-> Answer(d)]'
        = [[d \in Executions |-> Answer(d)] EXCEPT ![e] = "audited"]
  BY <1>6, <1>7
<1> QED
  BY <1>q, <1>4, <1>6, <1>8, <1>9 DEF Workspace!Report, Workspace!Free

LEMMA ReplaceRobs ==
  ASSUME TypeOK, WorkspaceInv, HolderFacts, HolderFacts', NEW q \in PlanIds, ReplaceTree(q)
  PROVE  Workspace!Rob(q)
<1> DEFINE n == inodes + 1
<1>1. /\ trees' = [trees EXCEPT ![q] = [inode |-> n, files |-> {}]]
      /\ UNCHANGED <<plan, made, outcome, step>>
  BY DEF ReplaceTree, inputs
<1>2. n # Nobody /\ \A d \in Executions : made[d] # n
  <2>1. inodes \in Nat /\ \A d \in Executions : made[d] \in Nat /\ made[d] <= inodes
    BY DEF TypeOK, WorkspaceInv, InodeInv
  <2> QED
    BY <2>1 DEF Nobody
<1>3. /\ trees'[q] = [inode |-> n, files |-> {}]
      /\ \A p \in PlanIds \ {q} : trees'[p] = trees[p]
  BY <1>1 DEF TypeOK
<1> HIDE DEF n
<1>4. Holder(q)' = "stuck"
  <2>1. trees'[q] # NoTree /\ \A d \in Executions : ~Holds(d, q)'
    BY <1>1, <1>2, <1>3 DEF NoTree, Holds
  <2> QED
    BY <2>1 DEF HolderFacts
<1>5. ASSUME NEW p \in PlanIds, p # q PROVE Holder(p)' = Holder(p)
  <2>1. trees'[p] = trees[p]
    BY <1>3, <1>5
  <2> QED
    BY <1>1, <2>1, SameHolder DEF Holds, Live
<1>6. \A d \in Executions : Answer(d)' = Answer(d)
  BY <1>1 DEF Answer
<1>7. [p \in PlanIds |-> Holder(p)]'
        = [[p \in PlanIds |-> Holder(p)] EXCEPT ![q] = "stuck"]
  BY <1>4, <1>5
<1>8. [d \in Executions |-> Answer(d)]' = [d \in Executions |-> Answer(d)]
  BY <1>6
<1> QED
  BY <1>7, <1>8 DEF Workspace!Rob, Workspace!Stuck

Unmoved == UNCHANGED <<[p \in PlanIds |-> Holder(p)], [e \in Executions |-> Answer(e)]>>

\* A step of one execution that makes and removes no directory is a refusal or
\* a stutter.
LEMMA LocalImplements ==
  ASSUME HolderFacts, HolderFacts', NEW e \in Executions, plan' = plan, made' = made,
         \A p \in PlanIds : /\ trees'[p].inode = trees[p].inode
                            /\ trees'[p] = NoTree <=> trees[p] = NoTree,
         ~Ended(step[e]),
         step'[e] = "done" => outcome'[e] \in {"partial", "unavailable"},
         \A d \in Executions \ {e} : step'[d] = step[d] /\ outcome'[d] = outcome[d]
  PROVE  Workspace!Refuse(e) \/ Unmoved
<1>1. CASE Ended(step'[e])
  <2>1. Live(e)
    BY DEF Live, Ended
  <2> QED
    BY <1>1, <2>1, Refuses
<1>2. CASE ~Ended(step'[e])
  BY <1>2, Stutters DEF Unmoved
<1> QED
  BY <1>1, <1>2

\* Such a step of the checks, of the building or of the cleanup.
LEMMA QuietImplements ==
  ASSUME TypeOK, WorkspaceInv, HolderFacts, HolderFacts', NEW e \in Executions,
         \/ Validate(e) \/ Capture(e) \/ CaptureRefused(e) \/ Revalidate(e)
         \/ AllCaptured(e) \/ ScanEndpoint(e) \/ JudgeBinding(e) \/ Collide(e)
         \/ Identify(e) \/ EnterDatasets(e) \/ LoadManifest(e) \/ ReadTree(e)
         \/ Unwind(e) \/ LookUpTree(e)
  PROVE  Workspace!Refuse(e) \/ Unmoved
<1> USE DEF inputs, world, treeVars
<1> DEFINE Result ==
      /\ step'[e] = "done" => outcome'[e] \in {"partial", "unavailable"}
      /\ \A d \in Executions \ {e} : step'[d] = step[d] /\ outcome'[d] = outcome[d]
<1>1. ASSUME NEW class \in {"partial", "unavailable"}, Raise(e, class) PROVE Result
  BY <1>1 DEF Raise, Goto, TypeOK
<1>2. ASSUME NEW s, s # "done", Goto(e, s), UNCHANGED outcome PROVE Result
  BY <1>2 DEF Goto, TypeOK
<1>3. ASSUME UNCHANGED <<step, outcome>>, step[e] # "done" PROVE Result
  BY <1>3
<1> HIDE DEF Result
<1>4. CASE Validate(e) \/ Capture(e) \/ CaptureRefused(e) \/ Revalidate(e)
  <2>1. CASE Validate(e)
    BY <1>1, <1>2, <2>1, RefusalType, LocalImplements DEF Validate, Result, Ended
  <2>2. CASE Capture(e) \/ CaptureRefused(e)
    BY <1>1, <1>2, <2>2, LocalImplements DEF Capture, CaptureRefused, Result, Ended
  <2>3. CASE Revalidate(e)
    BY <1>1, <1>2, <2>3, LocalImplements DEF Revalidate, Result, Ended
  <2> QED
    BY <1>4, <2>1, <2>2, <2>3
<1>5. CASE AllCaptured(e) \/ ScanEndpoint(e) \/ JudgeBinding(e) \/ Collide(e)
  <2>1. CASE AllCaptured(e)
    BY <1>2, <2>1, LocalImplements DEF AllCaptured, Result, Ended
  <2>2. CASE ScanEndpoint(e)
    BY <1>3, <2>2, LocalImplements DEF ScanEndpoint, Result, Ended
  <2>3. CASE JudgeBinding(e)
    BY <1>1, <1>2, <2>3, LocalImplements DEF JudgeBinding, Result, Ended
  <2>4. CASE Collide(e)
    BY <1>1, <2>4, LocalImplements DEF Collide, Result, Ended
  <2> QED
    BY <1>5, <2>1, <2>2, <2>3, <2>4
<1>6. CASE Identify(e)
  BY <1>2, <1>6, LocalImplements DEF Identify, Result, Ended
<1>7. CASE EnterDatasets(e)
  BY <1>1, <1>2, <1>7, LocalImplements DEF EnterDatasets, Result, Ended
<1>8. CASE LoadManifest(e)
  BY <1>1, <1>2, <1>8, LocalImplements DEF LoadManifest, Result, Ended
<1>9. CASE ReadTree(e)
  <2>1. mine[e] # Nobody
    BY <1>9 DEF WorkspaceInv, Placed, ReadTree, Inside, Building
  <2>2. Result
    <3>1. ASSUME NEW class, Raise(e, class) PROVE Result
      BY <2>1, <3>1 DEF Result, Raise, Goto, TypeOK
    <3> QED
      BY <1>9, <3>1 DEF ReadTree
  <2> QED
    BY <1>9, <2>2, LocalImplements DEF ReadTree, Result, Ended
<1>10. CASE Unwind(e)
  BY <1>2, <1>10, LocalImplements DEF Unwind, Result, Ended
<1>11. CASE LookUpTree(e)
  <2>1. mine[e] = made[e] /\ (Home(e).inode # made[e] => Home(e) # NoTree)
    BY <1>11 DEF WorkspaceInv, Placed, Excluding, LookUpTree, Inside, Leaving,
       Foreign, Home, NoTree
  <2>2. Result
    BY <1>11, <2>1 DEF LookUpTree, Goto, TypeOK, Result
  <2> QED
    BY <1>11, <2>2, LocalImplements DEF LookUpTree, Result, Ended
<1> QED
  BY <1>4, <1>5, <1>6, <1>7, <1>8, <1>9, <1>10, <1>11

\* Changing the files in a tree keeps its inode.
LEMMA FilesKeepInode ==
  ASSUME TypeOK, WorkspaceInv, NEW e \in Executions, step[e] \in Inside, NEW fs,
         trees' = [trees EXCEPT ![plan[e].id].files = fs]
  PROVE  \A p \in PlanIds : /\ trees'[p].inode = trees[p].inode
                            /\ trees'[p] = NoTree <=> trees[p] = NoTree
<1>1. trees[plan[e].id].inode # Nobody /\ plan[e].id \in PlanIds
  BY PlanFacts DEF WorkspaceInv, Placed, Excluding, Foreign, Home
<1>2. /\ \A p \in PlanIds \ {plan[e].id} : trees'[p] = trees[p]
      /\ trees'[plan[e].id].inode = trees[plan[e].id].inode
  BY <1>1 DEF TypeOK
<1>3. trees[plan[e].id] # NoTree /\ trees'[plan[e].id] # NoTree
  BY <1>1, <1>2 DEF NoTree
<1> QED
  BY <1>2, <1>3

LEMMA AdvanceImplements ==
  ASSUME TypeOK, WorkspaceInv, HolderFacts, HolderFacts', NEW e \in Executions, Advance(e)
  PROVE  Workspace!Next \/ Unmoved
<1>q. plan[e].id \in PlanIds
  BY PlanFacts
<1>1. CASE CreateTree(e)
  BY <1>q, <1>1, CreateAcquires DEF Workspace!Next
<1>2. CASE Write(e)
  <2>1. step[e] \in Inside
    BY <1>2 DEF Write, NativeFiles, Roles, Inside, Building
  <2>2. plan' = plan /\ made' = made /\ ~Ended(step[e])
    BY <1>2 DEF Write, inputs, Ended, NativeFiles, Roles
  <2>3. \A p \in PlanIds : /\ trees'[p].inode = trees[p].inode
                           /\ trees'[p] = NoTree <=> trees[p] = NoTree
    <3>1. UNCHANGED trees \/ \E fs : trees' = [trees EXCEPT ![plan[e].id].files = fs]
      BY <1>2 DEF Write
    <3> QED
      BY <2>1, <3>1, FilesKeepInode
  <2>4. After(step[e]) # "done"
    BY DEF After
  <2>5. /\ step'[e] = "done" => outcome'[e] \in {"partial", "unavailable"}
        /\ \A d \in Executions \ {e} : step'[d] = step[d] /\ outcome'[d] = outcome[d]
    BY <1>2, <2>4 DEF Write, Raise, Goto, TypeOK
  <2> QED
    BY <2>2, <2>3, <2>5, LocalImplements DEF Workspace!Next
<1>3. CASE RemoveTree(e)
  <2>1. CASE outcome[e] = "audited"
    BY <1>q, <1>3, <2>1, RemoveReports DEF Workspace!Next
  <2>2. CASE outcome[e] # "audited"
    <3>1. outcome[e] \in {"partial", "unavailable"} /\ Holds(e, plan[e].id) /\ Live(e)
      BY <1>3, <2>2 DEF TypeOK, WorkspaceInv, Placed, RemoveTree, Home, Holds, Live,
         Inside, Leaving
    <3>2. /\ plan' = plan /\ made' = made /\ outcome' = outcome /\ step'[e] = "done"
          /\ \A d \in Executions \ {e} : step'[d] = step[d]
          /\ trees'[plan[e].id] = NoTree
          /\ \A p \in PlanIds \ {plan[e].id} : trees'[p] = trees[p]
      BY <1>q, <1>3 DEF RemoveTree, Goto, inputs, TypeOK
    <3>3. Workspace!Refuse(e)
      BY <3>1, <3>2, Refuses DEF Ended
    <3> QED
      BY <3>3 DEF Workspace!Next
  <2> QED
    BY <2>1, <2>2
<1> QED
  BY <1>1, <1>2, <1>3, QuietImplements DEF Advance, Workspace!Next

LEMMA TroubleImplements ==
  ASSUME TypeOK, WorkspaceInv, HolderFacts, HolderFacts', NEW e \in Executions,
         SystemFault(e) \/ Crash(e)
  PROVE  Workspace!Refuse(e) \/ Unmoved
<1>1. CASE SystemFault(e)
  <2>1. plan' = plan /\ made' = made /\ ~Ended(step[e])
    BY <1>1 DEF SystemFault, inputs, Ended, CallingSystem
  <2>2. \A p \in PlanIds : /\ trees'[p].inode = trees[p].inode
                           /\ trees'[p] = NoTree <=> trees[p] = NoTree
    <3>1. CASE step[e] = "remove"
      <4>1. UNCHANGED trees \/ \E fs : trees' = [trees EXCEPT ![plan[e].id].files = fs]
        BY <1>1 DEF SystemFault
      <4>2. step[e] \in Inside
        BY <3>1 DEF Inside, Leaving
      <4> QED
        BY <4>1, <4>2, FilesKeepInode
    <3>2. CASE step[e] # "remove"
      BY <1>1, <3>2 DEF SystemFault
    <3> QED
      BY <3>1, <3>2
  <2>3. /\ step'[e] = "done" => outcome'[e] \in {"partial", "unavailable"}
        /\ \A d \in Executions \ {e} : step'[d] = step[d] /\ outcome'[d] = outcome[d]
    BY <1>1 DEF SystemFault, Raise, Goto, TypeOK
  <2> QED
    BY <2>1, <2>2, <2>3, LocalImplements
<1>2. CASE Crash(e)
  <2>1. /\ plan' = plan /\ made' = made /\ trees' = trees /\ ~Ended(step[e])
        /\ step'[e] = "crashed"
        /\ \A d \in Executions \ {e} : step'[d] = step[d] /\ outcome'[d] = outcome[d]
    BY <1>2 DEF Crash, inputs, treeVars, Ended, Goto, TypeOK
  <2> QED
    BY <2>1, LocalImplements
<1> QED
  BY <1>1, <1>2

LEMMA StepImplements ==
  TypeOK /\ WorkspaceInv /\ HolderFacts /\ HolderFacts' /\ [Next]_vars
    => [Workspace!Next]_(Workspace!workspaceVars)
<1> SUFFICES ASSUME TypeOK, WorkspaceInv, HolderFacts, HolderFacts', [Next]_vars
             PROVE  Workspace!Next \/ Unmoved
  BY DEF Unmoved, Workspace!workspaceVars
<1>1. ASSUME NEW e \in Executions, Advance(e) PROVE Workspace!Next \/ Unmoved
  BY <1>1, AdvanceImplements
<1>2. ASSUME NEW e \in Executions, SystemFault(e) \/ Crash(e)
      PROVE  Workspace!Next \/ Unmoved
  BY <1>2, TroubleImplements DEF Workspace!Next
<1>3. ASSUME NEW q \in PlanIds, ReplaceTree(q) PROVE Workspace!Next \/ Unmoved
  BY <1>3, ReplaceRobs DEF Workspace!Next
<1>4. CASE \E a \in Artifacts : ChangeCheckout(a)
  BY <1>4, Stutters DEF ChangeCheckout, inputs, treeVars, Unmoved
<1>5. CASE UNCHANGED vars
  BY <1>5, Stutters DEF vars, inputs, world, Unmoved
<1> QED
  BY <1>1, <1>2, <1>3, <1>4, <1>5 DEF Next

\* mkdir without exist_ok, the remembered identity and the cleanup boundary make
\* the directory of a plan an exclusive workspace.
THEOREM TreesAreWorkspaces == Spec => ImplementsWorkspace
<1>1. Init => Workspace!Init
  <2> SUFFICES ASSUME Init PROVE Workspace!Init
    OBVIOUS
  <2>1. \A p \in PlanIds : Holder(p) = "free"
    BY DEF Init, Holder
  <2>2. \A e \in Executions : Answer(e) = "open"
    BY DEF Init, AllOf, Answer
  <2> QED
    BY <2>1, <2>2 DEF Workspace!Init, Workspace!Free
<1> QED
  BY <1>1, StepImplements, HolderIs, WorkspaceInvariant, PTL
     DEF Spec, ImplementsWorkspace, Workspace!Spec

-----------------------------------------------------------------------------------
(* What an outcome takes.                                                    *)

\* What Passed and Earned look at, for an execution that does nothing.
LEMMA EarnedBystander ==
  ASSUME NEW d \in Executions, Passed(d), Earned(d),
         plan'[d] = plan[d], lim' = lim, step'[d] = step[d], at'[d] = at[d], outcome'[d] = outcome[d],
         captured'[d] = captured[d], scanned'[d] = scanned[d]
  PROVE  Passed(d)' /\ Earned(d)'
BY DEF Passed, Earned, Current

Others(e) ==
  \A d \in Executions \ {e} :
     /\ step'[d] = step[d] /\ at'[d] = at[d] /\ outcome'[d] = outcome[d]
     /\ captured'[d] = captured[d] /\ scanned'[d] = scanned[d]
     /\ stale'[d] = stale[d] /\ intact'[d] = intact[d]

LEMMA EarnedLocal ==
  ASSUME EarnedInv, NEW e \in Executions, plan' = plan /\ lim' = lim, Others(e), Passed(e)', Earned(e)'
  PROVE  EarnedInv'
<1>1. ASSUME NEW d \in Executions, d # e PROVE Passed(d)' /\ Earned(d)'
  BY <1>1, EarnedBystander DEF EarnedInv, Others
<1> QED
  BY <1>1 DEF EarnedInv

\* Each step of an execution leaves the others alone.
LEMMA OneAtATime ==
  ASSUME TypeOK, NEW e \in Executions, Advance(e) \/ SystemFault(e) \/ Crash(e)
  PROVE  plan' = plan /\ lim' = lim /\ Others(e)
<1> USE DEF Others, TypeOK, Raise, Goto, inputs, captureVars
<1>1. CASE Validate(e) \/ Capture(e) \/ CaptureRefused(e)
  BY <1>1 DEF Validate, Capture, CaptureRefused
<1>2. CASE Revalidate(e)
  BY <1>2 DEF Revalidate
<1>3. CASE AllCaptured(e) \/ ScanEndpoint(e) \/ JudgeBinding(e) \/ CreateTree(e) \/ Collide(e)
  BY <1>3 DEF AllCaptured, ScanEndpoint, JudgeBinding, CreateTree, Collide
<1>4. CASE Identify(e) \/ EnterDatasets(e) \/ LoadManifest(e) \/ ReadTree(e)
  BY <1>4 DEF Identify, EnterDatasets, LoadManifest, ReadTree
<1>5. CASE Write(e)
  BY <1>5 DEF Write
<1>6. CASE Unwind(e) \/ LookUpTree(e) \/ RemoveTree(e)
  BY <1>6 DEF Unwind, LookUpTree, RemoveTree
<1>7. CASE SystemFault(e)
  BY <1>7 DEF SystemFault
<1>8. CASE Crash(e)
  BY <1>8 DEF Crash
<1> QED
  BY <1>1, <1>2, <1>3, <1>4, <1>5, <1>6, <1>7, <1>8 DEF Advance

\* Outcomes other than "partial" and "audited" take nothing, nor does a step
\* after which nothing is checked any more.
LEMMA Ends ==
  ASSUME NEW e \in Executions, step'[e] \in Leaving \cup {"done", "crashed"}
  PROVE  Passed(e)'
BY DEF Passed, Leaving, BeforeTree, Building

LEMMA RaisedEarned ==
  ASSUME TypeOK, NEW e \in Executions, NEW class \in {"audited", "partial", "unavailable"},
         Raise(e, class)
  PROVE  step'[e] \in {"done", "unwind"} /\ outcome'[e] = class
BY DEF TypeOK, Raise, Goto

\* A refusal on entry names a limitation of the plan only if it has one.
LEMMA PartialOnEntry ==
  ASSUME NEW p, FailedEntryChecks(p) # {}, Refusal(p) = "partial"
  PROVE  p.defects \cap LimitationDefects # {}
<1> DEFINE F == FailedEntryChecks(p)
<1>1. F \subseteq {1, 2, 3, 4, 5, 6}
  BY DEF FailedEntryChecks, EntryChecks
<1>2. \E x \in F : \A y \in F : x <= y
  <2>1. \A x \in F : x \in {1, 2, 3, 4, 5, 6}
    BY <1>1
  <2> HIDE DEF F
  <2>2. F # {}
    BY DEF F
  <2> QED
    BY <2>1, <2>2
<1>3. Min(F) \in F
  BY <1>2 DEF Min
<1> HIDE DEF F
<1>4. PICK i \in {1, 2, 3, 4, 5, 6} : i = Min(F) /\ i \in F
  BY <1>1, <1>3
<1>5. EntryChecks[i][2] = "partial"
  BY <1>4 DEF Refusal, F
<1>6. EntryChecks[i][1] \in {"missing", "threshold"}
  BY <1>4, <1>5 DEF EntryChecks
<1>7. EntryChecks[i][1] \in p.defects
  BY <1>4 DEF F, FailedEntryChecks
<1> QED
  BY <1>6, <1>7 DEF LimitationDefects

LEMMA ValidateEarns ==
  ASSUME TypeOK, EarnedInv, NEW e \in Executions, Validate(e)
  PROVE  Passed(e)' /\ Earned(e)'
<1>1. /\ Passed(e) /\ Earned(e) /\ step[e] = "start"
      /\ plan' = plan /\ lim' = lim /\ at' = at /\ captured' = captured /\ scanned' = scanned
  BY DEF EarnedInv, Validate, inputs, captureVars
<1>2. CASE FailedEntryChecks(plan[e]) # {}
  <2>1. Raise(e, Refusal(plan[e])) /\ Refusal(plan[e]) \in {"partial", "unavailable"}
    BY <1>2, RefusalType DEF Validate
  <2>2. step'[e] \in {"done", "unwind"} /\ outcome'[e] = Refusal(plan[e])
    BY <2>1, RaisedEarned
  <2>3. Passed(e)'
    BY <2>2, Ends DEF Leaving
  <2>4. outcome'[e] # "audited"
        /\ (outcome'[e] = "partial" => plan[e].defects \cap LimitationDefects # {})
    BY <1>2, <2>1, <2>2, PartialOnEntry
  <2> QED
    BY <1>1, <2>3, <2>4 DEF Earned
<1>3. CASE FailedEntryChecks(plan[e]) = {}
  <2>1. step'[e] = "capture" /\ outcome' = outcome
    BY <1>3 DEF Validate, Goto, TypeOK
  <2>2. at[e] = 1 /\ captured[e] = {} /\ scanned[e] = {}
    BY <1>1 DEF Passed
  <2>3. plan[e].bindings \in Seq(Bindings)
    BY PlanFacts
  <2>4. ~\E i \in DOMAIN plan[e].bindings : i < 1
    BY <2>3
  <2>5. Passed(e)'
    BY <1>1, <1>3, <2>1, <2>2, <2>4 DEF Passed, Building, NativeFiles, Roles
  <2> QED
    BY <1>1, <2>1, <2>5 DEF Earned
<1> QED
  BY <1>2, <1>3

\* What a step before the tree exists leaves behind when it raises.
LEMMA RaiseEarns ==
  ASSUME TypeOK, EarnedInv, NEW e \in Executions, plan' = plan /\ lim' = lim,
         NEW class \in {"partial", "unavailable"}, Raise(e, class),
         class = "partial" => \/ "representation" \in Flaws(plan[e], lim.file)
                              \/ plan[e].defects \cap LimitationDefects # {}
  PROVE  Passed(e)' /\ Earned(e)'
<1>1. step'[e] \in {"done", "unwind"} /\ outcome'[e] = class
  BY RaisedEarned
<1> QED
  BY <1>1, Ends DEF Earned, Leaving

LEMMA CaptureEarns ==
  ASSUME TypeOK, WorkspaceInv, EarnedInv, NEW e \in Executions, Capture(e)
  PROVE  Passed(e)' /\ Earned(e)'
<1> DEFINE p == plan[e]
           a == Current(e).path
<1>1. /\ Passed(e) /\ Earned(e) /\ step[e] = "capture" /\ at[e] <= Len(p.bindings)
      /\ plan' = plan /\ lim' = lim /\ at' = at /\ scanned' = scanned /\ outcome' = outcome
      /\ step'[e] = "revalidate"
  BY DEF EarnedInv, Capture, inputs, Goto, TypeOK
<1>2. captured'[e] = captured[e] \cup {a}
  BY DEF Capture, TypeOK
<1>3. at[e] \in DOMAIN p.bindings
  <2>1. at[e] \in Nat \ {0} /\ p.bindings \in Seq(Bindings)
    BY PlanFacts DEF TypeOK
  <2> QED
    BY <1>1, <2>1
<1>4. a \in Paths(p)
  BY <1>3 DEF Paths, Current
<1>5. outcome[e] = "pending"
  BY <1>1 DEF WorkspaceInv, Placed, BeforeTree
<1>6. Current(e)' = Current(e)
  BY <1>1 DEF Current
<1>7. Passed(e)'
  BY <1>1, <1>2, <1>4, <1>6 DEF Passed, Building, NativeFiles, Roles, BeforeTree
<1> QED
  BY <1>1, <1>5, <1>7 DEF Earned

\* Whether the binding in hand is revalidated is a matter of the plan.
LEMMA NeedIsPlanned ==
  ASSUME TypeOK, NEW e \in Executions, Passed(e), step[e] = "revalidate"
  PROVE  NeedsRevalidation(e) <=> Revalidated(plan[e], lim.file, at[e])
<1> DEFINE p == plan[e]
           b == Current(e)
<1>1. b = p.bindings[at[e]]
  BY DEF Current
<1>2. CASE b.kind = "dataset"
  <2>1. scanned[e] = {p.bindings[i].path :
                       i \in {j \in {k \in DOMAIN p.bindings : k < at[e]} :
                                p.bindings[j].kind = "dataset"}}
    BY DEF Passed
  <2>2. b.path \notin scanned[e] <=>
          \A j \in DOMAIN p.bindings :
             j < at[e] /\ p.bindings[j].kind = "dataset" => p.bindings[j].path # b.path
    BY <2>1
  <2> QED
    BY <1>1, <1>2, <2>2 DEF NeedsRevalidation, Revalidated
<1>3. CASE b.kind # "dataset"
  <2>1. b.kind \in {"table", "fields"} /\ b.issued \in BOOLEAN /\ p.benchmark \in BOOLEAN
    <3>1. at[e] <= Len(p.bindings)
      BY DEF TypeOK
    <3> QED
      BY <1>3, <3>1, BindingFacts, PlanFacts DEF Bindings, Kinds
  <2> QED
    BY <1>1, <1>3, <2>1
    DEF NeedsRevalidation, IsEndpoint, AsPlanned, Revalidated, Streamed
<1> QED
  BY <1>2, <1>3

LEMMA RevalidateEarns ==
  ASSUME TypeOK, EarnedInv, NEW e \in Executions, Revalidate(e)
  PROVE  Passed(e)' /\ Earned(e)'
<1> DEFINE p == plan[e]
           b == Current(e)
<1>0. step[e] = "revalidate" /\ plan' = plan /\ lim' = lim /\ captured' = captured
  BY DEF Revalidate, inputs
<1>1. /\ Passed(e) /\ Earned(e) /\ step[e] = "revalidate"
      /\ plan' = plan /\ lim' = lim /\ captured' = captured
      /\ at[e] \in DOMAIN p.bindings /\ b = p.bindings[at[e]]
  <2>1. at[e] <= Len(p.bindings) /\ at[e] \in Nat \ {0} /\ p.bindings \in Seq(Bindings)
    BY <1>0, PlanFacts DEF TypeOK
  <2>2. at[e] \in DOMAIN p.bindings
    BY <2>1
  <2> QED
    BY <1>0, <2>2 DEF EarnedInv, Current
<1>2. NeedsRevalidation(e) <=> Revalidated(p, lim.file, at[e])
  BY <1>1, NeedIsPlanned
<1>3. CASE NeedsRevalidation(e) /\ b.defect = "representation" /\ Raise(e, "partial")
  <2>1. "representation" \in Flaws(p, lim.file)
    BY <1>1, <1>2, <1>3 DEF Flaws
  <2> QED
    BY <1>1, <1>3, <2>1, RaiseEarns
<1>4. CASE Raise(e, "unavailable")
  BY <1>1, <1>4, RaiseEarns
<1>5. CASE /\ NeedsRevalidation(e) => b.defect = "none"
           /\ scanned' = IF b.kind = "dataset"
                           THEN [scanned EXCEPT ![e] = @ \cup {b.path}] ELSE scanned
           /\ at' = [at EXCEPT ![e] = @ + 1]
           /\ Goto(e, "capture") /\ UNCHANGED outcome
  <2>1. /\ at'[e] = at[e] + 1 /\ step'[e] = "capture" /\ at[e] \in Nat
        /\ scanned'[e] = IF b.kind = "dataset" THEN scanned[e] \cup {b.path} ELSE scanned[e]
    BY <1>5 DEF Goto, TypeOK
  <2>2. DOMAIN p.bindings \subseteq Nat
    BY PlanFacts
  <2>3. \A i \in DOMAIN p.bindings : i < at'[e] <=> i < at[e] \/ i = at[e]
    BY <2>1, <2>2
  <2>4. \A i \in DOMAIN p.bindings : i < at'[e] =>
          /\ p.bindings[i].path \in captured[e]
          /\ Revalidated(p, lim.file, i) => p.bindings[i].defect = "none"
    BY <1>1, <1>2, <1>5, <2>3 DEF Passed
  <2> DEFINE B == {i \in DOMAIN p.bindings : i < at[e]}
             C == {i \in DOMAIN p.bindings : i < at'[e]}
             Data(S) == {p.bindings[i].path : i \in {j \in S : p.bindings[j].kind = "dataset"}}
  <2>5. scanned[e] = Data(B)
    BY <1>1 DEF Passed
  <2>6. C = B \cup {at[e]}
    BY <1>1, <2>3
  <2>7. scanned'[e] = Data(C)
    <3> HIDE DEF B, C
    <3>1. CASE b.kind = "dataset"
      BY <1>1, <2>1, <2>5, <2>6, <3>1
    <3>2. CASE b.kind # "dataset"
      BY <1>1, <2>1, <2>5, <2>6, <3>2
    <3> QED
      BY <3>1, <3>2
  <2>8. captured[e] \subseteq Paths(p) /\ FailedEntryChecks(p) = {} /\ outcome'[e] = outcome[e]
    BY <1>1, <1>5 DEF Passed, BeforeTree
  <2>9. Passed(e)'
    BY <1>1, <2>1, <2>4, <2>7, <2>8 DEF Passed, Building, NativeFiles, Roles
  <2> QED
    BY <1>1, <2>8, <2>9 DEF Earned
<1> QED
  BY <1>3, <1>4, <1>5 DEF Revalidate

LEMMA AllCapturedEarns ==
  ASSUME TypeOK, EarnedInv, NEW e \in Executions, AllCaptured(e)
  PROVE  Passed(e)' /\ Earned(e)'
<1> DEFINE p == plan[e]
<1>1. /\ Passed(e) /\ Earned(e) /\ step[e] = "capture" /\ at[e] > Len(p.bindings)
      /\ plan' = plan /\ lim' = lim /\ captured' = captured /\ outcome' = outcome
      /\ step'[e] = "endpoints"
  BY DEF EarnedInv, AllCaptured, inputs, captureVars, Goto, TypeOK
<1>2. \A i \in DOMAIN p.bindings : i < at[e]
  BY <1>1, PlanFacts DEF TypeOK
<1>3. captured[e] = Paths(p) /\ Flaws(p, lim.file) \subseteq {"none"}
  BY <1>1, <1>2 DEF Passed, Paths, Flaws
<1>4. FailedEntryChecks(p) = {}
  BY <1>1 DEF Passed, BeforeTree
<1>5. Passed(e)'
  BY <1>1, <1>3, <1>4 DEF Passed, Building, NativeFiles, Roles
<1> QED
  BY <1>1, <1>5 DEF Earned

\* The steps from the metric pair to the first file.
LEMMA AdvancingEarns ==
  ASSUME TypeOK, EarnedInv, NEW e \in Executions,
         ScanEndpoint(e) \/ JudgeBinding(e) \/ CreateTree(e) \/ Identify(e) \/ EnterDatasets(e)
  PROVE  Passed(e)' /\ Earned(e)'
<1>1. Passed(e) /\ Earned(e) /\ plan' = plan /\ lim' = lim /\ captured' = captured
  BY DEF EarnedInv, ScanEndpoint, JudgeBinding, CreateTree, Identify, EnterDatasets, inputs,
     captureVars
<1>2. CASE ScanEndpoint(e)
  BY <1>1, <1>2 DEF ScanEndpoint, Passed, Earned, Building, NativeFiles, Roles, BeforeTree
<1>3. CASE JudgeBinding(e)
  <2>1. CASE Raise(e, "unavailable")
    BY <1>1, <2>1, RaiseEarns
  <2>2. CASE ~Raise(e, "unavailable")
    <3>1. /\ step[e] = "endpoints" /\ step'[e] = "create" /\ outcome' = outcome
          /\ plan[e].defects \cap {"metric", "profile"} = {}
      BY <1>3, <2>2 DEF JudgeBinding, Goto, TypeOK
    <3> QED
      BY <1>1, <3>1 DEF Passed, Earned, Building, NativeFiles, Roles, BeforeTree
  <2> QED
    BY <2>1, <2>2
<1>4. CASE CreateTree(e)
  <2>1. step[e] = "create" /\ step'[e] = "identify" /\ outcome' = outcome
    BY <1>4 DEF CreateTree, Goto, TypeOK
  <2> QED
    BY <1>1, <2>1 DEF Passed, Earned, Building, NativeFiles, Roles, BeforeTree
<1>5. CASE Identify(e)
  <2>1. /\ step[e] = "identify" /\ outcome' = outcome
        /\ step'[e] = IF plan[e].benchmark THEN "read" ELSE "spill"
    BY <1>5 DEF Identify, Goto, TypeOK
  <2> QED
    BY <1>1, <2>1 DEF Passed, Earned, Building, NativeFiles, Roles, BeforeTree
<1>6. CASE EnterDatasets(e)
  <2>1. CASE Raise(e, "unavailable")
    BY <1>1, <2>1, RaiseEarns
  <2>2. CASE ~Raise(e, "unavailable")
    <3>1. /\ step[e] = "spill" /\ step'[e] = "baseline" /\ outcome' = outcome
          /\ "datasets" \notin plan[e].defects
      BY <1>6, <2>2 DEF EnterDatasets, Goto, TypeOK
    <3>2. Written("baseline") = {}
      BY DEF Written
    <3> QED
      BY <1>1, <3>1, <3>2 DEF Passed, Earned, Building, NativeFiles, Roles, BeforeTree
  <2> QED
    BY <2>1, <2>2
<1> QED
  BY <1>2, <1>3, <1>4, <1>5, <1>6

LEMMA WriteEarns ==
  ASSUME TypeOK, WorkspaceInv, EarnedInv, NEW e \in Executions, Write(e)
  PROVE  Passed(e)' /\ Earned(e)'
<1> DEFINE p == plan[e]
           s == step[e]
<1>1. /\ Passed(e) /\ Earned(e) /\ plan' = plan /\ lim' = lim /\ captured' = captured
      /\ s \in NativeFiles /\ p.defects \subseteq Defects
  BY PlanFacts, PlanAssumption DEF EarnedInv, Write, inputs, world, captureVars
<1>2. CASE s \in p.defects /\ Raise(e, "partial")
  <2>1. s \in LimitationDefects
    BY <1>1, <1>2 DEF Defects, EntryChecks, NativeFiles, LimitationDefects
  <2> QED
    BY <1>1, <1>2, <2>1, RaiseEarns
<1>3. CASE Raise(e, "unavailable")
  BY <1>1, <1>3, RaiseEarns
<1>4. CASE s \notin p.defects /\ Goto(e, After(s)) /\ UNCHANGED outcome
  <2>1. step'[e] = After(s) /\ outcome' = outcome
    BY <1>4 DEF Goto, TypeOK
  <2>2. Written(After(s)) = Written(s) \cup {s}
    BY <1>1 DEF Written, After, NativeFiles, Roles
  <2>3. After(s) \in {"candidate", "manifest", "load"}
    BY DEF After
  <2>4. s \in Building \ {"spill"} /\ After(s) \in Building \ {"spill"}
    BY <1>1, <2>3 DEF Building, NativeFiles, Roles
  <2>5. ~p.benchmark => p.defects \cap ({"datasets"} \cup Written(After(s))) = {}
    BY <1>1, <1>4, <2>2, <2>4 DEF Passed
  <2>6. After(s) \notin BeforeTree \cup {"identify"}
    BY <2>3 DEF BeforeTree
  <2> HIDE DEF s
  <2>7. Passed(e)'
    BY <1>1, <2>1, <2>4, <2>5, <2>6 DEF Passed, BeforeTree, s
  <2> QED
    BY <1>1, <2>1, <2>7 DEF Earned
<1> QED
  BY <1>2, <1>3, <1>4 DEF Write

LEMMA ReadEarns ==
  ASSUME TypeOK, EarnedInv, NEW e \in Executions, ReadTree(e)
  PROVE  Passed(e)' /\ Earned(e)'
<1> DEFINE p == plan[e]
<1>1. /\ Passed(e) /\ plan' = plan /\ lim' = lim /\ captured' = captured /\ step[e] = "read"
      /\ p.defects \subseteq Defects
  BY PlanFacts, PlanAssumption DEF EarnedInv, ReadTree, inputs, captureVars
<1>2. CASE Raise(e, "unavailable")
  BY <1>1, <1>2, RaiseEarns
<1>3. CASE "audit" \notin p.defects /\ Raise(e, "audited")
  <2>1. step'[e] \in {"done", "unwind"} /\ outcome'[e] = "audited"
    BY <1>3, RaisedEarned
  <2>2. "read" \in Building /\ Written("read") = NativeFiles
    BY DEF Building, Written
  <2>3. /\ FailedEntryChecks(p) = {} /\ captured[e] = Paths(p)
        /\ Flaws(p, lim.file) \subseteq {"none"}
        /\ p.defects \cap {"metric", "profile"} = {}
        /\ ~p.benchmark => p.defects \cap ({"datasets"} \cup NativeFiles) = {}
    BY <1>1, <2>2 DEF Passed
  <2>4. \A i \in 1..6 : EntryChecks[i][1] \notin p.defects
    BY <2>3 DEF FailedEntryChecks, EntryChecks
  <2>5. p.defects \subseteq Roles \cup {"datasets"}
    <3>1. {EntryChecks[i][1] : i \in DOMAIN EntryChecks}
            = {"identity", "scope", "missing", "threshold", "provenance", "binding"}
      BY DEF EntryChecks
    <3>2. p.defects \cap {"identity", "scope", "missing", "threshold", "provenance", "binding"}
            = {}
      BY <2>4 DEF EntryChecks
    <3> QED
      BY <1>1, <1>3, <2>3, <3>1, <3>2 DEF Defects
  <2>6. p.defects \subseteq (IF p.benchmark THEN NativeFiles \cup {"datasets"} ELSE {})
    BY <2>3, <2>5 DEF NativeFiles
  <2>7. Passed(e)'
    BY <2>1, Ends DEF Leaving
  <2> QED
    BY <1>1, <2>1, <2>3, <2>6, <2>7 DEF Earned
<1> QED
  BY <1>2, <1>3 DEF ReadTree

\* The way out, and what goes wrong.
LEMMA LeavingEarns ==
  ASSUME TypeOK, EarnedInv, NEW e \in Executions,
         Unwind(e) \/ LookUpTree(e) \/ RemoveTree(e) \/ Crash(e)
  PROVE  Passed(e)' /\ Earned(e)'
<1>1. /\ Earned(e) /\ plan' = plan /\ lim' = lim /\ captured' = captured
      /\ step'[e] \in Leaving \cup {"done", "crashed"}
      /\ outcome'[e] \in {outcome[e], "unavailable"}
  BY DEF EarnedInv, Unwind, LookUpTree, RemoveTree, Crash, inputs, captureVars, Goto, TypeOK,
     Leaving
<1> QED
  BY <1>1, Ends DEF Earned

LEMMA FaultEarns ==
  ASSUME TypeOK, EarnedInv, NEW e \in Executions, SystemFault(e)
  PROVE  Passed(e)' /\ Earned(e)'
<1>1. plan' = plan /\ lim' = lim
  BY DEF SystemFault, inputs
<1>2. CASE Raise(e, "unavailable")
  BY <1>1, <1>2, RaiseEarns
<1>3. CASE ~Raise(e, "unavailable")
  <2>1. step'[e] = "done" /\ outcome'[e] = "unavailable"
    BY <1>3 DEF SystemFault, Goto, TypeOK
  <2> QED
    BY <1>1, <2>1, Ends DEF Earned
<1> QED
  BY <1>2, <1>3

LEMMA RefusingEarns ==
  ASSUME TypeOK, EarnedInv, NEW e \in Executions,
         CaptureRefused(e) \/ Collide(e) \/ LoadManifest(e)
  PROVE  Passed(e)' /\ Earned(e)'
<1>1. Passed(e) /\ Earned(e) /\ plan' = plan /\ lim' = lim /\ captured' = captured
  BY DEF EarnedInv, CaptureRefused, Collide, LoadManifest, inputs, captureVars
<1>2. CASE Raise(e, "unavailable")
  BY <1>1, <1>2, RaiseEarns
<1>3. CASE LoadManifest(e) /\ ~Raise(e, "unavailable")
  <2>1. step[e] = "load" /\ step'[e] = "read" /\ outcome' = outcome
    BY <1>3 DEF LoadManifest, Goto, TypeOK
  <2>2. Written("read") = NativeFiles /\ Written("load") = NativeFiles
    BY DEF Written
  <2> QED
    BY <1>1, <2>1, <2>2 DEF Passed, Earned, Building, BeforeTree
<1> QED
  BY <1>2, <1>3 DEF CaptureRefused, Collide

LEMMA InitEarns == Init => EarnedInv
<1> SUFFICES ASSUME Init, NEW e \in Executions PROVE Passed(e) /\ Earned(e)
  BY DEF EarnedInv
<1>1. /\ step[e] = "start" /\ at[e] = 1 /\ captured[e] = {} /\ scanned[e] = {}
      /\ outcome[e] = "pending"
  BY DEF Init, AllOf
<1> QED
  BY <1>1 DEF Passed, Earned, BeforeTree, Building, NativeFiles, Roles

LEMMA NextEarns == TypeOK /\ WorkspaceInv /\ EarnedInv /\ [Next]_vars => EarnedInv'
<1> SUFFICES ASSUME TypeOK, WorkspaceInv, EarnedInv, [Next]_vars PROVE EarnedInv'
  OBVIOUS
<1>1. ASSUME NEW e \in Executions, Advance(e) \/ SystemFault(e) \/ Crash(e) PROVE EarnedInv'
  <2>1. Passed(e)' /\ Earned(e)'
    BY <1>1, ValidateEarns, CaptureEarns, RevalidateEarns, AllCapturedEarns, AdvancingEarns,
       WriteEarns, ReadEarns, LeavingEarns, FaultEarns, RefusingEarns DEF Advance
  <2> QED
    BY <1>1, <2>1, OneAtATime, EarnedLocal
<1>2. CASE (\E a \in Artifacts : ChangeCheckout(a)) \/ (\E p \in PlanIds : ReplaceTree(p))
           \/ UNCHANGED vars
  <2>1. UNCHANGED <<plan, lim, step, at, outcome, captured, scanned>>
    BY <1>2 DEF ChangeCheckout, ReplaceTree, inputs, captureVars, vars
  <2> QED
    BY <2>1, EarnedBystander DEF EarnedInv
<1> QED
  BY <1>1, <1>2 DEF Next

\* What Found and ReadWhole look at, for an execution that reads no file, or none at all.
LEMMA FoundElsewhere ==
  ASSUME NEW d \in Executions, Found(d), ReadWhole(d),
         plan' = plan, lim' = lim, intact'[d] = intact[d], outcome'[d] = outcome[d],
         \/ /\ step'[d] = step[d] /\ at'[d] = at[d] /\ captured'[d] = captured[d]
            /\ stale'[d] = stale[d]
         \/ /\ step[d] \in {"create", "identify"} \cup Building
            /\ step'[d] \in {"create", "identify"} \cup Building
  PROVE  Found(d)' /\ ReadWhole(d)'
<1>1. ReadWhole(d)'
  BY DEF ReadWhole, Paths
<1>2. CASE /\ step'[d] = step[d] /\ at'[d] = at[d] /\ captured'[d] = captured[d]
           /\ stale'[d] = stale[d]
  BY <1>1, <1>2 DEF Found, Streamed, IsEndpoint, Paths
<1>3. CASE /\ step[d] \in {"create", "identify"} \cup Building
           /\ step'[d] \in {"create", "identify"} \cup Building
  <2>1. intact'[d] = Paths(plan[d])'
    BY <1>3 DEF Found, Paths
  <2>2. step'[d] \notin {"capture", "revalidate", "endpoints"}
    BY <1>3 DEF Building, NativeFiles, Roles
  <2> QED
    BY <1>1, <2>1, <2>2 DEF Found
<1> QED
  BY <1>2, <1>3

\* Nothing is found by a step that raises a refusal, or after a result.
LEMMA FoundEnds ==
  ASSUME NEW e \in Executions, plan' = plan, intact' = intact,
         step'[e] \in Leaving \cup {"done", "crashed"},
         outcome'[e] = "audited" => intact[e] = Paths(plan[e])
  PROVE  Found(e)' /\ ReadWhole(e)'
BY DEF Found, ReadWhole, Paths, Leaving, BeforeTree, Building, NativeFiles, Roles

LEMMA FoundRefused ==
  ASSUME TypeOK, NEW e \in Executions, plan' = plan, intact' = intact,
         NEW class \in {"partial", "unavailable"}, Raise(e, class)
  PROVE  Found(e)' /\ ReadWhole(e)'
<1>1. step'[e] \in {"done", "unwind"} /\ outcome'[e] = class
  BY RaisedEarned
<1> QED
  BY <1>1, FoundEnds DEF Leaving

LEMMA ValidateFinds ==
  ASSUME TypeOK, EarnedInv, FoundInv, NEW e \in Executions, Validate(e)
  PROVE  Found(e)' /\ ReadWhole(e)'
<1>1. /\ step[e] = "start" /\ plan' = plan /\ lim' = lim
      /\ at' = at /\ captured' = captured /\ intact' = intact
  BY DEF Validate, inputs, captureVars
<1>2. CASE FailedEntryChecks(plan[e]) # {}
  <2>1. Raise(e, Refusal(plan[e])) /\ Refusal(plan[e]) \in {"partial", "unavailable"}
    BY <1>2, RefusalType DEF Validate
  <2> QED
    BY <1>1, <2>1, FoundRefused
<1>3. CASE FailedEntryChecks(plan[e]) = {}
  <2>1. step'[e] = "capture" /\ outcome' = outcome
    BY <1>3 DEF Validate, Goto, TypeOK
  <2>2. at[e] = 1 /\ captured[e] = {}
    BY <1>1 DEF EarnedInv, Passed
  <2>3. ~\E i \in DOMAIN plan[e].bindings : i < 1
    <3>1. plan[e].bindings \in Seq(Bindings)
      BY PlanFacts
    <3> QED
      BY <3>1
  <2>4. intact[e] \subseteq Paths(plan[e]) /\ ReadWhole(e)
    BY <1>1 DEF FoundInv, Found, BeforeTree
  <2>5. ReadWhole(e)'
    BY <1>1, <2>1, <2>4 DEF ReadWhole, Paths
  <2>6. Found(e)'
    BY <1>1, <2>1, <2>2, <2>3, <2>4 DEF Found, Paths, Building, NativeFiles, Roles
  <2> QED
    BY <2>5, <2>6
<1> QED
  BY <1>2, <1>3

\* A capture leaves the artifact in hand intact or streamed.
LEMMA CaptureFinds ==
  ASSUME TypeOK, WorkspaceInv, FoundInv, NEW e \in Executions, Capture(e)
  PROVE  Found(e)' /\ ReadWhole(e)'
<1> DEFINE p == plan[e]
           a == Current(e).path
<1>1. /\ step[e] = "capture" /\ at[e] <= Len(p.bindings) /\ plan' = plan /\ lim' = lim
      /\ at' = at /\ outcome' = outcome /\ step'[e] = "revalidate"
  BY DEF Capture, inputs, Goto, TypeOK
<1>2. Found(e) /\ outcome[e] = "pending"
  BY <1>1 DEF FoundInv, WorkspaceInv, Placed, BeforeTree
<1>3. a \in Paths(p)
  <2>1. at[e] \in Nat \ {0} /\ p.bindings \in Seq(Bindings)
    BY PlanFacts DEF TypeOK
  <2>2. at[e] \in DOMAIN p.bindings
    BY <1>1, <2>1
  <2> QED
    BY <2>2 DEF Paths, Current
<1>4. /\ captured'[e] \subseteq captured[e] \cup {a}
      /\ intact[e] \subseteq intact'[e] /\ intact'[e] \subseteq intact[e] \cup {a}
      /\ a \in captured[e] \/ Streamed(a) \/ a \in intact'[e]
  <2>1. CASE a \in captured[e]
    BY <2>1 DEF Capture
  <2>2. CASE a \notin captured[e]
    <3>1. captured'[e] = captured[e] \cup {a}
      BY <2>2 DEF Capture, TypeOK
    <3>2. intact' = IF Streamed(a) THEN intact ELSE [intact EXCEPT ![e] = intact[e] \cup {a}]
      BY <2>2 DEF Capture
    <3>3. intact'[e] = IF Streamed(a) THEN intact[e] ELSE intact[e] \cup {a}
      BY <3>2 DEF TypeOK
    <3> QED
      BY <3>1, <3>3
  <2> QED
    BY <2>1, <2>2
<1>5. \A x : Streamed(x)' = Streamed(x)
  BY <1>1 DEF Streamed
<1> HIDE DEF a
<1>6. /\ intact[e] \subseteq Paths(p)
      /\ \A x \in captured[e] : Streamed(x) \/ x \in intact[e]
      /\ \A i \in DOMAIN p.bindings : i < at[e] =>
           p.bindings[i].path \in intact[e] \/ IsEndpoint(p, p.bindings[i].path)
  BY <1>1, <1>2 DEF Found, BeforeTree
<1>7. \A x \in captured'[e] : Streamed(x)' \/ x \in intact'[e]
  BY <1>4, <1>5, <1>6
<1>8. \A i \in DOMAIN p.bindings : i < at[e] =>
        p.bindings[i].path \in intact'[e] \/ IsEndpoint(p, p.bindings[i].path)
  BY <1>4, <1>6
<1>9. intact'[e] \subseteq Paths(p)
  BY <1>3, <1>4, <1>6
<1>10. Found(e)'
  BY <1>1, <1>7, <1>8, <1>9 DEF Found, Paths, IsEndpoint, Building, NativeFiles, Roles
<1> QED
  BY <1>1, <1>2, <1>10 DEF ReadWhole

\* A binding that is passed has had its artifact read, unless an endpoint's turn is to come.
LEMMA RevalidateFinds ==
  ASSUME TypeOK, WorkspaceInv, EarnedInv, FoundInv, NEW e \in Executions, Revalidate(e)
  PROVE  Found(e)' /\ ReadWhole(e)'
<1> DEFINE p == plan[e]
           b == Current(e)
<1>1. /\ step[e] = "revalidate" /\ plan' = plan /\ lim' = lim /\ captured' = captured
      /\ outcome[e] = "pending"
  BY DEF Revalidate, inputs, WorkspaceInv, Placed, BeforeTree
<1>2. /\ at[e] \in Nat \ {0} /\ at[e] \in DOMAIN p.bindings /\ b = p.bindings[at[e]]
      /\ DOMAIN p.bindings \subseteq Nat /\ b \in Bindings
  <2>1. at[e] <= Len(p.bindings) /\ at[e] \in Nat \ {0} /\ p.bindings \in Seq(Bindings)
    BY <1>1, PlanFacts DEF TypeOK
  <2> QED
    BY <2>1, BindingFacts DEF Current
<1>3. CASE \E class \in {"partial", "unavailable"} : Raise(e, class) /\ intact' = intact
  BY <1>1, <1>3, FoundRefused
<1>4. CASE /\ intact' = IF NeedsRevalidation(e)
                          THEN [intact EXCEPT ![e] = @ \cup {b.path}] ELSE intact
           /\ at' = [at EXCEPT ![e] = @ + 1]
           /\ Goto(e, "capture") /\ UNCHANGED outcome
  <2>1. /\ at'[e] = at[e] + 1 /\ step'[e] = "capture" /\ outcome' = outcome
        /\ intact'[e] = IF NeedsRevalidation(e) THEN intact[e] \cup {b.path} ELSE intact[e]
    BY <1>4 DEF Goto, TypeOK
  <2>2. b.path \in Paths(p) /\ b.path \in captured[e]
    BY <1>1, <1>2 DEF Paths, EarnedInv, Passed
  <2>3. /\ intact[e] \subseteq Paths(p)
        /\ \A a \in captured[e] : Streamed(a) \/ a \in intact[e]
        /\ \A i \in DOMAIN p.bindings : i < at[e] =>
             p.bindings[i].path \in intact[e] \/ IsEndpoint(p, p.bindings[i].path)
    BY <1>1 DEF FoundInv, Found, BeforeTree
  <2>4. b.path \in intact'[e] \/ IsEndpoint(p, b.path)
    <3>1. CASE NeedsRevalidation(e)
      BY <2>1, <3>1
    <3>2. CASE ~NeedsRevalidation(e) /\ b.kind = "dataset"
      <4>1. b.path \in scanned[e]
        BY <3>2 DEF NeedsRevalidation
      <4>2. PICK i \in DOMAIN p.bindings : i < at[e] /\ p.bindings[i].path = b.path
        BY <1>1, <4>1 DEF EarnedInv, Passed
      <4> QED
        BY <2>1, <2>3, <3>2, <4>2
    <3>3. CASE ~NeedsRevalidation(e) /\ b.kind # "dataset"
      <4>1. IsEndpoint(p, b.path) \/ AsPlanned(e)
        BY <3>3 DEF NeedsRevalidation
      <4>2. AsPlanned(e) => b.path \in intact[e]
        BY <2>2, <2>3 DEF AsPlanned
      <4> QED
        BY <2>1, <3>3, <4>1, <4>2
    <3> QED
      BY <3>1, <3>2, <3>3
  <2>5. intact[e] \subseteq intact'[e] /\ intact'[e] \subseteq Paths(p)
    BY <2>1, <2>2, <2>3
  <2>6. \A a \in captured'[e] : Streamed(a)' \/ a \in intact'[e]
    BY <1>1, <2>3, <2>5 DEF Streamed
  <2>7. \A i \in DOMAIN p.bindings : i < at'[e] =>
          p.bindings[i].path \in intact'[e] \/ IsEndpoint(p, p.bindings[i].path)
    <3>1. \A i \in DOMAIN p.bindings : i < at'[e] => i < at[e] \/ i = at[e]
      BY <1>2, <2>1
    <3> QED
      BY <1>2, <2>3, <2>4, <2>5, <3>1
  <2>8. Found(e)'
    BY <1>1, <2>1, <2>5, <2>6, <2>7 DEF Found, Paths, IsEndpoint, Building, NativeFiles, Roles
  <2> QED
    BY <1>1, <2>1, <2>8 DEF ReadWhole
<1> QED
  BY <1>3, <1>4 DEF Revalidate

LEMMA AllCapturedFinds ==
  ASSUME TypeOK, WorkspaceInv, FoundInv, NEW e \in Executions, AllCaptured(e)
  PROVE  Found(e)' /\ ReadWhole(e)'
<1> DEFINE p == plan[e]
<1>1. /\ step[e] = "capture" /\ at[e] > Len(p.bindings) /\ plan' = plan /\ intact' = intact
      /\ outcome' = outcome /\ outcome[e] = "pending"
      /\ step'[e] = "endpoints" /\ at'[e] = 1
  BY DEF AllCaptured, inputs, captureVars, Goto, TypeOK, WorkspaceInv, Placed, BeforeTree
<1>2. \A i \in DOMAIN p.bindings : i < at[e]
  <2>1. p.bindings \in Seq(Bindings) /\ at[e] \in Nat
    BY PlanFacts DEF TypeOK
  <2> QED
    BY <1>1, <2>1
<1>3. \A a \in Paths(p) : a \in intact[e] \/ IsEndpoint(p, a)
  BY <1>1, <1>2 DEF FoundInv, Found, Paths
<1>4. \A k \in DOMAIN p.endpoints : k >= 1
  <2>1. p.endpoints \in Seq(Paths(p))
    BY PlanFacts, PlanAssumption DEF Paths
  <2> QED
    BY <2>1
<1>5. intact[e] \subseteq Paths(p)
  BY <1>1 DEF FoundInv, Found, BeforeTree
<1>6. Found(e)'
  BY <1>1, <1>3, <1>4, <1>5 DEF Found, Paths, IsEndpoint, Building, NativeFiles, Roles
<1> QED
  BY <1>1, <1>6 DEF ReadWhole

\* Every endpoint that has had its turn is intact, or the pair is stale.
LEMMA ScanEndpointFinds ==
  ASSUME TypeOK, WorkspaceInv, FoundInv, NEW e \in Executions, ScanEndpoint(e)
  PROVE  Found(e)' /\ ReadWhole(e)'
<1> DEFINE p == plan[e]
           a == p.endpoints[at[e]]
           changed == Streamed(a) /\ ~files[a]
<1>1. /\ step[e] = "endpoints" /\ at[e] <= Len(p.endpoints) /\ plan' = plan
      /\ step' = step /\ outcome' = outcome /\ outcome[e] = "pending"
      /\ at'[e] = at[e] + 1
  BY DEF ScanEndpoint, inputs, TypeOK, WorkspaceInv, Placed, BeforeTree
<1>2. /\ stale'[e] = (stale[e] \/ changed)
      /\ intact'[e] = IF changed THEN intact[e] ELSE intact[e] \cup {a}
  <2>1. /\ stale' = [stale EXCEPT ![e] = @ \/ changed]
        /\ intact' = IF changed THEN intact ELSE [intact EXCEPT ![e] = @ \cup {a}]
    BY DEF ScanEndpoint
  <2> HIDE DEF changed, a
  <2> QED
    BY <2>1 DEF TypeOK
<1>3. a \in Paths(p)
  BY <1>1, EndpointFacts
<1>4. at[e] \in Nat /\ DOMAIN p.endpoints \subseteq Nat
  <2>1. p.endpoints \in Seq(Paths(p))
    BY PlanFacts, PlanAssumption DEF Paths
  <2> QED
    BY <2>1 DEF TypeOK
<1>5. /\ intact[e] \subseteq Paths(p)
      /\ \A x \in Paths(p) : \/ x \in intact[e] \/ stale[e]
                             \/ \E k \in DOMAIN p.endpoints : k >= at[e] /\ p.endpoints[k] = x
  BY <1>1 DEF FoundInv, Found, BeforeTree
<1>6. \A k \in DOMAIN p.endpoints : k >= at[e] => k = at[e] \/ k >= at[e] + 1
  BY <1>4
<1>7. a \in intact'[e] \/ stale'[e]
  BY <1>2
<1>8. intact[e] \subseteq intact'[e] /\ intact'[e] \subseteq Paths(p) /\ (stale[e] => stale'[e])
  BY <1>2, <1>3, <1>5
<1>9. \A x \in Paths(p) : \/ x \in intact'[e] \/ stale'[e]
                          \/ \E k \in DOMAIN p.endpoints : k >= at'[e] /\ p.endpoints[k] = x
  BY <1>1, <1>5, <1>6, <1>7, <1>8
<1>10. Found(e)'
  BY <1>1, <1>8, <1>9 DEF Found, Paths, Building, NativeFiles, Roles
<1> QED
  BY <1>1, <1>10 DEF ReadWhole

LEMMA JudgeFinds ==
  ASSUME TypeOK, WorkspaceInv, FoundInv, NEW e \in Executions, JudgeBinding(e)
  PROVE  Found(e)' /\ ReadWhole(e)'
<1> DEFINE p == plan[e]
<1>1. /\ step[e] = "endpoints" /\ at[e] > Len(p.endpoints) /\ plan' = plan
      /\ intact' = intact /\ outcome[e] = "pending"
  BY DEF JudgeBinding, inputs, captureVars, WorkspaceInv, Placed, BeforeTree
<1>2. CASE Raise(e, "unavailable")
  BY <1>1, <1>2, FoundRefused
<1>3. CASE ~Raise(e, "unavailable")
  <2>1. ~stale[e] /\ step'[e] = "create" /\ outcome' = outcome
    BY <1>3 DEF JudgeBinding, Goto, TypeOK
  <2>2. ~\E k \in DOMAIN p.endpoints : k >= at[e]
    <3>1. p.endpoints \in Seq(Paths(p)) /\ at[e] \in Nat
      BY PlanFacts, PlanAssumption DEF Paths, TypeOK
    <3> QED
      BY <1>1, <3>1
  <2>3. intact[e] = Paths(p)
    BY <1>1, <2>1, <2>2 DEF FoundInv, Found, BeforeTree
  <2>4. Found(e)'
    BY <1>1, <2>1, <2>3 DEF Found, Paths
  <2> QED
    BY <1>1, <2>1, <2>4 DEF ReadWhole
<1> QED
  BY <1>2, <1>3

\* From the tree on nothing more is found, and a result is computed of what was.
LEMMA BuildingFinds ==
  ASSUME TypeOK, FoundInv, NEW e \in Executions,
         \/ CreateTree(e) \/ Identify(e) \/ EnterDatasets(e) \/ Write(e)
         \/ LoadManifest(e) \/ ReadTree(e)
  PROVE  Found(e)' /\ ReadWhole(e)'
<1> DEFINE Inner == {"create", "identify"} \cup Building
<1>1. plan' = plan /\ lim' = lim /\ intact' = intact
  BY DEF CreateTree, Identify, EnterDatasets, Write, LoadManifest, ReadTree, inputs, captureVars
<1>2. Found(e) /\ ReadWhole(e) /\ step[e] \in Inner
  BY DEF FoundInv, CreateTree, Identify, EnterDatasets, Write, LoadManifest, ReadTree,
     Building, NativeFiles, Roles
<1>3. CASE \E class \in {"partial", "unavailable"} : Raise(e, class)
  BY <1>1, <1>3, FoundRefused
<1>4. CASE outcome' = outcome /\ step'[e] \in Inner
  BY <1>1, <1>2, <1>4, FoundElsewhere
<1>5. CASE Raise(e, "audited")
  <2>1. step'[e] \in {"done", "unwind"}
    BY <1>5, RaisedEarned
  <2>2. intact[e] = Paths(plan[e])
    BY <1>2 DEF Found
  <2> QED
    BY <1>1, <2>1, <2>2, FoundEnds DEF Leaving
<1>6. CASE CreateTree(e) \/ Identify(e)
  <2>1. outcome' = outcome /\ step'[e] \in {"identify", "read", "spill"}
    BY <1>6 DEF CreateTree, Identify, Goto, TypeOK
  <2> QED
    BY <1>4, <2>1 DEF Building
<1>7. CASE EnterDatasets(e) \/ LoadManifest(e)
  <2>1. \/ Raise(e, "unavailable")
        \/ outcome' = outcome /\ step'[e] \in {"baseline", "read"}
    BY <1>7 DEF EnterDatasets, LoadManifest, Goto, TypeOK
  <2> QED
    BY <1>3, <1>4, <2>1 DEF Building
<1>8. CASE Write(e)
  <2>1. After(step[e]) \in {"candidate", "manifest", "load"}
    BY DEF After
  <2>2. \/ Raise(e, "partial") \/ Raise(e, "unavailable")
        \/ outcome' = outcome /\ step'[e] = After(step[e])
    BY <1>8 DEF Write, Goto, TypeOK
  <2> QED
    BY <1>3, <1>4, <2>1, <2>2 DEF Building
<1>9. CASE ReadTree(e)
  BY <1>3, <1>5, <1>9 DEF ReadTree
<1> QED
  BY <1>6, <1>7, <1>8, <1>9

LEMMA LeavingFinds ==
  ASSUME TypeOK, FoundInv, NEW e \in Executions,
         \/ CaptureRefused(e) \/ Collide(e)
         \/ Unwind(e) \/ LookUpTree(e) \/ RemoveTree(e) \/ Crash(e) \/ SystemFault(e)
  PROVE  Found(e)' /\ ReadWhole(e)'
<1>1. plan' = plan /\ intact' = intact /\ ReadWhole(e)
  BY DEF FoundInv, CaptureRefused, Collide, Unwind, LookUpTree, RemoveTree, Crash, SystemFault,
     inputs, captureVars
<1>2. CASE Raise(e, "unavailable")
  BY <1>1, <1>2, FoundRefused
<1>3. CASE ~Raise(e, "unavailable")
  <2>1. /\ step'[e] \in Leaving \cup {"done", "crashed"}
        /\ outcome'[e] \in {outcome[e], "unavailable"}
    BY <1>3 DEF CaptureRefused, Collide, Unwind, LookUpTree, RemoveTree, Crash, SystemFault,
       Goto, TypeOK, Leaving
  <2> QED
    BY <1>1, <2>1, FoundEnds DEF ReadWhole
<1> QED
  BY <1>2, <1>3

LEMMA InitFinds == Init => FoundInv
<1> SUFFICES ASSUME Init, NEW e \in Executions PROVE Found(e) /\ ReadWhole(e)
  BY DEF FoundInv
<1>1. step[e] = "start" /\ intact[e] = {} /\ outcome[e] = "pending"
  BY DEF Init, AllOf
<1> QED
  BY <1>1 DEF Found, ReadWhole, Building, NativeFiles, Roles

LEMMA NextFinds ==
  TypeOK /\ WorkspaceInv /\ EarnedInv /\ FoundInv /\ [Next]_vars => FoundInv'
<1> SUFFICES ASSUME TypeOK, WorkspaceInv, EarnedInv, FoundInv, [Next]_vars PROVE FoundInv'
  OBVIOUS
<1>1. ASSUME NEW e \in Executions, Advance(e) \/ SystemFault(e) \/ Crash(e) PROVE FoundInv'
  <2>1. Found(e)' /\ ReadWhole(e)'
    BY <1>1, ValidateFinds, CaptureFinds, RevalidateFinds, AllCapturedFinds, ScanEndpointFinds,
       JudgeFinds, BuildingFinds, LeavingFinds DEF Advance
  <2>2. plan' = plan /\ lim' = lim /\ Others(e)
    BY <1>1, OneAtATime
  <2>3. ASSUME NEW d \in Executions, d # e PROVE Found(d)' /\ ReadWhole(d)'
    BY <2>2, <2>3, FoundElsewhere DEF FoundInv, Others
  <2> QED
    BY <2>1, <2>3 DEF FoundInv
<1>2. CASE (\E a \in Artifacts : ChangeCheckout(a)) \/ (\E p \in PlanIds : ReplaceTree(p))
           \/ UNCHANGED vars
  <2>1. UNCHANGED <<plan, lim, step, at, outcome, captured, stale, intact>>
    BY <1>2 DEF ChangeCheckout, ReplaceTree, inputs, captureVars, vars
  <2> QED
    BY <2>1, FoundElsewhere DEF FoundInv
<1> QED
  BY <1>1, <1>2 DEF Next

\* A result stands for a plan in which nothing that is looked for is wrong, captured
\* whole and read whole as recorded, each streamed file and endpoint after its capture;
\* PARTIAL is never said because of a fault, a change or a collision.
THEOREM EndingsAreEarned == Spec => []OutcomesAreEarned
<1>1. EarnedInv /\ FoundInv => OutcomesAreEarned
  BY DEF EarnedInv, FoundInv, OutcomesAreEarned
<1>2. Spec => []EarnedInv
  BY WorkspaceInvariant, InitEarns, NextEarns, PTL DEF Spec
<1>3. Spec => []FoundInv
  BY <1>2, WorkspaceInvariant, InitFinds, NextFinds, PTL DEF Spec
<1> QED
  BY <1>1, <1>2, <1>3, PTL

-----------------------------------------------------------------------------------
(* Who is to blame for a tree.                                               *)

\* A spill is gone wherever an execution may have stopped.
Spilt(e) ==
  step[e] \in BeforeTree \cup {"identify", "spill", "lookup", "remove", "done"} => ~spill[e]

\* Why a tree stands.
Blamed(p) ==
  trees[p] # NoTree =>
     \/ faults > 0 \/ swaps > 0
     \/ \E e \in Executions : /\ plan[e].id = p /\ made[e] = trees[p].inode
                              /\ step[e] # "done"

LEMMA BlameIs ==
  BlameInv <=> (\A p \in PlanIds : Blamed(p)) /\ (\A e \in Executions : Spilt(e))
BY DEF BlameInv, BlockedOnlyForCause, Blamed, Spilt

\* A tree that keeps its inode keeps the one to blame, unless that one stops with it.
LEMMA KeepsBlame ==
  ASSUME WorkspaceInv', plan' = plan, made' = made, faults' = faults, swaps' = swaps,
         NEW p \in PlanIds, Blamed(p), trees'[p].inode \in {trees[p].inode, Nobody},
         \A d \in Executions : step'[d] = "done" /\ step[d] # "done" =>
             \/ made[d] \in {Nobody} \/ made[d] # trees[p].inode \/ trees'[p] = NoTree
  PROVE  Blamed(p)'
<1>1. trees'[p] = NoTree \/ trees'[p].inode # Nobody
  BY DEF WorkspaceInv, InodeInv
<1>2. CASE trees'[p] # NoTree
  <2>1. trees[p].inode = trees'[p].inode /\ trees[p].inode # Nobody
    BY <1>1, <1>2
  <2>2. trees[p] # NoTree
    BY <2>1 DEF NoTree
  <2> QED
    BY <1>2, <2>1, <2>2 DEF Blamed
<1>3. CASE trees'[p] = NoTree
  BY <1>3 DEF Blamed, NoTree
<1> QED
  BY <1>2, <1>3

\* Steps that make no tree, fail at nothing and do not stop a holder.
LEMMA BlameStays ==
  ASSUME TypeOK, WorkspaceInv, WorkspaceInv', BlameInv, NEW e \in Executions,
         plan' = plan, made' = made, faults' = faults, swaps' = swaps,
         \A p \in PlanIds : trees'[p].inode \in {trees[p].inode, Nobody},
         \A d \in Executions \ {e} : step'[d] = step[d] /\ spill'[d] = spill[d],
         \/ step'[e] # "done"
         \/ made[e] = Nobody
         \/ Home(e).inode # made[e]
         \/ trees'[plan[e].id] = NoTree,
         Spilt(e)'
  PROVE  BlameInv'
<1>1. ASSUME NEW p \in PlanIds PROVE Blamed(p)'
  <2>1. Blamed(p)
    BY BlameIs
  <2>2. made[e] # Nobody /\ made[e] = trees[p].inode => p = plan[e].id
    BY DEF WorkspaceInv, InodeInv
  <2>3. ASSUME NEW d \in Executions, step'[d] = "done", step[d] # "done"
        PROVE  made[d] \in {Nobody} \/ made[d] # trees[p].inode \/ trees'[p] = NoTree
    BY <2>2, <2>3 DEF Home
  <2> QED
    BY <2>1, <2>3, KeepsBlame
<1>2. ASSUME NEW d \in Executions PROVE Spilt(d)'
  <2>1. Spilt(d)
    BY BlameIs
  <2>2. CASE d # e
    BY <2>1, <2>2 DEF Spilt
  <2> QED
    BY <2>2
<1> QED
  BY <1>1, <1>2 DEF BlameInv, BlockedOnlyForCause, Blamed, Spilt

LEMMA CheckingBlames ==
  ASSUME TypeOK, WorkspaceInv, WorkspaceInv', BlameInv, NEW e \in Executions,
         \/ Validate(e) \/ Capture(e) \/ CaptureRefused(e) \/ Revalidate(e)
         \/ AllCaptured(e) \/ ScanEndpoint(e) \/ JudgeBinding(e) \/ Collide(e)
  PROVE  BlameInv'
<1>1. /\ UNCHANGED <<plan, trees, made, faults, swaps, spill>> /\ step[e] \in BeforeTree
  BY DEF Validate, Capture, CaptureRefused, Revalidate, AllCaptured, ScanEndpoint,
     JudgeBinding, Collide, inputs, world, treeVars, BeforeTree
<1>2. made[e] = Nobody /\ Spilt(e)
  BY <1>1, BlameIs DEF WorkspaceInv, Placed
<1>3. ~spill[e]
  BY <1>1, <1>2 DEF Spilt
<1>4. \A d \in Executions \ {e} : step'[d] = step[d]
  BY OneAtATime DEF Others, Advance
<1> QED
  BY <1>1, <1>2, <1>3, <1>4, BlameStays DEF Spilt

LEMMA CreateBlames ==
  ASSUME TypeOK, WorkspaceInv, WorkspaceInv', BlameInv, NEW e \in Executions, CreateTree(e)
  PROVE  BlameInv'
<1> DEFINE q == plan[e].id
           n == inodes + 1
<1>1. /\ UNCHANGED <<plan, faults, swaps, spill>> /\ step[e] = "create"
      /\ made' = [made EXCEPT ![e] = n] /\ q \in PlanIds
      /\ trees' = [trees EXCEPT ![q] = [inode |-> n, files |-> {}]]
      /\ step' = [step EXCEPT ![e] = "identify"]
  BY PlanFacts DEF CreateTree, Goto, inputs
<1> HIDE DEF n
<1>2. made[e] = Nobody /\ Spilt(e)
  BY <1>1, BlameIs DEF WorkspaceInv, Placed, BeforeTree
<1>3. ASSUME NEW p \in PlanIds PROVE Blamed(p)'
  <2>1. CASE p = q
    <3>1. trees'[p].inode = n /\ made'[e] = n /\ step'[e] = "identify"
      BY <1>1, <2>1 DEF TypeOK
    <3> QED
      BY <1>1, <2>1, <3>1 DEF Blamed
  <2>2. CASE p # q
    <3>1. trees'[p] = trees[p] /\ Blamed(p)
      BY <1>1, <2>2, BlameIs DEF TypeOK
    <3>2. trees[p] # NoTree => trees[p].inode # Nobody
      BY DEF WorkspaceInv, InodeInv
    <3>3. \A d \in Executions \ {e} : made'[d] = made[d] /\ step'[d] = step[d]
      BY <1>1 DEF TypeOK
    <3> QED
      BY <1>1, <1>2, <3>1, <3>2, <3>3 DEF Blamed
  <2> QED
    BY <2>1, <2>2
<1>4. ASSUME NEW d \in Executions PROVE Spilt(d)'
  <2>1. Spilt(d) /\ spill' = spill
    BY <1>1, BlameIs
  <2>2. step'[d] = IF d = e THEN "identify" ELSE step[d]
    BY <1>1 DEF TypeOK
  <2> QED
    BY <1>1, <2>1, <2>2 DEF Spilt, BeforeTree
<1> QED
  BY <1>3, <1>4 DEF BlameInv, BlockedOnlyForCause, Blamed, Spilt

\* Between mkdir and the cleanup nothing stops at once.
LEMMA BuildingBlames ==
  ASSUME TypeOK, WorkspaceInv, WorkspaceInv', BlameInv, NEW e \in Executions,
         \/ Identify(e) \/ EnterDatasets(e) \/ Write(e) \/ LoadManifest(e) \/ ReadTree(e)
         \/ Unwind(e)
  PROVE  BlameInv'
<1>1. /\ UNCHANGED <<plan, made, faults, swaps>>
      /\ \A p \in PlanIds : trees'[p].inode = trees[p].inode
      /\ \A d \in Executions \ {e} : spill'[d] = spill[d]
  <2>1. CASE Write(e)
    <3>1. UNCHANGED <<plan, made, faults, swaps, spill>>
      BY <2>1 DEF Write, inputs, world
    <3>2. CASE UNCHANGED trees
      BY <3>1, <3>2
    <3>3. CASE trees' = [trees EXCEPT ![plan[e].id].files = @ \cup {<<step[e], e>>}]
      <4>1. step[e] \in Inside
        BY <2>1 DEF Write, Inside, Building, NativeFiles, Roles
      <4>2. \E fs : trees' = [trees EXCEPT ![plan[e].id].files = fs]
        BY <3>3
      <4> QED
        BY <3>1, <4>1, <4>2, FilesKeepInode
    <3> QED
      BY <2>1, <3>2, <3>3 DEF Write
  <2>2. CASE Identify(e) \/ LoadManifest(e) \/ ReadTree(e)
    BY <2>2 DEF Identify, LoadManifest, ReadTree, inputs, world, treeVars
  <2>3. CASE EnterDatasets(e)
    BY <2>3 DEF EnterDatasets, inputs, world, TypeOK
  <2>4. CASE Unwind(e)
    BY <2>4 DEF Unwind, inputs, world, TypeOK
  <2> QED
    BY <2>1, <2>2, <2>3, <2>4
<1>2. \A p \in PlanIds : trees'[p].inode \in {trees[p].inode, Nobody}
  BY <1>1
<1>3. \A d \in Executions \ {e} : step'[d] = step[d] /\ spill'[d] = spill[d]
  BY <1>1, OneAtATime DEF Others, Advance
<1>4. step'[e] # "done" /\ Spilt(e)'
  <2>1. Spilt(e) /\ Placed(e)
    BY BlameIs DEF WorkspaceInv
  <2>2. step[e] \in Building => mine[e] # Nobody
    BY <2>1 DEF Placed, Inside
  <2>3. CASE Identify(e)
    <3>1. step'[e] \in {"read", "spill"} /\ spill' = spill /\ step[e] = "identify"
      BY <2>3 DEF Identify, Goto, TypeOK
    <3> QED
      BY <2>1, <3>1 DEF Spilt, BeforeTree
  <2>4. CASE EnterDatasets(e)
    <3>1. step[e] = "spill" /\ step'[e] \in {"unwind", "baseline"}
      BY <2>2, <2>4 DEF EnterDatasets, Raise, Goto, TypeOK, Building
    <3> QED
      BY <3>1 DEF Spilt, BeforeTree
  <2>5. CASE Write(e)
    <3>1. step[e] \in Building
      BY <2>5 DEF Write, Building, NativeFiles, Roles
    <3>2. step'[e] \in {"unwind", "candidate", "manifest", "load"}
      BY <2>2, <2>5, <3>1 DEF Write, Raise, Goto, After, TypeOK
    <3> QED
      BY <3>2 DEF Spilt, BeforeTree
  <2>6. CASE LoadManifest(e) \/ ReadTree(e)
    <3>1. step[e] \in Building
      BY <2>6 DEF LoadManifest, ReadTree, Building
    <3>2. step'[e] \in {"unwind", "read"}
      BY <2>2, <2>6, <3>1 DEF LoadManifest, ReadTree, Raise, Goto, TypeOK
    <3> QED
      BY <3>2 DEF Spilt, BeforeTree
  <2>7. CASE Unwind(e)
    <3>1. step'[e] = "lookup" /\ ~spill'[e]
      BY <2>7 DEF Unwind, Goto, TypeOK
    <3> QED
      BY <3>1 DEF Spilt
  <2> QED
    BY <2>3, <2>4, <2>5, <2>6, <2>7
<1> QED
  BY <1>1, <1>2, <1>3, <1>4, BlameStays

LEMMA CleanupBlames ==
  ASSUME TypeOK, WorkspaceInv, WorkspaceInv', BlameInv, NEW e \in Executions,
         LookUpTree(e) \/ RemoveTree(e)
  PROVE  BlameInv'
<1>1. /\ UNCHANGED <<plan, made, faults, swaps, spill>> /\ plan[e].id \in PlanIds
      /\ step[e] \in {"lookup", "remove"} /\ step'[e] \in {"remove", "done"}
  BY PlanFacts DEF LookUpTree, RemoveTree, inputs, world, treeVars, Goto, TypeOK
<1>2. ~spill[e] /\ mine[e] = made[e]
  BY <1>1, BlameIs DEF Spilt, WorkspaceInv, Placed, Inside, Leaving
<1>3. \A d \in Executions \ {e} : step'[d] = step[d]
  BY OneAtATime DEF Others, Advance
<1>4. \A p \in PlanIds : trees'[p].inode \in {trees[p].inode, Nobody}
  <2>1. CASE LookUpTree(e)
    BY <2>1 DEF LookUpTree, treeVars
  <2>2. CASE RemoveTree(e)
    BY <1>1, <2>2 DEF RemoveTree, NoTree, TypeOK
  <2> QED
    BY <2>1, <2>2
<1>5. step'[e] # "done" \/ Home(e).inode # made[e] \/ trees'[plan[e].id] = NoTree
  <2>1. CASE LookUpTree(e)
    BY <1>2, <2>1 DEF LookUpTree, Goto, TypeOK
  <2>2. CASE RemoveTree(e)
    BY <1>1, <2>2 DEF RemoveTree, TypeOK
  <2> QED
    BY <2>1, <2>2
<1>6. Spilt(e)'
  BY <1>1, <1>2 DEF Spilt
<1> QED
  BY <1>1, <1>3, <1>4, <1>5, <1>6, BlameStays

LEMMA CrashBlames ==
  ASSUME TypeOK, WorkspaceInv, WorkspaceInv', BlameInv, NEW e \in Executions, Crash(e)
  PROVE  BlameInv'
<1>1. /\ UNCHANGED <<plan, trees, made, faults, swaps, spill>> /\ step'[e] = "crashed"
      /\ \A d \in Executions \ {e} : step'[d] = step[d]
  BY DEF Crash, inputs, treeVars, Goto, TypeOK
<1>2. Spilt(e)'
  BY <1>1 DEF Spilt, BeforeTree
<1> QED
  BY <1>1, <1>2, BlameStays

\* A failing call is to blame for whatever stands; the way out still closes the spill.
LEMMA FaultBlames ==
  ASSUME TypeOK, WorkspaceInv, BlameInv, NEW e \in Executions, SystemFault(e)
  PROVE  BlameInv'
<1>1. faults' > 0 /\ spill' = spill
  BY DEF SystemFault, TypeOK
<1>2. \A d \in Executions \ {e} : step'[d] = step[d]
  BY OneAtATime DEF Others
<1>3. Placed(e) /\ Spilt(e) /\ step[e] \in CallingSystem
  BY BlameIs DEF WorkspaceInv, SystemFault
<1>4. \/ step[e] \in {"lookup", "remove"} /\ step'[e] = "done"
      \/ step[e] \in BeforeTree \cup {"identify"} /\ step'[e] = "done"
      \/ step'[e] = "unwind"
  <2>1. CASE step[e] \in {"lookup", "remove"}
    BY <2>1 DEF SystemFault, Goto, TypeOK
  <2>2. CASE step[e] \notin {"lookup", "remove"}
    <3>1. step'[e] = IF mine[e] = Nobody THEN "done" ELSE "unwind"
      BY <2>2 DEF SystemFault, Raise, Goto, TypeOK
    <3>2. step[e] \in Building \/ step[e] \in BeforeTree \cup {"identify"}
      BY <1>3, <2>2 DEF CallingSystem, Steps, Building, BeforeTree, NativeFiles, Roles
    <3>3. step[e] \in Building => mine[e] # Nobody
      BY <1>3 DEF Placed, Inside
    <3> QED
      BY <3>1, <3>2, <3>3
  <2> QED
    BY <2>1, <2>2
<1>5. Spilt(e)'
  BY <1>1, <1>3, <1>4 DEF Spilt, BeforeTree
<1>6. \A d \in Executions : Spilt(d)'
  <2>1. ASSUME NEW d \in Executions, d # e PROVE Spilt(d)'
    BY <1>1, <1>2, <2>1, BlameIs DEF Spilt
  <2> QED
    BY <1>5, <2>1
<1>7. \A p \in PlanIds : Blamed(p)'
  BY <1>1 DEF Blamed
<1> QED
  BY <1>6, <1>7 DEF BlameInv, BlockedOnlyForCause, Blamed, Spilt

LEMMA WorldBlames ==
  ASSUME TypeOK, BlameInv,
         \/ \E a \in Artifacts : ChangeCheckout(a)
         \/ \E p \in PlanIds : ReplaceTree(p)
         \/ UNCHANGED vars
  PROVE  BlameInv'
<1>1. CASE \E p \in PlanIds : ReplaceTree(p)
  <2>1. swaps' > 0 /\ UNCHANGED <<step, spill>>
    BY <1>1 DEF ReplaceTree, TypeOK
  <2> QED
    BY <2>1 DEF BlameInv, BlockedOnlyForCause
<1>2. CASE (\E a \in Artifacts : ChangeCheckout(a)) \/ UNCHANGED vars
  <2>1. UNCHANGED <<plan, trees, faults, swaps, made, step, spill>>
    BY <1>2 DEF ChangeCheckout, inputs, treeVars, vars, world
  <2> QED
    BY <2>1 DEF BlameInv, BlockedOnlyForCause
<1> QED
  BY <1>1, <1>2

LEMMA InitBlames == Init => BlameInv
BY DEF Init, AllOf, BlameInv, BlockedOnlyForCause

LEMMA NextBlames ==
  TypeOK /\ WorkspaceInv /\ WorkspaceInv' /\ BlameInv /\ [Next]_vars => BlameInv'
<1> SUFFICES ASSUME TypeOK, WorkspaceInv, WorkspaceInv', BlameInv, [Next]_vars
             PROVE  BlameInv'
  OBVIOUS
<1>1. ASSUME NEW e \in Executions, Advance(e) PROVE BlameInv'
  BY <1>1, CheckingBlames, CreateBlames, BuildingBlames, CleanupBlames DEF Advance
<1> QED
  BY <1>1, FaultBlames, CrashBlames, WorldBlames DEF Next

\* A scratch directory stands in the way of later executions only while its maker
\* runs, or after a kill, a failed call or a replacement; no ended execution leaves a spill.
THEOREM NothingIsLeftBehind == Spec => []BlockedOnlyForCause
<1>1. BlameInv => BlockedOnlyForCause
  BY DEF BlameInv
<1>2. Spec => []BlameInv
  BY WorkspaceInvariant, InitBlames, NextBlames, PTL DEF Spec
<1> QED
  BY <1>1, <1>2, PTL

-----------------------------------------------------------------------------------
(* The outcome of an undisturbed execution.                                  *)

LEMMA OwnBytes ==
  ASSUME NEW a \in Artifacts
  PROVE  IsFiniteSet({a} \X (1..Size[a])) /\ Cardinality({a} \X (1..Size[a])) = Size[a]
<1>1. Size[a] \in Nat
  BY PlanAssumption
<1>2. IsFiniteSet(1..Size[a]) /\ Cardinality(1..Size[a]) = Size[a]
  BY <1>1, FS_Interval
<1>3. IsFiniteSet({a}) /\ Cardinality({a}) = 1
  BY FS_Singleton
<1>4. /\ IsFiniteSet({a} \X (1..Size[a]))
      /\ Cardinality({a} \X (1..Size[a])) = Cardinality({a}) * Cardinality(1..Size[a])
  BY <1>2, <1>3, FS_Product
<1> QED
  BY <1>1, <1>2, <1>3, <1>4

LEMMA BytesFinite ==
  ASSUME NEW S \in SUBSET Artifacts, IsFiniteSet(S)
  PROVE  IsFiniteSet(BytesOf(S)) /\ SumOfSizes(S) \in Nat
<1> DEFINE own(a) == {a} \X (1..Size[a])
           Parts == {own(a) : a \in S}
           f == [a \in S |-> own(a)]
<1>1. f \in Surjection(S, Parts)
  BY DEF Surjection
<1>2. IsFiniteSet(Parts)
  <2> HIDE DEF f, Parts
  <2> QED
    BY <1>1, FS_Surjection
<1>3. \A T \in Parts : IsFiniteSet(T)
  BY OwnBytes
<1>4. IsFiniteSet(UNION Parts)
  <2> HIDE DEF Parts
  <2> QED
    BY <1>2, <1>3, FS_UNION
<1>5. IsFiniteSet(BytesOf(S))
  BY <1>4 DEF BytesOf
<1> QED
  BY <1>5, FS_CardinalityType DEF SumOfSizes

\* One artifact more adds its size.
LEMMA SumAdds ==
  ASSUME NEW S \in SUBSET Artifacts, IsFiniteSet(S), NEW a \in Artifacts, a \notin S
  PROVE  SumOfSizes(S \cup {a}) = SumOfSizes(S) + Size[a]
<1> DEFINE A == {a} \X (1..Size[a])
           B == BytesOf(S)
<1>1. IsFiniteSet(A) /\ Cardinality(A) = Size[a]
  BY OwnBytes
<1>2. IsFiniteSet(B) /\ Cardinality(B) \in Nat
  BY BytesFinite DEF SumOfSizes
<1>3. BytesOf(S \cup {a}) = B \cup A
  BY DEF BytesOf
<1>4. B \cap A = {}
  BY DEF BytesOf
<1>5. Cardinality({}) = 0
  BY FS_EmptySet
<1>6. Size[a] \in Nat
  BY PlanAssumption
<1> HIDE DEF A, B
<1>7. Cardinality(B \cup A) = Cardinality(B) + Cardinality(A) - Cardinality(B \cap A)
  BY <1>1, <1>2, FS_Union
<1>8. Cardinality(B \cup A) = Cardinality(B) + Size[a]
  <2>1. Cardinality(B \cap A) = 0
    BY <1>4, <1>5
  <2> QED
    BY <1>1, <1>2, <1>6, <1>7, <2>1
<1> QED
  BY <1>3, <1>8 DEF SumOfSizes, B

\* More artifacts are not fewer bytes.
LEMMA SumGrows ==
  ASSUME NEW T \in SUBSET Artifacts, IsFiniteSet(T), NEW S \in SUBSET T
  PROVE  SumOfSizes(S) <= SumOfSizes(T)
<1>1. IsFiniteSet(BytesOf(T))
  BY BytesFinite
<1>2. BytesOf(S) \subseteq BytesOf(T)
  BY DEF BytesOf
<1> QED
  BY <1>1, <1>2, FS_Subset DEF SumOfSizes

LEMMA PathsFinite ==
  ASSUME NEW p, p.bindings \in Seq(Bindings)
  PROVE  Paths(p) \in SUBSET Artifacts /\ IsFiniteSet(Paths(p))
<1> DEFINE n == Len(p.bindings)
           f == [i \in 1..n |-> p.bindings[i].path]
<1>1. n \in Nat /\ DOMAIN p.bindings = 1..n
  OBVIOUS
<1>2. Paths(p) \in SUBSET Artifacts
  <2>1. \A i \in DOMAIN p.bindings : p.bindings[i] \in Bindings
    BY <1>1
  <2>2. \A b \in Bindings : b.path \in Artifacts
    BY DEF Bindings
  <2> QED
    BY <2>1, <2>2 DEF Paths
<1>3. f \in Surjection(1..n, Paths(p))
  BY <1>1 DEF Surjection, Paths
<1>4. IsFiniteSet(1..n)
  BY <1>1, FS_Interval
<1> HIDE DEF f, n
<1> QED
  BY <1>2, <1>3, <1>4, FS_Surjection

LEMMA SumOfNone == SumOfSizes({}) = 0
<1>1. BytesOf({}) = {}
  BY DEF BytesOf
<1> QED
  BY <1>1, FS_EmptySet DEF SumOfSizes

Calm(e) == Undisturbed(e) /\ Flawless(plan[e])

\* What Smooth looks at, for an execution that does nothing.
LEMMA SmoothBystander ==
  ASSUME NEW d \in Executions, Smooth(d),
         plan'[d] = plan[d], lim' = lim, step'[d] = step[d], at'[d] = at[d],
         outcome'[d] = outcome[d], captured'[d] = captured[d],
         passive'[d] = passive[d], integrity'[d] = integrity[d], stale'[d] = stale[d]
  PROVE  Smooth(d)'
<1>1. Fits(plan[d])' = Fits(plan[d])
  BY DEF Fits, WithinBudgets, Unclashing, WithinFileBounds, Streamed
<1>2. Counted(d) => Counted(d)'
  BY DEF Counted, WithinFileBounds, Streamed
<1> QED
  BY <1>1, <1>2 DEF Smooth

\* In a checkout nobody changes, the tree in the way is the execution's own.
LEMMA OwnTree ==
  ASSUME TypeOK, WorkspaceInv, BlameInv, NEW e \in Executions, Undisturbed(e)
  PROVE  /\ step[e] \in BeforeTree => Home(e) = NoTree
         /\ step[e] \in Inside => Home(e).inode = made[e]
<1> DEFINE p == plan[e].id
<1>1. p \in PlanIds
  BY PlanFacts
<1>2. trees[p] # NoTree => \E d \in Executions : plan[d].id = p /\ made[d] = trees[p].inode
  BY <1>1 DEF BlameInv, BlockedOnlyForCause, Undisturbed
<1>3. trees[p] # NoTree => made[e] = trees[p].inode
  BY <1>2 DEF Undisturbed
<1>4. Placed(e) /\ Excluding(e)
  BY DEF WorkspaceInv
<1>5. trees[p].inode = Nobody => trees[p] = NoTree
  BY <1>1 DEF WorkspaceInv, InodeInv
<1>6. ASSUME step[e] \in BeforeTree PROVE Home(e) = NoTree
  BY <1>3, <1>4, <1>5, <1>6 DEF Placed, Home
<1>7. ASSUME step[e] \in Inside, Home(e).inode # made[e] PROVE FALSE
  <2>1. Foreign(p)
    BY <1>4, <1>7 DEF Excluding
  <2>2. trees[p] # NoTree
    BY <2>1 DEF Foreign, NoTree
  <2> QED
    BY <1>3, <2>1, <2>2 DEF Foreign
<1> QED
  BY <1>6, <1>7

\* What a flawless plan has passed and what it cannot fail.
LEMMA NoFlaw ==
  ASSUME TypeOK, NEW e \in Executions, Flawless(plan[e])
  PROVE  /\ FailedEntryChecks(plan[e]) = {} /\ plan[e].defects = {}
         /\ at[e] <= Len(plan[e].bindings) => Current(e).defect = "none"
<1>1. plan[e].bindings \in Seq(Bindings) /\ at[e] \in Nat \ {0}
  BY PlanFacts DEF TypeOK
<1> QED
  BY <1>1 DEF Flawless, FailedEntryChecks, Current

\* A refusal before the tree exists is no surprise when the plan does not fit.
LEMMA RefusedOutside ==
  ASSUME TypeOK, WorkspaceInv, NEW e \in Executions, step[e] \in BeforeTree,
         ~Fits(plan[e]), plan' = plan, lim' = lim, Raise(e, "unavailable")
  PROVE  Smooth(e)'
<1>1. mine[e] = Nobody
  BY DEF WorkspaceInv, Placed
<1>2. step'[e] = "done" /\ outcome'[e] = "unavailable"
  BY <1>1 DEF Raise, Goto, TypeOK
<1>3. ~Fits(plan[e])'
  BY DEF Fits, WithinBudgets, Unclashing, WithinFileBounds, Streamed
<1> QED
  BY <1>2, <1>3 DEF Smooth, BeforeTree, Inside, Building, Leaving, NativeFiles, Roles

\* An artifact is only refused if the plan's artifacts exceed the budgets.
LEMMA RefusedForCause ==
  ASSUME TypeOK, EarnedInv, NEW e \in Executions, step[e] = "capture",
         at[e] <= Len(plan[e].bindings), Counted(e), \A a \in Artifacts : files[a],
         \/ Conflict(e)
         \/ /\ Current(e).path \notin captured[e]
            /\ ~(WithinFileBounds(Current(e).path) /\ WithinTotals(e, Current(e).path)
                 /\ Readable(Current(e).path))
  PROVE  ~Fits(plan[e])
<1> DEFINE p == plan[e]
           a == Current(e).path
           C == captured[e]
           small(S) == {x \in S : ~Streamed(x)}
<1>1. p.bindings \in Seq(Bindings) /\ at[e] \in DOMAIN p.bindings /\ a \in Artifacts
      /\ Size[a] \in Nat
  <2>1. p.bindings \in Seq(Bindings) /\ at[e] \in Nat \ {0}
    BY PlanFacts DEF TypeOK
  <2>2. at[e] \in DOMAIN p.bindings
    BY <2>1
  <2>3. a \in Artifacts /\ Size[a] \in Nat
    BY BindingFacts
  <2> QED
    BY <2>1, <2>2, <2>3
<1>2. CASE Conflict(e)
  <2>1. PICK i \in 1..(at[e] - 1) : /\ p.bindings[i].path = Current(e).path
                                    /\ p.bindings[i].candidate # Current(e).candidate
    BY <1>2 DEF Conflict
  <2>2. i \in DOMAIN p.bindings
    BY <1>1, <2>1
  <2>3. ~Unclashing(p)
    BY <1>1, <2>1, <2>2 DEF Unclashing, Current
  <2> QED
    BY <2>3 DEF Fits
<1>3. CASE a \notin C /\ ~(WithinFileBounds(a) /\ WithinTotals(e, a) /\ Readable(a))
  <2>1. Paths(p) \in SUBSET Artifacts /\ IsFiniteSet(Paths(p))
    BY <1>1, PathsFinite
  <2>2. C \cup {a} \in SUBSET Paths(p)
    <3>1. a \in Paths(p)
      BY <1>1 DEF Paths, Current
    <3>2. C \subseteq Paths(p)
      BY DEF EarnedInv, Passed
    <3> QED
      BY <3>1, <3>2
  <2>3. IsFiniteSet(C) /\ C \in SUBSET Artifacts
    BY <2>1, <2>2, FS_Subset
  <2>4. Readable(a)
    BY <1>1 DEF Readable
  <2>5. CASE ~WithinFileBounds(a)
    BY <2>2, <2>5 DEF Fits, WithinBudgets
  <2>6. CASE ~(integrity[e] + Size[a] <= lim.streamTotal)
    <3>1. SumOfSizes(C \cup {a}) = SumOfSizes(C) + Size[a]
      BY <1>1, <1>3, <2>3, SumAdds
    <3>2. SumOfSizes(C \cup {a}) <= SumOfSizes(Paths(p))
      BY <2>1, <2>2, SumGrows
    <3>3. integrity[e] = SumOfSizes(C)
      BY DEF Counted
    <3>4. SumOfSizes(C) \in Nat /\ SumOfSizes(Paths(p)) \in Nat
      BY <2>1, <2>3, BytesFinite
    <3>5. lim.streamTotal \in Nat
      BY PlanAssumption DEF TypeOK
    <3>6. ~(SumOfSizes(Paths(p)) <= lim.streamTotal)
      BY <1>1, <2>6, <3>1, <3>2, <3>3, <3>4, <3>5
    <3> QED
      BY <3>6 DEF Fits, WithinBudgets
  <2>7. CASE ~Streamed(a) /\ ~(passive[e] + Size[a] <= lim.total)
    <3>1. small(C \cup {a}) = small(C) \cup {a} /\ a \notin small(C)
      BY <1>3, <2>7
    <3>2. /\ small(C) \in SUBSET Artifacts /\ IsFiniteSet(small(C))
          /\ small(Paths(p)) \in SUBSET Artifacts /\ IsFiniteSet(small(Paths(p)))
          /\ small(C) \cup {a} \in SUBSET small(Paths(p))
      <4>1. small(C) \in SUBSET C /\ small(Paths(p)) \in SUBSET Paths(p)
        OBVIOUS
      <4>2. small(C) \cup {a} \in SUBSET small(Paths(p))
        BY <2>2, <2>7
      <4> HIDE DEF small
      <4> QED
        BY <2>1, <2>3, <4>1, <4>2, FS_Subset
    <3>3. passive[e] = SumOfSizes(small(C))
      BY DEF Counted
    <3>4. lim.total \in Nat
      BY PlanAssumption DEF TypeOK
    <3> HIDE DEF small
    <3>5. SumOfSizes(small(C) \cup {a}) = SumOfSizes(small(C)) + Size[a]
      BY <1>1, <3>1, <3>2, SumAdds
    <3>6. SumOfSizes(small(C) \cup {a}) <= SumOfSizes(small(Paths(p)))
      BY <3>2, SumGrows
    <3>7. SumOfSizes(small(C)) \in Nat /\ SumOfSizes(small(Paths(p))) \in Nat
      BY <3>2, BytesFinite
    <3>8. ~(SumOfSizes(small(Paths(p))) <= lim.total)
      BY <1>1, <2>7, <3>3, <3>4, <3>5, <3>6, <3>7
    <3> QED
      BY <3>8 DEF Fits, WithinBudgets, small
  <2> QED
    BY <1>3, <2>4, <2>5, <2>6, <2>7 DEF WithinTotals
<1> QED
  BY <1>2, <1>3

\* An artifact more is counted once, a file bound again not at all.
LEMMA CaptureSmooth ==
  ASSUME TypeOK, EarnedInv, NEW e \in Executions, Smooth(e), Capture(e)
  PROVE  Smooth(e)'
<1> DEFINE p == plan[e]
           a == Current(e).path
           C == captured[e]
           small(S) == {x \in S : ~Streamed(x)}
           taken == {i \in DOMAIN p.bindings :
                       i < at[e] \/ (i = at[e] /\ step[e] = "revalidate")}
<1>1. /\ step[e] = "capture" /\ at[e] <= Len(p.bindings) /\ ~Conflict(e)
      /\ plan' = plan /\ lim' = lim /\ at' = at /\ stale' = stale
      /\ step'[e] = "revalidate"
  BY DEF Capture, Goto, TypeOK, inputs
<1>2. Counted(e) /\ ~stale[e]
  BY <1>1 DEF Smooth, BeforeTree
<1>3. /\ p.bindings \in Seq(Bindings) /\ at[e] \in Nat \ {0}
      /\ at[e] \in DOMAIN p.bindings
  <2>1. p.bindings \in Seq(Bindings) /\ at[e] \in Nat \ {0}
    BY PlanFacts DEF TypeOK
  <2> QED
    BY <1>1, <2>1
<1>4. a \in Artifacts /\ Size[a] \in Nat
  BY <1>1, BindingFacts
<1>5. C \in SUBSET Artifacts /\ IsFiniteSet(C)
  <2>1. Paths(p) \in SUBSET Artifacts /\ IsFiniteSet(Paths(p))
    BY <1>3, PathsFinite
  <2>2. C \in SUBSET Paths(p)
    BY <1>1 DEF EarnedInv, Passed
  <2> QED
    BY <2>1, <2>2, FS_Subset
<1>6. \A x : Streamed(x)' = Streamed(x)
  BY <1>1 DEF Streamed
<1>7. \A x : WithinFileBounds(x)' = WithinFileBounds(x)
  BY <1>1 DEF WithinFileBounds, Streamed
<1>8. \A i, j \in taken \cup {at[e]} :
        p.bindings[i].path = p.bindings[j].path =>
          p.bindings[i].candidate = p.bindings[j].candidate
  <2>1. \A i, j \in taken :
          p.bindings[i].path = p.bindings[j].path =>
          p.bindings[i].candidate = p.bindings[j].candidate
    BY <1>2 DEF Counted
  <2>2. taken \subseteq 1..(at[e] - 1)
    BY <1>1, <1>3
  <2>3. \A i \in taken : p.bindings[i].path = p.bindings[at[e]].path =>
                           p.bindings[i].candidate = p.bindings[at[e]].candidate
    BY <1>1, <2>2 DEF Conflict, Current
  <2> QED
    BY <2>1, <2>3
<1>9. {i \in DOMAIN p.bindings : i < at[e] \/ (i = at[e] /\ step'[e] = "revalidate")}
        = taken \cup {at[e]}
  BY <1>1, <1>3
<1>10. CASE a \in C
  <2>1. captured' = captured /\ passive' = passive /\ integrity' = integrity
    BY <1>10 DEF Capture
  <2>2. integrity'[e] = SumOfSizes(captured'[e])
    BY <1>2, <2>1 DEF Counted
  <2>3. {x \in captured'[e] : ~Streamed(x)'} = small(captured[e])
    BY <1>6, <2>1
  <2>4. passive'[e] = SumOfSizes({x \in captured'[e] : ~Streamed(x)'})
    BY <1>2, <2>1, <2>3 DEF Counted
  <2>6. \A x \in captured'[e] : WithinFileBounds(x)'
    BY <1>2, <1>7, <2>1 DEF Counted
  <2>5. Counted(e)'
    BY <1>1, <1>8, <1>9, <2>2, <2>4, <2>6 DEF Counted
  <2> QED
    BY <1>1, <1>2, <2>5 DEF Smooth, BeforeTree, Inside, Building, Leaving, NativeFiles, Roles
<1>11. CASE a \notin C
  <2>1. /\ WithinFileBounds(a)
        /\ captured'[e] = C \cup {a} /\ integrity'[e] = integrity[e] + Size[a]
        /\ passive'[e] = passive[e] + (IF Streamed(a) THEN 0 ELSE Size[a])
    BY <1>11 DEF Capture, TypeOK
  <2>2. SumOfSizes(C \cup {a}) = SumOfSizes(C) + Size[a]
    BY <1>4, <1>5, <1>11, SumAdds
  <2>3. SumOfSizes(small(C \cup {a})) =
          SumOfSizes(small(C)) + (IF Streamed(a) THEN 0 ELSE Size[a])
    <3>1. CASE Streamed(a)
      <4>1. small(C \cup {a}) = small(C)
        BY <3>1
      <4>2. SumOfSizes(small(C)) \in Nat
        <5>1. small(C) \in SUBSET C
          OBVIOUS
        <5> HIDE DEF small
        <5> QED
          BY <1>5, <5>1, FS_Subset, BytesFinite
      <4> HIDE DEF small
      <4> QED
        BY <3>1, <4>1, <4>2
    <3>2. CASE ~Streamed(a)
      <4>1. small(C \cup {a}) = small(C) \cup {a} /\ a \notin small(C)
        BY <1>11, <3>2
      <4>2. small(C) \in SUBSET C
        OBVIOUS
      <4> HIDE DEF small
      <4>3. small(C) \in SUBSET Artifacts /\ IsFiniteSet(small(C))
        BY <1>5, <4>2, FS_Subset
      <4> QED
        BY <1>4, <3>2, <4>1, <4>3, SumAdds
    <3> QED
      BY <3>1, <3>2
  <2>4. integrity[e] = SumOfSizes(C) /\ passive[e] = SumOfSizes(small(C))
        /\ \A x \in C : WithinFileBounds(x)
    BY <1>2 DEF Counted
  <2>5. integrity'[e] = SumOfSizes(captured'[e])
    BY <2>1, <2>2, <2>4
  <2>6. {x \in captured'[e] : ~Streamed(x)'} = small(C \cup {a})
    BY <1>6, <2>1
  <2>7. passive'[e] = SumOfSizes({x \in captured'[e] : ~Streamed(x)'})
    BY <2>1, <2>3, <2>4, <2>6
  <2>8. \A x \in captured'[e] : WithinFileBounds(x)'
    BY <1>7, <2>1, <2>4
  <2>9. Counted(e)'
    BY <1>1, <1>8, <1>9, <2>5, <2>7, <2>8 DEF Counted
  <2> QED
    BY <1>1, <1>2, <2>9 DEF Smooth, BeforeTree, Inside, Building, Leaving, NativeFiles, Roles
<1> QED
  BY <1>10, <1>11

LEMMA FitsAsBefore ==
  ASSUME NEW e \in Executions, plan' = plan, lim' = lim
  PROVE  Fits(plan[e])' = Fits(plan[e])
BY DEF Fits, WithinBudgets, Unclashing, WithinFileBounds, Streamed

LEMMA CountedAsBefore ==
  ASSUME NEW e \in Executions, Counted(e), plan' = plan, lim' = lim,
         captured' = captured, passive' = passive, integrity' = integrity,
         {i \in DOMAIN plan[e].bindings :
            i < at'[e] \/ (i = at'[e] /\ step'[e] = "revalidate")}
         = {i \in DOMAIN plan[e].bindings :
              i < at[e] \/ (i = at[e] /\ step[e] = "revalidate")}
  PROVE  Counted(e)'
BY DEF Counted, WithinFileBounds, Streamed

LEMMA ValidateSmooth ==
  ASSUME TypeOK, NEW e \in Executions, Smooth(e), Flawless(plan[e]), Validate(e)
  PROVE  Smooth(e)'
<1>1. /\ step[e] = "start" /\ step'[e] = "capture"
      /\ plan' = plan /\ lim' = lim /\ UNCHANGED <<at, captureVars>>
  BY NoFlaw DEF Validate, Goto, TypeOK, inputs
<1>2. Counted(e) /\ ~stale[e]
  BY <1>1 DEF Smooth, BeforeTree
<1>3. Counted(e)'
  BY <1>1, <1>2, CountedAsBefore DEF captureVars
<1> QED
  BY <1>1, <1>2, <1>3
  DEF Smooth, captureVars, BeforeTree, Inside, Building, Leaving, NativeFiles, Roles

LEMMA RefusedSmooth ==
  ASSUME TypeOK, WorkspaceInv, EarnedInv, NEW e \in Executions, Smooth(e),
         \A a \in Artifacts : files[a], CaptureRefused(e)
  PROVE  Smooth(e)'
<1>1. /\ step[e] = "capture" /\ at[e] <= Len(plan[e].bindings)
      /\ Raise(e, "unavailable") /\ plan' = plan /\ lim' = lim
  BY DEF CaptureRefused, inputs
<1>2. Counted(e)
  BY <1>1 DEF Smooth
<1>3. ~Fits(plan[e])
  BY <1>1, <1>2, RefusedForCause DEF CaptureRefused
<1> QED
  BY <1>1, <1>3, RefusedOutside DEF BeforeTree

LEMMA RevalidateSmooth ==
  ASSUME TypeOK, NEW e \in Executions, Smooth(e), Flawless(plan[e]),
         \A a \in Artifacts : files[a], Revalidate(e)
  PROVE  Smooth(e)'
<1>1. step[e] = "revalidate" /\ at[e] <= Len(plan[e].bindings)
  BY DEF Revalidate, TypeOK
<1>2. Current(e).defect = "none" /\ Current(e).path \in Artifacts
  BY <1>1, NoFlaw, BindingFacts
<1>3. /\ step'[e] = "capture" /\ at'[e] = at[e] + 1
      /\ plan' = plan /\ lim' = lim /\ stale' = stale
      /\ captured' = captured /\ passive' = passive /\ integrity' = integrity
  BY <1>2 DEF Revalidate, Goto, TypeOK, inputs
<1>4. Counted(e) /\ ~stale[e]
  BY <1>1 DEF Smooth, BeforeTree
<1>5. /\ at[e] \in Nat /\ DOMAIN plan[e].bindings \subseteq Nat
  <2>1. plan[e].bindings \in Seq(Bindings) /\ at[e] \in Nat
    BY PlanFacts DEF TypeOK
  <2> QED
    BY <2>1
<1>6. Counted(e)'
  BY <1>1, <1>3, <1>4, <1>5, CountedAsBefore
<1> QED
  BY <1>3, <1>4, <1>6 DEF Smooth, BeforeTree, Inside, Building, Leaving, NativeFiles, Roles

\* A plan captured whole fits: every artifact was within bounds, and so are the sums.
LEMMA AllCapturedSmooth ==
  ASSUME TypeOK, EarnedInv, NEW e \in Executions, Smooth(e), AllCaptured(e)
  PROVE  Smooth(e)'
<1> DEFINE p == plan[e]
<1>1. /\ step[e] = "capture" /\ at[e] > Len(p.bindings) /\ step'[e] = "endpoints"
      /\ plan' = plan /\ lim' = lim /\ UNCHANGED captureVars
  BY DEF AllCaptured, Goto, TypeOK, inputs
<1>2. Counted(e) /\ ~stale[e]
  BY <1>1 DEF Smooth, BeforeTree
<1>3. captured[e] = Paths(p)
  <2>1. captured'[e] = Paths(p)'
    BY <1>1, AllCapturedEarns DEF Passed
  <2> QED
    BY <1>1, <2>1 DEF captureVars, Paths
<1>4. integrity[e] <= lim.streamTotal /\ passive[e] <= lim.total
  <2>1. lim.streamTotal \in Nat /\ lim.total \in Nat
    BY PlanAssumption DEF TypeOK
  <2>2. integrity[e] \in 0..lim.streamTotal /\ passive[e] \in 0..lim.total
    BY DEF TypeOK
  <2> QED
    BY <2>1, <2>2
<1>5. WithinBudgets(p)
  BY <1>2, <1>3, <1>4 DEF Counted, WithinBudgets
<1>6. \A i \in DOMAIN p.bindings : i < at[e]
  <2>1. p.bindings \in Seq(Bindings) /\ at[e] \in Nat
    BY PlanFacts DEF TypeOK
  <2> QED
    BY <1>1, <2>1
<1>7. Unclashing(p)
  BY <1>2, <1>6 DEF Counted, Unclashing
<1>8. Fits(p)'
  BY <1>1, <1>5, <1>7, FitsAsBefore DEF Fits
<1> QED
  BY <1>1, <1>2, <1>8
  DEF Smooth, captureVars, BeforeTree, Inside, Building, Leaving, NativeFiles, Roles

LEMMA EndpointsSmooth ==
  ASSUME TypeOK, NEW e \in Executions, Smooth(e), Flawless(plan[e]),
         \A a \in Artifacts : files[a], ScanEndpoint(e) \/ JudgeBinding(e)
  PROVE  Smooth(e)'
<1>1. /\ step[e] = "endpoints" /\ plan' = plan /\ lim' = lim
  BY DEF ScanEndpoint, JudgeBinding, inputs
<1>2. Fits(plan[e])' /\ ~stale[e]
  BY <1>1, FitsAsBefore DEF Smooth, BeforeTree
<1>3. CASE ScanEndpoint(e)
  <2>3. plan[e].endpoints[at[e]] \in Artifacts
    BY <1>3, EndpointFacts DEF ScanEndpoint
  <2>4. step' = step /\ stale'[e] = stale[e]
    BY <1>2, <1>3, <2>3 DEF ScanEndpoint, TypeOK
  <2> QED
    BY <1>1, <1>2, <2>4 DEF Smooth, BeforeTree, Inside, Building, Leaving, NativeFiles, Roles
<1>4. CASE JudgeBinding(e)
  <2>1. step'[e] = "create" /\ stale' = stale
    BY <1>2, <1>4, NoFlaw DEF JudgeBinding, Goto, TypeOK, captureVars
  <2> QED
    BY <1>2, <2>1 DEF Smooth, BeforeTree, Inside, Building, Leaving, NativeFiles, Roles
<1> QED
  BY <1>3, <1>4

\* Nobody is in the way of the tree.
LEMMA CreateSmooth ==
  ASSUME TypeOK, WorkspaceInv, BlameInv, NEW e \in Executions, Smooth(e), Undisturbed(e),
         Flawless(plan[e]),
         CreateTree(e) \/ Collide(e) \/ Identify(e) \/ EnterDatasets(e)
  PROVE  Smooth(e)'
<1>1. plan' = plan /\ lim' = lim /\ step[e] \in {"create", "identify", "spill"}
  BY DEF CreateTree, Collide, Identify, EnterDatasets, inputs
<1>2. Fits(plan[e])'
  BY <1>1, FitsAsBefore DEF Smooth, Inside, Building
<1>3. CASE CreateTree(e)
  <2>1. step'[e] = "identify"
    BY <1>3 DEF CreateTree, Goto, TypeOK
  <2> QED
    BY <1>2, <2>1 DEF Smooth, BeforeTree, Inside, Building, Leaving, NativeFiles, Roles
<1>4. CASE Collide(e)
  BY <1>4, OwnTree DEF Collide, BeforeTree
<1>5. CASE Identify(e)
  <2>1. step'[e] = IF plan[e].benchmark THEN "read" ELSE "spill"
    BY <1>5 DEF Identify, Goto, TypeOK
  <2> QED
    BY <1>1, <1>2, <2>1 DEF Smooth, BeforeTree, Inside, Building, Leaving, NativeFiles, Roles
<1>6. CASE EnterDatasets(e)
  <2>1. step[e] = "spill" /\ step'[e] = "baseline"
    BY <1>6, NoFlaw DEF EnterDatasets, Goto, TypeOK
  <2>2. ~plan[e].benchmark
    BY <2>1 DEF Smooth
  <2> QED
    BY <1>1, <1>2, <2>1, <2>2
    DEF Smooth, BeforeTree, Inside, Building, Leaving, NativeFiles, Roles
<1> QED
  BY <1>3, <1>4, <1>5, <1>6

\* Its own tree holds what it has written so far, and nothing in the way of the rest.
LEMMA WriteSmooth ==
  ASSUME TypeOK, WorkspaceInv, BlameInv, NEW e \in Executions, Smooth(e), Undisturbed(e),
         Flawless(plan[e]), Write(e) \/ LoadManifest(e)
  PROVE  Smooth(e)'
<1> DEFINE s == step[e]
<1>1. plan' = plan /\ lim' = lim /\ s \in NativeFiles \cup {"load"}
  BY DEF Write, LoadManifest, inputs
<1>2. s \in Building /\ s \in Inside
  BY <1>1 DEF Building, Inside, NativeFiles, Roles
<1>3. Fits(plan[e])' /\ ~plan[e].benchmark
  BY <1>1, <1>2, FitsAsBefore DEF Smooth
<1>4. Home(e).files = Written(s) \X {e}
  BY <1>2, <1>3, OwnTree DEF WorkspaceInv, Filed
<1>5. CASE Write(e)
  <2>1. s \in NativeFiles
    BY <1>5 DEF Write
  <2>2. s \notin Written(s)
    BY <2>1 DEF Written, NativeFiles, Roles
  <2>3. ~\E f \in Home(e).files : f[1] = s
    BY <1>4, <2>2
  <2>4. step'[e] = After(s)
    BY <1>5, <2>3, NoFlaw DEF Write, Goto, TypeOK
  <2>5. After(s) \in {"candidate", "manifest", "load"}
    BY DEF After
  <2> HIDE DEF s
  <2> QED
    BY <1>1, <1>3, <2>4, <2>5
    DEF Smooth, BeforeTree, Inside, Building, Leaving, NativeFiles, Roles
<1>6. CASE LoadManifest(e)
  <2>1. s = "load"
    BY <1>6 DEF LoadManifest
  <2>2. Written("load") = NativeFiles
    BY DEF Written
  <2>3. <<"manifest", e>> \in Home(e).files
    BY <1>4, <2>1, <2>2 DEF NativeFiles
  <2>4. \E f \in Home(e).files : f[1] = "manifest"
    BY <2>3
  <2>5. step'[e] = "read"
    BY <1>6, <2>4 DEF LoadManifest, Goto, TypeOK
  <2> QED
    BY <1>1, <1>3, <2>5
    DEF Smooth, BeforeTree, Inside, Building, Leaving, NativeFiles, Roles
<1> QED
  BY <1>5, <1>6

LEMMA LeavingSmooth ==
  ASSUME TypeOK, WorkspaceInv, BlameInv, NEW e \in Executions, Smooth(e), Undisturbed(e),
         Flawless(plan[e]),
         ReadTree(e) \/ Unwind(e) \/ LookUpTree(e) \/ RemoveTree(e)
  PROVE  Smooth(e)'
<1>1. plan' = plan /\ lim' = lim /\ step[e] \in {"read", "unwind", "lookup", "remove"}
  BY DEF ReadTree, Unwind, LookUpTree, RemoveTree, inputs
<1>2. step[e] \in Inside
  BY <1>1 DEF Inside, Building, Leaving
<1>3. Fits(plan[e])' /\ Fits(plan[e])
  BY <1>1, <1>2, FitsAsBefore DEF Smooth
<1>4. CASE ReadTree(e)
  <2>1. Raise(e, "audited") /\ mine[e] # Nobody
    BY <1>2, <1>4, NoFlaw DEF ReadTree, WorkspaceInv, Placed
  <2>2. step'[e] = "unwind" /\ outcome'[e] = "audited"
    BY <2>1 DEF Raise, Goto, TypeOK
  <2> QED
    BY <1>1, <1>3, <2>2
    DEF Smooth, BeforeTree, Inside, Building, Leaving, NativeFiles, Roles
<1>5. CASE Unwind(e) \/ LookUpTree(e) \/ RemoveTree(e)
  <2>1. outcome[e] = "audited"
    BY <1>3, <1>5 DEF Smooth, Leaving, Unwind, LookUpTree, RemoveTree
  <2>2. step'[e] \in {"lookup", "remove", "done"}
    BY <1>5 DEF Unwind, LookUpTree, RemoveTree, Goto, TypeOK
  <2>3. Home(e).inode = mine[e]
    BY <1>2, OwnTree DEF WorkspaceInv, Placed
  <2>4. outcome' = outcome
    BY <1>5, <2>3 DEF Unwind, LookUpTree, RemoveTree
  <2> QED
    BY <1>1, <1>3, <2>1, <2>2, <2>4
    DEF Smooth, BeforeTree, Inside, Building, Leaving, NativeFiles, Roles
<1> QED
  BY <1>4, <1>5

LEMMA AdvanceSmooth ==
  ASSUME TypeOK, WorkspaceInv, EarnedInv, BlameInv, NEW e \in Executions, Smooth(e),
         Undisturbed(e), Flawless(plan[e]), \A a \in Artifacts : files[a], Advance(e)
  PROVE  Smooth(e)'
BY ValidateSmooth, CaptureSmooth, RefusedSmooth, RevalidateSmooth, AllCapturedSmooth,
   EndpointsSmooth, CreateSmooth, WriteSmooth, LeavingSmooth DEF Advance

\* A step of one execution leaves what Smooth says of the others.
LEMMA AdvanceLeavesOthers ==
  ASSUME TypeOK, NEW e \in Executions, Advance(e) \/ Crash(e), NEW d \in Executions \ {e}
  PROVE  /\ plan' = plan /\ lim' = lim /\ step'[d] = step[d] /\ at'[d] = at[d]
         /\ outcome'[d] = outcome[d] /\ captured'[d] = captured[d]
         /\ passive'[d] = passive[d] /\ integrity'[d] = integrity[d]
         /\ stale'[d] = stale[d]
<1>1. plan' = plan /\ Others(e)
  BY OneAtATime
<1>2. lim' = lim
  BY DEF Advance, Crash, Validate, Capture, CaptureRefused, Revalidate, AllCaptured,
     ScanEndpoint, JudgeBinding, CreateTree, Collide, Identify, EnterDatasets, Write,
     LoadManifest, ReadTree, Unwind, LookUpTree, RemoveTree, inputs
<1>3. passive'[d] = passive[d] /\ integrity'[d] = integrity[d] /\ stale'[d] = stale[d]
  <2>1. CASE Capture(e)
    BY <2>1 DEF Capture, TypeOK
  <2>2. CASE ScanEndpoint(e)
    BY <2>2 DEF ScanEndpoint, TypeOK
  <2>3. CASE ~Capture(e) /\ ~ScanEndpoint(e)
    BY <2>3 DEF Advance, Crash, Validate, CaptureRefused, Revalidate, AllCaptured,
       JudgeBinding, CreateTree, Collide, Identify, EnterDatasets, Write,
       LoadManifest, ReadTree, Unwind, LookUpTree, RemoveTree, captureVars
  <2> QED
    BY <2>1, <2>2, <2>3
<1> QED
  BY <1>1, <1>2, <1>3 DEF Others

LEMMA InitSmooth == Init => SmoothInv
<1> SUFFICES ASSUME Init, NEW e \in Executions PROVE Smooth(e)
  BY DEF SmoothInv, Init
<1>1. /\ step[e] = "start" /\ at[e] = 1 /\ captured[e] = {}
      /\ passive[e] = 0 /\ integrity[e] = 0 /\ ~stale[e]
  BY DEF Init, AllOf
<1>2. {a \in captured[e] : ~Streamed(a)} = {}
  BY <1>1
<1>3. {i \in DOMAIN plan[e].bindings :
         i < at[e] \/ (i = at[e] /\ step[e] = "revalidate")} = {}
  <2>1. plan[e].bindings \in Seq(Bindings)
    BY PlanAssumption DEF Init
  <2> QED
    BY <1>1, <2>1
<1>4. Counted(e)
  BY <1>1, <1>2, <1>3, SumOfNone DEF Counted
<1> QED
  BY <1>1, <1>4 DEF Smooth, BeforeTree, Inside, Building, Leaving, NativeFiles, Roles

LEMMA NextSmooth ==
  TypeOK /\ WorkspaceInv /\ EarnedInv /\ BlameInv /\ SmoothInv /\ [Next]_vars => SmoothInv'
<1> SUFFICES ASSUME TypeOK, WorkspaceInv, EarnedInv, BlameInv, SmoothInv, [Next]_vars
             PROVE  SmoothInv'
  OBVIOUS
<1>1. ASSUME NEW e \in Executions, Advance(e) \/ Crash(e) PROVE SmoothInv'
  <2>1. UNCHANGED <<plan, files, faults, changes, swaps>>
    BY <1>1 DEF Advance, Crash, Validate, Capture, CaptureRefused, Revalidate, AllCaptured,
       ScanEndpoint, JudgeBinding, CreateTree, Collide, Identify, EnterDatasets, Write,
       LoadManifest, ReadTree, Unwind, LookUpTree, RemoveTree, inputs, world
  <2>2. ASSUME NEW d \in Executions, Undisturbed(d)', Flawless(plan[d])' PROVE Smooth(d)'
    <3>1. Undisturbed(d) /\ Flawless(plan[d])
      BY <2>1, <2>2 DEF Undisturbed, Flawless
    <3>2. Smooth(d) /\ \A a \in Artifacts : files[a]
      BY <3>1 DEF SmoothInv, Undisturbed
    <3>3. CASE d # e
      BY <1>1, <3>2, <3>3, AdvanceLeavesOthers, SmoothBystander
    <3>4. CASE d = e /\ Advance(e)
      BY <3>1, <3>2, <3>4, AdvanceSmooth
    <3>5. CASE d = e /\ Crash(e)
      <4>1. step'[e] = "crashed"
        BY <3>5 DEF Crash, Goto, TypeOK
      <4> QED
        BY <3>5, <4>1 DEF Smooth, BeforeTree, Inside, Building, Leaving, NativeFiles, Roles
    <3> QED
      BY <1>1, <3>3, <3>4, <3>5
  <2> QED
    BY <2>1, <2>2 DEF SmoothInv
<1>2. ASSUME NEW e \in Executions, SystemFault(e) PROVE SmoothInv'
  <2>1. faults' # 0 /\ UNCHANGED <<files, changes>>
    BY <1>2 DEF SystemFault, TypeOK
  <2> QED
    BY <2>1 DEF SmoothInv, Undisturbed
<1>3. ASSUME NEW a \in Artifacts, ChangeCheckout(a) PROVE SmoothInv'
  <2>1. changes' # 0
    BY <1>3 DEF ChangeCheckout, TypeOK
  <2> QED
    BY <2>1 DEF SmoothInv, Undisturbed
<1>4. ASSUME NEW p \in PlanIds, ReplaceTree(p) PROVE SmoothInv'
  <2>1. swaps' # 0 /\ UNCHANGED <<files, changes>>
    BY <1>4 DEF ReplaceTree, TypeOK
  <2> QED
    BY <2>1 DEF SmoothInv, Undisturbed
<1>5. CASE UNCHANGED vars
  <2>1. UNCHANGED <<plan, lim, files, faults, changes, swaps, step, at, outcome, captured,
                    passive, integrity, stale>>
    BY <1>5 DEF vars, inputs, world, captureVars
  <2>2. ASSUME NEW d \in Executions, Undisturbed(d)', Flawless(plan[d])' PROVE Smooth(d)'
    <3>1. Undisturbed(d) /\ Flawless(plan[d])
      BY <2>1, <2>2 DEF Undisturbed, Flawless
    <3> QED
      BY <2>1, <3>1, SmoothBystander DEF SmoothInv
  <2> QED
    BY <2>1, <2>2 DEF SmoothInv
<1> QED
  BY <1>1, <1>2, <1>3, <1>4, <1>5 DEF Next

\* Left alone, a flawless plan is audited exactly when its artifacts fit the budgets and
\* no path is bound as two kinds or with two identities: for every plan, every budget and
\* its every boundary, and whatever executions of other plans do beside it.
THEOREM FlawlessPlansAreAudited == Spec => []UndisturbedOutcome
<1>1. SmoothInv => UndisturbedOutcome
  BY DEF SmoothInv, Smooth, UndisturbedOutcome, Leaving
<1>2. Spec => [](TypeOK /\ WorkspaceInv /\ EarnedInv /\ BlameInv)
  BY WorkspaceInvariant, InitEarns, NextEarns, InitBlames, NextBlames, PTL DEF Spec
<1> QED
  BY <1>1, <1>2, InitSmooth, NextSmooth, PTL DEF Spec
====
