------------------------------- MODULE DatasetAudit -------------------------------
(***************************************************************************)
(* analysis/streaming_dataset.py and check_streaming_dataset_context: four *)
(* datasets are scanned one after the other into one temporary SQLite      *)
(* store, the findings are computed from its rows while the factory-only   *)
(* context is active, and the store is removed on every way out.           *)
(*                                                                         *)
(* The scans read through ArtifactScan, whose guarantee is used here: a    *)
(* scan finishes only if what it read is what the plan recorded, and may   *)
(* fail to finish at any time.                                             *)
(***************************************************************************)
EXTENDS Datasets

CONSTANTS
    LimitChoices, \* StreamingLimits: semantic bytes and records
    Tampered,     \* datasets another process may have put in place of one
    BatchRecords, \* _BATCH_RECORDS
    Capacity,     \* rows that fit into max_scratch_bytes
    MaxFaults     \* bound: reads, verifications and SQL statements that fail

ASSUME AuditAssumption ==
    /\ LimitChoices \subseteq [semantic : Nat, records : Nat]
    /\ Tampered \subseteq Seq(LineKinds)
    /\ BatchRecords \in Nat \ {0}
    /\ Capacity \in Nat /\ MaxFaults \in Nat

\* The order of stream_dataset_audit_context.
Order == << <<"baseline", "train">>, <<"baseline", "eval">>,
            <<"candidate", "train">>, <<"candidate", "eval">> >>

Going == "going"   \* no _ScanStop has been raised
StopStates == {"failed", "budget", "limit", "scratch"}

VARIABLES
    files, outcome, findings,  \* as in DatasetFacts
    lim,
    seen,      \* what each path holds when it is read
    faults,    \* failures so far
    pc, at,    \* at: index into Order of the split being scanned
    \* locals of _scan_dataset
    position,  \* lines the loop has taken
    records,
    pending,   \* positions of the records whose hashes wait for a batch
    indexed,
    stop,      \* the state of the pending _ScanStop
    \* _DatasetSpill
    spill,     \* its file exists
    rows,      \* the table: multiplicity of each hash in each split
    exhausted,
    \* DatasetScanAuditContext and its consumer
    scans,     \* the DatasetSplitScan of each split
    context,   \* "none", "active" or "inactive"
    found,     \* findings of the check so far
    \* history
    flushed    \* lines of the current split the rows account for

scanVars == <<position, records, pending, indexed, stop, flushed>>
storeVars == <<spill, rows, exhausted>>
inputVars == <<files, lim, seen>>
contextVars == <<scans, context, found>>
auditVars == <<inputVars, outcome, findings, faults, pc, at, scanVars,
               storeVars, contextVars>>

k == Order[at]
NoCounts == [d \in Digests |-> 0]
NoScan == [state |-> "unread", lines |-> 0, records |-> 0, indexed |-> 0]

AuditInit ==
    /\ files \in FileChoices
    /\ lim \in LimitChoices
    /\ seen \in {files} \cup
         {[files EXCEPT ![key] = f] : key \in Keys, f \in Tampered}
    /\ outcome = "pending" /\ findings = {} /\ faults = 0
    /\ pc = "open" /\ at = 1
    /\ position = 0 /\ records = 0 /\ pending = {} /\ indexed = 0
    /\ stop = Going /\ flushed = 0
    /\ spill = FALSE /\ rows = [key \in Keys |-> NoCounts] /\ exhausted = FALSE
    /\ scans = [key \in Keys |-> NoScan] /\ context = "none" /\ found = {}

\* One more read, verification or SQL statement fails.
Fault ==
    /\ faults < MaxFaults
    /\ faults' = faults + 1

\* An exception leaves the with block of the context.
Abandon ==
    /\ pc' = "close"
    /\ outcome' = "raised"

-----------------------------------------------------------------------------------
(* _DatasetSpill                                                             *)

OpenSpill ==
    /\ pc = "open"
    /\ pc' = "begin" /\ spill' = TRUE
    /\ UNCHANGED <<inputVars, outcome, findings, faults, at, scanVars, rows,
                   exhausted, contextVars>>

\* The scratch root is not usable or the budget cannot hold the schema: the
\* constructor removes what it created.
SpillRefused ==
    /\ pc = "open"
    /\ Fault
    /\ Abandon
    /\ UNCHANGED <<inputVars, findings, at, scanVars, storeVars, contextVars>>

\* A plausible slip: the conflict clause replaces the multiplicity.
UpsertReplacing(counts, batch) ==
    [d \in Digests |->
        LET n == Cardinality({i \in batch : seen[k][i] = d})
        IN IF n = 0 THEN counts[d] ELSE n]

\* Counter(digests) and the ON CONFLICT clause of _UPSERT_SQL.
Upsert(counts, batch) ==
    [d \in Digests |-> counts[d] + Cardinality({i \in batch : seen[k][i] = d})]

RowCount(table) == Cardinality({e \in Keys \X Digests : table[e[1]][e[2]] > 0})

\* add_batch commits the batch, or rolls it back and is exhausted for good.
BatchAdded ==
    /\ pending # {} => ~exhausted
    /\ rows' = [rows EXCEPT ![k] = Upsert(@, pending)]
    /\ pending # {} => RowCount(rows') <= Capacity
    /\ indexed' = indexed + Cardinality(pending)
    /\ pending' = {}
    /\ flushed' = position
    /\ UNCHANGED <<spill, exhausted, faults>>

BatchRefused ==
    /\ pending # {}
    /\ \/ /\ exhausted \/ RowCount([rows EXCEPT ![k] = Upsert(@, pending)]) > Capacity
          /\ UNCHANGED faults
       \/ Fault
    /\ exhausted' = TRUE
    /\ UNCHANGED <<spill, rows>>

-----------------------------------------------------------------------------------
(* _scan_dataset                                                             *)

Begin ==
    /\ pc = "begin"
    /\ pc' = IF exhausted THEN "handle" ELSE "scan"
    /\ stop' = IF exhausted THEN "scratch" ELSE Going
    /\ position' = 0 /\ records' = 0 /\ pending' = {} /\ indexed' = 0
    /\ flushed' = 0
    /\ UNCHANGED <<inputVars, outcome, findings, faults, at, storeVars,
                   contextVars>>

\* Opening the artifact, or a handler, raises: nothing catches it.
ScanRaises ==
    /\ \/ pc \in {"begin", "handle", "refinish"} /\ Fault
       \/ pc = "refinish" /\ seen[k] # files[k] /\ UNCHANGED faults
    /\ Abandon
    /\ UNCHANGED <<inputVars, findings, at, scanVars, storeVars, contextVars>>

BatchFull == Cardinality(pending) >= BatchRecords

\* A plausible slip: the record about to be read is counted already.
RecordBudgetEarly == records + 1 >= lim.records
AtRecordBudget == records >= lim.records

\* Why the loop stops at line l, in the order the code asks.
StopAt(l) ==
    IF l = "too_long" THEN "limit"
    ELSE IF position + 1 > lim.semantic THEN "budget"
    ELSE IF l = "blank" THEN Going
    ELSE IF AtRecordBudget THEN "budget"
    ELSE IF l = "malformed" THEN "failed"
    ELSE IF l = "too_deep" THEN "limit"
    ELSE Going

TakeLine ==
    /\ pc = "scan" /\ ~BatchFull
    /\ position < Len(seen[k])
    /\ LET l == seen[k][position + 1] IN
         /\ stop' = StopAt(l)
         /\ IF stop' = Going
              THEN /\ position' = position + 1
                   /\ UNCHANGED pc
                   /\ IF l = "blank" THEN UNCHANGED <<records, pending>>
                      ELSE /\ records' = records + 1
                           /\ pending' = pending \cup {position + 1}
              ELSE /\ pc' = "handle"
                   /\ UNCHANGED <<position, records, pending>>
    /\ UNCHANGED <<inputVars, outcome, findings, faults, at, indexed, flushed,
                   storeVars, contextVars>>

\* The flush in the loop when the batch is full, and the one behind the loop.
Flush ==
    /\ pc = "scan"
    /\ BatchFull \/ position = Len(seen[k])
    /\ BatchAdded
    /\ pc' = IF position = Len(seen[k]) THEN "finish" ELSE "scan"
    /\ UNCHANGED <<inputVars, outcome, findings, at, position, records, stop,
                   contextVars>>

\* "except _ScratchFull": earlier batches stay, the pending one is dropped.
FlushFails ==
    /\ pc = "scan"
    /\ BatchFull \/ position = Len(seen[k])
    /\ BatchRefused
    /\ pc' = "refinish"
    /\ stop' = "scratch"
    /\ pending' = {}
    /\ UNCHANGED <<inputVars, outcome, findings, at, position, records, indexed,
                   flushed, contextVars>>

\* A plausible slip: the rows of the failed split stay in the table.
KeepSplit ==
    /\ rows' = rows
    /\ indexed' = 0 /\ pending' = {} /\ flushed' = 0

\* delete_split and the resets around it.
DropSplit ==
    /\ rows' = [rows EXCEPT ![k] = NoCounts]
    /\ indexed' = 0 /\ pending' = {} /\ flushed' = 0

Report(state) ==
    /\ scans' = [scans EXCEPT ![k] = [state |-> state, lines |-> flushed,
                                      records |-> records, indexed |-> indexed]]
    /\ at' = at + 1
    /\ IF at = Len(Order) THEN pc' = "overlap" /\ context' = "active"
                          ELSE pc' = "begin" /\ UNCHANGED context

\* Behind the loop: no record is a failure, otherwise finish reports COMPLETE.
NoRecords ==
    /\ pc = "finish" /\ records = 0
    /\ stop' = "failed" /\ pc' = "handle"
    /\ UNCHANGED <<inputVars, outcome, findings, faults, at, position, records,
                   pending, indexed, flushed, storeVars, contextVars>>

Finish ==
    /\ pc = "finish" /\ records > 0
    /\ seen[k] = files[k]
    /\ Report("complete")
    /\ UNCHANGED <<inputVars, outcome, findings, faults, scanVars, storeVars, found>>

\* A read or the finish of the try body raises a contract error, and the
\* handler answers as if the artifact had not parsed.
ContractError ==
    /\ \/ pc = "scan" /\ Fault
       \/ pc = "finish" /\ records > 0 /\ Fault
       \/ pc = "finish" /\ records > 0 /\ seen[k] # files[k] /\ UNCHANGED faults
    /\ DropSplit
    /\ stop' = "failed" /\ pc' = "refinish"
    /\ UNCHANGED <<inputVars, outcome, findings, at, position, records, spill,
                   exhausted, contextVars>>

\* "except _ScanStop"
HandleFailed ==
    /\ pc = "handle" /\ stop = "failed"
    /\ DropSplit
    /\ pc' = "refinish"
    /\ UNCHANGED <<inputVars, outcome, findings, faults, at, position, records,
                   stop, spill, exhausted, contextVars>>

HandleStopped ==
    /\ pc = "handle" /\ stop # "failed"
    /\ BatchAdded
    /\ pc' = "refinish"
    /\ UNCHANGED <<inputVars, outcome, findings, at, position, records, stop,
                   contextVars>>

HandleScratchFull ==
    /\ pc = "handle" /\ stop # "failed"
    /\ BatchRefused
    /\ stop' = "scratch" /\ pc' = "refinish"
    /\ UNCHANGED <<inputVars, outcome, findings, at, position, records, pending,
                   indexed, flushed, contextVars>>

Refinish ==
    /\ pc = "refinish"
    /\ seen[k] = files[k]
    /\ Report(stop)
    /\ UNCHANGED <<inputVars, outcome, findings, faults, scanVars, storeVars, found>>

-----------------------------------------------------------------------------------
(* check_streaming_dataset_context, inside the active context.               *)

ScanComplete(key) == scans[key].state = "complete"
PairComplete(x) == ScanComplete(<<x, "train">>) /\ ScanComplete(<<x, "eval">>)

\* _OVERLAP_COUNT_SQL sums min(train, eval) over the joined rows.
Overlapping(x) ==
    {d \in Digests : rows[<<x, "train">>][d] > 0 /\ rows[<<x, "eval">>][d] > 0}

\* A plausible slip: the whole-dataset branch without its completeness test.
OverlapFindingsEager(x) ==
    {IF Overlapping(x) # {} THEN Finding("EXACT_LEAKAGE", x)
                            ELSE Finding("NO_LEAKAGE", x)}

OverlapFindings(x) ==
    (IF Overlapping(x) # {} THEN {Finding("EXACT_LEAKAGE", x)}
     ELSE IF PairComplete(x) THEN {Finding("NO_LEAKAGE", x)} ELSE {})
    \cup (IF PairComplete(x) THEN {} ELSE {Finding("SCAN_INCOMPLETE", x)})

CheckOverlap ==
    /\ pc = "overlap" /\ context = "active"
    /\ found' = OverlapFindings("baseline") \cup OverlapFindings("candidate")
    /\ pc' = "align"
    /\ UNCHANGED <<inputVars, outcome, findings, faults, at, scanVars, storeVars,
                   scans, context>>

\* evaluation_alignment_fact compares the two committed multisets.
AlignmentFindings ==
    IF \E x \in Experiments : ~ScanComplete(<<x, "eval">>) THEN {}
    ELSE {Finding(IF rows[<<"baseline", "eval">>] = rows[<<"candidate", "eval">>]
                    THEN "EVALUATION_ALIGNED" ELSE "EVALUATION_MISMATCH", "both")}

CheckAlignment ==
    /\ pc = "align" /\ context = "active"
    /\ findings' = found \cup AlignmentFindings
    /\ outcome' = "checked"
    /\ pc' = "close"
    /\ UNCHANGED <<inputVars, faults, at, scanVars, storeVars, contextVars>>

\* A query, or the audit around it, raises inside the context.
ConsumerRaises ==
    /\ pc \in {"overlap", "align"}
    /\ Fault
    /\ Abandon
    /\ UNCHANGED <<inputVars, findings, at, scanVars, storeVars, contextVars>>

\* A plausible slip: the store is closed only behind a successful body.
CloseOnSuccess ==
    /\ pc = "close" /\ pc' = "done"
    /\ context' = IF context = "active" THEN "inactive" ELSE context
    /\ spill' = (spill /\ outcome = "raised")
    /\ UNCHANGED <<inputVars, outcome, findings, faults, at, scanVars, rows,
                   exhausted, scans, found>>

\* The finally clause.
Close ==
    /\ pc = "close" /\ pc' = "done"
    /\ context' = IF context = "active" THEN "inactive" ELSE context
    /\ spill' = FALSE
    /\ UNCHANGED <<inputVars, outcome, findings, faults, at, scanVars, rows,
                   exhausted, scans, found>>

ScanStep ==
    \/ Begin \/ ScanRaises \/ TakeLine \/ Flush \/ FlushFails
    \/ NoRecords \/ Finish \/ ContractError
    \/ HandleFailed \/ HandleStopped \/ HandleScratchFull \/ Refinish
AuditNext ==
    \/ OpenSpill \/ SpillRefused
    \/ ScanStep
    \/ CheckOverlap \/ CheckAlignment \/ ConsumerRaises
    \/ Close

AuditSpec == AuditInit /\ [][AuditNext]_auditVars
\* One thread runs to the end of the context.
FairAuditSpec == AuditSpec /\ WF_auditVars(AuditNext)

-----------------------------------------------------------------------------------
(* Properties                                                                *)

TypeOK ==
    /\ files \in FileChoices /\ seen \in [Keys -> Seq(LineKinds)]
    /\ lim \in LimitChoices
    /\ outcome \in {"pending", "checked", "raised"}
    /\ faults \in 0..MaxFaults
    /\ pc \in {"open", "begin", "scan", "finish", "handle", "refinish", "overlap",
               "align", "close", "done"}
    /\ at \in 1..(Len(Order) + 1)
    /\ pc \in {"begin", "scan", "finish", "handle", "refinish"} => at <= Len(Order)
    /\ position \in Nat /\ records \in Nat /\ indexed \in Nat /\ flushed \in Nat
    /\ pending \subseteq Nat \ {0}
    /\ stop \in StopStates \cup {Going}
    /\ spill \in BOOLEAN /\ exhausted \in BOOLEAN
    /\ rows \in [Keys -> [Digests -> Nat]]
    /\ scans \in [Keys -> [state : {"unread", "complete"} \cup StopStates \cup {Going},
                           lines : Nat, records : Nat, indexed : Nat]]
    /\ context \in {"none", "active", "inactive"}
    /\ found \subseteq [rule : {"EXACT_LEAKAGE", "NO_LEAKAGE", "SCAN_INCOMPLETE"},
                        experiment : Experiments]

\* What the four scans have looked at, as DatasetFacts sees it.
lookedSoFar ==
    [key \in Keys |->
        [done |-> scans[key].state # "unread", lines |-> scans[key].lines,
         complete |-> scans[key].state = "complete"]]

Facts == INSTANCE DatasetFacts WITH looked <- lookedSoFar

RecordsOf(f, n) == {i \in 1..n : f[i] \in Digests}

\* The table holds, for every scanned split, the multiset of a prefix of the
\* recorded dataset; all of it when the scan is complete, nothing when it
\* failed; and indexed_records counts it.
SpillHoldsPrefix ==
    \A i \in 1..(at - 1) :
        LET key == Order[i]  s == scans[key]  f == files[key] IN
        /\ rows[key] = Multiplicity(f, s.lines)
        /\ s.indexed = Cardinality(RecordsOf(f, s.lines))
        /\ s.lines <= Len(f) /\ s.indexed <= s.records
        /\ s.state = "complete" => s.lines = Len(f) /\ Clean(f)
        /\ s.state = "failed" => s.lines = 0

\* Every finding is true of the recorded datasets, also of the part nobody
\* looked at: a leakage finding of the whole files, a no-leakage or alignment
\* finding of all their records.
FindingsSound ==
    outcome = "checked" =>
      /\ \A x \in Experiments :
           LET f == files[<<x, "train">>]  g == files[<<x, "eval">>]
               shared == SharedRecord(f, Len(f), g, Len(g)) IN
           /\ Finding("EXACT_LEAKAGE", x) \in findings => shared
           /\ Finding("NO_LEAKAGE", x) \in findings => ~shared
      /\ Finding("EVALUATION_ALIGNED", "both") \in findings => Facts!EvaluationsEqual
      /\ Finding("EVALUATION_MISMATCH", "both") \in findings => ~Facts!EvaluationsEqual

Fits(key) ==
    /\ Clean(files[key])
    /\ Len(files[key]) <= lim.semantic
    /\ Cardinality(RecordsOf(files[key], Len(files[key]))) <= lim.records
DistinctRecords == {e \in Keys \X Digests :
                        \E i \in 1..Len(files[e[1]]) : files[e[1]][i] = e[2]}

\* A quadruple of clean datasets inside every budget is decided: without
\* failures nothing is called incomplete and the evaluations are compared.
UndisturbedDecides ==
    /\ pc = "done" /\ faults = 0 /\ seen = files
    /\ \A key \in Keys : Fits(key)
    /\ Cardinality(DistinctRecords) <= Capacity
    => /\ outcome = "checked"
       /\ \A x \in Experiments : Finding("SCAN_INCOMPLETE", x) \notin findings
       /\ \E f \in findings : f.experiment = "both"

\* Every audit leaves the context with the spill removed, whatever fails.
SpillRemoved == <>(pc = "done" /\ ~spill /\ context # "active")

\* The audit with its spill, batches and failures behaves like DatasetFacts:
\* a look at a prefix of every recorded dataset, then what it warrants.
ImplementsFacts == Facts!Spec

-----------------------------------------------------------------------------------
(* The inductive invariant behind SpillHoldsPrefix and FindingsSound.        *)

Scanning == pc \in {"scan", "finish", "handle", "refinish"}

\* The locals of the running scan and the rows of its split: the rows account
\* for the first flushed lines, pending for the records taken after them.
LocalInv ==
    Scanning =>
      /\ flushed <= position /\ position <= Len(seen[k])
      /\ \A i \in 1..position : seen[k][i] \in Digests \cup {"blank"}
      /\ rows[k] = Multiplicity(seen[k], flushed)
      /\ indexed = Cardinality(RecordsOf(seen[k], flushed))
      /\ records = Cardinality(RecordsOf(seen[k], position))
      /\ pc # "refinish" =>
           pending = RecordsOf(seen[k], position) \ (1..flushed)
      /\ pc = "finish" => flushed = position /\ position = Len(seen[k])
      /\ pc \in {"handle", "refinish"} => stop \in StopStates
      /\ pc = "refinish" /\ stop = "failed" => flushed = 0

\* Splits not reached yet have neither rows nor a report.
AheadInv ==
    /\ \A i \in at..Len(Order) : scans[Order[i]] = NoScan
    /\ \A i \in (at + 1)..Len(Order) : rows[Order[i]] = NoCounts
    /\ pc \in {"open", "begin"} => at <= Len(Order) /\ rows[k] = NoCounts
    /\ pc = "open" => at = 1
    /\ \A i \in 1..(at - 1) : scans[Order[i]].state \in StopStates \cup {"complete"}

\* The check reads a table nobody writes any more.
CheckInv ==
    /\ pc \in {"overlap", "align"} => at = Len(Order) + 1
    /\ pc \notin {"close", "done"} => outcome = "pending"
    /\ pc = "align" =>
         found = OverlapFindings("baseline") \cup OverlapFindings("candidate")
    /\ outcome = "checked" =>
         /\ at = Len(Order) + 1
         /\ findings = OverlapFindings("baseline") \cup OverlapFindings("candidate")
                         \cup AlignmentFindings
    /\ outcome # "checked" => findings = {}

AuditInv == TypeOK /\ LocalInv /\ SpillHoldsPrefix /\ AheadInv /\ CheckInv

\* Behind UndisturbedDecides: nothing goes wrong in datasets that fit.
Smooth ==
    /\ faults = 0 /\ seen = files
    /\ \A key \in Keys : Fits(key)
    /\ Cardinality(DistinctRecords) <= Capacity

SmoothInv ==
    Smooth =>
      /\ ~exhausted /\ outcome # "raised"
      /\ pc \notin {"handle", "refinish"}
      /\ \A i \in 1..(at - 1) : scans[Order[i]].state = "complete"
      /\ pc \in {"close", "done"} => outcome = "checked"
====
