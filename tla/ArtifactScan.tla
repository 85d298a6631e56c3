------------------------------- MODULE ArtifactScan -------------------------------
(***************************************************************************)
(* The streaming reader of analysis/artifact_source.py driven by the       *)
(* extractions of analysis/adapters/streaming.py, one system call at a     *)
(* time, while the file system it reads from may change between any two    *)
(* calls.                                                                  *)
(*                                                                         *)
(* pass 0 issues the ArtifactSource, pass 1 is the schema scan (or the     *)
(* only scan of an integrity-only extraction) and pass 2 the observation   *)
(* scan, which opens the artifact a second time.                           *)
(***************************************************************************)
EXTENDS SnapshotExtraction

CONSTANTS
    Inodes, Dirs,   \* identities files and directories can have
    Written,        \* contents another process may write into a file
    ChunkLines,     \* _READ_CHUNK_BYTES, in lines
    MaxChanges,     \* bound: changes other processes make in one behaviour
    MaxReadErrors   \* bound: os.read calls that fail in one behaviour

ASSUME ScanAssumption ==
    /\ Inodes # {} /\ Dirs # {}
    /\ Written \subseteq Seq(LineKinds)
    /\ ChunkLines \in Nat \ {0}
    /\ MaxChanges \in Nat /\ MaxReadErrors \in Nat

Absent == "absent"    \* the path names nothing, or a link or directory; named pipes,
                      \* whose os.open waits for a writer, are left out
NoClaim == "none"
StopReasons == {"record_budget", "observation_budget", "semantic_byte_budget",
                "malformed", "selector_mismatch"}
Claims == {NoClaim, "complete"} \cup StopReasons

VARIABLES
    \* the file system
    tree,      \* [root, parent : directory identities, entry : file or Absent]
    data,      \* inode -> lines
    mtime,     \* inode -> modification time, which a writer can put back
    ctime,     \* inode -> change time, which only moves forward
    changes,   \* changes made so far
    \* ArtifactSource
    pc, pass,
    issued,    \* [root, file] identities fixed when the source was issued
    \* ArtifactScan
    before,    \* lstat of the path just before os.open
    opened,    \* [file, full, parent] of the descriptor just after os.open
    consumed,  \* every line read from the descriptor: what the hash covers
    eof,
    readErrors,
    \* the scanning function
    parsed,    \* lines the semantic parser has accepted
    claim,     \* what the scan will report if its integrity checks pass
    guarded,   \* control is inside the try body whose handler finishes again
    schemaSeen,\* lines the schema of pass 1 was computed from
    \* history, read by no action
    reported,  \* [claim, lines, stable] of the reports issued
    dirty      \* the open file was written since it was opened

fsVars == <<tree, data, mtime, ctime, changes>>
sourceVars == <<pass, issued>>
openVars == <<before, opened>>
readVars == <<consumed, eof, readErrors>>
parseVars == <<parsed, claim, guarded, schemaSeen>>
outVars == <<result, delivered, reported>>
scanVars == <<inputs, outVars, fsVars, pc, sourceVars, openVars, readVars,
              parseVars, dirty>>

\* Identities as _file_open_identity and _file_identity compare them.
OpenIdentity(f) == [file |-> f, size |-> Len(data[f]), mtime |-> mtime[f]]
FileIdentity(f) == [open |-> OpenIdentity(f), ctime |-> ctime[f]]

NoStat == [file |-> Absent, size |-> 0, mtime |-> 0]
NoOpen == [file |-> Absent, full |-> [open |-> NoStat, ctime |-> 0],
           parent |-> Absent]

ScanInit ==
    /\ Init
    /\ tree \in [root : Dirs, parent : Dirs, entry : Inodes]
    /\ data \in [Inodes -> {snap} \cup Written]
    /\ mtime = [f \in Inodes |-> 0]
    /\ ctime = [f \in Inodes |-> 0]
    /\ changes = 0
    /\ pc = "issue" /\ pass = 0
    /\ issued = [root |-> Absent, file |-> Absent]
    /\ before = NoStat /\ opened = NoOpen
    /\ consumed = <<>> /\ eof = FALSE /\ readErrors = 0
    /\ parsed = 0 /\ claim = NoClaim /\ guarded = FALSE /\ schemaSeen = <<>>
    /\ reported = <<>> /\ dirty = FALSE

-----------------------------------------------------------------------------------
(* Another process changes the files.  Any path may be relinked to anything, *)
(* and a file may be rewritten in place, with its modification time restored *)
(* or not; the change time always moves.                                     *)

Scanning == pc \in {"consume", "drain", "verify_file"}

Relink ==
    /\ pc # "done" /\ changes < MaxChanges
    /\ changes' = changes + 1
    /\ tree' \in [root : Dirs, parent : Dirs, entry : Inodes \cup {Absent}]
    /\ UNCHANGED <<inputs, outVars, data, mtime, ctime, pc, sourceVars, openVars,
                   readVars, parseVars, dirty>>

Rewrite(f) ==
    /\ pc # "done" /\ changes < MaxChanges
    /\ changes' = changes + 1
    /\ data' \in {[data EXCEPT ![f] = w] : w \in Written}
    /\ mtime' \in {mtime, [mtime EXCEPT ![f] = @ + 1]}
    /\ ctime' = [ctime EXCEPT ![f] = @ + 1]
    /\ dirty' = (dirty \/ (Scanning /\ f = opened.file))
    /\ UNCHANGED <<inputs, outVars, tree, pc, sourceVars, openVars, readVars,
                   parseVars>>

Environment == Relink \/ \E f \in Inodes : Rewrite(f)

-----------------------------------------------------------------------------------
(* Ends of the extraction.                                                   *)

\* The scan object and the locals of the scanning function go out of scope.
Close ==
    /\ before' = NoStat /\ opened' = NoOpen
    /\ eof' = FALSE /\ parsed' = 0
    /\ claim' = NoClaim /\ guarded' = FALSE /\ dirty' = FALSE

Forget == Close /\ consumed' = <<>>

Stop(outcome, lines) ==
    /\ pc' = "done"
    /\ result' = outcome
    /\ delivered' = lines

\* An exception leaves the extraction; the with statement closes the scan.
Leave ==
    /\ Stop("raised", <<>>)
    /\ Close
    /\ UNCHANGED <<inputs, reported, fsVars, sourceVars, schemaSeen>>

Raise == Leave /\ consumed' = <<>>

\* "except (AdapterError, AnalysisContractError, ...)": integrity and limit
\* errors are contract errors too, so the handler answers them like a parse
\* error and finish the scan again as malformed.  FinishAs enters finish, whose
\* _drain has nothing to read once EOF was seen.
FinishAs(reason, inTry, atEof) ==
    /\ claim' = reason
    /\ guarded' = inTry
    /\ pc' = IF atEof THEN "verify_file" ELSE "drain"

Fail ==
    IF guarded
    THEN /\ FinishAs("malformed", FALSE, eof)
         /\ UNCHANGED <<inputs, outVars, fsVars, sourceVars, openVars, consumed,
                        eof, parsed, schemaSeen, dirty>>
    ELSE /\ Raise

-----------------------------------------------------------------------------------
(* Issuing the source, and opening a scan of it.                             *)

\* ArtifactSource._from_snapshot resolves the root and keeps its identity.
IssueRoot ==
    /\ pc = "issue"
    /\ issued' = [issued EXCEPT !.root = tree.root]
    /\ pc' = "lookup"
    /\ UNCHANGED <<inputs, outVars, fsVars, pass, openVars, readVars, parseVars,
                   dirty>>

\* _open_descriptor, first half: the root is the issued one, no component is
\* a link, and the parents' identities are remembered.
LookupPath ==
    /\ pc = "lookup"
    /\ IF tree.root = issued.root /\ tree.entry # Absent
       THEN /\ opened' = [opened EXCEPT !.parent = tree.parent]
            /\ pc' = "stat"
            /\ UNCHANGED <<inputs, outVars, fsVars, sourceVars, before, readVars,
                           parseVars, dirty>>
       ELSE Raise /\ UNCHANGED readErrors

\* before = os.lstat(current): a regular file of the recorded size.
StatPath ==
    /\ pc = "stat"
    /\ IF tree.entry # Absent /\ Len(data[tree.entry]) = Len(snap)
       THEN /\ before' = OpenIdentity(tree.entry)
            /\ pc' = "open"
            /\ UNCHANGED <<inputs, outVars, fsVars, sourceVars, opened, readVars,
                           parseVars, dirty>>
       ELSE Raise /\ UNCHANGED readErrors

\* os.open and the comparison of os.fstat with before.
OpenMatches ==
    /\ tree.entry # Absent
    /\ OpenIdentity(tree.entry) = before

\* Issuing the source opens the file once to learn its identity and closes it.
IssueFile ==
    /\ pc = "open" /\ pass = 0
    /\ IF OpenMatches
       THEN /\ issued' = [issued EXCEPT !.file = tree.entry]
            /\ pass' = 1 /\ pc' = "lookup"
            /\ Forget
            /\ UNCHANGED <<inputs, outVars, fsVars, readErrors, schemaSeen>>
       ELSE Raise /\ UNCHANGED readErrors

\* ArtifactScan._open: the descriptor must name the issued file.  An
\* integrity-only extraction calls finish at once.
OpenScan ==
    /\ pc = "open" /\ pass > 0
    /\ IF OpenMatches /\ tree.entry = issued.file
       THEN /\ opened' = [opened EXCEPT !.file = tree.entry,
                                        !.full = FileIdentity(tree.entry)]
            /\ consumed' = <<>> /\ eof' = FALSE /\ parsed' = 0 /\ dirty' = FALSE
            /\ IF scanner = "integrity"
               THEN pc' = "drain" /\ claim' = "complete" /\ guarded' = FALSE
               ELSE pc' = "consume" /\ claim' = NoClaim /\ guarded' = TRUE
            /\ UNCHANGED <<inputs, outVars, fsVars, sourceVars, before, readErrors,
                           schemaSeen>>
       ELSE Raise /\ UNCHANGED readErrors

-----------------------------------------------------------------------------------
(* Reading and parsing.                                                      *)

\* A plausible slip: the budget admits one row too many.
AtRecordBudgetLate ==
    Delimited(scanner) /\ parsed > 0 /\ RowsOf(parsed, scanner) > lim.records

\* The csv loop compares the record count before it asks for the next row.
AtRecordBudget ==
    Delimited(scanner) /\ parsed > 0 /\ RowsOf(parsed, scanner) >= lim.records

ReadyToRead ==
    /\ ~eof
    /\ \/ pc = "drain"
       \/ pc = "consume" /\ parsed = Len(consumed) /\ ~AtRecordBudget

Least(a, b) == IF a < b THEN a ELSE b

\* request = min(maximum, max(1, remaining)): one line past the budget may be
\* asked for, which is how the budget notices a longer artifact.
Request ==
    IF Len(consumed) < lim.integrity
    THEN Least(ChunkLines, lim.integrity - Len(consumed))
    ELSE 1

Unread == Len(data[opened.file]) - Len(consumed)

\* read_chunk returning a block (short reads included).
ReadBlock ==
    /\ ReadyToRead /\ Unread > 0 /\ Len(consumed) < lim.integrity
    /\ \E n \in 1..Least(Request, Unread) :
         consumed' = consumed \o
             SubSeq(data[opened.file], Len(consumed) + 1, Len(consumed) + n)
    /\ UNCHANGED <<inputs, outVars, fsVars, pc, sourceVars, openVars, eof,
                   readErrors, parseVars, dirty>>

\* read_chunk raising StreamingLimitError: the block is counted and hashed before
\* the budget is compared.  A handler finishes with the line past the budget, and
\* its second finish drains again, so it may read one more.  What had been read is
\* remembered when this error ends the extraction.
ReadPastBudget ==
    /\ ReadyToRead /\ Unread > 0
    /\ Len(consumed) >= lim.integrity
    /\ consumed' = Append(consumed, data[opened.file][Len(consumed) + 1])
    /\ IF guarded
       THEN /\ FinishAs("malformed", FALSE, eof)
            /\ UNCHANGED <<inputs, outVars, fsVars, sourceVars, openVars, eof,
                           readErrors, parsed, schemaSeen, dirty>>
       ELSE Leave /\ UNCHANGED readErrors

\* A plausible slip: the end of the file is not remembered.
ReadEofForgotten ==
    /\ ReadyToRead /\ Unread <= 0
    /\ UNCHANGED scanVars

ReadEof ==
    /\ ReadyToRead /\ Unread <= 0
    /\ eof' = TRUE
    /\ pc' = IF pc = "drain" THEN "verify_file" ELSE pc
    /\ UNCHANGED <<inputs, outVars, fsVars, sourceVars, openVars, consumed,
                   readErrors, parseVars, dirty>>

ReadError ==
    /\ ReadyToRead /\ readErrors < MaxReadErrors
    /\ readErrors' = readErrors + 1
    /\ Fail

\* Observations retained from the lines parsed so far.
Taken == Cardinality(Selected(consumed, parsed, scanner))
ObservationsFull == pass = 2 /\ Taken >= lim.observations
Picked(line) == scanner = "table" => line = "hit"

\* Why the next line stops the scan, in the order each scanner asks.
JsonlStop(line) ==
    IF parsed >= lim.records THEN "record_budget"
    ELSE IF ObservationsFull THEN "observation_budget"
    ELSE IF parsed + 1 > lim.semantic THEN "semantic_byte_budget"
    ELSE IF line = "bad" THEN "malformed" ELSE NoClaim

DelimitedStop(line) ==
    IF parsed + 1 > lim.semantic THEN "semantic_byte_budget"
    ELSE IF line = "bad" THEN "malformed"
    ELSE IF parsed > 0 /\ Picked(line) /\ ObservationsFull
    THEN "observation_budget" ELSE NoClaim

LineStop(line) ==
    IF Delimited(scanner) THEN DelimitedStop(line) ELSE JsonlStop(line)

ParseLine ==
    /\ pc = "consume" /\ parsed < Len(consumed) /\ ~AtRecordBudget
    /\ LET stop == LineStop(consumed[parsed + 1]) IN
       IF stop = NoClaim
       THEN parsed' = parsed + 1 /\ UNCHANGED <<pc, claim, guarded>>
       ELSE FinishAs(stop, FALSE, eof) /\ UNCHANGED parsed
    /\ UNCHANGED <<inputs, outVars, fsVars, sourceVars, openVars, readVars,
                   schemaSeen, dirty>>

\* What the scanning function claims once its loop is over.
Conclusion ==
    IF RowsOf(parsed, scanner) = 0 THEN "malformed"
    ELSE IF scanner = "table" /\ pass = 2 /\ Taken # Cardinal
    THEN "selector_mismatch" ELSE "complete"

\* The loop ends at EOF, or a csv loop leaves it at its record budget: with
\* bytes still unparsed that is an incomplete scan, otherwise the file simply
\* has as many rows as allowed.  The csv scanners call finish inside their try
\* body, the JSONL scanners after it.
EndOfLines ==
    /\ pc = "consume"
    /\ AtRecordBudget \/ (eof /\ parsed = Len(consumed))
    /\ IF AtRecordBudget /\ parsed < Len(snap)
       THEN FinishAs("record_budget", FALSE, eof)
       ELSE FinishAs(Conclusion, Delimited(scanner), eof)
    /\ UNCHANGED <<inputs, outVars, fsVars, sourceVars, openVars, readVars, parsed,
                   schemaSeen, dirty>>

-----------------------------------------------------------------------------------
(* finish: after the drain, _verify_stable_source asks the system again, one *)
(* call at a time, and then the bytes are compared with the recorded ones.   *)

Verify(here, holds, next) ==
    /\ pc = here
    /\ IF holds
       THEN /\ pc' = next
            /\ UNCHANGED <<inputs, outVars, fsVars, sourceVars, openVars, readVars,
                           parseVars, dirty>>
       ELSE Fail /\ UNCHANGED readErrors

\* A plausible slip: the portable identity, without the change time.
FileUnchangedPortable == OpenIdentity(opened.file) = opened.full.open

FileUnchanged == FileIdentity(opened.file) = opened.full
VerifyFile == Verify("verify_file", FileUnchanged, "verify_root")

RootUnchanged == tree.root = issued.root
VerifyRoot == Verify("verify_root", RootUnchanged, "verify_parent")

VerifyParent ==
    Verify("verify_parent", tree.parent = opened.parent, "verify_path")

VerifyPath ==
    Verify("verify_path",
           tree.entry # Absent /\ OpenIdentity(tree.entry) = opened.full.open,
           "report")

\* A plausible slip: the byte count is trusted without the hash.
LengthMatches == Len(consumed) = Len(snap)

\* The byte count and the SHA-256 of everything read against the candidate's.
BytesMatch == consumed = snap

ReportRefused ==
    /\ pc = "report" /\ ~BytesMatch
    /\ Fail
    /\ UNCHANGED readErrors

\* A ScanCompleteness is issued and the with statement closes the scan.
Issue ==
    /\ pc = "report" /\ BytesMatch
    /\ reported' = Append(reported, [claim |-> claim, lines |-> Len(consumed),
                                     stable |-> ~dirty])
    /\ Forget
    /\ UNCHANGED <<inputs, fsVars, issued, readErrors>>

\* A complete schema is followed by the observation scan of the same source.
ReportSchema ==
    /\ Issue
    /\ claim = "complete" /\ pass = 1 /\ scanner # "integrity"
    /\ schemaSeen' = SubSeq(consumed, 1, parsed)
    /\ pass' = 2 /\ pc' = "lookup"
    /\ UNCHANGED <<result, delivered>>

\* An incomplete or failed scan exposes no match and no evidence.
ReportIncomplete ==
    /\ Issue
    /\ claim # "complete"
    /\ Stop("incomplete", <<>>)
    /\ UNCHANGED <<pass, schemaSeen>>

\* Evidence of an integrity-only extraction is the artifact as a whole.
Evidence ==
    IF scanner = "integrity" THEN consumed ELSE SubSeq(consumed, 1, parsed)

ReportEvidence ==
    /\ Issue
    /\ claim = "complete" /\ (pass = 2 \/ scanner = "integrity")
    /\ Stop("evidence", Evidence)
    /\ UNCHANGED <<pass, schemaSeen>>

-----------------------------------------------------------------------------------
Program ==
    \/ IssueRoot \/ LookupPath \/ StatPath \/ IssueFile \/ OpenScan
    \/ ReadBlock \/ ReadPastBudget \/ ReadEof \/ ReadError
    \/ ParseLine \/ EndOfLines
    \/ VerifyFile \/ VerifyRoot \/ VerifyParent \/ VerifyPath
    \/ ReportRefused \/ ReportSchema \/ ReportIncomplete \/ ReportEvidence

\* The process has exited.
Exited == pc = "done" /\ UNCHANGED scanVars

ScanNext == Program \/ Environment \/ Exited

ScanSpec == ScanInit /\ [][ScanNext]_scanVars

\* A running process is scheduled; nothing is assumed of the other processes.
FairScanSpec == ScanSpec /\ WF_scanVars(Program)

-----------------------------------------------------------------------------------
Files == Inodes \cup {Absent}
Stats == [file : Files, size : Nat, mtime : Nat]
Reports == [claim : Claims, lines : Nat, stable : BOOLEAN]
HoldingDescriptor ==
    {"consume", "drain", "verify_file", "verify_root", "verify_parent",
     "verify_path", "report"}

\* Types; while a descriptor is held it names a file, and the parser never runs
\* ahead of the reader.
TypeOK ==
    /\ snap \in Snapshots /\ lim \in LimitChoices /\ scanner \in Scanners
    /\ result \in {"pending", "evidence", "incomplete", "raised"}
    /\ delivered \in Seq(LineKinds) /\ schemaSeen \in Seq(LineKinds)
    /\ reported \in Seq(Reports)
    /\ tree \in [root : Dirs, parent : Dirs, entry : Files]
    /\ data \in [Inodes -> Seq(LineKinds)]
    /\ mtime \in [Inodes -> Nat] /\ ctime \in [Inodes -> Nat]
    /\ changes \in Nat /\ readErrors \in Nat
    /\ pc \in {"issue", "lookup", "stat", "open", "done"} \cup HoldingDescriptor
    /\ pass \in 0..2
    /\ issued \in [root : Dirs \cup {Absent}, file : Files]
    /\ before \in Stats
    /\ opened \in [file : Files, full : [open : Stats, ctime : Nat],
                   parent : Dirs \cup {Absent}]
    /\ pc \in HoldingDescriptor => opened.file \in Inodes
    /\ consumed \in Seq(LineKinds) /\ eof \in BOOLEAN
    /\ parsed \in Nat /\ parsed <= Len(consumed)
    /\ claim \in Claims /\ guarded \in BOOLEAN /\ dirty \in BOOLEAN

\* Evidence is only ever computed from the recorded bytes, all of them, in both
\* passes, whatever happened to the files between the two openings: the schema
\* (which names the columns) and the observations (which read them) saw the same
\* lines.  extract_registered_source reopens the artifact between the two.
EvidenceFromOneSnapshot ==
    result = "evidence" =>
        /\ delivered = snap
        /\ scanner # "integrity" => schemaSeen = snap

\* No report is issued over a file that was rewritten in place between the
\* opening of the descriptor and its last fstat, even when the writer put the
\* size, the modification time and the bytes back (_verify_stable_source).
ReportsOnStableFile == \A i \in 1..Len(reported) : reported[i].stable

\* A file that keeps growing, or is longer than the budget, costs one unit of
\* reading past max_integrity_bytes, or two where a handler finishes again: who
\* has read the second one ends with the limit error and reports nothing.
ReadsBounded ==
    /\ Len(consumed) <= lim.integrity + 2
    /\ Len(consumed) > lim.integrity + 1 => result = "raised"

\* When nothing changed the files and no read failed, the outcome is a function
\* of the artifact and the limits: evidence exactly for an eligible artifact.
\* The boundaries of all four budgets and the empty file are the cases to fear.
UndisturbedOutcome ==
    /\ pc = "done" /\ changes = 0 /\ readErrors = 0
    /\ tree.entry # Absent /\ data[tree.entry] = snap
    => (result = "evidence" <=> Eligible(snap, lim, scanner))

\* max_integrity_bytes bounds what a scan may verify: a report covers at most
\* that many bytes (docs/superpowers/specs/2026-08-25-claimci-streaming-artifact-
\* v1-design.md: the drain is "subject to the independent integrity-I/O budget").
ReportWithinIntegrityBudget ==
    \A i \in 1..Len(reported) : reported[i].lines <= lim.integrity

-----------------------------------------------------------------------------------
(* The inductive invariant behind EvidenceFromOneSnapshot, ReadsBounded and  *)
(* the refinement of SnapshotExtraction.                                     *)

\* The extraction has an outcome exactly when it is over.
OutcomeInv ==
    /\ (pc = "done") = (result # "pending")
    /\ result # "evidence" => delivered = <<>>

\* The second pass starts only after a schema computed from the whole artifact.
PassInv == pass = 2 => schemaSeen = snap /\ scanner # "integrity"

\* What the parser has accepted is well formed and inside the budgets.
ParserInv ==
    /\ \A i \in 1..parsed : consumed[i] # "bad"
    /\ parsed <= lim.semantic
    /\ RowsOf(parsed, scanner) <= lim.records
    /\ pass = 2 => Taken <= lim.observations

\* The loop runs before anything is claimed.  A scan that claims to be complete
\* has parsed all it was given, or already as many lines as the artifact has.
ClaimInv ==
    /\ pc = "consume" => claim = NoClaim
    /\ claim = "complete" /\ scanner # "integrity" =>
         /\ parsed >= Len(snap) \/ (eof /\ parsed = Len(consumed))
         /\ RowsOf(parsed, scanner) > 0
         /\ scanner = "table" /\ pass = 2 => Taken = Cardinal

\* Past the integrity budget only the handler's malformed report is left.
BudgetInv ==
    /\ ReadsBounded
    /\ pc # "done" /\ (guarded \/ claim # "malformed") =>
         Len(consumed) <= lim.integrity

ScanInv ==
    /\ TypeOK /\ OutcomeInv /\ PassInv /\ ParserInv /\ ClaimInv /\ BudgetInv
    /\ EvidenceFromOneSnapshot

\* Behind ReportsOnStableFile: a write to the open file shows in its change time, and
\* who has passed the last fstat has seen none.
StableInv ==
    /\ pc \in HoldingDescriptor =>
         /\ opened.full.ctime <= ctime[opened.file]
         /\ dirty => opened.full.ctime < ctime[opened.file]
    /\ pc \in {"verify_root", "verify_parent", "verify_path", "report"} => ~dirty
    /\ ReportsOnStableFile

\* Behind UndisturbedOutcome: every identity that was remembered is still there,
\* and reading an eligible artifact gives no reason to stop.
Undisturbed ==
    /\ changes = 0 /\ readErrors = 0
    /\ tree.entry # Absent /\ data[tree.entry] = snap

Remembered ==
    /\ pc # "issue" => issued.root = tree.root
    /\ pass > 0 => issued.file = tree.entry
    /\ pc \in {"stat", "open"} \cup HoldingDescriptor => opened.parent = tree.parent
    /\ pc = "open" => before = OpenIdentity(tree.entry)

Following ==
    /\ opened.file = tree.entry /\ opened.full = FileIdentity(tree.entry) /\ pass > 0
    /\ Len(consumed) <= Len(snap)
    /\ \A i \in 1..Len(consumed) : consumed[i] = snap[i]
    /\ eof => Len(consumed) = Len(snap)
    /\ pc \notin {"consume", "drain"} => eof
    /\ pc = "consume" => scanner # "integrity"

Willing ==
    /\ result \notin {"incomplete", "raised"}
    /\ pc \in HoldingDescriptor \ {"consume"} => claim = "complete"

Calm ==
    /\ Remembered
    /\ pc \in HoldingDescriptor => Following
    /\ Eligible(snap, lim, scanner) => Willing

EvidenceEligible == result = "evidence" => Eligible(snap, lim, scanner)

UndisturbedInv == EvidenceEligible /\ (Undisturbed => Calm)

\* Extraction always ends, with every descriptor closed by its with statement,
\* whatever other processes do to the files.
Terminates == <>(pc = "done" /\ opened = NoOpen)

\* Seen from outside, the extraction is one atomic look at the recorded bytes.
Atomic == INSTANCE SnapshotExtraction
ImplementsSnapshot == Atomic!Spec
====
