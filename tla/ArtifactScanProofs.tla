---------------------------- MODULE ArtifactScanProofs ----------------------------
(***************************************************************************)
(* Proofs about ArtifactScan, for every artifact, budget, file system and  *)
(* number of changes.                                                      *)
(***************************************************************************)
EXTENDS ArtifactScan, FiniteSetTheorems, SequenceTheorems, TLAPS

USE DEF fsVars, sourceVars, openVars, readVars, parseVars, outVars, inputs

-----------------------------------------------------------------------------------
(* Types. *)

LEMMA InitTypeOK == ScanInit => TypeOK
<1> SUFFICES ASSUME ScanInit PROVE TypeOK
  OBVIOUS
<1> USE DEF ScanInit, Init
<1>1. /\ Snapshots \subseteq Seq(LineKinds) /\ Written \subseteq Seq(LineKinds)
      /\ snap \in Snapshots
  BY ExtractionAssumption, ScanAssumption
<1>2. data \in [Inodes -> Seq(LineKinds)]
  BY <1>1
<1>3. /\ tree \in [root : Dirs, parent : Dirs, entry : Files]
      /\ issued \in [root : Dirs \cup {Absent}, file : Files]
      /\ before \in Stats
      /\ opened \in [file : Files, full : [open : Stats, ctime : Nat],
                     parent : Dirs \cup {Absent}]
  BY DEF Files, Stats, NoStat, NoOpen
<1>4. /\ delivered \in Seq(LineKinds) /\ schemaSeen \in Seq(LineKinds)
      /\ reported \in Seq(Reports) /\ consumed \in Seq(LineKinds)
      /\ parsed <= Len(consumed)
  OBVIOUS
<1>5. claim \in Claims /\ guarded \in BOOLEAN /\ dirty \in BOOLEAN /\ eof \in BOOLEAN
  BY DEF Claims
<1>6. pc \notin HoldingDescriptor
  BY DEF HoldingDescriptor
<1>7. mtime \in [Inodes -> Nat] /\ ctime \in [Inodes -> Nat]
  OBVIOUS
<1> QED
  BY <1>1, <1>2, <1>3, <1>4, <1>5, <1>6, <1>7 DEF TypeOK

LEMMA CloseTypes ==
  ASSUME TypeOK, Close, consumed' \in Seq(LineKinds)
  PROVE  /\ before' \in Stats
         /\ opened' \in [file : Files, full : [open : Stats, ctime : Nat],
                         parent : Dirs \cup {Absent}]
         /\ eof' \in BOOLEAN
         /\ parsed' \in Nat /\ parsed' <= Len(consumed')
         /\ claim' \in Claims /\ guarded' \in BOOLEAN /\ dirty' \in BOOLEAN
<1>1. NoStat \in Stats
  BY DEF NoStat, Stats, Files
<1>2. NoOpen \in [file : Files, full : [open : Stats, ctime : Nat],
                   parent : Dirs \cup {Absent}]
  BY <1>1 DEF NoOpen, Files
<1>3. 0 <= Len(consumed')
  OBVIOUS
<1> QED
  BY <1>1, <1>2, <1>3 DEF Close, Claims

LEMMA ForgetTypes ==
  ASSUME TypeOK, Forget
  PROVE  /\ before' \in Stats
         /\ opened' \in [file : Files, full : [open : Stats, ctime : Nat],
                         parent : Dirs \cup {Absent}]
         /\ consumed' \in Seq(LineKinds) /\ eof' \in BOOLEAN
         /\ parsed' \in Nat /\ parsed' <= Len(consumed')
         /\ claim' \in Claims /\ guarded' \in BOOLEAN /\ dirty' \in BOOLEAN
<1>1. consumed' \in Seq(LineKinds)
  BY DEF Forget
<1> QED
  BY <1>1, CloseTypes DEF Forget

LEMMA LeaveTypeOK ==
  ASSUME TypeOK, Leave, consumed' \in Seq(LineKinds), readErrors' \in Nat
  PROVE  TypeOK'
<1>1. Close /\ Stop("raised", <<>>)
  BY DEF Leave
<1>2. pc' = "done" /\ result' = "raised" /\ delivered' \in Seq(LineKinds)
  BY <1>1 DEF Stop
<1>3. pc' \notin HoldingDescriptor
  BY <1>2 DEF HoldingDescriptor
<1> QED
  BY <1>1, <1>2, <1>3, CloseTypes DEF TypeOK, Leave

LEMMA RaiseTypeOK == ASSUME TypeOK, Raise, readErrors' \in Nat PROVE TypeOK'
<1>1. Leave /\ consumed' \in Seq(LineKinds)
  BY DEF Raise
<1> QED
  BY <1>1, LeaveTypeOK

LEMMA FinishAsTypes ==
  ASSUME NEW reason \in Claims, NEW inTry \in BOOLEAN, NEW atEof,
         FinishAs(reason, inTry, atEof)
  PROVE  claim' \in Claims /\ guarded' \in BOOLEAN /\ pc' \in HoldingDescriptor
  BY DEF FinishAs, HoldingDescriptor

LEMMA FailTypeOK == ASSUME TypeOK, pc \in HoldingDescriptor, Fail, readErrors' \in Nat
                    PROVE  TypeOK'
<1>1. CASE guarded
  BY <1>1 DEF Fail, FinishAs, TypeOK, HoldingDescriptor, Claims, StopReasons
<1>2. CASE ~guarded
  BY <1>2, RaiseTypeOK DEF Fail
<1> QED
  BY <1>1, <1>2

LEMMA VerifyTypeOK ==
  ASSUME TypeOK, NEW here \in HoldingDescriptor, NEW next \in HoldingDescriptor,
         NEW holds, Verify(here, holds, next)
  PROVE  TypeOK'
<1>1. CASE holds
  BY <1>1 DEF Verify, TypeOK
<1>2. CASE ~holds
  BY <1>2, FailTypeOK DEF Verify, TypeOK
<1> QED
  BY <1>1, <1>2

LEMMA ReadBlockTypeOK == TypeOK /\ ReadBlock => TypeOK'
<1> SUFFICES ASSUME TypeOK, ReadBlock PROVE TypeOK'
  OBVIOUS
<1> DEFINE d == data[opened.file]
<1>1. d \in Seq(LineKinds) /\ consumed \in Seq(LineKinds)
  BY DEF ReadBlock, ReadyToRead, TypeOK, HoldingDescriptor
<1>2. lim.integrity \in Nat /\ ChunkLines \in Nat
  BY ExtractionAssumption, ScanAssumption DEF TypeOK, LimitRecords
<1>3. PICK n \in 1..Least(Request, Unread) :
        consumed' = consumed \o SubSeq(d, Len(consumed) + 1, Len(consumed) + n)
  BY DEF ReadBlock
<1>4. Len(consumed) + n <= Len(d)
  BY <1>1, <1>2, <1>3 DEF Least, Request, Unread
<1>5. SubSeq(d, Len(consumed) + 1, Len(consumed) + n) \in Seq(LineKinds)
  BY <1>1, <1>3, <1>4
<1>6. consumed' \in Seq(LineKinds) /\ Len(consumed') >= Len(consumed)
  BY <1>1, <1>3, <1>5
<1> QED
  BY <1>1, <1>6 DEF ReadBlock, TypeOK

LEMMA ReadPastBudgetTypeOK == TypeOK /\ ReadPastBudget => TypeOK'
<1> SUFFICES ASSUME TypeOK, ReadPastBudget PROVE TypeOK'
  OBVIOUS
<1> DEFINE d == data[opened.file]
<1>1. d \in Seq(LineKinds) /\ consumed \in Seq(LineKinds)
  BY DEF ReadPastBudget, ReadyToRead, TypeOK, HoldingDescriptor
<1>2. d[Len(consumed) + 1] \in LineKinds
  BY <1>1 DEF ReadPastBudget, Unread
<1>5. consumed' = Append(consumed, d[Len(consumed) + 1])
  BY DEF ReadPastBudget
<1>6. consumed' \in Seq(LineKinds) /\ Len(consumed') = Len(consumed) + 1
  BY <1>1, <1>2, <1>5
<1>3. CASE guarded
  <2>2. consumed' \in Seq(LineKinds) /\ Len(consumed') = Len(consumed) + 1
    BY <1>6
  <2>3. claim' \in Claims /\ guarded' \in BOOLEAN /\ pc' \in HoldingDescriptor
    BY <1>3, FinishAsTypes DEF ReadPastBudget, Claims, StopReasons
  <2>4. opened.file \in Inodes
    BY DEF ReadPastBudget, ReadyToRead, TypeOK, HoldingDescriptor
  <2> QED
    BY <1>3, <2>2, <2>3, <2>4 DEF ReadPastBudget, TypeOK
<1>4. CASE ~guarded
  BY <1>4, <1>6, LeaveTypeOK DEF ReadPastBudget, TypeOK
<1> QED
  BY <1>3, <1>4

LEMMA IssueTypes ==
  ASSUME TypeOK, Issue
  PROVE  /\ Forget
         /\ reported' \in Seq(Reports)
         /\ consumed = snap
         /\ SubSeq(consumed, 1, parsed) \in Seq(LineKinds)
<1>1. [claim |-> claim, lines |-> Len(consumed), stable |-> ~dirty] \in Reports
  BY DEF TypeOK, Reports
<1>2. SubSeq(consumed, 1, parsed) \in Seq(LineKinds)
  BY DEF TypeOK
<1> QED
  BY <1>1, <1>2 DEF Issue, TypeOK, BytesMatch

LEMMA ParseLineTypeOK == TypeOK /\ ParseLine => TypeOK'
<1> SUFFICES ASSUME TypeOK, ParseLine PROVE TypeOK'
  OBVIOUS
<1> DEFINE stop == LineStop(consumed[parsed + 1])
<1>1. stop \in Claims
  BY DEF LineStop, DelimitedStop, JsonlStop, Claims, StopReasons, NoClaim
<1>2. pc \in HoldingDescriptor
  BY DEF ParseLine, HoldingDescriptor
<1>3. CASE stop = NoClaim
  BY <1>2, <1>3 DEF ParseLine, TypeOK
<1>4. CASE stop # NoClaim
  <2>1. claim' \in Claims /\ guarded' \in BOOLEAN /\ pc' \in HoldingDescriptor
    BY <1>1, <1>4, FinishAsTypes DEF ParseLine
  <2> QED
    BY <1>2, <1>4, <2>1 DEF ParseLine, TypeOK
<1> QED
  BY <1>3, <1>4

LEMMA EndOfLinesTypeOK == TypeOK /\ EndOfLines => TypeOK'
<1> SUFFICES ASSUME TypeOK, EndOfLines PROVE TypeOK'
  OBVIOUS
<1>1. Conclusion \in Claims /\ "record_budget" \in Claims
  BY DEF Conclusion, Claims, StopReasons
<1>2. Delimited(scanner) \in BOOLEAN
  BY DEF Delimited
<1>3. pc \in HoldingDescriptor
  BY DEF EndOfLines, HoldingDescriptor
<1>4. claim' \in Claims /\ guarded' \in BOOLEAN /\ pc' \in HoldingDescriptor
  BY <1>1, <1>2, FinishAsTypes DEF EndOfLines
<1> QED
  BY <1>3, <1>4 DEF EndOfLines, TypeOK

LEMMA EnvironmentTypeOK == TypeOK /\ Environment => TypeOK'
<1> SUFFICES ASSUME TypeOK, Environment PROVE TypeOK'
  OBVIOUS
<1>1. CASE Relink
  <2>1. /\ tree' \in [root : Dirs, parent : Dirs, entry : Files]
        /\ changes' \in Nat
    BY <1>1 DEF Relink, TypeOK, Files
  <2> QED
    BY <1>1, <2>1 DEF Relink, TypeOK
<1>2. ASSUME NEW f \in Inodes, Rewrite(f) PROVE TypeOK'
  <2>1. /\ data' \in [Inodes -> Seq(LineKinds)]
        /\ mtime' \in [Inodes -> Nat] /\ ctime' \in [Inodes -> Nat]
    <3>1. PICK w \in Written : data' = [data EXCEPT ![f] = w]
      BY <1>2 DEF Rewrite
    <3>2. w \in Seq(LineKinds)
      BY <3>1, ScanAssumption
    <3>3. data' \in [Inodes -> Seq(LineKinds)]
      BY <3>1, <3>2 DEF TypeOK
    <3>4. mtime' = mtime \/ mtime' = [mtime EXCEPT ![f] = @ + 1]
      BY <1>2 DEF Rewrite
    <3>5. mtime' \in [Inodes -> Nat]
      BY <3>4 DEF TypeOK
    <3>6. ctime' \in [Inodes -> Nat]
      BY <1>2 DEF Rewrite, TypeOK
    <3> QED
      BY <3>3, <3>5, <3>6
  <2>2. dirty' \in BOOLEAN
    BY <1>2 DEF Rewrite, TypeOK, Scanning
  <2> QED
    BY <1>2, <2>1, <2>2 DEF Rewrite, TypeOK
<1> QED
  BY <1>1, <1>2 DEF Environment

LEMMA OpeningTypeOK ==
  ASSUME TypeOK, IssueRoot \/ LookupPath \/ StatPath \/ IssueFile \/ OpenScan
  PROVE  TypeOK'
<1> USE DEF TypeOK
<1>1. CASE IssueRoot
  BY <1>1 DEF IssueRoot, HoldingDescriptor
<1>2. CASE LookupPath
  <2>1. CASE pc' = "stat"
    <3>1. pc' \notin HoldingDescriptor
      BY <2>1 DEF HoldingDescriptor
    <3> QED
      BY <1>2, <2>1, <3>1 DEF LookupPath, Raise, Leave, Stop
  <2>2. CASE pc' # "stat"
    BY <1>2, <2>2, RaiseTypeOK DEF LookupPath
  <2> QED
    BY <2>1, <2>2
<1>3. CASE StatPath
  <2>1. CASE pc' = "open"
    <3>1. tree.entry \in Inodes
      BY <1>3, <2>1 DEF StatPath, Raise, Leave, Stop, Files
    <3>2. before' \in Stats
      BY <1>3, <2>1, <3>1 DEF StatPath, Raise, Leave, Stop, OpenIdentity, Stats, Files
    <3>3. pc' \notin HoldingDescriptor
      BY <2>1 DEF HoldingDescriptor
    <3> QED
      BY <1>3, <2>1, <3>2, <3>3 DEF StatPath, Raise, Leave, Stop
  <2>2. CASE pc' # "open"
    BY <1>3, <2>2, RaiseTypeOK DEF StatPath
  <2> QED
    BY <2>1, <2>2
<1>4. CASE IssueFile
  <2>1. CASE OpenMatches
    <3>1. Forget /\ pc' = "lookup" /\ pass' = 1
      BY <1>4, <2>1 DEF IssueFile
    <3>2. pc' \notin HoldingDescriptor
      BY <3>1 DEF HoldingDescriptor
    <3> HIDE DEF TypeOK
    <3>3. issued' \in [root : Dirs \cup {Absent}, file : Files]
      BY <1>4, <2>1 DEF IssueFile, TypeOK
    <3> QED
      BY <1>4, <2>1, <3>1, <3>2, <3>3, ForgetTypes DEF IssueFile, TypeOK
  <2>2. CASE ~OpenMatches
    BY <1>4, <2>2, RaiseTypeOK DEF IssueFile
  <2> QED
    BY <2>1, <2>2
<1>5. CASE OpenScan
  <2>1. CASE OpenMatches /\ tree.entry = issued.file
    <3>1. tree.entry \in Inodes
      BY <2>1 DEF OpenMatches, Files
    <3>2. FileIdentity(tree.entry) \in [open : Stats, ctime : Nat]
      BY <3>1 DEF FileIdentity, OpenIdentity, Stats, Files
    <3>3. opened' \in [file : Inodes, full : [open : Stats, ctime : Nat],
                       parent : Dirs \cup {Absent}]
      BY <1>5, <2>1, <3>1, <3>2 DEF OpenScan
    <3>4. /\ consumed' \in Seq(LineKinds) /\ eof' = FALSE
          /\ parsed' = 0 /\ parsed' <= Len(consumed')
      BY <1>5, <2>1 DEF OpenScan
    <3>5. claim' \in Claims /\ guarded' \in BOOLEAN /\ pc' \in HoldingDescriptor
      BY <1>5, <2>1 DEF OpenScan, Claims, HoldingDescriptor
    <3> QED
      BY <1>5, <2>1, <3>3, <3>4, <3>5 DEF OpenScan, Files
  <2>2. CASE ~(OpenMatches /\ tree.entry = issued.file)
    BY <1>5, <2>2, RaiseTypeOK DEF OpenScan
  <2> QED
    BY <2>1, <2>2
<1> QED
  BY <1>1, <1>2, <1>3, <1>4, <1>5

LEMMA ReportTypeOK ==
  ASSUME TypeOK, ReportSchema \/ ReportIncomplete \/ ReportEvidence
  PROVE  TypeOK'
<1>1. Issue
  BY DEF ReportSchema, ReportIncomplete, ReportEvidence
<1>2. pc' \in {"lookup", "done"} /\ pc' \notin HoldingDescriptor
  BY DEF ReportSchema, ReportIncomplete, ReportEvidence, Stop, HoldingDescriptor
<1>3. Evidence \in Seq(LineKinds)
  BY <1>1, IssueTypes DEF Evidence, TypeOK
<1>4. /\ schemaSeen' \in Seq(LineKinds) /\ delivered' \in Seq(LineKinds)
      /\ pass' \in 0..2
      /\ result' \in {"pending", "evidence", "incomplete", "raised"}
  <2>1. SubSeq(consumed, 1, parsed) \in Seq(LineKinds) /\ <<>> \in Seq(LineKinds)
    BY <1>1, IssueTypes
  <2>2. CASE ReportSchema
    BY <2>1, <2>2 DEF ReportSchema, TypeOK
  <2>3. CASE ReportIncomplete
    BY <2>1, <2>3 DEF ReportIncomplete, Stop, TypeOK
  <2>4. CASE ReportEvidence
    BY <1>3, <2>1, <2>4 DEF ReportEvidence, Stop, TypeOK
  <2> QED
    BY <2>2, <2>3, <2>4
<1> QED
  BY <1>1, <1>2, <1>4, IssueTypes, ForgetTypes DEF Issue, TypeOK

LEMMA NextTypeOK == TypeOK /\ [ScanNext]_scanVars => TypeOK'
<1> SUFFICES ASSUME TypeOK, [ScanNext]_scanVars PROVE TypeOK'
  OBVIOUS
<1>1. CASE IssueRoot \/ LookupPath \/ StatPath \/ IssueFile \/ OpenScan
  BY <1>1, OpeningTypeOK
<1>2. CASE ReadBlock
  BY <1>2, ReadBlockTypeOK
<1>3. CASE ReadPastBudget
  BY <1>3, ReadPastBudgetTypeOK
<1>4. CASE ReadEof
  <2>1. pc \in HoldingDescriptor /\ pc' \in HoldingDescriptor
    BY <1>4 DEF ReadEof, ReadyToRead, HoldingDescriptor
  <2> QED
    BY <1>4, <2>1 DEF ReadEof, TypeOK
<1>5. CASE ReadError
  <2>1. pc \in HoldingDescriptor
    BY <1>5 DEF ReadError, ReadyToRead, HoldingDescriptor
  <2>2. readErrors' \in Nat
    BY <1>5 DEF ReadError, TypeOK
  <2> QED
    BY <1>5, <2>1, <2>2, FailTypeOK DEF ReadError
<1>6. CASE ParseLine
  BY <1>6, ParseLineTypeOK
<1>7. CASE EndOfLines
  BY <1>7, EndOfLinesTypeOK
<1>8. CASE VerifyFile \/ VerifyRoot \/ VerifyParent \/ VerifyPath
  BY <1>8, VerifyTypeOK
  DEF VerifyFile, VerifyRoot, VerifyParent, VerifyPath, HoldingDescriptor
<1>9. CASE ReportRefused
  <2>1. pc \in HoldingDescriptor /\ readErrors' \in Nat
    BY <1>9 DEF ReportRefused, TypeOK, HoldingDescriptor
  <2> QED
    BY <1>9, <2>1, FailTypeOK DEF ReportRefused
<1>10. CASE ReportSchema \/ ReportIncomplete \/ ReportEvidence
  BY <1>10, ReportTypeOK
<1>11. CASE Environment
  BY <1>11, EnvironmentTypeOK
<1>12. CASE UNCHANGED scanVars
  BY <1>12 DEF scanVars, TypeOK
<1> QED
  BY <1>1, <1>2, <1>3, <1>4, <1>5, <1>6, <1>7, <1>8, <1>9, <1>10, <1>11, <1>12
  DEF ScanNext, Program, Exited

\* Every variable keeps its type, the parser stays behind the reader and every
\* read goes to a file, in every state any extraction can reach.
THEOREM ScanTypeCorrect == ScanSpec => []TypeOK
  BY InitTypeOK, NextTypeOK, PTL DEF ScanSpec

-----------------------------------------------------------------------------------
(* Counting observations. *)

LEMMA SelectedFinite ==
  ASSUME NEW s, NEW n \in Nat, NEW sc
  PROVE  /\ IsFiniteSet(Selected(s, n, sc))
         /\ Cardinality(Selected(s, n, sc)) \in Nat
         /\ n = 0 => Cardinality(Selected(s, n, sc)) = 0
<1>1. Selected(s, n, sc) \subseteq 1..n
  BY DEF Selected
<1>2. IsFiniteSet(1..n)
  BY FS_Interval
<1>3. IsFiniteSet(Selected(s, n, sc))
  BY <1>1, <1>2, FS_Subset
<1>4. ASSUME n = 0 PROVE Selected(s, n, sc) = {}
  BY <1>1, <1>4
<1> QED
  BY <1>3, <1>4, FS_CardinalityType, FS_EmptySet

\* One more line adds at most one observation, and none if the table selector
\* does not pick it or the line is the header.
LEMMA SelectedNext ==
  ASSUME NEW s, NEW n \in Nat, NEW sc
  PROVE  /\ Cardinality(Selected(s, n + 1, sc)) <= Cardinality(Selected(s, n, sc)) + 1
         /\ (sc = "table" /\ s[n + 1] # "hit") \/ (Delimited(sc) /\ n = 0) =>
              Selected(s, n + 1, sc) = Selected(s, n, sc)
<1> DEFINE A == Selected(s, n, sc)
           B == Selected(s, n + 1, sc)
<1>1. IsFiniteSet(A) /\ Cardinality(A) \in Nat
  BY SelectedFinite
<1>2. B \subseteq A \cup {n + 1}
  BY DEF Selected
<1>3. /\ IsFiniteSet(A \cup {n + 1})
      /\ Cardinality(A \cup {n + 1}) <= Cardinality(A) + 1
  BY <1>1, FS_AddElement
<1>4. Cardinality(B) <= Cardinality(A \cup {n + 1})
  BY <1>2, <1>3, FS_Subset
<1>5. Cardinality(B) \in Nat /\ Cardinality(A \cup {n + 1}) \in Nat
  BY <1>3, SelectedFinite, FS_CardinalityType
<1>6. Cardinality(B) <= Cardinality(A) + 1
  BY <1>1, <1>3, <1>4, <1>5
<1>7. ASSUME (sc = "table" /\ s[n + 1] # "hit") \/ (Delimited(sc) /\ n = 0)
      PROVE  B = A
  <2>1. CASE sc = "table" /\ s[n + 1] # "hit"
    <3>1. A = {i \in 2..n : s[i] = "hit"} /\ B = {i \in 2..(n + 1) : s[i] = "hit"}
      BY <2>1 DEF Selected
    <3> QED
      BY <2>1, <3>1
  <2>2. CASE Delimited(sc) /\ n = 0
    <3>1. 2..0 = {} /\ 2..1 = {}
      OBVIOUS
    <3>2. A = {} /\ B = {}
      BY <2>2, <3>1 DEF Selected, Delimited
    <3> QED
      BY <3>2
  <2> QED
    BY <1>7, <2>1, <2>2
<1> QED
  BY <1>6, <1>7

\* Lines read later do not change which of the first n are observations.
LEMMA SelectedPrefix ==
  ASSUME NEW s, NEW t, NEW n \in Nat, NEW sc, \A i \in 1..n : s[i] = t[i]
  PROVE  Selected(s, n, sc) = Selected(t, n, sc)
  BY DEF Selected

-----------------------------------------------------------------------------------
(* The inductive invariant. *)

Core == OutcomeInv /\ PassInv /\ ParserInv /\ ClaimInv /\ BudgetInv
          /\ EvidenceFromOneSnapshot

LEMMA LimitsAreNumbers ==
  ASSUME TypeOK
  PROVE  /\ lim.integrity \in Nat /\ lim.semantic \in Nat
         /\ lim.records \in Nat /\ lim.observations \in Nat
         /\ snap \in Seq(LineKinds) /\ Len(snap) \in Nat
         /\ Cardinal \in Nat /\ Cardinal > 0
  BY ExtractionAssumption DEF TypeOK, LimitRecords

LEMMA CloseParser ==
  ASSUME TypeOK, Close, UNCHANGED inputs
  PROVE  ParserInv' /\ ClaimInv'
<1>1. parsed' = 0 /\ claim' = NoClaim /\ guarded' = FALSE
  BY DEF Close
<1>2. RowsOf(0, scanner') = 0
  BY DEF RowsOf
<1>3. Cardinality(Selected(consumed', 0, scanner')) = 0
  BY SelectedFinite
<1>4. ParserInv'
  BY <1>1, <1>2, <1>3, LimitsAreNumbers DEF ParserInv, Taken
<1> QED
  BY <1>1, <1>4, LimitsAreNumbers DEF ClaimInv, NoClaim

LEMMA ForgetParser ==
  ASSUME TypeOK, Forget, UNCHANGED inputs
  PROVE  ParserInv' /\ ClaimInv' /\ BudgetInv'
<1>1. Len(consumed') = 0 /\ Close
  BY DEF Forget
<1>2. BudgetInv'
  BY <1>1, LimitsAreNumbers DEF BudgetInv, ReadsBounded
<1> QED
  BY <1>1, <1>2, CloseParser

LEMMA InitCore == ScanInit => Core
<1> SUFFICES ASSUME ScanInit PROVE Core
  OBVIOUS
<1> USE DEF ScanInit, Init
<1>1. TypeOK
  BY InitTypeOK
<1>2. RowsOf(0, scanner) = 0 /\ Cardinality(Selected(consumed, 0, scanner)) = 0
  BY SelectedFinite DEF RowsOf
<1>3. ParserInv
  BY <1>1, <1>2, LimitsAreNumbers DEF ParserInv, Taken
<1>4. ClaimInv /\ BudgetInv
  BY <1>1, LimitsAreNumbers DEF ClaimInv, BudgetInv, ReadsBounded, NoClaim
<1> QED
  BY <1>3, <1>4 DEF Core, OutcomeInv, PassInv, EvidenceFromOneSnapshot

LEMMA LeaveCore == ASSUME TypeOK, Core, Leave, BudgetInv' PROVE Core'
<1>1. ParserInv' /\ ClaimInv'
  BY CloseParser DEF Leave
<1>2. OutcomeInv' /\ PassInv' /\ EvidenceFromOneSnapshot'
  BY DEF Leave, Stop, Core, OutcomeInv, PassInv, EvidenceFromOneSnapshot
<1> QED
  BY <1>1, <1>2 DEF Core

LEMMA RaiseCore == ASSUME TypeOK, Core, Raise PROVE Core'
<1>1. Leave /\ Forget
  BY DEF Raise, Leave, Forget
<1>2. BudgetInv'
  BY <1>1, ForgetParser DEF Leave
<1> QED
  BY <1>1, <1>2, LeaveCore

\* Entering finish with a claim that is not "complete" keeps everything.
LEMMA FailCore == ASSUME TypeOK, Core, pc \in HoldingDescriptor, Fail PROVE Core'
<1>1. CASE guarded
  <2>1. /\ claim' = "malformed" /\ pc' \notin {"done", "consume"} /\ pc # "done"
        /\ guarded' = FALSE
        /\ UNCHANGED <<inputs, outVars, pass, consumed, eof, parsed, schemaSeen>>
    BY <1>1 DEF Fail, FinishAs, HoldingDescriptor
  <2> QED
    BY <2>1
    DEF Core, OutcomeInv, PassInv, ParserInv, ClaimInv, BudgetInv, ReadsBounded, Taken,
        EvidenceFromOneSnapshot
<1>2. CASE ~guarded
  BY <1>2, RaiseCore DEF Fail
<1> QED
  BY <1>1, <1>2

\* Steps that touch neither the reader, the parser nor the outcome.
LEMMA FrameCore ==
  ASSUME Core, pc' \notin {"done", "consume"}, pc # "done",
         UNCHANGED <<inputs, result, delivered, pass, consumed, eof, parsed, claim,
                     guarded, schemaSeen>>
  PROVE  Core'
  BY DEF Core, OutcomeInv, PassInv, ParserInv, ClaimInv, BudgetInv, ReadsBounded, Taken,
         EvidenceFromOneSnapshot

LEMMA OpeningCore ==
  ASSUME TypeOK, Core,
         IssueRoot \/ LookupPath \/ StatPath \/ IssueFile \/ OpenScan
  PROVE  Core'
<1>1. CASE IssueRoot
  BY <1>1, FrameCore DEF IssueRoot
<1>2. CASE LookupPath
  <2>1. CASE pc' = "stat"
    BY <1>2, <2>1, FrameCore DEF LookupPath, Raise, Leave, Stop
  <2>2. CASE pc' # "stat"
    BY <1>2, <2>2, RaiseCore DEF LookupPath
  <2> QED
    BY <2>1, <2>2
<1>3. CASE StatPath
  <2>1. CASE pc' = "open"
    BY <1>3, <2>1, FrameCore DEF StatPath, Raise, Leave, Stop
  <2>2. CASE pc' # "open"
    BY <1>3, <2>2, RaiseCore DEF StatPath
  <2> QED
    BY <2>1, <2>2
<1>4. CASE IssueFile
  <2>1. CASE OpenMatches
    <3>1. ParserInv' /\ ClaimInv' /\ BudgetInv'
      BY <1>4, <2>1, ForgetParser DEF IssueFile
    <3> QED
      BY <1>4, <2>1, <3>1
      DEF IssueFile, Core, OutcomeInv, PassInv, EvidenceFromOneSnapshot
  <2>2. CASE ~OpenMatches
    BY <1>4, <2>2, RaiseCore DEF IssueFile
  <2> QED
    BY <2>1, <2>2
<1>5. CASE OpenScan
  <2>1. CASE OpenMatches /\ tree.entry = issued.file
    <3>1. /\ consumed' = <<>> /\ Len(consumed') = 0 /\ parsed' = 0
          /\ \/ claim' = NoClaim
             \/ scanner = "integrity" /\ claim' = "complete" /\ pc' = "drain"
          /\ pc' # "done" /\ pc # "done"
          /\ UNCHANGED <<inputs, outVars, pass, schemaSeen>>
      BY <1>5, <2>1 DEF OpenScan
    <3>2. RowsOf(0, scanner') = 0 /\ Cardinality(Selected(consumed', 0, scanner')) = 0
      BY SelectedFinite DEF RowsOf
    <3>3. ParserInv'
      BY <3>1, <3>2, LimitsAreNumbers DEF ParserInv, Taken
    <3>4. ClaimInv' /\ BudgetInv'
      BY <3>1, LimitsAreNumbers DEF ClaimInv, BudgetInv, ReadsBounded, NoClaim
    <3> QED
      BY <3>1, <3>3, <3>4 DEF Core, OutcomeInv, PassInv, EvidenceFromOneSnapshot
  <2>2. CASE ~(OpenMatches /\ tree.entry = issued.file)
    BY <1>5, <2>2, RaiseCore DEF OpenScan
  <2> QED
    BY <2>1, <2>2
<1> QED
  BY <1>1, <1>2, <1>3, <1>4, <1>5

\* Lines appended to what was read leave the parser's past as it was.
LEMMA ReadCore ==
  ASSUME TypeOK, Core, NEW block \in Seq(LineKinds), consumed' = consumed \o block,
         ~eof, pc # "done", pc' # "done", pc' = pc \/ pc' # "consume",
         UNCHANGED <<inputs, result, delivered, pass, parsed, schemaSeen>>,
         claim' = claim \/ (claim' = "malformed" /\ pc' # "consume"), BudgetInv'
  PROVE  Core'
<1>1. parsed \in Nat /\ \A i \in 1..parsed : consumed'[i] = consumed[i]
  BY DEF TypeOK
<1>2. Selected(consumed', parsed, scanner) = Selected(consumed, parsed, scanner)
  BY <1>1, SelectedPrefix, ZenonT(40)
<1>3. ParserInv'
  BY <1>1, <1>2 DEF Core, ParserInv, Taken
<1>4. ClaimInv'
  BY <1>2 DEF Core, ClaimInv, Taken, NoClaim
<1> QED
  BY <1>3, <1>4 DEF Core, OutcomeInv, PassInv, EvidenceFromOneSnapshot

LEMMA ReadBlockCore == ASSUME TypeOK, Core, ReadBlock PROVE Core'
<1> DEFINE d == data[opened.file]
<1>1. d \in Seq(LineKinds) /\ consumed \in Seq(LineKinds)
  BY DEF ReadBlock, ReadyToRead, TypeOK, HoldingDescriptor
<1>2. lim.integrity \in Nat /\ ChunkLines \in Nat /\ Len(consumed) < lim.integrity
  BY ScanAssumption, LimitsAreNumbers DEF ReadBlock
<1>3. PICK n \in 1..Least(Request, Unread) :
        consumed' = consumed \o SubSeq(d, Len(consumed) + 1, Len(consumed) + n)
  BY DEF ReadBlock
<1>4. Len(consumed) + n <= Len(d) /\ Len(consumed) + n <= lim.integrity
  BY <1>1, <1>2, <1>3 DEF Least, Request, Unread
<1> DEFINE block == SubSeq(d, Len(consumed) + 1, Len(consumed) + n)
<1>5. block \in Seq(LineKinds) /\ Len(block) = n
  BY <1>1, <1>3, <1>4
<1>6. Len(consumed') <= lim.integrity
  BY <1>1, <1>3, <1>4, <1>5
<1>7. BudgetInv'
  BY <1>2, <1>6 DEF BudgetInv, ReadsBounded, ReadBlock
<1>8. ~eof /\ pc # "done" /\ pc' # "done" /\ pc' = pc
  BY DEF ReadBlock, ReadyToRead
<1>9. UNCHANGED <<inputs, result, delivered, pass, parsed, schemaSeen, claim>>
  BY DEF ReadBlock
<1> QED
  BY <1>3, <1>5, <1>7, <1>8, <1>9, ReadCore

LEMMA ReadPastBudgetCore == ASSUME TypeOK, Core, ReadPastBudget PROVE Core'
<1> DEFINE d == data[opened.file]
           block == <<d[Len(consumed) + 1]>>
<1>1. d \in Seq(LineKinds) /\ consumed \in Seq(LineKinds)
  BY DEF ReadPastBudget, ReadyToRead, TypeOK, HoldingDescriptor
<1>2. d[Len(consumed) + 1] \in LineKinds
  BY <1>1 DEF ReadPastBudget, Unread
<1>3. /\ block \in Seq(LineKinds) /\ consumed' = consumed \o block
      /\ Len(consumed') = Len(consumed) + 1
  BY <1>1, <1>2 DEF ReadPastBudget
<1>4. pc # "done" /\ ~eof /\ result # "raised"
  BY DEF ReadPastBudget, ReadyToRead, Core, OutcomeInv
<1>5. CASE guarded
  <2>4. Len(consumed) = lim.integrity
    BY <1>4, <1>5, LimitsAreNumbers, SMTT(30) DEF Core, BudgetInv, ReadPastBudget, TypeOK
  <2>5. Len(consumed') = lim.integrity + 1
    BY <1>3, <2>4
  <2>6. /\ claim' = "malformed" /\ guarded' = FALSE
        /\ pc' \notin {"done", "consume"}
        /\ UNCHANGED <<inputs, result, delivered, pass, parsed, schemaSeen>>
    BY <1>4, <1>5 DEF ReadPastBudget, FinishAs
  <2>7. BudgetInv'
    BY <2>5, <2>6, LimitsAreNumbers DEF BudgetInv, ReadsBounded
  <2> QED
    BY <1>3, <1>4, <2>6, <2>7, ReadCore
<1>6. CASE ~guarded
  <2>1. Leave
    BY <1>6 DEF ReadPastBudget
  <2>2. Len(consumed) <= lim.integrity + 1
    BY <1>1, <1>4, LimitsAreNumbers DEF Core, BudgetInv, ReadsBounded
  <2>3. Len(consumed') <= lim.integrity + 2
    BY <1>1, <1>3, <2>2, LimitsAreNumbers
  <2>4. pc' = "done" /\ result' = "raised" /\ UNCHANGED lim
    BY <2>1 DEF Leave, Stop
  <2>5. BudgetInv'
    BY <2>3, <2>4 DEF BudgetInv, ReadsBounded
  <2> QED
    BY <2>1, <2>5, LeaveCore
<1> QED
  BY <1>5, <1>6

LEMMA ParseLineCore == ASSUME TypeOK, Core, ParseLine PROVE Core'
<1> DEFINE line == consumed[parsed + 1]
<1>1. /\ pc = "consume" /\ claim = NoClaim /\ Len(consumed) <= lim.integrity
      /\ parsed \in Nat /\ ~AtRecordBudget
  BY DEF ParseLine, Core, ClaimInv, BudgetInv, NoClaim, TypeOK
<1>2. CASE LineStop(line) # NoClaim
  <2>1. /\ claim' = LineStop(line) /\ claim' # "complete"
        /\ pc' \notin {"done", "consume"} /\ guarded' = FALSE
        /\ UNCHANGED <<inputs, outVars, pass, consumed, eof, parsed, schemaSeen>>
    BY <1>2 DEF ParseLine, FinishAs, LineStop, JsonlStop, DelimitedStop, NoClaim
  <2> QED
    BY <1>1, <2>1, LimitsAreNumbers
    DEF Core, OutcomeInv, PassInv, ParserInv, ClaimInv, BudgetInv, ReadsBounded, Taken,
        EvidenceFromOneSnapshot, TypeOK
<1>3. CASE LineStop(line) = NoClaim
  <2>1. /\ parsed' = parsed + 1 /\ pc' = pc
        /\ UNCHANGED <<inputs, outVars, pass, consumed, eof, claim, guarded,
                       schemaSeen>>
    BY <1>3 DEF ParseLine
  <2>2. /\ line # "bad" /\ parsed + 1 <= lim.semantic
        /\ Delimited(scanner) \/ parsed < lim.records
        /\ pass = 2 => \/ Taken < lim.observations
                       \/ scanner = "table" /\ line # "hit"
                       \/ Delimited(scanner) /\ parsed = 0
    BY <1>1, <1>3, LimitsAreNumbers, SelectedFinite
    DEF LineStop, JsonlStop, DelimitedStop, NoClaim, ObservationsFull, Picked, Taken
  <2>3. RowsOf(parsed + 1, scanner) <= lim.records
    BY <1>1, <2>2, LimitsAreNumbers DEF RowsOf, AtRecordBudget
  <2>4. \A i \in 1..(parsed + 1) : consumed[i] # "bad"
    BY <1>1, <2>2 DEF Core, ParserInv
  <2>5. ASSUME pass = 2
        PROVE  Cardinality(Selected(consumed, parsed + 1, scanner)) <= lim.observations
    <3>1. /\ Taken \in Nat /\ Taken <= lim.observations
          /\ Cardinality(Selected(consumed, parsed + 1, scanner)) \in Nat
      BY <1>1, <2>5, SelectedFinite DEF Taken, Core, ParserInv
    <3>2. CASE Taken < lim.observations
      BY <1>1, <3>1, <3>2, SelectedNext, LimitsAreNumbers DEF Taken
    <3>3. CASE (scanner = "table" /\ line # "hit") \/ (Delimited(scanner) /\ parsed = 0)
      BY <1>1, <3>1, <3>3, SelectedNext DEF Taken
    <3> QED
      BY <2>2, <2>5, <3>2, <3>3
  <2>6. ParserInv'
    BY <2>1, <2>2, <2>3, <2>4, <2>5 DEF ParserInv, Taken
  <2> QED
    BY <1>1, <2>1, <2>6
    DEF Core, OutcomeInv, PassInv, ClaimInv, BudgetInv, ReadsBounded, NoClaim,
        EvidenceFromOneSnapshot
<1> QED
  BY <1>2, <1>3

LEMMA EndOfLinesCore == ASSUME TypeOK, Core, EndOfLines PROVE Core'
<1>1. /\ pc = "consume" /\ claim = NoClaim /\ Len(consumed) <= lim.integrity
  BY DEF EndOfLines, Core, ClaimInv, BudgetInv, NoClaim
<1>2. /\ pc' \notin {"done", "consume"}
      /\ UNCHANGED <<inputs, outVars, pass, consumed, eof, parsed, schemaSeen>>
  BY DEF EndOfLines, FinishAs
<1>3. ASSUME claim' = "complete"
      PROVE  /\ parsed >= Len(snap) \/ (eof /\ parsed = Len(consumed))
             /\ RowsOf(parsed, scanner) > 0
             /\ scanner = "table" /\ pass = 2 => Taken = Cardinal
  <2>1. /\ Conclusion = "complete"
        /\ ~(AtRecordBudget /\ parsed < Len(snap))
    BY <1>3 DEF EndOfLines, FinishAs
  <2>2. /\ RowsOf(parsed, scanner) # 0
        /\ scanner = "table" /\ pass = 2 => Taken = Cardinal
    BY <2>1 DEF Conclusion
  <2>3. RowsOf(parsed, scanner) \in Nat
    BY DEF RowsOf, TypeOK
  <2> QED
    BY <2>1, <2>2, <2>3, LimitsAreNumbers, SMTT(30) DEF EndOfLines, TypeOK
<1>4. ParserInv'
  BY <1>2 DEF Core, ParserInv, Taken
<1>5. ClaimInv'
  BY <1>2, <1>3 DEF ClaimInv, Taken
<1>6. BudgetInv'
  BY <1>1, <1>2, LimitsAreNumbers, SMTT(30) DEF BudgetInv, ReadsBounded, TypeOK
<1> QED
  BY <1>1, <1>2, <1>4, <1>5, <1>6
  DEF Core, OutcomeInv, PassInv, EvidenceFromOneSnapshot

\* A scan that reports complete has parsed exactly the recorded lines.
LEMMA CompleteMeansAll ==
  ASSUME TypeOK, Core, consumed = snap, claim = "complete", scanner # "integrity"
  PROVE  parsed = Len(snap) /\ SubSeq(consumed, 1, parsed) = snap
<1>1. parsed = Len(snap)
  BY LimitsAreNumbers DEF Core, ClaimInv, TypeOK
<1>2. SubSeq(snap, 1, Len(snap)) = snap
  BY LimitsAreNumbers
<1> QED
  BY <1>1, <1>2

LEMMA CompleteMeansEligible ==
  ASSUME TypeOK, Core, pc = "report", consumed = snap, claim = "complete",
         pass = 2 \/ scanner = "integrity"
  PROVE  Eligible(snap, lim, scanner)
<1>1. Len(snap) <= lim.integrity
  BY LimitsAreNumbers DEF Core, BudgetInv, ReadsBounded
<1>2. ASSUME scanner # "integrity"
      PROVE  /\ \A i \in 1..Len(snap) : snap[i] # "bad"
             /\ Len(snap) <= lim.semantic
             /\ RowsOf(Len(snap), scanner) \in 1..lim.records
             /\ Cardinality(Selected(snap, Len(snap), scanner)) <= lim.observations
             /\ scanner = "table" =>
                  Cardinality(Selected(snap, Len(snap), scanner)) = Cardinal
  <2>1. parsed = Len(snap) /\ pass = 2
    BY <1>2, CompleteMeansAll
  <2>2. RowsOf(Len(snap), scanner) \in Int
    BY LimitsAreNumbers DEF RowsOf
  <2> QED
    BY <1>2, <2>1, <2>2, LimitsAreNumbers DEF Core, ParserInv, ClaimInv, Taken
<1> QED
  BY <1>1, <1>2 DEF Eligible

LEMMA ReportCore ==
  ASSUME TypeOK, Core, ReportSchema \/ ReportIncomplete \/ ReportEvidence
  PROVE  Core'
<1>1. /\ Issue /\ Forget /\ consumed = snap /\ UNCHANGED inputs
      /\ pc = "report" /\ result = "pending"
  BY IssueTypes
  DEF ReportSchema, ReportIncomplete, ReportEvidence, Issue, BytesMatch, Core, OutcomeInv,
      TypeOK
<1>2. ParserInv' /\ ClaimInv' /\ BudgetInv'
  BY <1>1, ForgetParser
<1>3. CASE ReportSchema
  <2>1. schemaSeen' = snap
    BY <1>1, <1>3, CompleteMeansAll DEF ReportSchema
  <2> QED
    BY <1>1, <1>2, <1>3, <2>1
    DEF ReportSchema, Core, OutcomeInv, PassInv, EvidenceFromOneSnapshot
<1>4. CASE ReportIncomplete
  BY <1>1, <1>2, <1>4
  DEF ReportIncomplete, Stop, Core, OutcomeInv, PassInv, EvidenceFromOneSnapshot
<1>5. CASE ReportEvidence
  <2>1. Evidence = snap
    BY <1>1, <1>5, CompleteMeansAll DEF ReportEvidence, Evidence
  <2>2. scanner # "integrity" => schemaSeen = snap
    BY <1>5 DEF ReportEvidence, Core, PassInv
  <2> QED
    BY <1>1, <1>2, <1>5, <2>1, <2>2
    DEF ReportEvidence, Stop, Core, OutcomeInv, PassInv, EvidenceFromOneSnapshot
<1> QED
  BY <1>3, <1>4, <1>5

LEMMA VerifyCore ==
  ASSUME TypeOK, Core, NEW here \in HoldingDescriptor,
         NEW next \in HoldingDescriptor \ {"consume"},
         NEW holds, Verify(here, holds, next)
  PROVE  Core'
<1>1. pc \in HoldingDescriptor /\ pc # "done"
  BY DEF Verify, HoldingDescriptor
<1>2. CASE holds
  <2>1. pc' \notin {"done", "consume"}
    BY <1>2 DEF Verify, HoldingDescriptor
  <2> QED
    BY <1>1, <1>2, <2>1, FrameCore DEF Verify
<1>3. CASE ~holds
  BY <1>1, <1>3, FailCore DEF Verify
<1> QED
  BY <1>2, <1>3

LEMMA ReadEofCore == ASSUME TypeOK, Core, ReadEof PROVE Core'
<1>1. /\ eof' = TRUE /\ ~eof /\ pc # "done" /\ pc' # "done"
      /\ pc' = pc \/ pc' = "verify_file"
      /\ UNCHANGED <<inputs, outVars, pass, consumed, parsed, claim, guarded,
                     schemaSeen>>
  BY DEF ReadEof, ReadyToRead
<1> QED
  BY <1>1
  DEF Core, OutcomeInv, PassInv, ParserInv, ClaimInv, BudgetInv, ReadsBounded, Taken,
      EvidenceFromOneSnapshot

LEMMA NextCore == TypeOK /\ Core /\ [ScanNext]_scanVars => Core'
<1> SUFFICES ASSUME TypeOK, Core, [ScanNext]_scanVars PROVE Core'
  OBVIOUS
<1>1. CASE IssueRoot \/ LookupPath \/ StatPath \/ IssueFile \/ OpenScan
  BY <1>1, OpeningCore
<1>2. CASE ReadBlock
  BY <1>2, ReadBlockCore
<1>3. CASE ReadPastBudget
  BY <1>3, ReadPastBudgetCore
<1>4. CASE ReadEof
  BY <1>4, ReadEofCore
<1>5. CASE ReadError
  BY <1>5, FailCore DEF ReadError, ReadyToRead, HoldingDescriptor
<1>6. CASE ParseLine
  BY <1>6, ParseLineCore
<1>7. CASE EndOfLines
  BY <1>7, EndOfLinesCore
<1>8. CASE VerifyFile \/ VerifyRoot \/ VerifyParent \/ VerifyPath
  BY <1>8, VerifyCore
  DEF VerifyFile, VerifyRoot, VerifyParent, VerifyPath, HoldingDescriptor
<1>9. CASE ReportRefused
  BY <1>9, FailCore DEF ReportRefused, HoldingDescriptor
<1>10. CASE ReportSchema \/ ReportIncomplete \/ ReportEvidence
  BY <1>10, ReportCore
<1>11. CASE Environment
  <2>1. UNCHANGED <<inputs, outVars, pc, pass, consumed, eof, parsed, claim, guarded,
                    schemaSeen>>
    BY <1>11 DEF Environment, Relink, Rewrite
  <2> QED
    BY <2>1
    DEF Core, OutcomeInv, PassInv, ParserInv, ClaimInv, BudgetInv, ReadsBounded, Taken,
        EvidenceFromOneSnapshot
<1>12. CASE UNCHANGED scanVars
  BY <1>12
  DEF scanVars, Core, OutcomeInv, PassInv, ParserInv, ClaimInv, BudgetInv, ReadsBounded,
      Taken,
      EvidenceFromOneSnapshot
<1> QED
  BY <1>1, <1>2, <1>3, <1>4, <1>5, <1>6, <1>7, <1>8, <1>9, <1>10, <1>11, <1>12
  DEF ScanNext, Program, Exited

LEMMA Invariance == ScanSpec => [](TypeOK /\ Core)
<1>1. ScanInit => TypeOK /\ Core
  BY InitTypeOK, InitCore
<1>2. TypeOK /\ Core /\ [ScanNext]_scanVars => (TypeOK /\ Core)'
  BY NextTypeOK, NextCore
<1> QED
  BY <1>1, <1>2, PTL DEF ScanSpec

\* Evidence is computed from the recorded bytes, all of them, in both passes.
THEOREM EvidenceIsSnapshot == ScanSpec => []EvidenceFromOneSnapshot
<1>1. TypeOK /\ Core => EvidenceFromOneSnapshot
  BY DEF Core
<1> QED
  BY <1>1, Invariance, PTL

\* A scan reads one line past its integrity budget, or two where a handler finishes
\* again, and then it ends with the limit error and reports nothing.
THEOREM ReadsAreBounded == ScanSpec => []ReadsBounded
<1>1. TypeOK /\ Core => ReadsBounded
  BY DEF Core, BudgetInv
<1> QED
  BY <1>1, Invariance, PTL

-----------------------------------------------------------------------------------
(* Refinement: one atomic look at the recorded bytes. *)

LEMMA LeaveRefines ==
  ASSUME Core, pc # "done", Leave
  PROVE  Atomic!Next
<1>1. result = "pending" /\ delivered = <<>>
  BY DEF Core, OutcomeInv
<1> QED
  BY <1>1 DEF Leave, Stop, Atomic!Next, Atomic!Withhold, Atomic!inputs

LEMMA FailRefines ==
  ASSUME Core, pc # "done", Fail
  PROVE  [Atomic!Next]_(Atomic!absVars)
<1>1. CASE guarded
  BY <1>1 DEF Fail, Atomic!absVars, Atomic!inputs
<1>2. CASE ~guarded
  BY <1>2, LeaveRefines DEF Fail, Raise
<1> QED
  BY <1>1, <1>2

LEMMA ReportRefines ==
  ASSUME TypeOK, Core, ReportSchema \/ ReportIncomplete \/ ReportEvidence
  PROVE  [Atomic!Next]_(Atomic!absVars)
<1>1. /\ Issue /\ pc = "report" /\ consumed = snap /\ result = "pending" /\ delivered = <<>>
      /\ UNCHANGED inputs
  BY IssueTypes
  DEF ReportSchema, ReportIncomplete, ReportEvidence, Issue, Core, OutcomeInv
<1>2. CASE ReportSchema
  BY <1>1, <1>2 DEF ReportSchema, Atomic!absVars, Atomic!inputs
<1>3. CASE ReportIncomplete
  BY <1>1, <1>3 DEF ReportIncomplete, Stop, Atomic!Next, Atomic!Withhold, Atomic!inputs
<1>4. CASE ReportEvidence
  <2>1. claim = "complete" /\ (pass = 2 \/ scanner = "integrity")
    BY <1>4 DEF ReportEvidence
  <2>2. Evidence = snap
    BY <1>1, <2>1, CompleteMeansAll DEF Evidence
  <2>3. Eligible(snap, lim, scanner)
    BY <1>1, <2>1, CompleteMeansEligible
  <2>4. Atomic!Eligible(snap, lim, scanner)
    <3>1. RowsOf(Len(snap), scanner) = Atomic!RowsOf(Len(snap), scanner)
      BY DEF RowsOf, Atomic!RowsOf, Delimited, Atomic!Delimited
    <3>2. Selected(snap, Len(snap), scanner) = Atomic!Selected(snap, Len(snap), scanner)
      BY DEF Selected, Atomic!Selected
    <3>3. ASSUME NEW S PROVE Atomic!Cardinality(S) = Cardinality(S)
      BY DEF Cardinality, Atomic!Cardinality, IsFiniteSet, Atomic!IsFiniteSet
    <3> QED
      BY <2>3, <3>1, <3>2, <3>3 DEF Eligible, Atomic!Eligible
  <2> QED
    BY <1>1, <1>4, <2>2, <2>4
    DEF ReportEvidence, Stop, Atomic!Next, Atomic!Deliver, Atomic!inputs
<1> QED
  BY <1>2, <1>3, <1>4

LEMMA StepRefines ==
  ASSUME TypeOK, Core, [ScanNext]_scanVars
  PROVE  [Atomic!Next]_(Atomic!absVars)
<1> USE DEF Atomic!absVars, Atomic!inputs
<1>1. CASE IssueRoot \/ ReadBlock \/ ReadEof \/ ParseLine \/ EndOfLines
             \/ Environment \/ Exited \/ UNCHANGED scanVars
  BY <1>1
  DEF IssueRoot, ReadBlock, ReadEof, ParseLine, EndOfLines, Environment, Relink,
      Rewrite, Exited, scanVars
<1>2. CASE LookupPath \/ StatPath \/ IssueFile \/ OpenScan \/ ReadPastBudget
  BY <1>2, LeaveRefines
  DEF Raise, LookupPath, StatPath, IssueFile, OpenScan, ReadPastBudget, ReadyToRead
<1>3. CASE ReadError \/ ReportRefused
  BY <1>3, FailRefines DEF ReadError, ReadyToRead, ReportRefused
<1>4. CASE VerifyFile \/ VerifyRoot \/ VerifyParent \/ VerifyPath
  BY <1>4, FailRefines DEF VerifyFile, VerifyRoot, VerifyParent, VerifyPath, Verify
<1>5. CASE ReportSchema \/ ReportIncomplete \/ ReportEvidence
  BY <1>5, ReportRefines
<1> QED
  BY <1>1, <1>2, <1>3, <1>4, <1>5 DEF ScanNext, Program

\* Every extraction, under any interference, behaves like one atomic look at the
\* recorded bytes: evidence for all of them if they are eligible, or nothing.
THEOREM ScanImplementsSnapshot == ScanSpec => ImplementsSnapshot
<1>1. ScanInit => Atomic!Init
  BY DEF ScanInit, Init, Atomic!Init
<1>2. TypeOK /\ Core /\ [ScanNext]_scanVars => [Atomic!Next]_(Atomic!absVars)
  BY StepRefines
<1> QED
  BY <1>1, <1>2, Invariance, PTL DEF ScanSpec, ImplementsSnapshot, Atomic!Spec

-----------------------------------------------------------------------------------
(* Reports on a stable file. *)

Past == {"verify_root", "verify_parent", "verify_path", "report"}

LEMMA InitStable == ScanInit => StableInv
BY DEF ScanInit, Init, StableInv, HoldingDescriptor, ReportsOnStableFile

LEMMA LeaveStable == ASSUME TypeOK, StableInv, Leave PROVE StableInv'
BY DEF Leave, Stop, Close, StableInv, HoldingDescriptor, ReportsOnStableFile

LEMMA RaiseStable == ASSUME TypeOK, StableInv, Raise PROVE StableInv'
BY LeaveStable DEF Raise

LEMMA FailStable ==
  ASSUME TypeOK, StableInv, pc \in HoldingDescriptor, Fail
  PROVE  StableInv'
<1>1. CASE guarded
  BY <1>1 DEF Fail, FinishAs, StableInv, HoldingDescriptor, ReportsOnStableFile
<1>2. CASE ~guarded
  BY <1>2, RaiseStable DEF Fail
<1> QED
  BY <1>1, <1>2

\* A step within the loops keeps what was opened.
LEMMA LoopStable ==
  ASSUME TypeOK, StableInv, pc \in HoldingDescriptor, pc' \notin Past \/ pc' = pc,
         UNCHANGED <<opened, ctime, dirty, reported>>
  PROVE  StableInv'
BY DEF StableInv, ReportsOnStableFile, Past

LEMMA OpeningStable ==
  ASSUME TypeOK, StableInv,
         IssueRoot \/ LookupPath \/ StatPath \/ IssueFile \/ OpenScan
  PROVE  StableInv'
<1> USE DEF StableInv, HoldingDescriptor, ReportsOnStableFile
<1>1. CASE IssueRoot
  BY <1>1 DEF IssueRoot
<1>2. CASE LookupPath
  BY <1>2, RaiseStable DEF LookupPath
<1>3. CASE StatPath
  BY <1>3, RaiseStable DEF StatPath
<1>4. CASE IssueFile
  BY <1>4, RaiseStable DEF IssueFile, Forget, Close
<1>5. CASE OpenScan
  <2>1. CASE OpenMatches /\ tree.entry = issued.file
    <3>1. /\ opened'.file = tree.entry
          /\ opened'.full.ctime = ctime[tree.entry]
      <4>1. opened' = [opened EXCEPT !.file = tree.entry, !.full = FileIdentity(tree.entry)]
        BY <1>5, <2>1 DEF OpenScan
      <4>2. opened' = [file |-> tree.entry, full |-> FileIdentity(tree.entry),
                       parent |-> opened.parent]
        BY <4>1 DEF TypeOK
      <4> QED
        BY <4>2 DEF FileIdentity
    <3>2. dirty' = FALSE /\ pc' \in {"drain", "consume"} /\ UNCHANGED <<ctime, reported>>
      BY <1>5, <2>1 DEF OpenScan
    <3>3. ctime[tree.entry] \in Nat
      BY <2>1 DEF OpenMatches, TypeOK, Files
    <3> QED
      BY <3>1, <3>2, <3>3
  <2> QED
    BY <1>5, <2>1, RaiseStable DEF OpenScan
<1> QED
  BY <1>1, <1>2, <1>3, <1>4, <1>5

LEMMA VerifyStable ==
  ASSUME TypeOK, StableInv, VerifyFile \/ VerifyRoot \/ VerifyParent \/ VerifyPath
  PROVE  StableInv'
<1>1. CASE VerifyFile
  <2>1. CASE FileUnchanged
    <3>1. opened.full.ctime = ctime[opened.file] /\ opened.full.ctime \in Nat
      BY <2>1 DEF FileUnchanged, FileIdentity, TypeOK
    <3>2. ~dirty
      BY <1>1, <3>1 DEF VerifyFile, Verify, StableInv, HoldingDescriptor
    <3> QED
      BY <1>1, <2>1, <3>1, <3>2
      DEF VerifyFile, Verify, StableInv, HoldingDescriptor, ReportsOnStableFile
  <2> QED
    BY <1>1, <2>1, FailStable DEF VerifyFile, Verify, HoldingDescriptor
<1>2. ASSUME NEW here \in Past, NEW next \in Past, NEW holds, Verify(here, holds, next)
      PROVE  StableInv'
  <2>1. CASE holds
    BY <1>2, <2>1
    DEF Verify, StableInv, HoldingDescriptor, ReportsOnStableFile, Past
  <2> QED
    BY <1>2, <2>1, FailStable DEF Verify, HoldingDescriptor, Past
<1> QED
  BY <1>1, <1>2 DEF VerifyRoot, VerifyParent, VerifyPath, Past

\* Another process never turns the change time back, and shows a write to the open
\* file in it.
LEMMA RewriteStable ==
  ASSUME TypeOK, StableInv, NEW f \in Inodes, Rewrite(f)
  PROVE  StableInv'
<1>1. ctime' = [ctime EXCEPT ![f] = @ + 1] /\ UNCHANGED <<pc, opened, reported>>
  BY DEF Rewrite
<1>2. dirty' <=> dirty \/ (Scanning /\ f = opened.file)
  BY DEF Rewrite
<1>3. ASSUME pc \in HoldingDescriptor
      PROVE  /\ opened.full.ctime <= ctime'[opened.file]
             /\ dirty' => opened.full.ctime < ctime'[opened.file]
  <2>1. opened.file \in Inodes /\ opened.full.ctime \in Nat /\ ctime \in [Inodes -> Nat]
    BY <1>3 DEF TypeOK
  <2>2. ctime'[opened.file] = IF f = opened.file THEN ctime[opened.file] + 1
                                                 ELSE ctime[opened.file]
    BY <1>1, <2>1
  <2>3. ctime[opened.file] \in Nat
    BY <2>1
  <2>4. /\ opened.full.ctime <= ctime[opened.file]
        /\ dirty => opened.full.ctime < ctime[opened.file]
    BY <1>3 DEF StableInv
  <2> QED
    BY <1>2, <2>1, <2>2, <2>3, <2>4
<1>4. pc \in Past => ~dirty'
  BY <1>2 DEF StableInv, Scanning, Past
<1> QED
  BY <1>1, <1>3, <1>4 DEF StableInv, ReportsOnStableFile, Past

LEMMA ReportStable ==
  ASSUME TypeOK, StableInv, ReportSchema \/ ReportIncomplete \/ ReportEvidence
  PROVE  StableInv'
<1>1. Issue /\ pc = "report"
  BY DEF ReportSchema, ReportIncomplete, ReportEvidence, Issue
<1>2. ~dirty
  BY <1>1 DEF StableInv
<1>3. PICK r : r.stable /\ reported' = Append(reported, r)
  BY <1>1, <1>2 DEF Issue
<1>4. reported \in Seq(Reports)
  BY DEF TypeOK
<1>5. ReportsOnStableFile'
  <2>1. Len(reported') = Len(reported) + 1
    BY <1>3, <1>4
  <2>2. \A i \in 1..Len(reported') : reported'[i] = IF i <= Len(reported) THEN reported[i] ELSE r
    BY <1>3, <1>4
  <2> QED
    BY <1>3, <1>4, <2>1, <2>2 DEF StableInv, ReportsOnStableFile
<1>6. pc' \in {"lookup", "done"}
  BY DEF ReportSchema, ReportIncomplete, ReportEvidence, Stop
<1> QED
  BY <1>5, <1>6 DEF StableInv, HoldingDescriptor

LEMMA NextStable == TypeOK /\ StableInv /\ [ScanNext]_scanVars => StableInv'
<1> SUFFICES ASSUME TypeOK, StableInv, [ScanNext]_scanVars PROVE StableInv'
  OBVIOUS
<1>1. CASE IssueRoot \/ LookupPath \/ StatPath \/ IssueFile \/ OpenScan
  BY <1>1, OpeningStable
<1>2. CASE ReadBlock \/ ParseLine \/ EndOfLines \/ ReadEof
  <2>1. /\ pc \in HoldingDescriptor /\ pc' \notin Past
        /\ UNCHANGED <<opened, ctime, dirty, reported>>
    BY <1>2
    DEF ReadBlock, ParseLine, EndOfLines, ReadEof, ReadyToRead, FinishAs,
        HoldingDescriptor, Past
  <2> QED
    BY <2>1, LoopStable
<1>3. CASE ReadPastBudget
  <2>1. CASE guarded
    <3>1. /\ pc \in HoldingDescriptor /\ pc' \notin Past
          /\ UNCHANGED <<opened, ctime, dirty, reported>>
      BY <1>3, <2>1
      DEF ReadPastBudget, ReadyToRead, FinishAs, HoldingDescriptor, Past
    <3> QED
      BY <3>1, LoopStable
  <2> QED
    BY <1>3, <2>1, LeaveStable DEF ReadPastBudget
<1>4. CASE ReadError \/ ReportRefused
  BY <1>4, FailStable DEF ReadError, ReadyToRead, ReportRefused, HoldingDescriptor
<1>5. CASE VerifyFile \/ VerifyRoot \/ VerifyParent \/ VerifyPath
  BY <1>5, VerifyStable
<1>6. CASE ReportSchema \/ ReportIncomplete \/ ReportEvidence
  BY <1>6, ReportStable
<1>7. CASE Relink
  BY <1>7 DEF Relink, StableInv, ReportsOnStableFile
<1>8. CASE \E f \in Inodes : Rewrite(f)
  BY <1>8, RewriteStable
<1>9. CASE UNCHANGED scanVars
  BY <1>9 DEF scanVars, StableInv, ReportsOnStableFile
<1> QED
  BY <1>1, <1>2, <1>3, <1>4, <1>5, <1>6, <1>7, <1>8, <1>9
  DEF ScanNext, Program, Environment, Exited

\* Whatever is restored after a write to the open file, no report is issued over it.
THEOREM NoReportOnChangedFile == ScanSpec => []ReportsOnStableFile
<1>1. ScanInit => StableInv
  BY InitStable
<1>2. StableInv => ReportsOnStableFile
  BY DEF StableInv
<1> QED
  BY <1>1, <1>2, NextStable, ScanTypeCorrect, PTL DEF ScanSpec

-----------------------------------------------------------------------------------
(* The outcome when nobody else is at work. *)

\* What is still to be observed has room.
LEMMA RoomForNext ==
  ASSUME TypeOK, Eligible(snap, lim, scanner), Following, scanner # "integrity",
         parsed < Len(consumed), Delimited(scanner) => parsed > 0,
         Picked(consumed[parsed + 1])
  PROVE  Taken < lim.observations
<1> DEFINE A == Selected(snap, parsed, scanner)
           B == Selected(snap, Len(snap), scanner)
<1>1. /\ parsed \in Nat /\ Len(consumed) \in Nat /\ Len(snap) \in Nat
      /\ Len(consumed) <= Len(snap) /\ parsed + 1 \in 1..Len(consumed)
  BY LimitsAreNumbers DEF Following, TypeOK
<1>2. consumed[parsed + 1] = snap[parsed + 1]
  BY <1>1 DEF Following
<1>3. parsed + 1 \in B /\ parsed + 1 \notin A
  BY <1>1, <1>2 DEF Selected, Picked, Delimited
<1>4. A \subseteq B
  BY <1>1 DEF Selected
<1>5. IsFiniteSet(B) /\ Cardinality(B) \in Nat /\ Cardinality(A) \in Nat
  BY <1>1, SelectedFinite
<1>6. Cardinality(A) < Cardinality(B)
  BY <1>3, <1>4, <1>5, FS_Subset
<1>7. Cardinality(B) <= lim.observations
  BY DEF Eligible
<1>8. \A i \in 1..parsed : consumed[i] = snap[i]
  BY <1>1 DEF Following
<1>9. Selected(consumed, parsed, scanner) = A
  BY <1>1, <1>8, SelectedPrefix
<1>10. Taken = Cardinality(A)
  BY <1>9 DEF Taken
<1> HIDE DEF A, B
<1> QED
  BY <1>5, <1>6, <1>7, <1>10, LimitsAreNumbers

\* No line of an eligible artifact stops the scan.
LEMMA NoLineStops ==
  ASSUME TypeOK, Eligible(snap, lim, scanner), Following, scanner # "integrity",
         parsed < Len(consumed)
  PROVE  LineStop(consumed[parsed + 1]) = NoClaim
<1> DEFINE line == consumed[parsed + 1]
<1>0. parsed \in Nat /\ Len(consumed) \in Nat /\ Len(snap) \in Nat
  BY LimitsAreNumbers DEF TypeOK
<1>a. Len(consumed) <= Len(snap) /\ \A i \in 1..Len(consumed) : consumed[i] = snap[i]
  BY DEF Following
<1>b. parsed + 1 \in 1..Len(consumed) /\ parsed + 1 \in 1..Len(snap)
  BY <1>0, <1>a
<1>1. /\ parsed \in Nat /\ Len(consumed) \in Nat /\ Len(snap) \in Nat
      /\ Len(consumed) <= Len(snap) /\ parsed + 1 \in 1..Len(snap)
      /\ line = snap[parsed + 1]
  BY <1>0, <1>a, <1>b
<1>2. line # "bad" /\ parsed + 1 <= lim.semantic
  BY <1>1, LimitsAreNumbers DEF Eligible
<1>3. CASE Delimited(scanner)
  <2>1. ~(parsed > 0 /\ Picked(line) /\ ObservationsFull)
    <3> SUFFICES ASSUME parsed > 0, Picked(line), ObservationsFull PROVE FALSE
      OBVIOUS
    <3>1. Taken < lim.observations
      BY RoomForNext
    <3>2. Taken \in Nat
      BY <1>1, SelectedFinite DEF Taken
    <3> QED
      BY <3>1, <3>2, LimitsAreNumbers DEF ObservationsFull
  <2>2. ~(parsed + 1 > lim.semantic)
    BY <1>1, <1>2, LimitsAreNumbers
  <2> HIDE DEF line
  <2> QED
    BY <1>2, <1>3, <2>1, <2>2 DEF LineStop, DelimitedStop, line
<1>4. CASE ~Delimited(scanner)
  <2>1. ~ObservationsFull
    <3> SUFFICES ASSUME ObservationsFull PROVE FALSE
      OBVIOUS
    <3>1. Picked(line)
      BY <1>4 DEF Picked, Delimited
    <3>2. Taken < lim.observations
      BY <1>4, <3>1, RoomForNext
    <3>3. Taken \in Nat
      BY <1>1, SelectedFinite DEF Taken
    <3> QED
      BY <3>2, <3>3, LimitsAreNumbers DEF ObservationsFull
  <2>2. ~(parsed >= lim.records)
    BY <1>1, <1>4, LimitsAreNumbers DEF Eligible, RowsOf
  <2>3. ~(parsed + 1 > lim.semantic)
    BY <1>1, <1>2, LimitsAreNumbers
  <2> QED
    BY <1>2, <1>4, <2>1, <2>2, <2>3 DEF LineStop, JsonlStop
<1> QED
  BY <1>3, <1>4

\* The loop over an eligible artifact ends with all of it parsed.
LEMMA LoopConcludes ==
  ASSUME TypeOK, Eligible(snap, lim, scanner), Following, scanner # "integrity",
         AtRecordBudget \/ (eof /\ parsed = Len(consumed))
  PROVE  ~(AtRecordBudget /\ parsed < Len(snap)) /\ Conclusion = "complete"
<1>1. /\ parsed \in Nat /\ Len(consumed) \in Nat /\ Len(snap) \in Nat
      /\ parsed <= Len(consumed) /\ Len(consumed) <= Len(snap)
  BY LimitsAreNumbers DEF Following, TypeOK
<1>2. RowsOf(Len(snap), scanner) \in 1..lim.records
  BY DEF Eligible
<1>3. ~(AtRecordBudget /\ parsed < Len(snap))
  BY <1>1, <1>2, LimitsAreNumbers DEF AtRecordBudget, RowsOf
<1>4. parsed = Len(snap)
  BY <1>1, <1>3 DEF Following
<1>5. RowsOf(parsed, scanner) # 0
  BY <1>2, <1>4
<1>6. ASSUME scanner = "table" PROVE Taken = Cardinal
  <2>1. \A i \in 1..parsed : consumed[i] = snap[i]
    BY <1>1 DEF Following
  <2>2. Selected(consumed, parsed, scanner) = Selected(snap, Len(snap), scanner)
    BY <1>1, <1>4, <2>1, SelectedPrefix
  <2> QED
    BY <1>6, <2>2 DEF Taken, Eligible
<1> QED
  BY <1>3, <1>5, <1>6 DEF Conclusion

\* A step after which nothing has happened is one of the program's own.
LEMMA CalmSteps ==
  ASSUME TypeOK, [ScanNext]_scanVars, Undisturbed'
  PROVE  /\ Undisturbed /\ UNCHANGED <<inputs, fsVars, readErrors>>
         /\ ~Environment /\ ~ReadError
<1>1. changes \in Nat /\ readErrors \in Nat
  BY DEF TypeOK
<1>2. ~Environment
  BY <1>1 DEF Environment, Relink, Rewrite, Undisturbed
<1>3. ~ReadError
  BY <1>1 DEF ReadError, Undisturbed
<1>4. UNCHANGED <<inputs, fsVars, readErrors>>
  <2>1. CASE IssueRoot \/ LookupPath \/ StatPath \/ IssueFile \/ OpenScan
    BY <2>1 DEF IssueRoot, LookupPath, StatPath, IssueFile, OpenScan, Raise,
      Leave
  <2>2. CASE ReadBlock \/ ReadPastBudget \/ ReadEof \/ ParseLine \/ EndOfLines
    BY <2>2 DEF ReadBlock, ReadPastBudget, ReadEof, ParseLine, EndOfLines, Leave
  <2>3. CASE VerifyFile \/ VerifyRoot \/ VerifyParent \/ VerifyPath \/ ReportRefused
    BY <2>3
    DEF VerifyFile, VerifyRoot, VerifyParent, VerifyPath, ReportRefused, Verify, Fail,
      Raise, Leave
  <2>4. CASE ReportSchema \/ ReportIncomplete \/ ReportEvidence
    BY <2>4 DEF ReportSchema, ReportIncomplete, ReportEvidence, Issue
  <2>5. CASE UNCHANGED scanVars
    BY <2>5 DEF scanVars
  <2> QED
    BY <1>2, <1>3, <2>1, <2>2, <2>3, <2>4, <2>5 DEF ScanNext, Program, Exited
<1> QED
  BY <1>1, <1>2, <1>3, <1>4 DEF Undisturbed

LEMMA EligibleKept ==
  ASSUME UNCHANGED inputs
  PROVE  Eligible(snap, lim, scanner)' <=> Eligible(snap, lim, scanner)
BY DEF Eligible, RowsOf, Selected, Delimited

LEMMA InitCalm == ScanInit => Calm
<1> SUFFICES ASSUME ScanInit PROVE Calm
  OBVIOUS
<1> QED
  BY DEF ScanInit, Init, Calm, Remembered, Willing, HoldingDescriptor

LEMMA OpeningCalm ==
  ASSUME TypeOK, Undisturbed, Calm, UNCHANGED <<inputs, fsVars, readErrors>>,
         IssueRoot \/ LookupPath \/ StatPath \/ IssueFile \/ OpenScan
  PROVE  Calm'
<1> USE DEF Remembered, HoldingDescriptor
<1>1. tree.entry \in Inodes /\ data[tree.entry] = snap
  BY DEF Undisturbed, TypeOK, Files
<1>2. Remembered
  BY DEF Calm
<1>3. \A f : OpenIdentity(f)' = OpenIdentity(f) /\ FileIdentity(f)' = FileIdentity(f)
  BY DEF OpenIdentity, FileIdentity
<1>4. CASE IssueRoot
  <2>1. issued' = [issued EXCEPT !.root = tree.root] /\ pc' = "lookup" /\ UNCHANGED <<pass, result>>
    BY <1>4 DEF IssueRoot
  <2>2. issued' = [root |-> tree.root, file |-> issued.file]
    BY <2>1 DEF TypeOK
  <2>3. Willing => Willing'
    BY <2>1 DEF Willing
  <2> QED
    BY <1>2, <2>1, <2>2, <2>3, EligibleKept DEF Calm
<1>5. CASE LookupPath
  <2>1. /\ opened' = [opened EXCEPT !.parent = tree.parent] /\ pc' = "stat"
        /\ UNCHANGED <<sourceVars, result>>
    BY <1>2, <1>5 DEF LookupPath, Undisturbed
  <2>2. opened' = [file |-> opened.file, full |-> opened.full, parent |-> tree.parent]
    BY <2>1 DEF TypeOK
  <2>3. Willing => Willing'
    BY <2>1 DEF Willing
  <2>4. pc # "issue"
    BY <1>5 DEF LookupPath
  <2> QED
    BY <1>2, <2>1, <2>2, <2>3, <2>4, EligibleKept DEF Calm
<1>6. CASE StatPath
  <2>1. /\ before' = OpenIdentity(tree.entry) /\ pc' = "open"
        /\ UNCHANGED <<sourceVars, opened, result>>
    BY <1>1, <1>6 DEF StatPath, Undisturbed
  <2>2. Willing => Willing'
    BY <2>1 DEF Willing
  <2>3. pc = "stat"
    BY <1>6 DEF StatPath
  <2>4. before' = OpenIdentity(tree.entry)'
    BY <1>3, <2>1
  <2> QED
    BY <1>2, <2>1, <2>2, <2>3, <2>4, EligibleKept DEF Calm
<1>7. CASE IssueFile
  <2>1. OpenMatches
    BY <1>2, <1>7 DEF IssueFile, OpenMatches, Undisturbed
  <2>2. /\ issued' = [issued EXCEPT !.file = tree.entry] /\ pc' = "lookup"
        /\ UNCHANGED result
    BY <1>7, <2>1 DEF IssueFile
  <2>3. issued' = [root |-> issued.root, file |-> tree.entry]
    BY <2>2 DEF TypeOK
  <2>4. Willing => Willing'
    BY <2>2 DEF Willing
  <2>5. pc = "open"
    BY <1>7 DEF IssueFile
  <2> QED
    BY <1>2, <2>2, <2>3, <2>4, <2>5, EligibleKept DEF Calm
<1>8. CASE OpenScan
  <2>1. OpenMatches /\ tree.entry = issued.file
    BY <1>2, <1>8 DEF OpenScan, OpenMatches, Undisturbed
  <2>2. /\ opened' = [opened EXCEPT !.file = tree.entry, !.full = FileIdentity(tree.entry)]
        /\ consumed' = <<>> /\ eof' = FALSE
        /\ UNCHANGED <<sourceVars, result>>
    BY <1>8, <2>1 DEF OpenScan
  <2>3. \/ pc' = "drain" /\ claim' = "complete"
        \/ pc' = "consume" /\ scanner # "integrity"
    BY <1>8, <2>1 DEF OpenScan
  <2>4. opened' = [file |-> tree.entry, full |-> FileIdentity(tree.entry),
                   parent |-> opened.parent]
    BY <2>2 DEF TypeOK
  <2>5. pc = "open" /\ pass > 0
    BY <1>8 DEF OpenScan
  <2>6. Remembered'
    BY <1>2, <2>2, <2>3, <2>4, <2>5
  <2>7. Len(consumed') = 0 /\ Len(snap) \in Nat
    BY <2>2, LimitsAreNumbers
  <2>8. opened'.file = tree'.entry /\ opened'.full = FileIdentity(tree.entry)'
    BY <1>3, <2>4
  <2>9. Following'
    BY <2>2, <2>3, <2>5, <2>7, <2>8 DEF Following
  <2>10. Willing => Willing'
    BY <2>2, <2>3 DEF Willing
  <2> QED
    BY <2>6, <2>9, <2>10, EligibleKept DEF Calm
<1> QED
  BY <1>4, <1>5, <1>6, <1>7, <1>8

\* A step within a scan keeps what was opened and what was remembered.
LEMMA ScanFrame ==
  ASSUME TypeOK, Calm, pc \in HoldingDescriptor, pc' \in HoldingDescriptor,
         UNCHANGED <<inputs, fsVars, issued, pass, opened>>
  PROVE  /\ Remembered'
         /\ Following
         /\ opened'.file = tree'.entry /\ opened'.full = FileIdentity(tree.entry)'
         /\ pass' > 0
<1>1. Following /\ Remembered
  BY DEF Calm
<1>2. FileIdentity(tree.entry)' = FileIdentity(tree.entry)
  BY DEF FileIdentity, OpenIdentity
<1> QED
  BY <1>1, <1>2 DEF Following, Remembered, HoldingDescriptor

LEMMA ReadBlockCalm ==
  ASSUME TypeOK, Undisturbed, Calm, UNCHANGED <<inputs, fsVars, readErrors>>, ReadBlock
  PROVE  Calm'
<1>1. /\ pc \in HoldingDescriptor /\ ~eof
      /\ UNCHANGED <<pc, issued, pass, opened, eof, result, claim>>
  BY DEF ReadBlock, ReadyToRead, HoldingDescriptor
<1>2. /\ Following /\ Remembered'
      /\ opened'.file = tree'.entry /\ opened'.full = FileIdentity(tree.entry)'
      /\ pass' > 0
  BY <1>1, ScanFrame
<1>3. data[opened.file] = snap
  BY <1>2 DEF Following, Undisturbed
<1>4. PICK n \in 1..Least(Request, Unread) :
        consumed' = consumed \o SubSeq(snap, Len(consumed) + 1, Len(consumed) + n)
  BY <1>3 DEF ReadBlock
<1>5. /\ consumed \in Seq(LineKinds) /\ snap \in Seq(LineKinds)
      /\ Len(consumed) \in Nat /\ Len(snap) \in Nat /\ n \in Nat
      /\ Len(consumed) + n <= Len(snap)
  <2>1. Request \in Int /\ Unread = Len(snap) - Len(consumed)
    BY <1>3, LimitsAreNumbers, ScanAssumption, SMTT(30) DEF Request, Unread, Least, TypeOK
  <2> QED
    BY <1>4, <2>1, LimitsAreNumbers DEF Least, TypeOK
<1>6. /\ Len(consumed') = Len(consumed) + n
      /\ \A i \in 1..Len(consumed') : consumed'[i] = snap[i]
  <2>1. SubSeq(snap, Len(consumed) + 1, Len(consumed) + n) \in Seq(LineKinds)
    BY <1>5
  <2>2. Len(SubSeq(snap, Len(consumed) + 1, Len(consumed) + n)) = n
    BY <1>5
  <2>3. \A j \in 1..n : SubSeq(snap, Len(consumed) + 1, Len(consumed) + n)[j]
                          = snap[Len(consumed) + j]
    BY <1>5
  <2>4. \A i \in 1..Len(consumed) : consumed[i] = snap[i]
    BY <1>2 DEF Following
  <2>5. Len(consumed') = Len(consumed) + n
    BY <1>4, <1>5, <2>1, <2>2
  <2>6. \A i \in 1..Len(consumed') :
          IF i <= Len(consumed) THEN consumed'[i] = consumed[i]
          ELSE /\ i - Len(consumed) \in 1..n
               /\ consumed'[i] = SubSeq(snap, Len(consumed) + 1, Len(consumed) + n)
                                   [i - Len(consumed)]
    BY <1>4, <1>5, <2>1, <2>2, <2>5, SMTT(30)
  <2>7. ASSUME NEW i \in 1..Len(consumed') PROVE consumed'[i] = snap[i]
    <3>1. CASE i <= Len(consumed)
      BY <1>5, <2>4, <2>5, <2>6, <3>1
    <3>2. CASE i > Len(consumed)
      <4>1. /\ i - Len(consumed) \in 1..n /\ Len(consumed) + (i - Len(consumed)) = i
            /\ consumed'[i] = SubSeq(snap, Len(consumed) + 1, Len(consumed) + n)
                                   [i - Len(consumed)]
        BY <1>5, <2>5, <2>6, <3>2
      <4> QED
        BY <2>3, <4>1
    <3> QED
      BY <1>5, <2>5, <3>1, <3>2
  <2> QED
    BY <2>5, <2>7
<1>7. pc = "consume" => scanner # "integrity"
  BY <1>2 DEF Following
<1>8. pc \in {"consume", "drain"}
  BY DEF ReadBlock, ReadyToRead
<1>9. Following'
  BY <1>1, <1>2, <1>5, <1>6, <1>7, <1>8 DEF Following
<1>10. Willing => Willing'
  BY <1>1 DEF Willing
<1> QED
  BY <1>2, <1>9, <1>10, EligibleKept DEF Calm

LEMMA ReadPastBudgetCalm ==
  ASSUME TypeOK, Undisturbed, Calm, UNCHANGED <<inputs, fsVars, readErrors>>,
         ReadPastBudget
  PROVE  Calm'
<1>1. pc \in HoldingDescriptor /\ ~eof /\ Unread > 0 /\ Len(consumed) >= lim.integrity
  BY DEF ReadPastBudget, ReadyToRead, HoldingDescriptor
<1>2. Following /\ Remembered
  BY <1>1 DEF Calm
<1>3. data[opened.file] = snap
  BY <1>2 DEF Following, Undisturbed
<1>4. /\ consumed \in Seq(LineKinds) /\ snap \in Seq(LineKinds)
      /\ Len(consumed) \in Nat /\ Len(snap) \in Nat /\ Len(consumed) < Len(snap)
  BY <1>1, <1>3, LimitsAreNumbers DEF Unread, TypeOK
<1>5. ~Eligible(snap, lim, scanner)
  BY <1>1, <1>4, LimitsAreNumbers DEF Eligible
<1>6. CASE guarded
  <2>1. /\ consumed' = Append(consumed, snap[Len(consumed) + 1])
        /\ pc' = "drain" /\ UNCHANGED <<issued, pass, opened, eof>>
    BY <1>1, <1>3, <1>6 DEF ReadPastBudget, FinishAs
  <2>2. /\ Remembered'
        /\ opened'.file = tree'.entry /\ opened'.full = FileIdentity(tree.entry)'
        /\ pass' > 0
    BY <1>1, <2>1, ScanFrame DEF HoldingDescriptor
  <2>3. /\ Len(consumed') = Len(consumed) + 1
        /\ \A i \in 1..Len(consumed') : consumed'[i] = snap[i]
    <3>1. \A i \in 1..Len(consumed) : consumed[i] = snap[i]
      BY <1>2 DEF Following
    <3>2. snap[Len(consumed) + 1] \in LineKinds
      BY <1>4
    <3>3. /\ Len(consumed') = Len(consumed) + 1
          /\ \A i \in 1..Len(consumed) : consumed'[i] = consumed[i]
          /\ consumed'[Len(consumed) + 1] = snap[Len(consumed) + 1]
      BY <1>4, <2>1, <3>2
    <3> QED
      BY <1>4, <3>1, <3>3
  <2>4. Following'
    BY <1>1, <1>4, <2>1, <2>2, <2>3 DEF Following
  <2> QED
    BY <1>5, <2>2, <2>4, EligibleKept DEF Calm
<1>7. CASE ~guarded
  <2>1. pc' = "done" /\ UNCHANGED sourceVars
    BY <1>7 DEF ReadPastBudget, Leave, Stop
  <2>2. Remembered'
    BY <1>1, <1>2, <2>1 DEF Remembered, HoldingDescriptor
  <2> QED
    BY <1>5, <2>1, <2>2, EligibleKept DEF Calm, HoldingDescriptor
<1> QED
  BY <1>6, <1>7

LEMMA ReadEofCalm ==
  ASSUME TypeOK, Undisturbed, Calm, UNCHANGED <<inputs, fsVars, readErrors>>, ReadEof
  PROVE  Calm'
<1>1. /\ pc \in {"consume", "drain"} /\ ~eof /\ eof' = TRUE
      /\ pc' = IF pc = "drain" THEN "verify_file" ELSE pc
      /\ UNCHANGED <<issued, pass, opened, consumed, result, claim>>
  BY DEF ReadEof, ReadyToRead
<1>2. /\ Following /\ Remembered'
      /\ opened'.file = tree'.entry /\ opened'.full = FileIdentity(tree.entry)'
      /\ pass' > 0
  BY <1>1, ScanFrame DEF HoldingDescriptor
<1>3. Len(consumed) = Len(snap)
  <2>1. data[opened.file] = snap
    BY <1>2 DEF Following, Undisturbed
  <2> QED
    BY <1>2, <2>1, LimitsAreNumbers DEF ReadEof, Unread, Following, TypeOK
<1>4. Following'
  BY <1>1, <1>2, <1>3 DEF Following
<1>5. Willing => Willing'
  BY <1>1 DEF Willing, HoldingDescriptor
<1> QED
  BY <1>2, <1>4, <1>5, EligibleKept DEF Calm

\* Leaving a loop: what is drained next, or verified, was read so far.
LEMMA LoopCalm ==
  ASSUME TypeOK, Undisturbed, Calm, UNCHANGED <<inputs, fsVars, readErrors>>,
         UNCHANGED <<outVars, sourceVars, openVars, readVars>>,
         pc = "consume",
         pc' = "consume" \/ pc' = (IF eof THEN "verify_file" ELSE "drain"),
         Eligible(snap, lim, scanner) => pc' = "consume" \/ claim' = "complete"
  PROVE  Calm'
<1>1. pc' \in {"consume", "verify_file", "drain"} /\ (pc' = "verify_file" => eof)
  OBVIOUS
<1>2. /\ Following /\ Remembered'
      /\ opened'.file = tree'.entry /\ opened'.full = FileIdentity(tree.entry)'
      /\ pass' > 0
  BY <1>1, ScanFrame DEF HoldingDescriptor
<1>3. Following'
  BY <1>1, <1>2 DEF Following
<1>4. Willing /\ (pc' = "consume" \/ claim' = "complete") => Willing'
  BY DEF Willing
<1> QED
  BY <1>2, <1>3, <1>4, EligibleKept DEF Calm

LEMMA ParseLineCalm ==
  ASSUME TypeOK, Undisturbed, Calm, UNCHANGED <<inputs, fsVars, readErrors>>, ParseLine
  PROVE  Calm'
<1>1. pc = "consume" /\ parsed < Len(consumed)
  BY DEF ParseLine
<1>2. Following /\ scanner # "integrity"
  BY <1>1 DEF Calm, Following, HoldingDescriptor
<1> DEFINE stop == LineStop(consumed[parsed + 1])
<1>3. CASE stop = NoClaim
  BY <1>1, <1>3, LoopCalm DEF ParseLine
<1>4. CASE stop # NoClaim
  <2>1. ~Eligible(snap, lim, scanner)
    BY <1>1, <1>2, <1>4, NoLineStops
  <2>2. pc' = IF eof THEN "verify_file" ELSE "drain"
    BY <1>4 DEF ParseLine, FinishAs
  <2> QED
    BY <1>1, <2>1, <2>2, LoopCalm DEF ParseLine
<1> QED
  BY <1>3, <1>4

LEMMA EndOfLinesCalm ==
  ASSUME TypeOK, Undisturbed, Calm, UNCHANGED <<inputs, fsVars, readErrors>>, EndOfLines
  PROVE  Calm'
<1>1. pc = "consume" /\ (AtRecordBudget \/ (eof /\ parsed = Len(consumed)))
  BY DEF EndOfLines
<1>2. Following /\ scanner # "integrity"
  BY <1>1 DEF Calm, Following, HoldingDescriptor
<1>3. pc' = IF eof THEN "verify_file" ELSE "drain"
  BY DEF EndOfLines, FinishAs
<1>4. Eligible(snap, lim, scanner) => claim' = "complete"
  BY <1>1, <1>2, LoopConcludes DEF EndOfLines, FinishAs
<1> QED
  BY <1>1, <1>3, <1>4, LoopCalm DEF EndOfLines

LEMMA VerifyCalm ==
  ASSUME TypeOK, Undisturbed, Calm, UNCHANGED <<inputs, fsVars, readErrors>>,
         VerifyFile \/ VerifyRoot \/ VerifyParent \/ VerifyPath
  PROVE  Calm'
<1>1. pc \in HoldingDescriptor \ {"consume", "drain"}
  BY DEF VerifyFile, VerifyRoot, VerifyParent, VerifyPath, Verify, HoldingDescriptor
<1>2. Following /\ Remembered
  BY <1>1 DEF Calm
<1>3. FileUnchanged /\ RootUnchanged /\ tree.parent = opened.parent
  BY <1>1, <1>2 DEF Following, Remembered, FileUnchanged, RootUnchanged, HoldingDescriptor
<1>4. tree.entry # Absent /\ OpenIdentity(tree.entry) = opened.full.open
  BY <1>2 DEF Following, FileIdentity, Undisturbed
<1>5. /\ pc' \in {"verify_root", "verify_parent", "verify_path", "report"}
      /\ UNCHANGED <<outVars, sourceVars, openVars, readVars, parseVars>>
  BY <1>3, <1>4 DEF VerifyFile, VerifyRoot, VerifyParent, VerifyPath, Verify
<1>6. /\ Remembered'
      /\ opened'.file = tree'.entry /\ opened'.full = FileIdentity(tree.entry)'
      /\ pass' > 0
  BY <1>1, <1>5, ScanFrame DEF HoldingDescriptor
<1>7. Following'
  BY <1>1, <1>2, <1>5, <1>6 DEF Following, HoldingDescriptor
<1>8. Willing => Willing'
  BY <1>1, <1>5 DEF Willing
<1> QED
  BY <1>6, <1>7, <1>8, EligibleKept DEF Calm

\* What was read is what was recorded.
LEMMA BytesAreRecorded ==
  ASSUME TypeOK, Calm, pc = "report"
  PROVE  BytesMatch
<1>1. Following
  BY DEF Calm, HoldingDescriptor
<1>2. Len(consumed) = Len(snap) /\ \A i \in 1..Len(consumed) : consumed[i] = snap[i]
  BY <1>1 DEF Following
<1> QED
  <2>1. consumed \in Seq(LineKinds) /\ snap \in Seq(LineKinds)
    BY LimitsAreNumbers DEF TypeOK
  <2> QED
    BY <1>2, <2>1, SeqEqual DEF BytesMatch

LEMMA ReportCalm ==
  ASSUME TypeOK, Undisturbed, Calm, UNCHANGED <<inputs, fsVars, readErrors>>,
         ReportSchema \/ ReportIncomplete \/ ReportEvidence
  PROVE  Calm'
<1>1. pc = "report" /\ UNCHANGED issued /\ Remembered /\ Following
  BY DEF ReportSchema, ReportIncomplete, ReportEvidence, Issue, Calm, HoldingDescriptor
<1>2. CASE ReportSchema
  <2>1. pc' = "lookup" /\ UNCHANGED result
    BY <1>2 DEF ReportSchema
  <2>2. Remembered'
    BY <1>1, <2>1 DEF Remembered, HoldingDescriptor, Following
  <2>3. Willing => Willing'
    BY <2>1 DEF Willing, HoldingDescriptor
  <2> QED
    BY <2>1, <2>2, <2>3, EligibleKept DEF Calm, HoldingDescriptor
<1>3. CASE ReportIncomplete
  <2>1. pc' = "done" /\ UNCHANGED pass /\ claim # "complete"
    BY <1>3 DEF ReportIncomplete, Stop
  <2>2. Remembered'
    BY <1>1, <2>1 DEF Remembered, HoldingDescriptor
  <2>3. ~Eligible(snap, lim, scanner)
    BY <1>1, <2>1 DEF Calm, Willing, HoldingDescriptor
  <2> QED
    BY <2>1, <2>2, <2>3, EligibleKept DEF Calm, HoldingDescriptor
<1>4. CASE ReportEvidence
  <2>1. pc' = "done" /\ UNCHANGED pass /\ result' = "evidence"
    BY <1>4 DEF ReportEvidence, Stop
  <2>2. Remembered'
    BY <1>1, <2>1 DEF Remembered, HoldingDescriptor
  <2> QED
    BY <2>1, <2>2, EligibleKept DEF Calm, HoldingDescriptor, Willing
<1> QED
  BY <1>2, <1>3, <1>4

LEMMA NextCalm ==
  ASSUME TypeOK, Undisturbed => Calm, [ScanNext]_scanVars, Undisturbed'
  PROVE  Calm'
<1>1. /\ Undisturbed /\ Calm /\ UNCHANGED <<inputs, fsVars, readErrors>>
      /\ ~Environment /\ ~ReadError
  BY CalmSteps
<1>2. CASE IssueRoot \/ LookupPath \/ StatPath \/ IssueFile \/ OpenScan
  BY <1>1, <1>2, OpeningCalm
<1>3. CASE ReadBlock
  BY <1>1, <1>3, ReadBlockCalm
<1>4. CASE ReadPastBudget
  BY <1>1, <1>4, ReadPastBudgetCalm
<1>5. CASE ReadEof
  BY <1>1, <1>5, ReadEofCalm
<1>6. CASE ParseLine
  BY <1>1, <1>6, ParseLineCalm
<1>7. CASE EndOfLines
  BY <1>1, <1>7, EndOfLinesCalm
<1>8. CASE VerifyFile \/ VerifyRoot \/ VerifyParent \/ VerifyPath
  BY <1>1, <1>8, VerifyCalm
<1>9. CASE ReportRefused
  BY <1>1, <1>9, BytesAreRecorded DEF ReportRefused
<1>10. CASE ReportSchema \/ ReportIncomplete \/ ReportEvidence
  BY <1>1, <1>10, ReportCalm
<1>11. CASE UNCHANGED scanVars
  BY <1>1, <1>11, EligibleKept
  DEF scanVars, Calm, Remembered, Following, Willing, OpenIdentity, FileIdentity
<1> QED
  BY <1>1, <1>2, <1>3, <1>4, <1>5, <1>6, <1>7, <1>8, <1>9, <1>10, <1>11
  DEF ScanNext, Program, Exited

LEMMA NextEligible ==
  ASSUME TypeOK, Core, EvidenceEligible, [ScanNext]_scanVars
  PROVE  EvidenceEligible'
<1>1. UNCHANGED inputs
  BY DEF ScanNext, Program, Environment, Exited, scanVars, IssueRoot, LookupPath, StatPath,
      IssueFile, OpenScan, ReadBlock, ReadPastBudget, ReadEof, ReadError, ParseLine,
      EndOfLines, VerifyFile, VerifyRoot, VerifyParent, VerifyPath, Verify, Fail, Raise,
      Leave, ReportRefused, ReportSchema, ReportIncomplete, ReportEvidence, Issue, Relink,
      Rewrite
<1>2. CASE ReportEvidence
  <2>1. /\ pc = "report" /\ consumed = snap /\ claim = "complete"
        /\ (pass = 2 \/ scanner = "integrity")
    BY <1>2 DEF ReportEvidence, Issue, BytesMatch
  <2> QED
    BY <1>1, <2>1, CompleteMeansEligible, EligibleKept DEF EvidenceEligible
<1>3. CASE ~ReportEvidence
  <2>1. result' \in {result, "raised", "incomplete"}
    BY <1>3
    DEF ScanNext, Program, Environment, Exited, scanVars, IssueRoot, LookupPath, StatPath,
      IssueFile, OpenScan, ReadBlock, ReadPastBudget, ReadEof, ReadError, ParseLine,
      EndOfLines, VerifyFile, VerifyRoot, VerifyParent, VerifyPath, Verify, Fail, Raise,
      Leave, ReportRefused, ReportSchema, ReportIncomplete, Relink, Rewrite, Stop
  <2> QED
    BY <1>1, <2>1, EligibleKept DEF EvidenceEligible
<1> QED
  BY <1>2, <1>3

\* Evidence exactly for an eligible artifact, when nobody else is at work and no read
\* fails.  (What budgets admit, at their boundaries, over both passes.)
THEOREM EvidenceIfEligible == ScanSpec => []UndisturbedOutcome
<1>1. ScanInit => UndisturbedInv
  BY InitCalm DEF ScanInit, Init, EvidenceEligible, UndisturbedInv
<1>2. (TypeOK /\ Core) /\ UndisturbedInv /\ [ScanNext]_scanVars => UndisturbedInv'
  BY NextCalm, NextEligible DEF UndisturbedInv
<1>3. (TypeOK /\ Core) /\ UndisturbedInv => UndisturbedOutcome
  <2> SUFFICES ASSUME TypeOK, Core, UndisturbedInv, pc = "done", Undisturbed
               PROVE  result = "evidence" <=> Eligible(snap, lim, scanner)
    BY DEF UndisturbedOutcome, Undisturbed
  <2>1. result \in {"evidence", "incomplete", "raised"}
    BY DEF Core, OutcomeInv, TypeOK
  <2> QED
    BY <2>1 DEF Calm, Willing, EvidenceEligible, UndisturbedInv
<1> QED
  BY <1>1, <1>2, <1>3, Invariance, PTL DEF ScanSpec
====
