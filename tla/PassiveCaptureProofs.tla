--------------------------- MODULE PassiveCaptureProofs ---------------------------
(***************************************************************************)
(* Proofs about PassiveCapture, for any contents, bound, block size, names *)
(* and number of changes: a capture is one look at the file, and with      *)
(* nobody else at work the outcome is a function of the path.              *)
(***************************************************************************)
EXTENDS PassiveCapture, SequenceTheorems, TLAPS

-----------------------------------------------------------------------------------
(* The invariant                                                             *)

Rechecks == {"fstat", "recheck_root", "recheck_parent", "recheck_path"}
Reading == {"read"} \cup Rechecks
Statted == {"open"} \cup Reading
Stages == {"root", "parent", "leaf", "resolve", "stat", "done"} \cup Statted

TypeOK ==
  /\ tree \in [root : RootNames, parent : ParentNames, entry : EntryNames]
  /\ data \in [Inodes -> Contents]
  /\ mtime \in [Inodes -> Nat] /\ ctime \in [Inodes -> Nat]
  /\ changes \in Nat /\ readErrors \in Nat
  /\ reader \in {"capture", "inspect"}
  /\ pc \in Stages
  /\ consumed \in Seq(Bytes)

\* What the path names has been seen, and the answer comes with the end.
HistoryIsKept ==
  /\ Shown(tree, data) \subseteq seen
  /\ outcome = "pending" <=> pc # "done"

\* The file whose identity was taken before the open has not been rewritten since.
Untouched(f) == ctime[f] = before.ctime

\* The content of a file that was not rewritten is one the path has named, and what was
\* consumed is a prefix of it.
Faithful ==
  LET f == before.open.file
  IN  /\ pc \in Statted =>
           /\ f \in Inodes /\ before.ctime \in Nat /\ before.ctime <= ctime[f]
           /\ Untouched(f) => data[f] \in seen
      /\ pc \in Reading =>
           /\ opened = before.open
           /\ Untouched(f) =>
                /\ Len(consumed) <= Len(data[f])
                /\ \A i \in 1..Len(consumed) : consumed[i] = data[f][i]
      /\ pc \notin Reading => consumed = <<>>
      /\ pc \in Rechecks => Len(consumed) <= MaxBytes

IInv == TypeOK /\ HistoryIsKept /\ Faithful

-----------------------------------------------------------------------------------
(* Lemmas about names and contents                                           *)

LEMMA ContentType == ASSUME NEW c \in Contents PROVE c \in Seq(Bytes) /\ Len(c) \in Nat
BY PassiveAssumption

\* A file is named exactly by the name that is bound to it.
LEMMA NamedFile ==
  ASSUME TypeOK, Named(tree) \notin {Missing, Link, Folder}
  PROVE  /\ Named(tree) \in Inodes /\ Named(tree) = tree.entry
         /\ tree.root # Missing /\ tree.parent \notin {Missing, Plain}
         /\ Shown(tree, data) = {data[Named(tree)]}
BY DEF TypeOK, Named, EntryNames, Shown

LEMMA InodesAreNoNames ==
  ASSUME NEW f \in Inodes PROVE f \notin {Missing, Link, Plain, Folder}
BY NamesAssumption

\* Reading on from where a prefix ends gives a longer prefix.
LEMMA LongerPrefix ==
  ASSUME NEW c \in Seq(Bytes), NEW d \in Seq(Bytes), NEW n \in Nat, Len(c) + n <= Len(d)
  PROVE  LET e == c \o SubSeq(d, Len(c) + 1, Len(c) + n)
         IN  /\ e \in Seq(Bytes) /\ Len(e) = Len(c) + n
             /\ \A i \in 1..Len(c) : e[i] = c[i]
             /\ \A i \in (Len(c) + 1)..(Len(c) + n) : e[i] = d[i]
<1> DEFINE s == SubSeq(d, Len(c) + 1, Len(c) + n)
<1>1. s \in Seq(Bytes) /\ Len(s) = n /\ \A i \in 1..n : s[i] = d[Len(c) + i]
  <2>1. \A i \in (Len(c) + 1)..(Len(c) + n) : d[i] \in Bytes
    BY ElementOfSeq
  <2> QED
    BY <2>1, SubSeqProperties
<1> HIDE DEF s
<1>2. c \o s \in Seq(Bytes) /\ Len(c \o s) = Len(c) + n
      /\ \A i \in 1..(Len(c) + n) :
            (c \o s)[i] = IF i <= Len(c) THEN c[i] ELSE s[i - Len(c)]
  BY <1>1, ConcatProperties
<1>3. \A i \in 1..Len(c) : (c \o s)[i] = c[i]
  BY <1>2
<1>4. ASSUME NEW i \in (Len(c) + 1)..(Len(c) + n) PROVE (c \o s)[i] = d[i]
  BY <1>1, <1>2, <1>4
<1> QED
  BY <1>2, <1>3, <1>4 DEF s

\* Two sequences of one length with the same elements are equal.
LEMMA WholePrefix ==
  ASSUME NEW c \in Seq(Bytes), NEW d \in Seq(Bytes), Len(c) = Len(d),
         \A i \in 1..Len(c) : c[i] = d[i]
  PROVE  c = d
BY SeqEqual

-----------------------------------------------------------------------------------
(* Every step preserves the invariant                                        *)

LEMMA Initially == Init => IInv
<1> SUFFICES ASSUME Init PROVE IInv
  OBVIOUS
<1>1. TypeOK
  <2>1. consumed \in Seq(Bytes) /\ readErrors \in Nat /\ changes \in Nat
    BY DEF Init
  <2> QED
    BY <2>1, PassiveAssumption DEF Init, TypeOK, Stages, Statted, Reading, Rechecks
<1>2. HistoryIsKept
  BY DEF Init, HistoryIsKept
<1>3. Faithful
  BY DEF Init, Faithful, Statted, Reading, Rechecks
<1> QED
  BY <1>1, <1>2, <1>3 DEF IInv

LEMMA RefusalKeeps ==
  ASSUME IInv, NEW why, Refuse(why), readErrors' \in Nat PROVE IInv'
<1>1. TypeOK'
  <2>1. consumed' \in Seq(Bytes)
    BY DEF Refuse
  <2> QED
    BY <2>1 DEF IInv, TypeOK, Refuse, fsVars, Stages
<1>2. HistoryIsKept'
  BY DEF IInv, HistoryIsKept, Refuse, fsVars
<1>3. Faithful'
  BY DEF Faithful, Refuse, Statted, Reading, Rechecks
<1> QED
  BY <1>1, <1>2, <1>3 DEF IInv

\* Going on to another look before the file is opened.
LEMMA LooksKeep ==
  ASSUME IInv, pc \in {"root", "parent", "leaf", "resolve"},
         NEW next \in {"parent", "leaf", "resolve", "stat"}, Proceed(next)
  PROVE  IInv'
<1>1. TypeOK'
  BY DEF IInv, TypeOK, Proceed, fsVars, readVars, Stages
<1>2. HistoryIsKept'
  BY DEF IInv, HistoryIsKept, Proceed, fsVars, outVars
<1>3. Faithful'
  BY DEF IInv, Faithful, Proceed, fsVars, readVars, Statted, Reading, Rechecks
<1> QED
  BY <1>1, <1>2, <1>3 DEF IInv

\* Going on with a comparison after the last block.
LEMMA RechecksKeep ==
  ASSUME IInv, pc \in Reading, Len(consumed) <= MaxBytes,
         NEW next \in Rechecks, Proceed(next), UNCHANGED idVars
  PROVE  IInv'
<1>1. TypeOK'
  BY DEF IInv, TypeOK, Proceed, fsVars, readVars, Stages, Statted, Reading
<1>2. HistoryIsKept'
  BY DEF IInv, HistoryIsKept, Proceed, fsVars, outVars, Rechecks, Reading
<1>3. Faithful'
  BY DEF IInv, Faithful, Untouched, Proceed, fsVars, readVars, idVars, Statted, Reading,
         Rechecks
<1> QED
  BY <1>1, <1>2, <1>3 DEF IInv

\* before: the file the path names now, whose content has been seen.
LEMMA StatKeeps == ASSUME IInv, StatPath PROVE IInv'
<1> DEFINE f == Named(tree)
<1>1. CASE f \in {Missing, Link, Folder} \/ (f \in Inodes /\ TooLarge(f))
  <2>1. \E why \in Codes : Refuse(why) /\ UNCHANGED readErrors
    BY <1>1, InodesAreNoNames DEF StatPath, Codes
  <2> QED
    BY <2>1, RefusalKeeps DEF IInv, TypeOK
<1>2. CASE ~(f \in {Missing, Link, Folder} \/ (f \in Inodes /\ TooLarge(f)))
  <2>1. /\ pc = "stat" /\ before' = PathIdentity(f)
        /\ Proceed("open") /\ UNCHANGED <<rootBefore, parentBefore, opened>>
    BY <1>2 DEF StatPath
  <2>2. f \in Inodes /\ Shown(tree, data) = {data[f]}
    BY <1>2, NamedFile DEF IInv
  <2>3. data[f] \in seen
    BY <2>2 DEF IInv, HistoryIsKept
  <2>4. before'.open.file = f /\ before'.ctime = ctime[f]
    BY <2>1 DEF PathIdentity, OpenIdentity
  <2>5. TypeOK'
    BY <2>1 DEF IInv, TypeOK, Proceed, fsVars, readVars, Stages, Statted
  <2>6. HistoryIsKept'
    BY <2>1 DEF IInv, HistoryIsKept, Proceed, fsVars, outVars
  <2>7. Faithful'
    <3> HIDE DEF f
    <3>1. ctime[f] \in Nat /\ ctime' = ctime /\ data' = data /\ seen' = seen
      BY <2>1, <2>2 DEF IInv, TypeOK, Proceed, fsVars
    <3>2. consumed' = <<>> /\ pc' = "open"
      BY <2>1 DEF IInv, Faithful, Proceed, readVars, Reading, Rechecks
    <3> QED
      BY <2>2, <2>3, <2>4, <3>1, <3>2 DEF Faithful, Untouched, Statted, Reading, Rechecks
  <2> QED
    BY <2>5, <2>6, <2>7 DEF IInv
<1> QED
  BY <1>1, <1>2

\* opened: the identity taken before, or nothing.
LEMMA OpenKeeps == ASSUME IInv, Open PROVE IInv'
<1> DEFINE f == Named(tree)
<1>1. CASE f \in {Missing, Link, Folder} \/ (f \in Inodes /\ OpenIdentity(f) # before.open)
  <2>1. \E why \in Codes : Refuse(why) /\ UNCHANGED readErrors
    BY <1>1, InodesAreNoNames DEF Open, Codes
  <2> QED
    BY <2>1, RefusalKeeps DEF IInv, TypeOK
<1>2. CASE ~(f \in {Missing, Link, Folder} \/ (f \in Inodes /\ OpenIdentity(f) # before.open))
  <2>1. /\ pc = "open" /\ opened' = OpenIdentity(f)
        /\ Proceed("read") /\ UNCHANGED <<rootBefore, parentBefore, before>>
    BY <1>2 DEF Open
  <2>2. f \in Inodes
    BY <1>2, NamedFile DEF IInv
  <2>3. opened' = before.open
    BY <1>2, <2>1, <2>2
  <2>4. TypeOK'
    BY <2>1 DEF IInv, TypeOK, Proceed, fsVars, readVars, Stages, Statted, Reading
  <2>5. HistoryIsKept'
    BY <2>1 DEF IInv, HistoryIsKept, Proceed, fsVars, outVars
  <2>6. Faithful'
    <3> DEFINE g == before.open.file
    <3>1. /\ g \in Inodes /\ before.ctime \in Nat /\ before.ctime <= ctime[g]
          /\ Untouched(g) => data[g] \in seen
      BY <2>1 DEF IInv, Faithful, Statted
    <3>2. consumed' = <<>> /\ pc' = "read" /\ before' = before /\ ctime' = ctime
          /\ data' = data /\ seen' = seen
      BY <2>1 DEF IInv, Faithful, Proceed, fsVars, readVars, Reading, Rechecks
    <3>3. Len(data[g]) \in Nat
      BY <3>1, ContentType DEF IInv, TypeOK
    <3>4. Len(consumed') = 0
      BY <3>2
    <3> QED
      BY <2>3, <3>1, <3>2, <3>3, <3>4 DEF Faithful, Untouched, Statted, Reading, Rechecks
  <2> QED
    BY <2>4, <2>5, <2>6 DEF IInv
<1> QED
  BY <1>1, <1>2

\* As long as the file is untouched, what is read prolongs a prefix of it.
LEMMA ReadKeeps == ASSUME IInv, ReadBlock PROVE IInv'
<1> DEFINE f == before.open.file
<1>1. /\ pc = "read" /\ f \in Inodes /\ opened.file = f /\ data[f] \in Seq(Bytes)
      /\ Len(data[f]) \in Nat /\ consumed \in Seq(Bytes) /\ Len(consumed) \in Nat
  <2>1. pc = "read"
    BY DEF ReadBlock
  <2>2. f \in Inodes /\ opened = before.open
    BY <2>1 DEF IInv, Faithful, Statted, Reading
  <2>3. data[f] \in Contents
    BY <2>2 DEF IInv, TypeOK
  <2>4. consumed \in Seq(Bytes)
    BY DEF IInv, TypeOK
  <2> QED
    BY <2>1, <2>2, <2>3, <2>4, ContentType
<1>2. Wanted \in Int
  BY <1>1, PassiveAssumption DEF Wanted, Least, Remaining
<1>3. PICK n \in 1..Least(Wanted, Unread) :
        consumed' = consumed \o SubSeq(File, Len(consumed) + 1, Len(consumed) + n)
  BY DEF ReadBlock
<1>4. n \in Nat /\ Len(consumed) + n <= Len(data[f])
  BY <1>1, <1>2, <1>3 DEF Least, Unread, File
<1>5. consumed' = consumed \o SubSeq(data[f], Len(consumed) + 1, Len(consumed) + n)
  BY <1>1, <1>3 DEF File
<1>6. /\ consumed' \in Seq(Bytes) /\ Len(consumed') = Len(consumed) + n
      /\ \A i \in 1..Len(consumed) : consumed'[i] = consumed[i]
      /\ \A i \in (Len(consumed) + 1)..(Len(consumed) + n) : consumed'[i] = data[f][i]
  BY <1>1, <1>4, <1>5, LongerPrefix
<1>7. UNCHANGED <<tree, data, mtime, ctime, changes, seen, reader, pc, before, opened,
                  readErrors, outcome>>
  BY DEF ReadBlock, fsVars, idVars, outVars
<1>8. TypeOK'
  BY <1>6, <1>7 DEF IInv, TypeOK
<1>9. HistoryIsKept'
  BY <1>7 DEF IInv, HistoryIsKept
<1>10. ASSUME Untouched(f) PROVE \A i \in 1..Len(consumed') : consumed'[i] = data[f][i]
  <2>1. \A i \in 1..Len(consumed) : consumed[i] = data[f][i]
    BY <1>1, <1>10 DEF IInv, Faithful, Reading
  <2> QED
    BY <1>1, <1>4, <1>6, <2>1
<1>11. Faithful'
  BY <1>1, <1>4, <1>6, <1>7, <1>10 DEF IInv, Faithful, Untouched, Reading, Statted, Rechecks
<1> QED
  BY <1>8, <1>9, <1>11 DEF IInv

LEMMA EndOfReadKeeps == ASSUME IInv, EndOfRead PROVE IInv'
<1>1. Len(consumed) \in Nat /\ MaxBytes \in Nat
  BY PassiveAssumption DEF IInv, TypeOK
<1>2. CASE Len(consumed) > MaxBytes
  BY <1>2, RefusalKeeps DEF EndOfRead, IInv, TypeOK
<1>3. CASE Len(consumed) <= MaxBytes
  BY <1>1, <1>3, RechecksKeep DEF EndOfRead, Reading, Rechecks
<1> QED
  BY <1>1, <1>2, <1>3

LEMMA FstatKeeps == ASSUME IInv, FstatAgain PROVE IInv'
<1>1. pc \in Rechecks /\ pc \in Reading /\ Len(consumed) <= MaxBytes
  BY DEF FstatAgain, IInv, Faithful, Rechecks, Reading
<1> QED
  BY <1>1, RefusalKeeps, RechecksKeep DEF FstatAgain, IInv, TypeOK, Rechecks

LEMMA RecheckRootKeeps == ASSUME IInv, RecheckRoot PROVE IInv'
<1>1. pc \in Rechecks /\ pc \in Reading /\ Len(consumed) <= MaxBytes
  BY DEF RecheckRoot, IInv, Faithful, Rechecks, Reading
<1> QED
  BY <1>1, RefusalKeeps, RechecksKeep DEF RecheckRoot, IInv, TypeOK, Rechecks

LEMMA RecheckParentKeeps == ASSUME IInv, RecheckParent PROVE IInv'
<1>1. pc \in Rechecks /\ pc \in Reading /\ Len(consumed) <= MaxBytes
  BY DEF RecheckParent, IInv, Faithful, Rechecks, Reading
<1> QED
  BY <1>1, RefusalKeeps, RechecksKeep DEF RecheckParent, IInv, TypeOK, Rechecks

LEMMA RecheckPathKeeps == ASSUME IInv, RecheckPath PROVE IInv'
<1>1. CASE ~SameFile
  BY <1>1, RefusalKeeps DEF RecheckPath, IInv, TypeOK
<1>2. CASE SameFile
  <2>1. /\ pc' = "done" /\ outcome' = "captured" /\ consumed' = <<>>
        /\ UNCHANGED <<fsVars, reader, readErrors>>
    BY <1>2 DEF RecheckPath
  <2>2. TypeOK'
    <3>1. consumed' \in Seq(Bytes)
      BY <2>1
    <3> QED
      BY <2>1, <3>1 DEF IInv, TypeOK, fsVars, Stages
  <2> QED
    BY <2>1, <2>2 DEF IInv, HistoryIsKept, Faithful, fsVars, Statted, Reading, Rechecks
<1> QED
  BY <1>1, <1>2

LEMMA LookingKeeps == ASSUME IInv, LookRoot \/ LookParent \/ LookLeaf \/ Resolve PROVE IInv'
<1> USE RefusalKeeps, LooksKeep
<1>1. readErrors \in Nat
  BY DEF IInv, TypeOK
<1>2. CASE LookRoot
  BY <1>1, <1>2 DEF LookRoot, Missing, Link
<1>3. CASE LookParent
  BY <1>1, <1>3 DEF LookParent, Missing, Link, Plain
<1>4. CASE LookLeaf
  BY <1>1, <1>4 DEF LookLeaf, Missing, Link
<1>5. CASE Resolve
  BY <1>1, <1>5 DEF Resolve
<1> QED
  BY <1>2, <1>3, <1>4, <1>5

-----------------------------------------------------------------------------------
(* Other processes                                                           *)

\* What the path names afterwards is seen, and the program does not move.
LEMMA InterferenceKeeps ==
  ASSUME IInv, Interfere,
         tree' \in [root : RootNames, parent : ParentNames, entry : EntryNames],
         data' \in [Inodes -> Contents],
         mtime' \in [Inodes -> Nat], ctime' \in [Inodes -> Nat],
         \A f \in Inodes : ctime[f] <= ctime'[f] /\ (ctime'[f] = ctime[f] => data'[f] = data[f])
  PROVE  IInv'
<1>1. /\ UNCHANGED <<reader, pc, before, opened, consumed, readErrors, outcome>>
      /\ changes' \in Nat /\ seen' = seen \cup Shown(tree', data')
  BY DEF Interfere, IInv, TypeOK, idVars, readVars, outVars
<1>2. TypeOK'
  BY <1>1 DEF IInv, TypeOK
<1>3. HistoryIsKept'
  <2>1. Shown(tree, data)' = Shown(tree', data')
    BY DEF Shown, Named
  <2> QED
    BY <1>1, <2>1 DEF IInv, HistoryIsKept
<1>4. Faithful'
  <2> DEFINE f == before.open.file
  <2>1. ASSUME pc \in Statted
        PROVE  /\ f \in Inodes /\ before.ctime \in Nat /\ before.ctime <= ctime'[f]
               /\ ctime'[f] = before.ctime =>
                    Untouched(f) /\ data'[f] = data[f] /\ data[f] \in seen
    <3>1. /\ f \in Inodes /\ before.ctime \in Nat /\ before.ctime <= ctime[f]
          /\ Untouched(f) => data[f] \in seen
      BY <2>1 DEF IInv, Faithful
    <3>2. ctime[f] \in Nat /\ ctime'[f] \in Nat /\ ctime[f] <= ctime'[f]
          /\ (ctime'[f] = ctime[f] => data'[f] = data[f])
      BY <3>1 DEF IInv, TypeOK
    <3> QED
      BY <3>1, <3>2 DEF Untouched
  <2>2. pc \in Reading => pc \in Statted
    BY DEF Statted
  <2> QED
    BY <1>1, <2>1, <2>2 DEF IInv, Faithful, Untouched
<1> QED
  BY <1>2, <1>3, <1>4 DEF IInv

LEMMA RebindKeeps == ASSUME IInv, Rebind PROVE IInv'
<1>1. tree' \in [root : RootNames, parent : ParentNames, entry : EntryNames]
  BY DEF Rebind, IInv, TypeOK
<1>2. UNCHANGED <<data, mtime, ctime>> /\ Interfere
  BY DEF Rebind
<1> QED
  BY <1>1, <1>2, InterferenceKeeps DEF IInv, TypeOK

LEMMA RewriteKeeps == ASSUME IInv, NEW f \in Inodes, Rewrite(f) PROVE IInv'
<1>0. PICK c \in Contents : data' = [data EXCEPT ![f] = c]
  BY DEF Rewrite
<1>1. /\ ctime' = [ctime EXCEPT ![f] = @ + 1] /\ tree' = tree /\ Interfere
      /\ mtime' = mtime \/ mtime' = [mtime EXCEPT ![f] = @ + 1]
  BY DEF Rewrite
<1>4. mtime' \in [Inodes -> Nat]
  BY <1>1 DEF IInv, TypeOK
<1>5. data' \in [Inodes -> Contents]
  BY <1>0 DEF IInv, TypeOK
<1>2. ctime' \in [Inodes -> Nat]
  BY <1>1 DEF IInv, TypeOK
<1>3. ASSUME NEW g \in Inodes
      PROVE  ctime[g] <= ctime'[g] /\ (ctime'[g] = ctime[g] => data'[g] = data[g])
  BY <1>0, <1>1 DEF IInv, TypeOK
<1> QED
  BY <1>1, <1>2, <1>3, <1>4, <1>5, InterferenceKeeps DEF IInv, TypeOK

-----------------------------------------------------------------------------------
(* The invariant                                                             *)

LEMMA StutterKeeps == ASSUME IInv, UNCHANGED passiveVars PROVE IInv'
BY DEF IInv, TypeOK, HistoryIsKept, Faithful, Untouched, Shown, Named, passiveVars, fsVars,
       idVars, readVars, outVars

LEMMA NextKeeps == IInv /\ [Next]_passiveVars => IInv'
<1> SUFFICES ASSUME IInv, [Next]_passiveVars PROVE IInv'
  OBVIOUS
<1>1. CASE LookRoot \/ LookParent \/ LookLeaf \/ Resolve
  BY <1>1, LookingKeeps
<1>2. CASE StatPath
  BY <1>2, StatKeeps
<1>3. CASE Open
  BY <1>3, OpenKeeps
<1>4. CASE ReadBlock
  BY <1>4, ReadKeeps
<1>5. CASE EndOfRead
  BY <1>5, EndOfReadKeeps
<1>6. CASE FstatAgain \/ RecheckRoot \/ RecheckParent \/ RecheckPath
  BY <1>6, FstatKeeps, RecheckRootKeeps, RecheckParentKeeps, RecheckPathKeeps
<1>7. CASE ReadFailed
  BY <1>7, RefusalKeeps DEF ReadFailed, IInv, TypeOK
<1>8. CASE Rebind
  BY <1>8, RebindKeeps
<1>9. CASE \E f \in Inodes : Rewrite(f)
  BY <1>9, RewriteKeeps
<1>10. CASE Returned \/ UNCHANGED passiveVars
  BY <1>10, StutterKeeps DEF Returned
<1> QED
  BY <1>1, <1>2, <1>3, <1>4, <1>5, <1>6, <1>7, <1>8, <1>9, <1>10 DEF Next, Program

LEMMA Invariance == PassiveSpec => []IInv
BY Initially, NextKeeps, PTL DEF PassiveSpec

-----------------------------------------------------------------------------------
(* The refinement                                                            *)

\* The file that passes the last comparison is the one first looked at, untouched, and
\* the whole of it was consumed.
LEMMA CapturedIsSeen ==
  ASSUME IInv, RecheckPath, SameFile
  PROVE  consumed \in seen /\ Len(consumed) <= MaxBytes
<1> DEFINE f == before.open.file
<1>1. pc \in Rechecks /\ pc \in Reading /\ pc \in Statted
  BY DEF RecheckPath, Rechecks, Reading, Statted
<1>2. Named(tree) = f /\ Untouched(f) /\ Len(consumed) = Len(data[f])
  BY DEF SameFile, PathIdentity, OpenIdentity, Untouched
<1>3. f \in Inodes /\ data[f] \in seen /\ Len(consumed) <= MaxBytes
      /\ \A i \in 1..Len(consumed) : consumed[i] = data[f][i]
  BY <1>1, <1>2 DEF IInv, Faithful
<1>4. consumed \in Seq(Bytes) /\ data[f] \in Seq(Bytes)
  BY <1>3, ContentType DEF IInv, TypeOK
<1>5. consumed = data[f]
  BY <1>2, <1>3, <1>4, WholePrefix
<1> QED
  BY <1>3, <1>5

LEMMA ShownIsShows == ASSUME TypeOK PROVE Shown(tree, data) \in Look!Shows
BY DEF TypeOK, Shown, Look!Shows

LEMMA LookInit == Init => Look!Init
<1> SUFFICES ASSUME Init PROVE Look!Init
  OBVIOUS
<1>1. TypeOK
  BY Initially DEF IInv
<1> QED
  BY <1>1, ShownIsShows DEF Init, Look!Init

\* A refusal is a refusal, seen from outside.
LEMMA RefusalRefuses ==
  ASSUME IInv, pc # "done", NEW why, Refuse(why) PROVE Look!Refuse
BY DEF IInv, HistoryIsKept, Refuse, Look!Refuse, fsVars, Shown, Named

\* Anything else the program does but the last step is not seen.
LEMMA ProceedStutters == ASSUME NEW next, Proceed(next) PROVE UNCHANGED Look!lookVars
BY DEF Proceed, Look!lookVars, fsVars, outVars, Shown, Named

LEMMA InterferenceChanges == ASSUME TypeOK', Interfere PROVE Look!Change
<1>1. Shown(tree, data)' \in Look!Shows
  BY DEF TypeOK, Shown, Named, Look!Shows
<1> QED
  BY <1>1 DEF Interfere, outVars, Look!Change, Shown, Named

LEMMA LookStep == IInv /\ IInv' /\ [Next]_passiveVars => [Look!Next]_(Look!lookVars)
<1> SUFFICES ASSUME IInv, IInv', [Next]_passiveVars
             PROVE  Look!Next \/ UNCHANGED Look!lookVars
  OBVIOUS
<1> USE RefusalRefuses, ProceedStutters DEF Look!Next
<1>1. CASE LookRoot
  BY <1>1 DEF LookRoot, Missing, Link
<1>2. CASE LookParent
  BY <1>2 DEF LookParent, Missing, Link, Plain
<1>3. CASE LookLeaf
  BY <1>3 DEF LookLeaf, Missing, Link
<1>4. CASE Resolve
  BY <1>4 DEF Resolve
<1>5. CASE StatPath
  BY <1>5, InodesAreNoNames DEF StatPath, Missing, Link, Folder
<1>6. CASE Open
  BY <1>6, InodesAreNoNames DEF Open, Missing, Link, Folder
<1>7. CASE ReadBlock
  BY <1>7 DEF ReadBlock, Look!lookVars, fsVars, outVars, Shown, Named
<1>8. CASE EndOfRead
  BY <1>8 DEF EndOfRead
<1>9. CASE FstatAgain
  BY <1>9 DEF FstatAgain
<1>10. CASE RecheckRoot
  BY <1>10 DEF RecheckRoot
<1>11. CASE RecheckParent
  BY <1>11 DEF RecheckParent
<1>12. CASE RecheckPath
  <2>1. CASE SameFile
    <3>1. consumed \in {c \in seen : Len(c) <= MaxBytes}
      BY <1>12, <2>1, CapturedIsSeen
    <3>2. outcome = "pending" /\ outcome' = "captured" /\ captured' = consumed
          /\ UNCHANGED fsVars
      BY <1>12, <2>1 DEF RecheckPath, IInv, HistoryIsKept
    <3> QED
      BY <3>1, <3>2 DEF Look!Hand, fsVars, Shown, Named
  <2>2. CASE ~SameFile
    BY <1>12, <2>2 DEF RecheckPath
  <2> QED
    BY <2>1, <2>2
<1>13. CASE ReadFailed
  BY <1>13 DEF ReadFailed
<1>14. CASE Rebind
  BY <1>14, InterferenceChanges DEF Rebind, IInv
<1>15. CASE \E f \in Inodes : Rewrite(f)
  BY <1>15, InterferenceChanges DEF Rewrite, IInv
<1>16. CASE Returned \/ UNCHANGED passiveVars
  BY <1>16 DEF Returned, passiveVars, fsVars, outVars, Look!lookVars, Shown, Named
<1> QED
  BY <1>1, <1>2, <1>3, <1>4, <1>5, <1>6, <1>7, <1>8, <1>9, <1>10, <1>11, <1>12, <1>13,
     <1>14, <1>15, <1>16 DEF Next, Program

\* Whatever other processes do, a capture hands over one content that the path named
\* during the call, whole and within the bound (passive_files.py).
THEOREM CaptureIsOneLook == PassiveSpec => Look!SafeSpec
<1>1. PassiveSpec => []IInv
  BY Invariance
<1> QED
  BY <1>1, LookInit, LookStep, PTL DEF PassiveSpec, Look!SafeSpec

\* A behaviour in which the call is answered is one of the abstract specification.
THEOREM AnsweredCaptureImplementsLook ==
  PassiveSpec /\ <>(outcome # "pending") => ImplementsLook
BY CaptureIsOneLook, PTL DEF ImplementsLook, Look!Spec

-----------------------------------------------------------------------------------
(* The undisturbed outcome                                                   *)

Alone == changes = 0 /\ readErrors = 0

\* What the looks so far have established when nobody else is at work.
Established ==
  /\ pc \notin {"root", "done"} => tree.root \in Dirs /\ rootBefore = tree.root
  /\ pc \notin {"root", "parent", "done"} =>
       tree.parent \in Dirs /\ parentBefore = tree.parent
  /\ pc \notin {"root", "parent", "leaf", "done"} => tree.entry \notin {Missing, Link}
  /\ pc \in Statted =>
       /\ tree.entry \in Inodes /\ Len(data[tree.entry]) <= MaxBytes
       /\ before = PathIdentity(tree.entry)
  /\ pc \in Rechecks => Len(consumed) = Len(data[tree.entry])
  /\ pc # "done" => code = "none"

Calm == Alone => Established /\ UndisturbedOutcome

LEMMA RefusalIsCalm ==
  ASSUME Alone, NEW why, why # "none", Refuse(why), why = ExpectedCode
  PROVE  Calm'
<1>1. pc' = "done" /\ code' = why /\ tree' = tree /\ data' = data
  BY DEF Refuse, fsVars
<1>2. ExpectedCode' = ExpectedCode
  BY <1>1 DEF ExpectedCode
<1> QED
  BY <1>1, <1>2 DEF Calm, Established, UndisturbedOutcome, Statted, Reading, Rechecks

LEMMA LookIsCalm ==
  ASSUME IInv, Alone, Established, LookRoot \/ LookParent \/ LookLeaf \/ Resolve
  PROVE  Calm'
<1>1. \A n \in Dirs \cup Inodes : n \notin {Missing, Link, Plain, Folder}
  BY NamesAssumption
<1>2. /\ tree.root \in RootNames /\ tree.parent \in ParentNames
      /\ tree.entry \in EntryNames
  BY DEF IInv, TypeOK
<1>3. CASE LookRoot
  <2>1. CASE tree.root \in {Missing, Link}
    <3>1. \E why \in {"unavailable", "symlink"} : Refuse(why) /\ why = ExpectedCode
      BY <1>1, <1>3, <2>1 DEF LookRoot, ExpectedCode, Missing, Link
    <3> QED
      BY <3>1, RefusalIsCalm
  <2>2. CASE tree.root \notin {Missing, Link}
    BY <1>2, <1>3, <2>2 DEF LookRoot, RootNames, Proceed, fsVars, outVars, Calm, Established,
       UndisturbedOutcome, Statted, Reading, Rechecks
  <2> QED
    BY <2>1, <2>2
<1>4. CASE LookParent
  <2>0. tree.root \in Dirs /\ tree.root # Missing /\ rootBefore = tree.root /\ code = "none"
    BY <1>1, <1>4 DEF LookParent, Established
  <2>1. CASE tree.parent \in {Missing, Link, Plain}
    <3>1. \E why \in {"unavailable", "symlink", "not_regular"} :
             Refuse(why) /\ why = ExpectedCode
      BY <1>1, <1>4, <2>0, <2>1 DEF LookParent, ExpectedCode, Missing, Link, Plain
    <3> QED
      BY <3>1, RefusalIsCalm
  <2>2. CASE tree.parent \notin {Missing, Link, Plain}
    <3>1. /\ parentBefore' = tree.parent /\ Proceed("leaf")
          /\ UNCHANGED <<rootBefore, before, opened>>
      BY <1>4, <2>0, <2>2 DEF LookParent
    <3> QED
      BY <1>2, <2>0, <2>2, <3>1 DEF ParentNames, Proceed, fsVars, outVars, Calm, Established,
         UndisturbedOutcome, Statted, Reading, Rechecks
  <2> QED
    BY <2>1, <2>2
<1>5. CASE LookLeaf
  <2>0. /\ tree.root \in Dirs /\ tree.parent \in Dirs /\ Named(tree) = tree.entry
        /\ rootBefore = tree.root /\ parentBefore = tree.parent /\ code = "none"
    BY <1>1, <1>5 DEF LookLeaf, Established, Named
  <2>1. CASE tree.entry \in {Missing, Link}
    <3>1. \E why \in {"unavailable", "symlink"} : Refuse(why) /\ why = ExpectedCode
      BY <1>1, <1>5, <2>0, <2>1 DEF LookLeaf, ExpectedCode, Missing, Link, Folder
    <3> QED
      BY <3>1, RefusalIsCalm
  <2>2. CASE tree.entry \notin {Missing, Link}
    <3>1. Proceed("resolve") /\ UNCHANGED idVars
      BY <1>5, <2>0, <2>2 DEF LookLeaf
    <3> QED
      BY <2>0, <2>2, <3>1 DEF Proceed, fsVars, outVars, idVars, Calm, Established,
         UndisturbedOutcome, Statted, Reading, Rechecks
  <2> QED
    BY <2>1, <2>2
<1>6. CASE Resolve
  <2>0. /\ tree.root \in Dirs /\ tree.parent \in Dirs /\ Named(tree) = tree.entry
        /\ tree.entry \notin {Missing, Link}
        /\ rootBefore = tree.root /\ parentBefore = tree.parent /\ code = "none"
    BY <1>1, <1>6 DEF Resolve, Established, Named
  <2>1. Proceed("stat") /\ UNCHANGED idVars
    BY <1>1, <1>6, <2>0 DEF Resolve
  <2> QED
    BY <2>0, <2>1 DEF Proceed, fsVars, outVars, idVars, Calm, Established,
       UndisturbedOutcome, Statted, Reading, Rechecks
<1> QED
  BY <1>3, <1>4, <1>5, <1>6

LEMMA StatIsCalm == ASSUME IInv, Alone, Established, StatPath PROVE Calm'
<1>1. \A n \in Dirs \cup Inodes : n \notin {Missing, Link, Plain, Folder}
  BY NamesAssumption
<1>2. /\ tree.root \in Dirs /\ tree.parent \in Dirs /\ Named(tree) = tree.entry
      /\ tree.entry \notin {Missing, Link} /\ tree.entry \in Inodes \cup {Folder}
      /\ rootBefore = tree.root /\ parentBefore = tree.parent /\ code = "none"
  BY <1>1 DEF StatPath, Established, Named, IInv, TypeOK, EntryNames
<1>3. CASE tree.entry = Folder
  <2>1. Refuse("not_regular") /\ ExpectedCode = "not_regular"
    BY <1>1, <1>2, <1>3 DEF StatPath, ExpectedCode, Missing, Link, Folder
  <2> QED
    BY <2>1, RefusalIsCalm
<1>4. CASE tree.entry \in Inodes /\ TooLarge(tree.entry)
  <2>1. Refuse("too_large")
    BY <1>1, <1>2, <1>4 DEF StatPath
  <2>2. ExpectedCode = "too_large"
    BY <1>1, <1>2, <1>4 DEF ExpectedCode, TooLarge
  <2> QED
    BY <2>1, <2>2, RefusalIsCalm
<1>5. CASE tree.entry \in Inodes /\ ~TooLarge(tree.entry)
  <2>1. /\ before' = PathIdentity(tree.entry) /\ Proceed("open")
        /\ UNCHANGED <<rootBefore, parentBefore, opened>>
    BY <1>1, <1>2, <1>5 DEF StatPath
  <2>2. PathIdentity(tree.entry)' = PathIdentity(tree.entry)
    BY <2>1 DEF Proceed, fsVars, PathIdentity, OpenIdentity
  <2>3. Len(data[tree.entry]) <= MaxBytes
    BY <1>5, ContentType, PassiveAssumption DEF TooLarge, IInv, TypeOK
  <2> QED
    BY <1>2, <1>5, <2>1, <2>2, <2>3 DEF Proceed, fsVars, outVars, Calm, Established,
       UndisturbedOutcome, Statted, Reading, Rechecks
<1> QED
  BY <1>2, <1>3, <1>4, <1>5

\* The steps from the open to the last comparison find what was looked at before.
LEMMA SameLookIsCalm ==
  ASSUME IInv, Alone, Established, pc \in Statted,
         NEW next \in Reading, next \in Rechecks => Len(consumed) = Len(data[tree.entry]),
         Proceed(next), UNCHANGED <<rootBefore, parentBefore, before>>
  PROVE  Calm'
<1>1. PathIdentity(tree.entry)' = PathIdentity(tree.entry)
  BY DEF Proceed, fsVars, PathIdentity, OpenIdentity
<1> QED
  BY <1>1 DEF Proceed, fsVars, outVars, readVars, Calm, Established, UndisturbedOutcome,
     Statted, Reading, Rechecks

\* What is known of the file once its identity was taken.
LEMMA StattedFile ==
  ASSUME IInv, Established, pc \in Statted
  PROVE  /\ Named(tree) = tree.entry /\ tree.entry \in Inodes
         /\ tree.root # Missing /\ tree.parent # Missing
         /\ tree.entry \notin {Missing, Link, Folder}
         /\ before = PathIdentity(tree.entry) /\ before.open = OpenIdentity(tree.entry)
         /\ before.open.file = tree.entry /\ Untouched(tree.entry)
         /\ Len(data[tree.entry]) \in Nat /\ Len(data[tree.entry]) <= MaxBytes
<1>1. \A n \in Dirs \cup Inodes : n \notin {Missing, Link, Plain, Folder}
  BY NamesAssumption
<1>2. /\ tree.root \in Dirs /\ tree.parent \in Dirs /\ tree.entry \in Inodes
      /\ before = PathIdentity(tree.entry) /\ Len(data[tree.entry]) <= MaxBytes
  BY DEF Established, Statted, Reading, Rechecks
<1>3. Len(data[tree.entry]) \in Nat
  BY <1>2, ContentType DEF IInv, TypeOK
<1> QED
  BY <1>1, <1>2, <1>3 DEF Named, PathIdentity, OpenIdentity, Untouched

LEMMA OpenIsCalm == ASSUME IInv, Alone, Established, Open PROVE Calm'
<1>1. pc \in Statted
  BY DEF Open, Statted
<1>2. Proceed("read") /\ UNCHANGED <<rootBefore, parentBefore, before>>
  BY <1>1, StattedFile DEF Open
<1> QED
  BY <1>1, <1>2, SameLookIsCalm DEF Reading, Rechecks

LEMMA ReadIsCalm == ASSUME IInv, Alone, Established, ReadBlock PROVE Calm'
<1>1. pc = "read" /\ UNCHANGED <<fsVars, reader, pc, idVars, readErrors, outVars>>
  BY DEF ReadBlock
<1>2. PathIdentity(tree.entry)' = PathIdentity(tree.entry)
  BY <1>1 DEF fsVars, PathIdentity, OpenIdentity
<1> QED
  BY <1>1, <1>2 DEF fsVars, idVars, outVars, Calm, Established, UndisturbedOutcome, Statted,
     Reading, Rechecks

\* A file within the bound ends the loop when it is consumed, not before.
LEMMA EndOfReadIsCalm == ASSUME IInv, Alone, Established, EndOfRead PROVE Calm'
<1>1. pc = "read" /\ pc \in Statted /\ pc \in Reading
  BY DEF EndOfRead, Statted, Reading
<1> DEFINE f == tree.entry
<1>2. /\ f \in Inodes /\ opened.file = f
      /\ Len(data[f]) \in Nat /\ Len(data[f]) <= MaxBytes
      /\ Len(consumed) <= Len(data[f])
  BY <1>1, StattedFile DEF IInv, Faithful
<1>3. Len(consumed) \in Nat /\ MaxBytes \in Nat /\ BlockBytes \in Nat \ {0}
  BY PassiveAssumption DEF IInv, TypeOK
<1>4. Wanted # 0
  BY <1>2, <1>3 DEF Wanted, Remaining, MoreToHash, Least
<1>5. Len(consumed) = Len(data[f])
  BY <1>2, <1>3, <1>4 DEF EndOfRead, Unread, File
<1>6. Proceed("fstat") /\ UNCHANGED idVars
  BY <1>2, <1>3, <1>5 DEF EndOfRead
<1> QED
  BY <1>1, <1>5, <1>6, SameLookIsCalm DEF idVars, Reading, Rechecks

LEMMA RecheckIsCalm ==
  ASSUME IInv, Alone, Established, FstatAgain \/ RecheckRoot \/ RecheckParent
  PROVE  Calm'
<1>1. pc \in Rechecks /\ pc \in Reading /\ pc \in Statted
  BY DEF FstatAgain, RecheckRoot, RecheckParent, Statted, Reading, Rechecks
<1>2. /\ rootBefore = tree.root /\ parentBefore = tree.parent
      /\ Len(consumed) = Len(data[tree.entry])
  BY <1>1 DEF Established, Statted, Reading, Rechecks
<1>3. opened = OpenIdentity(tree.entry) /\ opened.file = tree.entry
  BY <1>1, StattedFile DEF IInv, Faithful
<1>4. \E next \in Rechecks : Proceed(next) /\ UNCHANGED idVars
  BY <1>1, <1>2, <1>3, StattedFile DEF FstatAgain, RecheckRoot, RecheckParent, Rechecks
<1> QED
  BY <1>1, <1>2, <1>4, SameLookIsCalm DEF idVars, Reading

LEMMA LastRecheckIsCalm == ASSUME IInv, Alone, Established, RecheckPath PROVE Calm'
<1> DEFINE f == tree.entry
<1>1. pc \in Rechecks /\ pc \in Reading /\ pc \in Statted
  BY DEF RecheckPath, Statted, Reading, Rechecks
<1>2. /\ Len(consumed) = Len(data[f]) /\ tree.root \in Dirs /\ tree.parent \in Dirs
      /\ code = "none"
  BY <1>1 DEF Established, Statted, Reading, Rechecks
<1>3. opened = before.open /\ \A i \in 1..Len(consumed) : consumed[i] = data[f][i]
  BY <1>1, StattedFile DEF IInv, Faithful
<1>4. SameFile
  BY <1>1, <1>2, <1>3, StattedFile DEF SameFile, OpenIdentity
<1>5. consumed = data[f]
  <2>1. consumed \in Seq(Bytes) /\ data[f] \in Seq(Bytes)
    BY <1>1, StattedFile, ContentType DEF IInv, TypeOK
  <2> QED
    BY <1>2, <1>3, <2>1, WholePrefix
<1>6. /\ pc' = "done" /\ code' = "none" /\ captured' = data[f]
      /\ tree' = tree /\ data' = data
  BY <1>2, <1>4, <1>5 DEF RecheckPath, fsVars
<1>7. ExpectedCode = "none" /\ ExpectedCode' = ExpectedCode
  <2>1. f \notin {Missing, Link, Folder} /\ ~(Len(data[f]) > MaxBytes)
    BY <1>1, StattedFile, PassiveAssumption
  <2> QED
    BY <1>2, <1>6, <2>1 DEF ExpectedCode
<1> QED
  BY <1>6, <1>7 DEF Calm, Established, UndisturbedOutcome, Statted, Reading, Rechecks

\* A change or a failed read ends the calm.
LEMMA CalmKept == IInv /\ Calm /\ [Next]_passiveVars => Calm'
<1> SUFFICES ASSUME IInv, Calm, [Next]_passiveVars PROVE Calm'
  OBVIOUS
<1>1. CASE ~Alone'
  BY <1>1 DEF Calm
<1>2. CASE (Rebind \/ ReadFailed \/ \E f \in Inodes : Rewrite(f)) /\ Alone'
  <2>1. changes \in Nat /\ readErrors \in Nat
    BY DEF IInv, TypeOK
  <2> QED
    BY <1>2, <2>1 DEF Rebind, Rewrite, Interfere, ReadFailed, Refuse, fsVars, Alone
<1>3. CASE Alone' /\ (Returned \/ UNCHANGED passiveVars)
  BY <1>3 DEF Returned, passiveVars, fsVars, idVars, readVars, outVars, Calm, Alone, Established,
     UndisturbedOutcome, ExpectedCode, PathIdentity, OpenIdentity
<1>4. CASE Alone' /\ Program
  <2>1. UNCHANGED changes /\ (UNCHANGED readErrors)
    BY <1>4 DEF Program, LookRoot, LookParent, LookLeaf, Resolve, StatPath, Open, ReadBlock,
       EndOfRead, FstatAgain, RecheckRoot, RecheckParent, RecheckPath, Refuse, Proceed,
       fsVars, readVars
  <2>2. Alone /\ Established
    BY <1>4, <2>1 DEF Calm, Alone
  <2> QED
    BY <1>4, <2>2, LookIsCalm, StatIsCalm, OpenIsCalm, ReadIsCalm, EndOfReadIsCalm,
       RecheckIsCalm, LastRecheckIsCalm DEF Program
<1> QED
  BY <1>1, <1>2, <1>3, <1>4 DEF Next

LEMMA CalmInitially == Init => Calm
BY DEF Init, Calm, Established, UndisturbedOutcome, Statted, Reading, Rechecks

\* With nobody else at work and no failing read the outcome is a function of the path,
\* whichever of the two reading loops runs (passive_files.py).
THEOREM UndisturbedCapture == PassiveSpec => []UndisturbedOutcome
<1>1. Calm => UndisturbedOutcome
  BY DEF Calm, UndisturbedOutcome, Alone
<1> QED
  BY <1>1, Invariance, CalmInitially, CalmKept, PTL DEF PassiveSpec
====
