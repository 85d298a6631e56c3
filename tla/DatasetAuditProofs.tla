--------------------------- MODULE DatasetAuditProofs ---------------------------
(***************************************************************************)
(* Proofs about DatasetAudit, for every four datasets, budgets, batch size *)
(* and number of failures.                                                 *)
(***************************************************************************)
EXTENDS DatasetAudit, TLAPS, FiniteSetTheorems

USE DEF inputVars, scanVars, storeVars, contextVars

-----------------------------------------------------------------------------------
(* Counting.                                                                 *)

\* The four splits are four different keys, and all of them.
LEMMA OrderFacts ==
  /\ Len(Order) = 4
  /\ \A i \in 1..4 : Order[i] \in Keys
  /\ \A i, j \in 1..4 : Order[i] = Order[j] => i = j
  /\ \A x \in Experiments, s \in Splits :
       \E i \in 1..4 : Order[i] = <<x, s>>
<1>1. /\ Order[1] = <<"baseline", "train">> /\ Order[2] = <<"baseline", "eval">>
      /\ Order[3] = <<"candidate", "train">> /\ Order[4] = <<"candidate", "eval">>
      /\ Len(Order) = 4
  BY DEF Order
<1>2. \A i \in 1..4 : i = 1 \/ i = 2 \/ i = 3 \/ i = 4
  OBVIOUS
<1>3. \A i \in 1..4 : Order[i] \in Keys
  BY <1>1, <1>2 DEF Keys, Experiments, Splits
<1>4. \A i, j \in 1..4 : Order[i] = Order[j] => i = j
  BY <1>1, <1>2
<1>5. \A x \in Experiments, s \in Splits : \E i \in 1..4 : Order[i] = <<x, s>>
  BY <1>1 DEF Experiments, Splits
<1> QED
  BY <1>1, <1>3, <1>4, <1>5

LEMMA Subrange ==
  ASSUME NEW n \in Nat, NEW S, S \subseteq 1..n
  PROVE  IsFiniteSet(S) /\ Cardinality(S) \in Nat /\ (Cardinality(S) > 0 <=> S # {})
<1>1. IsFiniteSet(1..n)
  BY FS_Interval
<1>2. IsFiniteSet(S)
  BY <1>1, FS_Subset
<1> QED
  BY <1>2, FS_CardinalityType, FS_EmptySet

LEMMA DisjointCount ==
  ASSUME NEW n \in Nat, NEW S, NEW T, S \subseteq 1..n, T \subseteq 1..n,
         S \cap T = {}
  PROVE  Cardinality(S \cup T) = Cardinality(S) + Cardinality(T)
<1>1. /\ IsFiniteSet(S) /\ Cardinality(S) \in Nat
      /\ IsFiniteSet(T) /\ Cardinality(T) \in Nat
  BY Subrange
<1>2. Cardinality(S \cup T) = Cardinality(S) + Cardinality(T) - Cardinality(S \cap T)
  BY <1>1, FS_Union
<1>3. Cardinality(S \cap T) = 0
  BY FS_EmptySet
<1> QED
  BY <1>1, <1>2, <1>3

LEMMA MultiplicityType ==
  ASSUME NEW f, NEW n \in Nat
  PROVE  /\ Multiplicity(f, n) \in [Digests -> Nat]
         /\ \A d \in Digests : Multiplicity(f, n)[d] > 0 <=> \E i \in 1..n : f[i] = d
<1>1. ASSUME NEW d \in Digests
      PROVE  /\ Cardinality({i \in 1..n : f[i] = d}) \in Nat
             /\ Cardinality({i \in 1..n : f[i] = d}) > 0 <=> \E i \in 1..n : f[i] = d
  <2>1. {i \in 1..n : f[i] = d} \subseteq 1..n
    OBVIOUS
  <2> QED
    BY <2>1, Subrange
<1> QED
  BY <1>1 DEF Multiplicity

LEMMA NothingCounted == ASSUME NEW f PROVE Multiplicity(f, 0) = NoCounts
<1>1. \A d \in Digests : {i \in 1..0 : f[i] = d} = {}
  OBVIOUS
<1> QED
  BY <1>1, FS_EmptySet DEF Multiplicity, NoCounts

\* Adding a batch to the counts of the first m lines gives those of the first n.
LEMMA BatchCount ==
  ASSUME NEW f \in Seq(LineKinds), NEW m \in Nat, NEW n \in Nat, m <= n
  PROVE  /\ \A d \in Digests :
              Cardinality({i \in 1..n : f[i] = d}) =
                Cardinality({i \in 1..m : f[i] = d})
                  + Cardinality({i \in RecordsOf(f, n) \ (1..m) : f[i] = d})
         /\ Cardinality(RecordsOf(f, n)) =
              Cardinality(RecordsOf(f, m)) + Cardinality(RecordsOf(f, n) \ (1..m))
<1> DEFINE batch == RecordsOf(f, n) \ (1..m)
<1>1. ASSUME NEW d \in Digests
      PROVE  Cardinality({i \in 1..n : f[i] = d}) =
               Cardinality({i \in 1..m : f[i] = d}) + Cardinality({i \in batch : f[i] = d})
  <2>1. {i \in 1..n : f[i] = d} = {i \in 1..m : f[i] = d} \cup {i \in batch : f[i] = d}
    BY DEF RecordsOf
  <2>2. /\ {i \in 1..m : f[i] = d} \subseteq 1..n
        /\ {i \in batch : f[i] = d} \subseteq 1..n
        /\ {i \in 1..m : f[i] = d} \cap {i \in batch : f[i] = d} = {}
    BY DEF RecordsOf
  <2> QED
    BY <2>1, <2>2, DisjointCount
<1>2. Cardinality(RecordsOf(f, n)) = Cardinality(RecordsOf(f, m)) + Cardinality(batch)
  <2>1. RecordsOf(f, n) = RecordsOf(f, m) \cup batch
    BY DEF RecordsOf
  <2>2. /\ RecordsOf(f, m) \subseteq 1..n /\ batch \subseteq 1..n
        /\ RecordsOf(f, m) \cap batch = {}
    BY DEF RecordsOf
  <2> QED
    BY <2>1, <2>2, DisjointCount
<1> QED
  BY <1>1, <1>2

\* One more line adds one record, or none when it is blank.
LEMMA LineCount ==
  ASSUME NEW f \in Seq(LineKinds), NEW n \in Nat
  PROVE  /\ f[n + 1] \in Digests =>
              /\ RecordsOf(f, n + 1) = RecordsOf(f, n) \cup {n + 1}
              /\ Cardinality(RecordsOf(f, n + 1)) = Cardinality(RecordsOf(f, n)) + 1
         /\ f[n + 1] \notin Digests => RecordsOf(f, n + 1) = RecordsOf(f, n)
<1>1. RecordsOf(f, n) \subseteq 1..n
  BY DEF RecordsOf
<1>2. IsFiniteSet(RecordsOf(f, n))
  BY <1>1, Subrange
<1>3. n + 1 \notin RecordsOf(f, n)
  BY <1>1
<1>4. f[n + 1] \in Digests => RecordsOf(f, n + 1) = RecordsOf(f, n) \cup {n + 1}
  BY DEF RecordsOf
<1>5. f[n + 1] \notin Digests => RecordsOf(f, n + 1) = RecordsOf(f, n)
  BY DEF RecordsOf
<1> QED
  BY <1>2, <1>3, <1>4, <1>5, FS_AddElement

LEMMA MoreRecords ==
  ASSUME NEW f \in Seq(LineKinds), NEW m \in Nat, NEW n \in Nat, m <= n
  PROVE  /\ Cardinality(RecordsOf(f, m)) \in Nat
         /\ Cardinality(RecordsOf(f, m)) <= Cardinality(RecordsOf(f, n))
<1>1. RecordsOf(f, n) \subseteq 1..n /\ RecordsOf(f, m) \subseteq 1..m
  BY DEF RecordsOf
<1>2. IsFiniteSet(RecordsOf(f, n)) /\ Cardinality(RecordsOf(f, m)) \in Nat
  BY <1>1, Subrange
<1>3. RecordsOf(f, m) \in SUBSET RecordsOf(f, n)
  BY DEF RecordsOf
<1> QED
  BY <1>2, <1>3, FS_Subset

-----------------------------------------------------------------------------------
(* Types.                                                                    *)

LEMMA InitTypeOK == AuditInit => TypeOK
<1> SUFFICES ASSUME AuditInit PROVE TypeOK
  OBVIOUS
<1>0. /\ files \in FileChoices /\ lim \in LimitChoices
      /\ outcome = "pending" /\ faults = 0 /\ pc = "open" /\ at = 1
      /\ position = 0 /\ records = 0 /\ pending = {} /\ indexed = 0
      /\ stop = Going /\ flushed = 0 /\ spill = FALSE /\ exhausted = FALSE
      /\ rows = [key \in Keys |-> NoCounts] /\ scans = [key \in Keys |-> NoScan]
      /\ context = "none" /\ found = {}
  BY DEF AuditInit
<1>1. /\ files \in [Keys -> Seq(LineKinds)] /\ Tampered \subseteq Seq(LineKinds)
  BY <1>0, FactsAssumption, AuditAssumption
<1>2. seen \in [Keys -> Seq(LineKinds)]
  <2>1. CASE seen = files
    BY <1>1, <2>1
  <2>2. ASSUME NEW key \in Keys, NEW f \in Tampered, seen = [files EXCEPT ![key] = f]
        PROVE  seen \in [Keys -> Seq(LineKinds)]
    BY <1>1, <2>2
  <2> QED
    BY <2>1, <2>2 DEF AuditInit
<1>3. rows \in [Keys -> [Digests -> Nat]]
  BY <1>0 DEF NoCounts
<1>4. scans \in [Keys -> [state : {"unread", "complete"} \cup StopStates \cup {Going},
                          lines : Nat, records : Nat, indexed : Nat]]
  BY <1>0 DEF NoScan
<1>5. at \in 1..(Len(Order) + 1) /\ at <= Len(Order)
  BY <1>0, OrderFacts
<1>6. faults \in 0..MaxFaults
  BY <1>0, AuditAssumption
<1>7. /\ stop \in StopStates \cup {Going} /\ pending \subseteq Nat \ {0}
      /\ position \in Nat /\ records \in Nat /\ indexed \in Nat /\ flushed \in Nat
  BY <1>0
<1>8. /\ files \in FileChoices /\ lim \in LimitChoices
      /\ outcome \in {"pending", "checked", "raised"}
      /\ spill \in BOOLEAN /\ exhausted \in BOOLEAN
      /\ context \in {"none", "active", "inactive"}
  BY <1>0
<1> QED
  BY <1>0, <1>2, <1>3, <1>4, <1>5, <1>6, <1>7, <1>8 DEF TypeOK

LEMMA KeyType == ASSUME TypeOK, Scanning \/ pc = "begin"
                 PROVE  k \in Keys /\ at \in 1..4 /\ seen[k] \in Seq(LineKinds)
<1>1. at \in 1..4
  BY OrderFacts DEF TypeOK, Scanning
<1>2. Order[at] \in Keys
  BY <1>1, OrderFacts
<1>3. seen \in [Keys -> Seq(LineKinds)]
  BY DEF TypeOK
<1> QED
  BY <1>1, <1>2, <1>3 DEF k

LEMMA FaultType == ASSUME TypeOK, Fault PROVE faults' \in 0..MaxFaults
BY AuditAssumption DEF TypeOK, Fault

\* A batch of positions adds a natural number to every count.
LEMMA UpsertType ==
  ASSUME TypeOK, k \in Keys, NEW n \in Nat, NEW batch, batch \subseteq 1..n
  PROVE  [rows EXCEPT ![k] = Upsert(@, batch)] \in [Keys -> [Digests -> Nat]]
<1>1. ASSUME NEW d \in Digests
      PROVE  Cardinality({i \in batch : seen[k][i] = d}) \in Nat
  <2>1. {i \in batch : seen[k][i] = d} \subseteq 1..n
    OBVIOUS
  <2> QED
    BY <2>1, Subrange
<1>2. rows[k] \in [Digests -> Nat]
  BY DEF TypeOK
<1>3. Upsert(rows[k], batch) \in [Digests -> Nat]
  BY <1>1, <1>2 DEF Upsert
<1> QED
  BY <1>3 DEF TypeOK

-----------------------------------------------------------------------------------
(* Steps that leave the finished splits alone.                               *)

\* What AheadInv says whatever pc is.
LEMMA FinishedStay ==
  ASSUME TypeOK, SpillHoldsPrefix, AheadInv, UNCHANGED <<files, at, scans>>,
         pc' \notin {"open", "begin"},
         \/ rows' = rows
         \/ at <= Len(Order) /\ \E new : rows' = [rows EXCEPT ![k] = new]
  PROVE  SpillHoldsPrefix' /\ AheadInv'
<1>1. \A i \in 1..4 : i # at => rows'[Order[i]] = rows[Order[i]]
  <2>1. CASE rows' = rows
    BY <2>1
  <2>2. ASSUME at <= Len(Order), NEW new, rows' = [rows EXCEPT ![k] = new]
        PROVE  \A i \in 1..4 : i # at => rows'[Order[i]] = rows[Order[i]]
    <3>1. at \in 1..4
      BY <2>2, OrderFacts DEF TypeOK
    <3> QED
      BY <2>2, <3>1, OrderFacts DEF TypeOK, k
  <2> QED
    BY <2>1, <2>2
<1>2. at \in 1..5 /\ Len(Order) = 4
  BY OrderFacts DEF TypeOK
<1>3. SpillHoldsPrefix'
  BY <1>1, <1>2 DEF SpillHoldsPrefix
<1>4. AheadInv'
  BY <1>1, <1>2 DEF AheadInv
<1> QED
  BY <1>3, <1>4

\* Types of a step inside one scan.
LEMMA ScanTypes ==
  ASSUME TypeOK, at \in 1..4, pc' \in {"scan", "finish", "handle", "refinish"},
         UNCHANGED <<files, lim, seen, outcome, findings, at, spill, scans, context,
                     found>>,
         faults' \in 0..MaxFaults, exhausted' \in BOOLEAN,
         position' \in Nat, records' \in Nat, indexed' \in Nat, flushed' \in Nat,
         pending' \subseteq Nat \ {0}, stop' \in StopStates \cup {Going},
         rows' \in [Keys -> [Digests -> Nat]]
  PROVE  TypeOK'
<1>1. /\ at' \in 1..(Len(Order) + 1) /\ at' <= Len(Order)
      /\ pc' \in {"open", "begin", "scan", "finish", "handle", "refinish", "overlap",
                  "align", "close", "done"}
  BY OrderFacts
<1>2. /\ files' \in FileChoices /\ seen' \in [Keys -> Seq(LineKinds)]
      /\ lim' \in LimitChoices /\ outcome' \in {"pending", "checked", "raised"}
      /\ spill' \in BOOLEAN /\ context' \in {"none", "active", "inactive"}
  BY DEF TypeOK
<1>3. scans' \in [Keys -> [state : {"unread", "complete"} \cup StopStates \cup {Going},
                           lines : Nat, records : Nat, indexed : Nat]]
  BY DEF TypeOK
<1>4. found' \subseteq [rule : {"EXACT_LEAKAGE", "NO_LEAKAGE", "SCAN_INCOMPLETE"},
                        experiment : Experiments]
  BY DEF TypeOK
<1> QED
  BY <1>1, <1>2, <1>3, <1>4 DEF TypeOK

LEMMA CheckStays ==
  ASSUME TypeOK, CheckInv, outcome = "pending",
         pc' \notin {"overlap", "align"}, UNCHANGED <<outcome, findings>>
  PROVE  CheckInv'
BY DEF CheckInv

-----------------------------------------------------------------------------------
(* The steps of one scan.                                                    *)

LEMMA BeginInv == ASSUME AuditInv, Begin PROVE AuditInv'
<1> USE DEF AuditInv
<1>1. /\ k \in Keys /\ at \in 1..4 /\ seen[k] \in Seq(LineKinds) /\ k' = k
      /\ outcome = "pending"
  BY KeyType DEF Begin, CheckInv, k
<1>2. rows[k] = NoCounts
  BY DEF Begin, AheadInv
<1>3. RecordsOf(seen[k], 0) = {}
  BY DEF RecordsOf
<1>4. /\ position' = 0 /\ records' = 0 /\ pending' = {} /\ indexed' = 0 /\ flushed' = 0
      /\ pc' \in {"scan", "handle"} /\ stop' \in StopStates \cup {Going}
      /\ pc' = "handle" => stop' \in StopStates
      /\ UNCHANGED <<files, lim, seen, outcome, findings, faults, at, spill, rows,
                     exhausted, scans, context, found>>
  BY DEF Begin, StopStates
<1>5. TypeOK'
  BY <1>1, <1>4, ScanTypes DEF TypeOK
<1>6. LocalInv'
  <2>1. rows'[k'] = Multiplicity(seen'[k'], flushed')
    BY <1>1, <1>2, <1>4, NothingCounted
  <2>2. /\ indexed' = Cardinality(RecordsOf(seen'[k'], flushed'))
        /\ records' = Cardinality(RecordsOf(seen'[k'], position'))
        /\ pending' = RecordsOf(seen'[k'], position') \ (1..flushed')
    BY <1>1, <1>3, <1>4, FS_EmptySet
  <2>3. position' <= Len(seen'[k']) /\ 1..position' = {}
    BY <1>1, <1>4
  <2> QED
    BY <1>4, <2>1, <2>2, <2>3 DEF LocalInv
<1>7. SpillHoldsPrefix' /\ AheadInv'
  BY <1>4, FinishedStay
<1>8. CheckInv'
  BY <1>1, <1>4, CheckStays
<1> QED
  BY <1>5, <1>6, <1>7, <1>8

LEMMA TakeLineInv == ASSUME AuditInv, TakeLine PROVE AuditInv'
<1> USE DEF AuditInv
<1>1. /\ k \in Keys /\ at \in 1..4 /\ seen[k] \in Seq(LineKinds) /\ k' = k
      /\ outcome = "pending" /\ pc = "scan" /\ position < Len(seen[k])
      /\ position \in Nat /\ flushed \in Nat
  BY KeyType DEF TakeLine, CheckInv, k, Scanning, TypeOK
<1>2. UNCHANGED <<files, lim, seen, outcome, findings, faults, at, spill, rows,
                  exhausted, scans, context, found, indexed, flushed>>
  BY DEF TakeLine
<1> DEFINE l == seen[k][position + 1]
<1>3. l \in LineKinds
  BY <1>1
<1>4. stop' = StopAt(l) /\ StopAt(l) \in StopStates \cup {Going}
  BY DEF TakeLine, StopAt, StopStates
<1>5. CASE StopAt(l) # Going
  <2>1. pc' = "handle" /\ stop' \in StopStates /\ UNCHANGED <<position, records, pending>>
    BY <1>4, <1>5 DEF TakeLine
  <2>2. TypeOK'
    BY <1>1, <1>2, <2>1 DEF TypeOK
  <2>3. LocalInv'
    BY <1>1, <1>2, <2>1 DEF LocalInv, Scanning
  <2> QED
    BY <1>1, <1>2, <2>1, <2>2, <2>3, FinishedStay, CheckStays
<1>6. CASE StopAt(l) = Going
  <2>1. /\ pc' = "scan" /\ position' = position + 1 /\ stop' = Going
        /\ IF l = "blank" THEN UNCHANGED <<records, pending>>
           ELSE records' = records + 1 /\ pending' = pending \cup {position + 1}
    BY <1>1, <1>4, <1>6 DEF TakeLine
  <2>2. l = "blank" \/ l \in Digests
    BY <1>3, <1>6 DEF StopAt, LineKinds, NotRecords, Going
  <2>3. "blank" \notin Digests
    BY FactsAssumption DEF NotRecords
  <2>4. TypeOK'
    <3>0. records \in Nat /\ pending \subseteq Nat \ {0} /\ position + 1 \in Nat \ {0}
      BY <1>1 DEF TypeOK
    <3>1. /\ records' \in Nat /\ pending' \subseteq Nat \ {0} /\ position' \in Nat
      <4>1. CASE l = "blank"
        BY <2>1, <3>0, <4>1
      <4>2. CASE l # "blank"
        <5>1. records' = records + 1 /\ pending' = pending \cup {position + 1}
          BY <2>1, <4>2
        <5>2. position' \in Nat
          BY <1>1, <2>1
        <5> HIDE DEF l
        <5> QED
          <6>1. pending' \subseteq Nat \ {0}
            BY <3>0, <5>1, Zenon
          <6>2. records' \in Nat
            BY <3>0, <5>1
          <6> QED
            BY <5>2, <6>1, <6>2
      <4> QED
        BY <4>1, <4>2
    <3>2. /\ faults \in 0..MaxFaults /\ exhausted \in BOOLEAN /\ indexed \in Nat
          /\ rows \in [Keys -> [Digests -> Nat]]
      BY DEF TypeOK
    <3> QED
      BY <1>1, <1>2, <2>1, <3>1, <3>2, ScanTypes
  <2>5. LocalInv'
    <3>1. /\ flushed' <= position' /\ position' <= Len(seen'[k'])
          /\ rows'[k'] = Multiplicity(seen'[k'], flushed')
          /\ indexed' = Cardinality(RecordsOf(seen'[k'], flushed'))
      BY <1>1, <1>2, <2>1 DEF LocalInv, Scanning
    <3>2. \A i \in 1..position' : seen'[k'][i] \in Digests \cup {"blank"}
      BY <1>1, <1>2, <2>1, <2>2 DEF LocalInv, Scanning
    <3>3. records' = Cardinality(RecordsOf(seen'[k'], position'))
      BY <1>1, <1>2, <2>1, <2>2, <2>3, LineCount DEF LocalInv, Scanning
    <3>4. pending' = RecordsOf(seen'[k'], position') \ (1..flushed')
      <4>1. pending = RecordsOf(seen[k], position) \ (1..flushed) /\ flushed <= position
        BY <1>1 DEF LocalInv, Scanning
      <4>2. position + 1 \notin 1..flushed
        BY <1>1, <4>1
      <4>3. /\ seen[k] \in Seq(LineKinds) /\ position \in Nat /\ l = seen[k][position + 1]
            /\ position' = position + 1 /\ seen'[k'] = seen[k] /\ flushed' = flushed
        BY <1>1, <1>2, <2>1
      <4>4. CASE l = "blank"
        <5>1. RecordsOf(seen[k], position + 1) = RecordsOf(seen[k], position)
          BY <2>3, <4>3, <4>4, LineCount
        <5> QED
          BY <2>1, <4>1, <4>3, <4>4, <5>1
      <4>5. CASE l \in Digests
        <5>1. RecordsOf(seen[k], position + 1) = RecordsOf(seen[k], position) \cup {position + 1}
          BY <4>3, <4>5, LineCount
        <5>2. pending' = pending \cup {position + 1}
          BY <2>1, <2>3, <4>5
        <5> QED
          BY <4>1, <4>2, <4>3, <5>1, <5>2
      <4> QED
        BY <2>2, <4>4, <4>5
    <3> QED
      BY <2>1, <3>1, <3>2, <3>3, <3>4 DEF LocalInv
  <2> QED
    BY <1>1, <1>2, <2>1, <2>4, <2>5, FinishedStay, CheckStays
<1> QED
  BY <1>5, <1>6

\* Writing the batch makes the rows account for every line taken.
LEMMA UpsertCounts ==
  ASSUME AuditInv, pc \in {"scan", "handle"}
  PROVE  /\ pending \subseteq 1..position
         /\ Upsert(rows[k], pending) = Multiplicity(seen[k], position)
<1> USE DEF AuditInv
<1>1. /\ k \in Keys /\ at \in 1..4 /\ seen[k] \in Seq(LineKinds)
      /\ position \in Nat /\ flushed \in Nat /\ rows[k] \in [Digests -> Nat]
  BY KeyType DEF TypeOK, Scanning
<1>2. /\ flushed <= position
      /\ pending = RecordsOf(seen[k], position) \ (1..flushed)
      /\ rows[k] = Multiplicity(seen[k], flushed)
      /\ indexed = Cardinality(RecordsOf(seen[k], flushed))
  BY DEF LocalInv, Scanning
<1>3. pending \subseteq 1..position
  BY <1>2 DEF RecordsOf
<1>4. Upsert(rows[k], pending) = Multiplicity(seen[k], position)
  <2>1. \A d \in Digests :
          rows[k][d] + Cardinality({i \in pending : seen[k][i] = d})
            = Cardinality({i \in 1..position : seen[k][i] = d})
    <3>1. ASSUME NEW d \in Digests
          PROVE  rows[k][d] = Cardinality({i \in 1..flushed : seen[k][i] = d})
      BY <1>2, <3>1 DEF Multiplicity
    <3>2. ASSUME NEW d \in Digests
          PROVE  Cardinality({i \in 1..position : seen[k][i] = d}) =
                   Cardinality({i \in 1..flushed : seen[k][i] = d})
                     + Cardinality({i \in pending : seen[k][i] = d})
      <4>1. ASSUME NEW f \in Seq(LineKinds), f = seen[k]
            PROVE  Cardinality({i \in 1..position : f[i] = d}) =
                     Cardinality({i \in 1..flushed : f[i] = d})
                       + Cardinality({i \in pending : f[i] = d})
        <5>1. pending = RecordsOf(f, position) \ (1..flushed)
          BY <1>2, <4>1
        <5>2. Cardinality({i \in 1..position : f[i] = d}) =
                Cardinality({i \in 1..flushed : f[i] = d})
                  + Cardinality({i \in RecordsOf(f, position) \ (1..flushed) : f[i] = d})
          <6>1. /\ f \in Seq(LineKinds) /\ flushed \in Nat /\ position \in Nat
                /\ flushed <= position
            BY <1>1, <1>2, <4>1
          <6> QED
            BY <6>1, BatchCount, ZenonT(40)
        <5> QED
          BY <5>1, <5>2
      <4> QED
        BY <1>1, <4>1
    <3> QED
      BY <3>1, <3>2
  <2> QED
    BY <2>1 DEF Upsert, Multiplicity
<1> QED
  BY <1>3, <1>4

LEMMA BatchAddedRows ==
  ASSUME AuditInv, pc \in {"scan", "handle"}, BatchAdded,
         UNCHANGED <<files, seen, at, position, records>>
  PROVE  /\ rows' \in [Keys -> [Digests -> Nat]] /\ indexed' \in Nat
         /\ rows'[k] = Multiplicity(seen[k], position)
         /\ indexed' = Cardinality(RecordsOf(seen[k], position))
         /\ \E new : rows' = [rows EXCEPT ![k] = new]
<1> USE DEF AuditInv
<1>1. /\ k \in Keys /\ at \in 1..4 /\ seen[k] \in Seq(LineKinds)
      /\ position \in Nat /\ flushed \in Nat /\ rows[k] \in [Digests -> Nat]
  BY KeyType DEF TypeOK, Scanning
<1>2. /\ flushed <= position
      /\ pending = RecordsOf(seen[k], position) \ (1..flushed)
      /\ rows[k] = Multiplicity(seen[k], flushed)
      /\ indexed = Cardinality(RecordsOf(seen[k], flushed))
  BY DEF LocalInv, Scanning
<1>3. pending \subseteq 1..position
  BY <1>2 DEF RecordsOf
<1>4. /\ rows' = [rows EXCEPT ![k] = Upsert(rows[k], pending)]
      /\ indexed' = indexed + Cardinality(pending)
  BY DEF BatchAdded
<1>5. rows' \in [Keys -> [Digests -> Nat]]
  BY <1>1, <1>3, <1>4, UpsertType
<1>6. Upsert(rows[k], pending) = Multiplicity(seen[k], position)
  BY UpsertCounts
<1>7. rows'[k] = Multiplicity(seen[k], position)
  BY <1>1, <1>4, <1>6 DEF TypeOK
<1>8. indexed' = Cardinality(RecordsOf(seen[k], position))
  BY <1>1, <1>2, <1>4, BatchCount
<1>9. indexed' \in Nat
  BY <1>1, <1>8, MoreRecords
<1> QED
  BY <1>4, <1>5, <1>7, <1>8, <1>9

\* A batch written in the loop, behind it or in the handler of a _ScanStop.
LEMMA BatchAddedInv == ASSUME AuditInv, Flush \/ HandleStopped PROVE AuditInv'
<1> USE DEF AuditInv
<1>1. /\ pc \in {"scan", "handle"} /\ BatchAdded
      /\ UNCHANGED <<files, lim, seen, outcome, findings, at, position, records, stop,
                     scans, context, found, spill, exhausted, faults>>
      /\ pc' \in {"scan", "finish", "refinish"}
      /\ flushed' = position /\ pending' = {}
  BY DEF Flush, HandleStopped, BatchAdded
<1>2. /\ k \in Keys /\ at \in 1..4 /\ seen[k] \in Seq(LineKinds) /\ k' = k
      /\ outcome = "pending"
  BY <1>1, KeyType DEF CheckInv, k, Scanning
<1>3. /\ rows' \in [Keys -> [Digests -> Nat]] /\ indexed' \in Nat
      /\ rows'[k] = Multiplicity(seen[k], position)
      /\ indexed' = Cardinality(RecordsOf(seen[k], position))
      /\ \E new : rows' = [rows EXCEPT ![k] = new]
  BY <1>1, BatchAddedRows
<1>4. /\ pc' = "finish" => position = Len(seen[k])
      /\ pc' = "refinish" => stop \in StopStates \ {"failed"}
  BY DEF Flush, HandleStopped, LocalInv, Scanning
<1>5. TypeOK'
  <2>1. /\ faults \in 0..MaxFaults /\ exhausted \in BOOLEAN /\ position \in Nat
        /\ records \in Nat /\ stop \in StopStates \cup {Going}
    BY DEF TypeOK
  <2> QED
    BY <1>1, <1>2, <1>3, <2>1, ScanTypes
<1>6. LocalInv'
  <2>1. /\ position <= Len(seen[k])
        /\ \A i \in 1..position : seen[k][i] \in Digests \cup {"blank"}
        /\ records = Cardinality(RecordsOf(seen[k], position))
    BY <1>1 DEF LocalInv, Scanning
  <2>2. position \in Nat /\ RecordsOf(seen[k], position) \ (1..position) = {}
    BY DEF TypeOK, RecordsOf
  <2> QED
    BY <1>1, <1>2, <1>3, <1>4, <2>1, <2>2 DEF LocalInv
<1>7. SpillHoldsPrefix' /\ AheadInv'
  <2>1. at <= Len(Order)
    BY <1>2, OrderFacts
  <2>2. \E new : rows' = [rows EXCEPT ![k] = new]
    BY <1>3
  <2> QED
    BY <1>1, <2>1, <2>2, FinishedStay
<1>8. CheckInv'
  BY <1>1, <1>2, CheckStays
<1> QED
  BY <1>5, <1>6, <1>7, <1>8

LEMMA BatchRefusedInv == ASSUME AuditInv, FlushFails \/ HandleScratchFull PROVE AuditInv'
<1> USE DEF AuditInv
<1>1. /\ pc \in {"scan", "handle"} /\ pc' = "refinish" /\ stop' = "scratch"
      /\ UNCHANGED <<files, lim, seen, outcome, findings, at, position, records,
                     indexed, flushed, scans, context, found, spill, rows>>
      /\ exhausted' = TRUE /\ pending' \subseteq pending
      /\ faults' \in 0..MaxFaults
  BY FaultType DEF FlushFails, HandleScratchFull, BatchRefused, TypeOK
<1>2. at \in 1..4 /\ k' = k /\ outcome = "pending"
  BY <1>1, KeyType DEF CheckInv, k, Scanning
<1>3. TypeOK'
  <2>1. /\ position \in Nat /\ records \in Nat /\ indexed \in Nat /\ flushed \in Nat
        /\ pending \subseteq Nat \ {0} /\ rows \in [Keys -> [Digests -> Nat]]
    BY DEF TypeOK
  <2> QED
    BY <1>1, <1>2, <2>1, ScanTypes DEF StopStates
<1>4. LocalInv'
  BY <1>1, <1>2 DEF LocalInv, Scanning, StopStates
<1>5. SpillHoldsPrefix' /\ AheadInv'
  BY <1>1, FinishedStay
<1>6. CheckInv'
  BY <1>1, <1>2, CheckStays
<1> QED
  BY <1>3, <1>4, <1>5, <1>6

LEMMA DropSplitInv == ASSUME AuditInv, ContractError \/ HandleFailed PROVE AuditInv'
<1> USE DEF AuditInv
<1>1. /\ Scanning /\ pc' = "refinish" /\ stop' = "failed" /\ DropSplit
      /\ UNCHANGED <<files, lim, seen, outcome, findings, at, position, records,
                     scans, context, found, spill, exhausted>>
      /\ faults' \in 0..MaxFaults
  BY FaultType DEF ContractError, HandleFailed, Scanning, TypeOK
<1>2. /\ k \in Keys /\ at \in 1..4 /\ k' = k /\ outcome = "pending"
      /\ position \in Nat /\ seen[k] \in Seq(LineKinds)
  BY <1>1, KeyType DEF CheckInv, k, Scanning, TypeOK
<1>3. /\ rows' = [rows EXCEPT ![k] = NoCounts]
      /\ indexed' = 0 /\ pending' = {} /\ flushed' = 0
  BY <1>1 DEF DropSplit
<1>4. rows' \in [Keys -> [Digests -> Nat]] /\ rows'[k] = NoCounts
  BY <1>2, <1>3 DEF TypeOK, NoCounts
<1>5. TypeOK'
  <2>1. /\ exhausted \in BOOLEAN /\ position \in Nat /\ records \in Nat
    BY DEF TypeOK
  <2> QED
    BY <1>1, <1>2, <1>3, <1>4, <2>1, ScanTypes DEF StopStates
<1>6. LocalInv'
  <2>1. rows'[k] = Multiplicity(seen[k], 0)
    BY <1>4, NothingCounted
  <2>2. Cardinality(RecordsOf(seen[k], 0)) = 0
    <3>1. RecordsOf(seen[k], 0) = {}
      BY DEF RecordsOf
    <3> QED
      BY <3>1, FS_EmptySet
  <2>3. /\ 0 <= position /\ position <= Len(seen[k])
        /\ \A i \in 1..position : seen[k][i] \in Digests \cup {"blank"}
        /\ records = Cardinality(RecordsOf(seen[k], position))
    BY <1>1, <1>2 DEF LocalInv
  <2> QED
    BY <1>1, <1>2, <1>3, <2>1, <2>2, <2>3 DEF LocalInv, StopStates
<1>7. SpillHoldsPrefix' /\ AheadInv'
  <2>1. at <= Len(Order)
    BY <1>2, OrderFacts
  <2>2. \E new : rows' = [rows EXCEPT ![k] = new]
    BY <1>3
  <2> QED
    BY <1>1, <2>1, <2>2, FinishedStay
<1>8. CheckInv'
  BY <1>1, <1>2, CheckStays
<1> QED
  BY <1>5, <1>6, <1>7, <1>8

LEMMA NoRecordsInv == ASSUME AuditInv, NoRecords PROVE AuditInv'
<1> USE DEF AuditInv
<1>1. /\ pc = "finish" /\ pc' = "handle" /\ stop' = "failed"
      /\ UNCHANGED <<files, lim, seen, outcome, findings, faults, at, position,
                     records, pending, indexed, flushed, scans, context, found,
                     spill, rows, exhausted>>
  BY DEF NoRecords
<1>2. at \in 1..4 /\ k' = k /\ outcome = "pending"
  BY <1>1, KeyType DEF CheckInv, k, Scanning
<1>3. TypeOK'
  BY <1>1, <1>2, ScanTypes DEF StopStates, TypeOK
<1>4. SpillHoldsPrefix' /\ AheadInv'
  BY <1>1, FinishedStay
<1>5. CheckInv'
  BY <1>1, <1>2, CheckStays
<1>6. LocalInv'
  BY <1>1, <1>2 DEF LocalInv, Scanning, StopStates
<1> QED
  BY <1>3, <1>4, <1>5, <1>6

\* What a report says of the split just scanned.
LEMMA ReportTrue ==
  ASSUME AuditInv, NEW state,
         \/ pc = "finish" /\ records > 0 /\ state = "complete"
         \/ pc = "refinish" /\ state = stop,
         seen[k] = files[k]
  PROVE  /\ rows[k] = Multiplicity(files[k], flushed)
         /\ indexed = Cardinality(RecordsOf(files[k], flushed))
         /\ flushed <= Len(files[k]) /\ indexed <= records
         /\ state = "complete" => flushed = Len(files[k]) /\ Clean(files[k])
         /\ state = "failed" => flushed = 0
         /\ state \in StopStates \cup {"complete"}
<1> USE DEF AuditInv
<1>1. /\ flushed \in Nat /\ position \in Nat /\ files[k] \in Seq(LineKinds)
      /\ Len(files[k]) \in Nat
  BY KeyType DEF Scanning, TypeOK
<1>2. /\ flushed <= position /\ position <= Len(files[k])
      /\ \A i \in 1..position : files[k][i] \in Digests \cup {"blank"}
      /\ rows[k] = Multiplicity(files[k], flushed)
      /\ indexed = Cardinality(RecordsOf(files[k], flushed))
      /\ records = Cardinality(RecordsOf(files[k], position))
      /\ pc = "finish" => flushed = position /\ position = Len(files[k])
      /\ pc = "refinish" => stop \in StopStates
      /\ pc = "refinish" /\ stop = "failed" => flushed = 0
  BY DEF LocalInv, Scanning
<1>3. indexed <= records
  BY <1>1, <1>2, MoreRecords
<1>4. CASE pc = "finish" /\ records > 0 /\ state = "complete"
  <2>1. RecordsOf(files[k], position) # {}
    <3>1. RecordsOf(files[k], position) \subseteq 1..position
      BY DEF RecordsOf
    <3> QED
      BY <1>1, <1>2, <1>4, <3>1, Subrange
  <2>2. Clean(files[k])
    BY <1>2, <1>4, <2>1 DEF Clean, RecordsOf
  <2> QED
    BY <1>1, <1>2, <1>3, <1>4, <2>2
<1>5. CASE pc = "refinish" /\ state = stop
  <2>1. state # "complete"
    BY <1>2, <1>5 DEF StopStates
  <2> QED
    BY <1>1, <1>2, <1>3, <1>5, <2>1
<1> QED
  BY <1>4, <1>5

LEMMA ReportInv == ASSUME AuditInv, Finish \/ Refinish PROVE AuditInv'
<1> USE DEF AuditInv
<1>1. /\ k \in Keys /\ at \in 1..4 /\ outcome = "pending" /\ Len(Order) = 4
      /\ scans \in [Keys -> [state : {"unread", "complete"} \cup StopStates \cup {Going},
                             lines : Nat, records : Nat, indexed : Nat]]
      /\ flushed \in Nat /\ records \in Nat /\ indexed \in Nat
  BY KeyType, OrderFacts DEF Finish, Refinish, CheckInv, Scanning, TypeOK
<1>2. PICK state :
        /\ \/ pc = "finish" /\ records > 0 /\ state = "complete"
           \/ pc = "refinish" /\ state = stop
        /\ Report(state) /\ seen[k] = files[k]
  BY DEF Finish, Refinish
<1>3. UNCHANGED <<files, lim, seen, outcome, findings, faults, position, records,
                  pending, indexed, stop, flushed, spill, rows, exhausted, found>>
  BY DEF Finish, Refinish
<1>4. /\ rows[k] = Multiplicity(files[k], flushed)
      /\ indexed = Cardinality(RecordsOf(files[k], flushed))
      /\ flushed <= Len(files[k]) /\ indexed <= records
      /\ state = "complete" => flushed = Len(files[k]) /\ Clean(files[k])
      /\ state = "failed" => flushed = 0
      /\ state \in StopStates \cup {"complete"}
  BY <1>2, ReportTrue
<1> DEFINE scan == [state |-> state, lines |-> flushed, records |-> records,
                    indexed |-> indexed]
<1>5. /\ scans' = [scans EXCEPT ![k] = scan] /\ at' = at + 1
      /\ \/ at = 4 /\ pc' = "overlap" /\ context' = "active"
         \/ at < 4 /\ pc' = "begin" /\ context' = context
  BY <1>1, <1>2 DEF Report
<1>6. /\ scans'[k] = scan
      /\ \A i \in 1..4 : i # at => scans'[Order[i]] = scans[Order[i]]
  BY <1>1, <1>5, OrderFacts DEF k
<1>7. TypeOK'
  <2>1. scans' \in [Keys -> [state : {"unread", "complete"} \cup StopStates \cup {Going},
                             lines : Nat, records : Nat, indexed : Nat]]
    BY <1>1, <1>4, <1>5
  <2>2. /\ at' \in 1..(Len(Order) + 1) /\ context' \in {"none", "active", "inactive"}
        /\ pc' \in {"begin", "overlap"}
        /\ pc' \in {"begin", "scan", "finish", "handle", "refinish"} => at' <= Len(Order)
    BY <1>1, <1>5 DEF TypeOK
  <2>3. /\ files' \in FileChoices /\ seen' \in [Keys -> Seq(LineKinds)]
        /\ lim' \in LimitChoices /\ outcome' \in {"pending", "checked", "raised"}
        /\ faults' \in 0..MaxFaults /\ stop' \in StopStates \cup {Going}
        /\ position' \in Nat /\ records' \in Nat /\ indexed' \in Nat /\ flushed' \in Nat
        /\ pending' \subseteq Nat \ {0} /\ spill' \in BOOLEAN /\ exhausted' \in BOOLEAN
    BY <1>3 DEF TypeOK
  <2>4. /\ rows' \in [Keys -> [Digests -> Nat]]
        /\ found' \subseteq [rule : {"EXACT_LEAKAGE", "NO_LEAKAGE", "SCAN_INCOMPLETE"},
                             experiment : Experiments]
    BY <1>3 DEF TypeOK
  <2> QED
    BY <2>1, <2>2, <2>3, <2>4 DEF TypeOK
<1>8. LocalInv'
  BY <1>5 DEF LocalInv, Scanning
<1>9. SpillHoldsPrefix'
  <2> SUFFICES ASSUME NEW i \in 1..(at' - 1)
      PROVE  LET key == Order[i]  s == scans'[key]  f == files'[key] IN
             /\ rows'[key] = Multiplicity(f, s.lines)
             /\ s.indexed = Cardinality(RecordsOf(f, s.lines))
             /\ s.lines <= Len(f) /\ s.indexed <= s.records
             /\ s.state = "complete" => s.lines = Len(f) /\ Clean(f)
             /\ s.state = "failed" => s.lines = 0
    BY DEF SpillHoldsPrefix
  <2>1. CASE i = at
    BY <1>3, <1>4, <1>6, <2>1 DEF k
  <2>2. CASE i # at
    <3>1. i \in 1..(at - 1) /\ i \in 1..4
      BY <1>1, <1>5, <2>2
    <3> QED
      BY <1>3, <1>6, <2>2, <3>1 DEF SpillHoldsPrefix
  <2> QED
    BY <2>1, <2>2
<1>10. AheadInv'
  <2>1. \A i \in at'..4 : scans'[Order[i]] = NoScan
    BY <1>1, <1>5, <1>6 DEF AheadInv
  <2>2. \A i \in (at' + 1)..4 : rows'[Order[i]] = NoCounts
    BY <1>1, <1>3, <1>5 DEF AheadInv
  <2>3. pc' \in {"open", "begin"} => at' <= 4 /\ rows'[k'] = NoCounts
    <3>1. pc' \in {"open", "begin"} => at + 1 \in (at + 1)..4
      BY <1>1, <1>5
    <3> QED
      BY <1>1, <1>3, <1>5, <3>1 DEF AheadInv, k
  <2>4. \A i \in 1..(at' - 1) : scans'[Order[i]].state \in StopStates \cup {"complete"}
    <3> SUFFICES ASSUME NEW i \in 1..(at' - 1)
                 PROVE  scans'[Order[i]].state \in StopStates \cup {"complete"}
      OBVIOUS
    <3>1. CASE i = at
      BY <1>4, <1>6, <3>1 DEF k
    <3>2. CASE i # at
      <4>1. i \in 1..(at - 1) /\ i \in 1..4
        BY <1>1, <1>5, <3>2
      <4> QED
        BY <1>6, <3>2, <4>1 DEF AheadInv
    <3> QED
      BY <3>1, <3>2
  <2> QED
    BY <1>1, <1>5, <2>1, <2>2, <2>3, <2>4 DEF AheadInv
<1>11. CheckInv'
  BY <1>1, <1>3, <1>5 DEF CheckInv
<1> QED
  BY <1>7, <1>8, <1>9, <1>10, <1>11

-----------------------------------------------------------------------------------
(* The steps around the scans.                                               *)

LEMMA OpenSpillInv == ASSUME AuditInv, OpenSpill PROVE AuditInv'
<1> USE DEF AuditInv
<1>1. /\ pc = "open" /\ pc' = "begin" /\ spill' = TRUE /\ at \in 1..5
      /\ UNCHANGED <<files, lim, seen, outcome, findings, faults, at, position, records,
                     pending, indexed, stop, flushed, rows, exhausted, scans, context,
                     found>>
  BY OrderFacts DEF OpenSpill, TypeOK
<1>2. k' = k /\ at <= Len(Order)
  BY <1>1 DEF k, AheadInv
<1>3. TypeOK'
  BY <1>1, <1>2 DEF TypeOK
<1>4. SpillHoldsPrefix' /\ AheadInv' /\ LocalInv' /\ CheckInv'
  BY <1>1, <1>2 DEF SpillHoldsPrefix, AheadInv, LocalInv, Scanning, CheckInv
<1> QED
  BY <1>3, <1>4

LEMMA LeaveInv ==
  ASSUME AuditInv, SpillRefused \/ ScanRaises \/ ConsumerRaises \/ Close
  PROVE  AuditInv'
<1> USE DEF AuditInv
<1>1. /\ pc' \in {"close", "done"}
      /\ UNCHANGED <<files, lim, seen, findings, at, position, records, pending,
                     indexed, stop, flushed, rows, exhausted, scans, found>>
      /\ \/ pc # "close" /\ outcome' = "raised"
         \/ outcome' = outcome
  BY DEF SpillRefused, ScanRaises, ConsumerRaises, Close, Abandon
<1>2. /\ faults' \in 0..MaxFaults /\ spill' \in BOOLEAN
      /\ context' \in {"none", "active", "inactive"}
      /\ outcome' \in {"pending", "checked", "raised"}
  BY <1>1, FaultType DEF SpillRefused, ScanRaises, ConsumerRaises, Close, TypeOK
<1>3. outcome' # outcome => outcome = "pending"
  BY DEF SpillRefused, ScanRaises, ConsumerRaises, Close, CheckInv
<1>4. TypeOK'
  BY <1>1, <1>2 DEF TypeOK
<1>5. SpillHoldsPrefix' /\ AheadInv'
  BY <1>1, FinishedStay
<1>6. LocalInv'
  BY <1>1 DEF LocalInv, Scanning
<1>7. CheckInv'
  BY <1>1, <1>3, ZenonT(40)
  DEF CheckInv, OverlapFindings, Overlapping, AlignmentFindings, PairComplete,
      ScanComplete
<1> QED
  BY <1>4, <1>5, <1>6, <1>7

LEMMA CheckStepsInv == ASSUME AuditInv, CheckOverlap \/ CheckAlignment PROVE AuditInv'
<1> USE DEF AuditInv
<1>1. /\ pc' \in {"align", "close"} /\ at = Len(Order) + 1 /\ outcome = "pending"
      /\ UNCHANGED <<files, lim, seen, faults, at, position, records, pending, indexed,
                     stop, flushed, spill, rows, exhausted, scans, context>>
  BY DEF CheckOverlap, CheckAlignment, CheckInv
<1>2. \A x \in Experiments : OverlapFindings(x) \subseteq
         [rule : {"EXACT_LEAKAGE", "NO_LEAKAGE", "SCAN_INCOMPLETE"},
          experiment : Experiments]
  BY DEF OverlapFindings, Finding
<1>3. TypeOK'
  <2>1. /\ found' \subseteq [rule : {"EXACT_LEAKAGE", "NO_LEAKAGE", "SCAN_INCOMPLETE"},
                             experiment : Experiments]
        /\ outcome' \in {"pending", "checked", "raised"}
    BY <1>1, <1>2 DEF CheckOverlap, CheckAlignment, TypeOK, Experiments
  <2> QED
    BY <1>1, <2>1 DEF TypeOK
<1>4. SpillHoldsPrefix' /\ AheadInv'
  BY <1>1, FinishedStay
<1>5. LocalInv'
  BY <1>1 DEF LocalInv, Scanning
<1>6. CheckInv'
  <2>1. /\ \A x \in Experiments : OverlapFindings(x)' = OverlapFindings(x)
        /\ AlignmentFindings' = AlignmentFindings
    BY <1>1 DEF OverlapFindings, Overlapping, AlignmentFindings, PairComplete, ScanComplete
  <2>2. /\ OverlapFindings("baseline")' = OverlapFindings("baseline")
        /\ OverlapFindings("candidate")' = OverlapFindings("candidate")
    BY <2>1 DEF Experiments
  <2>3. CASE CheckOverlap
    BY <1>1, <2>2, <2>3 DEF CheckInv, CheckOverlap
  <2>4. CASE CheckAlignment
    BY <1>1, <2>1, <2>2, <2>4 DEF CheckInv, CheckAlignment
  <2> QED
    BY <2>3, <2>4
<1> QED
  BY <1>3, <1>4, <1>5, <1>6

-----------------------------------------------------------------------------------
(* Invariance.                                                               *)

LEMMA InitInv == AuditInit => AuditInv
<1> SUFFICES ASSUME AuditInit PROVE AuditInv
  OBVIOUS
<1>1. TypeOK
  BY InitTypeOK
<1>2. /\ pc = "open" /\ at = 1 /\ outcome = "pending" /\ findings = {}
      /\ rows = [key \in Keys |-> NoCounts] /\ scans = [key \in Keys |-> NoScan]
  BY DEF AuditInit
<1>3. AheadInv
  BY <1>2, OrderFacts DEF AheadInv, k
<1>4. LocalInv /\ SpillHoldsPrefix /\ CheckInv
  BY <1>2 DEF LocalInv, Scanning, SpillHoldsPrefix, CheckInv
<1> QED
  BY <1>1, <1>3, <1>4 DEF AuditInv

LEMMA StepInv == AuditInv /\ [AuditNext]_auditVars => AuditInv'
<1> SUFFICES ASSUME AuditInv, [AuditNext]_auditVars PROVE AuditInv'
  OBVIOUS
<1>1. CASE ScanStep
  BY <1>1, BeginInv, LeaveInv, TakeLineInv, BatchAddedInv, BatchRefusedInv,
     NoRecordsInv, ReportInv, DropSplitInv
  DEF ScanStep
<1>2. CASE OpenSpill \/ SpillRefused \/ CheckOverlap \/ CheckAlignment
             \/ ConsumerRaises \/ Close
  BY <1>2, OpenSpillInv, LeaveInv, CheckStepsInv
<1>3. CASE UNCHANGED auditVars
  <2> USE <1>3 DEF auditVars, AuditInv
  <2>1. TypeOK'
    BY DEF TypeOK
  <2>2. LocalInv'
    BY DEF LocalInv, Scanning, k
  <2>3. SpillHoldsPrefix' /\ AheadInv'
    BY DEF SpillHoldsPrefix, AheadInv, k
  <2>4. CheckInv'
    BY DEF CheckInv, OverlapFindings, Overlapping, AlignmentFindings, PairComplete,
           ScanComplete
  <2> QED
    BY <2>1, <2>2, <2>3, <2>4
<1> QED
  BY <1>1, <1>2, <1>3 DEF AuditNext

LEMMA Invariance == AuditSpec => []AuditInv
BY InitInv, StepInv, PTL DEF AuditSpec

\* Every variable keeps its type, for every four datasets, budgets and failures.
THEOREM AuditTypeCorrect == AuditSpec => []TypeOK
<1>1. AuditInv => TypeOK
  BY DEF AuditInv
<1> QED
  BY <1>1, Invariance, PTL

\* The table of the spill never holds anything but the multiset of a prefix of
\* each scanned dataset: all of a complete one, nothing of a failed one.
THEOREM SpillIsPrefix == AuditSpec => []SpillHoldsPrefix
<1>1. AuditInv => SpillHoldsPrefix
  BY DEF AuditInv
<1> QED
  BY <1>1, Invariance, PTL

-----------------------------------------------------------------------------------
(* What the findings say of the recorded datasets.                           *)

LEMMA ScannedAll ==
  ASSUME AuditInv, at = Len(Order) + 1, NEW x \in Experiments, NEW s \in Splits
  PROVE  LET key == <<x, s>>  scan == scans[key]  f == files[key] IN
         /\ key \in Keys /\ f \in Seq(LineKinds) /\ Len(f) \in Nat
         /\ rows[key] = Multiplicity(f, scan.lines)
         /\ scan.lines \in Nat /\ scan.lines <= Len(f)
         /\ scan.state = "complete" => scan.lines = Len(f)
         /\ scan.state # "unread"
<1> USE DEF AuditInv
<1>1. PICK i \in 1..4 : Order[i] = <<x, s>>
  BY OrderFacts
<1>2. i \in 1..(at - 1) /\ <<x, s>> \in Keys
  BY <1>1, OrderFacts DEF Keys
<1>3. /\ files[<<x, s>>] \in Seq(LineKinds) /\ scans[<<x, s>>].lines \in Nat
  BY <1>2, FactsAssumption DEF TypeOK
<1>4. scans[<<x, s>>].state # "unread"
  BY <1>1, <1>2 DEF AheadInv, StopStates
<1> QED
  BY <1>1, <1>2, <1>3, <1>4 DEF SpillHoldsPrefix

\* Two splits overlap in the table iff they share a record they were scanned for.
LEMMA OverlapMeaning ==
  ASSUME AuditInv, at = Len(Order) + 1, NEW x \in Experiments
  PROVE  Overlapping(x) # {} <=>
           SharedRecord(files[<<x, "train">>], scans[<<x, "train">>].lines,
                        files[<<x, "eval">>], scans[<<x, "eval">>].lines)
<1> DEFINE f == files[<<x, "train">>]
           g == files[<<x, "eval">>]
           m == scans[<<x, "train">>].lines
           n == scans[<<x, "eval">>].lines
<1>1. /\ rows[<<x, "train">>] = Multiplicity(f, m) /\ m \in Nat
      /\ rows[<<x, "eval">>] = Multiplicity(g, n) /\ n \in Nat
  BY ScannedAll DEF Splits
<1> HIDE DEF f, g, m, n
<1>2. \A d \in Digests : /\ Multiplicity(f, m)[d] > 0 <=> \E i \in 1..m : f[i] = d
                         /\ Multiplicity(g, n)[d] > 0 <=> \E j \in 1..n : g[j] = d
  BY <1>1, MultiplicityType
<1>3. Overlapping(x) # {} <=> SharedRecord(f, m, g, n)
  BY <1>1, <1>2 DEF Overlapping, SharedRecord
<1> QED
  BY <1>3 DEF f, g, m, n

LEMMA InvImpliesSound == AuditInv => FindingsSound
<1> SUFFICES ASSUME AuditInv, outcome = "checked" PROVE FindingsSound
  BY DEF FindingsSound
<1>1. /\ at = Len(Order) + 1
      /\ findings = OverlapFindings("baseline") \cup OverlapFindings("candidate")
                      \cup AlignmentFindings
  BY DEF AuditInv, CheckInv
<1>2. ASSUME NEW x \in Experiments
      PROVE  LET f == files[<<x, "train">>]  g == files[<<x, "eval">>]
                 shared == SharedRecord(f, Len(f), g, Len(g)) IN
             /\ Finding("EXACT_LEAKAGE", x) \in findings => shared
             /\ Finding("NO_LEAKAGE", x) \in findings => ~shared
  <2> DEFINE f == files[<<x, "train">>]
             g == files[<<x, "eval">>]
             m == scans[<<x, "train">>].lines
             n == scans[<<x, "eval">>].lines
  <2>1. /\ m \in Nat /\ n \in Nat /\ m <= Len(f) /\ n <= Len(g)
        /\ Len(f) \in Nat /\ Len(g) \in Nat
        /\ PairComplete(x) => m = Len(f) /\ n = Len(g)
    BY <1>1, ScannedAll DEF Splits, PairComplete, ScanComplete
  <2>2. Overlapping(x) # {} <=> SharedRecord(f, m, g, n)
    BY <1>1, OverlapMeaning
  <2>3. \A r \in {"EXACT_LEAKAGE", "NO_LEAKAGE"} :
          Finding(r, x) \in findings => Finding(r, x) \in OverlapFindings(x)
    <3>1. \A r \in {"EXACT_LEAKAGE", "NO_LEAKAGE"} : Finding(r, x) \notin AlignmentFindings
      BY DEF AlignmentFindings, Finding
    <3>2. \A r \in {"EXACT_LEAKAGE", "NO_LEAKAGE"}, y \in Experiments :
            Finding(r, x) \in OverlapFindings(y) => x = y
      BY DEF OverlapFindings, Finding
    <3> QED
      BY <1>1, <3>1, <3>2 DEF Experiments
  <2>4. Finding("EXACT_LEAKAGE", x) \in OverlapFindings(x) => Overlapping(x) # {}
    BY DEF OverlapFindings, Finding
  <2>5. Finding("NO_LEAKAGE", x) \in OverlapFindings(x)
          => Overlapping(x) = {} /\ PairComplete(x)
    BY DEF OverlapFindings, Finding
  <2> HIDE DEF f, g, m, n
  <2>6. SharedRecord(f, m, g, n) => SharedRecord(f, Len(f), g, Len(g))
    BY <2>1 DEF SharedRecord
  <2>7. /\ Finding("EXACT_LEAKAGE", x) \in findings => SharedRecord(f, Len(f), g, Len(g))
        /\ Finding("NO_LEAKAGE", x) \in findings => ~SharedRecord(f, Len(f), g, Len(g))
    BY <2>1, <2>2, <2>3, <2>4, <2>5, <2>6
  <2> QED
    BY <2>7 DEF f, g
<1>3. ASSUME NEW r \in {"EVALUATION_ALIGNED", "EVALUATION_MISMATCH"},
             Finding(r, "both") \in findings
      PROVE  r = "EVALUATION_ALIGNED" <=> Facts!EvaluationsEqual
  <2>1. Finding(r, "both") \in AlignmentFindings
    BY <1>1, <1>3 DEF OverlapFindings, Finding
  <2>2. /\ \A x \in Experiments : ScanComplete(<<x, "eval">>)
        /\ r = "EVALUATION_ALIGNED" <=>
             rows[<<"baseline", "eval">>] = rows[<<"candidate", "eval">>]
    BY <2>1 DEF AlignmentFindings, Finding
  <2>3. \A x \in Experiments :
          rows[<<x, "eval">>] = Multiplicity(files[<<x, "eval">>], Len(files[<<x, "eval">>]))
    BY <1>1, <2>2, ScannedAll DEF ScanComplete, Splits
  <2> QED
    BY <2>2, <2>3
    DEF Experiments, Facts!EvaluationsEqual, Facts!Whole, Facts!Multiplicity, Multiplicity,
        Cardinality, Facts!Cardinality, IsFiniteSet, Facts!IsFiniteSet
<1> QED
  BY <1>2, <1>3 DEF FindingsSound

\* Every finding the audit returns is true of the recorded datasets as a whole.
THEOREM FindingsAreSound == AuditSpec => []FindingsSound
BY InvImpliesSound, Invariance, PTL

-----------------------------------------------------------------------------------
(* Refinement of DatasetFacts.                                               *)

LEMMA LookRefines == ASSUME AuditInv, AuditInv', Finish \/ Refinish PROVE Facts!Next
<1> USE DEF AuditInv
<1>1. /\ k \in Keys /\ outcome = "pending" /\ at \in 1..4 /\ Len(Order) = 4
      /\ files[k] \in Seq(LineKinds)
      /\ scans \in [Keys -> [state : {"unread", "complete"} \cup StopStates \cup {Going},
                             lines : Nat, records : Nat, indexed : Nat]]
      /\ flushed \in Nat
  BY KeyType, OrderFacts DEF Finish, Refinish, CheckInv, Scanning, TypeOK
<1>2. PICK state :
        /\ \/ pc = "finish" /\ records > 0 /\ state = "complete"
           \/ pc = "refinish" /\ state = stop
        /\ Report(state) /\ seen[k] = files[k]
  BY DEF Finish, Refinish
<1>3. /\ flushed <= Len(files[k])
      /\ state = "complete" => flushed = Len(files[k]) /\ Clean(files[k])
      /\ state \in StopStates \cup {"complete"}
  BY <1>2, ReportTrue
<1>4. UNCHANGED <<files, outcome, findings>>
  BY DEF Finish, Refinish
<1>5. scans[k] = NoScan
  BY <1>1 DEF AheadInv, k
<1>6. scans' = [scans EXCEPT ![k] = [state |-> state, lines |-> flushed,
                                     records |-> records, indexed |-> indexed]]
  BY <1>2 DEF Report
<1>7. lookedSoFar' = [lookedSoFar EXCEPT ![k] =
                        [done |-> TRUE, lines |-> flushed, complete |-> state = "complete"]]
  <2>1. state # "unread"
    BY <1>3 DEF StopStates
  <2>2. \A key \in Keys : key # k => scans'[key] = scans[key]
    BY <1>1, <1>6
  <2>3. /\ scans'[k].state = state /\ scans'[k].lines = flushed
    BY <1>1, <1>6
  <2> QED
    BY <1>1, <2>1, <2>2, <2>3 DEF lookedSoFar
<1>8. ~lookedSoFar[k].done
  <2>1. lookedSoFar[k].done <=> scans[k].state # "unread"
    BY <1>1 DEF lookedSoFar
  <2>2. NoScan.state = "unread"
    BY DEF NoScan
  <2> QED
    BY <1>5, <2>1, <2>2
<1>9. Facts!Clean(files[k]) <=> Clean(files[k])
  BY DEF Facts!Clean, Clean
<1>10. Facts!Look(k, flushed, state = "complete")
  BY <1>1, <1>3, <1>4, <1>7, <1>8, <1>9 DEF Facts!Look
<1>11. flushed \in 0..Len(files[k]) /\ (state = "complete") \in BOOLEAN
  BY <1>1, <1>3
<1>12. k \in Facts!Keys
  BY <1>1 DEF Facts!Keys, Keys, Facts!Experiments, Experiments, Facts!Splits, Splits
<1> QED
  BY <1>10, <1>11, <1>12 DEF Facts!Next

LEMMA JudgeRefines == ASSUME AuditInv, AuditInv', CheckAlignment PROVE Facts!Judge
<1> USE DEF AuditInv
<1>1. /\ pc = "align" /\ outcome = "pending" /\ at = Len(Order) + 1
      /\ outcome' = "checked" /\ UNCHANGED <<files, scans>>
      /\ findings' = OverlapFindings("baseline") \cup OverlapFindings("candidate")
                       \cup AlignmentFindings
  BY DEF CheckAlignment, CheckInv
<1>2. UNCHANGED lookedSoFar
  BY <1>1 DEF lookedSoFar
<1>3. \A x \in Experiments, s \in Splits :
        /\ <<x, s>> \in Keys
        /\ lookedSoFar[<<x, s>>].done
        /\ lookedSoFar[<<x, s>>].lines = scans[<<x, s>>].lines
        /\ lookedSoFar[<<x, s>>].complete <=> ScanComplete(<<x, s>>)
  BY <1>1, ScannedAll DEF lookedSoFar, ScanComplete
<1>4. /\ Facts!Experiments = Experiments /\ Facts!Splits = Splits /\ Facts!Keys = Keys
  BY DEF Facts!Experiments, Experiments, Facts!Splits, Splits, Facts!Keys, Keys
<1>5. \A key \in Keys : lookedSoFar[key].done
  BY <1>3 DEF Keys
<1>6. ASSUME NEW x \in Experiments
      PROVE  /\ Facts!Complete(x) <=> PairComplete(x)
             /\ Facts!Leaks(x) <=> Overlapping(x) # {}
  BY <1>1, <1>3, OverlapMeaning
  DEF Splits, PairComplete, Facts!Complete, Facts!Leaks, Facts!SharedRecord, SharedRecord
<1>7. Facts!EvaluationsComplete <=> \A x \in Experiments : ScanComplete(<<x, "eval">>)
  BY <1>3, <1>4 DEF Facts!EvaluationsComplete, Splits
<1>8. ASSUME Facts!EvaluationsComplete
      PROVE  Facts!EvaluationsEqual <=>
               rows[<<"baseline", "eval">>] = rows[<<"candidate", "eval">>]
  <2>1. \A x \in Experiments :
          rows[<<x, "eval">>] = Multiplicity(files[<<x, "eval">>], Len(files[<<x, "eval">>]))
    BY <1>1, <1>7, <1>8, ScannedAll DEF ScanComplete, Splits
  <2> QED
    BY <2>1
    DEF Experiments, Facts!EvaluationsEqual, Facts!Whole, Facts!Multiplicity, Multiplicity,
        Cardinality, Facts!Cardinality, IsFiniteSet, Facts!IsFiniteSet
<1>9. findings' = Facts!Warranted
  <2>1. AlignmentFindings =
          IF Facts!EvaluationsComplete THEN {Facts!Finding(Facts!AlignmentRule, "both")}
          ELSE {}
    BY <1>7, <1>8 DEF AlignmentFindings, Facts!AlignmentRule, Facts!Finding, Finding
  <2>2. OverlapFindings("baseline") \cup OverlapFindings("candidate") =
          {Facts!Finding("EXACT_LEAKAGE", x) : x \in {y \in Experiments : Facts!Leaks(y)}}
          \cup {Facts!Finding("NO_LEAKAGE", x) :
                  x \in {y \in Experiments : Facts!Complete(y) /\ ~Facts!Leaks(y)}}
          \cup {Facts!Finding("SCAN_INCOMPLETE", x) :
                  x \in {y \in Experiments : ~Facts!Complete(y)}}
    BY <1>6 DEF OverlapFindings, Experiments, Facts!Finding, Finding
  <2> QED
    BY <1>1, <1>4, <2>1, <2>2 DEF Facts!Warranted
<1> QED
  BY <1>1, <1>2, <1>4, <1>5, <1>9 DEF Facts!Judge

LEMMA StepRefines ==
  AuditInv /\ AuditInv' /\ [AuditNext]_auditVars => [Facts!Next]_(Facts!factVars)
<1> SUFFICES ASSUME AuditInv, AuditInv', [AuditNext]_auditVars
             PROVE  [Facts!Next]_(Facts!factVars)
  OBVIOUS
<1>1. CASE Finish \/ Refinish
  BY <1>1, LookRefines
<1>2. CASE CheckAlignment
  BY <1>2, JudgeRefines DEF Facts!Next
<1>3. CASE SpillRefused \/ ScanRaises \/ ConsumerRaises
  <2>1. /\ outcome = "pending" /\ outcome' = "raised"
        /\ UNCHANGED <<files, findings, scans>>
    BY <1>3
    DEF SpillRefused, ScanRaises, ConsumerRaises, Abandon, AuditInv, CheckInv
  <2> QED
    BY <2>1 DEF Facts!Next, Facts!GiveUp, lookedSoFar
<1>4. CASE OpenSpill \/ Begin \/ TakeLine \/ Flush \/ FlushFails \/ NoRecords
             \/ ContractError \/ HandleFailed \/ HandleStopped \/ HandleScratchFull
             \/ CheckOverlap \/ Close \/ UNCHANGED auditVars
  <2>1. UNCHANGED <<files, outcome, findings, scans>>
    BY <1>4
    DEF OpenSpill, Begin, TakeLine, Flush, FlushFails, NoRecords, ContractError,
        HandleFailed, HandleStopped, HandleScratchFull, CheckOverlap, Close, auditVars
  <2> QED
    BY <2>1 DEF Facts!factVars, lookedSoFar
<1> QED
  BY <1>1, <1>2, <1>3, <1>4 DEF AuditNext, ScanStep

\* With its spill, batches, budgets and failures the audit behaves like
\* DatasetFacts: looks at prefixes, then exactly the findings these warrant.
THEOREM AuditImplementsFacts == AuditSpec => ImplementsFacts
<1>1. AuditInit => Facts!Init
  <2> SUFFICES ASSUME AuditInit PROVE Facts!Init
    OBVIOUS
  <2>1. lookedSoFar = [key \in Facts!Keys |-> Facts!Unseen]
    BY DEF AuditInit, lookedSoFar, NoScan, Facts!Unseen, Facts!Keys, Keys,
           Facts!Experiments, Experiments, Facts!Splits, Splits
  <2> QED
    BY <2>1 DEF AuditInit, Facts!Init
<1> QED
  BY <1>1, StepRefines, Invariance, PTL DEF AuditSpec, ImplementsFacts, Facts!Spec

-----------------------------------------------------------------------------------
(* What fits is decided.                                                     *)

\* The distinct records of four files are finitely many.
LEMMA DistinctFinite ==
  ASSUME TypeOK
  PROVE  IsFiniteSet(DistinctRecords)
<1> DEFINE Of(key) == {<<key, files[key][i]>> : i \in 1..Len(files[key])}
<1>1. ASSUME NEW key \in Keys PROVE IsFiniteSet(Of(key))
  <2> DEFINE at_ == [i \in 1..Len(files[key]) |-> <<key, files[key][i]>>]
  <2>1. Len(files[key]) \in Nat
    BY FactsAssumption DEF TypeOK
  <2>2. at_ \in Surjection(1..Len(files[key]), Of(key))
    BY DEF Surjection
  <2>3. IsFiniteSet(1..Len(files[key]))
    BY <2>1, FS_Interval
  <2> HIDE DEF at_, Of
  <2> QED
    BY <2>2, <2>3, FS_Surjection
<1>2. \A e \in DistinctRecords : e[1] \in Keys /\ e \in Of(e[1])
  <2> SUFFICES ASSUME NEW e \in DistinctRecords PROVE e[1] \in Keys /\ e \in Of(e[1])
    OBVIOUS
  <2>1. e \in Keys \X Digests
    BY DEF DistinctRecords
  <2>2. PICK i \in 1..Len(files[e[1]]) : files[e[1]][i] = e[2]
    BY DEF DistinctRecords
  <2>3. e = <<e[1], e[2]>> /\ e[1] \in Keys
    BY <2>1
  <2> QED
    BY <2>2, <2>3
<1> HIDE DEF Of
<1>3. \A key \in Keys : key \in {Order[1], Order[2], Order[3], Order[4]}
  BY DEF Keys, Experiments, Splits, Order
<1>4. DistinctRecords \subseteq
        ((Of(Order[1]) \cup Of(Order[2])) \cup Of(Order[3])) \cup Of(Order[4])
  BY <1>2, <1>3
<1>8. /\ IsFiniteSet(Of(Order[1])) /\ IsFiniteSet(Of(Order[2]))
      /\ IsFiniteSet(Of(Order[3])) /\ IsFiniteSet(Of(Order[4]))
  <2>1. /\ Order[1] \in Keys /\ Order[2] \in Keys /\ Order[3] \in Keys /\ Order[4] \in Keys
    BY OrderFacts
  <2> QED
    BY <1>1, <2>1
<1>5. IsFiniteSet(Of(Order[1]) \cup Of(Order[2]))
  BY <1>8, FS_Union
<1>6. IsFiniteSet((Of(Order[1]) \cup Of(Order[2])) \cup Of(Order[3]))
  BY <1>5, <1>8, FS_Union
<1>7. IsFiniteSet(((Of(Order[1]) \cup Of(Order[2])) \cup Of(Order[3])) \cup Of(Order[4]))
  BY <1>6, <1>8, FS_Union
<1> QED
  BY <1>4, <1>7, FS_Subset

\* Every row the next batch would make is a record of the files.
LEMMA BatchHasRoom ==
  ASSUME AuditInv, Smooth, pc = "scan"
  PROVE  ~(RowCount([rows EXCEPT ![k] = Upsert(@, pending)]) > Capacity)
<1> USE DEF AuditInv
<1> DEFINE next == [rows EXCEPT ![k] = Upsert(@, pending)]
<1>1. /\ k \in Keys /\ at \in 1..4 /\ seen[k] \in Seq(LineKinds) /\ k = Order[at]
      /\ position \in Nat /\ position <= Len(seen[k])
  BY KeyType DEF TypeOK, Scanning, LocalInv, k
<1>2. Upsert(rows[k], pending) = Multiplicity(seen[k], position)
  BY UpsertCounts
<1>3. next[k] = Multiplicity(files[k], position)
  BY <1>1, <1>2 DEF Smooth, TypeOK
<1>4. ASSUME NEW i \in 1..4, NEW d \in Digests, next[Order[i]][d] > 0
      PROVE  \E j \in 1..Len(files[Order[i]]) : files[Order[i]][j] = d
  <2> DEFINE f == files[Order[i]]
  <2>1. f \in Seq(LineKinds) /\ Len(f) \in Nat
    <3>1. Order[i] \in Keys /\ files \in [Keys -> Seq(LineKinds)]
      BY OrderFacts, FactsAssumption DEF TypeOK
    <3> QED
      BY <3>1
  <2>2. ASSUME NEW n \in Nat, n <= Len(f), next[Order[i]] = Multiplicity(f, n)
        PROVE  \E j \in 1..Len(f) : f[j] = d
    <3> HIDE DEF next
    <3>1. \E j \in 1..n : f[j] = d
      BY <1>4, <2>2, MultiplicityType
    <3> QED
      BY <2>1, <2>2, <3>1
  <2>3. CASE i = at
    BY <1>1, <1>3, <2>2, <2>3 DEF Smooth
  <2>4. CASE i < at
    <3>1. i \in 1..(at - 1) /\ Order[i] # k
      BY <1>1, <2>4, OrderFacts
    <3>2. /\ rows[Order[i]] = Multiplicity(f, scans[Order[i]].lines)
          /\ scans[Order[i]].lines <= Len(f)
      BY <3>1 DEF SpillHoldsPrefix
    <3>3. scans[Order[i]].lines \in Nat
      BY OrderFacts DEF TypeOK
    <3>4. next[Order[i]] = rows[Order[i]]
      BY <1>1, <3>1, OrderFacts DEF TypeOK
    <3> QED
      BY <2>2, <3>2, <3>3, <3>4
  <2>5. CASE i > at
    <3>1. i \in (at + 1)..Len(Order) /\ Order[i] # k
      BY <1>1, <2>5, OrderFacts
    <3>2. rows[Order[i]] = NoCounts
      BY <3>1 DEF AheadInv
    <3>3. next[Order[i]] = rows[Order[i]]
      BY <1>1, <3>1, OrderFacts DEF TypeOK
    <3>4. next[Order[i]][d] = 0
      BY <3>2, <3>3 DEF NoCounts
    <3> HIDE DEF next
    <3> QED
      BY <1>4, <3>4
  <2> QED
    BY <1>1, <2>3, <2>4, <2>5
<1> HIDE DEF next
<1>5. \A key \in Keys : \E i \in 1..4 : Order[i] = key
  BY OrderFacts DEF Keys
<1>6. {e \in Keys \X Digests : next[e[1]][e[2]] > 0} \subseteq DistinctRecords
  <2> SUFFICES ASSUME NEW e \in Keys \X Digests, next[e[1]][e[2]] > 0
               PROVE  \E j \in 1..Len(files[e[1]]) : files[e[1]][j] = e[2]
    BY DEF DistinctRecords
  <2>1. PICK i \in 1..4 : Order[i] = e[1]
    BY <1>5
  <2> QED
    BY <1>4, <2>1
<1>7. /\ Cardinality({e \in Keys \X Digests : next[e[1]][e[2]] > 0})
           <= Cardinality(DistinctRecords)
      /\ Cardinality({e \in Keys \X Digests : next[e[1]][e[2]] > 0}) \in Nat
      /\ Cardinality(DistinctRecords) \in Nat
  BY <1>6, DistinctFinite, FS_Subset, FS_CardinalityType
<1>8. Cardinality(DistinctRecords) <= Capacity /\ Capacity \in Nat
  BY AuditAssumption DEF Smooth
<1>9. RowCount(next) = Cardinality({e \in Keys \X Digests : next[e[1]][e[2]] > 0})
  BY DEF RowCount
<1>10. ~(RowCount(next) > Capacity)
  BY <1>7, <1>8, <1>9
<1> QED
  BY <1>10 DEF next

\* No line of a dataset that fits stops its scan.
LEMMA LineGoesOn ==
  ASSUME AuditInv, Smooth, pc = "scan", position < Len(seen[k])
  PROVE  StopAt(seen[k][position + 1]) = Going
<1> USE DEF AuditInv
<1> DEFINE f == seen[k]
           l == f[position + 1]
<1>1. /\ k \in Keys /\ f \in Seq(LineKinds) /\ Len(f) \in Nat /\ f = files[k]
      /\ position \in Nat /\ position + 1 \in 1..Len(f)
      /\ records = Cardinality(RecordsOf(f, position))
      /\ lim.semantic \in Nat /\ lim.records \in Nat
  BY KeyType, AuditAssumption, SMTT(30) DEF TypeOK, Scanning, LocalInv, Smooth
<1> HIDE DEF f
<1>2. /\ l \in Digests \cup {"blank"} /\ position + 1 <= lim.semantic
      /\ Cardinality(RecordsOf(f, Len(f))) <= lim.records
  BY <1>1 DEF Smooth, Fits, Clean
<1>3. l # "too_long" /\ l # "malformed" /\ l # "too_deep"
  BY <1>2, FactsAssumption DEF NotRecords
<1>4. l # "blank" => ~AtRecordBudget
  <2> SUFFICES ASSUME l # "blank" PROVE ~AtRecordBudget
    OBVIOUS
  <2>1. f[position + 1] \in Digests
    BY <1>2
  <2>2. Cardinality(RecordsOf(f, position + 1)) = Cardinality(RecordsOf(f, position)) + 1
    BY <1>1, <2>1, LineCount
  <2>3. /\ Cardinality(RecordsOf(f, position + 1)) <= Cardinality(RecordsOf(f, Len(f)))
        /\ Cardinality(RecordsOf(f, position)) \in Nat
        /\ Cardinality(RecordsOf(f, Len(f))) \in Nat
    <3>1. position + 1 \in Nat /\ position + 1 <= Len(f)
      BY <1>1
    <3>2. Cardinality(RecordsOf(f, position + 1)) <= Cardinality(RecordsOf(f, Len(f)))
      BY <1>1, <3>1, MoreRecords
    <3>3. /\ Cardinality(RecordsOf(f, position)) \in Nat
          /\ Cardinality(RecordsOf(f, Len(f))) \in Nat
      BY <1>1, MoreRecords
    <3> QED
      BY <3>2, <3>3
  <2> QED
    BY <1>1, <1>2, <2>2, <2>3 DEF AtRecordBudget
<1>5. StopAt(l) = Going
  BY <1>1, <1>2, <1>3, <1>4 DEF StopAt
<1> QED
  BY <1>5 DEF f

\* No step of a run without failures is one that fails.
LEMMA SmoothBefore ==
  ASSUME AuditInv, [AuditNext]_auditVars, Smooth'
  PROVE  Smooth /\ UNCHANGED <<files, lim, seen>> /\ faults' = faults /\ ~Fault
<1>1. faults \in Nat /\ faults' = 0
  BY AuditAssumption DEF AuditInv, TypeOK, Smooth
<1>2. ~Fault
  BY <1>1 DEF Fault
<1>3. /\ UNCHANGED <<files, lim, seen>>
      /\ faults' = faults
  BY <1>2
  DEF AuditNext, auditVars, ScanStep, OpenSpill, SpillRefused, Begin, ScanRaises, TakeLine,
      Flush, FlushFails, BatchAdded, BatchRefused, NoRecords, Finish, ContractError,
      HandleFailed, HandleStopped, HandleScratchFull, Refinish, CheckOverlap,
      CheckAlignment, ConsumerRaises, Close, Abandon
<1> QED
  BY <1>1, <1>2, <1>3 DEF Smooth, Fits, DistinctRecords

LEMMA FilledNotEmpty ==
  ASSUME AuditInv, Smooth, pc = "finish"
  PROVE  records > 0
<1> USE DEF AuditInv
<1>1. /\ k \in Keys /\ seen[k] \in Seq(LineKinds) /\ Len(seen[k]) \in Nat
      /\ records = Cardinality(RecordsOf(seen[k], Len(seen[k])))
  BY KeyType DEF Scanning, LocalInv
<1>2. RecordsOf(seen[k], Len(seen[k])) # {}
  BY <1>1 DEF Smooth, Fits, Clean, RecordsOf
<1>3. RecordsOf(seen[k], Len(seen[k])) \subseteq 1..Len(seen[k])
  BY DEF RecordsOf
<1> QED
  BY <1>1, <1>2, <1>3, Subrange

LEMMA ReportSmooth ==
  ASSUME AuditInv, Smooth, SmoothInv, Finish
  PROVE  /\ ~exhausted' /\ outcome' # "raised" /\ pc' \in {"begin", "overlap"}
         /\ \A i \in 1..(at' - 1) : scans'[Order[i]].state = "complete"
<1>1. at \in 1..4 /\ k = Order[at] /\ at' = at + 1 /\ k \in Keys
  BY KeyType DEF AuditInv, Scanning, Finish, Report, k
<1>2. /\ scans' = [scans EXCEPT ![k] = [state |-> "complete", lines |-> flushed,
                                        records |-> records, indexed |-> indexed]]
      /\ pc' \in {"begin", "overlap"} /\ UNCHANGED <<exhausted, outcome>>
  BY DEF Finish, Report
<1>3. \A i \in 1..(at - 1) : scans[Order[i]].state = "complete"
  BY DEF SmoothInv
<1>4. DOMAIN scans = Keys
  BY DEF AuditInv, TypeOK
<1>5. ASSUME NEW i \in 1..at PROVE scans'[Order[i]].state = "complete"
  <2>1. CASE i = at
    BY <1>1, <1>2, <1>4, <2>1
  <2>2. CASE i < at
    <3>1. Order[i] # k /\ Order[i] \in Keys
      BY <1>1, <2>2, OrderFacts
    <3>2. scans'[Order[i]] = scans[Order[i]]
      BY <1>2, <1>4, <3>1
    <3> QED
      BY <1>1, <1>3, <2>2, <3>2
  <2> QED
    BY <1>1, <2>1, <2>2
<1> QED
  BY <1>1, <1>2, <1>5 DEF SmoothInv

LEMMA SmoothSteps ==
  ASSUME AuditInv, SmoothInv, [AuditNext]_auditVars
  PROVE  SmoothInv'
<1> SUFFICES ASSUME Smooth' PROVE SmoothInv'
  BY DEF SmoothInv
<1>1. Smooth /\ UNCHANGED <<files, lim, seen>> /\ faults' = faults /\ ~Fault
  BY SmoothBefore
<1>2. /\ ~exhausted /\ outcome # "raised"
      /\ pc \notin {"handle", "refinish"}
      /\ \A i \in 1..(at - 1) : scans[Order[i]].state = "complete"
      /\ pc \in {"close", "done"} => outcome = "checked"
      /\ seen = files
  BY <1>1 DEF SmoothInv, Smooth
<1>3. CASE OpenSpill \/ Begin \/ CheckOverlap \/ CheckAlignment \/ Close
  BY <1>2, <1>3
  DEF SmoothInv, OpenSpill, Begin, CheckOverlap, CheckAlignment, Close
<1>4. CASE TakeLine
  <2>1. stop' = Going
    BY <1>1, <1>4, LineGoesOn DEF TakeLine
  <2>2. pc' = "scan" /\ UNCHANGED <<exhausted, outcome, at, scans>>
    BY <1>4, <2>1 DEF TakeLine
  <2> QED
    BY <1>2, <2>2 DEF SmoothInv
<1>5. CASE Flush
  BY <1>2, <1>5 DEF SmoothInv, Flush, BatchAdded
<1>6. ~FlushFails
  <2>1. pc = "scan" => ~(RowCount([rows EXCEPT ![k] = Upsert(@, pending)]) > Capacity)
    BY <1>1, BatchHasRoom
  <2> QED
    BY <1>1, <1>2, <2>1 DEF FlushFails, BatchRefused
<1>7. ~NoRecords
  BY <1>1, FilledNotEmpty DEF NoRecords
<1>8. CASE Finish
  BY <1>1, <1>8, ReportSmooth DEF SmoothInv
<1>9. ~(ScanRaises \/ ContractError \/ ConsumerRaises \/ SpillRefused)
  BY <1>1, <1>2 DEF ScanRaises, ContractError, ConsumerRaises, SpillRefused
<1>10. ~(HandleFailed \/ HandleStopped \/ HandleScratchFull \/ Refinish)
  BY <1>2 DEF HandleFailed, HandleStopped, HandleScratchFull, Refinish
<1>11. CASE UNCHANGED auditVars
  BY <1>2, <1>11 DEF SmoothInv, auditVars
<1> QED
  BY <1>3, <1>4, <1>5, <1>6, <1>7, <1>8, <1>9, <1>10, <1>11 DEF AuditNext, ScanStep

LEMMA SmoothDecides ==
  ASSUME AuditInv, SmoothInv
  PROVE  UndisturbedDecides
<1> SUFFICES ASSUME pc = "done", Smooth
             PROVE  /\ outcome = "checked"
                    /\ \A x \in Experiments : Finding("SCAN_INCOMPLETE", x) \notin findings
                    /\ \E f \in findings : f.experiment = "both"
  BY DEF UndisturbedDecides, Smooth
<1>1. /\ outcome = "checked" /\ at = Len(Order) + 1
      /\ findings = OverlapFindings("baseline") \cup OverlapFindings("candidate")
                      \cup AlignmentFindings
  BY DEF AuditInv, SmoothInv, CheckInv
<1>2. \A x \in Experiments, s \in Splits : ScanComplete(<<x, s>>)
  <2> SUFFICES ASSUME NEW x \in Experiments, NEW s \in Splits
               PROVE  scans[<<x, s>>].state = "complete"
    BY DEF ScanComplete
  <2>1. PICK i \in 1..4 : Order[i] = <<x, s>>
    BY OrderFacts
  <2>2. i \in 1..(at - 1)
    BY <1>1, OrderFacts
  <2> QED
    BY <2>1, <2>2 DEF SmoothInv
<1>3. \A x \in Experiments : PairComplete(x)
  BY <1>2 DEF PairComplete, Splits
<1>4. \E rule : AlignmentFindings = {Finding(rule, "both")}
  BY <1>2 DEF AlignmentFindings, Splits
<1>5. \A x, y \in Experiments : Finding("SCAN_INCOMPLETE", x) \notin OverlapFindings(y)
  BY <1>3 DEF OverlapFindings, Finding
<1>6. \A x \in Experiments : Finding("SCAN_INCOMPLETE", x) \notin AlignmentFindings
  BY DEF AlignmentFindings, Finding
<1>7. \E f \in findings : f.experiment = "both"
  <2>1. PICK rule : AlignmentFindings = {Finding(rule, "both")}
    BY <1>4
  <2>2. Finding(rule, "both") \in findings /\ Finding(rule, "both").experiment = "both"
    BY <1>1, <2>1 DEF Finding
  <2> QED
    BY <2>2
<1> QED
  BY <1>1, <1>5, <1>6, <1>7 DEF Experiments

\* Without failures, datasets within the budgets are looked at completely and the
\* evaluations compared, for every batch size and budget.
THEOREM FittingDatasetsAreDecided == AuditSpec => []UndisturbedDecides
<1>1. AuditInit => SmoothInv
  BY OrderFacts DEF AuditInit, SmoothInv
<1>2. AuditInv /\ SmoothInv /\ [AuditNext]_auditVars => SmoothInv'
  BY SmoothSteps
<1>3. AuditInv /\ SmoothInv => UndisturbedDecides
  BY SmoothDecides
<1> QED
  BY <1>1, <1>2, <1>3, Invariance, PTL DEF AuditSpec
====
