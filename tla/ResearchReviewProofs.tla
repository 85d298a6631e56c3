-------------------------- MODULE ResearchReviewProofs --------------------------
(***************************************************************************)
(* The properties of ResearchReview hold for every checkout, configuration *)
(* and reply.  What the three reservations compute is shown by induction   *)
(* over the orders they go through; the steps then keep a plain invariant. *)
(***************************************************************************)
EXTENDS ResearchReview, FiniteSetTheorems, SequenceTheorems, WellFoundedInduction, TLAPS

-----------------------------------------------------------------------------------
(* The invariant.                                                            *)

Plans == [manifest : ManifestSet, paths : SUBSET Paths]
Excerpts == [path : Paths, claims : SUBSET ClaimChoices, citable : BOOLEAN]
Replies == [chars : Nat, whole : BOOLEAN]

\* A plan that could be made of tree t.
Usable(p, t) ==
    /\ p.manifest \in t.present
    /\ p.paths = t.declares[p.manifest] /\ p.paths # {}

TypeOK ==
    /\ config \in ConfigChoices /\ tree \in Trees
    /\ edits \in Nat /\ faults \in Nat
    /\ pc \in {"start", "plan", "extract", "audit", "evidence", "synthesize", "done"}
    /\ index \subseteq Paths /\ sources \subseteq Paths
    /\ plans \subseteq Plans /\ audits \subseteq Plans
    /\ accepted \subseteq ClaimChoices /\ rejected \in BOOLEAN
    /\ evidence \subseteq Excerpts
    /\ made \in 0..2 /\ calls \in Seq(Replies)

\* While there is no result, a call was made or not, and was whole.
Asked ==
    /\ pc \in {"start", "plan", "extract"} => made = 0 /\ calls = <<>>
    /\ pc \in {"audit", "evidence", "synthesize"} =>
         made = 1 /\ Len(calls) = 1 /\ calls[1].whole
    /\ pc = "synthesize" => config.calls >= 2
    /\ pc # "done" => status = None /\ shown = NothingShown

\* What is there at each point, and what it still says of an unedited checkout.
Gathering ==
    /\ pc \in {"start", "plan"} => plans = {}
    /\ pc \in {"start", "plan", "extract", "audit"} => audits = {}
    /\ pc \in {"start", "plan", "extract", "audit", "evidence"} => evidence = {}
    /\ edits = 0 /\ pc \notin {"start", "done"} => index = tree.present
    /\ edits = 0 /\ pc # "done" => \A p \in plans : Usable(p, tree)

Inv ==
    /\ TypeOK /\ Asked /\ Gathering
    /\ FilesWithinLimit /\ PlannedIsAudited /\ PriorityIsServed
    /\ CompleteIsWhole /\ CallsHonoured

-----------------------------------------------------------------------------------
(* Induction and recursion over an interval of numbers, for sets and functions.   *)

LEMMA LeastNumber ==
    ASSUME NEW S, S \subseteq Nat, S # {}
    PROVE  \E n \in S : \A m \in S : n <= m
<1> DEFINE Below == {p \in Nat \X Nat : p[1] < p[2]}
<1>1. IsWellFoundedOn(OpToRel(<, Nat), Nat)
  BY NatLessThanWellFounded
<1>2. OpToRel(<, Nat) = Below
  BY DEF OpToRel
<1>3. \A m, n \in Nat : <<m, n>> \notin Below => n <= m
  OBVIOUS
<1> HIDE DEF Below
<1>4. IsWellFoundedOn(Below, Nat)
  BY <1>1, <1>2
<1>5. PICK n \in S : \A m \in S : <<m, n>> \notin Below
  BY <1>4, WFMin
<1>6. \A m \in S : n <= m
  BY <1>3, <1>5
<1> QED
  BY <1>6

LEMMA Reaches ==
    ASSUME NEW N \in Nat, NEW S, 0 \in S,
           \A n \in 1..N : n - 1 \in S => n \in S
    PROVE  N \in S
<1> DEFINE Missed == (0..N) \ S
<1> SUFFICES ASSUME Missed # {} PROVE FALSE
  OBVIOUS
<1>1. Missed \subseteq Nat
  OBVIOUS
<1>2. PICK n \in Missed : \A m \in Missed : n <= m
  <2> HIDE DEF Missed
  <2> QED
    BY <1>1, LeastNumber
<1>3. n \in 1..N /\ n - 1 \notin Missed
  BY <1>2
<1> QED
  BY <1>3

LEMMA UpTo ==
    ASSUME NEW N \in Nat, NEW S, 0 \in S,
           \A n \in 1..N : n - 1 \in S => n \in S
    PROVE  \A n \in 0..N : n \in S
<1> SUFFICES ASSUME NEW n \in 0..N PROVE n \in S
  OBVIOUS
<1>1. n \in Nat /\ \A i \in 1..n : i - 1 \in S => i \in S
  OBVIOUS
<1> QED
  BY <1>1, Reaches

\* A function that starts with a and goes on as g says.
IsStep(g, N, A) == g \in [(1..N) \X A -> A]
Follows(h, g, a, N) == h[0] = a /\ \A n \in 1..N : h[n] = g[<<n, h[n - 1]>>]

LEMMA Iterates ==
    ASSUME NEW A, NEW a \in A, NEW N \in Nat, NEW g, IsStep(g, N, A)
    PROVE  \E h \in [0..N -> A] : Follows(h, g, a, N)
<1> DEFINE Start(n) == {h \in [0..n -> A] :
                          h[0] = a /\ \A i \in 1..n : h[i] = g[<<i, h[i - 1]>>]}
           S == {n \in 0..N : Start(n) # {}}
<1>1. 0 \in S
  <2>1. [i \in 0..0 |-> a] \in Start(0)
    OBVIOUS
  <2> QED
    BY <2>1
<1>2. ASSUME NEW n \in 1..N, n - 1 \in S PROVE n \in S
  <2>1. PICK h \in [0..(n - 1) -> A] :
          h[0] = a /\ \A i \in 1..(n - 1) : h[i] = g[<<i, h[i - 1]>>]
    BY <1>2
  <2> DEFINE b == g[<<n, h[n - 1]>>]
             k == [i \in 0..n |-> IF i = n THEN b ELSE h[i]]
  <2>2. h[n - 1] \in A /\ b \in A
    BY <2>1 DEF IsStep
  <2>3. \A i \in 0..(n - 1) : k[i] = h[i]
    BY <2>1
  <2>4. k[n] = g[<<n, k[n - 1]>>]
    <3>1. n \in 0..n /\ n - 1 \in 0..(n - 1)
      OBVIOUS
    <3>2. k[n] = b
      BY <3>1
    <3>3. k[n - 1] = h[n - 1]
      BY <2>3, <3>1
    <3> QED
      BY <3>2, <3>3
  <2>5. ASSUME NEW i \in 1..(n - 1) PROVE k[i] = g[<<i, k[i - 1]>>]
    <3>1. i \in 0..(n - 1) /\ i - 1 \in 0..(n - 1)
      OBVIOUS
    <3>2. h[i] = g[<<i, h[i - 1]>>]
      BY <2>1
    <3> HIDE DEF k
    <3> QED
      BY <2>3, <3>1, <3>2
  <2>6. k \in [0..n -> A]
    BY <2>1, <2>2
  <2>7. k[0] = a
    BY <2>1
  <2> HIDE DEF k
  <2>8. \A i \in 1..n : k[i] = g[<<i, k[i - 1]>>]
    <3> SUFFICES ASSUME NEW i \in 1..n PROVE k[i] = g[<<i, k[i - 1]>>]
      OBVIOUS
    <3>1. i = n \/ i \in 1..(n - 1)
      OBVIOUS
    <3> QED
      BY <2>4, <2>5, <3>1
  <2>9. k \in Start(n)
    BY <2>6, <2>7, <2>8
  <2> QED
    BY <2>9
<1>3. N \in S
  <2> HIDE DEF S
  <2> QED
    BY <1>1, <1>2, Reaches
<1> QED
  BY <1>3 DEF Follows

-----------------------------------------------------------------------------------
(* Finite sets of paths.                                                     *)

LEMMA OrdersType ==
    /\ Len(PathOrder) \in Nat /\ \A n \in 1..Len(PathOrder) : PathOrder[n] \in Paths
    /\ Len(PlanOrder) \in Nat /\ \A n \in 1..Len(PlanOrder) : PlanOrder[n] \in Paths
    /\ Len(Manifests) \in Nat /\ \A n \in 1..Len(Manifests) : Manifests[n] \in ManifestSet
    /\ ManifestSet \subseteq Paths
    /\ Paths = {PathOrder[n] : n \in 1..Len(PathOrder)}
    /\ \A p \in Paths : \E n \in 1..Len(PlanOrder) : PlanOrder[n] = p
    /\ ManifestSet = {Manifests[n] : n \in 1..Len(Manifests)}
<1>1. ManifestSet \subseteq Paths
  <2>1. Manifests \in Seq(Paths)
    BY ReviewAssumption
  <2> QED
    BY <2>1 DEF ManifestSet
<1>2. PathOrder \in Seq(Paths) /\ PlanOrder \in Seq(Paths) /\ Manifests \in Seq(Paths)
  BY ReviewAssumption
<1>3. /\ Len(PathOrder) \in Nat /\ DOMAIN PathOrder = 1..Len(PathOrder)
      /\ Len(PlanOrder) \in Nat /\ DOMAIN PlanOrder = 1..Len(PlanOrder)
      /\ Len(Manifests) \in Nat /\ DOMAIN Manifests = 1..Len(Manifests)
  BY <1>2
<1>4. \A n \in 1..Len(PlanOrder) : PlanOrder[n] \in Paths
  BY <1>2
<1>5. \A p \in Paths : \E n \in 1..Len(PlanOrder) : PlanOrder[n] = p
  BY <1>3, ReviewAssumption
<1>6. Paths = {PathOrder[n] : n \in 1..Len(PathOrder)}
  BY <1>3 DEF Paths
<1>7. ManifestSet = {Manifests[n] : n \in 1..Len(Manifests)}
  BY <1>3 DEF ManifestSet
<1> QED
  BY <1>1, <1>3, <1>4, <1>5, <1>6, <1>7

LEMMA TreeType ==
    ASSUME NEW t \in Trees
    PROVE  t.present \subseteq Paths /\ t.declares \in [ManifestSet -> SUBSET Paths]
  BY ReviewAssumption

LEMMA PathsAreFinite == IsFiniteSet(Paths)
<1> DEFINE path == [n \in 1..Len(PathOrder) |-> PathOrder[n]]
<1>1. Len(PathOrder) \in Nat /\ Paths = {PathOrder[n] : n \in 1..Len(PathOrder)}
  BY OrdersType
<1>2. path \in Surjection(1..Len(PathOrder), Paths)
  BY <1>1 DEF Surjection
<1>3. IsFiniteSet(1..Len(PathOrder))
  BY <1>1, FS_Interval
<1> QED
  BY <1>2, <1>3, FS_Surjection

\* Fewer paths take no more room.
LEMMA SubsetsFit ==
    ASSUME NEW S, S \subseteq Paths, NEW T, T \subseteq S
    PROVE  /\ IsFiniteSet(S) /\ Cardinality(S) \in Nat
           /\ Cardinality(T) \in Nat /\ Cardinality(T) <= Cardinality(S)
           /\ Cardinality(S) = Cardinality(T) => S = T
<1>1. IsFiniteSet(S)
  BY PathsAreFinite, FS_Subset
<1>2. T \in SUBSET S /\ IsFiniteSet(T)
  BY <1>1, FS_Subset
<1> QED
  BY <1>1, <1>2, FS_Subset, FS_CardinalityType

\* A path takes one place, or none if it has one.
LEMMA OnePlaceMore ==
    ASSUME NEW S, S \subseteq Paths, NEW p \in Paths
    PROVE  Cardinality(S \cup {p}) <= Cardinality(S) + 1
<1>1. IsFiniteSet(S) /\ Cardinality(S) \in Nat
  BY SubsetsFit
<1>2. Cardinality(S \cup {p}) = IF p \in S THEN Cardinality(S) ELSE Cardinality(S) + 1
  BY <1>1, FS_AddElement
<1> QED
  BY <1>1, <1>2

LEMMA FirstOfIsBounded ==
    ASSUME NEW S, S \subseteq Paths, NEW n \in Int, NEW limit \in Nat, n <= limit
    PROVE  /\ FirstOf(PathOrder, S, n) \subseteq S
           /\ Cardinality(FirstOf(PathOrder, S, n)) <= limit
<1> DEFINE Before(k) == {PathOrder[j] : j \in 1..k} \cap S
           Taken(k) == {PathOrder[i] : i \in {j \in 1..k : /\ PathOrder[j] \in S
                                                           /\ Cardinality(Before(j - 1)) < n}}
           Fine == {k \in 0..Len(PathOrder) : Cardinality(Taken(k)) <= limit}
<1>1. FirstOf(PathOrder, S, n) = Taken(Len(PathOrder))
  <2>1. DOMAIN PathOrder = 1..Len(PathOrder)
    BY ReviewAssumption
  <2> QED
    BY <2>1 DEF FirstOf
<1>2. \A k \in 0..Len(PathOrder) : Taken(k) \subseteq Before(k) /\ Before(k) \subseteq S
  OBVIOUS
<1>3. 0 \in Fine
  <2>1. Taken(0) = {}
    OBVIOUS
  <2>2. Cardinality({}) = 0
    BY FS_EmptySet
  <2>3. Cardinality(Taken(0)) <= limit
    BY <2>1, <2>2
  <2>4. 0 \in 0..Len(PathOrder)
    BY OrdersType
  <2> HIDE DEF Taken
  <2> QED
    BY <2>3, <2>4
<1>4. ASSUME NEW k \in 1..Len(PathOrder), k - 1 \in Fine PROVE k \in Fine
  <2>0. k \in 0..Len(PathOrder) /\ k - 1 \in 0..Len(PathOrder) /\ PathOrder[k] \in Paths
    BY OrdersType
  <2>1. Before(k) \subseteq Before(k - 1) \cup {PathOrder[k]} /\ Before(k - 1) \subseteq Paths
    BY <2>0
  <2>2. CASE PathOrder[k] \in S /\ Cardinality(Before(k - 1)) < n
    <3>1. Cardinality(Before(k - 1)) \in Nat
      BY <2>1, SubsetsFit
    <3>2. Cardinality(Before(k - 1) \cup {PathOrder[k]}) <= limit
      <4> HIDE DEF Before
      <4>1. Cardinality(Before(k - 1) \cup {PathOrder[k]}) <= Cardinality(Before(k - 1)) + 1
        BY <2>0, <2>1, OnePlaceMore
      <4>2. Cardinality(Before(k - 1) \cup {PathOrder[k]}) \in Nat
        BY <2>0, <2>1, SubsetsFit
      <4> QED
        BY <4>1, <4>2, <3>1, <2>2
    <3>3. Taken(k) \subseteq Before(k - 1) \cup {PathOrder[k]}
      BY <1>2, <2>0, <2>1
    <3>4. /\ Cardinality(Taken(k)) \in Nat
          /\ Cardinality(Taken(k)) <= Cardinality(Before(k - 1) \cup {PathOrder[k]})
          /\ Cardinality(Before(k - 1) \cup {PathOrder[k]}) \in Nat
      <4> HIDE DEF Before, Taken
      <4> QED
        BY <2>0, <2>1, <3>3, SubsetsFit
    <3> QED
      BY <2>0, <3>2, <3>4
  <2>3. CASE ~(PathOrder[k] \in S /\ Cardinality(Before(k - 1)) < n)
    <3>1. Taken(k) = Taken(k - 1)
      <4>1. \A j \in 1..k : j = k \/ j \in 1..(k - 1)
        OBVIOUS
      <4> HIDE DEF Before
      <4> QED
        BY <2>3, <4>1
    <3> QED
      BY <1>4, <2>0, <3>1
  <2> QED
    BY <2>2, <2>3
<1>5. Len(PathOrder) \in Fine
  <2> HIDE DEF Fine
  <2> QED
    BY <1>3, <1>4, OrdersType, Reaches
<1> QED
  BY <1>1, <1>2, <1>5, OrdersType

-----------------------------------------------------------------------------------
(* The plans.                                                                *)

PlanSteps(ps, t, R) ==
    /\ ps \in [0..Len(Manifests) -> SUBSET Plans]
    /\ ps[0] = {}
    /\ \A n \in 1..Len(Manifests) :
         ps[n] = IF Manifests[n] \in R THEN Reserve(ps[n - 1], t, Manifests[n]) ELSE ps[n - 1]

LEMMA ReserveType ==
    ASSUME NEW ps \in SUBSET Plans, NEW t \in Trees, NEW m \in ManifestSet
    PROVE  Reserve(ps, t, m) \in SUBSET Plans
<1>1. t.declares[m] \in SUBSET Paths
  BY TreeType
<1> QED
  BY <1>1 DEF Reserve, Plans

LEMMA PlanAuditsSteps ==
    ASSUME NEW t \in Trees, NEW R
    PROVE  \E ps : PlanSteps(ps, t, R) /\ PlanAudits(t, R) = ps[Len(Manifests)]
<1> DEFINE N == Len(Manifests)
           A == SUBSET Plans
           g == [x \in (1..N) \X A |->
                   IF Manifests[x[1]] \in R THEN Reserve(x[2], t, Manifests[x[1]]) ELSE x[2]]
           F(ps) == [n \in 0..N |->
                       IF n = 0 THEN {}
                       ELSE IF Manifests[n] \in R THEN Reserve(ps[n - 1], t, Manifests[n])
                       ELSE ps[n - 1]]
           ps == CHOOSE ps : ps = F(ps)
<1>1. N \in Nat /\ \A n \in 1..N : Manifests[n] \in ManifestSet
  BY OrdersType
<1>2. \A n \in 1..N, qs \in A :
        (IF Manifests[n] \in R THEN Reserve(qs, t, Manifests[n]) ELSE qs) \in A
  BY <1>1, ReserveType
<1>3. ps = F(ps)
  <2>1. g \in [(1..N) \X A -> A]
    BY <1>2
  <2>2. {} \in A
    OBVIOUS
  <2>3. PICK h \in [0..N -> A] : h[0] = {} /\ \A n \in 1..N : h[n] = g[<<n, h[n - 1]>>]
    <3> HIDE DEF g, N, A
    <3>1. IsStep(g, N, A)
      BY <2>1 DEF IsStep
    <3>2. \E h \in [0..N -> A] : Follows(h, g, {}, N)
      BY <1>1, <2>2, <3>1, Iterates
    <3> QED
      BY <3>2 DEF Follows
  <2>4. \A n \in 1..N : h[n] = IF Manifests[n] \in R THEN Reserve(h[n - 1], t, Manifests[n])
                                                     ELSE h[n - 1]
    <3> SUFFICES ASSUME NEW n \in 1..N
                 PROVE  h[n] = IF Manifests[n] \in R THEN Reserve(h[n - 1], t, Manifests[n])
                                                     ELSE h[n - 1]
      OBVIOUS
    <3>1. h[n - 1] \in A
      BY <1>1, <2>3
    <3>2. h[n] = g[<<n, h[n - 1]>>]
      BY <2>3
    <3> HIDE DEF A
    <3> QED
      BY <3>1, <3>2
  <2>5. h = F(h)
    <3>1. \A n \in 0..N : n = 0 \/ n \in 1..N
      BY <1>1
    <3> HIDE DEF g, A
    <3> QED
      BY <2>3, <2>4, <3>1
  <2> HIDE DEF F
  <2> QED
    BY <2>5
<1>4. PlanAudits(t, R) = ps[N]
  BY DEF PlanAudits
<1> HIDE DEF ps
<1>5. /\ DOMAIN ps = 0..N /\ ps[0] = {}
      /\ \A n \in 1..N :
           ps[n] = IF Manifests[n] \in R THEN Reserve(ps[n - 1], t, Manifests[n])
                                         ELSE ps[n - 1]
  <2>1. 0 \in 0..N /\ \A n \in 1..N : n \in 0..N /\ n # 0
    BY <1>1
  <2> QED
    BY <1>3, <2>1
<1>6. \A n \in 0..N : ps[n] \in A
  <2> DEFINE Typed == {n \in 0..N : ps[n] \in A}
  <2>1. 0 \in Typed
    BY <1>1, <1>5
  <2>2. ASSUME NEW n \in 1..N, n - 1 \in Typed PROVE n \in Typed
    BY <1>1, <1>2, <1>5, <2>2
  <2> HIDE DEF Typed
  <2>3. \A n \in 0..N : n \in Typed
    BY <1>1, <2>1, <2>2, UpTo
  <2> QED
    BY <2>3 DEF Typed
<1>7. ps = [n \in 0..N |-> ps[n]]
  BY <1>3
<1>8. PlanSteps(ps, t, R)
  BY <1>5, <1>6, <1>7 DEF PlanSteps
<1> QED
  BY <1>4, <1>8

\* Room is reserved for what is requested, and no more than there is.
LEMMA PlansFit ==
    ASSUME NEW t \in Trees, NEW R, config.files \in Nat
    PROVE  /\ PlanAudits(t, R) \subseteq Plans
           /\ \A p \in PlanAudits(t, R) : p.manifest \in R /\ Usable(p, t)
           /\ Cardinality(PlannedPaths(PlanAudits(t, R))) <= config.files
<1>1. PICK ps : PlanSteps(ps, t, R) /\ PlanAudits(t, R) = ps[Len(Manifests)]
  BY PlanAuditsSteps
<1> DEFINE Fine == {n \in 0..Len(Manifests) :
                      /\ \A p \in ps[n] : p.manifest \in R /\ Usable(p, t)
                      /\ Cardinality(PlannedPaths(ps[n])) <= config.files}
<1>2. 0 \in Fine
  <2>1. ps[0] = {} /\ PlannedPaths(ps[0]) = {} /\ 0 \in 0..Len(Manifests)
    BY <1>1, OrdersType DEF PlanSteps, PlannedPaths
  <2>2. Cardinality(PlannedPaths(ps[0])) = 0
    BY <2>1, FS_EmptySet
  <2>3. Cardinality(PlannedPaths(ps[0])) <= config.files
    BY <2>2
  <2>4. \A p \in ps[0] : p.manifest \in R /\ Usable(p, t)
    BY <2>1
  <2> QED
    BY <2>1, <2>3, <2>4
<1>3. ASSUME NEW n \in 1..Len(Manifests), n - 1 \in Fine PROVE n \in Fine
  <2> DEFINE m == Manifests[n]
             plan == [manifest |-> m, paths |-> t.declares[m]]
  <2>1. n \in 0..Len(Manifests) /\ n - 1 \in 0..Len(Manifests)
    BY OrdersType
  <2>2. /\ \A p \in ps[n - 1] : p.manifest \in R /\ Usable(p, t)
        /\ Cardinality(PlannedPaths(ps[n - 1])) <= config.files
    BY <1>3
  <2>3. \/ ps[n] = ps[n - 1]
        \/ /\ m \in R /\ m \in t.present /\ t.declares[m] # {}
           /\ Cardinality(PlannedPaths(ps[n - 1]) \cup t.declares[m]) <= config.files
           /\ ps[n] = ps[n - 1] \cup {plan}
    BY <1>1 DEF PlanSteps, Reserve
  <2>4. PlannedPaths(ps[n - 1] \cup {plan}) = PlannedPaths(ps[n - 1]) \cup t.declares[m]
    <3>1. plan.paths = t.declares[m]
      OBVIOUS
    <3> HIDE DEF plan
    <3> QED
      BY <3>1 DEF PlannedPaths
  <2>5. m \in t.present /\ t.declares[m] # {} => Usable(plan, t)
    BY DEF Usable
  <2>6. plan.manifest = m
    OBVIOUS
  <2> HIDE DEF m, plan
  <2>7. CASE ps[n] = ps[n - 1]
    BY <2>1, <2>2, <2>7
  <2>8. CASE /\ m \in R /\ m \in t.present /\ t.declares[m] # {}
             /\ Cardinality(PlannedPaths(ps[n - 1]) \cup t.declares[m]) <= config.files
             /\ ps[n] = ps[n - 1] \cup {plan}
    <3>1. \A p \in ps[n] : p.manifest \in R /\ Usable(p, t)
      BY <2>2, <2>5, <2>6, <2>8
    <3>2. Cardinality(PlannedPaths(ps[n])) <= config.files
      BY <2>4, <2>8
    <3> QED
      BY <2>1, <3>1, <3>2
  <2> QED
    BY <2>3, <2>7, <2>8
<1>4. Len(Manifests) \in Fine
  <2> HIDE DEF Fine
  <2> QED
    BY <1>2, <1>3, OrdersType, Reaches
<1>5. ps[Len(Manifests)] \in SUBSET Plans
  <2>1. Len(Manifests) \in 0..Len(Manifests)
    BY OrdersType
  <2> QED
    BY <1>1, <2>1 DEF PlanSteps
<1> QED
  BY <1>1, <1>4, <1>5

LEMMA PlannedPathsType ==
    ASSUME NEW ps, ps \subseteq Plans, NEW qs, qs \subseteq ps
    PROVE  PlannedPaths(ps) \subseteq Paths /\ PlannedPaths(qs) \subseteq PlannedPaths(ps)
  BY DEF PlannedPaths, Plans

\* Planning again finds room for exactly what had room before.
LEMMA PlannedAgain ==
    ASSUME NEW t \in Trees, NEW ps, ps \subseteq Plans, config.files \in Nat,
           \A p \in ps : Usable(p, t), Cardinality(PlannedPaths(ps)) <= config.files
    PROVE  PlanAudits(t, {p.manifest : p \in ps}) = ps
<1> DEFINE R == {p.manifest : p \in ps}
           N == Len(Manifests)
           Upto(n) == {p \in ps : \E j \in 1..n : p.manifest = Manifests[j]}
<1>1. PICK qs : PlanSteps(qs, t, R) /\ PlanAudits(t, R) = qs[N]
  BY PlanAuditsSteps
<1> DEFINE Fine == {n \in 0..N : qs[n] = Upto(n)}
<1>2. 0 \in Fine
  BY <1>1, OrdersType DEF PlanSteps
<1>3. ASSUME NEW n \in 1..N, n - 1 \in Fine PROVE n \in Fine
  <2> DEFINE m == Manifests[n]
             plan == [manifest |-> m, paths |-> t.declares[m]]
  <2>1. n \in 0..N /\ n - 1 \in 0..N /\ m \in ManifestSet
    BY OrdersType
  <2>2. qs[n - 1] = Upto(n - 1) /\ Upto(n - 1) \subseteq ps
    BY <1>3
  <2>3. \A j \in 1..n : j = n \/ j \in 1..(n - 1)
    OBVIOUS
  <2>4. \A p \in ps : p.manifest = m => p = plan
    BY DEF Plans, Usable
  <2>5. CASE m \in R
    <3>1. plan \in ps /\ Usable(plan, t)
      BY <2>4, <2>5
    <3>2. Upto(n) = Upto(n - 1) \cup {plan}
      BY <2>3, <2>4, <3>1
    <3>3. PlannedPaths(Upto(n - 1)) \cup t.declares[m] \subseteq PlannedPaths(ps)
      BY <3>1 DEF PlannedPaths
    <3>4. Cardinality(PlannedPaths(Upto(n - 1)) \cup t.declares[m]) <= config.files
      <4> HIDE DEF Upto, m
      <4>1. PlannedPaths(ps) \subseteq Paths
        BY PlannedPathsType
      <4>2. /\ Cardinality(PlannedPaths(Upto(n - 1)) \cup t.declares[m])
                 <= Cardinality(PlannedPaths(ps))
            /\ Cardinality(PlannedPaths(Upto(n - 1)) \cup t.declares[m]) \in Nat
            /\ Cardinality(PlannedPaths(ps)) \in Nat
        BY <4>1, <3>3, SubsetsFit
      <4> QED
        BY <4>2
    <3>5. qs[n] = qs[n - 1] \cup {plan}
      <4>1. m \in t.present /\ t.declares[m] # {}
        BY <3>1 DEF Usable
      <4>2. qs[n] = Reserve(qs[n - 1], t, m)
        BY <1>1, <2>5 DEF PlanSteps
      <4> HIDE DEF Upto, m
      <4> QED
        BY <2>2, <3>4, <4>1, <4>2 DEF Reserve
    <3> QED
      BY <2>1, <2>2, <3>2, <3>5
  <2>6. CASE m \notin R
    <3>1. Upto(n) = Upto(n - 1)
      BY <2>3, <2>6
    <3>2. qs[n] = qs[n - 1]
      BY <1>1, <2>6 DEF PlanSteps
    <3> QED
      BY <2>1, <2>2, <3>1, <3>2
  <2> QED
    BY <2>5, <2>6
<1>4. N \in Fine
  <2> HIDE DEF Fine
  <2> QED
    BY <1>2, <1>3, OrdersType, Reaches
<1>5. Upto(N) = ps
  <2>1. \A p \in ps : \E j \in 1..N : p.manifest = Manifests[j]
    BY OrdersType DEF Plans
  <2> QED
    BY <2>1
<1> QED
  BY <1>1, <1>4, <1>5

-----------------------------------------------------------------------------------
(* The files left for the first call.                                        *)

\* Documents are kept while there is room beside the plans.
LEMMA KeptFits ==
    ASSUME NEW ps, ps \subseteq Plans, config.files \in Nat, sources \subseteq Paths,
           Cardinality(PlannedPaths(ps)) <= config.files
    PROVE  /\ Kept(ps) \subseteq Paths
           /\ Cardinality(Kept(ps) \cup PlannedPaths(ps)) <= config.files
<1> DEFINE N == Len(PathOrder)
           A == SUBSET Paths
           Fitting(kept, p) ==
              /\ p \in sources
              /\ \/ p \in PlannedPaths(ps)
                 \/ Cardinality(PlannedPaths(ps) \cup kept) < config.files
           Step(kept, p) == IF Fitting(kept, p) THEN kept \cup {p} ELSE kept
           g == [x \in (1..N) \X A |-> Step(x[2], PathOrder[x[1]])]
           F(kept) == [n \in 0..N |-> IF n = 0 THEN {}
                                      ELSE IF Fitting(kept[n - 1], PathOrder[n])
                                        THEN kept[n - 1] \cup {PathOrder[n]}
                                      ELSE kept[n - 1]]
           kept == CHOOSE kept : kept = F(kept)
<1>1. N \in Nat /\ \A n \in 1..N : PathOrder[n] \in Paths
  BY OrdersType
<1>2. \A n \in 1..N, K \in A : Step(K, PathOrder[n]) \in A
  BY <1>1
<1>3. kept = F(kept)
  <2> HIDE DEF Step
  <2>1. g \in [(1..N) \X A -> A]
    BY <1>2
  <2>2. {} \in A
    OBVIOUS
  <2>3. PICK h \in [0..N -> A] : h[0] = {} /\ \A n \in 1..N : h[n] = g[<<n, h[n - 1]>>]
    <3> HIDE DEF g, N, A
    <3>1. IsStep(g, N, A)
      BY <2>1 DEF IsStep
    <3>2. \E h \in [0..N -> A] : Follows(h, g, {}, N)
      BY <1>1, <2>2, <3>1, Iterates
    <3> QED
      BY <3>2 DEF Follows
  <2>4. \A n \in 1..N : h[n] = Step(h[n - 1], PathOrder[n])
    <3> SUFFICES ASSUME NEW n \in 1..N PROVE h[n] = Step(h[n - 1], PathOrder[n])
      OBVIOUS
    <3>1. h[n - 1] \in A
      BY <1>1, <2>3
    <3>2. h[n] = g[<<n, h[n - 1]>>]
      BY <2>3
    <3> HIDE DEF A
    <3> QED
      BY <3>1, <3>2
  <2>5. h = F(h)
    <3>1. \A n \in 0..N : n = 0 \/ n \in 1..N
      BY <1>1
    <3> HIDE DEF g, A, Fitting
    <3> QED
      BY <2>3, <2>4, <3>1 DEF Step
  <2> HIDE DEF F
  <2> QED
    BY <2>5
<1>4. Kept(ps) = kept[N]
  BY DEF Kept
<1> HIDE DEF kept
<1>5. kept[0] = {} /\ \A n \in 1..N : kept[n] = Step(kept[n - 1], PathOrder[n])
  <2>1. 0 \in 0..N /\ \A n \in 1..N : n \in 0..N /\ n # 0
    BY <1>1
  <2> HIDE DEF Fitting
  <2> QED
    BY <1>3, <2>1
<1> DEFINE P == PlannedPaths(ps)
           Fine == {n \in 0..N : /\ kept[n] \subseteq Paths
                                 /\ Cardinality(P \cup kept[n]) <= config.files}
<1>6. P \subseteq Paths
  BY PlannedPathsType
<1>7. 0 \in Fine
  <2>1. kept[0] = {}
    BY <1>5
  <2>2. P \cup kept[0] = P
    BY <2>1
  <2>3. Cardinality(P \cup kept[0]) <= config.files
    BY <2>2
  <2>4. 0 \in 0..N
    BY <1>1
  <2> QED
    BY <2>1, <2>3, <2>4
<1>8. ASSUME NEW n \in 1..N, n - 1 \in Fine PROVE n \in Fine
  <2> DEFINE K == kept[n - 1]
             p == PathOrder[n]
  <2>1. n \in 0..N /\ p \in Paths /\ kept[n] = Step(K, p)
    <3> HIDE DEF Step
    <3> QED
      BY <1>1, <1>5
  <2>2. K \subseteq Paths /\ Cardinality(P \cup K) <= config.files
    BY <1>8
  <2> HIDE DEF K, p, P
  <2>3. CASE ~Fitting(K, p)
    BY <2>1, <2>2, <2>3
  <2>4. CASE Fitting(K, p)
    <3>1. kept[n] = K \cup {p}
      BY <2>1, <2>4
    <3>2. P \cup (K \cup {p}) = (P \cup K) \cup {p}
      OBVIOUS
    <3>3. Cardinality((P \cup K) \cup {p}) <= config.files
      <4>1. CASE p \in P
        <5>1. (P \cup K) \cup {p} = P \cup K
          BY <4>1
        <5> QED
          BY <2>2, <5>1
      <4>2. CASE p \notin P
        <5>1. Cardinality(P \cup K) < config.files
          BY <2>4, <4>2 DEF P
        <5>2. Cardinality(P \cup K) \in Nat /\ Cardinality((P \cup K) \cup {p}) \in Nat
          BY <1>6, <2>1, <2>2, SubsetsFit
        <5>3. Cardinality((P \cup K) \cup {p}) <= Cardinality(P \cup K) + 1
          BY <1>6, <2>1, <2>2, OnePlaceMore
        <5> QED
          BY <5>1, <5>2, <5>3
      <4> QED
        BY <4>1, <4>2
    <3> QED
      BY <2>1, <2>2, <3>1, <3>2, <3>3
  <2> QED
    BY <2>3, <2>4
<1>9. N \in Fine
  <2> HIDE DEF Fine, N
  <2> QED
    BY <1>1, <1>7, <1>8, Reaches
<1>10. P \cup kept[N] = kept[N] \cup P
  OBVIOUS
<1> QED
  BY <1>4, <1>9, <1>10

-----------------------------------------------------------------------------------
(* The evidence.                                                             *)

PathsOf(refs) == {r.path : r \in refs}
AddTo(refs, p, S) == IF p \in S /\ Fits(refs, p) THEN refs \cup {Excerpt(p)} ELSE refs
IsOrder(s) == Len(s) \in Nat /\ \A n \in 1..Len(s) : s[n] \in Paths

GatherSteps(refs, start, s, S) ==
    /\ refs[0] = start
    /\ \A n \in 1..Len(s) : refs[n] = AddTo(refs[n - 1], s[n], S)

LEMMA ExcerptType ==
    ASSUME NEW p \in Paths, accepted \subseteq ClaimChoices
    PROVE  Excerpt(p) \in Excerpts /\ Excerpt(p).path = p
  BY DEF Excerpt, Excerpts

LEMMA AddToType ==
    ASSUME NEW refs \in SUBSET Excerpts, NEW p \in Paths, NEW S, accepted \subseteq ClaimChoices
    PROVE  AddTo(refs, p, S) \in SUBSET Excerpts
  BY ExcerptType DEF AddTo

LEMMA GatherIsStepwise ==
    ASSUME NEW s, IsOrder(s), NEW S, NEW start \in SUBSET Excerpts,
           accepted \subseteq ClaimChoices
    PROVE  \E refs : GatherSteps(refs, start, s, S) /\ Gather(start, s, S) = refs[Len(s)]
<1> DEFINE N == Len(s)
           A == SUBSET Excerpts
           g == [x \in (1..N) \X A |-> AddTo(x[2], s[x[1]], S)]
           F(refs) == [n \in 0..N |-> IF n = 0 THEN start
                                      ELSE IF s[n] \in S /\ Fits(refs[n - 1], s[n])
                                        THEN refs[n - 1] \cup {Excerpt(s[n])}
                                      ELSE refs[n - 1]]
           refs == CHOOSE refs : refs = F(refs)
<1>1. N \in Nat /\ \A n \in 1..N : s[n] \in Paths
  BY DEF IsOrder
<1>2. \A n \in 1..N, x \in A : AddTo(x, s[n], S) \in A
  BY <1>1, AddToType
<1>3. refs = F(refs)
  <2>1. g \in [(1..N) \X A -> A]
    BY <1>2
  <2>3. PICK h \in [0..N -> A] : h[0] = start /\ \A n \in 1..N : h[n] = g[<<n, h[n - 1]>>]
    <3> HIDE DEF g, N, A
    <3>1. IsStep(g, N, A)
      BY <2>1 DEF IsStep
    <3>2. start \in A
      BY DEF A
    <3>3. \E h \in [0..N -> A] : Follows(h, g, start, N)
      BY <1>1, <3>1, <3>2, Iterates
    <3> QED
      BY <3>3 DEF Follows
  <2>4. \A n \in 1..N : h[n] = AddTo(h[n - 1], s[n], S)
    <3> SUFFICES ASSUME NEW n \in 1..N PROVE h[n] = AddTo(h[n - 1], s[n], S)
      OBVIOUS
    <3>1. h[n - 1] \in A
      BY <1>1, <2>3
    <3>2. h[n] = g[<<n, h[n - 1]>>]
      BY <2>3
    <3> HIDE DEF A
    <3> QED
      BY <3>1, <3>2
  <2>5. h = F(h)
    <3>1. \A n \in 0..N : n = 0 \/ n \in 1..N
      BY <1>1
    <3> HIDE DEF g, A
    <3> QED
      BY <2>3, <2>4, <3>1 DEF AddTo
  <2> HIDE DEF F
  <2> QED
    BY <2>5
<1>4. Gather(start, s, S) = refs[N]
  BY DEF Gather
<1> HIDE DEF refs
<1>5. refs[0] = start /\ \A n \in 1..N : refs[n] = AddTo(refs[n - 1], s[n], S)
  <2>1. 0 \in 0..N /\ \A n \in 1..N : n \in 0..N /\ n # 0
    BY <1>1
  <2> QED
    BY <1>3, <2>1 DEF AddTo
<1> QED
  BY <1>4, <1>5 DEF GatherSteps

\* What is gathered keeps what was there, holds excerpts only and costs no place
\* that there is not.
LEMMA GatherFits ==
    ASSUME NEW s, IsOrder(s), NEW S, NEW start \in SUBSET Excerpts,
           accepted \subseteq ClaimChoices, config.files \in Nat, Spent \subseteq Paths,
           Cardinality(Spent \cup PathsOf(start)) <= config.files
    PROVE  /\ start \subseteq Gather(start, s, S) /\ Gather(start, s, S) \subseteq Excerpts
           /\ Cardinality(Spent \cup PathsOf(Gather(start, s, S))) <= config.files
<1> DEFINE N == Len(s)
<1>1. PICK refs : GatherSteps(refs, start, s, S) /\ Gather(start, s, S) = refs[N]
  BY GatherIsStepwise
<1> DEFINE Fine == {n \in 0..N :
                      /\ start \subseteq refs[n] /\ refs[n] \subseteq Excerpts
                      /\ Cardinality(Spent \cup PathsOf(refs[n])) <= config.files}
<1>2. N \in Nat /\ \A n \in 1..N : s[n] \in Paths
  BY DEF IsOrder
<1>3. 0 \in Fine
  <2>1. refs[0] = start
    BY <1>1 DEF GatherSteps
  <2>2. Cardinality(Spent \cup PathsOf(refs[0])) <= config.files
    BY <2>1
  <2>3. start \subseteq refs[0] /\ refs[0] \subseteq Excerpts /\ 0 \in 0..N
    BY <1>2, <2>1
  <2> QED
    BY <2>2, <2>3
<1>4. ASSUME NEW n \in 1..N, n - 1 \in Fine PROVE n \in Fine
  <2> DEFINE R == refs[n - 1]
             p == s[n]
             P == Spent \cup PathsOf(R)
  <2>1. n \in 0..N /\ p \in Paths /\ refs[n] = AddTo(R, p, S)
    BY <1>1, <1>2 DEF GatherSteps
  <2>2. start \subseteq R /\ R \subseteq Excerpts /\ Cardinality(P) <= config.files
    BY <1>4
  <2>3. P \subseteq Paths
    BY <2>2 DEF PathsOf, Excerpts
  <2> HIDE DEF R, p
  <2>4. CASE refs[n] = R
    BY <2>1, <2>2, <2>4
  <2>5. CASE Fits(R, p) /\ refs[n] = R \cup {Excerpt(p)}
    <3>1. Excerpt(p) \in Excerpts /\ Excerpt(p).path = p
      BY <2>1, ExcerptType
    <3>2. Spent \cup PathsOf(refs[n]) = P \cup {p}
      <4> HIDE DEF R, p
      <4> QED
        BY <2>5, <3>1 DEF PathsOf
    <3>3. Cardinality(P \cup {p}) <= config.files
      <4>1. CASE p \in Spent
        <5>1. P \cup {p} = P
          BY <4>1
        <5> QED
          BY <2>2, <5>1
      <4>2. CASE p \notin Spent
        <5>1. Cardinality(P) < config.files
          BY <2>5, <4>2 DEF Fits, PathsOf
        <5> HIDE DEF P
        <5>2. Cardinality(P) \in Nat /\ Cardinality(P \cup {p}) \in Nat
          BY <2>1, <2>3, SubsetsFit
        <5>3. Cardinality(P \cup {p}) <= Cardinality(P) + 1
          BY <2>1, <2>3, OnePlaceMore
        <5> QED
          BY <5>1, <5>2, <5>3
      <4> QED
        BY <4>1, <4>2
    <3>4. start \subseteq refs[n] /\ refs[n] \subseteq Excerpts
      BY <2>2, <2>5, <3>1
    <3> QED
      BY <2>1, <3>2, <3>3, <3>4
  <2> QED
    BY <2>1, <2>4, <2>5 DEF AddTo
<1>5. N \in Fine
  <2> HIDE DEF Fine, N
  <2> QED
    BY <1>2, <1>3, <1>4, Reaches
<1> QED
  BY <1>1, <1>5

\* If there is a place and context for every member of S, every one is excerpted.
LEMMA GatherServes ==
    ASSUME NEW S, S \subseteq Spent, S \subseteq tree.present, S \subseteq Paths,
           accepted \subseteq ClaimChoices, config.context \in Nat,
           Cardinality(S) <= config.context
    PROVE  \A p \in S : Excerpt(p) \in Gather({}, PlanOrder, S)
<1> DEFINE N == Len(PlanOrder)
           Before(n) == {p \in S : \E j \in 1..n : PlanOrder[j] = p}
           Excerpted(T) == {Excerpt(p) : p \in T}
<1>1. N \in Nat /\ IsOrder(PlanOrder)
  BY OrdersType DEF IsOrder
<1>2. PICK refs : GatherSteps(refs, {}, PlanOrder, S) /\ Gather({}, PlanOrder, S) = refs[N]
  BY <1>1, GatherIsStepwise
<1> DEFINE Fine == {n \in 0..N : refs[n] = Excerpted(Before(n))}
<1>3. 0 \in Fine
  <2>1. refs[0] = {}
    BY <1>2 DEF GatherSteps
  <2>2. Before(0) = {}
    OBVIOUS
  <2> QED
    BY <1>1, <2>1, <2>2
<1>4. ASSUME NEW n \in 1..N, n - 1 \in Fine PROVE n \in Fine
  <2> DEFINE p == PlanOrder[n]
             B == Before(n - 1)
  <2>1. n \in 0..N /\ refs[n] = AddTo(refs[n - 1], p, S)
    BY <1>1, <1>2 DEF GatherSteps
  <2>2. refs[n - 1] = Excerpted(B)
    BY <1>4
  <2>3. \A j \in 1..n : j = n \/ j \in 1..(n - 1)
    OBVIOUS
  <2>4. CASE p \notin S
    <3>1. Before(n) = B
      BY <2>3, <2>4
    <3>2. refs[n] = refs[n - 1]
      BY <2>1, <2>4 DEF AddTo
    <3> QED
      BY <2>1, <2>2, <3>1, <3>2
  <2>5. CASE p \in S
    <3>1. Before(n) = B \cup {p}
      BY <2>3, <2>5
    <3>2. Excerpted(Before(n)) = Excerpted(B) \cup {Excerpt(p)}
      BY <3>1
    <3>3. CASE p \in B
      <4> HIDE DEF Before, p
      <4> QED
        BY <2>1, <2>2, <3>1, <3>2, <3>3 DEF AddTo
    <3>4. CASE p \notin B
      <4>1. B \subseteq S \ {p} /\ IsFiniteSet(B)
        <5>1. B \subseteq S
          OBVIOUS
        <5> HIDE DEF Before
        <5> QED
          BY <3>4, <5>1, SubsetsFit
      <4>2. Cardinality(Excerpted(B)) < config.context
        <5> HIDE DEF Before, p
        <5>1. [x \in B |-> Excerpt(x)] \in Surjection(B, Excerpted(B))
          BY DEF Surjection
        <5>2. IsFiniteSet(Excerpted(B)) /\ Cardinality(Excerpted(B)) <= Cardinality(B)
          <6> HIDE DEF Excerpted
          <6> QED
            BY <4>1, <5>1, FS_Surjection
        <5>3. Cardinality(B) < Cardinality(S)
          <6>1. B \subseteq S /\ B # S
            BY <2>5, <4>1
          <6>2. /\ Cardinality(B) \in Nat /\ Cardinality(S) \in Nat
                /\ Cardinality(B) <= Cardinality(S) /\ Cardinality(B) # Cardinality(S)
            BY <6>1, SubsetsFit
          <6> QED
            BY <6>2
        <5>4. /\ Cardinality(Excerpted(B)) \in Nat /\ Cardinality(B) \in Nat
              /\ Cardinality(S) \in Nat
          BY <4>1, <5>2, FS_CardinalityType, SubsetsFit
        <5> QED
          BY <5>2, <5>3, <5>4
      <4>3. Fits(refs[n - 1], p)
        <5> HIDE DEF Before, p, Excerpted
        <5> QED
          BY <2>2, <2>5, <4>2 DEF Fits
      <4> HIDE DEF Before, p, Excerpted
      <4> QED
        BY <2>1, <2>2, <2>5, <3>2, <4>3 DEF AddTo
    <3> QED
      BY <3>3, <3>4
  <2> QED
    BY <2>4, <2>5
<1>5. N \in Fine
  <2> HIDE DEF Fine, N
  <2> QED
    BY <1>1, <1>3, <1>4, Reaches
<1>6. Before(N) = S
  BY OrdersType
<1> QED
  BY <1>2, <1>5, <1>6

-----------------------------------------------------------------------------------
(* The steps.                                                                *)

LEMMA ConfigType ==
    ASSUME config \in ConfigChoices
    PROVE  /\ config.enabled \in BOOLEAN /\ config.calls \in 1..2
           /\ config.files \in Nat /\ config.context \in Nat /\ config.output \in Nat
  BY ReviewAssumption

LEMMA BoundsType == MaxEdits \in Nat /\ MaxFaults \in Nat /\ MaxChars \in Nat
  BY ReviewAssumption

\* The calls, whatever they answer.
Calls ==
    \/ ExtractRaises \/ ExtractIncomplete \/ ExtractUnusable \/ ExtractClaims
    \/ SynthesisRaises \/ SynthesisIncomplete \/ SynthesisTooLong \/ SynthesisInvalid
    \/ SynthesisAccepted

LEMMA SpentType ==
    ASSUME TypeOK
    PROVE  /\ BundlePaths \subseteq PlannedPaths(plans) /\ PlannedPaths(plans) \subseteq Paths
           /\ Spent \subseteq Paths /\ First \subseteq BundlePaths \cap index
<1>1. {p \in plans : \E a \in audits : a.manifest = p.manifest} \subseteq plans
  OBVIOUS
<1>2. BundlePaths \subseteq PlannedPaths(plans) /\ PlannedPaths(plans) \subseteq Paths
  <2>1. plans \subseteq Plans
    BY DEF TypeOK
  <2> QED
    BY <1>1, <2>1, PlannedPathsType DEF BundlePaths
<1>3. First \subseteq BundlePaths \cap index
  BY DEF First, Priority
<1> QED
  BY <1>2, <1>3 DEF Spent, TypeOK

LEMMA LostType ==
    ASSUME NEW t \in Trees, NEW R, config.files \in Nat, NEW lost \in SUBSET PlanAudits(t, R)
    PROVE  Cardinality(lost) \in Nat /\ (Cardinality(lost) = 0 <=> lost = {})
<1> DEFINE plan == [m \in ManifestSet |-> [manifest |-> m, paths |-> t.declares[m]]]
           made_ == {plan[m] : m \in ManifestSet}
<1>1. IsFiniteSet(ManifestSet)
  BY OrdersType, SubsetsFit
<1>2. plan \in Surjection(ManifestSet, made_)
  BY DEF Surjection
<1>3. IsFiniteSet(made_)
  <2> HIDE DEF plan, made_
  <2> QED
    BY <1>1, <1>2, FS_Surjection
<1>4. lost \subseteq made_
  <2> SUFFICES ASSUME NEW p \in lost PROVE p = plan[p.manifest] /\ p.manifest \in ManifestSet
    OBVIOUS
  <2>1. p \in Plans /\ Usable(p, t)
    BY PlansFit
  <2> QED
    BY <2>1 DEF Plans, Usable
<1>5. IsFiniteSet(lost)
  <2> HIDE DEF made_
  <2> QED
    BY <1>3, <1>4, FS_Subset
<1> QED
  BY <1>5, FS_CardinalityType, FS_EmptySet

LEMMA GatheredFits ==
    ASSUME TypeOK, Cardinality(Spent) <= config.files
    PROVE  /\ Gathered \subseteq Excerpts
           /\ Cardinality(Spent \cup PathsOf(Gathered)) <= config.files
           /\ Gather({}, PlanOrder, First) \subseteq Gathered
<1>1. IsOrder(PathOrder) /\ IsOrder(PlanOrder)
  BY OrdersType DEF IsOrder
<1>2. accepted \subseteq ClaimChoices /\ config.files \in Nat /\ Spent \subseteq Paths
  BY ConfigType, SpentType DEF TypeOK
<1>3. Spent \cup PathsOf({}) = Spent
  BY DEF PathsOf
<1> DEFINE some == Gather({}, PlanOrder, First)
<1>4. some \in SUBSET Excerpts /\ Cardinality(Spent \cup PathsOf(some)) <= config.files
  BY <1>1, <1>2, <1>3, GatherFits
<1>5. Gathered = Gather(some, PathOrder, Rest)
  BY DEF Gathered
<1>6. /\ some \subseteq Gather(some, PathOrder, Rest)
      /\ Gather(some, PathOrder, Rest) \subseteq Excerpts
      /\ Cardinality(Spent \cup PathsOf(Gather(some, PathOrder, Rest))) <= config.files
  <2> HIDE DEF some
  <2> QED
    BY <1>1, <1>2, <1>4, GatherFits
<1> QED
  BY <1>5, <1>6

LEMMA RelevantFits ==
    ASSUME tree \in Trees, config.files \in Nat
    PROVE  /\ Relevant(PlanAudits(tree, Discovered)) \subseteq Plans
           /\ Cardinality(PlannedPaths(Relevant(PlanAudits(tree, Discovered)))) <= config.files
           /\ \A p \in Relevant(PlanAudits(tree, Discovered)) : Usable(p, tree)
<1> DEFINE all == PlanAudits(tree, Discovered)
<1>1. /\ all \subseteq Plans /\ \A p \in all : Usable(p, tree)
      /\ Cardinality(PlannedPaths(all)) <= config.files
  BY PlansFit
<1>2. Relevant(all) \subseteq all
  BY DEF Relevant
<1> HIDE DEF all
<1>3. PlannedPaths(all) \subseteq Paths /\ PlannedPaths(Relevant(all)) \subseteq PlannedPaths(all)
  BY <1>1, <1>2, PlannedPathsType
<1>4. /\ Cardinality(PlannedPaths(Relevant(all))) <= Cardinality(PlannedPaths(all))
      /\ Cardinality(PlannedPaths(Relevant(all))) \in Nat
      /\ Cardinality(PlannedPaths(all)) \in Nat
  BY <1>3, SubsetsFit
<1>5. Cardinality(PlannedPaths(Relevant(all))) <= config.files
  BY <1>1, <1>4
<1> QED
  BY <1>1, <1>2, <1>5 DEF all

\* What the plans leave is enough for what the audits consumed.
LEMMA SpentFits ==
    ASSUME TypeOK, FilesWithinLimit
    PROVE  Cardinality(Spent) <= config.files
<1>1. Spent \subseteq sources \cup PlannedPaths(plans) /\ sources \cup PlannedPaths(plans) \subseteq Paths
  BY SpentType DEF Spent, TypeOK
<1>2. Cardinality(sources \cup PlannedPaths(plans)) <= config.files
  BY DEF FilesWithinLimit
<1>3. config.files \in Nat
  BY ConfigType DEF TypeOK
<1> DEFINE all == sources \cup PlannedPaths(plans)
<1>4. /\ Cardinality(Spent) \in Nat /\ Cardinality(all) \in Nat
      /\ Cardinality(Spent) <= Cardinality(all)
  <2> HIDE DEF all
  <2>1. all \subseteq Paths /\ Spent \subseteq all
    BY <1>1 DEF all
  <2> QED
    BY <2>1, SubsetsFit
<1> QED
  BY <1>2, <1>3, <1>4

LEMMA Appended ==
    ASSUME NEW A, NEW s \in Seq(A), NEW x \in A, Len(s) = 1
    PROVE  /\ Len(Append(s, x)) = 2
           /\ Append(s, x)[1] = s[1] /\ Append(s, x)[2] = x
<1>1. Len(Append(s, x)) = Len(s) + 1
  BY AppendProperties
<1>2. \A i \in 1..Len(s) : Append(s, x)[i] = s[i]
  BY AppendProperties
<1>3. Append(s, x)[Len(s) + 1] = x
  BY AppendProperties
<1> QED
  BY <1>1, <1>2, <1>3

LEMMA SecondReply ==
    ASSUME calls \in Seq(Replies), Len(calls) = 1, NEW x
    PROVE  /\ Len(Append(calls, x)) = 2
           /\ Append(calls, x)[1] = calls[1] /\ Append(calls, x)[2] = x
<1> DEFINE R == Replies \cup {x}
<1>1. calls \in Seq(R) /\ x \in R
  OBVIOUS
<1> HIDE DEF R
<1> QED
  BY <1>1, Appended

LEMMA InitHolds == Init => Inv
<1> SUFFICES ASSUME Init PROVE Inv
  OBVIOUS
<1>1. config.files \in Nat /\ config.calls \in 1..2
  BY ConfigType DEF Init
<1>2. TypeOK
  <2>1. calls = <<>> /\ <<>> \in Seq(Replies)
    BY DEF Init
  <2>2. /\ config \in ConfigChoices /\ tree \in Trees /\ edits \in Nat /\ faults \in Nat
        /\ pc = "start" /\ rejected = FALSE /\ made = 0
    BY DEF Init
  <2>3. /\ index = {} /\ sources = {} /\ plans = {} /\ audits = {} /\ accepted = {}
        /\ evidence = {}
    BY DEF Init
  <2> QED
    <3>1. rejected \in BOOLEAN
      BY <2>2
    <3>3. calls \in Seq(Replies) /\ made \in 0..2
      BY <2>1, <2>2
    <3>2. /\ index \subseteq Paths /\ sources \subseteq Paths
          /\ plans \subseteq Plans /\ audits \subseteq Plans
          /\ accepted \subseteq ClaimChoices
          /\ evidence \subseteq Excerpts
      BY <2>3
    <3> QED
      BY <2>2, <3>1, <3>2, <3>3 DEF TypeOK
<1>7. Asked /\ Gathering
  BY DEF Init, Asked, Gathering
<1>3. FilesWithinLimit
  <2>1. sources \cup PlannedPaths(plans) = {}
    BY DEF Init, PlannedPaths
  <2>2. sources \cup (BundlePaths \cap index) \cup EvidencePaths = {}
    BY DEF Init, EvidencePaths
  <2>3. audits = {}
    BY DEF Init
  <2>4. Cardinality({}) <= config.files
    BY <1>1, FS_EmptySet
  <2>5. /\ Cardinality(sources \cup PlannedPaths(plans)) <= config.files
        /\ Cardinality(sources \cup (BundlePaths \cap index) \cup EvidencePaths)
             <= config.files
    BY <2>1, <2>2, <2>4
  <2> QED
    BY <2>3, <2>5 DEF FilesWithinLimit
<1>4. PlannedIsAudited /\ PriorityIsServed
  BY DEF Init, PlannedIsAudited, PriorityIsServed, Searched, None
<1>5. CompleteIsWhole
  BY DEF Init, CompleteIsWhole, NothingShown, None
<1>6. CallsHonoured
  BY <1>1 DEF Init, CallsHonoured, None
<1> QED
  BY <1>2, <1>3, <1>4, <1>5, <1>6, <1>7 DEF Inv

LEMMA RecordType ==
    ASSUME NEW chars \in Nat, NEW whole \in BOOLEAN, Record(chars, whole), calls \in Seq(Replies)
    PROVE  calls' \in Seq(Replies) /\ Len(calls') = Len(calls) + 1
           /\ calls'[Len(calls) + 1] = [chars |-> chars, whole |-> whole]
           /\ \A i \in 1..Len(calls) : calls'[i] = calls[i]
  BY DEF Record, Replies

LEMMA TypeOKKept == Inv /\ [Next]_vars => TypeOK'
<1> SUFFICES ASSUME Inv, [Next]_vars PROVE TypeOK'
  OBVIOUS
<1>1. TypeOK /\ Asked
  BY DEF Inv
<1>2. config.files \in Nat /\ config.context \in Nat /\ config.output \in Nat
  BY <1>1, ConfigType DEF TypeOK
<1>3. CASE UNCHANGED vars
  BY <1>1, <1>3 DEF TypeOK, vars, given, gathered, outcome
<1>4. CASE Edit
  BY <1>1, <1>4 DEF TypeOK, Edit, given, gathered, outcome
<1>5. CASE Raises \/ Disabled
  BY <1>1, <1>5, BoundsType DEF TypeOK, Raises, Disabled, Faults, Fail, End, given, gathered, outcome
<1>6. CASE Collect
  <2>1. tree.present \subseteq Paths
    BY <1>1, TreeType DEF TypeOK
  <2>2. FirstOf(PathOrder, Documents \cap changed \cap tree.present,
                Least(config.files, config.context - 1)) \subseteq Paths
    <3>1. Documents \cap changed \cap tree.present \subseteq Paths
      BY <2>1
    <3>2. /\ Least(config.files, config.context - 1) \in Int
          /\ Least(config.files, config.context - 1) <= config.files
      BY <1>2 DEF Least
    <3> QED
      BY <1>2, <3>1, <3>2, FirstOfIsBounded
  <2> QED
    BY <1>1, <1>6, <2>1, <2>2 DEF TypeOK, Collect, given, outcome
<1>7. CASE Plan
  <2> DEFINE ps == Relevant(PlanAudits(tree, Discovered))
  <2>1. ps \subseteq Plans /\ Cardinality(PlannedPaths(ps)) <= config.files
    BY <1>1, <1>2, RelevantFits DEF TypeOK
  <2>2. Kept(ps) \subseteq Paths
    <3> HIDE DEF ps
    <3> QED
      BY <1>1, <1>2, <2>1, KeptFits DEF TypeOK
  <2>3. plans' = ps /\ sources' = Kept(ps)
    BY <1>7 DEF Plan
  <2>4. pc' \in {"done", "extract"}
    BY <1>7 DEF Plan, End
  <2>5. UNCHANGED <<given, tree, edits, faults, index, accepted, rejected, audits,
                    evidence, made, calls>>
    BY <1>7 DEF Plan
  <2> HIDE DEF ps
  <2> QED
    BY <1>1, <2>1, <2>2, <2>3, <2>4, <2>5 DEF TypeOK, given
<1>8. CASE Calls
  <2>1. /\ UNCHANGED <<given, tree, edits, faults, gathered, audits, evidence>>
        /\ accepted' = accepted \/ accepted' \subseteq ClaimChoices
        /\ rejected' = rejected \/ rejected' \in BOOLEAN
        /\ pc \in {"extract", "synthesize"} /\ pc' \in {"done", "audit"}
        /\ made' = made + 1
    BY <1>8 DEF Calls, ExtractRaises, ExtractIncomplete, ExtractUnusable, ExtractClaims,
         SynthesisRaises, SynthesisIncomplete, SynthesisTooLong, SynthesisInvalid,
         SynthesisAccepted, Fail, End
  <2>2. made' \in 0..2
    BY <1>1, <2>1 DEF Asked
  <2>3. \/ calls' = calls
        \/ \E chars \in Nat, whole \in BOOLEAN : Record(chars, whole)
    <3>1. pc = "synthesize" => calls[1].chars \in Nat
      <4>1. pc = "synthesize" => calls[1] \in Replies
        <5>1. calls \in Seq(Replies) /\ (pc = "synthesize" => Len(calls) = 1)
          BY <1>1 DEF Asked, TypeOK
        <5> QED
          BY <5>1
      <4> QED
        BY <4>1 DEF Replies
    <3>2. /\ Least(MaxChars, config.output) \in Int
          /\ pc = "synthesize" => Least(MaxChars, config.output - calls[1].chars) \in Int
      <4>1. pc = "synthesize" => config.output - calls[1].chars \in Int
        BY <1>2, <3>1
      <4> QED
        BY <1>2, <4>1, BoundsType DEF Least
    <3>3. \A n \in Int : 0..n \subseteq Nat
      OBVIOUS
    <3>4. CASE ExtractRaises \/ SynthesisRaises
      BY <3>4 DEF ExtractRaises, SynthesisRaises
    <3>5. CASE ExtractIncomplete \/ ExtractUnusable \/ SynthesisIncomplete \/ SynthesisTooLong
      <4>1. \E chars \in 0..MaxChars, whole \in BOOLEAN : Record(chars, whole)
        BY <3>5 DEF ExtractIncomplete, ExtractUnusable, SynthesisIncomplete, SynthesisTooLong
      <4> QED
        BY <3>3, <4>1, BoundsType
    <3>6. CASE ExtractClaims
      BY <3>2, <3>3, <3>6 DEF ExtractClaims
    <3>7. CASE SynthesisInvalid \/ SynthesisAccepted
      BY <3>2, <3>3, <3>7 DEF SynthesisInvalid, SynthesisAccepted
    <3> QED
      BY <1>8, <3>4, <3>5, <3>6, <3>7 DEF Calls
  <2>4. calls' \in Seq(Replies)
    BY <1>1, <2>3, RecordType DEF TypeOK
  <2> QED
    BY <1>1, <2>1, <2>2, <2>4 DEF TypeOK, given, gathered
<1>9. CASE RunAudits
  <2> DEFINE ps == PlanAudits(tree, Requested)
  <2>1. PICK lost \in SUBSET ps : Faults(Cardinality(lost)) /\ audits' = ps \ lost
    BY <1>9 DEF RunAudits
  <2>2. ps \subseteq Plans
    BY <1>1, <1>2, PlansFit DEF TypeOK
  <2>3. faults' \in Nat
    BY <1>1, <1>2, <2>1, LostType, SMTT(30) DEF Faults, TypeOK
  <2>4. pc' = "evidence"
    BY <1>9 DEF RunAudits
  <2>5. UNCHANGED <<given, tree, edits, gathered, accepted, rejected, evidence, made,
                    calls, outcome>>
    BY <1>9 DEF RunAudits
  <2> HIDE DEF ps
  <2> QED
    BY <1>1, <2>1, <2>2, <2>3, <2>4, <2>5 DEF TypeOK, given, gathered
<1>10. CASE Discover
  <2>1. Cardinality(Spent) <= config.files
    BY <1>10, SpentFits DEF Discover, Inv
  <2>2. Gathered \subseteq Excerpts
    BY <1>1, <2>1, GatheredFits
  <2>3. pc' \in {"done", "synthesize"} /\ evidence' = Gathered
    BY <1>10 DEF Discover, Fail, End
  <2>4. UNCHANGED <<given, tree, edits, faults, gathered, accepted, rejected, audits,
                    made, calls>>
    BY <1>10 DEF Discover
  <2> QED
    BY <1>1, <2>2, <2>3, <2>4 DEF TypeOK, given, gathered
<1> QED
  BY <1>3, <1>4, <1>5, <1>6, <1>7, <1>8, <1>9, <1>10 DEF Next, Calls

LEMMA AskedKept == Inv /\ [Next]_vars => Asked'
<1> SUFFICES ASSUME Inv, [Next]_vars PROVE Asked'
  OBVIOUS
<1>1. TypeOK /\ Asked
  BY DEF Inv
<1>2. CASE UNCHANGED vars
  BY <1>1, <1>2 DEF Asked, vars, given, gathered, outcome
<1>3. CASE Edit
  BY <1>1, <1>3 DEF Asked, Edit, given, gathered, outcome
<1>4. CASE Raises \/ Disabled \/ (Calls /\ pc' = "done")
  <2>1. pc' = "done"
    BY <1>4 DEF Raises, Disabled, Fail, End
  <2> QED
    BY <2>1 DEF Asked
<1>5. CASE Collect \/ Plan \/ RunAudits
  BY <1>1, <1>5 DEF Asked, Collect, Plan, RunAudits, End, given, gathered, outcome
<1>6. CASE Calls /\ pc' # "done"
  <2>1. ExtractClaims
    BY <1>6 DEF Calls, ExtractRaises, ExtractIncomplete, ExtractUnusable, SynthesisRaises,
         SynthesisIncomplete, SynthesisTooLong, SynthesisInvalid, SynthesisAccepted, Fail, End
  <2>2. pc = "extract" /\ pc' = "audit" /\ made' = made + 1 /\ UNCHANGED outcome
    BY <2>1 DEF ExtractClaims
  <2>3. made = 0 /\ calls = <<>> /\ status = None /\ shown = NothingShown
    BY <1>1, <2>2 DEF Asked
  <2>4. PICK chars : Record(chars, TRUE)
    BY <2>1 DEF ExtractClaims
  <2>5. Len(calls') = 1 /\ calls'[1].whole
    BY <2>3, <2>4 DEF Record
  <2> QED
    BY <2>2, <2>3, <2>5 DEF Asked, outcome
<1>7. CASE Discover
  <2>1. pc = "evidence" /\ pc' \in {"done", "synthesize"} /\ made' = made /\ calls' = calls
    BY <1>7 DEF Discover, Fail, End
  <2>2. pc' = "synthesize" => config'.calls >= 2 /\ status' = status /\ shown' = shown
    <3>1. pc' # "done" => Cardinality(Spent) <= config.files \/ Cardinality(Spent) > config.files
      <4>1. Cardinality(Spent) \in Nat /\ config.files \in Nat
        BY <1>1, SpentType, SubsetsFit, ConfigType DEF TypeOK
      <4> QED
        BY <4>1
    <3>2. config.calls \in 1..2
      BY <1>1, ConfigType DEF TypeOK
    <3> QED
      BY <1>7, <3>1, <3>2 DEF Discover, Fail, End, given, outcome
  <2> QED
    BY <1>1, <2>1, <2>2 DEF Asked
<1> QED
  BY <1>2, <1>3, <1>4, <1>5, <1>6, <1>7 DEF Next, Calls

LEMMA GatheringKept == Inv /\ [Next]_vars => Gathering'
<1> SUFFICES ASSUME Inv, [Next]_vars PROVE Gathering'
  OBVIOUS
<1>1. TypeOK /\ Gathering
  BY DEF Inv
<1>2. CASE UNCHANGED vars
  BY <1>1, <1>2 DEF Gathering, vars, given, gathered
<1>3. CASE Edit
  <2>1. edits' # 0
    BY <1>1, <1>3 DEF Edit, TypeOK
  <2>2. UNCHANGED <<pc, plans, audits, evidence>>
    BY <1>3 DEF Edit, gathered
  <2> QED
    BY <1>1, <2>1, <2>2 DEF Gathering
<1>4. CASE Raises \/ Disabled \/ Calls
  <2>1. /\ UNCHANGED <<tree, edits, gathered, audits, evidence>>
        /\ pc' = "done" \/ (pc = "extract" /\ pc' = "audit")
    BY <1>4 DEF Raises, Disabled, Calls, ExtractRaises, ExtractIncomplete, ExtractUnusable,
         ExtractClaims, SynthesisRaises, SynthesisIncomplete, SynthesisTooLong,
         SynthesisInvalid, SynthesisAccepted, Fail, End
  <2>2. CASE pc' = "done"
    BY <2>2 DEF Gathering
  <2>3. CASE pc = "extract" /\ pc' = "audit"
    BY <1>1, <2>1, <2>3 DEF Gathering, gathered
  <2> QED
    BY <2>1, <2>2, <2>3
<1>5. CASE Collect
  BY <1>1, <1>5 DEF Gathering, Collect
<1>6. CASE Plan
  <2>1. plans' = Relevant(PlanAudits(tree, Discovered)) /\ tree' = tree
    BY <1>6 DEF Plan
  <2>2. \A p \in plans' : Usable(p, tree')
    BY <1>1, <2>1, ConfigType, RelevantFits DEF TypeOK
  <2>3. pc = "plan" /\ pc' \in {"done", "extract"} /\ UNCHANGED <<edits, index, audits, evidence>>
    BY <1>6 DEF Plan, End
  <2> QED
    BY <1>1, <2>1, <2>2, <2>3 DEF Gathering
<1>7. CASE RunAudits
  BY <1>1, <1>7 DEF Gathering, RunAudits, gathered
<1>8. CASE Discover
  <2>1. /\ pc = "evidence" /\ pc' \in {"done", "synthesize"}
        /\ UNCHANGED <<tree, edits, gathered, audits>>
    BY <1>8 DEF Discover, Fail, End
  <2> QED
    BY <1>1, <2>1 DEF Gathering, gathered
<1> QED
  BY <1>2, <1>3, <1>4, <1>5, <1>6, <1>7, <1>8 DEF Next, Calls

-----------------------------------------------------------------------------------
(* The properties.                                                           *)

\* What the three sums of files are made of.
Files == <<config, sources, plans, audits, index, evidence>>

LEMMA FilesKept == Inv /\ [Next]_vars => FilesWithinLimit'
<1> SUFFICES ASSUME Inv, [Next]_vars PROVE FilesWithinLimit'
  OBVIOUS
<1>1. TypeOK /\ Gathering /\ FilesWithinLimit /\ config.files \in Nat
  BY ConfigType DEF Inv, TypeOK
<1>2. CASE UNCHANGED Files /\ (edits' = edits \/ edits' # 0)
  <2>1. UNCHANGED <<PlannedPaths(plans), BundlePaths, EvidencePaths>>
    BY <1>2 DEF Files, PlannedPaths, BundlePaths, EvidencePaths
  <2> QED
    BY <1>1, <1>2, <2>1 DEF FilesWithinLimit, Files
<1>3. CASE Edit \/ Raises \/ Disabled \/ Calls \/ UNCHANGED vars
  <2>1. Edit => edits' # 0
    BY <1>1 DEF Edit, TypeOK
  <2>2. UNCHANGED Files /\ (edits' = edits \/ edits' # 0)
    BY <1>3, <2>1 DEF Files, Edit, Raises, Disabled, Calls, ExtractRaises, ExtractIncomplete,
         ExtractUnusable, ExtractClaims, SynthesisRaises, SynthesisIncomplete,
         SynthesisTooLong, SynthesisInvalid, SynthesisAccepted, vars, given, gathered
  <2> QED
    BY <1>2, <2>2
\* With no audits and no evidence, only the documents and the plans count.
<1>4. ASSUME audits' = {}, evidence' = {}, config' = config,
             Cardinality(sources' \cup PlannedPaths(plans')) <= config.files,
             Cardinality(sources') <= config.files
      PROVE  FilesWithinLimit'
  <2>1. BundlePaths' = {} /\ EvidencePaths' = {}
    BY <1>4 DEF BundlePaths, PlannedPaths, EvidencePaths
  <2>2. PlannedPaths(plans)' = PlannedPaths(plans')
    BY DEF PlannedPaths
  <2>3. (sources \cup (BundlePaths \cap index) \cup EvidencePaths)' = sources'
    BY <2>1
  <2> QED
    BY <1>4, <2>2, <2>3 DEF FilesWithinLimit
<1>5. CASE Collect
  <2> DEFINE docs == Documents \cap changed \cap tree.present
             n == Least(config.files, config.context - 1)
  <2>1. docs \subseteq Paths /\ n \in Int /\ n <= config.files
    BY <1>1, TreeType, ConfigType DEF TypeOK, Least
  <2>2. sources' = FirstOf(PathOrder, docs, n)
    BY <1>5 DEF Collect
  <2> HIDE DEF docs, n
  <2>3. Cardinality(sources') <= config.files
    BY <1>1, <2>1, <2>2, FirstOfIsBounded
  <2>4. plans' = {} /\ audits' = {} /\ evidence' = {} /\ config' = config
    BY <1>1, <1>5 DEF Collect, Gathering, given
  <2>5. sources' \cup PlannedPaths(plans') = sources'
    BY <2>4 DEF PlannedPaths
  <2> QED
    BY <1>4, <2>3, <2>4, <2>5
<1>6. CASE Plan
  <2> DEFINE ps == Relevant(PlanAudits(tree, Discovered))
  <2>1. ps \subseteq Plans /\ Cardinality(PlannedPaths(ps)) <= config.files
    BY <1>1, RelevantFits DEF TypeOK
  <2>2. plans' = ps /\ sources' = Kept(ps) /\ config' = config
    BY <1>6 DEF Plan, given
  <2>3. audits' = {} /\ evidence' = {}
    BY <1>1, <1>6 DEF Plan, Gathering
  <2> HIDE DEF ps
  <2>4. Kept(ps) \subseteq Paths /\ Cardinality(Kept(ps) \cup PlannedPaths(ps)) <= config.files
    BY <1>1, <2>1, KeptFits DEF TypeOK
  <2>5. Cardinality(Kept(ps)) <= config.files
    <3>1. Kept(ps) \cup PlannedPaths(ps) \subseteq Paths
      BY <2>1, <2>4, PlannedPathsType
    <3>2. Kept(ps) \subseteq Kept(ps) \cup PlannedPaths(ps)
      OBVIOUS
    <3>3. /\ Cardinality(Kept(ps)) \in Nat /\ Cardinality(Kept(ps) \cup PlannedPaths(ps)) \in Nat
          /\ Cardinality(Kept(ps)) <= Cardinality(Kept(ps) \cup PlannedPaths(ps))
      BY <3>1, <3>2, SubsetsFit
    <3> QED
      BY <1>1, <2>4, <3>3
  <2> QED
    BY <1>4, <2>2, <2>3, <2>4, <2>5
<1>7. CASE RunAudits
  <2>1. UNCHANGED <<config, sources, plans, index, edits>> /\ evidence' = {}
    BY <1>1, <1>7 DEF RunAudits, Gathering, given, gathered
  <2>2. PlannedPaths(plans)' = PlannedPaths(plans)
    BY <2>1 DEF PlannedPaths
  <2>3. BundlePaths' \subseteq PlannedPaths(plans) /\ EvidencePaths' = {}
    BY <2>1 DEF BundlePaths, PlannedPaths, EvidencePaths
  <2> DEFINE spent == (sources \cup (BundlePaths \cap index) \cup EvidencePaths)'
             room == sources \cup PlannedPaths(plans)
  <2>4. spent \subseteq room /\ room \subseteq Paths
    BY <1>1, <2>1, <2>3, SpentType DEF TypeOK
  <2>5. Cardinality(room) <= config.files
    BY <1>1 DEF FilesWithinLimit
  <2>6. Cardinality(spent) <= config.files
    <3> HIDE DEF spent, room
    <3>1. /\ Cardinality(spent) \in Nat /\ Cardinality(room) \in Nat
          /\ Cardinality(spent) <= Cardinality(room)
      BY <2>4, SubsetsFit
    <3> QED
      BY <1>1, <2>5, <3>1
  <2>7. ASSUME edits' = 0, NEW a \in audits' PROVE a.paths \subseteq BundlePaths'
    <3>1. a \in PlanAudits(tree, Requested)
      BY <1>7, <2>7 DEF RunAudits
    <3>2. a.manifest \in Requested /\ Usable(a, tree)
      BY <1>1, <3>1, PlansFit DEF TypeOK
    <3>3. PICK p \in plans : p.manifest = a.manifest
      BY <3>2 DEF Requested
    <3>4. Usable(p, tree)
      BY <1>1, <1>7, <2>1, <2>7 DEF Gathering, RunAudits
    <3>5. a.paths = p.paths
      BY <3>2, <3>3, <3>4 DEF Usable
    <3> QED
      BY <2>1, <2>7, <3>3, <3>5 DEF BundlePaths, PlannedPaths
  <2> QED
    BY <1>1, <2>1, <2>2, <2>5, <2>6, <2>7 DEF FilesWithinLimit
<1>8. CASE Discover
  <2>1. UNCHANGED <<config, sources, plans, audits, index, edits>> /\ evidence' = Gathered
    BY <1>8 DEF Discover, given, gathered
  <2>2. UNCHANGED <<PlannedPaths(plans), BundlePaths>>
    BY <2>1 DEF PlannedPaths, BundlePaths
  <2>3. (sources \cup (BundlePaths \cap index) \cup EvidencePaths)'
          = Spent \cup PathsOf(Gathered)
    BY <2>1, <2>2 DEF Spent, PathsOf, EvidencePaths
  <2>4. Cardinality(Spent \cup PathsOf(Gathered)) <= config.files
    BY <1>1, SpentFits, GatheredFits
  <2> QED
    BY <1>1, <2>1, <2>2, <2>3, <2>4 DEF FilesWithinLimit
<1> QED
  BY <1>3, <1>5, <1>6, <1>7, <1>8 DEF Next, Calls

LEMMA PlannedKept == Inv /\ [Next]_vars => PlannedIsAudited'
<1> SUFFICES ASSUME Inv, [Next]_vars PROVE PlannedIsAudited'
  OBVIOUS
<1>1. TypeOK /\ Gathering /\ FilesWithinLimit /\ PlannedIsAudited /\ config.files \in Nat
  BY ConfigType DEF Inv, TypeOK
<1>2. CASE pc' \notin {"evidence", "synthesize"}
  BY <1>2 DEF PlannedIsAudited
<1>3. CASE UNCHANGED vars
  BY <1>1, <1>3 DEF PlannedIsAudited, vars, gathered
<1>4. CASE Edit
  <2>1. edits' # 0
    BY <1>1, <1>4 DEF Edit, TypeOK
  <2> QED
    BY <1>1, <1>4, <2>1 DEF PlannedIsAudited, Edit, gathered
<1>5. CASE Discover
  BY <1>1, <1>5 DEF PlannedIsAudited, Discover, gathered
<1>6. CASE RunAudits
  <2> DEFINE ps == PlanAudits(tree, Requested)
  <2>1. PICK lost \in SUBSET ps : Faults(Cardinality(lost)) /\ audits' = ps \ lost
    BY <1>6 DEF RunAudits
  <2>2. UNCHANGED <<plans, edits>>
    BY <1>6 DEF RunAudits, gathered
  <2>3. \A a \in audits' : \E p \in plans : p.manifest = a.manifest
    <3>1. \A a \in ps : a.manifest \in Requested
      BY <1>1, PlansFit DEF TypeOK
    <3> HIDE DEF ps
    <3> QED
      BY <2>1, <3>1 DEF Requested
  <2>4. edits' = 0 /\ faults' = 0 => audits' = plans
    <3> SUFFICES ASSUME edits' = 0, faults' = 0 PROVE audits' = plans
      OBVIOUS
    <3>1. lost = {}
      <4>1. Cardinality(lost) \in Nat /\ (Cardinality(lost) = 0 <=> lost = {})
        BY <1>1, LostType DEF TypeOK
      <4>2. faults + Cardinality(lost) = 0 /\ faults \in Nat
        BY <1>1, <2>1 DEF Faults, TypeOK
      <4> QED
        BY <4>1, <4>2
    <3>2. \A p \in plans : Usable(p, tree)
      BY <1>1, <1>6, <2>2 DEF Gathering, RunAudits
    <3>3. Cardinality(PlannedPaths(plans)) <= config.files
      <4>1. PlannedPaths(plans) \subseteq sources \cup PlannedPaths(plans)
        OBVIOUS
      <4> DEFINE room == sources \cup PlannedPaths(plans)
      <4>2. room \subseteq Paths /\ Cardinality(room) <= config.files
        BY <1>1, SpentType DEF FilesWithinLimit, TypeOK
      <4> HIDE DEF room
      <4>3. /\ Cardinality(PlannedPaths(plans)) \in Nat /\ Cardinality(room) \in Nat
            /\ Cardinality(PlannedPaths(plans)) <= Cardinality(room)
        BY <4>1, <4>2, SubsetsFit DEF room
      <4> QED
        BY <1>1, <4>2, <4>3
    <3>4. ps = plans
      BY <1>1, <3>2, <3>3, PlannedAgain DEF Requested, TypeOK
    <3> HIDE DEF ps
    <3> QED
      BY <2>1, <3>1, <3>4
  <2> QED
    BY <2>2, <2>3, <2>4 DEF PlannedIsAudited
<1>7. CASE Raises \/ Disabled \/ Collect \/ Plan \/ Calls
  <2>1. pc' \notin {"evidence", "synthesize"}
    BY <1>7 DEF Raises, Disabled, Collect, Plan, Calls, ExtractRaises, ExtractIncomplete,
         ExtractUnusable, ExtractClaims, SynthesisRaises, SynthesisIncomplete,
         SynthesisTooLong, SynthesisInvalid, SynthesisAccepted, Fail, End
  <2> QED
    BY <1>2, <2>1
<1> QED
  BY <1>3, <1>4, <1>5, <1>6, <1>7 DEF Next, Calls

LEMMA PriorityKept == Inv /\ [Next]_vars => PriorityIsServed'
<1> SUFFICES ASSUME Inv, [Next]_vars PROVE PriorityIsServed'
  OBVIOUS
<1>1. TypeOK /\ Asked /\ Gathering /\ FilesWithinLimit /\ PriorityIsServed
  BY DEF Inv
<1>2. CASE ~Searched'
  BY <1>2 DEF PriorityIsServed
<1>3. CASE edits' # 0
  BY <1>3 DEF PriorityIsServed
<1>4. CASE UNCHANGED vars
  BY <1>1, <1>4 DEF PriorityIsServed, Searched, BundlePaths, PlannedPaths, vars, given,
       gathered, outcome
<1>5. CASE Edit
  <2>1. edits' # 0
    BY <1>1, <1>5 DEF Edit, TypeOK
  <2> QED
    BY <1>3, <2>1
<1>6. CASE Raises \/ Disabled
  <2>1. pc' = "done" /\ status' \in {"UNAVAILABLE", "DISABLED"}
    BY <1>6 DEF Raises, Disabled, Fail, End
  <2> QED
    BY <1>2, <2>1 DEF Searched
<1>7. CASE Collect \/ Plan \/ RunAudits \/ ExtractRaises \/ ExtractUnusable \/ ExtractClaims
           \/ SynthesisRaises
  <2>1. pc' # "synthesize" /\ (status' = status \/ status' = "UNAVAILABLE")
    BY <1>7 DEF Collect, Plan, RunAudits, ExtractRaises, ExtractUnusable, ExtractClaims,
         SynthesisRaises, Fail, End, outcome
  <2>2. status = None
    BY <1>1, <1>7 DEF Asked, Collect, Plan, RunAudits, ExtractRaises, ExtractUnusable,
         ExtractClaims, SynthesisRaises
  <2> QED
    BY <1>2, <2>1, <2>2 DEF Searched, None
\* Nothing was audited.
<1>8. CASE ExtractIncomplete
  <2>1. audits' = {}
    BY <1>1, <1>8 DEF ExtractIncomplete, Gathering
  <2>2. BundlePaths' = {}
    BY <2>1 DEF BundlePaths, PlannedPaths
  <2> QED
    BY <2>2 DEF PriorityIsServed
\* The evidence was served before.
<1>9. CASE SynthesisIncomplete \/ SynthesisTooLong \/ SynthesisInvalid \/ SynthesisAccepted
  <2>1. /\ pc = "synthesize"
        /\ UNCHANGED <<config, index, plans, accepted, audits, evidence, edits>>
    BY <1>9 DEF SynthesisIncomplete, SynthesisTooLong, SynthesisInvalid, SynthesisAccepted,
         given, gathered
  <2>2. BundlePaths' = BundlePaths
    BY <2>1 DEF BundlePaths, PlannedPaths
  <2> QED
    BY <1>1, <2>1, <2>2 DEF PriorityIsServed, Searched
<1>10. CASE Discover
  <2>1. UNCHANGED <<config, index, plans, accepted, audits, edits>> /\ evidence' = Gathered
    BY <1>10 DEF Discover, given, gathered
  <2>2. BundlePaths' = BundlePaths
    BY <2>1 DEF BundlePaths, PlannedPaths
  <2> SUFFICES ASSUME edits = 0, Cardinality(BundlePaths) <= config.context,
                      NEW c \in accepted, NEW p \in BundlePaths \cap index, c.audited
               PROVE  \E r \in Gathered : r.path = p /\ c \in r.claims
    BY <2>1, <2>2 DEF PriorityIsServed
  <2>3. p \in Priority(c)
    BY DEF Priority
  <2>4. p \in First
    BY <2>3 DEF First
  <2>5. First \subseteq BundlePaths \cap index /\ BundlePaths \subseteq Paths
    BY <1>1, SpentType
  <2>6. First \subseteq Spent /\ First \subseteq tree.present /\ First \subseteq Paths
    BY <1>1, <1>10, <2>5 DEF Spent, Gathering, Discover
  <2>7. Cardinality(First) <= config.context /\ config.context \in Nat
    <3>1. /\ Cardinality(First) \in Nat /\ Cardinality(BundlePaths) \in Nat
          /\ Cardinality(First) <= Cardinality(BundlePaths)
      BY <2>5, SubsetsFit
    <3>2. config.context \in Nat
      BY <1>1, ConfigType DEF TypeOK
    <3> QED
      BY <3>1, <3>2
  <2>8. Excerpt(p) \in Gather({}, PlanOrder, First)
    BY <1>1, <2>4, <2>6, <2>7, GatherServes DEF TypeOK
  <2>9. Excerpt(p) \in Gathered
    BY <1>1, <2>8, SpentFits, GatheredFits
  <2>10. Excerpt(p).path = p /\ c \in Excerpt(p).claims
    BY <2>3 DEF Excerpt, Routed
  <2> QED
    BY <2>9, <2>10
<1> QED
  BY <1>4, <1>5, <1>6, <1>7, <1>8, <1>9, <1>10 DEF Next

LEMMA CompleteKept == Inv /\ [Next]_vars => CompleteIsWhole'
<1> SUFFICES ASSUME Inv, [Next]_vars PROVE CompleteIsWhole'
  OBVIOUS
<1>1. TypeOK /\ Asked /\ CompleteIsWhole
  BY DEF Inv
<1>2. CASE UNCHANGED <<status, calls, rejected, accepted, shown, evidence, config>>
  BY <1>1, <1>2 DEF CompleteIsWhole
<1>3. CASE status' # "COMPLETE" /\ shown' = NothingShown
  BY <1>3 DEF CompleteIsWhole, NothingShown
<1>4. CASE Raises \/ Disabled \/ Collect \/ Plan \/ RunAudits \/ Discover \/ ExtractRaises
           \/ ExtractIncomplete \/ ExtractUnusable \/ ExtractClaims \/ SynthesisRaises
           \/ SynthesisIncomplete \/ SynthesisTooLong \/ SynthesisInvalid
  <2>1. status = None /\ shown = NothingShown
    BY <1>1, <1>4 DEF Asked, Raises, Disabled, Collect, Plan, RunAudits, Discover,
         ExtractRaises, ExtractIncomplete, ExtractUnusable, ExtractClaims, SynthesisRaises,
         SynthesisIncomplete, SynthesisTooLong, SynthesisInvalid
  <2>2. \/ status' = status /\ shown' = shown
        \/ /\ status' \in {"UNAVAILABLE", "DISABLED", "PARTIAL"} /\ shown' = NothingShown
    <3>1. CASE Discover
      BY <3>1 DEF Discover, Fail, End, outcome
    <3> QED
      BY <1>4, <3>1 DEF Raises, Disabled, Collect, Plan, RunAudits, ExtractRaises,
         ExtractIncomplete, ExtractUnusable, ExtractClaims, SynthesisRaises,
         SynthesisIncomplete, SynthesisTooLong, SynthesisInvalid, Fail, End, outcome
  <2> QED
    BY <1>3, <2>1, <2>2 DEF None
<1>5. CASE SynthesisAccepted
  <2>1. /\ pc = "synthesize" /\ Len(calls) = 1 /\ calls[1].whole /\ calls \in Seq(Replies)
        /\ UNCHANGED <<config, accepted, rejected, evidence>>
    BY <1>1, <1>5 DEF SynthesisAccepted, Asked, TypeOK, given
  <2>2. PICK rows \in Rows : Valid(rows) /\ shown' = rows
    BY <1>5 DEF SynthesisAccepted
  <2>3. calls[1].chars \in Nat /\ config.output \in Nat
    <3>1. calls[1] \in Replies
      BY <2>1
    <3> QED
      BY <1>1, <3>1, ConfigType DEF Replies, TypeOK
  <2>4. PICK chars \in 0..Least(MaxChars, config.output - calls[1].chars) : Record(chars, TRUE)
    BY <1>5 DEF SynthesisAccepted
  <2>5. chars \in Nat /\ calls[1].chars + chars <= config.output
    BY <2>3, <2>4, BoundsType DEF Least
  <2>6. /\ Len(calls') = 2 /\ calls'[1] = calls[1]
        /\ calls'[2] = [chars |-> chars, whole |-> TRUE]
    <3>1. calls' = Append(calls, [chars |-> chars, whole |-> TRUE])
      BY <2>4 DEF Record
    <3> QED
      BY <2>1, <3>1, SecondReply
  <2>7. \A i \in DOMAIN calls' : calls'[i].whole
    <3>1. DOMAIN calls' = 1..2
      BY <2>1, <2>4, <2>6 DEF Record
    <3> QED
      BY <2>1, <2>6, <3>1
  <2>8. calls'[1].chars + calls'[2].chars <= config'.output
    BY <2>1, <2>5, <2>6
  <2>9. \A c \in DOMAIN shown', p \in Paths :
          p \in shown'[c] => \E r \in evidence' : r.path = p /\ c \in r.claims /\ r.citable
    BY <2>1, <2>2 DEF Valid, Citable
  <2>10. ASSUME status' = "COMPLETE"
         PROVE  /\ ~rejected' /\ DOMAIN shown' = accepted'
                /\ \A c \in accepted' : c.hints # {} =>
                     \E r \in evidence' : r.citable /\ c \in r.claims
    <3>1. ~(rejected \/ RoutingIncomplete)
      BY <1>5, <2>10 DEF SynthesisAccepted
    <3>2. \A c \in accepted : c.hints # {} => Citable(c) # {}
      BY <3>1 DEF RoutingIncomplete
    <3> QED
      BY <2>1, <2>2, <3>1, <3>2 DEF Citable, Valid
  <2> QED
    BY <2>6, <2>7, <2>8, <2>9, <2>10 DEF CompleteIsWhole
<1>6. CASE Edit \/ UNCHANGED vars
  BY <1>2, <1>6 DEF Edit, vars, given, outcome
<1> QED
  BY <1>4, <1>5, <1>6 DEF Next

LEMMA CallsKept == Inv /\ [Next]_vars => CallsHonoured'
<1> SUFFICES ASSUME Inv, [Next]_vars PROVE CallsHonoured'
  OBVIOUS
<1>1. TypeOK /\ Asked /\ CallsHonoured /\ config.calls \in 1..2
  BY ConfigType DEF Inv, TypeOK
<1>2. CASE /\ UNCHANGED <<made, calls, config>>
           /\ pc = "start" \/ (status = None /\ status' # "DISABLED") \/ status' = status
  <2>1. pc = "start" => made = 0 /\ calls = <<>>
    BY <1>1 DEF Asked
  <2>2. status = None => ~(made > Len(calls))
    BY <1>1 DEF CallsHonoured, None
  <2> QED
    BY <1>1, <1>2, <2>1, <2>2 DEF CallsHonoured
<1>3. CASE Edit \/ Raises \/ Disabled \/ Collect \/ Plan \/ RunAudits \/ UNCHANGED vars
  <2>1. /\ UNCHANGED <<made, calls, config>>
        /\ pc = "start" \/ status' = status \/ status' \in {"UNAVAILABLE", "PARTIAL"}
    BY <1>3 DEF Edit, Raises, Disabled, Collect, Plan, RunAudits, vars, given, outcome, Fail, End
  <2>2. status' = status \/ pc = "start" \/ status = None
    BY <1>1, <1>3 DEF Asked, Edit, Raises, Disabled, Collect, Plan, RunAudits, vars, outcome
  <2> QED
    BY <1>2, <2>1, <2>2
<1>4. CASE Discover
  <2>1. UNCHANGED <<made, calls, config>> /\ (status' = status \/ status' \in {"UNAVAILABLE", "PARTIAL"})
    BY <1>4 DEF Discover, Fail, End, given, outcome
  <2>2. status = None
    BY <1>1, <1>4 DEF Asked, Discover
  <2> QED
    BY <1>2, <2>1, <2>2
\* The first call.
<1>5. CASE ExtractRaises \/ ExtractIncomplete \/ ExtractUnusable \/ ExtractClaims
  <2>1. made' = 1 /\ calls = <<>> /\ status = None /\ config' = config
    <3>1. pc = "extract" /\ made' = made + 1 /\ config' = config
      BY <1>5 DEF ExtractRaises, ExtractIncomplete, ExtractUnusable, ExtractClaims, given
    <3> QED
      BY <1>1, <3>1 DEF Asked
  <2>2. status' # "DISABLED"
    BY <1>5, <2>1 DEF ExtractRaises, ExtractIncomplete, ExtractUnusable, ExtractClaims,
         Fail, End, outcome, None
  <2>3. (Len(calls') = 0 /\ status' = "UNAVAILABLE") \/ Len(calls') = 1
    <3>1. CASE ExtractRaises
      BY <2>1, <3>1 DEF ExtractRaises, Fail, End
    <3>2. CASE ExtractIncomplete \/ ExtractUnusable \/ ExtractClaims
      <4>1. \E chars, whole : Record(chars, whole)
        BY <3>2 DEF ExtractIncomplete, ExtractUnusable, ExtractClaims
      <4> QED
        BY <2>1, <4>1 DEF Record
    <3> QED
      BY <1>5, <3>1, <3>2
  <2> QED
    BY <1>1, <2>1, <2>2, <2>3 DEF CallsHonoured
\* The second one.
<1>6. CASE SynthesisRaises \/ SynthesisIncomplete \/ SynthesisTooLong \/ SynthesisInvalid
           \/ SynthesisAccepted
  <2>1. /\ pc = "synthesize" /\ made' = made + 1 /\ config' = config
    BY <1>6 DEF SynthesisRaises, SynthesisIncomplete, SynthesisTooLong, SynthesisInvalid,
         SynthesisAccepted, given
  <2>2. made' = 2 /\ config.calls >= 2 /\ Len(calls) = 1 /\ calls[1].whole
    BY <1>1, <2>1 DEF Asked
  <2>3. status' # "DISABLED"
    BY <1>6 DEF SynthesisRaises, SynthesisIncomplete, SynthesisTooLong, SynthesisInvalid,
         SynthesisAccepted, Fail, End
  <2>4. /\ (Len(calls') = 1 /\ status' = "UNAVAILABLE") \/ Len(calls') = 2
        /\ calls'[1] = calls[1]
    <3>1. CASE SynthesisRaises
      BY <2>2, <3>1 DEF SynthesisRaises, Fail, End
    <3>2. CASE SynthesisIncomplete \/ SynthesisTooLong \/ SynthesisInvalid \/ SynthesisAccepted
      <4>1. \E chars, whole : Record(chars, whole)
        BY <3>2 DEF SynthesisIncomplete, SynthesisTooLong, SynthesisInvalid, SynthesisAccepted
      <4>2. calls \in Seq(Replies)
        BY <1>1 DEF TypeOK
      <4>3. PICK x : calls' = Append(calls, x)
        BY <4>1 DEF Record
      <4> QED
        BY <2>2, <4>2, <4>3, SecondReply
    <3> QED
      BY <1>6, <3>1, <3>2
  <2>5. /\ made' <= config'.calls
        /\ made' \in {Len(calls'), Len(calls') + 1}
        /\ made' > Len(calls') => status' = "UNAVAILABLE"
    <3>1. config'.calls \in 1..2 /\ config'.calls >= 2 /\ made' = 2
      BY <1>1, <2>1, <2>2
    <3>2. CASE Len(calls') = 1 /\ status' = "UNAVAILABLE"
      BY <3>1, <3>2
    <3>3. CASE Len(calls') = 2
      BY <3>1, <3>3
    <3> QED
      BY <2>4, <3>2, <3>3
  <2>6. calls'[1].whole
    BY <2>2, <2>4
  <2> QED
    BY <2>3, <2>5, <2>6 DEF CallsHonoured
<1> QED
  BY <1>3, <1>4, <1>5, <1>6 DEF Next

LEMMA InvHolds == Spec => []Inv
<1>1. Inv /\ [Next]_vars => Inv'
  BY TypeOKKept, AskedKept, GatheringKept, FilesKept, PlannedKept, PriorityKept,
     CompleteKept, CallsKept DEF Inv
<1> QED
  BY <1>1, InitHolds, PTL DEF Spec

-----------------------------------------------------------------------------------
(* The theorems.                                                             *)

\* However the checkout is edited between two readings of it, what the first call is
\* shown, what is reserved for the audits and what the second call is shown share
\* one limit of files.  (collect_review_sources, plan_manifest_audits,
\* _sources_after_manifest_reservation and discover_evidence, each with a greedy
\* loop of its own.)
THEOREM OneLimitOfFiles == Spec => []FilesWithinLimit
<1>1. Inv => FilesWithinLimit
  BY DEF Inv
<1> QED
  BY <1>1, InvHolds, PTL

\* Planning the reserved audits a second time finds room for each of them and for
\* no other.  (run_manifest_audits plans again what plan_manifest_audits planned
\* among more manifests.)
THEOREM AuditsAreThosePlanned == Spec => []PlannedIsAudited
<1>1. Inv => PlannedIsAudited
  BY DEF Inv
<1> QED
  BY <1>1, InvHolds, PTL

\* Each file of a deterministic audit is excerpted for every claim it can inform,
\* if those files fit the context.  (discover_evidence takes priority_order first.)
THEOREM AuditedFilesComeFirst == Spec => []PriorityIsServed
<1>1. Inv => PriorityIsServed
  BY DEF Inv
<1> QED
  BY <1>1, InvHolds, PTL

\* COMPLETE says what a reader takes it to say, whatever the model replied.
\* (run_review with validate_claim_candidates_best_effort and
\* _parse_interpretations.)
THEOREM CompleteReviewIsWhole == Spec => []CompleteIsWhole
<1>1. Inv => CompleteIsWhole
  BY DEF Inv
<1> QED
  BY <1>1, InvHolds, PTL

\* Never more calls than configured, and none after one that was not whole.
\* (run_review with max_calls.)
THEOREM CallsAreBudgeted == Spec => []CallsHonoured
<1>1. Inv => CallsHonoured
  BY DEF Inv
<1> QED
  BY <1>1, InvHolds, PTL
====
