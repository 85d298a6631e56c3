----------------------------- MODULE NativeAuditProofs -----------------------------
(***************************************************************************)
(* Theorems about NativeAudit, for all contents of the artifacts, claims,  *)
(* edits and looks of the streamed reader.  The argument: what comparing   *)
(* one artifact gave stays true of what was seen, since no comparison is   *)
(* of an artifact that is read later; so the findings are, at the verdict, *)
(* those of one world.  The rest is about the rules: which of them count   *)
(* against the claim, and when they are found.                             *)
(***************************************************************************)
EXTENDS NativeAudit, FiniteSetTheorems, SequenceTheorems, TLAPS

-----------------------------------------------------------------------------------
(* Verdicts.                                                                 *)

Grave(fs) == \E f \in fs : f.impact = "INVALIDATES"
Lacking(fs) == \E f \in fs : f.impact = "INSUFFICIENT"

LEMMA VerdictIs ==
  ASSUME NEW fs
  PROVE  /\ Verdict(fs) \in Verdicts
         /\ Verdict(fs) = "NOT_SUPPORTED" <=> Grave(fs)
         /\ Verdict(fs) = "SUPPORTED" <=> ~Grave(fs) /\ ~Lacking(fs)
BY DEF Verdict, Verdicts, Grave, Lacking

LEMMA GraveUnion ==
  ASSUME NEW fs, NEW gs
  PROVE  /\ Grave(fs \cup gs) <=> Grave(fs) \/ Grave(gs)
         /\ Lacking(fs \cup gs) <=> Lacking(fs) \/ Lacking(gs)
BY DEF Grave, Lacking

LEMMA OneFound ==
  ASSUME NEW rule, NEW x, NEW impact
  PROVE  /\ Grave({Found(rule, x, impact)}) <=> impact = "INVALIDATES"
         /\ Lacking({Found(rule, x, impact)}) <=> impact = "INSUFFICIENT"
BY DEF Found, Grave, Lacking

\* One conditional finding.
LEMMA IfFound ==
  ASSUME NEW holds \in BOOLEAN, NEW rule, NEW x, NEW impact
  PROVE  /\ Grave(If(holds, Found(rule, x, impact))) <=> holds /\ impact = "INVALIDATES"
         /\ Lacking(If(holds, Found(rule, x, impact))) <=> holds /\ impact = "INSUFFICIENT"
<1>1. CASE holds
  <2>1. If(holds, Found(rule, x, impact)) = {Found(rule, x, impact)}
    BY <1>1 DEF If
  <2> QED
    BY <2>1, <1>1, OneFound
<1>2. CASE ~holds
  <2>1. If(holds, Found(rule, x, impact)) = {}
    BY <1>2 DEF If
  <2> QED
    BY <2>1, <1>2 DEF Grave, Lacking
<1> QED
  BY <1>1, <1>2

LEMMA NoneFound ==
  ASSUME NEW holds, NEW rule, NEW x
  PROVE  /\ ~Grave(If(holds, Found(rule, x, "NONE")))
         /\ ~Lacking(If(holds, Found(rule, x, "NONE")))
BY DEF If, Found, Grave, Lacking

-----------------------------------------------------------------------------------
(* Configurations.                                                           *)

LEMMA PositiveFactors ==
  ASSUME NEW a \in Nat, NEW b \in Nat, NEW c \in Nat, a * b * c > 0
  PROVE  a > 0 /\ c > 0 /\ a * c > 0
<1>1. a # 0 /\ b # 0 /\ c # 0
  <2>1. a = 0 => a * b * c = 0
    OBVIOUS
  <2>2. b = 0 => a * b * c = 0
    OBVIOUS
  <2>3. c = 0 => a * b * c = 0
    OBVIOUS
  <2> QED
    BY <2>1, <2>2, <2>3
<1>2. \A m, n \in Nat : m >= 1 /\ n >= 1 => m * n >= 1
  OBVIOUS
<1> QED
  BY <1>1, <1>2

\* Complete configurations are compared by the examples they process.
LEMMA ComputeRule ==
  ASSUME NEW b, NEW c, IsConfig(b), IsConfig(c), b.complete, c.complete
  PROVE  ComputeMismatch(b, c) <=> 2 * (c.steps * c.batch) >= 3 * (b.steps * b.batch)
<1>1. /\ b.steps \in Nat /\ b.epochs \in Nat /\ b.batch \in Nat
      /\ c.steps \in Nat /\ c.epochs \in Nat /\ c.batch \in Nat
      /\ b.steps * b.epochs * b.batch > 0 /\ c.steps * c.epochs * c.batch > 0
  BY DEF IsConfig
<1>2. b.steps * b.batch > 0 /\ c.steps * c.batch > 0
  BY <1>1, PositiveFactors
<1> DEFINE P == Proxies(b)
           Q == Proxies(c)
<1>3. P[1] = b.steps * b.batch /\ Q[1] = c.steps * c.batch
  BY DEF Proxies
<1>4. 1 \in Bases(b, c) /\ Bases(b, c) \subseteq 1..4
  BY <1>2, <1>3 DEF Bases
<1>5. \A i \in Bases(b, c) : (\A j \in Bases(b, c) : i <= j) <=> i = 1
  BY <1>4
<1>6. ComputeMismatch(b, c) <=> 2 * Q[1] >= 3 * P[1]
  <2> HIDE DEF P, Q
  <2> QED
    BY <1>4, <1>5 DEF ComputeMismatch, P, Q
<1> QED
  BY <1>3, <1>6

LEMMA ConfigImpacts ==
  ASSUME NEW b, NEW c, IsConfig(b), IsConfig(c)
  PROVE  /\ Grave(ConfigFindings(b, c)) <=> ComputeMismatch(b, c) \/ EvaluationMismatch(b, c)
         /\ Lacking(ConfigFindings(b, c)) <=> ~(b.complete /\ c.complete)
<1> DEFINE A == If(~(b.complete /\ c.complete),
                   Found("CONFIG.MISSING_FIELDS", "both", "INSUFFICIENT"))
           B == If(ComputeMismatch(b, c),
                   Found("CONFIG.COMPUTE_MISMATCH", "both", "INVALIDATES"))
           C == If(EvaluationMismatch(b, c),
                   Found("CONFIG.EVALUATION_MISMATCH", "both", "INVALIDATES"))
           D == If(~SameParameters(b, c) /\ ~ComputeMismatch(b, c),
                   Found("CONFIG.TRAINING_PARAMETER_DIFFERENCE", "both", "NONE"))
           E == If(b.described # c.described,
                   Found("CONFIG.DESCRIPTION_DIFFERENCE", "both", "NONE"))
           L == {Found("CONFIG.LOADED", "both", "NONE")}
           V == If(ConfigIssues(b, c) = {}, Found("CONFIG.FAIRNESS_VERIFIED", "both", "NONE"))
<1>1. ConfigFindings(b, c) = L \cup (A \cup B \cup C \cup D \cup E) \cup V
  BY DEF ConfigFindings, ConfigIssues
<1>2. ~Grave(A) /\ (Lacking(A) <=> ~(b.complete /\ c.complete))
  BY IfFound
<1>3. (Grave(B) <=> ComputeMismatch(b, c)) /\ ~Lacking(B)
  BY IfFound DEF ComputeMismatch
<1>4. (Grave(C) <=> EvaluationMismatch(b, c)) /\ ~Lacking(C)
  BY IfFound DEF EvaluationMismatch
<1>5. ~Grave(D) /\ ~Lacking(D)
  BY NoneFound
<1>6. ~Grave(E) /\ ~Lacking(E)
  BY NoneFound
<1>7. ~Grave(L) /\ ~Lacking(L)
  BY OneFound
<1>8. ~Grave(V) /\ ~Lacking(V)
  BY NoneFound
<1> HIDE DEF A, B, C, D, E, L, V
<1>9. LET fs == ConfigFindings(b, c)
      IN  /\ Grave(fs) <=> \/ Grave(A) \/ Grave(B) \/ Grave(C) \/ Grave(D) \/ Grave(E)
                           \/ Grave(L) \/ Grave(V)
          /\ Lacking(fs) <=> \/ Lacking(A) \/ Lacking(B) \/ Lacking(C) \/ Lacking(D)
                             \/ Lacking(E) \/ Lacking(L) \/ Lacking(V)
  BY <1>1 DEF Grave, Lacking
<1>10. Grave(ConfigFindings(b, c)) <=> ComputeMismatch(b, c) \/ EvaluationMismatch(b, c)
  BY <1>2, <1>3, <1>4, <1>5, <1>6, <1>7, <1>8, <1>9
<1>11. Lacking(ConfigFindings(b, c)) <=> ~(b.complete /\ c.complete)
  BY <1>2, <1>3, <1>4, <1>5, <1>6, <1>7, <1>8, <1>9
<1> QED
  BY <1>10, <1>11

\* No fault is found with two configurations exactly when they are fair.
LEMMA FairnessIsChecked ==
  ASSUME NEW b, NEW c, IsConfig(b), IsConfig(c)
  PROVE  ~Grave(ConfigFindings(b, c)) /\ ~Lacking(ConfigFindings(b, c)) <=> FairConfigs(b, c)
<1>1. CASE b.complete /\ c.complete
  <2>1. Declares(b.evaluation) /\ Declares(c.evaluation)
    BY <1>1 DEF IsConfig
  <2>2. ComputeMismatch(b, c) <=> 2 * (c.steps * c.batch) >= 3 * (b.steps * b.batch)
    <3>1. b.complete /\ c.complete
      BY <1>1
    <3> QED
      BY <3>1, ComputeRule
  <2>3. /\ 2 * (c.steps * c.batch) = 2 * c.steps * c.batch
        /\ 3 * (b.steps * b.batch) = 3 * b.steps * b.batch
        /\ 2 * c.steps * c.batch \in Int /\ 3 * b.steps * b.batch \in Int
    BY DEF IsConfig
  <2>4. ComputeMismatch(b, c) <=> ~(2 * c.steps * c.batch < 3 * b.steps * b.batch)
    <3>1. \A m, n \in Int : m >= n <=> ~(m < n)
      OBVIOUS
    <3> QED
      BY <2>2, <2>3, <3>1
  <2> QED
    BY <1>1, <2>1, <2>4, ConfigImpacts DEF FairConfigs, EvaluationMismatch
<1>2. CASE ~(b.complete /\ c.complete)
  BY <1>2, ConfigImpacts DEF FairConfigs
<1> QED
  BY <1>1, <1>2

-----------------------------------------------------------------------------------
(* Results.                                                                  *)

\* The sum of runs that could be summarised is an integer.
LEMMA TotalIsFinite ==
  ASSUME NEW r, IsResults(r), Summarizable(r.runs)
  PROVE  /\ Len(r.runs) \in Nat /\ Len(r.runs) > 0
         /\ DOMAIN r.runs = 1..Len(r.runs)
         /\ Total(r.runs) \in Int
<1> DEFINE n == Len(r.runs)
<1>1. /\ r.runs \in Seq([value : -Largest..Largest, seed : {run.seed : run \in Range(r.runs)}])
      /\ n \in Nat /\ DOMAIN r.runs = 1..n
  BY DEF IsResults
<1>2. n > 0 /\ \A i \in 1..n : Finite(Total(SubSeq(r.runs, 1, i)))
  BY DEF Summarizable
<1>3. SubSeq(r.runs, 1, n) = r.runs
  BY <1>1
<1>4. Finite(Total(r.runs))
  <2>1. n \in 1..n
    BY <1>1, <1>2
  <2> HIDE DEF n
  <2>2. Finite(Total(SubSeq(r.runs, 1, n)))
    BY <1>2, <2>1
  <2> QED
    BY <1>3, <2>2
<1>5. Total(r.runs) \in Int
  BY <1>4 DEF Finite
<1> QED
  BY <1>1, <1>2, <1>5

\* Nothing is amiss with the seeds exactly when the runs are independent.
LEMMA SeedImpacts ==
  ASSUME NEW r, NEW x, IsResults(r), Summarizable(r.runs)
  PROVE  /\ ~Grave(SeedIssues(x, r))
         /\ Lacking(SeedIssues(x, r)) <=> ~IndependentRuns(r)
<1> DEFINE A == If(LacksSeed(r), Found("SEED.MISSING_METADATA", x, "INSUFFICIENT"))
           B == If(RepeatsSeed(r), Found("SEED.DUPLICATE", x, "INSUFFICIENT"))
           C == If(Len(r.runs) = 1, Found("SEED.SINGLE_RUN", x, "INSUFFICIENT"))
<1>1. SeedIssues(x, r) = A \cup B \cup C
  BY DEF SeedIssues
<1>2. ~Grave(A) /\ (Lacking(A) <=> LacksSeed(r))
  BY IfFound DEF LacksSeed
<1>3. ~Grave(B) /\ (Lacking(B) <=> RepeatsSeed(r))
  BY IfFound DEF RepeatsSeed
<1>4. ~Grave(C) /\ (Lacking(C) <=> Len(r.runs) = 1)
  BY IfFound
<1> HIDE DEF A, B, C
<1>5. /\ ~Grave(SeedIssues(x, r))
      /\ Lacking(SeedIssues(x, r)) <=> LacksSeed(r) \/ RepeatsSeed(r) \/ Len(r.runs) = 1
  BY <1>1, <1>2, <1>3, <1>4, GraveUnion, ZenonT(40)
<1>6. Len(r.runs) >= 2 <=> Len(r.runs) # 1
  <2>1. Len(r.runs) \in Nat /\ Len(r.runs) > 0
    BY TotalIsFinite
  <2>2. \A n \in Nat : n > 0 => (n >= 2 <=> n # 1)
    OBVIOUS
  <2> QED
    BY <2>1, <2>2
<1>7. (\A i \in DOMAIN r.runs : r.runs[i].seed # None) <=> ~LacksSeed(r)
  BY DEF LacksSeed
<1>8. ~LacksSeed(r) =>
        (IsInjective([i \in DOMAIN r.runs |-> r.runs[i].seed]) <=> ~RepeatsSeed(r))
  BY <1>7 DEF RepeatsSeed, IsInjective
<1> QED
  BY <1>5, <1>6, <1>7, <1>8 DEF IndependentRuns

LEMMA ResultImpacts ==
  ASSUME claim \in ClaimChoices, NEW b, NEW c, IsResults(b), IsResults(c),
         Summarizable(b.runs), Summarizable(c.runs)
  PROVE  ~Grave(ResultFindings(b, c)) /\ ~Lacking(ResultFindings(b, c)) <=>
            /\ IndependentRuns(b) /\ HonestSummary(b)
            /\ IndependentRuns(c) /\ HonestSummary(c)
            /\ Improves(b, c)
<1> DEFINE g == Gain(b, c, claim)
           p == Pairs(b, c)
<1>1. /\ Total(b.runs) \in Int /\ Total(c.runs) \in Int
      /\ Len(b.runs) \in Nat /\ Len(c.runs) \in Nat
      /\ Largest \in Nat /\ claim.threshold \in Nat /\ claim.higher \in BOOLEAN
  BY TotalIsFinite, WorldAssumption
<1>2. g \in Int
  BY <1>1 DEF Gain
<1>n. \A m, n \in Nat : m * n \in Nat
  OBVIOUS
<1>3. p \in Nat
  BY <1>1, <1>n DEF Pairs
<1> HIDE DEF g, p
<1>p. claim.threshold * p \in Nat /\ Largest * p \in Nat
  BY <1>1, <1>3, <1>n
<1>4. GainOverflows(b, c, claim) <=> ~(-(Largest * p) <= g /\ g <= Largest * p)
  BY <1>2, <1>3, <1>p DEF GainOverflows, g, p
<1>5. Improves(b, c) <=> g >= claim.threshold * p /\ g <= Largest * p
  BY DEF Improves, g, p
<1>6. CASE GainOverflows(b, c, claim)
  <2>1. ~Improves(b, c)
    BY <1>2, <1>p, <1>4, <1>5, <1>6
  <2>2. Lacking(ResultFindings(b, c))
    BY <1>6, OneFound DEF ResultFindings
  <2> QED
    BY <2>1, <2>2
<1>7. CASE ~GainOverflows(b, c, claim)
  <2> DEFINE I == If(Imbalanced(Len(b.runs), Len(c.runs)),
                     Found("SEED.IMBALANCE", "both", "NONE"))
             issues == SeedIssues("baseline", b) \cup SeedIssues("candidate", c) \cup I
             R == {Found("RESULT.RECOMPUTED", "both", "NONE")}
             M == If(Mismatches(b), Found("RESULT.SUMMARY_MISMATCH", "baseline", "INVALIDATES"))
             N == If(Mismatches(c), Found("RESULT.SUMMARY_MISMATCH", "candidate", "INVALIDATES"))
             V == If(issues = {}, Found("SEED.EVIDENCE_VERIFIED", "both", "NONE"))
             C == {ClaimFinding(b, c, claim)}
  <2>1. ResultFindings(b, c) = issues \cup R \cup M \cup N \cup V \cup C
    BY <1>7 DEF ResultFindings, RunFindings
  <2>2. ~Grave(I) /\ ~Lacking(I)
    BY NoneFound
  <2>3. ~Grave(R) /\ ~Lacking(R)
    BY OneFound
  <2>4. (Grave(M) <=> ~HonestSummary(b)) /\ ~Lacking(M)
    <3>1. (Grave(M) <=> Mismatches(b)) /\ ~Lacking(M)
      BY IfFound DEF Mismatches
    <3> QED
      BY <3>1 DEF Mismatches, HonestSummary
  <2>5. (Grave(N) <=> ~HonestSummary(c)) /\ ~Lacking(N)
    <3>1. (Grave(N) <=> Mismatches(c)) /\ ~Lacking(N)
      BY IfFound DEF Mismatches
    <3> QED
      BY <3>1 DEF Mismatches, HonestSummary
  <2>6. ~Grave(V) /\ ~Lacking(V)
    BY NoneFound
  <2>7. (Grave(C) <=> ~(g >= claim.threshold * p)) /\ ~Lacking(C)
    BY OneFound DEF ClaimFinding, g, p
  <2>8. /\ ~Grave(SeedIssues("baseline", b)) /\ ~Grave(SeedIssues("candidate", c))
        /\ Lacking(SeedIssues("baseline", b)) <=> ~IndependentRuns(b)
        /\ Lacking(SeedIssues("candidate", c)) <=> ~IndependentRuns(c)
    BY SeedImpacts
  <2> HIDE DEF I, R, M, N, V, C
  <2>9. ~Grave(issues) /\ (Lacking(issues) <=> ~IndependentRuns(b) \/ ~IndependentRuns(c))
    BY <2>2, <2>8 DEF Grave, Lacking
  <2> HIDE DEF issues
  <2>a. LET fs == ResultFindings(b, c)
        IN  /\ Grave(fs) <=> \/ Grave(issues) \/ Grave(R) \/ Grave(M) \/ Grave(N) \/ Grave(V)
                             \/ Grave(C)
            /\ Lacking(fs) <=> \/ Lacking(issues) \/ Lacking(R) \/ Lacking(M) \/ Lacking(N)
                               \/ Lacking(V) \/ Lacking(C)
    BY <2>1 DEF Grave, Lacking
  <2>10. /\ Grave(ResultFindings(b, c)) <=>
              ~HonestSummary(b) \/ ~HonestSummary(c) \/ ~(g >= claim.threshold * p)
         /\ Lacking(ResultFindings(b, c)) <=> ~IndependentRuns(b) \/ ~IndependentRuns(c)
    BY <2>a, <2>3, <2>4, <2>5, <2>6, <2>7, <2>9
  <2>11. Improves(b, c) <=> g >= claim.threshold * p
    BY <1>4, <1>5, <1>7
  <2> QED
    BY <2>10, <2>11
<1> QED
  BY <1>6, <1>7

-----------------------------------------------------------------------------------
(* Datasets.                                                                 *)

LEMMA SomeOccur ==
  ASSUME NEW f \in Seq(LineKinds), NEW d \in Digests
  PROVE  /\ Whole(f)[d] \in Nat
         /\ Whole(f)[d] > 0 <=> \E i \in 1..Len(f) : f[i] = d
<1> DEFINE places == {i \in 1..Len(f) : f[i] = d}
<1>1. Whole(f)[d] = Cardinality(places)
  BY DEF Whole, Multiplicity
<1>2. IsFiniteSet(places) /\ Cardinality(places) \in Nat
  <2>1. Len(f) \in Nat /\ places \subseteq 1..Len(f)
    OBVIOUS
  <2>2. IsFiniteSet(1..Len(f))
    BY <2>1, FS_Interval
  <2> HIDE DEF places
  <2> QED
    BY <2>1, <2>2, FS_Subset, FS_CardinalityType
<1>3. Cardinality(places) = 0 <=> places = {}
  <2> HIDE DEF places
  <2> QED
    BY <1>2, FS_EmptySet
<1>4. places = {} <=> ~\E i \in 1..Len(f) : f[i] = d
  OBVIOUS
<1> HIDE DEF places
<1> QED
  BY <1>1, <1>2, <1>3, <1>4

LEMMA LeaksIsShared ==
  ASSUME NEW f \in Seq(LineKinds), NEW g \in Seq(LineKinds)
  PROVE  Leaks(f, g) <=> SharedRecord(f, Len(f), g, Len(g))
<1>1. ASSUME NEW d \in Digests
      PROVE  /\ Whole(f)[d] > 0 <=> \E i \in 1..Len(f) : f[i] = d
             /\ Whole(g)[d] > 0 <=> \E i \in 1..Len(g) : g[i] = d
  BY SomeOccur
<1> QED
  BY <1>1 DEF Leaks, SharedRecord

LEMMA LeakageImpact ==
  ASSUME NEW x, NEW f \in Seq(LineKinds), NEW g \in Seq(LineKinds)
  PROVE  /\ Grave({LeakageFinding(x, f, g)}) <=> SharedRecord(f, Len(f), g, Len(g))
         /\ ~Lacking({LeakageFinding(x, f, g)})
BY LeaksIsShared, OneFound DEF LeakageFinding

LEMMA AlignmentImpact ==
  ASSUME NEW f, NEW g
  PROVE  /\ Grave({AlignmentFinding(f, g)}) <=> Whole(f) # Whole(g)
         /\ ~Lacking({AlignmentFinding(f, g)})
BY OneFound DEF AlignmentFinding

-----------------------------------------------------------------------------------
(* What is compared.                                                         *)

\* The content of one artifact.
Content(w, a) ==
    IF a[1] = "config" THEN w.config[a[2]]
    ELSE IF a[1] = "results" THEN w.results[a[2]]
    ELSE w.data[<<a[2], a[1]>>]

LEMMA ReadOrderIs ==
  /\ DOMAIN ReadOrder = 1..8 /\ Len(ReadOrder) = 8
  /\ ReadOrder[1] = <<"config", "baseline">> /\ ReadOrder[2] = <<"config", "candidate">>
  /\ ReadOrder[3] = <<"results", "baseline">> /\ ReadOrder[4] = <<"results", "candidate">>
  /\ ReadOrder[5] = <<"train", "baseline">> /\ ReadOrder[6] = <<"eval", "baseline">>
  /\ ReadOrder[7] = <<"train", "candidate">> /\ ReadOrder[8] = <<"eval", "candidate">>
BY DEF ReadOrder

LEMMA ReadOnce ==
  ASSUME NEW i \in 1..8, NEW j \in 1..8, ReadOrder[i] = ReadOrder[j]
  PROVE  i = j
BY ReadOrderIs

LEMMA ReadAll ==
  Artifacts = {ReadOrder[i] : i \in 1..8}
<1>1. ASSUME NEW a \in Artifacts PROVE \E i \in 1..8 : a = ReadOrder[i]
  BY ReadOrderIs DEF Artifacts, Kinds, Splits, Experiments
<1>2. ASSUME NEW i \in 1..8 PROVE ReadOrder[i] \in Artifacts
  BY ReadOrderIs DEF Artifacts, Kinds, Splits, Experiments
<1> QED
  BY <1>1, <1>2

LEMMA SplitsLast ==
  ASSUME NEW i \in 1..8
  PROVE  ReadOrder[i][1] \in Splits <=> i > 4
BY ReadOrderIs DEF Splits

\* The comparison each artifact completes.
LEMMA ComparedWith ==
  ASSUME NEW s, NEW l
  PROVE  /\ Comparisons(s, l, ReadOrder[1]) = {} /\ Comparisons(s, l, ReadOrder[3]) = {}
         /\ Comparisons(s, l, ReadOrder[5]) = {} /\ Comparisons(s, l, ReadOrder[7]) = {}
         /\ Comparisons(s, l, ReadOrder[2]) =
              IF ReadOrder[1] \in l /\ ReadOrder[2] \in l
              THEN ConfigFindings(s.config["baseline"], s.config["candidate"]) ELSE {}
         /\ Comparisons(s, l, ReadOrder[4]) =
              IF ReadOrder[3] \in l /\ ReadOrder[4] \in l
              THEN ResultFindings(s.results["baseline"], s.results["candidate"]) ELSE {}
         /\ Comparisons(s, l, ReadOrder[6]) =
              IF ReadOrder[5] \in l /\ ReadOrder[6] \in l
              THEN {LeakageFinding("baseline", s.data[<<"baseline", "train">>],
                                               s.data[<<"baseline", "eval">>])} ELSE {}
         /\ Comparisons(s, l, ReadOrder[8]) =
              (IF ReadOrder[7] \in l /\ ReadOrder[8] \in l
               THEN {LeakageFinding("candidate", s.data[<<"candidate", "train">>],
                                                 s.data[<<"candidate", "eval">>])} ELSE {})
              \cup (IF ReadOrder[6] \in l /\ ReadOrder[8] \in l
                    THEN {AlignmentFinding(s.data[<<"baseline", "eval">>],
                                           s.data[<<"candidate", "eval">>])} ELSE {})
<1>1. Comparisons(s, l, ReadOrder[1]) = {} /\ Comparisons(s, l, ReadOrder[3]) = {}
  BY ReadOrderIs DEF Comparisons
<1>2. Comparisons(s, l, ReadOrder[5]) = {} /\ Comparisons(s, l, ReadOrder[7]) = {}
  BY ReadOrderIs DEF Comparisons
<1>3. Comparisons(s, l, ReadOrder[2]) =
        IF ReadOrder[1] \in l /\ ReadOrder[2] \in l
        THEN ConfigFindings(s.config["baseline"], s.config["candidate"]) ELSE {}
  BY ReadOrderIs DEF Comparisons
<1>4. Comparisons(s, l, ReadOrder[4]) =
        IF ReadOrder[3] \in l /\ ReadOrder[4] \in l
        THEN ResultFindings(s.results["baseline"], s.results["candidate"]) ELSE {}
  BY ReadOrderIs DEF Comparisons
<1>5. Comparisons(s, l, ReadOrder[6]) =
        IF ReadOrder[5] \in l /\ ReadOrder[6] \in l
        THEN {LeakageFinding("baseline", s.data[<<"baseline", "train">>],
                                         s.data[<<"baseline", "eval">>])} ELSE {}
  BY ReadOrderIs DEF Comparisons, If
<1>6. Comparisons(s, l, ReadOrder[8]) =
        (IF ReadOrder[7] \in l /\ ReadOrder[8] \in l
         THEN {LeakageFinding("candidate", s.data[<<"candidate", "train">>],
                                           s.data[<<"candidate", "eval">>])} ELSE {})
        \cup (IF ReadOrder[6] \in l /\ ReadOrder[8] \in l
              THEN {AlignmentFinding(s.data[<<"baseline", "eval">>],
                                     s.data[<<"candidate", "eval">>])} ELSE {})
  BY ReadOrderIs DEF Comparisons, If
<1> QED
  BY <1>1, <1>2, <1>3, <1>4, <1>5, <1>6

\* A comparison is of artifacts that have been read when it is made.
Agree(s, l, t, m, i) ==
    \A j \in 1..i : /\ ReadOrder[j] \in l <=> ReadOrder[j] \in m
                    /\ Content(s, ReadOrder[j]) = Content(t, ReadOrder[j])

LEMMA ComparedOnce ==
  ASSUME NEW s, NEW l, NEW t, NEW m, NEW i \in 1..8, Agree(s, l, t, m, i)
  PROVE  Comparisons(s, l, ReadOrder[i]) = Comparisons(t, m, ReadOrder[i])
<1>1. ASSUME NEW j \in 1..8, j <= i
      PROVE  /\ ReadOrder[j] \in l <=> ReadOrder[j] \in m
             /\ Content(s, ReadOrder[j]) = Content(t, ReadOrder[j])
  BY <1>1 DEF Agree
<1>2. CASE i \in {1, 3, 5, 7}
  BY <1>2, ComparedWith
<1>3. CASE i = 2
  <2>1. /\ s.config["baseline"] = t.config["baseline"]
        /\ s.config["candidate"] = t.config["candidate"]
    BY <1>1, <1>3, ReadOrderIs DEF Content
  <2>2. (ReadOrder[1] \in l <=> ReadOrder[1] \in m) /\ (ReadOrder[2] \in l <=> ReadOrder[2] \in m)
    BY <1>1, <1>3
  <2>3. Comparisons(s, l, ReadOrder[2]) =
          IF ReadOrder[1] \in l /\ ReadOrder[2] \in l
          THEN ConfigFindings(s.config["baseline"], s.config["candidate"]) ELSE {}
    BY ComparedWith
  <2>4. Comparisons(t, m, ReadOrder[2]) =
          IF ReadOrder[1] \in m /\ ReadOrder[2] \in m
          THEN ConfigFindings(t.config["baseline"], t.config["candidate"]) ELSE {}
    BY ComparedWith
  <2> QED
    BY <2>1, <2>2, <2>3, <2>4, <1>3
<1>4. CASE i = 4
  <2>1. /\ s.results["baseline"] = t.results["baseline"]
        /\ s.results["candidate"] = t.results["candidate"]
    BY <1>1, <1>4, ReadOrderIs DEF Content
  <2>2. (ReadOrder[3] \in l <=> ReadOrder[3] \in m) /\ (ReadOrder[4] \in l <=> ReadOrder[4] \in m)
    BY <1>1, <1>4
  <2>3. Comparisons(s, l, ReadOrder[4]) =
          IF ReadOrder[3] \in l /\ ReadOrder[4] \in l
          THEN ResultFindings(s.results["baseline"], s.results["candidate"]) ELSE {}
    BY ComparedWith
  <2>4. Comparisons(t, m, ReadOrder[4]) =
          IF ReadOrder[3] \in m /\ ReadOrder[4] \in m
          THEN ResultFindings(t.results["baseline"], t.results["candidate"]) ELSE {}
    BY ComparedWith
  <2> QED
    BY <2>1, <2>2, <2>3, <2>4, <1>4
<1>5. CASE i = 6
  <2>1. /\ s.data[<<"baseline", "train">>] = t.data[<<"baseline", "train">>]
        /\ s.data[<<"baseline", "eval">>] = t.data[<<"baseline", "eval">>]
    BY <1>1, <1>5, ReadOrderIs DEF Content
  <2>2. (ReadOrder[5] \in l <=> ReadOrder[5] \in m) /\ (ReadOrder[6] \in l <=> ReadOrder[6] \in m)
    BY <1>1, <1>5
  <2>3. Comparisons(s, l, ReadOrder[6]) =
          IF ReadOrder[5] \in l /\ ReadOrder[6] \in l
          THEN {LeakageFinding("baseline", s.data[<<"baseline", "train">>],
                                             s.data[<<"baseline", "eval">>])} ELSE {}
    BY ComparedWith
  <2>4. Comparisons(t, m, ReadOrder[6]) =
          IF ReadOrder[5] \in m /\ ReadOrder[6] \in m
          THEN {LeakageFinding("baseline", t.data[<<"baseline", "train">>],
                                             t.data[<<"baseline", "eval">>])} ELSE {}
    BY ComparedWith
  <2> QED
    BY <2>1, <2>2, <2>3, <2>4, <1>5
<1>6. CASE i = 8
  <2>1. /\ s.data[<<"candidate", "train">>] = t.data[<<"candidate", "train">>]
        /\ s.data[<<"candidate", "eval">>] = t.data[<<"candidate", "eval">>]
        /\ s.data[<<"baseline", "eval">>] = t.data[<<"baseline", "eval">>]
    BY <1>1, <1>6, ReadOrderIs DEF Content
  <2>2. /\ ReadOrder[6] \in l <=> ReadOrder[6] \in m
        /\ ReadOrder[7] \in l <=> ReadOrder[7] \in m
        /\ ReadOrder[8] \in l <=> ReadOrder[8] \in m
    BY <1>1, <1>6
  <2>3. Comparisons(s, l, ReadOrder[8]) =
          (IF ReadOrder[7] \in l /\ ReadOrder[8] \in l
           THEN {LeakageFinding("candidate", s.data[<<"candidate", "train">>],
                                             s.data[<<"candidate", "eval">>])} ELSE {})
          \cup (IF ReadOrder[6] \in l /\ ReadOrder[8] \in l
                THEN {AlignmentFinding(s.data[<<"baseline", "eval">>],
                                       s.data[<<"candidate", "eval">>])} ELSE {})
    BY ComparedWith
  <2>4. Comparisons(t, m, ReadOrder[8]) =
          (IF ReadOrder[7] \in m /\ ReadOrder[8] \in m
           THEN {LeakageFinding("candidate", t.data[<<"candidate", "train">>],
                                             t.data[<<"candidate", "eval">>])} ELSE {})
          \cup (IF ReadOrder[6] \in m /\ ReadOrder[8] \in m
                THEN {AlignmentFinding(t.data[<<"baseline", "eval">>],
                                       t.data[<<"candidate", "eval">>])} ELSE {})
    BY ComparedWith
  <2> QED
    BY <2>1, <2>2, <2>3, <2>4, <1>6
<1> QED
  BY <1>2, <1>3, <1>4, <1>5, <1>6

\* With more to compare, nothing that was found is lost.
LEMMA ComparedMore ==
  ASSUME NEW s, NEW l, NEW m, l \subseteq m, NEW a \in Artifacts
  PROVE  Comparisons(s, l, a) \subseteq Comparisons(s, m, a)
<1>1. PICK i \in 1..8 : a = ReadOrder[i]
  BY ReadAll
<1>2. CASE i \in {1, 3, 5, 7}
  BY <1>1, <1>2, ComparedWith
<1>3. CASE i = 2
  BY <1>1, <1>3, ComparedWith
<1>4. CASE i = 4
  BY <1>1, <1>4, ComparedWith
<1>5. CASE i = 6
  BY <1>1, <1>5, ComparedWith
<1>6. CASE i = 8
  <2>1. Comparisons(s, l, ReadOrder[8]) =
          (IF ReadOrder[7] \in l /\ ReadOrder[8] \in l
           THEN {LeakageFinding("candidate", s.data[<<"candidate", "train">>],
                                             s.data[<<"candidate", "eval">>])} ELSE {})
          \cup (IF ReadOrder[6] \in l /\ ReadOrder[8] \in l
                THEN {AlignmentFinding(s.data[<<"baseline", "eval">>],
                                       s.data[<<"candidate", "eval">>])} ELSE {})
    BY ComparedWith
  <2>2. Comparisons(s, m, ReadOrder[8]) =
          (IF ReadOrder[7] \in m /\ ReadOrder[8] \in m
           THEN {LeakageFinding("candidate", s.data[<<"candidate", "train">>],
                                             s.data[<<"candidate", "eval">>])} ELSE {})
          \cup (IF ReadOrder[6] \in m /\ ReadOrder[8] \in m
                THEN {AlignmentFinding(s.data[<<"baseline", "eval">>],
                                       s.data[<<"candidate", "eval">>])} ELSE {})
    BY ComparedWith
  <2> QED
    BY <2>1, <2>2, <1>1, <1>6
<1> QED
  BY <1>2, <1>3, <1>4, <1>5, <1>6

LEMMA FailureIs ==
  ASSUME NEW a \in Artifacts
  PROVE  /\ Failures(a) # {}
         /\ \A f \in Failures(a) : f.impact = "INSUFFICIENT"
<1>1. FailureRules[a[1]] # {}
  BY DEF Artifacts, Kinds, Splits, FailureRules
<1>2. PICK r : r \in FailureRules[a[1]]
  BY <1>1
<1>3. Found(r, a[2], "INSUFFICIENT") \in Failures(a)
  BY <1>2 DEF Failures
<1>4. \A f \in Failures(a) : f.impact = "INSUFFICIENT"
  BY DEF Failures, Found
<1> QED
  BY <1>3, <1>4

-----------------------------------------------------------------------------------
(* The invariant.                                                            *)

LEMMA CopyKeeps ==
  ASSUME NEW s, NEW w, IsWorld(s), IsWorld(w), NEW a \in Artifacts
  PROVE  /\ IsWorld(Copy(s, w, a))
         /\ Content(Copy(s, w, a), a) = Content(w, a)
         /\ \A b \in Artifacts \ {a} : Content(Copy(s, w, a), b) = Content(s, b)
<1>1. /\ a = <<a[1], a[2]>> /\ a[2] \in Experiments
      /\ a[1] \in {"config", "results", "train", "eval"}
  BY DEF Artifacts, Kinds, Splits
<1>2. \A b \in Artifacts : b = <<b[1], b[2]>> /\ b[2] \in Experiments /\ b[1] \in Kinds
  BY DEF Artifacts
<1>3. CASE a[1] = "config"
  <2>1. Copy(s, w, a) = [s EXCEPT !.config[a[2]] = w.config[a[2]]]
    BY <1>3 DEF Copy
  <2>2. /\ Copy(s, w, a).config = [s.config EXCEPT ![a[2]] = w.config[a[2]]]
        /\ Copy(s, w, a).results = s.results /\ Copy(s, w, a).data = s.data
        /\ DOMAIN Copy(s, w, a) = {"config", "results", "data"}
    BY <2>1 DEF IsWorld
  <2> HIDE DEF Copy
  <2>3. IsWorld(Copy(s, w, a))
    <3>1. DOMAIN Copy(s, w, a).config = Experiments
      BY <2>2 DEF IsWorld
    <3>2. \A x \in Experiments : Copy(s, w, a).config[x] = s.config[x]
                                 \/ Copy(s, w, a).config[x] = w.config[x]
      BY <2>2, <1>1 DEF IsWorld
    <3> QED
      BY <2>2, <3>1, <3>2 DEF IsWorld
  <2>4. Content(Copy(s, w, a), a) = Content(w, a)
    BY <2>2, <1>1, <1>3 DEF IsWorld, Content
  <2>5. ASSUME NEW b \in Artifacts \ {a} PROVE Content(Copy(s, w, a), b) = Content(s, b)
    <3>1. b[1] = "config" => b[2] # a[2]
      BY <1>1, <1>2, <1>3
    <3> QED
      BY <2>2, <3>1, <1>2 DEF IsWorld, Content
  <2> QED
    BY <2>3, <2>4, <2>5
<1>4. CASE a[1] = "results"
  <2>1. Copy(s, w, a) = [s EXCEPT !.results[a[2]] = w.results[a[2]]]
    BY <1>4 DEF Copy
  <2>2. /\ Copy(s, w, a).results = [s.results EXCEPT ![a[2]] = w.results[a[2]]]
        /\ Copy(s, w, a).config = s.config /\ Copy(s, w, a).data = s.data
        /\ DOMAIN Copy(s, w, a) = {"config", "results", "data"}
    BY <2>1 DEF IsWorld
  <2> HIDE DEF Copy
  <2>3. IsWorld(Copy(s, w, a))
    <3>1. DOMAIN Copy(s, w, a).results = Experiments
      BY <2>2 DEF IsWorld
    <3>2. \A x \in Experiments : Copy(s, w, a).results[x] = s.results[x]
                                 \/ Copy(s, w, a).results[x] = w.results[x]
      BY <2>2, <1>1 DEF IsWorld
    <3> QED
      BY <2>2, <3>1, <3>2 DEF IsWorld
  <2>4. Content(Copy(s, w, a), a) = Content(w, a)
    BY <2>2, <1>1, <1>4 DEF IsWorld, Content
  <2>5. ASSUME NEW b \in Artifacts \ {a} PROVE Content(Copy(s, w, a), b) = Content(s, b)
    <3>1. b[1] = "results" => b[2] # a[2]
      BY <1>1, <1>2, <1>4
    <3> QED
      BY <2>2, <3>1, <1>2 DEF IsWorld, Content
  <2> QED
    BY <2>3, <2>4, <2>5
<1>5. CASE a[1] \in {"train", "eval"}
  <2> DEFINE key == <<a[2], a[1]>>
  <2>0. key \in Keys
    BY <1>1, <1>5 DEF Keys, Splits
  <2>1. Copy(s, w, a) = [s EXCEPT !.data[key] = w.data[key]]
    BY <1>5 DEF Copy
  <2>2. /\ Copy(s, w, a).data = [s.data EXCEPT ![key] = w.data[key]]
        /\ Copy(s, w, a).config = s.config /\ Copy(s, w, a).results = s.results
        /\ DOMAIN Copy(s, w, a) = {"config", "results", "data"}
    BY <2>1 DEF IsWorld
  <2> HIDE DEF Copy
  <2>3. IsWorld(Copy(s, w, a))
    <3>1. w.data[key] \in Seq(LineKinds \ {"too_long"})
      BY <2>0 DEF IsWorld
    <3>2. Copy(s, w, a).data \in [Keys -> Seq(LineKinds \ {"too_long"})]
      BY <2>2, <2>0, <3>1 DEF IsWorld
    <3> QED
      BY <2>2, <3>2 DEF IsWorld
  <2>4. Content(Copy(s, w, a), a) = Content(w, a)
    BY <2>2, <2>0, <1>5 DEF IsWorld, Content
  <2>5. ASSUME NEW b \in Artifacts \ {a} PROVE Content(Copy(s, w, a), b) = Content(s, b)
    <3>1. CASE b[1] \in Splits
      <4>1. <<b[2], b[1]>> # key /\ <<b[2], b[1]>> \in Keys
        BY <1>1, <1>2, <3>1 DEF Keys
      <4> HIDE DEF key
      <4> QED
        BY <2>2, <4>1, <3>1 DEF IsWorld, Content, Splits
    <3>2. CASE b[1] \notin Splits
      BY <2>2, <1>2, <3>2 DEF Content, Kinds, Splits
    <3> QED
      BY <3>1, <3>2
  <2> QED
    BY <2>3, <2>4, <2>5
<1> QED
  BY <1>1, <1>3, <1>4, <1>5

\* Whether an artifact can be loaded depends on its content only.
LEMMA LoadableIs ==
  ASSUME NEW s, NEW w, NEW a \in Artifacts, Content(s, a) = Content(w, a)
  PROVE  Loadable(s, a) <=> Loadable(w, a)
BY DEF Loadable, Content, Artifacts, Kinds, Splits

LEMMA InitBegins ==
  Init => AuditInv
<1> SUFFICES ASSUME Init PROVE AuditInv
  OBVIOUS
<1>1. IsWorld(world) /\ seen = world /\ claim \in ClaimChoices /\ streamed \in BOOLEAN
  BY WorldAssumption DEF Init
<1>2. at = 0 /\ loaded = {} /\ findings = {} /\ verdict = None
  BY DEF Init
<1>3. LooksInv
  <2>1. \A key \in Keys : world.data[key] \in Seq(LineKinds \ {"too_long"})
    BY <1>1 DEF IsWorld
  <2> DEFINE looks == [key \in Keys |-> WholeLook(world.data[key])]
  <2>2. PICK k0 \in Keys : \E part \in PartLooks(world.data[k0]) :
           \/ looked = looks
           \/ looked = [looks EXCEPT ![k0] = part]
    <3>1. <<"baseline", "train">> \in Keys
      BY DEF Keys, Experiments, Splits
    <3>2. \A k \in Keys : PartLooks(world.data[k]) # {}
      <4> TAKE k \in Keys
      <4>1. [done |-> TRUE, lines |-> 0, complete |-> FALSE] \in PartLooks(world.data[k])
        BY <2>1 DEF PartLooks
      <4> QED
        BY <4>1
    <3> QED
      BY <3>1, <3>2 DEF Init
  <2>3. PICK part \in PartLooks(world.data[k0]) :
           \/ looked = looks
           \/ looked = [looks EXCEPT ![k0] = part]
    BY <2>2
  <2>4. \A key \in Keys : looked[key] = WholeLook(world.data[key])
                          \/ (looked[key] = part /\ key = k0)
    <3> TAKE key \in Keys
    <3>1. looks[key] = WholeLook(world.data[key]) /\ DOMAIN looks = Keys
      OBVIOUS
    <3> HIDE DEF looks
    <3>2. [looks EXCEPT ![k0] = part][key] = IF key = k0 THEN part ELSE looks[key]
      BY <3>1
    <3>3. CASE looked = looks
      BY <3>1, <3>3
    <3>4. CASE looked = [looks EXCEPT ![k0] = part]
      BY <3>1, <3>2, <3>4
    <3> QED
      BY <2>3, <3>3, <3>4
  <2>5. ASSUME NEW key \in Keys
        PROVE  /\ looked[key].complete \in BOOLEAN
               /\ looked[key].lines \in 0..Len(world.data[key])
               /\ looked[key].complete => /\ Clean(world.data[key])
                                         /\ looked[key].lines = Len(world.data[key])
    <3>0. Len(world.data[key]) \in Nat
      BY <2>1
    <3>1. CASE looked[key] = WholeLook(world.data[key])
      <4>1. Clean(world.data[key]) \in BOOLEAN
        BY DEF Clean
      <4> QED
        BY <3>0, <3>1, <4>1 DEF WholeLook
    <3>2. CASE looked[key] = part /\ key = k0
      BY <3>2 DEF PartLooks
    <3> QED
      BY <2>4, <3>1, <3>2
  <2> QED
    BY <2>5 DEF LooksInv
<1>4. Behind = {}
  BY <1>2, ReadOrderIs DEF Behind
<1>5. Compared = {}
  BY <1>2, <1>4, ReadOrderIs DEF Compared
<1>6. FindingsInv
  BY <1>2, <1>4, <1>5 DEF FindingsInv
<1>7. verdict \notin Verdicts
  BY <1>2 DEF None, Verdicts
<1> QED
  BY <1>1, <1>2, <1>3, <1>4, <1>6, <1>7, ReadOrderIs DEF AuditInv

\* The findings of the artifacts read so far.
LEMMA ComparedSoFar ==
  ASSUME AuditInv
  PROVE  /\ Behind \subseteq Artifacts
         /\ at \in 0..9
         /\ \A i \in 1..8 : ReadOrder[i] \in Behind <=> i < at /\ ~(streamed /\ i > 4)
<1>1. at \in 0..9
  BY ReadOrderIs DEF AuditInv
<1>2. ASSUME NEW i \in 1..8
      PROVE  ReadOrder[i] \in Behind <=> i < at /\ ~(streamed /\ i > 4)
  <2>1. ReadOrder[i] \in Behind <=>
          /\ \E j \in 1..8 : j < at /\ ReadOrder[i] = ReadOrder[j]
          /\ ~(streamed /\ ReadOrder[i][1] \in Splits)
    BY ReadOrderIs DEF Behind
  <2>2. (\E j \in 1..8 : j < at /\ ReadOrder[i] = ReadOrder[j]) <=> i < at
    BY ReadOnce
  <2> QED
    BY <2>1, <2>2, SplitsLast
<1>3. Behind \subseteq Artifacts
  BY ReadOrderIs, ReadAll DEF Behind
<1> QED
  BY <1>1, <1>2, <1>3

LEMMA OtherSteps ==
  ASSUME AuditInv, UNCHANGED <<claim, streamed, looked, seen, loaded>>,
         IsWorld(world'), streamed => world'.data = world.data
  PROVE  /\ claim' \in ClaimChoices /\ streamed' \in BOOLEAN
         /\ IsWorld(world)' /\ IsWorld(seen)'
         /\ streamed => LooksInv'
         /\ \A a \in loaded' : Loadable(seen', a)
<1>1. LooksInv /\ streamed => LooksInv'
  BY DEF LooksInv
<1>2. IsWorld(world)' <=> IsWorld(world')
  BY DEF IsWorld, IsConfig, IsResults, LineKinds
<1> QED
  BY <1>1, <1>2 DEF AuditInv, IsWorld

\* The findings of the streamed datasets are of their contents and the looks alone.
LEMMA StreamFindingsSame ==
  ASSUME world'.data = world.data, looked' = looked
  PROVE  StreamFindings(world.data, looked)' = StreamFindings(world.data, looked)
BY DEF StreamFindings, Stream!Warranted, Stream!Leaks, Stream!Complete,
       Stream!EvaluationsComplete, Stream!AlignmentRule, Stream!EvaluationsEqual,
       Stream!Finding, Stream!Experiments, Stream!SharedRecord, Stream!Whole, 
       Stream!Multiplicity, Stream!Keys

LEMMA StreamImpacts ==
  ASSUME NEW files, NEW look
  PROVE  /\ Grave(StreamFindings(files, look)) <=>
              \/ \E x \in Experiments :
                   SharedRecord(files[<<x, "train">>], look[<<x, "train">>].lines,
                                files[<<x, "eval">>], look[<<x, "eval">>].lines)
              \/ /\ \A x \in Experiments : look[<<x, "eval">>].complete
                 /\ Whole(files[<<"baseline", "eval">>]) # Whole(files[<<"candidate", "eval">>])
         /\ Lacking(StreamFindings(files, look)) <=>
              \E x \in Experiments :
                ~(look[<<x, "train">>].complete /\ look[<<x, "eval">>].complete)
         /\ \A f \in StreamFindings(files, look) :
              \/ f.rule \in {"DATASET.EXACT_LEAKAGE", "DATASET.NO_LEAKAGE",
                             "DATASET.SCAN_INCOMPLETE", "DATASET.EVALUATION_ALIGNED"}
              \/ /\ f.rule = "DATASET.EVALUATION_MISMATCH" /\ f.impact = "INVALIDATES"
                 /\ \A x \in Experiments : look[<<x, "eval">>].complete
                 /\ Whole(files[<<"baseline", "eval">>]) # Whole(files[<<"candidate", "eval">>])
<1> DEFINE W == Stream(files, look)!Warranted
           leaks(x) == SharedRecord(files[<<x, "train">>], look[<<x, "train">>].lines,
                                    files[<<x, "eval">>], look[<<x, "eval">>].lines)
           whole(x) == look[<<x, "train">>].complete /\ look[<<x, "eval">>].complete
           all == \A x \in Experiments : look[<<x, "eval">>].complete
           equal == Whole(files[<<"baseline", "eval">>]) = Whole(files[<<"candidate", "eval">>])
<1> DEFINE A == {[rule |-> "EXACT_LEAKAGE", experiment |-> x] : x \in {y \in Experiments : leaks(y)}}
           B == {[rule |-> "NO_LEAKAGE", experiment |-> x] :
                    x \in {y \in Experiments : whole(y) /\ ~leaks(y)}}
           C == {[rule |-> "SCAN_INCOMPLETE", experiment |-> x] :
                    x \in {y \in Experiments : ~whole(y)}}
           D == IF all THEN {[rule |-> IF equal THEN "EVALUATION_ALIGNED"
                                                ELSE "EVALUATION_MISMATCH",
                              experiment |-> "both"]} ELSE {}
<1>1. W = A \cup B \cup C \cup D
  <2>1. A = {Stream(files, look)!Finding("EXACT_LEAKAGE", x) :
               x \in {y \in Stream(files, look)!Experiments : Stream(files, look)!Leaks(y)}}
    BY DEF Stream!Finding, Stream!Experiments, Stream!Leaks, Stream!SharedRecord,
           Experiments, SharedRecord
  <2>2. B = {Stream(files, look)!Finding("NO_LEAKAGE", x) :
               x \in {y \in Stream(files, look)!Experiments :
                        Stream(files, look)!Complete(y) /\ ~Stream(files, look)!Leaks(y)}}
    BY DEF Stream!Finding, Stream!Experiments, Stream!Leaks, Stream!SharedRecord,
           Stream!Complete, Experiments, SharedRecord
  <2>3. C = {Stream(files, look)!Finding("SCAN_INCOMPLETE", x) :
               x \in {y \in Stream(files, look)!Experiments : ~Stream(files, look)!Complete(y)}}
    BY DEF Stream!Finding, Stream!Experiments, Stream!Complete, Experiments
  <2>4. D = IF Stream(files, look)!EvaluationsComplete
            THEN {Stream(files, look)!Finding(Stream(files, look)!AlignmentRule, "both")} ELSE {}
    <3>1. Stream(files, look)!EvaluationsComplete <=> all
      BY DEF Stream!EvaluationsComplete, Stream!Experiments, Experiments
    <3>0. \A S : Stream(files, look)!Cardinality(S) = Cardinality(S)
      BY DEF Stream!Cardinality, Cardinality
    <3>2. Stream(files, look)!EvaluationsEqual <=> equal
      BY <3>0 DEF Stream!EvaluationsEqual, Stream!Whole, Stream!Multiplicity, Whole, Multiplicity
    <3>3. Stream(files, look)!AlignmentRule =
            IF equal THEN "EVALUATION_ALIGNED" ELSE "EVALUATION_MISMATCH"
      BY <3>2 DEF Stream!AlignmentRule
    <3> HIDE DEF all, equal
    <3>4. Stream(files, look)!Finding(Stream(files, look)!AlignmentRule, "both") =
            [rule |-> IF equal THEN "EVALUATION_ALIGNED" ELSE "EVALUATION_MISMATCH",
             experiment |-> "both"]
      BY <3>3 DEF Stream!Finding
    <3> QED
      BY <3>1, <3>4
  <2> QED
    BY <2>1, <2>2, <2>3, <2>4 DEF Stream!Warranted
<1> DEFINE of(f) == Found(StreamRule[f.rule][1], f.experiment, StreamRule[f.rule][2])
<1>2. StreamFindings(files, look) = {of(f) : f \in W}
  BY DEF StreamFindings
<1>0. \A f \in W : of(f).impact = StreamRule[f.rule][2]
  BY DEF Found
<1> HIDE DEF W, leaks, whole, all, equal, of
<1>3. Grave(StreamFindings(files, look)) <=>
        \E f \in W : StreamRule[f.rule][2] = "INVALIDATES"
  BY <1>0, <1>2 DEF Grave
<1>4. Lacking(StreamFindings(files, look)) <=>
        \E f \in W : StreamRule[f.rule][2] = "INSUFFICIENT"
  BY <1>0, <1>2 DEF Lacking
<1>5. /\ StreamRule["EXACT_LEAKAGE"][2] = "INVALIDATES"
      /\ StreamRule["NO_LEAKAGE"][2] = "NONE"
      /\ StreamRule["SCAN_INCOMPLETE"][2] = "INSUFFICIENT"
      /\ StreamRule["EVALUATION_ALIGNED"][2] = "NONE"
      /\ StreamRule["EVALUATION_MISMATCH"][2] = "INVALIDATES"
  BY DEF StreamRule
<1>6. (\E f \in W : StreamRule[f.rule][2] = "INVALIDATES") <=>
        (\E x \in Experiments : leaks(x)) \/ (all /\ ~equal)
  <2>1. ASSUME NEW f \in W, StreamRule[f.rule][2] = "INVALIDATES"
        PROVE  (\E x \in Experiments : leaks(x)) \/ (all /\ ~equal)
    BY <1>1, <1>5, <2>1
  <2>2. ASSUME NEW x \in Experiments, leaks(x)
        PROVE  \E f \in W : StreamRule[f.rule][2] = "INVALIDATES"
    <3>1. [rule |-> "EXACT_LEAKAGE", experiment |-> x] \in W
      BY <1>1, <2>2
    <3> QED
      BY <3>1, <1>5
  <2>3. ASSUME all, ~equal
        PROVE  \E f \in W : StreamRule[f.rule][2] = "INVALIDATES"
    <3>1. [rule |-> "EVALUATION_MISMATCH", experiment |-> "both"] \in W
      BY <1>1, <2>3
    <3> QED
      BY <3>1, <1>5
  <2> QED
    BY <2>1, <2>2, <2>3
<1>7. (\E f \in W : StreamRule[f.rule][2] = "INSUFFICIENT") <=>
        (\E x \in Experiments : ~whole(x))
  <2>1. ASSUME NEW f \in W, StreamRule[f.rule][2] = "INSUFFICIENT"
        PROVE  \E x \in Experiments : ~whole(x)
    BY <1>1, <1>5, <2>1
  <2>2. ASSUME NEW x \in Experiments, ~whole(x)
        PROVE  \E f \in W : StreamRule[f.rule][2] = "INSUFFICIENT"
    <3>1. [rule |-> "SCAN_INCOMPLETE", experiment |-> x] \in W
      BY <1>1, <2>2
    <3> QED
      BY <3>1, <1>5
  <2> QED
    BY <2>1, <2>2
<1>8. \A f \in W : \/ f.rule \in {"EXACT_LEAKAGE", "NO_LEAKAGE", "SCAN_INCOMPLETE",
                                  "EVALUATION_ALIGNED"}
                  \/ (f.rule = "EVALUATION_MISMATCH" /\ all /\ ~equal)
  BY <1>1
<1>9. /\ StreamRule["EXACT_LEAKAGE"][1] = "DATASET.EXACT_LEAKAGE"
      /\ StreamRule["NO_LEAKAGE"][1] = "DATASET.NO_LEAKAGE"
      /\ StreamRule["SCAN_INCOMPLETE"][1] = "DATASET.SCAN_INCOMPLETE"
      /\ StreamRule["EVALUATION_ALIGNED"][1] = "DATASET.EVALUATION_ALIGNED"
      /\ StreamRule["EVALUATION_MISMATCH"][1] = "DATASET.EVALUATION_MISMATCH"
  BY DEF StreamRule
<1>10. \A f \in W : of(f).rule = StreamRule[f.rule][1]
  BY DEF of, Found
<1>11. ASSUME NEW f \in W
       PROVE  \/ of(f).rule \in {"DATASET.EXACT_LEAKAGE", "DATASET.NO_LEAKAGE",
                                "DATASET.SCAN_INCOMPLETE", "DATASET.EVALUATION_ALIGNED"}
              \/ /\ of(f).rule = "DATASET.EVALUATION_MISMATCH"
                 /\ of(f).impact = "INVALIDATES"
                 /\ all /\ ~equal
  BY <1>0, <1>5, <1>8, <1>9, <1>10
<1>12. \A f \in StreamFindings(files, look) :
         \/ f.rule \in {"DATASET.EXACT_LEAKAGE", "DATASET.NO_LEAKAGE",
                        "DATASET.SCAN_INCOMPLETE", "DATASET.EVALUATION_ALIGNED"}
         \/ /\ f.rule = "DATASET.EVALUATION_MISMATCH" /\ f.impact = "INVALIDATES"
            /\ all /\ ~equal
  BY <1>2, <1>11
<1> QED
  BY <1>3, <1>4, <1>6, <1>7, <1>12 DEF leaks, whole, all, equal

\* What is compared is of the claim, what was seen and what was loaded.
LEMMA ComparedSame ==
  ASSUME UNCHANGED <<claim, seen, loaded>>, Behind' = Behind
  PROVE  (UNION {Comparisons(seen, loaded, a) : a \in Behind})'
           = UNION {Comparisons(seen, loaded, a) : a \in Behind}
<1>1. \A a : Comparisons(seen, loaded, a)' = Comparisons(seen, loaded, a)
  BY DEF Comparisons, ResultFindings
<1> QED
  BY <1>1

LEMMA EditKeeps ==
  ASSUME AuditInv, Edit
  PROVE  AuditInv'
<1>1. PICK w \in Replacements, i \in DOMAIN ReadOrder :
         /\ ReadOrder[i][1] \in Splits => ~streamed
         /\ world' = Copy(world, w, ReadOrder[i])
  BY DEF Edit
<1>2. i \in 1..8 /\ ReadOrder[i] \in Artifacts /\ IsWorld(w) /\ IsWorld(world)
  BY <1>1, ReadOrderIs, ReadAll, WorldAssumption DEF AuditInv
<1>3. IsWorld(world')
  BY <1>1, <1>2, CopyKeeps
<1>4. streamed => world'.data = world.data
  <2> SUFFICES ASSUME streamed PROVE world'.data = world.data
    OBVIOUS
  <2>1. ReadOrder[i][1] \in {"config", "results"}
    BY <1>1, <1>2 DEF Artifacts, Kinds
  <2> QED
    BY <1>1, <1>2, <2>1 DEF Copy, IsWorld
<1>5. UNCHANGED <<claim, streamed, looked, at, seen, loaded, findings, verdict>>
  BY DEF Edit
<1>6. /\ claim' \in ClaimChoices /\ streamed' \in BOOLEAN
      /\ IsWorld(world)' /\ IsWorld(seen)'
      /\ streamed => LooksInv'
      /\ \A a \in loaded' : Loadable(seen', a)
  BY <1>3, <1>4, <1>5, OtherSteps
<1>7. Behind' = Behind
  BY <1>5 DEF Behind
<1>8. Compared' = Compared
  <2>1. streamed => StreamFindings(world.data, looked)' = StreamFindings(world.data, looked)
    BY <1>4, <1>5, StreamFindingsSame
  <2>2. (UNION {Comparisons(seen, loaded, a) : a \in Behind})'
          = UNION {Comparisons(seen, loaded, a) : a \in Behind}
    BY <1>5, <1>7, ComparedSame
  <2> QED
    BY <1>5, <2>1, <2>2 DEF Compared
<1>9. FindingsInv'
  BY <1>5, <1>7, <1>8 DEF FindingsInv, AuditInv
<1> QED
  BY <1>5, <1>6, <1>7, <1>9 DEF AuditInv

LEMMA LoadManifestKeeps ==
  ASSUME AuditInv, LoadManifest
  PROVE  AuditInv'
<1>1. /\ UNCHANGED <<claim, world, streamed, looked, edits, seen, loaded, findings>>
      /\ at = 0 /\ verdict = None
      /\ \/ at' = 1 /\ verdict' = None
         \/ at' = 0 /\ verdict' = "ERROR"
  BY DEF LoadManifest
<1>2. /\ claim' \in ClaimChoices /\ streamed' \in BOOLEAN
      /\ IsWorld(world)' /\ IsWorld(seen)'
      /\ streamed => LooksInv'
      /\ \A a \in loaded' : Loadable(seen', a)
  BY <1>1, OtherSteps DEF AuditInv
<1>3. Behind = {} /\ Behind' = {}
  BY <1>1, ReadOrderIs DEF Behind
<1>4. Compared = {} /\ Compared' = {}
  BY <1>1, <1>3, ReadOrderIs DEF Compared
<1>5. FindingsInv'
  BY <1>1, <1>3, <1>4 DEF FindingsInv, AuditInv
<1>6. verdict' \notin Verdicts
  BY <1>1 DEF None, Verdicts
<1> QED
  BY <1>1, <1>2, <1>3, <1>5, <1>6, ReadOrderIs DEF AuditInv

LEMMA UseContextKeeps ==
  ASSUME AuditInv, UseContext
  PROVE  AuditInv'
<1>1. /\ UNCHANGED <<claim, world, streamed, looked, edits, seen, loaded>>
      /\ at \in 1..8 /\ streamed /\ ReadOrder[at][1] \in Splits /\ verdict = None
  BY ReadOrderIs DEF UseContext
<1>2. /\ claim' \in ClaimChoices /\ streamed' \in BOOLEAN
      /\ IsWorld(world)' /\ IsWorld(seen)'
      /\ streamed => LooksInv'
      /\ \A a \in loaded' : Loadable(seen', a)
  BY <1>1, OtherSteps DEF AuditInv
<1>3. at = 5
  BY <1>1, SplitsLast, ReadOrderIs DEF AuditInv
<1>4. CASE claim.sameDatasets
  <2>1. /\ findings' = findings \cup StreamFindings(world.data, looked)
        /\ at' = 9 /\ verdict' = None
    BY <1>1, <1>4, ReadOrderIs DEF UseContext
  <2>2. Behind' = Behind
    <3>1. ASSUME NEW i \in 1..8, ~(streamed /\ ReadOrder[i][1] \in Splits)
          PROVE  i < 5 /\ i < 9
      BY <1>1, <3>1, SplitsLast
    <3> QED
      BY <1>1, <1>3, <2>1, <3>1, ReadOrderIs DEF Behind
  <2>3. StreamFindings(world.data, looked)' = StreamFindings(world.data, looked)
    BY <1>1, StreamFindingsSame
  <2>4. Compared = UNION {Comparisons(seen, loaded, a) : a \in Behind}
    BY <1>3, ReadOrderIs DEF Compared
  <2>5. Compared' = Compared \cup StreamFindings(world.data, looked)
    <3>1. (UNION {Comparisons(seen, loaded, a) : a \in Behind})'
            = UNION {Comparisons(seen, loaded, a) : a \in Behind}
      BY <1>1, <2>2, ComparedSame
    <3>2. Compared' = (UNION {Comparisons(seen, loaded, a) : a \in Behind})'
                        \cup StreamFindings(world.data, looked)'
      BY <1>1, <2>1, ReadOrderIs DEF Compared
    <3> QED
      BY <2>3, <2>4, <3>1, <3>2
  <2>6. FindingsInv'
    <3>1. FindingsInv /\ loaded' = loaded
      BY <1>1 DEF AuditInv
    <3> QED
      BY <2>1, <2>2, <2>5, <3>1 DEF FindingsInv
  <2>7. verdict' \notin Verdicts
    BY <2>1 DEF None, Verdicts
  <2> QED
    BY <1>1, <1>2, <2>1, <2>2, <2>6, <2>7, ReadOrderIs DEF AuditInv
<1>5. CASE ~claim.sameDatasets
  <2>1. findings' = findings /\ at' = at /\ verdict' = "ERROR"
    BY <1>5 DEF UseContext
  <2>2. Behind' = Behind
    BY <1>1, <2>1 DEF Behind
  <2>3. Compared' = Compared
    <3>1. StreamFindings(world.data, looked)' = StreamFindings(world.data, looked)
      BY <1>1, StreamFindingsSame
    <3>2. (UNION {Comparisons(seen, loaded, a) : a \in Behind})'
            = UNION {Comparisons(seen, loaded, a) : a \in Behind}
      BY <1>1, <2>2, ComparedSame
    <3> QED
      BY <1>1, <2>1, <3>1, <3>2 DEF Compared
  <2>4. FindingsInv'
    BY <1>1, <2>1, <2>2, <2>3 DEF FindingsInv, AuditInv
  <2>5. verdict' \notin Verdicts
    BY <2>1 DEF Verdicts
  <2> QED
    BY <1>1, <1>2, <2>1, <2>2, <2>4, <2>5 DEF AuditInv
<1> QED
  BY <1>4, <1>5

LEMMA JudgeKeeps ==
  ASSUME AuditInv, Judge
  PROVE  AuditInv'
<1>1. /\ UNCHANGED <<claim, world, streamed, looked, edits, at, seen, loaded>>
      /\ at = 9 /\ verdict = None
  BY ReadOrderIs DEF Judge
<1>2. /\ claim' \in ClaimChoices /\ streamed' \in BOOLEAN
      /\ IsWorld(world)' /\ IsWorld(seen)'
      /\ streamed => LooksInv'
      /\ \A a \in loaded' : Loadable(seen', a)
  BY <1>1, OtherSteps DEF AuditInv
<1>3. Behind' = Behind
  BY <1>1 DEF Behind
<1>4. Compared' = Compared
  <2>1. StreamFindings(world.data, looked)' = StreamFindings(world.data, looked)
    BY <1>1, StreamFindingsSame
  <2>2. (UNION {Comparisons(seen, loaded, a) : a \in Behind})'
          = UNION {Comparisons(seen, loaded, a) : a \in Behind}
    BY <1>1, <1>3, ComparedSame
  <2> QED
    BY <1>1, <2>1, <2>2 DEF Compared
<1>5. /\ findings \subseteq findings'
      /\ findings' \subseteq findings \cup {Found("RESULT.METRIC_IDENTITY_VERIFIED", "both", "NONE")}
  BY DEF Judge, If
<1>6. FindingsInv'
  <2>1. FindingsInv /\ loaded' = loaded
    BY <1>1 DEF AuditInv
  <2>2. Compared' \subseteq findings'
    BY <2>1, <1>4, <1>5 DEF FindingsInv
  <2>3. \A a \in Behind' \ loaded' : findings' \cap Failures(a) # {}
    BY <2>1, <1>3, <1>5 DEF FindingsInv
  <2>4. findings' \subseteq Compared' \cup (UNION {Failures(a) : a \in Behind' \ loaded'})
                         \cup {Found("RESULT.METRIC_IDENTITY_VERIFIED", "both", "NONE")}
    <3>1. findings \subseteq Compared \cup (UNION {Failures(a) : a \in Behind \ loaded})
                         \cup {Found("RESULT.METRIC_IDENTITY_VERIFIED", "both", "NONE")}
      BY <2>1 DEF FindingsInv
    <3>2. Behind' \ loaded' = Behind \ loaded
      BY <2>1, <1>3
    <3>3. UNION {Failures(a) : a \in Behind' \ loaded'} = UNION {Failures(a) : a \in Behind \ loaded}
      BY <3>2
    <3> DEFINE gone == UNION {Failures(a) : a \in Behind \ loaded}
    <3> HIDE DEF gone
    <3>4. findings' \subseteq Compared \cup gone
                         \cup {Found("RESULT.METRIC_IDENTITY_VERIFIED", "both", "NONE")}
      BY <3>1, <1>5 DEF gone
    <3> QED
      BY <3>3, <3>4, <1>4 DEF gone
  <2> QED
    BY <2>2, <2>3, <2>4 DEF FindingsInv
<1>7. \/ verdict' = "ERROR"
      \/ verdict' = Verdict(findings') /\ verdict' \in Verdicts
  BY VerdictIs DEF Judge
<1>8. "ERROR" \notin Verdicts
  BY DEF Verdicts
<1> QED
  BY <1>1, <1>2, <1>3, <1>6, <1>7, <1>8, ReadOrderIs DEF AuditInv

LEMMA ReadKeeps ==
  ASSUME AuditInv, Read
  PROVE  AuditInv'
<1> DEFINE a == ReadOrder[at]
<1>1. /\ UNCHANGED <<claim, world, streamed, looked, edits, verdict>>
      /\ at \in 1..8 /\ ~(streamed /\ a[1] \in Splits)
      /\ seen' = Copy(seen, world, a) /\ at' = at + 1
  BY ReadOrderIs DEF Read
<1>2. /\ a \in Artifacts /\ IsWorld(seen) /\ IsWorld(world) /\ FindingsInv
      /\ loaded \subseteq Behind
  BY <1>1, ReadAll DEF AuditInv
<1>3. /\ IsWorld(seen') /\ Content(seen', a) = Content(world, a)
      /\ \A b \in Artifacts \ {a} : Content(seen', b) = Content(seen, b)
  BY <1>1, <1>2, CopyKeeps
<1>4. Behind \subseteq Artifacts /\ a \notin Behind
  BY <1>1, ComparedSoFar
<1>5. Behind' = Behind \cup {a}
  <2>1. Behind' = {b \in {ReadOrder[i] : i \in {j \in 1..8 : j < at + 1}} :
                     ~(streamed /\ b[1] \in Splits)}
    BY <1>1, ReadOrderIs DEF Behind
  <2>2. Behind = {b \in {ReadOrder[i] : i \in {j \in 1..8 : j < at}} :
                     ~(streamed /\ b[1] \in Splits)}
    BY ReadOrderIs DEF Behind
  <2>3. {j \in 1..8 : j < at + 1} = {j \in 1..8 : j < at} \cup {at}
    BY <1>1
  <2> HIDE DEF Behind
  <2> QED
    BY <1>1, <2>1, <2>2, <2>3
<1>6. streamed => at <= 4
  BY <1>1, SplitsLast
<1>7. /\ loaded' = IF Loadable(world, a) THEN loaded \cup {a} ELSE loaded
      /\ \/ Loadable(world, a) /\ findings' = findings \cup Comparisons(seen', loaded', a)
         \/ /\ ~Loadable(world, a)
            /\ \E f \in Failures(a) :
                 findings' = findings \cup {f} \cup Comparisons(seen', loaded', a)
  BY <1>1 DEF Read
<1> DEFINE C == UNION {Comparisons(seen, loaded, b) : b \in Behind}
           New == Comparisons(seen', loaded', a)
<1>8. Compared = C
  <2>1. ~(streamed /\ at = Len(ReadOrder) + 1)
    BY <1>1, <1>6, ReadOrderIs
  <2> QED
    BY <2>1 DEF Compared
<1>9. \A b \in Behind : Comparisons(seen', loaded', b) = Comparisons(seen, loaded, b)
  <2> TAKE b \in Behind
  <2>1. PICK i \in 1..8 : b = ReadOrder[i] /\ i < at
    BY <1>1, ReadOrderIs DEF Behind
  <2>2. ASSUME NEW j \in 1..i
        PROVE  /\ ReadOrder[j] \in loaded' <=> ReadOrder[j] \in loaded
               /\ Content(seen', ReadOrder[j]) = Content(seen, ReadOrder[j])
    <3>1. j \in 1..8 /\ j # at
      BY <1>1, <2>1
    <3>2. ReadOrder[j] \in Artifacts /\ ReadOrder[j] # a
      BY <1>1, <3>1, ReadAll, ReadOnce
    <3> HIDE DEF a
    <3> QED
      BY <1>3, <1>7, <3>2
  <2>3. Agree(seen', loaded', seen, loaded, i)
    BY <2>2 DEF Agree
  <2> QED
    BY <2>1, <2>3, ComparedOnce
<1>10. Compared' = C \cup New
  <2>1. ~(streamed' /\ at' = Len(ReadOrder) + 1)
    BY <1>1, <1>6, ReadOrderIs
  <2>2. Compared' = UNION {Comparisons(seen', loaded', b) : b \in Behind'}
    <3>1. \A b : Comparisons(seen, loaded, b)' = Comparisons(seen', loaded', b)
      BY <1>1 DEF Comparisons, ResultFindings
    <3> QED
      BY <2>1, <3>1 DEF Compared
  <2> HIDE DEF a
  <2> QED
    BY <2>2, <1>5, <1>9
<1> HIDE DEF C, New
<1>11. FindingsInv'
  <2>1. CASE Loadable(world, a)
    <3>1. loaded' = loaded \cup {a} /\ findings' = findings \cup New
      BY <1>7, <2>1 DEF New
    <3>2. Behind' \ loaded' = Behind \ loaded
      BY <3>1, <1>2, <1>4, <1>5
    <3>3. Compared' \subseteq findings'
      BY <3>1, <1>2, <1>8, <1>10 DEF FindingsInv
    <3>4. findings' \subseteq Compared' \cup (UNION {Failures(b) : b \in Behind' \ loaded'})
                         \cup {Found("RESULT.METRIC_IDENTITY_VERIFIED", "both", "NONE")}
      BY <3>1, <3>2, <1>2, <1>8, <1>10 DEF FindingsInv
    <3>5. \A b \in Behind' \ loaded' : findings' \cap Failures(b) # {}
      BY <3>1, <3>2, <1>2 DEF FindingsInv
    <3> QED
      BY <3>3, <3>4, <3>5 DEF FindingsInv
  <2>2. CASE ~Loadable(world, a)
    <3>0. PICK f \in Failures(a) : findings' = findings \cup {f} \cup New
      BY <1>7, <2>2 DEF New
    <3>1. loaded' = loaded
      BY <1>7, <2>2
    <3>2. Behind' \ loaded' = (Behind \ loaded) \cup {a}
      BY <3>1, <1>2, <1>4, <1>5
    <3> HIDE DEF a
    <3>3. Compared' \subseteq findings'
      BY <3>0, <1>2, <1>8, <1>10 DEF FindingsInv
    <3>4. findings' \subseteq Compared' \cup (UNION {Failures(b) : b \in Behind' \ loaded'})
                         \cup {Found("RESULT.METRIC_IDENTITY_VERIFIED", "both", "NONE")}
      BY <3>0, <3>2, <1>2, <1>8, <1>10 DEF FindingsInv
    <3>5. \A b \in Behind' \ loaded' : findings' \cap Failures(b) # {}
      BY <3>0, <3>2, <1>2 DEF FindingsInv
    <3> QED
      BY <3>3, <3>4, <3>5 DEF FindingsInv
  <2> QED
    BY <2>1, <2>2
<1>12. \A b \in loaded' : Loadable(seen', b)
  <2> TAKE b \in loaded'
  <2>1. CASE b = a
    BY <2>1, <1>2, <1>3, <1>4, <1>7, LoadableIs
  <2>2. CASE b # a
    <3>1. b \in loaded /\ b \in Artifacts
      BY <2>2, <1>2, <1>4, <1>7
    <3>2. Content(seen', b) = Content(seen, b) /\ Loadable(seen, b)
      BY <2>2, <3>1, <1>3 DEF AuditInv
    <3> QED
      BY <3>1, <3>2, LoadableIs
  <2> QED
    BY <2>1, <2>2
<1>13. LooksInv /\ streamed => LooksInv'
  BY <1>1 DEF LooksInv
<1>14. loaded' \subseteq Behind'
  BY <1>2, <1>5, <1>7
<1>15. IsWorld(world)' /\ IsWorld(seen)'
  BY <1>1, <1>2, <1>3 DEF IsWorld, IsConfig, IsResults
<1>16. /\ at' \in 0..(Len(ReadOrder) + 1)
       /\ streamed' => (at' <= 5 \/ at' = Len(ReadOrder) + 1) /\ LooksInv'
  BY <1>1, <1>6, <1>13, ReadOrderIs DEF AuditInv
<1>17. verdict \notin Verdicts
  BY <1>1, ReadOrderIs DEF AuditInv
<1> QED
  BY <1>1, <1>11, <1>12, <1>14, <1>15, <1>16, <1>17 DEF AuditInv

LEMMA StepKeeps ==
  ASSUME AuditInv, [Next]_vars
  PROVE  AuditInv'
<1>1. CASE Next
  BY <1>1, EditKeeps, LoadManifestKeeps, ReadKeeps, UseContextKeeps, JudgeKeeps DEF Next
<1>2. CASE UNCHANGED vars
  <2>1. UNCHANGED <<claim, world, streamed, looked, edits, at, seen, loaded, findings, verdict>>
    BY <1>2 DEF vars
  <2>2. /\ claim' \in ClaimChoices /\ streamed' \in BOOLEAN
        /\ IsWorld(world)' /\ IsWorld(seen)'
        /\ streamed => LooksInv'
        /\ \A a \in loaded' : Loadable(seen', a)
    BY <2>1, OtherSteps DEF AuditInv
  <2>3. Behind' = Behind
    BY <2>1 DEF Behind
  <2>4. Compared' = Compared
    <3>1. StreamFindings(world.data, looked)' = StreamFindings(world.data, looked)
      BY <2>1, StreamFindingsSame
    <3>2. (UNION {Comparisons(seen, loaded, a) : a \in Behind})'
            = UNION {Comparisons(seen, loaded, a) : a \in Behind}
      BY <2>1, <2>3, ComparedSame
    <3> QED
      BY <2>1, <3>1, <3>2 DEF Compared
  <2>5. FindingsInv'
    BY <2>1, <2>3, <2>4 DEF FindingsInv, AuditInv
  <2> QED
    BY <2>1, <2>2, <2>3, <2>5 DEF AuditInv
<1> QED
  BY <1>1, <1>2

LEMMA InvariantHolds ==
  Spec => []AuditInv
<1> QED
  BY InitBegins, StepKeeps, PTL DEF Spec

-----------------------------------------------------------------------------------
(* What the findings of a whole audit say.                                   *)

Documents == {"config", "results"} \X Experiments

\* What the configurations and results say, and what the datasets say, in memory.
OfDocuments(s, l) == Comparisons(s, l, ReadOrder[2]) \cup Comparisons(s, l, ReadOrder[4])
OfData(s, l) == Comparisons(s, l, ReadOrder[6]) \cup Comparisons(s, l, ReadOrder[8])

LEMMA DocumentsAre ==
  /\ Documents = {ReadOrder[i] : i \in 1..4}
  /\ Documents \subseteq Artifacts
  /\ Splits \X Experiments = {ReadOrder[i] : i \in 5..8}
  /\ Artifacts = Documents \cup (Splits \X Experiments)
<1>1. ASSUME NEW a \in Documents PROVE \E i \in 1..4 : a = ReadOrder[i]
  BY ReadOrderIs DEF Documents, Experiments
<1>2. ASSUME NEW i \in 1..4 PROVE ReadOrder[i] \in Documents
  BY ReadOrderIs DEF Documents, Experiments
<1>3. ASSUME NEW a \in Splits \X Experiments PROVE \E i \in 5..8 : a = ReadOrder[i]
  BY ReadOrderIs DEF Splits, Experiments
<1>4. ASSUME NEW i \in 5..8 PROVE ReadOrder[i] \in Splits \X Experiments
  BY ReadOrderIs, SMTT(30) DEF Splits, Experiments
<1>5. Artifacts = Documents \cup (Splits \X Experiments)
  BY DEF Artifacts, Kinds, Documents, Splits
<1> QED
  BY <1>1, <1>2, <1>3, <1>4, <1>5

LEMMA DocumentsImpact ==
  ASSUME claim \in ClaimChoices, NEW s, NEW l, IsWorld(s), Documents \subseteq l,
         \A x \in Experiments : Summarizable(s.results[x].runs)
  PROVE  ~Grave(OfDocuments(s, l)) /\ ~Lacking(OfDocuments(s, l)) <=>
            /\ FairConfigs(s.config["baseline"], s.config["candidate"])
            /\ \A x \in Experiments : IndependentRuns(s.results[x]) /\ HonestSummary(s.results[x])
            /\ Improves(s.results["baseline"], s.results["candidate"])
<1> DEFINE C == ConfigFindings(s.config["baseline"], s.config["candidate"])
           R == ResultFindings(s.results["baseline"], s.results["candidate"])
<1>0. /\ "baseline" \in Experiments /\ "candidate" \in Experiments
      /\ \A x \in Experiments : x = "baseline" \/ x = "candidate"
  BY DEF Experiments
<1>1. /\ IsConfig(s.config["baseline"]) /\ IsConfig(s.config["candidate"])
      /\ IsResults(s.results["baseline"]) /\ IsResults(s.results["candidate"])
      /\ Summarizable(s.results["baseline"].runs) /\ Summarizable(s.results["candidate"].runs)
  BY <1>0 DEF IsWorld
<1>2. \A i \in 1..4 : ReadOrder[i] \in l
  BY DocumentsAre
<1>3. Comparisons(s, l, ReadOrder[2]) = C
  <2>1. Comparisons(s, l, ReadOrder[2]) =
          IF ReadOrder[1] \in l /\ ReadOrder[2] \in l THEN C ELSE {}
    BY ComparedWith
  <2> HIDE DEF C
  <2> QED
    BY <1>2, <2>1
<1>4. Comparisons(s, l, ReadOrder[4]) = R
  <2>1. Comparisons(s, l, ReadOrder[4]) =
          IF ReadOrder[3] \in l /\ ReadOrder[4] \in l THEN R ELSE {}
    BY ComparedWith
  <2> HIDE DEF R
  <2> QED
    BY <1>2, <2>1
<1>5. ~Grave(C) /\ ~Lacking(C) <=> FairConfigs(s.config["baseline"], s.config["candidate"])
  BY <1>1, FairnessIsChecked
<1>6. ~Grave(R) /\ ~Lacking(R) <=>
         /\ IndependentRuns(s.results["baseline"]) /\ HonestSummary(s.results["baseline"])
         /\ IndependentRuns(s.results["candidate"]) /\ HonestSummary(s.results["candidate"])
         /\ Improves(s.results["baseline"], s.results["candidate"])
  BY <1>1, ResultImpacts
<1> HIDE DEF C, R
<1>7. OfDocuments(s, l) = C \cup R
  BY <1>3, <1>4 DEF OfDocuments
<1>8. ~Grave(OfDocuments(s, l)) /\ ~Lacking(OfDocuments(s, l)) <=>
        (~Grave(C) /\ ~Lacking(C)) /\ (~Grave(R) /\ ~Lacking(R))
  BY <1>7, GraveUnion
<1> QED
  BY <1>0, <1>5, <1>6, <1>8

LEMMA DataImpact ==
  ASSUME NEW s, NEW l, IsWorld(s), Splits \X Experiments \subseteq l
  PROVE  /\ Grave(OfData(s, l)) <=> ~SoundSplits(s.data)
         /\ ~Lacking(OfData(s, l))
<1> DEFINE bt == s.data[<<"baseline", "train">>]
           be == s.data[<<"baseline", "eval">>]
           ct == s.data[<<"candidate", "train">>]
           ce == s.data[<<"candidate", "eval">>]
           B == {LeakageFinding("baseline", bt, be)}
           C == {LeakageFinding("candidate", ct, ce)}
           A == {AlignmentFinding(be, ce)}
<1>0. /\ "baseline" \in Experiments /\ "candidate" \in Experiments
      /\ \A x \in Experiments : x = "baseline" \/ x = "candidate"
  BY DEF Experiments
<1>1. bt \in Seq(LineKinds) /\ be \in Seq(LineKinds) /\ ct \in Seq(LineKinds) /\ ce \in Seq(LineKinds)
  <2>1. \A key \in Keys : s.data[key] \in Seq(LineKinds \ {"too_long"})
    BY DEF IsWorld
  <2>2. /\ <<"baseline", "train">> \in Keys /\ <<"baseline", "eval">> \in Keys
        /\ <<"candidate", "train">> \in Keys /\ <<"candidate", "eval">> \in Keys
    BY DEF Keys, Experiments, Splits
  <2>3. \A q \in Seq(LineKinds \ {"too_long"}) : q \in Seq(LineKinds)
    OBVIOUS
  <2> QED
    BY <2>1, <2>2, <2>3
<1>2. \A i \in 5..8 : ReadOrder[i] \in l
  BY DocumentsAre
<1>3. Comparisons(s, l, ReadOrder[6]) = B
  <2>1. Comparisons(s, l, ReadOrder[6]) =
          IF ReadOrder[5] \in l /\ ReadOrder[6] \in l THEN B ELSE {}
    BY ComparedWith
  <2> HIDE DEF B
  <2> QED
    BY <1>2, <2>1
<1>4. Comparisons(s, l, ReadOrder[8]) = C \cup A
  <2>1. Comparisons(s, l, ReadOrder[8]) =
          (IF ReadOrder[7] \in l /\ ReadOrder[8] \in l THEN C ELSE {})
          \cup (IF ReadOrder[6] \in l /\ ReadOrder[8] \in l THEN A ELSE {})
    BY ComparedWith
  <2> HIDE DEF A, C
  <2> QED
    BY <1>2, <2>1
<1>5. (Grave(B) <=> SharedRecord(bt, Len(bt), be, Len(be))) /\ ~Lacking(B)
  BY <1>1, LeakageImpact
<1>6. (Grave(C) <=> SharedRecord(ct, Len(ct), ce, Len(ce))) /\ ~Lacking(C)
  BY <1>1, LeakageImpact
<1>7. (Grave(A) <=> Whole(be) # Whole(ce)) /\ ~Lacking(A)
  BY AlignmentImpact
<1>8. SoundSplits(s.data) <=>
        /\ ~SharedRecord(bt, Len(bt), be, Len(be)) /\ ~SharedRecord(ct, Len(ct), ce, Len(ce))
        /\ Whole(be) = Whole(ce)
  BY <1>0 DEF SoundSplits
<1> HIDE DEF A, B, C, bt, be, ct, ce
<1>9. OfData(s, l) = B \cup (C \cup A)
  BY <1>3, <1>4 DEF OfData
<1>10. /\ Grave(OfData(s, l)) <=> Grave(B) \/ Grave(C) \/ Grave(A)
       /\ Lacking(OfData(s, l)) <=> Lacking(B) \/ Lacking(C) \/ Lacking(A)
  BY <1>9 DEF Grave, Lacking
<1> QED
  BY <1>5, <1>6, <1>7, <1>8, <1>10

\* What is wrong with the findings is wrong with what was compared, or it is an
\* artifact that was missing.
LEMMA FindingsImpact ==
  ASSUME AuditInv
  PROVE  /\ Grave(findings) <=> Grave(Compared)
         /\ Lacking(findings) <=> Lacking(Compared) \/ Behind \ loaded # {}
<1> DEFINE known == {Found("RESULT.METRIC_IDENTITY_VERIFIED", "both", "NONE")}
           gone == UNION {Failures(a) : a \in Behind \ loaded}
<1>1. Compared \subseteq findings /\ findings \subseteq Compared \cup gone \cup known
  BY DEF AuditInv, FindingsInv
<1>2. \A a \in Behind \ loaded : \E f \in findings : f \in Failures(a)
  BY DEF AuditInv, FindingsInv
<1>3. ~Grave(known) /\ ~Lacking(known)
  BY OneFound
<1>4. Behind \subseteq Artifacts
  BY ComparedSoFar
<1>5. \A a \in Behind \ loaded : \A f \in Failures(a) : f.impact = "INSUFFICIENT"
  BY <1>4, FailureIs
<1>6. ~Grave(gone)
  BY <1>5 DEF Grave
<1>7. Behind \ loaded = {} => gone = {}
  OBVIOUS
<1>8. Behind \ loaded # {} => Lacking(findings)
  BY <1>2, <1>5 DEF Lacking
<1> HIDE DEF known, gone
<1>9. Grave(findings) <=> Grave(Compared)
  BY <1>1, <1>3, <1>6 DEF Grave
<1>10. Lacking(findings) => Lacking(Compared) \/ Behind \ loaded # {}
  BY <1>1, <1>3, <1>7 DEF Lacking
<1>11. Lacking(Compared) => Lacking(findings)
  BY <1>1 DEF Lacking
<1> QED
  BY <1>8, <1>9, <1>10, <1>11

\* All that is compared of a set of artifacts.
LEMMA ComparedOf ==
  ASSUME NEW s, NEW l, NEW A, A \subseteq Artifacts
  PROVE  /\ A = Artifacts =>
              UNION {Comparisons(s, l, a) : a \in A} = OfDocuments(s, l) \cup OfData(s, l)
         /\ A = Documents =>
              UNION {Comparisons(s, l, a) : a \in A} = OfDocuments(s, l)
<1>1. /\ Comparisons(s, l, ReadOrder[1]) = {} /\ Comparisons(s, l, ReadOrder[3]) = {}
      /\ Comparisons(s, l, ReadOrder[5]) = {} /\ Comparisons(s, l, ReadOrder[7]) = {}
  BY ComparedWith
<1>2. UNION {Comparisons(s, l, a) : a \in Artifacts} = OfDocuments(s, l) \cup OfData(s, l)
  <2>1. ASSUME NEW a \in Artifacts
        PROVE  Comparisons(s, l, a) \subseteq OfDocuments(s, l) \cup OfData(s, l)
    <3>1. PICK i \in 1..8 : a = ReadOrder[i]
      BY ReadAll
    <3>2. i \in {1, 2, 3, 4, 5, 6, 7, 8}
      OBVIOUS
    <3> QED
      BY <1>1, <3>1, <3>2 DEF OfDocuments, OfData
  <2>2. \A i \in {2, 4, 6, 8} : ReadOrder[i] \in Artifacts
    BY ReadAll
  <2> QED
    BY <2>1, <2>2 DEF OfDocuments, OfData
<1>3. UNION {Comparisons(s, l, a) : a \in Documents} = OfDocuments(s, l)
  <2>1. ASSUME NEW a \in Documents
        PROVE  Comparisons(s, l, a) \subseteq OfDocuments(s, l)
    <3>1. PICK i \in 1..4 : a = ReadOrder[i]
      BY DocumentsAre
    <3>2. i \in {1, 2, 3, 4}
      OBVIOUS
    <3> QED
      BY <1>1, <3>1, <3>2 DEF OfDocuments
  <2>2. \A i \in {2, 4} : ReadOrder[i] \in Documents
    BY DocumentsAre
  <2> QED
    BY <2>1, <2>2 DEF OfDocuments
<1> QED
  BY <1>1, <1>2, <1>3

-----------------------------------------------------------------------------------
(* The verdict.                                                              *)

\* At the verdict: what was read, what was compared, and what it says.
LEMMA AtTheVerdict ==
  ASSUME AuditInv, verdict \in Verdicts
  PROVE  /\ Behind = IF streamed THEN Documents ELSE Artifacts
         /\ Compared = IF streamed
                         THEN OfDocuments(seen, loaded) \cup StreamFindings(world.data, looked)
                         ELSE OfDocuments(seen, loaded) \cup OfData(seen, loaded)
         /\ verdict = "SUPPORTED" <=> ~Grave(Compared) /\ ~Lacking(Compared) /\ Behind \subseteq loaded
         /\ verdict = "NOT_SUPPORTED" <=> Grave(Compared)
         /\ loaded \subseteq Behind
<1>1. at = 9 /\ verdict = Verdict(findings) /\ loaded \subseteq Behind
  BY ReadOrderIs DEF AuditInv
<1>2. Behind = IF streamed THEN Documents ELSE Artifacts
  <2>1. /\ Behind \subseteq Artifacts
        /\ \A i \in 1..8 : ReadOrder[i] \in Behind <=> ~(streamed /\ i > 4)
    BY <1>1, ComparedSoFar
  <2>2. CASE streamed
    <3>1. \A i \in 1..8 : ReadOrder[i] \in Behind <=> i \in 1..4
      BY <2>1, <2>2
    <3> QED
      BY <2>1, <2>2, <3>1, ReadAll, DocumentsAre
  <2>3. CASE ~streamed
    BY <2>1, <2>3, ReadAll
  <2> QED
    BY <2>2, <2>3
<1>3. Compared = IF streamed
                   THEN OfDocuments(seen, loaded) \cup StreamFindings(world.data, looked)
                   ELSE OfDocuments(seen, loaded) \cup OfData(seen, loaded)
  <2>1. CASE streamed
    <3>1. Compared = (UNION {Comparisons(seen, loaded, a) : a \in Documents})
                       \cup StreamFindings(world.data, looked)
      BY <1>1, <1>2, <2>1, ReadOrderIs DEF Compared
    <3>2. UNION {Comparisons(seen, loaded, a) : a \in Documents} = OfDocuments(seen, loaded)
      BY ComparedOf, DocumentsAre
    <3> QED
      BY <2>1, <3>1, <3>2
  <2>2. CASE ~streamed
    <3>1. Compared = UNION {Comparisons(seen, loaded, a) : a \in Artifacts}
      BY <1>1, <1>2, <2>2 DEF Compared
    <3>2. UNION {Comparisons(seen, loaded, a) : a \in Artifacts}
            = OfDocuments(seen, loaded) \cup OfData(seen, loaded)
      BY ComparedOf
    <3> QED
      BY <2>2, <3>1, <3>2
  <2> QED
    BY <2>1, <2>2
<1>4. /\ verdict = "SUPPORTED" <=> ~Grave(findings) /\ ~Lacking(findings)
      /\ verdict = "NOT_SUPPORTED" <=> Grave(findings)
  BY <1>1, VerdictIs
<1>5. Behind \ loaded # {} <=> ~(Behind \subseteq loaded)
  OBVIOUS
<1> QED
  BY <1>1, <1>2, <1>3, <1>4, <1>5, FindingsImpact

LEMMA ResultsWereSummarized ==
  ASSUME AuditInv, Documents \subseteq loaded
  PROVE  \A x \in Experiments : Summarizable(seen.results[x].runs)
<1> TAKE x \in Experiments
<1>1. <<"results", x>> \in loaded
  BY DEF Documents
<1>2. Loadable(seen, <<"results", x>>)
  BY <1>1 DEF AuditInv
<1> QED
  BY <1>2 DEF Loadable

\* What the streamed datasets say.
LEMMA StreamSays ==
  ASSUME AuditInv, streamed
  PROVE  /\ ~Lacking(StreamFindings(world.data, looked)) <=> Looked
         /\ Looked => (Grave(StreamFindings(world.data, looked)) <=> ~SoundSplits(world.data))
         /\ Looked => \A key \in Keys : Clean(world.data[key])
         /\ Grave(StreamFindings(world.data, looked)) => ~SoundSplits(world.data)
<1> DEFINE F == StreamFindings(world.data, looked)
<1>1. LooksInv
  BY DEF AuditInv
<1>2. \A key : key \in Keys <=> \E x \in Experiments : key = <<x, "train">> \/ key = <<x, "eval">>
  BY DEF Keys, Splits
<1>3. Lacking(F) <=>
         \E x \in Experiments : ~(looked[<<x, "train">>].complete /\ looked[<<x, "eval">>].complete)
  BY StreamImpacts
<1>4. ~Lacking(F) <=> Looked
  BY <1>2, <1>3 DEF Looked
<1>5. Grave(F) <=>
        \/ \E x \in Experiments :
             SharedRecord(world.data[<<x, "train">>], looked[<<x, "train">>].lines,
                          world.data[<<x, "eval">>], looked[<<x, "eval">>].lines)
        \/ /\ \A x \in Experiments : looked[<<x, "eval">>].complete
           /\ Whole(world.data[<<"baseline", "eval">>]) # Whole(world.data[<<"candidate", "eval">>])
  BY StreamImpacts
<1> HIDE DEF F
<1>6. Looked => (Grave(F) <=> ~SoundSplits(world.data))
  <2> SUFFICES ASSUME Looked PROVE Grave(F) <=> ~SoundSplits(world.data)
    OBVIOUS
  <2>1. ASSUME NEW x \in Experiments
        PROVE  /\ looked[<<x, "train">>].lines = Len(world.data[<<x, "train">>])
               /\ looked[<<x, "eval">>].lines = Len(world.data[<<x, "eval">>])
               /\ looked[<<x, "eval">>].complete
    BY <1>1, <1>2 DEF LooksInv, Looked
  <2> QED
    BY <1>5, <2>1 DEF SoundSplits
<1>7. Looked => \A key \in Keys : Clean(world.data[key])
  BY <1>1 DEF LooksInv, Looked
<1>8. Grave(F) => ~SoundSplits(world.data)
  <2>1. ASSUME NEW x \in Experiments,
               SharedRecord(world.data[<<x, "train">>], looked[<<x, "train">>].lines,
                            world.data[<<x, "eval">>], looked[<<x, "eval">>].lines)
        PROVE  ~SoundSplits(world.data)
    <3>1. <<x, "train">> \in Keys /\ <<x, "eval">> \in Keys
      BY <1>2
    <3>2. /\ looked[<<x, "train">>].lines \in 0..Len(world.data[<<x, "train">>])
          /\ looked[<<x, "eval">>].lines \in 0..Len(world.data[<<x, "eval">>])
      BY <1>1, <3>1 DEF LooksInv
    <3>3. /\ Len(world.data[<<x, "train">>]) \in Nat /\ Len(world.data[<<x, "eval">>]) \in Nat
      BY <3>1 DEF AuditInv, IsWorld
    <3>4. /\ \A i \in 1..looked[<<x, "train">>].lines : i \in 1..Len(world.data[<<x, "train">>])
          /\ \A i \in 1..looked[<<x, "eval">>].lines : i \in 1..Len(world.data[<<x, "eval">>])
      BY <3>2, <3>3
    <3>5. SharedRecord(world.data[<<x, "train">>], Len(world.data[<<x, "train">>]),
                       world.data[<<x, "eval">>], Len(world.data[<<x, "eval">>]))
      BY <2>1, <3>4 DEF SharedRecord
    <3> QED
      BY <3>5 DEF SoundSplits
  <2> QED
    BY <1>5, <2>1 DEF SoundSplits
<1> QED
  BY <1>4, <1>6, <1>7, <1>8 DEF F

\* A verdict of support is earned.
LEMMA SupportFollows ==
  ASSUME AuditInv
  PROVE  SupportedIsEarned
<1> SUFFICES ASSUME verdict \in Verdicts
             PROVE  (verdict = "SUPPORTED") <=>
                      /\ Everything
                      /\ FairConfigs(seen.config["baseline"], seen.config["candidate"])
                      /\ \A x \in Experiments :
                           IndependentRuns(seen.results[x]) /\ HonestSummary(seen.results[x])
                      /\ Improves(seen.results["baseline"], seen.results["candidate"])
                      /\ SoundSplits(IF streamed THEN world.data ELSE seen.data)
  BY DEF SupportedIsEarned
<1> DEFINE D == OfDocuments(seen, loaded)
           E == OfData(seen, loaded)
           F == StreamFindings(world.data, looked)
           earned == /\ FairConfigs(seen.config["baseline"], seen.config["candidate"])
                     /\ \A x \in Experiments :
                          IndependentRuns(seen.results[x]) /\ HonestSummary(seen.results[x])
                     /\ Improves(seen.results["baseline"], seen.results["candidate"])
<1>1. Documents \subseteq loaded => (~Grave(D) /\ ~Lacking(D) <=> earned)
  <2> SUFFICES ASSUME Documents \subseteq loaded PROVE ~Grave(D) /\ ~Lacking(D) <=> earned
    OBVIOUS
  <2>1. \A x \in Experiments : Summarizable(seen.results[x].runs)
    BY ResultsWereSummarized
  <2>2. IsWorld(seen) /\ claim \in ClaimChoices
    BY DEF AuditInv
  <2> QED
    BY <2>1, <2>2, DocumentsImpact
<1> HIDE DEF earned
<1>2. CASE ~streamed
  <2>1. /\ Behind = Artifacts /\ loaded \subseteq Artifacts
        /\ Compared = D \cup E
        /\ verdict = "SUPPORTED" <=> ~Grave(Compared) /\ ~Lacking(Compared) /\ Artifacts \subseteq loaded
    BY <1>2, AtTheVerdict
  <2>2. Everything <=> Artifacts \subseteq loaded
    BY <1>2, <2>1 DEF Everything
  <2>3. CASE Artifacts \subseteq loaded
    <3>1. Documents \subseteq loaded /\ Splits \X Experiments \subseteq loaded
      BY <2>3, DocumentsAre
    <3>2. (Grave(E) <=> ~SoundSplits(seen.data)) /\ ~Lacking(E)
      BY <3>1, DataImpact DEF AuditInv
    <3> HIDE DEF D, E
    <3>3. /\ Grave(D \cup E) <=> Grave(D) \/ Grave(E)
          /\ Lacking(D \cup E) <=> Lacking(D) \/ Lacking(E)
      BY GraveUnion
    <3>4. verdict = "SUPPORTED" <=> earned /\ SoundSplits(seen.data)
      BY <1>1, <2>1, <2>3, <3>1, <3>2, <3>3
    <3> QED
      BY <1>2, <2>2, <2>3, <3>4 DEF earned
  <2>4. CASE ~(Artifacts \subseteq loaded)
    BY <2>1, <2>2, <2>4
  <2> QED
    BY <2>3, <2>4
<1>3. CASE streamed
  <2>1. /\ Behind = Documents /\ loaded \subseteq Documents
        /\ Compared = D \cup F
        /\ verdict = "SUPPORTED" <=> ~Grave(Compared) /\ ~Lacking(Compared) /\ Documents \subseteq loaded
    BY <1>3, AtTheVerdict
  <2>2. Everything <=> Documents \subseteq loaded /\ Looked
    <3>1. loaded # Artifacts
      <4>1. <<"train", "baseline">> \in Artifacts /\ <<"train", "baseline">> \notin Documents
        BY DEF Artifacts, Kinds, Documents, Experiments, Splits
      <4> QED
        BY <2>1, <4>1
    <3> QED
      BY <1>3, <2>1, <3>1 DEF Everything, Documents
  <2>3. /\ ~Lacking(F) <=> Looked
        /\ Looked => (Grave(F) <=> ~SoundSplits(world.data))
    BY <1>3, StreamSays
  <2>4. CASE Documents \subseteq loaded
    <3> HIDE DEF D, F
    <3>1. /\ Grave(D \cup F) <=> Grave(D) \/ Grave(F)
          /\ Lacking(D \cup F) <=> Lacking(D) \/ Lacking(F)
      BY GraveUnion
    <3>2. verdict = "SUPPORTED" <=> Looked /\ earned /\ SoundSplits(world.data)
      BY <1>1, <2>1, <2>3, <2>4, <3>1
    <3> QED
      BY <1>3, <2>2, <2>4, <3>2 DEF earned
  <2>5. CASE ~(Documents \subseteq loaded)
    BY <2>1, <2>2, <2>5
  <2> QED
    BY <2>4, <2>5
<1> QED
  BY <1>2, <1>3

\* Nothing is gained by withholding.
LEMMA WithholdingFollows ==
  ASSUME AuditInv
  PROVE  WithholdingNeverHelps
<1> SUFFICES ASSUME verdict \in Verdicts, ~streamed, NEW l \in SUBSET loaded
             PROVE  /\ l # Artifacts => VerdictFrom(seen, l) # "SUPPORTED"
                    /\ VerdictFrom(seen, l) = "NOT_SUPPORTED" => verdict = "NOT_SUPPORTED"
  BY DEF WithholdingNeverHelps
<1> DEFINE C == UNION {Comparisons(seen, l, a) : a \in l}
           gone == UNION {Failures(a) : a \in Artifacts \ l}
<1>1. /\ Behind = Artifacts /\ l \subseteq Artifacts /\ l \subseteq loaded
      /\ Compared = UNION {Comparisons(seen, loaded, a) : a \in Artifacts}
      /\ verdict = "NOT_SUPPORTED" <=> Grave(Compared)
  <2>1. Behind = Artifacts /\ loaded \subseteq Behind /\ (verdict = "NOT_SUPPORTED" <=> Grave(Compared))
    BY AtTheVerdict
  <2>2. Compared = UNION {Comparisons(seen, loaded, a) : a \in Behind}
    BY DEF Compared
  <2> QED
    BY <2>1, <2>2
<1>2. VerdictFrom(seen, l) = Verdict(C \cup gone)
  BY DEF VerdictFrom
<1>3. /\ VerdictFrom(seen, l) = "NOT_SUPPORTED" <=> Grave(C \cup gone)
      /\ VerdictFrom(seen, l) = "SUPPORTED" <=> ~Grave(C \cup gone) /\ ~Lacking(C \cup gone)
  <2> HIDE DEF C, gone
  <2> QED
    BY <1>2, VerdictIs
<1>4. l # Artifacts => Lacking(gone)
  <2> SUFFICES ASSUME l # Artifacts PROVE Lacking(gone)
    OBVIOUS
  <2>1. PICK a \in Artifacts \ l : TRUE
    BY <1>1
  <2>2. PICK f \in Failures(a) : f.impact = "INSUFFICIENT"
    BY <2>1, FailureIs
  <2> QED
    BY <2>1, <2>2 DEF Lacking
<1>5. ~Grave(gone)
  <2>1. \A a \in Artifacts : \A f \in Failures(a) : f.impact = "INSUFFICIENT"
    BY FailureIs
  <2> QED
    BY <2>1 DEF Grave
<1>6. C \subseteq Compared
  <2>1. \A a \in l : Comparisons(seen, l, a) \subseteq Comparisons(seen, loaded, a)
    BY <1>1, ComparedMore
  <2> QED
    BY <1>1, <2>1
<1> HIDE DEF C, gone
<1> QED
  BY <1>1, <1>3, <1>4, <1>5, <1>6 DEF Grave, Lacking

\* What the audit in memory would have compared.
LEMMA InMemoryIs ==
  ASSUME NEW s, NEW l, l \subseteq Artifacts
  PROVE  /\ VerdictFrom(s, l) \in Verdicts
         /\ VerdictFrom(s, l) = "NOT_SUPPORTED" <=> Grave(OfDocuments(s, l) \cup OfData(s, l))
         /\ VerdictFrom(s, l) = "SUPPORTED" <=>
              /\ ~Grave(OfDocuments(s, l) \cup OfData(s, l))
              /\ ~Lacking(OfDocuments(s, l) \cup OfData(s, l))
              /\ Artifacts \subseteq l
<1> DEFINE C == UNION {Comparisons(s, l, a) : a \in l}
           gone == UNION {Failures(a) : a \in Artifacts \ l}
<1>1. C = UNION {Comparisons(s, l, a) : a \in Artifacts}
  <2>1. ASSUME NEW a \in Artifacts, a \notin l PROVE Comparisons(s, l, a) = {}
    <3>1. PICK i \in 1..8 : a = ReadOrder[i]
      BY ReadAll
    <3>2. CASE i \in {1, 3, 5, 7}
      BY <3>1, <3>2, ComparedWith
    <3>3. CASE i = 2
      BY <2>1, <3>1, <3>3, ComparedWith
    <3>4. CASE i = 4
      BY <2>1, <3>1, <3>4, ComparedWith
    <3>5. CASE i = 6
      BY <2>1, <3>1, <3>5, ComparedWith
    <3>6. CASE i = 8
      <4>1. Comparisons(s, l, ReadOrder[8]) =
              (IF ReadOrder[7] \in l /\ ReadOrder[8] \in l
               THEN {LeakageFinding("candidate", s.data[<<"candidate", "train">>],
                                                 s.data[<<"candidate", "eval">>])} ELSE {})
              \cup (IF ReadOrder[6] \in l /\ ReadOrder[8] \in l
                    THEN {AlignmentFinding(s.data[<<"baseline", "eval">>],
                                           s.data[<<"candidate", "eval">>])} ELSE {})
        BY ComparedWith
      <4> QED
        BY <4>1, <2>1, <3>1, <3>6
    <3> QED
      BY <3>2, <3>3, <3>4, <3>5, <3>6
  <2> QED
    BY <2>1
<1>2. C = OfDocuments(s, l) \cup OfData(s, l)
  BY <1>1, ComparedOf
<1>3. \A a \in Artifacts : Failures(a) # {} /\ \A f \in Failures(a) : f.impact = "INSUFFICIENT"
  BY FailureIs
<1>4. ~Grave(gone) /\ (Lacking(gone) <=> ~(Artifacts \subseteq l))
  BY <1>3 DEF Grave, Lacking
<1>5. VerdictFrom(s, l) = Verdict(C \cup gone)
  BY DEF VerdictFrom
<1> HIDE DEF C, gone
<1>6. /\ Verdict(C \cup gone) \in Verdicts
      /\ Verdict(C \cup gone) = "NOT_SUPPORTED" <=> Grave(C \cup gone)
      /\ Verdict(C \cup gone) = "SUPPORTED" <=> ~Grave(C \cup gone) /\ ~Lacking(C \cup gone)
  BY VerdictIs
<1>7. /\ Grave(C \cup gone) <=> Grave(C) \/ Grave(gone)
      /\ Lacking(C \cup gone) <=> Lacking(C) \/ Lacking(gone)
  BY GraveUnion
<1>8. VerdictFrom(s, l) \in Verdicts
  BY <1>5, <1>6
<1>9. VerdictFrom(s, l) = "NOT_SUPPORTED" <=> Grave(C)
  BY <1>4, <1>5, <1>6, <1>7
<1>10. VerdictFrom(s, l) = "SUPPORTED" <=> ~Grave(C) /\ ~Lacking(C) /\ Artifacts \subseteq l
  BY <1>4, <1>5, <1>6, <1>7
<1> QED
  BY <1>2, <1>8, <1>9, <1>10

\* The two audits agree.
LEMMA AgreementFollows ==
  ASSUME AuditInv
  PROVE  StreamedAgrees
<1> SUFFICES ASSUME streamed, verdict \in Verdicts
             PROVE  /\ Looked => verdict = InMemory
                    /\ verdict = "SUPPORTED" => InMemory = "SUPPORTED"
                    /\ verdict = "NOT_SUPPORTED" /\ (\A key \in Keys : Clean(world.data[key]))
                         => InMemory = "NOT_SUPPORTED"
  BY DEF StreamedAgrees
<1> DEFINE files == Splits \X Experiments
           s == [seen EXCEPT !.data = world.data]
           clean == {a \in files : Clean(world.data[<<a[2], a[1]>>])}
           l == loaded \cup clean
           D == OfDocuments(seen, loaded)
           E == OfData(s, l)
           F == StreamFindings(world.data, looked)
<1>1. /\ Behind = Documents /\ loaded \subseteq Documents
      /\ Compared = D \cup F
      /\ verdict = "SUPPORTED" <=> ~Grave(Compared) /\ ~Lacking(Compared) /\ Behind \subseteq loaded
      /\ verdict = "NOT_SUPPORTED" <=> Grave(Compared)
  BY AtTheVerdict
<1>2. IsWorld(seen) /\ IsWorld(world)
  BY DEF AuditInv
<1>3. /\ s.config = seen.config /\ s.results = seen.results /\ s.data = world.data
      /\ DOMAIN s = {"config", "results", "data"}
  BY <1>2 DEF IsWorld
<1> HIDE DEF s
<1>4. IsWorld(s)
  BY <1>2, <1>3 DEF IsWorld
<1>5. l \subseteq Artifacts /\ l \cap Documents = loaded /\ l \cap files = clean
  <2>1. Documents \cap files = {}
    BY DEF Documents, Splits
  <2>2. Documents \subseteq Artifacts /\ files \subseteq Artifacts
    BY DocumentsAre
  <2>3. clean \subseteq files
    OBVIOUS
  <2> HIDE DEF clean, files
  <2> QED
    BY <1>1, <2>1, <2>2, <2>3
<1>6. OfDocuments(s, l) = D
  <2>1. ASSUME NEW i \in 1..4, NEW j \in 1..i
        PROVE  /\ ReadOrder[j] \in l <=> ReadOrder[j] \in loaded
               /\ Content(s, ReadOrder[j]) = Content(seen, ReadOrder[j])
    <3>1. j \in 1..4 /\ ReadOrder[j] \in Documents
      BY DocumentsAre
    <3>2. ReadOrder[j][1] \in {"config", "results"}
      BY <3>1 DEF Documents
    <3>3. Content(s, ReadOrder[j]) = Content(seen, ReadOrder[j])
      BY <1>3, <3>2 DEF Content
    <3> HIDE DEF l
    <3> QED
      BY <1>5, <3>1, <3>3
  <2>2. Agree(s, l, seen, loaded, 2) /\ Agree(s, l, seen, loaded, 4)
    BY <2>1 DEF Agree
  <2> HIDE DEF l
  <2>3. /\ Comparisons(s, l, ReadOrder[2]) = Comparisons(seen, loaded, ReadOrder[2])
        /\ Comparisons(s, l, ReadOrder[4]) = Comparisons(seen, loaded, ReadOrder[4])
    BY <2>2, ComparedOnce
  <2> QED
    BY <2>3 DEF OfDocuments
<1>7. InMemory = VerdictFrom(s, l)
  BY DEF InMemory, s
<1> HIDE DEF D, F, E
<1>8. /\ InMemory \in Verdicts
      /\ InMemory = "NOT_SUPPORTED" <=> Grave(D) \/ Grave(E)
      /\ InMemory = "SUPPORTED" <=> /\ ~Grave(D) /\ ~Grave(E) /\ ~Lacking(D) /\ ~Lacking(E)
                                    /\ Artifacts \subseteq l
  <2> HIDE DEF l
  <2>1. /\ VerdictFrom(s, l) \in Verdicts
        /\ VerdictFrom(s, l) = "NOT_SUPPORTED" <=> Grave(D \cup E)
        /\ VerdictFrom(s, l) = "SUPPORTED" <=>
             ~Grave(D \cup E) /\ ~Lacking(D \cup E) /\ Artifacts \subseteq l
    BY <1>5, <1>6, InMemoryIs DEF E
  <2> QED
    BY <1>7, <2>1, GraveUnion
<1>9. /\ verdict = "SUPPORTED" <=> /\ ~Grave(D) /\ ~Grave(F) /\ ~Lacking(D) /\ ~Lacking(F)
                                   /\ Documents \subseteq loaded
      /\ verdict = "NOT_SUPPORTED" <=> Grave(D) \/ Grave(F)
  BY <1>1, GraveUnion
<1>10. /\ ~Lacking(F) <=> Looked
       /\ Looked => (Grave(F) <=> ~SoundSplits(world.data))
       /\ Looked => \A key \in Keys : Clean(world.data[key])
       /\ Grave(F) => ~SoundSplits(world.data)
  BY StreamSays DEF F
<1>11. (\A key \in Keys : Clean(world.data[key])) => files \subseteq l
  <2>1. \A a \in files : <<a[2], a[1]>> \in Keys
    BY DEF Keys
  <2> QED
    BY <2>1
<1>12. files \subseteq l => (Grave(E) <=> ~SoundSplits(world.data)) /\ ~Lacking(E)
  BY <1>3, <1>4, DataImpact DEF E
<1>13. files \subseteq l => (Artifacts \subseteq l <=> Documents \subseteq loaded)
  <2>1. Artifacts = Documents \cup files
    BY DocumentsAre
  <2> HIDE DEF l, files
  <2> QED
    BY <1>5, <2>1
<1> HIDE DEF l, files
<1>14. Looked => verdict = InMemory
  <2> SUFFICES ASSUME Looked PROVE verdict = InMemory
    OBVIOUS
  <2>1. verdict = "SUPPORTED" <=> InMemory = "SUPPORTED"
    BY <1>8, <1>9, <1>10, <1>11, <1>12, <1>13
  <2>2. verdict = "NOT_SUPPORTED" <=> InMemory = "NOT_SUPPORTED"
    BY <1>8, <1>9, <1>10, <1>11, <1>12
  <2> QED
    BY <1>8, <2>1, <2>2 DEF Verdicts
<1>15. verdict = "SUPPORTED" => Looked
  BY <1>9, <1>10
<1>16. verdict = "NOT_SUPPORTED" /\ (\A key \in Keys : Clean(world.data[key]))
         => InMemory = "NOT_SUPPORTED"
  BY <1>8, <1>9, <1>10, <1>11, <1>12
<1> QED
  BY <1>14, <1>15, <1>16

-----------------------------------------------------------------------------------
(* The measurement report.                                                   *)

ProtocolKinds == RequiredKinds \cup DOMAIN OptionalTokens

\* What a procedure says of its metric.
MetricFields(m, evaluation) == {<<"name", m>>} \cup Restricted(evaluation, MetricTokens)

LEMMA ProtocolKindsAre ==
  ASSUME NEW m, NEW evaluation, NEW records
  PROVE  DOMAIN TrainingProtocol(m, evaluation, records) = ProtocolKinds
BY DEF TrainingProtocol, ProtocolKinds

LEMMA MetricIs ==
  ASSUME NEW m, NEW evaluation, NEW records
  PROVE  TrainingProtocol(m, evaluation, records)["metric"] =
           Component(MetricFields(m, evaluation), TRUE)
BY DEF TrainingProtocol, RequiredKinds, MetricFields

LEMMA EvaluationDatasetIs ==
  ASSUME NEW m, NEW evaluation, NEW records
  PROVE  TrainingProtocol(m, evaluation, records)["evaluation_dataset"] =
           Component(DatasetFields(evaluation, records), TRUE)
BY DEF TrainingProtocol, RequiredKinds

LEMMA EvaluationConfigIs ==
  ASSUME NEW m, NEW evaluation, NEW records
  PROVE  TrainingProtocol(m, evaluation, records)["evaluation_config"] =
           Component(evaluation, TRUE)
BY DEF TrainingProtocol, RequiredKinds

LEMMA OptionalsAre ==
  ASSUME NEW m, NEW evaluation, NEW records, NEW k \in ProtocolKinds \ RequiredKinds
  PROVE  TrainingProtocol(m, evaluation, records)[k] =
           Component(Restricted(evaluation, OptionalTokens[k]), FALSE)
BY DEF TrainingProtocol, ProtocolKinds, RequiredKinds

LEMMA ComponentIs ==
  ASSUME NEW fields, NEW required \in BOOLEAN
  PROVE  LET c == Component(fields, required)
         IN  /\ c.coverage \in {"recovered", "missing", "not_applicable"}
             /\ c.coverage = "recovered" =>
                  c.fields = fields /\ fields # {} /\ Cardinality(fields) <= MaxSemanticFields
             /\ required => c.coverage # "not_applicable"
             /\ ~required => c.coverage # "missing"
             /\ fields # {} /\ Cardinality(fields) <= MaxSemanticFields => c.coverage = "recovered"
BY DEF Component

\* What the states say of one kind of component.
LEMMA StateIs ==
  ASSUME NEW kind, NEW b, NEW c, NEW rules,
         b.coverage \in {"recovered", "missing", "not_applicable"},
         c.coverage \in {"recovered", "missing", "not_applicable"}
  PROVE  /\ State(kind, b, c, rules) \in {"not_assessed", "insufficient", "verified", "invalidates"}
         /\ State(kind, b, c, rules) = "invalidates" => rules \cap Invalidating(kind) # {}
         /\ State(kind, b, c, rules) = "verified" =>
              b = c /\ b.coverage # "missing" /\ c.coverage # "missing"
         /\ b.coverage = "missing" \/ c.coverage = "missing" =>
              State(kind, b, c, rules) = "insufficient"
         /\ State(kind, b, c, rules) = "not_assessed" =>
              b.coverage = "not_applicable" /\ c.coverage = "not_applicable"
         /\ b = c /\ b.coverage = "recovered" => State(kind, b, c, rules) = "verified"
         /\ b = c /\ b.coverage = "not_applicable" => State(kind, b, c, rules) = "not_assessed"
BY DEF State

LEMMA DriftIs ==
  ASSUME NEW b, NEW c, NEW rules,
         \A k \in DOMAIN b : State(k, b[k], c[k], rules)
                               \in {"not_assessed", "insufficient", "verified", "invalidates"}
  PROVE  LET states == {State(k, b[k], c[k], rules) : k \in DOMAIN b}
         IN  /\ Drift(b, c, rules) = "invalidates" <=> "invalidates" \in states
             /\ Drift(b, c, rules) = "verified" <=>
                  /\ "verified" \in states
                  /\ "invalidates" \notin states /\ "insufficient" \notin states
BY DEF Drift

\* An evaluation the report can hold gives every required component its fields.
LEMMA FieldsFit ==
  ASSUME NEW evaluation, IsFiniteSet(evaluation), Cardinality(evaluation) <= MaxSemanticFields,
         Declares(evaluation), NEW m, NEW w
  PROVE  /\ evaluation # {}
         /\ Cardinality(MetricFields(m, evaluation)) <= MaxSemanticFields
         /\ DatasetFields(evaluation, {w}) # {}
         /\ Cardinality(DatasetFields(evaluation, {w})) <= MaxSemanticFields
         /\ \A tokens : Cardinality(Restricted(evaluation, tokens)) <= MaxSemanticFields
<1>1. PICK x \in evaluation : x[1] = "split"
  BY DEF Declares, Tokens, DatasetTokens
<1>2. MaxSemanticFields = 32 /\ Cardinality(evaluation) \in Nat
  BY FS_CardinalityType DEF MaxSemanticFields
<1>3. ASSUME NEW tokens
      PROVE  /\ IsFiniteSet(Restricted(evaluation, tokens))
             /\ Cardinality(Restricted(evaluation, tokens)) \in Nat
             /\ Cardinality(Restricted(evaluation, tokens)) <= MaxSemanticFields
  <2>1. Restricted(evaluation, tokens) \subseteq evaluation
    BY DEF Restricted
  <2>2. /\ IsFiniteSet(Restricted(evaluation, tokens))
        /\ Cardinality(Restricted(evaluation, tokens)) <= Cardinality(evaluation)
    BY <2>1, FS_Subset
  <2>3. Cardinality(Restricted(evaluation, tokens)) \in Nat
    BY <2>2, FS_CardinalityType
  <2> QED
    BY <1>2, <2>2, <2>3
<1>4. Cardinality(MetricFields(m, evaluation)) <= MaxSemanticFields
  <2> DEFINE R == Restricted(evaluation, MetricTokens)
             others == evaluation \ {x}
  <2>1. R \subseteq others
    BY <1>1 DEF Restricted, MetricTokens
  <2>2. IsFiniteSet(others) /\ Cardinality(others) = Cardinality(evaluation) - 1
    BY <1>1, FS_RemoveElement
  <2> HIDE DEF R, others
  <2>3. IsFiniteSet(R) /\ Cardinality(R) <= Cardinality(others) /\ Cardinality(R) \in Nat
    BY <2>1, <2>2, FS_Subset, FS_CardinalityType
  <2>4. \/ Cardinality(R \cup {<<"name", m>>}) = Cardinality(R)
        \/ Cardinality(R \cup {<<"name", m>>}) = Cardinality(R) + 1
    BY <2>3, FS_AddElement
  <2>5. {<<"name", m>>} \cup R = R \cup {<<"name", m>>}
    OBVIOUS
  <2>6. Cardinality({<<"name", m>>} \cup R) <= MaxSemanticFields
    BY <1>2, <2>2, <2>3, <2>4, <2>5
  <2> QED
    BY <2>6 DEF R, MetricFields
<1>5. /\ DatasetFields(evaluation, {w}) # {}
      /\ Cardinality(DatasetFields(evaluation, {w})) <= MaxSemanticFields
  <2> DEFINE R == Restricted(evaluation, DatasetTokens)
  <2>1. DatasetFields(evaluation, {w}) = R \X {w}
    BY DEF DatasetFields, Declares
  <2>2. x \in R
    BY <1>1 DEF Restricted, DatasetTokens
  <2>3. IsFiniteSet(R) /\ Cardinality(R) \in Nat /\ Cardinality(R) <= MaxSemanticFields
    BY <1>3
  <2>4. IsFiniteSet({w}) /\ Cardinality({w}) = 1
    BY FS_Singleton
  <2> HIDE DEF R
  <2>5. Cardinality(R \X {w}) = Cardinality(R) * 1
    BY <2>3, <2>4, FS_Product
  <2>6. <<x, w>> \in R \X {w}
    BY <2>2
  <2>7. Cardinality(R \X {w}) <= MaxSemanticFields
    BY <2>3, <2>5
  <2> QED
    BY <2>1, <2>6, <2>7
<1> QED
  BY <1>1, <1>3, <1>4, <1>5

Blamed == {"CONFIG.EVALUATION_MISMATCH", "DATASET.EVALUATION_MISMATCH",
           "BENCHMARK.WORKLOAD_MISMATCH", "BENCHMARK.METRIC_MISMATCH",
           "BENCHMARK.CONFIG_MISMATCH"}

LEMMA BlamedIs ==
  ASSUME NEW kind
  PROVE  Invalidating(kind) \subseteq Blamed
BY DEF Invalidating, Blamed

\* The multiset of an evaluation that was looked at completely.
EvaluationOf(x) == IF streamed THEN world.data[<<x, "eval">>] ELSE seen.data[<<x, "eval">>]
WhollyRead(x) == IF streamed THEN looked[<<x, "eval">>].complete ELSE <<"eval", x>> \in loaded

LEMMA NotOfResults ==
  ASSUME NEW b, NEW c, NEW f \in ResultFindings(b, c)
  PROVE  f.rule \notin Blamed
<1>1. CASE GainOverflows(b, c, claim)
  BY <1>1 DEF ResultFindings, Found, Blamed
<1>2. CASE ~GainOverflows(b, c, claim)
  <2>1. f \in RunFindings(b, c, claim)
    BY <1>2 DEF ResultFindings
  <2>2. ClaimFinding(b, c, claim).rule \in {"RESULT.CLAIM_SUPPORTED", "RESULT.CLAIM_NOT_SUPPORTED"}
    BY DEF ClaimFinding, Found
  <2>3. \A x : \A g \in SeedIssues(x, b) \cup SeedIssues(x, c) :
          g.rule \in {"SEED.MISSING_METADATA", "SEED.DUPLICATE", "SEED.SINGLE_RUN"}
    BY DEF SeedIssues, If, Found
  <2>4. \/ f \in SeedIssues("baseline", b) \cup SeedIssues("candidate", c)
        \/ f = Found("SEED.IMBALANCE", "both", "NONE")
        \/ f = Found("RESULT.RECOMPUTED", "both", "NONE")
        \/ f = Found("RESULT.SUMMARY_MISMATCH", "baseline", "INVALIDATES")
        \/ f = Found("RESULT.SUMMARY_MISMATCH", "candidate", "INVALIDATES")
        \/ f = Found("SEED.EVIDENCE_VERIFIED", "both", "NONE")
        \/ f = ClaimFinding(b, c, claim)
    BY <2>1 DEF RunFindings, If
  <2>5. f \in SeedIssues("baseline", b) \cup SeedIssues("candidate", c) =>
          f.rule \in {"SEED.MISSING_METADATA", "SEED.DUPLICATE", "SEED.SINGLE_RUN"}
    BY <2>3
  <2> QED
    BY <2>2, <2>4, <2>5 DEF Found, Blamed
<1> QED
  BY <1>1, <1>2

\* A mismatch among the findings is one of what was read.
LEMMA MismatchesAre ==
  ASSUME AuditInv, verdict \in Verdicts, NEW f \in findings, f.rule \in Blamed
  PROVE  /\ f.impact = "INVALIDATES"
         /\ \/ /\ f.rule = "CONFIG.EVALUATION_MISMATCH"
               /\ EvaluationMismatch(seen.config["baseline"], seen.config["candidate"])
            \/ /\ f.rule = "DATASET.EVALUATION_MISMATCH"
               /\ \A x \in Experiments : WhollyRead(x)
               /\ Whole(EvaluationOf("baseline")) # Whole(EvaluationOf("candidate"))
<1>1. /\ Behind \subseteq Artifacts
      /\ findings \subseteq Compared \cup (UNION {Failures(a) : a \in Behind \ loaded})
                         \cup {Found("RESULT.METRIC_IDENTITY_VERIFIED", "both", "NONE")}
  BY ComparedSoFar DEF AuditInv, FindingsInv
<1>2. f # Found("RESULT.METRIC_IDENTITY_VERIFIED", "both", "NONE")
  BY DEF Found, Blamed
<1>3. ASSUME NEW a \in Artifacts PROVE f \notin Failures(a)
  <2>1. FailureRules[a[1]] \cap Blamed = {}
    BY DEF Artifacts, Kinds, Splits, FailureRules, Blamed
  <2> QED
    BY <2>1 DEF Failures, Found
<1>4. f \in Compared
  BY <1>1, <1>2, <1>3
<1>5. Compared = IF streamed
                   THEN OfDocuments(seen, loaded) \cup StreamFindings(world.data, looked)
                   ELSE OfDocuments(seen, loaded) \cup OfData(seen, loaded)
  BY AtTheVerdict
<1>6. CASE f \in OfDocuments(seen, loaded)
  <2>1. \/ f \in ConfigFindings(seen.config["baseline"], seen.config["candidate"])
        \/ f \in ResultFindings(seen.results["baseline"], seen.results["candidate"])
    BY <1>6, ComparedWith DEF OfDocuments
  <2>2. f \in ConfigFindings(seen.config["baseline"], seen.config["candidate"])
    BY <2>1, NotOfResults
  <2> DEFINE b == seen.config["baseline"]
             c == seen.config["candidate"]
  <2>3. \/ f = Found("CONFIG.LOADED", "both", "NONE")
        \/ f = Found("CONFIG.FAIRNESS_VERIFIED", "both", "NONE")
        \/ f = Found("CONFIG.MISSING_FIELDS", "both", "INSUFFICIENT")
        \/ f = Found("CONFIG.COMPUTE_MISMATCH", "both", "INVALIDATES")
        \/ f = Found("CONFIG.EVALUATION_MISMATCH", "both", "INVALIDATES") /\ EvaluationMismatch(b, c)
        \/ f = Found("CONFIG.TRAINING_PARAMETER_DIFFERENCE", "both", "NONE")
        \/ f = Found("CONFIG.DESCRIPTION_DIFFERENCE", "both", "NONE")
    BY <2>2 DEF ConfigFindings, ConfigIssues, If
  <2> HIDE DEF b, c
  <2>4. f.rule = "CONFIG.EVALUATION_MISMATCH" /\ f.impact = "INVALIDATES" /\ EvaluationMismatch(b, c)
    BY <2>3 DEF Found, Blamed
  <2> QED
    BY <2>4 DEF b, c
<1>7. CASE streamed /\ f \in StreamFindings(world.data, looked)
  <2>1. /\ f.rule = "DATASET.EVALUATION_MISMATCH" /\ f.impact = "INVALIDATES"
        /\ \A x \in Experiments : looked[<<x, "eval">>].complete
        /\ Whole(world.data[<<"baseline", "eval">>]) # Whole(world.data[<<"candidate", "eval">>])
    <3>1. \/ f.rule \in {"DATASET.EXACT_LEAKAGE", "DATASET.NO_LEAKAGE",
                         "DATASET.SCAN_INCOMPLETE", "DATASET.EVALUATION_ALIGNED"}
          \/ /\ f.rule = "DATASET.EVALUATION_MISMATCH" /\ f.impact = "INVALIDATES"
             /\ \A x \in Experiments : looked[<<x, "eval">>].complete
             /\ Whole(world.data[<<"baseline", "eval">>]) # Whole(world.data[<<"candidate", "eval">>])
      BY <1>7, StreamImpacts
    <3> QED
      BY <3>1 DEF Blamed
  <2> QED
    BY <1>7, <2>1 DEF WhollyRead, EvaluationOf
<1>8. CASE ~streamed /\ f \in OfData(seen, loaded)
  <2> DEFINE be == seen.data[<<"baseline", "eval">>]
             ce == seen.data[<<"candidate", "eval">>]
  <2>1. \A x, t, e : LeakageFinding(x, t, e).rule \in {"DATASET.EXACT_LEAKAGE", "DATASET.NO_LEAKAGE"}
    BY DEF LeakageFinding, Found
  <2>2. \/ \E x, t, e : f = LeakageFinding(x, t, e)
        \/ f = AlignmentFinding(be, ce) /\ ReadOrder[6] \in loaded /\ ReadOrder[8] \in loaded
    <3>1. Comparisons(seen, loaded, ReadOrder[6]) \subseteq
            {LeakageFinding("baseline", seen.data[<<"baseline", "train">>], be)}
      BY ComparedWith
    <3>2. Comparisons(seen, loaded, ReadOrder[8]) =
            (IF ReadOrder[7] \in loaded /\ ReadOrder[8] \in loaded
             THEN {LeakageFinding("candidate", seen.data[<<"candidate", "train">>], ce)} ELSE {})
            \cup (IF ReadOrder[6] \in loaded /\ ReadOrder[8] \in loaded
                  THEN {AlignmentFinding(be, ce)} ELSE {})
      BY ComparedWith
    <3> QED
      BY <1>8, <3>1, <3>2 DEF OfData
  <2>3. f = AlignmentFinding(be, ce) /\ ReadOrder[6] \in loaded /\ ReadOrder[8] \in loaded
    BY <2>1, <2>2 DEF Blamed
  <2>4. /\ f.rule = "DATASET.EVALUATION_MISMATCH" /\ f.impact = "INVALIDATES"
        /\ Whole(be) # Whole(ce)
    BY <2>3 DEF AlignmentFinding, Found, Blamed
  <2>5. \A x \in Experiments : <<"eval", x>> \in loaded
    BY <2>3, ReadOrderIs DEF Experiments
  <2> QED
    BY <1>8, <2>4, <2>5 DEF WhollyRead, EvaluationOf
<1> QED
  BY <1>4, <1>5, <1>6, <1>7, <1>8

\* The evaluation mapping and the multiset the report has of an experiment.
MappingOf(x) ==
    IF <<"config", x>> \in loaded /\ seen.config[x].flat THEN seen.config[x].evaluation ELSE {}
RecordsOf(x) == IF WhollyRead(x) THEN {Whole(EvaluationOf(x))} ELSE {}

LEMMA RecoveredIs ==
  ASSUME NEW x
  PROVE  Recovered(x) = TrainingProtocol("metric", MappingOf(x), RecordsOf(x))
BY DEF Recovered, MappingOf, RecordsOf, WhollyRead, EvaluationOf

\* The states the report compares.
LEMMA StatesAre ==
  ASSUME NEW rules, NEW k \in ProtocolKinds
  PROVE  /\ DOMAIN Recovered("baseline") = ProtocolKinds
         /\ Recovered("baseline")[k].coverage \in {"recovered", "missing", "not_applicable"}
         /\ Recovered("candidate")[k].coverage \in {"recovered", "missing", "not_applicable"}
         /\ State(k, Recovered("baseline")[k], Recovered("candidate")[k], rules)
              \in {"not_assessed", "insufficient", "verified", "invalidates"}
<1>1. \A x : /\ DOMAIN Recovered(x) = ProtocolKinds
             /\ \E fields : \E required \in BOOLEAN : Recovered(x)[k] = Component(fields, required)
  <2> TAKE x
  <2> DEFINE p == Recovered(x)
  <2>0. p = TrainingProtocol("metric", MappingOf(x), RecordsOf(x))
    BY RecoveredIs
  <2>2. Recovered(x) = p
    OBVIOUS
  <2> HIDE DEF p
  <2>1. /\ DOMAIN p = ProtocolKinds
        /\ p["metric"] =
             Component(MetricFields("metric", MappingOf(x)), TRUE)
        /\ p["evaluation_dataset"] = Component(DatasetFields(MappingOf(x), RecordsOf(x)), TRUE)
        /\ p["evaluation_config"] = Component(MappingOf(x), TRUE)
        /\ \A i \in ProtocolKinds \ RequiredKinds :
             p[i] = Component(Restricted(MappingOf(x), OptionalTokens[i]), FALSE)
    BY ZenonT(40), <2>0, ProtocolKindsAre, MetricIs, EvaluationDatasetIs, EvaluationConfigIs,
       OptionalsAre
  <2>3. CASE k \in RequiredKinds
    BY <2>1, <2>2, <2>3 DEF RequiredKinds
  <2>4. CASE k \notin RequiredKinds
    BY <2>1, <2>2, <2>4
  <2> QED
    BY <2>1, <2>2, <2>3, <2>4
<1>2. \A x : Recovered(x)[k].coverage \in {"recovered", "missing", "not_applicable"}
  BY <1>1, ComponentIs
<1> QED
  BY <1>1, <1>2, StateIs

\* The required components of a procedure.
LEMMA RequiredAre ==
  ASSUME NEW x
  PROVE  /\ Recovered(x)["evaluation_config"] = Component(MappingOf(x), TRUE)
         /\ Recovered(x)["evaluation_dataset"] =
              Component(DatasetFields(MappingOf(x), RecordsOf(x)), TRUE)
         /\ Recovered(x)["metric"] =
              Component(MetricFields("metric", MappingOf(x)), TRUE)
         /\ \A k \in ProtocolKinds \ RequiredKinds :
              Recovered(x)[k] = Component(Restricted(MappingOf(x), OptionalTokens[k]), FALSE)
<1> DEFINE p == Recovered(x)
           mapping == MappingOf(x)
           records == RecordsOf(x)
<1>1. p = TrainingProtocol("metric", mapping, records)
  BY RecoveredIs
<1> HIDE DEF p, mapping, records
<1>2. /\ p["metric"] =
           Component(MetricFields("metric", mapping), TRUE)
      /\ p["evaluation_dataset"] = Component(DatasetFields(mapping, records), TRUE)
      /\ p["evaluation_config"] = Component(mapping, TRUE)
      /\ \A k \in ProtocolKinds \ RequiredKinds :
           p[k] = Component(Restricted(mapping, OptionalTokens[k]), FALSE)
  BY ZenonT(40), <1>1, ProtocolKindsAre, MetricIs, EvaluationDatasetIs, EvaluationConfigIs,
       OptionalsAre
<1> QED
  BY <1>2 DEF p, mapping, records

\* A required component that is not at fault is the same on both sides.
LEMMA VerifiedMeansSame ==
  ASSUME NEW rules, NEW k \in RequiredKinds, NEW f, NEW g,
         Recovered("baseline")[k] = Component(f, TRUE),
         Recovered("candidate")[k] = Component(g, TRUE),
         State(k, Recovered("baseline")[k], Recovered("candidate")[k], rules)
           \notin {"insufficient", "invalidates"}
  PROVE  f # {} /\ f = g
<1> DEFINE b == Recovered("baseline")[k]
           c == Recovered("candidate")[k]
<1>1. /\ b.coverage \in {"recovered", "missing", "not_applicable"}
      /\ b.coverage # "not_applicable"
      /\ b.coverage = "recovered" => b.fields = f /\ f # {}
  BY ComponentIs
<1>2. /\ c.coverage \in {"recovered", "missing", "not_applicable"}
      /\ c.coverage # "not_applicable"
      /\ c.coverage = "recovered" => c.fields = g /\ g # {}
  BY ComponentIs
<1> HIDE DEF b, c
<1>3. /\ State(k, b, c, rules) \in {"not_assessed", "insufficient", "verified", "invalidates"}
      /\ State(k, b, c, rules) = "verified" =>
           b = c /\ b.coverage # "missing" /\ c.coverage # "missing"
      /\ State(k, b, c, rules) = "not_assessed" =>
           b.coverage = "not_applicable" /\ c.coverage = "not_applicable"
  BY <1>1, <1>2, StateIs
<1>4. State(k, b, c, rules) \notin {"insufficient", "invalidates"}
  BY DEF b, c
<1> QED
  BY <1>1, <1>2, <1>3, <1>4

\* The report follows the verdict.
LEMMA ReportFollows ==
  ASSUME AuditInv
  PROVE  ReportFollowsVerdict
<1> SUFFICES ASSUME verdict \in Verdicts
             PROVE  /\ Report = "invalidates" => verdict = "NOT_SUPPORTED"
                    /\ Report = "verified" =>
                         {f.rule : f \in findings} \cap
                             {"CONFIG.EVALUATION_MISMATCH", "DATASET.EVALUATION_MISMATCH"} = {}
                    /\ verdict = "SUPPORTED" =>
                         \/ Report = "verified"
                         \/ \E x \in Experiments :
                                LET config == seen.config[x]
                                IN  \/ ~config.flat
                                    \/ Cardinality(config.evaluation) > MaxSemanticFields
  BY DEF ReportFollowsVerdict
<1> DEFINE rules == {f.rule : f \in findings}
           P == Recovered("baseline")
           Q == Recovered("candidate")
           state(k) == State(k, P[k], Q[k], rules)
           b == seen.config["baseline"]
           c == seen.config["candidate"]
<1>0. /\ "baseline" \in Experiments /\ "candidate" \in Experiments
      /\ \A x \in Experiments : x = "baseline" \/ x = "candidate"
      /\ "evaluation_config" \in RequiredKinds /\ "evaluation_dataset" \in RequiredKinds
      /\ "metric" \in RequiredKinds /\ RequiredKinds \subseteq ProtocolKinds
  BY DEF Experiments, RequiredKinds, ProtocolKinds
<1>1. /\ DOMAIN P = ProtocolKinds
      /\ \A k \in ProtocolKinds :
           state(k) \in {"not_assessed", "insufficient", "verified", "invalidates"}
  BY <1>0, StatesAre
<1>2. /\ Report = "invalidates" <=> \E k \in ProtocolKinds : state(k) = "invalidates"
      /\ Report = "verified" <=>
           /\ \E k \in ProtocolKinds : state(k) = "verified"
           /\ \A k \in ProtocolKinds : state(k) \notin {"insufficient", "invalidates"}
  <2> DEFINE states == {State(k, P[k], Q[k], rules) : k \in DOMAIN P}
  <2>1. /\ Drift(P, Q, rules) = "invalidates" <=> "invalidates" \in states
        /\ Drift(P, Q, rules) = "verified" <=>
             /\ "verified" \in states
             /\ "invalidates" \notin states /\ "insufficient" \notin states
    <3>1. \A k \in DOMAIN P : State(k, P[k], Q[k], rules)
                               \in {"not_assessed", "insufficient", "verified", "invalidates"}
      BY <1>1
    <3> HIDE DEF P, Q, rules
    <3> QED
      BY <3>1, DriftIs
  <2>2. Report = Drift(P, Q, rules)
    BY DEF Report
  <2> HIDE DEF P, Q, rules
  <2> QED
    BY <1>1, <2>1, <2>2
<1>3. ASSUME Report = "invalidates" PROVE verdict = "NOT_SUPPORTED"
  <2>1. PICK k \in ProtocolKinds : state(k) = "invalidates"
    BY <1>2, <1>3
  <2>2. rules \cap Invalidating(k) # {}
    <3>1. /\ P[k].coverage \in {"recovered", "missing", "not_applicable"}
          /\ Q[k].coverage \in {"recovered", "missing", "not_applicable"}
      BY StatesAre
    <3> HIDE DEF P, Q, rules
    <3> QED
      BY <2>1, <3>1, StateIs
  <2>3. PICK f \in findings : f.rule \in Blamed
    BY <2>2, BlamedIs
  <2>4. f.impact = "INVALIDATES"
    BY <2>3, MismatchesAre
  <2>5. Grave(findings) /\ verdict = Verdict(findings)
    BY <2>4 DEF Grave, AuditInv
  <2> QED
    BY <2>5, VerdictIs
<1>4. ASSUME Report = "verified", NEW f \in findings,
             f.rule \in {"CONFIG.EVALUATION_MISMATCH", "DATASET.EVALUATION_MISMATCH"}
      PROVE  FALSE
  <2>1. state("evaluation_config") \notin {"insufficient", "invalidates"}
    BY <1>0, <1>2, <1>4
  <2>2. state("evaluation_dataset") \notin {"insufficient", "invalidates"}
    BY <1>0, <1>2, <1>4
  <2>3. MappingOf("baseline") # {} /\ MappingOf("baseline") = MappingOf("candidate")
    BY <1>0, <2>1, RequiredAre, VerifiedMeansSame, ZenonT(40)
  <2>4. /\ DatasetFields(MappingOf("baseline"), RecordsOf("baseline")) # {}
        /\ DatasetFields(MappingOf("baseline"), RecordsOf("baseline"))
             = DatasetFields(MappingOf("candidate"), RecordsOf("candidate"))
    <3> DEFINE f1 == DatasetFields(MappingOf("baseline"), RecordsOf("baseline"))
               f2 == DatasetFields(MappingOf("candidate"), RecordsOf("candidate"))
    <3>1. /\ Recovered("baseline")["evaluation_dataset"] = Component(f1, TRUE)
          /\ Recovered("candidate")["evaluation_dataset"] = Component(f2, TRUE)
      BY RequiredAre
    <3>2. State("evaluation_dataset", Recovered("baseline")["evaluation_dataset"],
                Recovered("candidate")["evaluation_dataset"], rules)
            \notin {"insufficient", "invalidates"}
      BY <2>2
    <3> HIDE DEF f1, f2, rules
    <3>3. f1 # {} /\ f1 = f2
      BY <1>0, <3>1, <3>2, VerifiedMeansSame
    <3> QED
      BY <3>3 DEF f1, f2
  <2>5. f.rule \in Blamed
    BY <1>4 DEF Blamed
  <2>6. \/ EvaluationMismatch(b, c)
        \/ /\ \A x \in Experiments : WhollyRead(x)
           /\ Whole(EvaluationOf("baseline")) # Whole(EvaluationOf("candidate"))
    BY <2>5, MismatchesAre
  <2>7. ~EvaluationMismatch(b, c)
    <3>1. MappingOf("baseline") = b.evaluation /\ MappingOf("candidate") = c.evaluation
      BY <2>3 DEF MappingOf
    <3> QED
      BY <2>3, <3>1 DEF EvaluationMismatch
  <2>8. ASSUME \A x \in Experiments : WhollyRead(x),
               Whole(EvaluationOf("baseline")) # Whole(EvaluationOf("candidate"))
        PROVE  FALSE
    <3> DEFINE R == Restricted(MappingOf("baseline"), DatasetTokens)
               v == Whole(EvaluationOf("baseline"))
               w == Whole(EvaluationOf("candidate"))
    <3>1. RecordsOf("baseline") = {v} /\ RecordsOf("candidate") = {w}
      BY <1>0, <2>8 DEF RecordsOf
    <3>2. /\ DatasetFields(MappingOf("baseline"), RecordsOf("baseline")) = R \X {v}
          /\ DatasetFields(MappingOf("candidate"), RecordsOf("candidate")) = R \X {w}
      BY <2>3, <2>4, <3>1 DEF DatasetFields
    <3> HIDE DEF R, v, w
    <3>3. R \X {v} # {} /\ R \X {v} = R \X {w}
      BY <2>4, <3>2
    <3>4. PICK e : e \in R \X {v}
      BY <3>3
    <3>5. e[2] = v /\ e[2] = w
      BY <3>3, <3>4
    <3> QED
      BY <2>8, <3>5 DEF v, w
  <2> QED
    BY <2>6, <2>7, <2>8
<1>5. ASSUME verdict = "SUPPORTED",
             \A x \in Experiments : /\ seen.config[x].flat
                                    /\ Cardinality(seen.config[x].evaluation) <= MaxSemanticFields
      PROVE  Report = "verified"
  <2>1. /\ Everything /\ FairConfigs(b, c)
        /\ SoundSplits(IF streamed THEN world.data ELSE seen.data)
    BY <1>5, SupportFollows DEF SupportedIsEarned
  <2>2. \A x \in Experiments : <<"config", x>> \in loaded /\ WhollyRead(x)
    <3>1. CASE loaded = Artifacts
      <4>1. ~streamed
        <5>1. <<"train", "baseline">> \in Artifacts /\ <<"train", "baseline">> \notin Documents
          BY DEF Artifacts, Kinds, Documents, Experiments, Splits
        <5> QED
          BY <3>1, <5>1, AtTheVerdict
      <4> QED
        BY <3>1, <4>1 DEF WhollyRead, Artifacts, Kinds, Splits
    <3>2. CASE streamed /\ {"config", "results"} \X Experiments = loaded /\ Looked
      <4>1. \A x \in Experiments : <<x, "eval">> \in Keys /\ <<"config", x>> \in loaded
        BY <3>2 DEF Keys, Splits
      <4> QED
        BY <3>2, <4>1 DEF WhollyRead, Looked
    <3> QED
      BY <2>1, <3>1, <3>2 DEF Everything
  <2>3. /\ MappingOf("baseline") = b.evaluation /\ MappingOf("candidate") = c.evaluation
        /\ b.evaluation = c.evaluation
    BY <1>0, <1>5, <2>1, <2>2 DEF MappingOf, FairConfigs
  <2>4. Whole(EvaluationOf("baseline")) = Whole(EvaluationOf("candidate"))
    BY <2>1 DEF SoundSplits, EvaluationOf
  <2>5. RecordsOf("baseline") = RecordsOf("candidate")
        /\ RecordsOf("baseline") = {Whole(EvaluationOf("baseline"))}
    BY <1>0, <2>2, <2>4 DEF RecordsOf
  <2>6. P = Q
    BY <2>3, <2>5, RecoveredIs
  <2>7. IsFiniteSet(b.evaluation) /\ Declares(b.evaluation)
    BY <1>0, <2>1 DEF AuditInv, IsWorld, IsConfig, FairConfigs
  <2>8. Cardinality(b.evaluation) <= MaxSemanticFields
    BY <1>0, <1>5
  <2> DEFINE ev == b.evaluation
             w == Whole(EvaluationOf("baseline"))
  <2>9. /\ ev # {}
        /\ Cardinality(MetricFields("metric", ev)) <= MaxSemanticFields
        /\ DatasetFields(ev, {w}) # {} /\ Cardinality(DatasetFields(ev, {w})) <= MaxSemanticFields
        /\ \A tokens : Cardinality(Restricted(ev, tokens)) <= MaxSemanticFields
    <3>1. IsFiniteSet(ev) /\ Declares(ev) /\ Cardinality(ev) <= MaxSemanticFields
      BY <2>7, <2>8
    <3> HIDE DEF ev, w
    <3> QED
      BY <3>1, FieldsFit
  <2>10. /\ P["evaluation_config"] = Component(ev, TRUE)
         /\ P["evaluation_dataset"] = Component(DatasetFields(ev, {w}), TRUE)
         /\ P["metric"] = Component(MetricFields("metric", ev), TRUE)
         /\ \A k \in ProtocolKinds \ RequiredKinds :
              P[k] = Component(Restricted(ev, OptionalTokens[k]), FALSE)
    BY <2>3, <2>5, RequiredAre
  <2>11. \A k \in RequiredKinds : P[k].coverage = "recovered"
    <3> HIDE DEF ev, w, P
    <3>1. P["evaluation_config"].coverage = "recovered"
      BY <2>8, <2>9, <2>10, ComponentIs DEF ev
    <3>2. P["evaluation_dataset"].coverage = "recovered"
      BY <2>9, <2>10, ComponentIs
    <3>0. MetricFields("metric", ev) # {}
      BY DEF MetricFields
    <3>3. P["metric"].coverage = "recovered"
      BY <2>9, <2>10, <3>0, ComponentIs
    <3> QED
      BY <3>1, <3>2, <3>3 DEF RequiredKinds
  <2>12. \A k \in ProtocolKinds \ RequiredKinds : P[k].coverage \in {"recovered", "not_applicable"}
    <3> HIDE DEF ev, w, P
    <3> TAKE k \in ProtocolKinds \ RequiredKinds
    <3>1. P[k] = Component(Restricted(ev, OptionalTokens[k]), FALSE)
      BY <2>10
    <3> QED
      BY <3>1, ComponentIs
  <2>13. \A k \in ProtocolKinds : P[k].coverage \in {"recovered", "not_applicable"}
    BY <2>11, <2>12
  <2> HIDE DEF P, Q, rules
  <2>14. \A k \in ProtocolKinds :
           /\ P[k].coverage = "recovered" => state(k) = "verified"
           /\ P[k].coverage = "not_applicable" => state(k) = "not_assessed"
    BY <2>6, <2>13, StateIs
  <2>15. state("metric") = "verified"
    BY <1>0, <2>11, <2>14
  <2>16. \A k \in ProtocolKinds : state(k) \notin {"insufficient", "invalidates"}
    BY <2>13, <2>14
  <2> QED
    BY <1>0, <1>2, <2>15, <2>16
<1>6. ASSUME verdict = "SUPPORTED"
      PROVE  \/ Report = "verified"
             \/ \E x \in Experiments : \/ ~seen.config[x].flat
                                       \/ Cardinality(seen.config[x].evaluation) > MaxSemanticFields
  <2>1. ASSUME NEW x \in Experiments,
               ~(Cardinality(seen.config[x].evaluation) > MaxSemanticFields)
        PROVE  Cardinality(seen.config[x].evaluation) <= MaxSemanticFields
    <3>1. IsFiniteSet(seen.config[x].evaluation)
      BY DEF AuditInv, IsWorld, IsConfig
    <3>2. Cardinality(seen.config[x].evaluation) \in Nat
      BY <3>1, FS_CardinalityType
    <3> QED
      BY <2>1, <3>2 DEF MaxSemanticFields
  <2> QED
    BY <1>5, <1>6, <2>1
<1> QED
  BY <1>3, <1>4, <1>6

-----------------------------------------------------------------------------------
(* The theorems.                                                             *)

(* The claim is supported exactly when all of the evidence was read and      *)
(* bears it out.  (audit_research and determine_verdict)                     *)
THEOREM SupportedVerdictsAreEarned ==
  Spec => []SupportedIsEarned
BY InvariantHolds, SupportFollows, PTL

(* Without one of its artifacts a claim is not supported, and nothing but    *)
(* what would have counted against it anyway counts against it.              *)
(* (audit_research compares only what it could load)                         *)
THEOREM WithheldEvidenceIsNoHelp ==
  Spec => []WithholdingNeverHelps
BY InvariantHolds, WithholdingFollows, PTL

(* An audit of streamed datasets says what the audit of the same datasets in *)
(* memory says, and never more.  (check_streaming_dataset_context beside     *)
(* check_dataset_leakage and check_evaluation_alignment)                     *)
THEOREM BothAuditsAgree ==
  Spec => []StreamedAgrees
BY InvariantHolds, AgreementFollows, PTL

(* The measurement report never contradicts the verdict it stands beside.    *)
(* (compare_measurement_protocols beside check_configs and                   *)
(* check_evaluation_alignment)                                               *)
THEOREM ReportIsConsistent ==
  Spec => []ReportFollowsVerdict
BY InvariantHolds, ReportFollows, PTL
====
