------------------------------- MODULE ResultCheck -------------------------------
(***************************************************************************)
(* Findings and the verdict over them, and result_check.py: what repeated  *)
(* runs and reported aggregates say of a claimed improvement.  A claim     *)
(* [higher, threshold, ...]; results [runs, claimed], runs a sequence of   *)
(* [value, seed].  A mean is a sum and a count.                            *)
(***************************************************************************)
EXTENDS Integers, Sequences, SequencesExt

CONSTANT Largest  \* bound: no finite number is larger

None == "none"

Found(rule, x, impact) == [rule |-> rule, of |-> x, impact |-> impact]
If(condition, finding) == IF condition THEN {finding} ELSE {}

\* determine_verdict
Verdict(fs) ==
    CASE \E f \in fs : f.impact = "INVALIDATES" -> "NOT_SUPPORTED"
      [] /\ \A f \in fs : f.impact # "INVALIDATES"
         /\ \E f \in fs : f.impact = "INSUFFICIENT" -> "INSUFFICIENT_EVIDENCE"
      [] OTHER -> "SUPPORTED"

Verdicts == {"SUPPORTED", "INSUFFICIENT_EVIDENCE", "NOT_SUPPORTED"}

-----------------------------------------------------------------------------------
(* Summaries *)

SumOf(numbers) ==
    LET sum[n \in 0..Len(numbers)] == IF n = 0 THEN 0 ELSE sum[n - 1] + numbers[n]
    IN  sum[Len(numbers)]

Total(runs) == SumOf([i \in DOMAIN runs |-> runs[i].value])
Squares(runs) == SumOf([i \in DOMAIN runs |-> runs[i].value * runs[i].value])
Finite(n) == n \in -Largest..Largest

\* summarize_runs: neither the sums nor the deviation may leave the finite numbers.
Summarizable(runs) ==
    LET n == Len(runs)
    IN /\ n > 0
       /\ \A i \in 1..n : Finite(Total(SubSeq(runs, 1, i)))
       /\ n * Squares(runs) - Total(runs) * Total(runs) <= Largest * Largest * n * (n - 1)

Mismatches(r) == \E c \in r.claimed : c * Len(r.runs) # Total(r.runs)

-----------------------------------------------------------------------------------
(* Seeds *)

Seeds(r) == {r.runs[i].seed : i \in DOMAIN r.runs} \ {None}

RepeatsSeed(r) ==
    \E i, j \in DOMAIN r.runs :
        i # j /\ r.runs[i].seed # None /\ r.runs[i].seed = r.runs[j].seed

\* A plausible slip: one integer seed is enough.
LacksSeeds(r) == Seeds(r) = {}

LacksSeed(r) == \E i \in DOMAIN r.runs : r.runs[i].seed = None

SeedIssues(x, r) ==
    If(LacksSeed(r), Found("SEED.MISSING_METADATA", x, "INSUFFICIENT"))
    \cup If(RepeatsSeed(r), Found("SEED.DUPLICATE", x, "INSUFFICIENT"))
    \cup If(Len(r.runs) = 1, Found("SEED.SINGLE_RUN", x, "INSUFFICIENT"))

Imbalanced(m, n) == (m - n >= 2 /\ m >= 3 * n) \/ (n - m >= 2 /\ n >= 3 * m)

-----------------------------------------------------------------------------------
(* The comparison *)

\* The improvement times the number of pairs of runs.
Gain(b, c, claim) ==
    LET difference == Total(c.runs) * Len(b.runs) - Total(b.runs) * Len(c.runs)
    IN IF claim.higher THEN difference ELSE -difference

Pairs(b, c) == Len(b.runs) * Len(c.runs)

\* _metric_summary_comparison raises: the improvement is not finite.
GainOverflows(b, c, claim) ==
    Gain(b, c, claim) \notin -(Largest * Pairs(b, c))..(Largest * Pairs(b, c))

ClaimFinding(b, c, claim) ==
    IF Gain(b, c, claim) >= claim.threshold * Pairs(b, c)
    THEN Found("RESULT.CLAIM_SUPPORTED", "both", "NONE")
    ELSE Found("RESULT.CLAIM_NOT_SUPPORTED", "both", "INVALIDATES")

\* check_results, of results whose improvement is finite.
RunFindings(b, c, claim) ==
    LET issues == SeedIssues("baseline", b) \cup SeedIssues("candidate", c)
                  \cup If(Imbalanced(Len(b.runs), Len(c.runs)),
                          Found("SEED.IMBALANCE", "both", "NONE"))
    IN issues
       \cup {Found("RESULT.RECOMPUTED", "both", "NONE")}
       \cup If(Mismatches(b), Found("RESULT.SUMMARY_MISMATCH", "baseline", "INVALIDATES"))
       \cup If(Mismatches(c), Found("RESULT.SUMMARY_MISMATCH", "candidate", "INVALIDATES"))
       \cup If(issues = {}, Found("SEED.EVIDENCE_VERIFIED", "both", "NONE"))
       \cup {ClaimFinding(b, c, claim)}

\* One represented value, read as the mean of its samples.
Aggregate(value) == [runs |-> <<[value |-> value, seed |-> None]>>, claimed |-> {}]

\* check_reported_aggregates, of values whose improvement is finite.
AggregateFindings(b, c, claim) ==
    {Found("RESULT.AGGREGATE_VERIFIED", "both", "NONE"),
     ClaimFinding(Aggregate(b), Aggregate(c), claim)}
====
