\* Two analyses of one claim in each of some two thousand repositories.
SPECIFICATION Spec
CONSTANTS
    Repositories <- AllRepositories
    Rewritten <- AnyRewritten
    MaxAnalyses = 2
    Largest = 9
INVARIANTS
    ApprovalIsFinal
    ReadyIsEarned
    ProposalsOnlyAsk
    ResultIsExplained
    BenchmarkSupportIsEarned
    AnswersAdvance
CHECK_DEADLOCK FALSE
