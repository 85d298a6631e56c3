\* One run of the workflow, with pushes, failing steps and lost runners.
CONSTANTS
    Runs = {r1}
    Commits <- TwoCommits
    TruthChoices <- EveryTruth
    TextChoices <- EveryText
    Origins <- AnyOrigin
    MaxFaults = 2
    MaxLosses = 1
SPECIFICATION FairSpec
CHECK_DEADLOCK FALSE
INVARIANTS
    VerdictOfItsCommit
    SuccessShowsItsAudit
    FailureLeavesACheck
    JobReflectsIntegration
    ReviewArrives
PROPERTIES
    Settles
