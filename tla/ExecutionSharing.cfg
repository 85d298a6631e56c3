\* Two executions in one scratch root, with failures, changes, kills and a replaced tree.
SPECIFICATION FairSpec
CONSTANTS
    e1 = e1  e2 = e2
    results = results  config = config  train = train  huge = huge
    Executions = {e1, e2}
    PlanChoices <- SharedPlans
    Artifacts = {results, config, train, huge}
    Size <- SmallSizes
    Streamable = {train, huge}
    LimitChoices <- OneLimit
    MaxFaults = 1
    MaxChanges = 1
    MaxSwaps = 1
    MaxCrashes = 1
INVARIANTS ResultFromOwnTree OutcomesAreEarned BlockedOnlyForCause
PROPERTIES RemovesOnlyOwnTree ImplementsWorkspace Settles
CHECK_DEADLOCK FALSE
