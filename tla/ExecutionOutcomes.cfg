\* Every pair of defects and every limit around the sizes, undisturbed.
SPECIFICATION Spec
CONSTANTS
    e1 = e1  e2 = e2
    results = results  config = config  train = train  huge = huge
    Executions = {e1}
    PlanChoices <- AllPlans
    Artifacts = {results, config, train, huge}
    Size <- SmallSizes
    Streamable = {train, huge}
    LimitChoices <- AllLimits
    MaxFaults = 0
    MaxChanges = 0
    MaxSwaps = 0
    MaxCrashes = 0
INVARIANT UndisturbedOutcome
CHECK_DEADLOCK FALSE
