\* The same checkouts, all of them undisturbed.
SPECIFICATION Spec
CONSTANTS
    readme = readme  app = app  config1 = config1  data = data
    manifest1 = manifest1  manifest2 = manifest2  invented = invented
    PathOrder <- Sorted
    PlanOrder <- Declared
    Manifests <- Studies
    Documents = {readme}
    Code = {app}
    Sprawling = {app}
    Trees <- SmallTrees
    ChangeChoices <- Changes
    ConfigChoices <- SmallConfigs
    ClaimChoices <- SmallClaims
    MaxEdits = 0
    MaxFaults = 0
    MaxChars = 3
INVARIANTS UnrelatedStudiesReserveNothing
CHECK_DEADLOCK FALSE
