\* Small checkouts with two studies, an edit, an exception and every kind of reply.
SPECIFICATION Spec
CONSTANTS
    readme = readme  app = app  config1 = config1  data = data
    manifest1 = manifest1  manifest2 = manifest2  invented = invented
    PathOrder <- Sorted
    PlanOrder <- Declared
    Manifests <- Studies
    Documents = {readme}
    Code = {app}
    Sprawling = {app}
    Trees <- SmallTrees
    ChangeChoices <- Changes
    ConfigChoices <- SmallConfigs
    ClaimChoices <- SmallClaims
    MaxEdits = 1
    MaxFaults = 1
    MaxChars = 3
INVARIANTS FilesWithinLimit PlannedIsAudited PriorityIsServed CompleteIsWhole CallsHonoured
CHECK_DEADLOCK FALSE
