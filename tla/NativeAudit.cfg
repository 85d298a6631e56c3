\* In memory and streamed; every way to be found wanting, alone and together, and
\* artifacts that are replaced while the audit reads.
SPECIFICATION Spec
CONSTANTS
    r1 = r1  r2 = r2  r3 = r3
    Digests <- Records
    FileChoices <- AllFiles
    WorldChoices <- AllWorlds
    Replacements <- SomeReplacements
    ClaimChoices <- SomeClaims
    Largest = 5
    MaxEdits = 1
INVARIANTS SupportedIsEarned WithholdingNeverHelps StreamedAgrees ReportFollowsVerdict
CHECK_DEADLOCK FALSE
