\* An artifact one line longer than the integrity budget.
SPECIFICATION FairScanSpec
CONSTANTS
    f1 = f1  f2 = f2  d1 = d1  d2 = d2
    Snapshots <- AllSnapshots
    LimitChoices <- OneSnugLimit
    Scanners = {"jsonl", "delimited", "table", "integrity"}
    Cardinal = 1
    Inodes <- OneFile
    Dirs <- OneDir
    Written = {}
    ChunkLines = 2
    MaxChanges = 0
    MaxReadErrors = 0
INVARIANT ReportWithinIntegrityBudget
