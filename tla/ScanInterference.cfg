\* A two-line artifact while other processes relink and rewrite the files.
SPECIFICATION FairScanSpec
CONSTANTS
    f1 = f1  f2 = f2  d1 = d1  d2 = d2
    Snapshots <- TwoLines
    LimitChoices <- OneSnugLimit
    Scanners = {"jsonl", "delimited"}
    Cardinal = 1
    Inodes <- TwoFiles
    Dirs <- TwoDirs
    Written <- Rewrites
    ChunkLines = 2
    MaxChanges = 2
    MaxReadErrors = 0
INVARIANTS EvidenceFromOneSnapshot ReportsOnStableFile
PROPERTIES ImplementsSnapshot Terminates

