\* Every artifact of up to three lines under every small budget, with a failing read.
SPECIFICATION FairScanSpec
CONSTANTS
    f1 = f1  f2 = f2  d1 = d1  d2 = d2
    Snapshots <- AllSnapshots
    LimitChoices <- AllLimits
    Scanners = {"jsonl", "delimited", "table", "integrity"}
    Cardinal = 1
    Inodes <- OneFile
    Dirs <- OneDir
    Written = {}
    ChunkLines = 2
    MaxChanges = 0
    MaxReadErrors = 1
INVARIANT UndisturbedOutcome
