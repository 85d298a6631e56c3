\* A bound of two bytes, both reading loops, and two changes at any moment.
SPECIFICATION MCSpec
CONSTANTS
    f1 = f1  f2 = f2  d1 = d1  d2 = d2
    Contents <- AroundTheBound
    MaxBytes = 2
    Readers = {"capture", "inspect"}
    Inodes <- TwoFiles
    Dirs <- TwoDirs
    BlockBytes = 1
    MaxChanges = 2
    MaxReadErrors = 1
INVARIANTS UndisturbedOutcome
PROPERTY ImplementsLook
