\* Reads, verifications and SQL statements fail, files are replaced, budgets are
\* met exactly and the spill may fill up.
SPECIFICATION FairAuditSpec
CONSTANTS
    r1 = r1  r2 = r2
    Digests <- Records
    FileChoices <- SomeFiles
    LimitChoices <- SomeLimits
    Tampered <- Replacements
    BatchRecords = 2
    Capacity = 5
    MaxFaults = 2
INVARIANTS FindingsSound UndisturbedDecides SpillHoldsPrefix
PROPERTIES ImplementsFacts SpillRemoved
CHECK_DEADLOCK FALSE
