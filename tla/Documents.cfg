\* The review of a TA's documents by several officers, and the life of the files.
SPECIFICATION DocsFairSpec
CONSTANTS
    c1 = c1  c2 = c2
    None = None
    Kinds <- Owed
    Form = "form"
    Ids = {1, 2, 3}
    Calls = {c1, c2}
    Quota = 2
    MaxFaults = 2
    Starts <- Beginnings
    Workloads <- Both
INVARIANTS
    DocsTypeOK
    VerdictsTold
    QuotaHeld
    FilesKept
    OneCurrent
PROPERTIES
    CompletedSetApproved
    ErasureFinishes
CHECK_DEADLOCK FALSE
