\* A violation: a document is approved again after its file is gone.
SPECIFICATION DocsSpec
CONSTANTS
    c1 = c1  c2 = c2
    None = None
    Kinds <- Owed
    Form = "form"
    Ids = {1, 2, 3}
    Calls = {c1}
    Quota = 2
    MaxFaults = 2
    Starts <- Beginnings
    Workloads <- Again
PROPERTIES
    NoneApprovedPurged
CHECK_DEADLOCK FALSE
