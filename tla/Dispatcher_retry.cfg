\* The message of the memory limit, against the code.
SPECIFICATION FairSpec
CONSTANTS
    Dispatchers = {d1}
    Jobs = {j1, j2}
    NoJob = NoJob
    Bodies = {"wellFormed"}
    TaskLimit = 1
    PageSize = 1
    MaxPending = 1
    MaxFaults = 1
PROPERTIES MemoryLimitRetried
