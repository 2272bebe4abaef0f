\* One dispatcher and no adverse event, against the README.
SPECIFICATION Spec
CONSTANTS
    Dispatchers = {d1}
    Jobs = {j1, j2, j3}
    NoJob = NoJob
    Bodies = {"wellFormed"}
    TaskLimit = 1
    PageSize = 1
    MaxPending = 2
    MaxFaults = 0
INVARIANTS TaskLimitHolds
