\* One dispatcher, two jobs and their workers, one adverse event.
SPECIFICATION FairSystemSpec
CONSTANTS
    Dispatchers = {d1}
    Jobs = {j1, j2}
    NoJob = NoJob
    Bodies = {"wellFormed", "empty", "notJson", "unpaired"}
    TaskLimit = 1
    PageSize = 1
    MaxPending = 1
    MaxFaults = 1
INVARIANTS ReportsConsistent
PROPERTIES ImplementsDispatcher JobReported
