\* Two dispatchers, more usable jobs than the capacity of three, two adverse events.
SPECIFICATION Spec
CONSTANTS
    Dispatchers = {d1, d2}
    Jobs = {j1, j2, j3, j4}
    NoJob = NoJob
    Bodies = {"wellFormed", "notJson"}
    TaskLimit = 1
    PageSize = 1
    MaxPending = 1
    MaxFaults = 2
SYMMETRY Symmetry
INVARIANTS TypeOK ClaimsSound FaultBound TaskBound Reservations
PROPERTIES LaunchOnce ImplementsLifecycle
