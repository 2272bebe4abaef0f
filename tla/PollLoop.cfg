\* Up to four iterations that fail, and a Stop at any moment or never.
SPECIFICATION FairSpec
CONSTANTS
    MaxErrors = 4
INVARIANTS TypeOK QuietAfterStop ErrorsDelivered
PROPERTIES StopHalts KeepsPolling
