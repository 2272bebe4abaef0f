\* Jobs of up to two inputs, every configuration that starts a dispatcher.
SPECIFICATION FairSpec
CONSTANTS
    Names <- MCNames
    URLs <- MCURLs
    OnS3 <- MCS3
    Lengths = {999999, 1000000, 2146000000}
    MaxInputs = 2
    Files <- MCFiles
    Numbers <- MCNumbers
INVARIANTS TypeOK InputsIntact RoomForInputs ExitsExplained
PROPERTIES JobGetsWorker
CHECK_DEADLOCK FALSE
