\* What the README says of PzAddr and PzAddrEnVar.
SPECIFICATION Spec
CONSTANTS
    Names <- MCNames
    URLs <- MCURLs
    OnS3 <- MCS3
    Lengths = {1000000}
    MaxInputs = 1
    Files <- MCFiles
    Numbers <- MCNumbers
INVARIANTS EitherAddress
CHECK_DEADLOCK FALSE
