\* Three inputs, two names, some files already there; a fetch returns.
SPECIFICATION FairSpec
CONSTANTS
    N = 3
    Names = {a, b}
    Numbers <- MCNumbers
INVARIANTS TypeOK InputsWhole GivenFilesKept ErrorsAttributed
PROPERTIES ImplementsGather AllEnd
CHECK_DEADLOCK FALSE
