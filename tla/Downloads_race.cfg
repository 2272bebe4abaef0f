\* The comment on CheckAndOpen, against the code.
SPECIFICATION Spec
CONSTANTS
    N = 2
    Names = {a, b}
    Numbers <- MCNumbers
PROPERTIES OpensNewFiles
CHECK_DEADLOCK FALSE
