\* Two workers with any arguments; a worker ends.
SPECIFICATION Spec
CONSTANT Jobs = {w1, w2}
SYMMETRY Symmetry
INVARIANTS TypeOK VerdictTrue OneStatus
CHECK_DEADLOCK FALSE
