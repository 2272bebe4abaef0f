\* Three outputs with two names between them; an ingest returns.  Only the order
\* of the two clocks matters: the timer of three minutes is at 1, the end of the
\* polls, of five minutes, is at 2.
SPECIFICATION FairSpec
CONSTANTS
    N = 3
    Paths = {p, q}
    TimeoutMinutes = 1
    PollMinutes = 2
    MaxMinutes = 2
INVARIANTS TypeOK NoErrorMeansStored IdsAreStored LateOnlyAfterTimeout
PROPERTIES ImplementsGather AlwaysReturns
CHECK_DEADLOCK FALSE
