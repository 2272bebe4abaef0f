\* Two dispatchers, two adverse events and one id more than they can register.
\* A discovery ends: the dispatchers that found their service take no step here.
SPECIFICATION FairSpec
CONSTANTS
    Dispatchers = {d1, d2}
    Services = {s1, s2, s3, s4, s5}
    NoService = NoService
    MaxFaults = 2
INVARIANTS TypeOK PollsListed DuplicatesBounded
PROPERTIES AllPoll
CHECK_DEADLOCK FALSE
