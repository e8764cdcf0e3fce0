SPECIFICATION FairSpec
CONSTANTS
    Threads = {t1, t2, t3}
    Queues = {q1, q2, q3}
    Capacity = 3
    Unset = Unset
INVARIANT FifoUnlessRace
PROPERTY EveryQueueAdded
CHECK_DEADLOCK FALSE
