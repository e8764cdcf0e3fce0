SPECIFICATION Spec
CONSTANTS
    Queues = {q1, q2}
    Times = {1, 2}
    NULL = NULL
    Wild = Wild
    Fresh = {NULL}
    FreshTimes = {0, 2}
    Room = 2
    MaxEvents = 1
    Stop = Stop
INVARIANTS AssertionHolds
