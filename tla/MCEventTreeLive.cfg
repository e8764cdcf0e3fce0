SPECIFICATION FairSpec
CONSTANTS
    Queues = {q1, q2}
    Times = {1, 2}
    NULL = NULL
    Wild = Wild
    Fresh = {NULL, Wild}
    FreshTimes = {0, 3}
    Room = 2
    MaxEvents = 1
    Stop = Stop
INVARIANTS SoundUnlessTainted
PROPERTIES EveryQueueDrained CrashNeedsGarbage
CHECK_DEADLOCK FALSE
