SPECIFICATION Spec
CONSTANTS
    Queues = {q1, q2, q3}
    Times = {1, 2, 3}
    NULL = NULL
    Wild = Wild
    Fresh = {NULL}
    FreshTimes = {2}
    Room = 2
    MaxEvents = 1
    Stop = Stop
SYMMETRY Symmetry
INVARIANTS NoQueueLost HeadsPresent
PROPERTIES ImplementsMerge DeliversOldest StopMeansDone
