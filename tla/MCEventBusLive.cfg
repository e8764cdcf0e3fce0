SPECIFICATION FairSpec
CONSTANTS
    d1 = d1
    d2 = d2
    e1 = e1
    NULL = NULL
    Wild = Wild
    Stop = Stop
    Queues = {d1, e1}
    PipeOf <- TwoQueues
    FreshSaved = {NULL}
    FreshStop = {FALSE}
    FreshClocks = {TRUE}
    IdleModes = {"kIdleWait", "kIdleSpin"}
    Room = 1
    PendingRoom = 1
    MaxEvents <- TwoAndOne
    MaxClears = 0
PROPERTIES EveryQueueServed
