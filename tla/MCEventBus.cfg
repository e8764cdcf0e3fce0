SPECIFICATION Spec
CONSTANTS
    d1 = d1
    d2 = d2
    e1 = e1
    NULL = NULL
    Wild = Wild
    Stop = Stop
    Queues = {d1, d2, e1}
    PipeOf <- ThreeQueues
    FreshSaved = {NULL, Wild}
    FreshStop = {TRUE, FALSE}
    FreshClocks = {TRUE, FALSE}
    IdleModes = {"kIdleWait"}
    Room = 1
    PendingRoom = 1
    MaxEvents <- DataOnly
    MaxClears = 1
SYMMETRY Symmetry
INVARIANTS ExactlyOnce CorruptNeedsCause
PROPERTIES DataYields
CHECK_DEADLOCK FALSE
