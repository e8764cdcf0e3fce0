SPECIFICATION Spec
CONSTANTS
    r1 = r1  r2 = r2  r3 = r3  r4 = r4
    Nodes = {n1, n2, n3, n4}
    NULL = NULL
    Reminders <- MCReminders
    TimeOf <- MCTimeOf
    CallbackOf <- MCCallbackOf
    MaxCallback = 2
    Times <- MCTimes
    MaxRetimes = 1
SYMMETRY NodeSymmetry
INVARIANTS NothingDangles OrderUnlessRetimed Balanced
PROPERTIES ImplementsSet LeaksOnlyThere
