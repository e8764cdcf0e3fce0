SPECIFICATION Spec
CONSTANTS
    Events = {tick, close, stop}
    Stops = {stop}
    Closes = {close}
    Handles = {h1, h2, h3, h4, h5}
    Wrap = 3
    NULL = NULL
SYMMETRY HandleSymmetry
INVARIANTS CorruptNeedsCause CountIsReferences LeaksNeedCause
CHECK_DEADLOCK FALSE
