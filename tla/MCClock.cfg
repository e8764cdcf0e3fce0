SPECIFICATION Spec
CONSTANTS
    MaxTime = 3
    Reminders = {r1, r2}
INVARIANTS RefusedNeedsCause ShowsWhatItTook
PROPERTY BackOnlyForCause
