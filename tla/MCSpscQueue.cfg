CONSTANTS
    Capacity = 3
    MaxPush  = 5
    Values   = {v1, v2}
    Unset    = Unset
SPECIFICATION Spec
INVARIANTS RaceFree AnswersHold PeekAgrees NoSpuriousFailure
PROPERTIES ImplementsFifo
