SPECIFICATION Spec
CONSTANTS
    RBNodes = 11
    SplayNodes = 8
    HeapNodes = 10
INVARIANTS SearchTree RootIsNear WalksInOrder HeapSound
