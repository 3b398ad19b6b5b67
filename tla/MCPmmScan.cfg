SPECIFICATION Spec
CONSTANTS
    NPages = 9
    Reserved = {0, 3}
INVARIANTS
    LoopIsNextFit
