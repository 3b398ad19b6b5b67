SPECIFICATION Spec
CONSTANTS
    Ttys = {"t0", "t1"}
    FirstTty = "t0"
    Readers = {"t0"}
    Codes = {"a", "enter", "backspace", "shift", "shift_rel", "ctrl", "ctrl_rel", "c", "t0", "t1"}
    Room <- MCRoom
    Modes = {"raw", "noblock"}
    KB_L1_SIZE = 2
    KB_L2_SIZE = 2
    Bytes = {0}
    Lens = {1, 3}
    MAX_ACCESS = 2
    Interrupts = FALSE
INVARIANTS
    KeysInOrder
    VdevBytesOnce
PROPERTIES
    LineReturns
    VdevServed
    MissedOnlyBeforeAwait
