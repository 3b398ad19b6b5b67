SPECIFICATION TtySpec
CONSTANTS
    VD_ROWS = 3
    Columns = 2
    Chars = {"a"}
    Digits = {0, 2}
    INT_MAX = 7
    TtyModes = {"noscroll"}
INVARIANTS
    VideoShowsTty
    EscapesStartClean

    
