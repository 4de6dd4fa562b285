SPECIFICATION TerminalSpec
CONSTANTS
    VGA_WIDTH = 2
    VGA_HEIGHT = 2
    SCROLLBACK_LINES = 5
    TAB_STOP = 1
    Printable = {"x"}
    Space = " "
    Overshoot = 1
CHECK_DEADLOCK FALSE
INVARIANT RowInStream
