SPECIFICATION AtaSpec
CONSTANTS
    Lbas = {1, 7}
    LbaRegs = 2
    RADIX = 2
    Words = 2
    Texts = {v}
    Garbage = noise
    TIMEOUT = 2
CHECK_DEADLOCK FALSE
PROPERTY
    WriteStored
