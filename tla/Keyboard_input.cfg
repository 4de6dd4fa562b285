SPECIFICATION FairSpec
CONSTANTS
    KEYBOARD_BUFFER_SIZE = 3
    SHELL_BUFFER_SIZE = 2
    Pressable = {"j", "BACKSPACE", "CTRL", "RCTRL"}
    WireLimit = 2
INVARIANTS
    TypeOK
    ModifiersFollowKeys
PROPERTIES
    ImplementsQueue
    CharactersAreRead
