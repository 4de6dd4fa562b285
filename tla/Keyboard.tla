------------------------------ MODULE Keyboard ------------------------------
(***************************************************************************)
(* The keyboard driver (drivers/keyboard.c) and its reader, the input loop *)
(* of the shell (shell/shell.c).  IRQ 1 runs the whole handler between any *)
(* two accesses of the shell to the ring buffer.                           *)
(*                                                                         *)
(* A character is <<key, variant>>: what the key gives in                  *)
(* scancode_to_ascii ("base"), in scancode_to_ascii_shift ("shift"), or as *)
(* a control code ("ctrl").                                                *)
(***************************************************************************)
EXTENDS Naturals, Sequences

CONSTANTS
    KEYBOARD_BUFFER_SIZE,
    SHELL_BUFFER_SIZE,
    Pressable,             \* the keys used
    WireLimit              \* scancodes the controller holds back

\* "a" stands for the letters, "j" for the one whose control code is that of
\* Enter, "1" for the keys with a shifted symbol, "F1" for the unmapped ones.
Letters == {"a", "j"}
Same == {"ENTER", "BACKSPACE", "TAB"}    \* equal in both tables
Unmapped == {"F1"}
Modifiers == {"LSHIFT", "RSHIFT", "CTRL", "ALT"}
Extended == {"PAGEUP", "RCTRL"}          \* sent with the prefix 0xE0
Keys ==
    UNION {Letters, Same, Unmapped, Modifiers, Extended, {"1", "CAPS"}}

ASSUME KeyboardAssumption ==
    /\ KEYBOARD_BUFFER_SIZE \in Nat \ {0}
    /\ SHELL_BUFFER_SIZE \in Nat \ {0}
    /\ Pressable \subseteq Keys
    /\ WireLimit \in Nat

Chars == (Letters \union Same \union {"1"}) \X {"base", "shift", "ctrl"}
NUL == <<"NUL", "base">>

VARIABLES
    keyboard_buffer,
    buffer_read_pos,
    buffer_write_pos,
    shift_pressed,
    ctrl_pressed,
    alt_pressed,
    caps_lock,
    extended_scancode,
    held,               \* keys that are physically down
    wire,               \* scancodes not yet read from port 0x60
    pc,                 \* where the shell's input loop is
    loaded,             \* "c" of keyboard_buffer_pop, NUL outside it
    c,                  \* "c" of shell_process_input
    command_pos         \* characters in command_buffer

ring == <<keyboard_buffer, buffer_read_pos, buffer_write_pos>>
flags == <<shift_pressed, ctrl_pressed, alt_pressed, caps_lock, extended_scancode>>
shell == <<pc, loaded, c, command_pos>>
vars == <<ring, flags, shell, held, wire>>

Slots == 0..(KEYBOARD_BUFFER_SIZE - 1)

\* keyboard_init and shell_init.
Init ==
    /\ keyboard_buffer = [s \in Slots |-> NUL]
    /\ buffer_read_pos = 0
    /\ buffer_write_pos = 0
    /\ shift_pressed = FALSE /\ ctrl_pressed = FALSE /\ alt_pressed = FALSE
    /\ caps_lock = FALSE /\ extended_scancode = FALSE
    /\ held = {}
    /\ wire = <<>>
    /\ pc = "check" /\ loaded = NUL /\ c = NUL /\ command_pos = 0

-----------------------------------------------------------------------------
(***************************************************************************)
(* The keyboard: a press or a release is one scancode, after a prefix for  *)
(* the extended keys.  "up" is bit 7.                                      *)
(***************************************************************************)
Code(key, up) == [key |-> key, up |-> up]
Prefix == Code("E0", TRUE)

Send(key, up) ==
    LET codes == IF key \in Extended THEN <<Prefix, Code(key, up)>> ELSE <<Code(key, up)>>
    IN /\ Len(wire) + Len(codes) <= WireLimit
       /\ wire' = wire \o codes

Press(key) ==
    /\ Send(key, FALSE)
    /\ held' = held \union {key}
    /\ UNCHANGED <<ring, flags, shell>>

Release(key) ==
    /\ key \in held
    /\ Send(key, TRUE)
    /\ held' = held \ {key}
    /\ UNCHANGED <<ring, flags, shell>>

-----------------------------------------------------------------------------
(***************************************************************************)
(* keyboard_handler.                                                       *)
(***************************************************************************)
\* MUTANT: the full test is missing.
PushOverFull(ch) ==
    /\ keyboard_buffer' = [keyboard_buffer EXCEPT ![buffer_write_pos] = ch]
    /\ buffer_write_pos' = (buffer_write_pos + 1) % KEYBOARD_BUFFER_SIZE
    /\ UNCHANGED buffer_read_pos

keyboard_buffer_push(ch) ==
    LET next == (buffer_write_pos + 1) % KEYBOARD_BUFFER_SIZE
    IN IF next = buffer_read_pos
       THEN UNCHANGED ring
       ELSE /\ keyboard_buffer' = [keyboard_buffer EXCEPT ![buffer_write_pos] = ch]
            /\ buffer_write_pos' = next
            /\ UNCHANGED buffer_read_pos

\* The character of a pressed key under the modifiers.
Translate(key) ==
    LET shifted == IF key \in Letters THEN shift_pressed # caps_lock ELSE shift_pressed
    IN IF ctrl_pressed /\ key \in Letters
       THEN IF key = "j" THEN <<"ENTER", "base">> ELSE <<key, "ctrl">>
       ELSE <<key, IF shifted /\ key \notin Same THEN "shift" ELSE "base">>

\* MUTANT: a release returns before the flag is cleared.
ExtendedCodeKeepsFlag(code) ==
    /\ extended_scancode' = code.up
    /\ UNCHANGED <<ring, shift_pressed, ctrl_pressed, alt_pressed, caps_lock>>

\* A scancode after the prefix: Page Up scrolls the terminal, nothing else acts.
ExtendedCode(code) ==
    /\ extended_scancode' = FALSE
    /\ UNCHANGED <<ring, shift_pressed, ctrl_pressed, alt_pressed, caps_lock>>

ReleaseCode(code) ==
    /\ shift_pressed' = (shift_pressed /\ code.key \notin {"LSHIFT", "RSHIFT"})
    /\ ctrl_pressed' = (ctrl_pressed /\ code.key # "CTRL")
    /\ alt_pressed' = (alt_pressed /\ code.key # "ALT")
    /\ UNCHANGED <<ring, caps_lock, extended_scancode>>

PressCode(code) ==
    /\ shift_pressed' = (shift_pressed \/ code.key \in {"LSHIFT", "RSHIFT"})
    /\ ctrl_pressed' = (ctrl_pressed \/ code.key = "CTRL")
    /\ alt_pressed' = (alt_pressed \/ code.key = "ALT")
    /\ caps_lock' = (caps_lock # (code.key = "CAPS"))
    /\ IF code.key \in Modifiers \union Unmapped \union {"CAPS"}
       THEN UNCHANGED ring
       ELSE keyboard_buffer_push(Translate(code.key))
    /\ UNCHANGED extended_scancode

\* An interrupt ends the hlt of shell_run.
Resume == pc' = IF pc = "hlt" THEN "check" ELSE pc

keyboard_handler ==
    /\ wire # <<>>
    /\ wire' = Tail(wire)
    /\ LET code == Head(wire)
       IN \/ /\ code = Prefix
             /\ extended_scancode' = TRUE
             /\ UNCHANGED <<ring, shift_pressed, ctrl_pressed, alt_pressed, caps_lock>>
          \/ code # Prefix /\ extended_scancode /\ ExtendedCode(code)
          \/ code # Prefix /\ ~extended_scancode /\ code.up /\ ReleaseCode(code)
          \/ code # Prefix /\ ~extended_scancode /\ ~code.up /\ PressCode(code)
    /\ Resume
    /\ UNCHANGED <<loaded, c, command_pos, held>>

\* The timer interrupt ends the hlt as well.
Tick ==
    /\ pc = "hlt"
    /\ Resume
    /\ UNCHANGED <<ring, flags, loaded, c, command_pos, held, wire>>

-----------------------------------------------------------------------------
(***************************************************************************)
(* shell_run: shell_process_input, then hlt.                               *)
(***************************************************************************)
\* MUTANT: the positions are compared by order.
HasDataOrdered == buffer_read_pos < buffer_write_pos

keyboard_has_data == buffer_read_pos # buffer_write_pos

Check ==
    /\ pc = "check"
    /\ pc' = IF keyboard_has_data THEN "load" ELSE "hlt"
    /\ UNCHANGED <<ring, flags, loaded, c, command_pos, held, wire>>

\* keyboard_buffer_pop tests for emptiness again: only the shell takes
\* characters out, so the test does not fail after Check.
PopLoad ==
    /\ pc = "load"
    /\ buffer_read_pos # buffer_write_pos
    /\ loaded' = keyboard_buffer[buffer_read_pos]
    /\ pc' = "advance"
    /\ UNCHANGED <<ring, flags, c, command_pos, held, wire>>

PopAdvance ==
    /\ pc = "advance"
    /\ buffer_read_pos' = (buffer_read_pos + 1) % KEYBOARD_BUFFER_SIZE
    /\ c' = loaded
    /\ loaded' = NUL
    /\ pc' = "process"
    /\ UNCHANGED <<keyboard_buffer, buffer_write_pos, flags, command_pos, held, wire>>

\* MUTANT: no room is kept for the terminator.
ProcessNoRoom ==
    /\ pc = "process"
    /\ \/ c[1] = "ENTER" /\ command_pos' = 0
       \/ c[1] = "BACKSPACE" /\ command_pos' = IF command_pos > 0 THEN command_pos - 1 ELSE 0
       \/ c[1] = "TAB" /\ UNCHANGED command_pos
       \/ /\ c[1] \notin Same
          /\ command_pos' = IF command_pos < SHELL_BUFFER_SIZE THEN command_pos + 1 ELSE command_pos
    /\ pc' = "hlt"
    /\ UNCHANGED <<ring, flags, loaded, c, held, wire>>

\* The switch of shell_process_input; Enter executes the command.
Process ==
    /\ pc = "process"
    /\ \/ c[1] = "ENTER" /\ command_pos' = 0
       \/ c[1] = "BACKSPACE" /\ command_pos' = IF command_pos > 0 THEN command_pos - 1 ELSE 0
       \/ c[1] = "TAB" /\ UNCHANGED command_pos
       \/ /\ c[1] \notin Same
          /\ command_pos' = IF command_pos < SHELL_BUFFER_SIZE - 1 THEN command_pos + 1 ELSE command_pos
    /\ pc' = "hlt"
    /\ UNCHANGED <<ring, flags, loaded, c, held, wire>>

ShellStep == Check \/ PopLoad \/ PopAdvance \/ Process

Next ==
    \/ \E key \in Pressable : Press(key) \/ Release(key)
    \/ keyboard_handler
    \/ Tick
    \/ ShellStep

Spec == Init /\ [][Next]_vars

\* The CPU runs the shell and the PIT ticks.
FairSpec == Spec /\ WF_vars(ShellStep) /\ WF_vars(Tick)

-----------------------------------------------------------------------------
\* Every position indexes its array, the terminator Enter and Tab store at
\* command_pos included.
TypeOK ==
    /\ keyboard_buffer \in [Slots -> Chars \union {NUL}]
    /\ buffer_read_pos \in Slots
    /\ buffer_write_pos \in Slots
    /\ <<shift_pressed, ctrl_pressed, alt_pressed, caps_lock, extended_scancode>>
          \in BOOLEAN \X BOOLEAN \X BOOLEAN \X BOOLEAN \X BOOLEAN
    /\ held \subseteq Keys
    /\ Len(wire) <= WireLimit
    /\ pc \in {"check", "load", "advance", "process", "hlt"}
    /\ loaded \in Chars \union {NUL}
    /\ c \in Chars \union {NUL}
    /\ command_pos \in 0..(SHELL_BUFFER_SIZE - 1)

\* No modifier sticks: once every scancode was handled, Ctrl and Alt are set
\* exactly while their key is down, whatever extended keys come in between.
\* Shift is set only while one of its keys is down; the two share the flag, so
\* releasing one clears it.
ModifiersFollowKeys ==
    wire = <<>> =>
        /\ ctrl_pressed <=> "CTRL" \in held
        /\ alt_pressed <=> "ALT" \in held
        /\ shift_pressed => held \intersect {"LSHIFT", "RSHIFT"} # {}
        /\ ~extended_scancode

\* The contents of the ring from the reader to the writer.
Pending ==
    LET n == (buffer_write_pos + KEYBOARD_BUFFER_SIZE - buffer_read_pos) % KEYBOARD_BUFFER_SIZE
    IN [k \in 1..n |-> keyboard_buffer[(buffer_read_pos + k - 1) % KEYBOARD_BUFFER_SIZE]]

\* The ring buffer is a queue of one character less than its size: an
\* interrupt inside keyboard_buffer_pop loses, repeats and reorders nothing.
Queue == INSTANCE BoundedQueue
             WITH Values <- Chars, Capacity <- KEYBOARD_BUFFER_SIZE - 1, None <- NUL,
                  q <- Pending, last <- c

ImplementsQueue == Queue!Spec

\* A buffered character is read, although the shell may fall asleep in hlt
\* right after the interrupt that brought it.
CharactersAreRead == (buffer_read_pos # buffer_write_pos) ~> (pc = "process")

=============================================================================
