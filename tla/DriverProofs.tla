---------------------------- MODULE DriverProofs ----------------------------
(***************************************************************************)
(* Proofs about the console: Keyboard for every buffer size, key set and   *)
(* controller depth; Terminal for any screen, any longer scrollback        *)
(* buffer, any tab stop and any characters.                                *)
(***************************************************************************)
EXTENDS Keyboard, Terminal, TLAPS

-----------------------------------------------------------------------------
(***************************************************************************)
(* The keyboard: the ring buffer is a bounded queue, and no modifier key   *)
(* sticks.                                                                 *)
(***************************************************************************)
Size == KEYBOARD_BUFFER_SIZE

\* The remainder below twice the divisor, the only case the ring needs.
LEMMA SmallMod ==
    ASSUME NEW N \in Nat \ {0}, NEW a \in 0..(2 * N - 1)
    PROVE  a % N = IF a < N THEN a ELSE a - N
<1>1. CASE a < N
  BY <1>1
<1>2. CASE a >= N
  BY <1>2
<1> QED BY <1>1, <1>2

-----------------------------------------------------------------------------
(***************************************************************************)
(* The scancodes on the wire.                                              *)
(***************************************************************************)
Codes == [key : Keys \union {"E0"}, up : BOOLEAN]

\* An extended key's code comes right after the prefix, and only such a code
\* does; extended_scancode stands for a prefix already handled.
WireOK ==
    /\ wire \in Seq(Codes)
    /\ extended_scancode \in BOOLEAN
    /\ \A k \in 1..Len(wire) : wire[k].key = "E0" => wire[k] = Prefix
    /\ wire # <<>> => (wire[1].key \in Extended <=> extended_scancode)
    /\ \A k \in 2..Len(wire) : wire[k].key \in Extended <=> wire[k - 1] = Prefix
    /\ wire = <<>> => ~extended_scancode
    /\ wire # <<>> => wire[Len(wire)] # Prefix

\* The last code of a key that is not yet handled tells whether it is down;
\* when there is none the flag does.
Follows(flag, key) ==
    \/ /\ \A k \in 1..Len(wire) : wire[k].key # key
       /\ flag <=> (key \in held)
    \/ \E k \in 1..Len(wire) :
          /\ wire[k].key = key
          /\ wire[k].up <=> (key \notin held)
          /\ \A m \in (k + 1)..Len(wire) : wire[m].key # key

ShiftKeys == {"LSHIFT", "RSHIFT"}

ShiftFollows ==
    \/ /\ \A k \in 1..Len(wire) : wire[k].key \notin ShiftKeys
       /\ shift_pressed => held \intersect ShiftKeys # {}
    \/ \E k \in 1..Len(wire) :
          /\ wire[k].key \in ShiftKeys
          /\ wire[k].up \/ wire[k].key \in held
          /\ \A m \in (k + 1)..Len(wire) : wire[m].key \notin ShiftKeys

FlagTypes ==
    /\ shift_pressed \in BOOLEAN
    /\ ctrl_pressed \in BOOLEAN
    /\ alt_pressed \in BOOLEAN
    /\ caps_lock \in BOOLEAN

ModInv ==
    /\ WireOK
    /\ FlagTypes
    /\ held \subseteq Keys
    /\ Follows(ctrl_pressed, "CTRL")
    /\ Follows(alt_pressed, "ALT")
    /\ ShiftFollows

\* What the handler takes off the wire.
LEMMA TailShape ==
    ASSUME WireOK, wire # <<>>, wire' = Tail(wire)
    PROVE  /\ wire[1] \in Codes
           /\ Head(wire) = wire[1]
           /\ wire' \in Seq(Codes)
           /\ Len(wire) \in Nat /\ Len(wire') = Len(wire) - 1 /\ Len(wire') \in Nat
           /\ \A k \in 1..Len(wire') : wire'[k] = wire[k + 1]
BY DEF WireOK

\* The flags after the handler, by the code it read.
LEMMA HandlerFlags ==
    ASSUME ModInv, keyboard_handler
    PROVE  /\ FlagTypes'
           /\ extended_scancode' <=> (wire[1] = Prefix)
           /\ extended_scancode' \in BOOLEAN
           /\ ctrl_pressed' <=> IF wire[1].key = "CTRL" THEN ~wire[1].up ELSE ctrl_pressed
           /\ alt_pressed' <=> IF wire[1].key = "ALT" THEN ~wire[1].up ELSE alt_pressed
           /\ shift_pressed' <=> IF wire[1].key \in ShiftKeys THEN ~wire[1].up
                                 ELSE shift_pressed
<1>1. /\ WireOK /\ FlagTypes /\ wire # <<>>
      /\ wire[1] \in Codes /\ Head(wire) = wire[1]
      /\ extended_scancode \in BOOLEAN
      /\ wire[1].key \in Extended <=> extended_scancode
  BY TailShape, Zenon DEF ModInv, keyboard_handler, WireOK
<1>2. /\ \A k \in Extended : k \notin {"CTRL", "ALT"} /\ k \notin ShiftKeys
      /\ Prefix.key = "E0" /\ "E0" \notin ShiftKeys
  BY DEF Extended, ShiftKeys, Prefix, Code
<1>3. CASE /\ wire[1] = Prefix
           /\ extended_scancode' = TRUE
           /\ UNCHANGED <<ring, shift_pressed, ctrl_pressed, alt_pressed, caps_lock>>
  BY <1>1, <1>2, <1>3 DEF FlagTypes
<1>4. CASE wire[1] # Prefix /\ extended_scancode /\ ExtendedCode(wire[1])
  BY <1>1, <1>2, <1>4, Zenon DEF FlagTypes, ExtendedCode
<1>5. CASE wire[1] # Prefix /\ ~extended_scancode /\ wire[1].up /\ ReleaseCode(wire[1])
  BY <1>1, <1>5, Zenon DEF FlagTypes, ReleaseCode, ShiftKeys, Codes
<1>6. CASE wire[1] # Prefix /\ ~extended_scancode /\ ~wire[1].up /\ PressCode(wire[1])
  <2>1. /\ shift_pressed' <=> (shift_pressed \/ wire[1].key \in ShiftKeys)
        /\ ctrl_pressed' <=> (ctrl_pressed \/ wire[1].key = "CTRL")
        /\ alt_pressed' <=> (alt_pressed \/ wire[1].key = "ALT")
        /\ extended_scancode' = extended_scancode
    BY <1>6, Zenon DEF PressCode, ShiftKeys
  <2>2. FlagTypes'
    BY <1>1, <1>6 DEF PressCode, FlagTypes
  <2> QED BY <1>1, <1>6, <2>1, <2>2
<1> QED BY <1>1, <1>3, <1>4, <1>5, <1>6, Zenon DEF keyboard_handler

THEOREM ModInvariance == Spec => []ModInv
<1>ModInit.
      Init => ModInv
  <2> SUFFICES ASSUME Init PROVE ModInv
    OBVIOUS
  <2>1. /\ wire = <<>> /\ held = {}
        /\ shift_pressed = FALSE /\ ctrl_pressed = FALSE /\ alt_pressed = FALSE
        /\ caps_lock = FALSE /\ extended_scancode = FALSE
    BY DEF Init
  <2>2. wire \in Seq(Codes) /\ Len(wire) = 0
    BY <2>1
  <2>3. 1..Len(wire) = {} /\ 2..Len(wire) = {}
    BY <2>2
  <2>4. WireOK
    BY <2>1, <2>2, <2>3, Zenon DEF WireOK
  <2>5. FlagTypes
    BY <2>1, Zenon DEF FlagTypes
  <2>6. Follows(ctrl_pressed, "CTRL") /\ Follows(alt_pressed, "ALT") /\ ShiftFollows
    <3>1. (ctrl_pressed <=> "CTRL" \in held) /\ (alt_pressed <=> "ALT" \in held)
      BY <2>1
    <3> QED BY <2>1, <2>3, <3>1 DEF Follows, ShiftFollows
  <2> QED BY <2>1, <2>4, <2>5, <2>6 DEF ModInv
\* What Send appends.
<1>SendShape.
      ASSUME WireOK, NEW key \in Keys, NEW up \in BOOLEAN, Send(key, up)
      PROVE  \/ /\ key \notin Extended
                /\ wire' = Append(wire, Code(key, up))
             \/ /\ key \in Extended
                /\ wire' = Append(Append(wire, Prefix), Code(key, up))
  <2> USE <1>SendShape
  <2>1. wire \in Seq(Codes) /\ Prefix \in Codes /\ Code(key, up) \in Codes
    BY DEF WireOK, Codes, Prefix, Code
  <2>2. CASE key \in Extended
    BY <2>1, <2>2 DEF Send
  <2>3. CASE key \notin Extended
    BY <2>1, <2>3 DEF Send
  <2> QED BY <2>2, <2>3
<1>SendWire.
      ASSUME WireOK, NEW key \in Keys, NEW up \in BOOLEAN, Send(key, up),
             UNCHANGED extended_scancode
      PROVE  WireOK'
  <2> USE <1>SendWire
  <2>1. wire \in Seq(Codes) /\ Prefix \in Codes /\ Code(key, up) \in Codes
    BY DEF WireOK, Codes, Prefix, Code
  <2>2. /\ Prefix.key = "E0" /\ Code(key, up).key = key /\ key # "E0"
        /\ "E0" \notin Extended /\ Code(key, up) # Prefix
    BY Zenon DEF Prefix, Code, Keys, Letters, Same, Unmapped, Modifiers, Extended
  <2>3. CASE key \notin Extended /\ wire' = Append(wire, Code(key, up))
    BY <2>1, <2>2, <2>3 DEF WireOK
  <2>4. CASE key \in Extended /\ wire' = Append(Append(wire, Prefix), Code(key, up))
    BY <2>1, <2>2, <2>4 DEF WireOK
  <2> QED BY <2>3, <2>4, <1>SendShape, Zenon
\* A press or a release leaves the last code of a key telling its state.
<1>SendFollows.
      ASSUME WireOK, NEW key \in Keys, NEW up \in BOOLEAN, Send(key, up),
             held' = IF up THEN held \ {key} ELSE held \union {key},
             NEW flag, NEW k0 \in Modifiers, Follows(flag, k0)
      PROVE  \/ /\ \A k \in 1..Len(wire') : wire'[k].key # k0
                /\ flag <=> (k0 \in held')
             \/ \E k \in 1..Len(wire') :
                   /\ wire'[k].key = k0
                   /\ wire'[k].up <=> (k0 \notin held')
                   /\ \A m \in (k + 1)..Len(wire') : wire'[m].key # k0
  <2>1. wire \in Seq(Codes) /\ Prefix \in Codes /\ Code(key, up) \in Codes
    BY <1>SendFollows DEF WireOK, Codes, Prefix, Code
  <2>2. /\ Prefix.key # k0 /\ Code(key, up).key = key /\ Code(key, up).up = up
        /\ k0 \notin Extended
    BY <1>SendFollows, Zenon DEF Prefix, Code, Modifiers, Extended
  <2>3. CASE key = k0
    <3>1. wire' = Append(wire, Code(key, up))
      BY <2>2, <2>3, <1>SendFollows, <1>SendShape, Zenon
    <3>2. Len(wire') = Len(wire) + 1 /\ wire'[Len(wire')] = Code(key, up)
      BY <2>1, <3>1
    <3>3. up <=> (k0 \notin held')
      BY <1>SendFollows, <2>3, Zenon
    <3>4. Len(wire') \in 1..Len(wire') /\ (Len(wire') + 1)..Len(wire') = {}
      BY <2>1, <3>2
    <3>5. wire'[Len(wire')].key = k0 /\ (wire'[Len(wire')].up <=> (k0 \notin held'))
      BY <2>2, <2>3, <3>2, <3>3, Zenon
    <3> QED BY <3>4, <3>5, Zenon
  <2>4. CASE key # k0
    <3>1. (k0 \in held') <=> (k0 \in held)
      BY <1>SendFollows, <2>4, Zenon
    <3>2. /\ Len(wire') \in Nat /\ Len(wire) \in Nat /\ Len(wire') >= Len(wire)
          /\ \A k \in 1..Len(wire) : wire'[k] = wire[k]
          /\ \A k \in (Len(wire) + 1)..Len(wire') : wire'[k].key # k0
      <4>1. CASE wire' = Append(wire, Code(key, up))
        BY <2>1, <2>2, <2>4, <4>1
      <4>2. CASE wire' = Append(Append(wire, Prefix), Code(key, up))
        BY <2>1, <2>2, <2>4, <4>2
      <4> QED BY <1>SendFollows, <1>SendShape, <4>1, <4>2, Zenon
    <3>3. CASE (\A k \in 1..Len(wire) : wire[k].key # k0) /\ (flag <=> k0 \in held)
      <4>1. ASSUME NEW k \in 1..Len(wire') PROVE wire'[k].key # k0
        <5>1. k \in 1..Len(wire) \/ k \in (Len(wire) + 1)..Len(wire')
          BY <4>1, <3>2
        <5> QED
          BY <3>2, <3>3, <5>1, Zenon
      <4> QED BY <4>1, <3>1, <3>3, Zenon
    <3>4. CASE \E k \in 1..Len(wire) :
                  /\ wire[k].key = k0
                  /\ wire[k].up <=> (k0 \notin held)
                  /\ \A m \in (k + 1)..Len(wire) : wire[m].key # k0
      <4>1. PICK k \in 1..Len(wire) :
                  /\ wire[k].key = k0
                  /\ wire[k].up <=> (k0 \notin held)
                  /\ \A m \in (k + 1)..Len(wire) : wire[m].key # k0
        BY <3>4, Zenon
      <4>2. k \in 1..Len(wire') /\ wire'[k] = wire[k]
        BY <3>2
      <4>3. \A m \in (k + 1)..Len(wire') : wire'[m].key # k0
        BY <4>1, <3>2
      <4>4. wire'[k].up <=> (k0 \notin held')
        BY <4>1, <4>2, <3>1
      <4> QED BY <4>1, <4>2, <4>3, <4>4, Zenon
    <3> QED BY <1>SendFollows, <3>3, <3>4, Zenon DEF Follows
  <2> QED BY <2>3, <2>4, Zenon
<1>SendShift.
      ASSUME WireOK, ShiftFollows, NEW key \in Keys, NEW up \in BOOLEAN, Send(key, up),
             held' = IF up THEN held \ {key} ELSE held \union {key},
             UNCHANGED shift_pressed
      PROVE  ShiftFollows'
  <2> USE <1>SendShift
  <2>1. wire \in Seq(Codes) /\ Prefix \in Codes /\ Code(key, up) \in Codes
    BY DEF WireOK, Codes, Prefix, Code
  <2>2. /\ Prefix.key \notin ShiftKeys /\ Code(key, up).key = key /\ Code(key, up).up = up
        /\ ShiftKeys \intersect Extended = {}
    BY Zenon DEF Prefix, Code, ShiftKeys, Extended
  <2>3. CASE key \in ShiftKeys
    <3>1. wire' = Append(wire, Code(key, up))
      BY <2>2, <2>3, <1>SendShape
    <3>2. Len(wire') = Len(wire) + 1 /\ wire'[Len(wire')] = Code(key, up)
      BY <2>1, <3>1
    <3>3. up \/ key \in held'
      BY Zenon
    <3> QED BY <2>1, <2>2, <2>3, <3>2, <3>3 DEF ShiftFollows
  <2>4. CASE key \notin ShiftKeys
    <3>1. \A k \in ShiftKeys : k \in held' <=> k \in held
      BY <2>4, Zenon
    <3>2. /\ Len(wire') \in Nat /\ Len(wire) \in Nat /\ Len(wire') >= Len(wire)
          /\ \A k \in 1..Len(wire) : wire'[k] = wire[k]
          /\ \A k \in (Len(wire) + 1)..Len(wire') : wire'[k].key \notin ShiftKeys
      <4>1. Code(key, up).key \notin ShiftKeys /\ Prefix.key \notin ShiftKeys
        BY <2>2, <2>4
      <4>2. CASE wire' = Append(wire, Code(key, up))
        <5>1. /\ Len(wire) \in Nat /\ Len(wire') = Len(wire) + 1 /\ wire'[Len(wire) + 1] = Code(key, up)
              /\ \A k \in 1..Len(wire) : wire'[k] = wire[k]
          BY <2>1, <4>2
        <5> QED BY <4>1, <5>1
      <4>3. CASE wire' = Append(Append(wire, Prefix), Code(key, up))
        <5>1. /\ Len(wire) \in Nat /\ Len(wire') = Len(wire) + 2
              /\ wire'[Len(wire) + 1] = Prefix /\ wire'[Len(wire) + 2] = Code(key, up)
              /\ \A k \in 1..Len(wire) : wire'[k] = wire[k]
          BY <2>1, <4>3
        <5> QED BY <4>1, <5>1
      <4> QED BY <4>2, <4>3, <1>SendShape, Zenon
    <3>3. CASE /\ \A k \in 1..Len(wire) : wire[k].key \notin ShiftKeys
               /\ shift_pressed => held \intersect ShiftKeys # {}
      <4>1. \A k \in 1..Len(wire') : wire'[k].key \notin ShiftKeys
        BY <3>2, <3>3
      <4>2. shift_pressed' => held' \intersect ShiftKeys # {}
        BY <3>1, <3>3, Zenon
      <4> QED BY <4>1, <4>2, Zenon DEF ShiftFollows
    <3>4. CASE \E k \in 1..Len(wire) :
                  /\ wire[k].key \in ShiftKeys
                  /\ wire[k].up \/ wire[k].key \in held
                  /\ \A m \in (k + 1)..Len(wire) : wire[m].key \notin ShiftKeys
      <4>1. PICK k \in 1..Len(wire) :
                  /\ wire[k].key \in ShiftKeys
                  /\ wire[k].up \/ wire[k].key \in held
                  /\ \A m \in (k + 1)..Len(wire) : wire[m].key \notin ShiftKeys
        BY <3>4, Zenon
      <4>2. k \in 1..Len(wire') /\ wire'[k] = wire[k]
        BY <3>2
      <4>3. \A m \in (k + 1)..Len(wire') : wire'[m].key \notin ShiftKeys
        BY <4>1, <3>2
      <4> QED BY <4>1, <4>2, <4>3, <3>1 DEF ShiftFollows
    <3> QED BY <3>3, <3>4 DEF ShiftFollows
  <2> QED BY <2>3, <2>4, Zenon
<1>SendStep.
      ASSUME ModInv, NEW key \in Keys, NEW up \in BOOLEAN, Send(key, up),
             held' = IF up THEN held \ {key} ELSE held \union {key},
             UNCHANGED flags
      PROVE  ModInv'
  <2> USE <1>SendStep
  <2>0. WireOK
    BY DEF ModInv
  <2>1. UNCHANGED <<shift_pressed, ctrl_pressed, alt_pressed, caps_lock, extended_scancode>>
    BY DEF flags
  <2>2. WireOK' /\ FlagTypes' /\ held' \subseteq Keys
    BY <2>1, <1>SendWire DEF ModInv, FlagTypes
  <2>3. "CTRL" \in Modifiers /\ "ALT" \in Modifiers
    BY SMTT(30), Zenon DEF Modifiers
  <2>4. Follows(ctrl_pressed, "CTRL")'
    <3>1. Follows(ctrl_pressed, "CTRL")
      BY DEF ModInv
    <3>2. \/ /\ \A k \in 1..Len(wire') : wire'[k].key # "CTRL"
             /\ ctrl_pressed <=> ("CTRL" \in held')
          \/ \E k \in 1..Len(wire') :
                /\ wire'[k].key = "CTRL"
                /\ wire'[k].up <=> ("CTRL" \notin held')
                /\ \A m \in (k + 1)..Len(wire') : wire'[m].key # "CTRL"
      BY <2>0, <2>3, <3>1, <1>SendFollows, Zenon
    <3> QED BY <2>1, <3>2 DEF Follows
  <2>5. Follows(alt_pressed, "ALT")'
    <3>1. Follows(alt_pressed, "ALT")
      BY DEF ModInv
    <3>2. \/ /\ \A k \in 1..Len(wire') : wire'[k].key # "ALT"
             /\ alt_pressed <=> ("ALT" \in held')
          \/ \E k \in 1..Len(wire') :
                /\ wire'[k].key = "ALT"
                /\ wire'[k].up <=> ("ALT" \notin held')
                /\ \A m \in (k + 1)..Len(wire') : wire'[m].key # "ALT"
      BY <2>0, <2>3, <3>1, <1>SendFollows, Zenon
    <3> QED BY <2>1, <3>2 DEF Follows
  <2>6. ShiftFollows'
    BY <2>1, <1>SendShift, Zenon DEF ModInv
  <2> QED BY <2>2, <2>4, <2>5, <2>6 DEF ModInv
<1>TailWire.
      ASSUME WireOK, wire # <<>>, wire' = Tail(wire),
             extended_scancode' <=> (wire[1] = Prefix), extended_scancode' \in BOOLEAN
      PROVE  WireOK'
  <2> USE <1>TailWire
  <2>1. /\ wire' \in Seq(Codes)
        /\ Len(wire) \in Nat /\ Len(wire') = Len(wire) - 1 /\ Len(wire') \in Nat
        /\ \A k \in 1..Len(wire') : wire'[k] = wire[k + 1]
    BY TailShape, Zenon
  <2>2. \A k \in 1..Len(wire') : wire'[k].key = "E0" => wire'[k] = Prefix
    BY <2>1 DEF WireOK
  <2>3. wire' # <<>> => (wire'[1].key \in Extended <=> extended_scancode')
    BY <2>1 DEF WireOK
  <2>4. \A k \in 2..Len(wire') : wire'[k].key \in Extended <=> wire'[k - 1] = Prefix
    <3> SUFFICES ASSUME NEW k \in 2..Len(wire')
                 PROVE  wire'[k].key \in Extended <=> wire'[k - 1] = Prefix
      OBVIOUS
    <3>1. k \in 1..Len(wire') /\ k - 1 \in 1..Len(wire') /\ k + 1 \in 2..Len(wire)
      BY <2>1
    <3>2. wire'[k] = wire[k + 1] /\ wire'[k - 1] = wire[k]
      BY <2>1, <3>1
    <3> QED BY <2>1, <3>1, <3>2 DEF WireOK
  <2>5. wire' = <<>> => ~extended_scancode'
    <3>1. wire' = <<>> => Len(wire') = 0
      BY Zenon
    <3>2. Len(wire') = 0 => Len(wire) = 1
      BY <2>1
    <3> QED BY <3>1, <3>2 DEF WireOK
  <2>6. wire' # <<>> => wire'[Len(wire')] # Prefix
    BY <2>1 DEF WireOK
  <2> QED BY <2>1, <2>2, <2>3, <2>4, <2>5, <2>6 DEF WireOK
<1>TailFollows.
      ASSUME WireOK, wire # <<>>, wire' = Tail(wire), NEW flag, NEW after, NEW k0,
             after <=> IF wire[1].key = k0 THEN ~wire[1].up ELSE flag, Follows(flag, k0)
      PROVE  \/ /\ \A k \in 1..Len(wire') : wire'[k].key # k0
                /\ after <=> (k0 \in held)
             \/ \E k \in 1..Len(wire') :
                   /\ wire'[k].key = k0
                   /\ wire'[k].up <=> (k0 \notin held)
                   /\ \A m \in (k + 1)..Len(wire') : wire'[m].key # k0
  <2> USE <1>TailFollows
  <2>1. /\ Len(wire) \in Nat /\ Len(wire') = Len(wire) - 1 /\ Len(wire') \in Nat
        /\ \A k \in 1..Len(wire') : wire'[k] = wire[k + 1]
    BY TailShape
  <2>2. CASE (\A k \in 1..Len(wire) : wire[k].key # k0) /\ (flag <=> k0 \in held)
    BY <2>1, <2>2
  <2>3. CASE \E k \in 1..Len(wire) :
                /\ wire[k].key = k0
                /\ wire[k].up <=> (k0 \notin held)
                /\ \A m \in (k + 1)..Len(wire) : wire[m].key # k0
    <3>1. PICK k \in 1..Len(wire) :
                /\ wire[k].key = k0
                /\ wire[k].up <=> (k0 \notin held)
                /\ \A m \in (k + 1)..Len(wire) : wire[m].key # k0
      BY <2>3
    <3>2. CASE k = 1
      <4>1. \A m \in 1..Len(wire') : wire'[m].key # k0
        BY <2>1, <3>1, <3>2
      <4> QED BY <3>1, <3>2, <4>1
    <3>3. CASE k # 1
      <4>1. k - 1 \in 1..Len(wire') /\ wire'[k - 1] = wire[k]
        BY <2>1, <3>3
      <4>2. \A m \in ((k - 1) + 1)..Len(wire') : wire'[m].key # k0
        BY <2>1, <3>1, <3>3
      <4> QED BY <3>1, <4>1, <4>2, Zenon
    <3> QED BY <3>2, <3>3
  <2> QED BY <2>2, <2>3 DEF Follows
<1>TailShift.
      ASSUME WireOK, wire # <<>>, wire' = Tail(wire), held' = held, ShiftFollows,
             shift_pressed' <=> IF wire[1].key \in ShiftKeys THEN ~wire[1].up ELSE shift_pressed
      PROVE  ShiftFollows'
  <2> USE <1>TailShift
  <2>1. /\ Len(wire) \in Nat /\ Len(wire') = Len(wire) - 1 /\ Len(wire') \in Nat
        /\ \A k \in 1..Len(wire') : wire'[k] = wire[k + 1]
    BY TailShape, Zenon
  <2>2. CASE /\ \A k \in 1..Len(wire) : wire[k].key \notin ShiftKeys
             /\ shift_pressed => held \intersect ShiftKeys # {}
    <3>1. \A k \in 1..Len(wire') : wire'[k].key \notin ShiftKeys
      BY <2>1, <2>2
    <3>2. shift_pressed' => shift_pressed
      BY <2>1, <2>2
    <3> QED BY <2>2, <3>1, <3>2 DEF ShiftFollows
  <2>3. CASE \E k \in 1..Len(wire) :
                /\ wire[k].key \in ShiftKeys
                /\ wire[k].up \/ wire[k].key \in held
                /\ \A m \in (k + 1)..Len(wire) : wire[m].key \notin ShiftKeys
    <3>1. PICK k \in 1..Len(wire) :
                /\ wire[k].key \in ShiftKeys
                /\ wire[k].up \/ wire[k].key \in held
                /\ \A m \in (k + 1)..Len(wire) : wire[m].key \notin ShiftKeys
      BY <2>3
    <3>2. CASE k = 1
      <4>1. \A m \in 1..Len(wire') : wire'[m].key \notin ShiftKeys
        BY <2>1, <3>1, <3>2
      <4>2. shift_pressed' => held' \intersect ShiftKeys # {}
        BY <3>1, <3>2
      <4> QED BY <4>1, <4>2 DEF ShiftFollows
    <3>3. CASE k # 1
      <4>1. k - 1 \in 1..Len(wire') /\ wire'[k - 1] = wire[k]
        BY <2>1, <3>3
      <4>2. \A m \in ((k - 1) + 1)..Len(wire') : wire'[m].key \notin ShiftKeys
        BY <2>1, <3>1, <3>3
      <4> QED BY <3>1, <4>1, <4>2, Zenon DEF ShiftFollows
    <3> QED BY <3>2, <3>3
  <2> QED BY <2>2, <2>3 DEF ShiftFollows
<1>HandlerMod.
      ASSUME ModInv, keyboard_handler
      PROVE  ModInv'
  <2> USE <1>HandlerMod
  <2>0. WireOK /\ wire # <<>> /\ wire' = Tail(wire) /\ held' = held /\ held \subseteq Keys
    BY DEF ModInv, keyboard_handler
  <2>1. ctrl_pressed' <=> IF wire[1].key = "CTRL" THEN ~wire[1].up ELSE ctrl_pressed
    BY HandlerFlags, Zenon
  <2>2. alt_pressed' <=> IF wire[1].key = "ALT" THEN ~wire[1].up ELSE alt_pressed
    BY HandlerFlags, Zenon
  <2>3. WireOK' /\ FlagTypes' /\ ShiftFollows'
    BY <2>0, HandlerFlags, <1>TailWire, <1>TailShift DEF ModInv
  <2>4. Follows(ctrl_pressed, "CTRL")'
    <3>1. Follows(ctrl_pressed, "CTRL")
      BY Zenon DEF ModInv
    <3>2. \/ /\ \A k \in 1..Len(wire') : wire'[k].key # "CTRL"
             /\ ctrl_pressed' <=> ("CTRL" \in held)
          \/ \E k \in 1..Len(wire') :
                /\ wire'[k].key = "CTRL"
                /\ wire'[k].up <=> ("CTRL" \notin held)
                /\ \A m \in (k + 1)..Len(wire') : wire'[m].key # "CTRL"
      BY <2>0, <2>1, <2>2, <3>1, <1>TailFollows
    <3> QED BY <2>0, <3>2, Zenon DEF Follows
  <2>5. Follows(alt_pressed, "ALT")'
    <3>1. Follows(alt_pressed, "ALT")
      BY Zenon DEF ModInv
    <3>2. \/ /\ \A k \in 1..Len(wire') : wire'[k].key # "ALT"
             /\ alt_pressed' <=> ("ALT" \in held)
          \/ \E k \in 1..Len(wire') :
                /\ wire'[k].key = "ALT"
                /\ wire'[k].up <=> ("ALT" \notin held)
                /\ \A m \in (k + 1)..Len(wire') : wire'[m].key # "ALT"
      BY <2>0, <2>1, <2>2, <3>1, <1>TailFollows
    <3> QED BY <2>0, <3>2, Zenon DEF Follows
  <2> QED BY <2>0, <2>3, <2>4, <2>5 DEF ModInv
<1>1. ModInv /\ [Next]_vars => ModInv'
  <2> SUFFICES ASSUME ModInv, [Next]_vars PROVE ModInv'
    OBVIOUS
  <2>1. ASSUME NEW key \in Pressable, Press(key) PROVE ModInv'
    <3>1. key \in Keys /\ held' = held \union {key} /\ Send(key, FALSE) /\ UNCHANGED flags
      BY <2>1, KeyboardAssumption, Zenon DEF Press
    <3> QED BY <3>1, <1>SendStep, Zenon
  <2>2. ASSUME NEW key \in Pressable, Release(key) PROVE ModInv'
    <3>1. key \in Keys /\ held' = held \ {key} /\ Send(key, TRUE) /\ UNCHANGED flags
      BY <2>2, KeyboardAssumption, Zenon DEF Release
    <3> QED BY <3>1, <1>SendStep, Zenon
  <2>3. CASE keyboard_handler
    BY <2>3, <1>HandlerMod, SMTT(30)
  <2>4. CASE UNCHANGED <<flags, held, wire>>
    <3>1. /\ UNCHANGED <<shift_pressed, ctrl_pressed, alt_pressed, caps_lock, extended_scancode>>
          /\ UNCHANGED <<held, wire>>
      BY <2>4, Zenon DEF flags
    <3>2. WireOK' /\ held' \subseteq Keys
      BY <3>1, Zenon DEF ModInv, WireOK
    <3>3. FlagTypes'
      BY <3>1, Zenon DEF ModInv, FlagTypes
    <3>4. Follows(ctrl_pressed, "CTRL")' /\ Follows(alt_pressed, "ALT")'
      BY <3>1, Zenon DEF ModInv, Follows
    <3>5. ShiftFollows'
      BY <3>1, Zenon DEF ModInv, ShiftFollows
    <3> QED
      BY <3>2, <3>3, <3>4, <3>5, Zenon DEF ModInv
  <2>5. CASE Tick \/ ShellStep \/ UNCHANGED vars
    BY <2>4, <2>5, Zenon DEF Tick, ShellStep, Check, PopLoad, PopAdvance, Process, vars
  <2> QED BY <2>1, <2>2, <2>3, <2>5 DEF Next
<1> QED BY <1>1, <1>ModInit, PTL DEF Spec

\* No modifier sticks (keyboard_handler), whatever keys are pressed, released
\* and repeated in whatever order.
THEOREM ModifiersAlwaysFollow == Spec => []ModifiersFollowKeys
<1>1. ModInv => ModifiersFollowKeys
  <2> SUFFICES ASSUME ModInv, wire = <<>> PROVE ModifiersFollowKeys
    BY DEF ModifiersFollowKeys
  <2>1. 1..Len(wire) = {}
    OBVIOUS
  <2> QED BY <2>1 DEF ModInv, WireOK, Follows, ShiftFollows, ShiftKeys, ModifiersFollowKeys
<1> QED BY <1>1, ModInvariance, PTL

-----------------------------------------------------------------------------
(***************************************************************************)
(* The ring buffer.                                                        *)
(***************************************************************************)
PendingOf(buf, r, w) ==
    [k \in 1..((w + Size - r) % Size) |-> buf[(r + k - 1) % Size]]

\* The slot that holds the k-th pending character.
SlotOf(r, k) == IF r + k - 1 < Size THEN r + k - 1 ELSE r + k - 1 - Size

\* How many characters are pending.
LenOf(r, w) == IF w >= r THEN w - r ELSE w + Size - r

RingSeq(buf, r, w) == [k \in 1..LenOf(r, w) |-> buf[SlotOf(r, k)]]

\* SmallMod at the size of the ring.
LEMMA RingMod ==
    ASSUME NEW a \in 0..(2 * Size - 1)
    PROVE  a % Size = IF a < Size THEN a ELSE a - Size
<1>1. Size \in Nat \ {0}
  BY KeyboardAssumption DEF Size
<1> QED BY <1>1, SmallMod, Zenon

LEMMA PendingShape ==
    ASSUME NEW buf, NEW r \in Slots, NEW w \in Slots
    PROVE  PendingOf(buf, r, w) = RingSeq(buf, r, w)
<1> DEFINE n == LenOf(r, w)
<1>0. Size \in Nat \ {0} /\ r \in 0..(Size - 1) /\ w \in 0..(Size - 1)
  BY KeyboardAssumption DEF Size, Slots
<1>1. n \in 0..(Size - 1)
  BY <1>0 DEF LenOf
<1>2. (w + Size - r) % Size = n
  <2> DEFINE a == w + Size - r
  <2>1. a \in 0..(2 * Size - 1)
    BY <1>0
  <2>2. a % Size = IF a < Size THEN a ELSE a - Size
    <3> HIDE DEF a
    <3> QED BY <2>1, RingMod
  <2>3. (IF a < Size THEN a ELSE a - Size) = n
    BY <1>0 DEF LenOf
  <2> QED BY <2>2, <2>3
<1>3. \A k \in 1..n : (r + k - 1) % Size = SlotOf(r, k)
  <2> SUFFICES ASSUME NEW k \in 1..n PROVE (r + k - 1) % Size = SlotOf(r, k)
    OBVIOUS
  <2> DEFINE a == r + k - 1
  <2>1. a \in 0..(2 * Size - 1)
    BY <1>0, <1>1
  <2>2. a % Size = IF a < Size THEN a ELSE a - Size
    <3> HIDE DEF a
    <3> QED BY <2>1, RingMod
  <2>3. (IF a < Size THEN a ELSE a - Size) = SlotOf(r, k)
    BY <1>0, <1>1 DEF SlotOf
  <2> QED BY <2>2, <2>3
<1> QED BY <1>2, <1>3 DEF PendingOf, RingSeq

\* ch is stored at the write position w, which advances to w2 short of r.
Stored(S, buf, buf1, r, w, w2, ch) ==
    /\ buf \in [Slots -> S] /\ ch \in S
    /\ r \in Slots /\ w \in Slots
    /\ w2 = (w + 1) % Size /\ w2 # r
    /\ buf1[w] = ch
    /\ \A k \in Slots : k # w => buf1[k] = buf[k]

\* That appends to the pending characters.
LEMMA PushAppends ==
    ASSUME NEW S, NEW buf, NEW buf1, NEW r, NEW w, NEW w2, NEW ch,
           Stored(S, buf, buf1, r, w, w2, ch)
    PROVE  /\ w2 \in Slots
           /\ Len(PendingOf(buf, r, w)) < Size - 1
           /\ PendingOf(buf1, r, w2) = Append(PendingOf(buf, r, w), ch)
<1> SUFFICES ASSUME buf \in [Slots -> S], ch \in S, r \in Slots, w \in Slots,
                    w2 = (w + 1) % Size, w2 # r,
                    buf1[w] = ch, \A k \in Slots : k # w => buf1[k] = buf[k]
             PROVE  /\ w2 \in Slots
                    /\ Len(PendingOf(buf, r, w)) < Size - 1
                    /\ PendingOf(buf1, r, w2) = Append(PendingOf(buf, r, w), ch)
  BY DEF Stored
<1>0. Size \in Nat \ {0} /\ r \in 0..(Size - 1) /\ w \in 0..(Size - 1)
  BY KeyboardAssumption DEF Size, Slots
<1> DEFINE n == LenOf(r, w)
           w1 == IF w + 1 = Size THEN 0 ELSE w + 1
           n1 == LenOf(r, w1)
           old == [k \in 1..n |-> buf[SlotOf(r, k)]]
           new == [k \in 1..n1 |-> buf1[SlotOf(r, k)]]
<1>1. (w + 1) % Size = w1
  <2> DEFINE a == w + 1
  <2>1. a \in 0..(2 * Size - 1)
    BY <1>0
  <2>2. a % Size = IF a < Size THEN a ELSE a - Size
    <3> HIDE DEF a
    <3> QED BY <2>1, RingMod
  <2>3. (IF a < Size THEN a ELSE a - Size) = w1
    BY <1>0
  <2> QED BY <2>2, <2>3
<1>2. w1 \in Slots
  BY <1>0 DEF Slots, Size
<1>3. n \in Nat /\ n < Size - 1 /\ n1 = n + 1
  <2>1. w1 # r
    BY <1>1
  <2> QED BY <1>0, <2>1 DEF LenOf
<1>4. PendingOf(buf, r, w) = old /\ PendingOf(buf1, r, w1) = new
  <2> HIDE DEF w1
  <2>1. PendingOf(buf, r, w) = RingSeq(buf, r, w)
    BY PendingShape
  <2>2. PendingOf(buf1, r, w1) = RingSeq(buf1, r, w1)
    BY <1>2, PendingShape, Zenon
  <2> QED BY <2>1, <2>2 DEF RingSeq
<1>5. \A k \in 1..n : SlotOf(r, k) \in Slots /\ SlotOf(r, k) # w
  BY <1>0, <1>3 DEF LenOf, SlotOf, Slots, Size
<1>6. SlotOf(r, n + 1) = w
  BY <1>0, <1>3 DEF LenOf, SlotOf
<1>7. old \in Seq(S) /\ Len(old) = n
  <2>1. \A k \in 1..n : buf[SlotOf(r, k)] \in S
    BY <1>5
  <2> HIDE DEF n
  <2> QED BY <1>3, <2>1
<1>8. new = Append(old, ch)
  <2>1. \A k \in 1..n : new[k] = old[k]
    BY <1>3, <1>5, SMTT(40)
  <2>2. new[n + 1] = ch
    BY <1>3, <1>6, SMTT(40)
  <2> HIDE DEF n
  <2>3. Append(old, ch) = [k \in 1..(n + 1) |-> IF k = n + 1 THEN ch ELSE old[k]]
    BY <1>3, <1>7
  <2>4. \A k \in 1..(n + 1) : new[k] = IF k = n + 1 THEN ch ELSE old[k]
    <3> HIDE DEF new, old
    <3>1. ASSUME NEW k \in 1..(n + 1), k # n + 1 PROVE k \in 1..n
      BY <1>3, <3>1
    <3> QED BY <2>1, <2>2, <3>1, Zenon
  <2>5. new = [k \in 1..(n + 1) |-> new[k]]
    BY <1>3
  <2> HIDE DEF new, old
  <2> QED BY <2>3, <2>4, <2>5, Zenon
<1> HIDE DEF n, n1, old, new
<1> QED BY <1>1, <1>2, <1>3, <1>4, <1>7, <1>8

\* Advancing the read position drops the first pending character.
LEMMA PopTakesHead ==
    ASSUME NEW S, NEW buf \in [Slots -> S], NEW r \in Slots, NEW w \in Slots, r # w
    PROVE  /\ (r + 1) % Size \in Slots
           /\ PendingOf(buf, r, w) # <<>>
           /\ Head(PendingOf(buf, r, w)) = buf[r]
           /\ PendingOf(buf, (r + 1) % Size, w) = Tail(PendingOf(buf, r, w))
<1>0. Size \in Nat \ {0} /\ r \in 0..(Size - 1) /\ w \in 0..(Size - 1)
  BY KeyboardAssumption DEF Size, Slots
<1> DEFINE n == LenOf(r, w)
           r1 == IF r + 1 = Size THEN 0 ELSE r + 1
           n1 == LenOf(r1, w)
           old == [k \in 1..n |-> buf[SlotOf(r, k)]]
           new == [k \in 1..n1 |-> buf[SlotOf(r1, k)]]
<1>1. (r + 1) % Size = r1
  <2> DEFINE a == r + 1
  <2>1. a \in 0..(2 * Size - 1)
    BY <1>0
  <2>2. a % Size = IF a < Size THEN a ELSE a - Size
    <3> HIDE DEF a
    <3> QED BY <2>1, RingMod
  <2>3. (IF a < Size THEN a ELSE a - Size) = r1
    BY <1>0
  <2> QED BY <2>2, <2>3
<1>2. r1 \in Slots
  BY <1>0 DEF Slots, Size
<1>3. n \in Nat /\ n >= 1 /\ n < Size /\ n1 = n - 1
  BY <1>0 DEF LenOf
<1>4. PendingOf(buf, r, w) = old /\ PendingOf(buf, r1, w) = new
  <2> HIDE DEF r1
  <2>1. PendingOf(buf, r, w) = RingSeq(buf, r, w)
    BY PendingShape
  <2>2. PendingOf(buf, r1, w) = RingSeq(buf, r1, w)
    BY <1>2, PendingShape
  <2> QED BY <2>1, <2>2 DEF RingSeq
<1>5. \A k \in 1..n : SlotOf(r, k) \in Slots
  BY <1>0, <1>3 DEF LenOf, SlotOf, Slots, Size
<1>6. \A k \in 1..n1 : SlotOf(r1, k) = SlotOf(r, k + 1)
  BY <1>0, <1>3 DEF LenOf, SlotOf
<1>7. SlotOf(r, 1) = r
  BY <1>0 DEF SlotOf
<1>8. old \in Seq(S) /\ Len(old) = n
  <2>1. \A k \in 1..n : buf[SlotOf(r, k)] \in S
    BY <1>5
  <2> HIDE DEF n
  <2> QED BY <1>3, <2>1
<1>9. old # <<>> /\ Head(old) = buf[r]
  <2>1. old[1] = buf[r]
    BY <1>3, <1>7
  <2> HIDE DEF old, n
  <2> QED BY <1>3, <1>8, <2>1
<1>10. new = Tail(old)
  <2>1. \A k \in 1..n1 : new[k] = old[k + 1]
    BY <1>3, <1>6
  <2>2. new \in Seq(S) /\ Len(new) = n1
    <3>1. n1 \in Nat /\ \A k \in 1..n1 : buf[SlotOf(r1, k)] \in S
      BY <1>3, <1>5, <1>6
    <3> HIDE DEF n1, r1
    <3> QED BY <3>1
  <2> HIDE DEF old, new, n, n1
  <2>3. /\ Tail(old) \in Seq(S) /\ Len(Tail(old)) = n1
        /\ \A k \in 1..n1 : Tail(old)[k] = old[k + 1]
    BY <1>3, <1>8, <1>9
  <2> QED BY <2>1, <2>2, <2>3
<1> HIDE DEF n, n1, old, new
<1> QED BY <1>1, <1>2, <1>4, <1>9, <1>10

\* Between the test and the advance of keyboard_buffer_pop the ring stays
\* nonempty and the slot being read is not overwritten.
RingInv ==
    /\ TypeOK
    /\ pc \in {"load", "advance"} => buffer_read_pos # buffer_write_pos
    /\ pc = "advance" => loaded = keyboard_buffer[buffer_read_pos]

LEMMA RingInit == Init => RingInv
<1> SUFFICES ASSUME Init PROVE RingInv
  OBVIOUS
<1>1. 0 \in Slots /\ 0 \in 0..(SHELL_BUFFER_SIZE - 1)
  BY KeyboardAssumption DEF Slots
<1>2. Len(wire) <= WireLimit
  BY KeyboardAssumption DEF Init
<1> QED BY <1>1, <1>2 DEF Init, RingInv, TypeOK

\* A key that reaches the translation gives a character.
LEMMA TranslateChars ==
    ASSUME NEW key \in Keys, key \notin Modifiers \union Unmapped \union {"CAPS"},
           key \notin Extended
    PROVE  Translate(key) \in Chars
<1>1. key \in Letters \union Same \union {"1"}
  BY DEF Keys
<1>2. "ENTER" \in Same
  BY Zenon DEF Same
<1> QED BY <1>1, <1>2 DEF Translate, Chars

\* What the handler does to the ring: nothing, or one push.
LEMMA HandlerRing ==
    ASSUME ModInv, keyboard_handler
    PROVE  \/ UNCHANGED ring
           \/ \E ch \in Chars : keyboard_buffer_push(ch)
<1>1. /\ WireOK /\ wire # <<>>
      /\ wire[1] \in Codes /\ Head(wire) = wire[1]
      /\ wire[1].key \in Extended <=> extended_scancode
      /\ wire[1].key = "E0" => wire[1] = Prefix
  <2>1. WireOK /\ wire # <<>> /\ wire' = Tail(wire)
    BY DEF ModInv, keyboard_handler
  <2>2. wire[1] \in Codes /\ Head(wire) = wire[1] /\ 1 \in 1..Len(wire)
    BY <2>1, TailShape
  <2> QED BY <2>1, <2>2 DEF WireOK
<1>2. CASE wire[1] # Prefix /\ ~extended_scancode /\ PressCode(wire[1])
  <2>1. wire[1].key \in Keys /\ wire[1].key \notin Extended
    BY <1>1, <1>2, Zenon DEF Codes
  <2>2. CASE wire[1].key \in Modifiers \union Unmapped \union {"CAPS"}
    BY <1>2, <2>2 DEF PressCode
  <2>3. CASE wire[1].key \notin Modifiers \union Unmapped \union {"CAPS"}
    BY <1>2, <2>1, <2>3, TranslateChars, Zenon DEF PressCode
  <2> QED BY <2>2, <2>3
<1>3. CASE UNCHANGED ring
  BY <1>3
<1> QED BY <1>1, <1>2, <1>3, Zenon DEF keyboard_handler, ExtendedCode, ReleaseCode, ring

\* A push appends to the pending characters or, when the ring is full, drops.
LEMMA PushStep ==
    ASSUME RingInv, NEW ch \in Chars, keyboard_buffer_push(ch)
    PROVE  /\ keyboard_buffer' \in [Slots -> Chars \union {NUL}]
           /\ buffer_write_pos' \in Slots
           /\ buffer_read_pos' = buffer_read_pos
           /\ buffer_read_pos # buffer_write_pos =>
                 /\ buffer_read_pos # buffer_write_pos'
                 /\ keyboard_buffer'[buffer_read_pos] = keyboard_buffer[buffer_read_pos]
           /\ \/ UNCHANGED ring
              \/ Len(Pending) < Size - 1 /\ Pending' = Append(Pending, ch)
<1> DEFINE next == (buffer_write_pos + 1) % Size
<1>1. /\ keyboard_buffer \in [Slots -> Chars \union {NUL}]
      /\ buffer_read_pos \in Slots /\ buffer_write_pos \in Slots
  BY DEF RingInv, TypeOK
<1>2. CASE next = buffer_read_pos
  BY <1>1, <1>2 DEF keyboard_buffer_push, ring, Size
<1>3. CASE next # buffer_read_pos
  <2>1. /\ keyboard_buffer' = [keyboard_buffer EXCEPT ![buffer_write_pos] = ch]
        /\ buffer_write_pos' = next
        /\ buffer_read_pos' = buffer_read_pos
    BY <1>3 DEF keyboard_buffer_push, Size
  <2>2. /\ ch \in Chars \union {NUL}
        /\ keyboard_buffer'[buffer_write_pos] = ch
        /\ \A k \in Slots : k # buffer_write_pos => keyboard_buffer'[k] = keyboard_buffer[k]
    BY <1>1, <2>1
  <2>3. /\ buffer_write_pos' \in Slots
        /\ Len(PendingOf(keyboard_buffer, buffer_read_pos, buffer_write_pos)) < Size - 1
        /\ PendingOf(keyboard_buffer', buffer_read_pos, buffer_write_pos')
            = Append(PendingOf(keyboard_buffer, buffer_read_pos, buffer_write_pos), ch)
    <3>1. Stored(Chars \union {NUL}, keyboard_buffer, keyboard_buffer', buffer_read_pos,
                 buffer_write_pos, buffer_write_pos', ch)
      BY <1>1, <1>3, <2>1, <2>2 DEF Stored
    <3> QED BY <3>1, PushAppends
  <2>4. /\ Pending = PendingOf(keyboard_buffer, buffer_read_pos, buffer_write_pos)
        /\ Pending' = PendingOf(keyboard_buffer', buffer_read_pos', buffer_write_pos')
    BY DEF Pending, PendingOf, Size
  <2>5. Len(Pending) < Size - 1 /\ Pending' = Append(Pending, ch)
    BY <2>1, <2>3, <2>4, Zenon
  <2> HIDE DEF next
  <2> QED BY <1>1, <1>3, <2>1, <2>2, <2>3, <2>5
<1> QED BY <1>2, <1>3

LEMMA RingStep == RingInv /\ ModInv /\ [Next]_vars => RingInv'
<1> SUFFICES ASSUME RingInv, ModInv, [Next]_vars PROVE RingInv'
  BY Zenon
<1>0. WireOK /\ wire \in Seq(Codes) /\ Len(wire) \in Nat /\ Len(wire) <= WireLimit
  BY DEF ModInv, WireOK, RingInv, TypeOK
<1>1. ASSUME NEW key \in Pressable, Press(key) PROVE RingInv'
  <2>1. key \in Keys /\ UNCHANGED <<ring, flags, shell>> /\ held' = held \union {key}
    BY <1>1, KeyboardAssumption DEF Press
  <2>2. Len(wire') <= WireLimit
    BY <1>0, <1>1 DEF Press, Send
  <2> QED BY <2>1, <2>2 DEF ring, flags, shell, RingInv, TypeOK
<1>2. ASSUME NEW key \in Pressable, Release(key) PROVE RingInv'
  <2>1. UNCHANGED <<ring, flags, shell>> /\ held' = held \ {key}
    BY <1>2 DEF Release
  <2>2. Len(wire') <= WireLimit
    BY <1>0, <1>2 DEF Release, Send
  <2> QED BY <2>1, <2>2 DEF ring, flags, shell, RingInv, TypeOK
<1>3. CASE keyboard_handler
  <2>1. /\ UNCHANGED <<loaded, c, command_pos, held>>
        /\ pc' = IF pc = "hlt" THEN "check" ELSE pc
        /\ Len(wire') <= WireLimit
    <3>1. wire # <<>> /\ wire' = Tail(wire)
      BY <1>3 DEF keyboard_handler
    <3>2. Len(wire') = Len(wire) - 1
      BY <1>0, <3>1, TailShape
    <3>3. Len(wire') <= WireLimit
      BY <1>0, <3>2, KeyboardAssumption
    <3> QED BY <1>3, <3>3 DEF keyboard_handler, Resume
  <2>2. FlagTypes' /\ extended_scancode' \in BOOLEAN
    BY <1>3, HandlerFlags, Zenon
  <2>3. CASE UNCHANGED ring
    BY <2>1, <2>2, <2>3, Zenon DEF ring, RingInv, TypeOK, FlagTypes
  <2>4. CASE \E ch \in Chars : keyboard_buffer_push(ch)
    <3>1. /\ keyboard_buffer' \in [Slots -> Chars \union {NUL}]
          /\ buffer_write_pos' \in Slots
          /\ buffer_read_pos' = buffer_read_pos
          /\ buffer_read_pos # buffer_write_pos =>
                /\ buffer_read_pos # buffer_write_pos'
                /\ keyboard_buffer'[buffer_read_pos] = keyboard_buffer[buffer_read_pos]
      BY <2>4, PushStep, Zenon
    <3> QED BY <2>1, <2>2, <3>1 DEF RingInv, TypeOK, FlagTypes
  <2> QED BY <1>3, <2>3, <2>4, HandlerRing, Zenon
<1>4. CASE Tick \/ Check
  BY <1>4, Zenon DEF Tick, Check, Resume, keyboard_has_data, ring, flags, RingInv, TypeOK
<1>5. CASE PopLoad
  BY <1>5, Zenon DEF PopLoad, ring, flags, RingInv, TypeOK
<1>6. CASE PopAdvance
  <2>1. buffer_read_pos' \in Slots
    BY <1>6, PopTakesHead, ZenonT(30) DEF PopAdvance, RingInv, TypeOK, Size
  <2> QED BY <1>6, <2>1, Zenon DEF PopAdvance, flags, RingInv, TypeOK
<1>7. CASE Process
  <2>1. command_pos' \in 0..(SHELL_BUFFER_SIZE - 1)
    BY <1>7, KeyboardAssumption, SMTT(30) DEF Process, RingInv, TypeOK
  <2> QED BY <1>7, <2>1, Zenon DEF Process, ring, flags, RingInv, TypeOK
<1>8. CASE UNCHANGED vars
  BY <1>8 DEF vars, ring, flags, shell, RingInv, TypeOK
<1> QED BY <1>1, <1>2, <1>3, <1>4, <1>5, <1>6, <1>7, <1>8 DEF Next, ShellStep

THEOREM RingInvariance == Spec => []RingInv
BY RingInit, RingStep, ModInvariance, PTL DEF Spec

\* Every position indexes its array, for every size of the two buffers.
THEOREM KeyboardTypes == Spec => []TypeOK
<1>1. RingInv => TypeOK
  BY DEF RingInv
<1> QED BY <1>1, RingInvariance, PTL

\* The ring buffer of drivers/keyboard.c is a bounded queue although the
\* interrupt comes at any point of keyboard_buffer_pop.
THEOREM RingIsQueue == Spec => ImplementsQueue
<1>1. Init => Queue!Init
  <2> SUFFICES ASSUME Init PROVE Pending = <<>> /\ c = NUL
    BY DEF Queue!Init
  <2>1. 0 \in Slots
    BY KeyboardAssumption DEF Slots
  <2>2. Pending = PendingOf(keyboard_buffer, 0, 0)
    BY DEF Init, Pending, PendingOf, Size
  <2>3. Pending = RingSeq(keyboard_buffer, 0, 0)
    BY <2>1, <2>2, PendingShape
  <2>4. LenOf(0, 0) = 0
    BY DEF LenOf
  <2>5. Pending = <<>>
    BY <2>3, <2>4 DEF RingSeq
  <2> QED BY <2>5 DEF Init
<1>2. RingInv /\ ModInv /\ [Next]_vars => [Queue!Put \/ Queue!Get]_<<Pending, c>>
  <2> SUFFICES ASSUME RingInv, ModInv, [Next]_vars
               PROVE  Queue!Put \/ Queue!Get \/ UNCHANGED <<Pending, c>>
    OBVIOUS
  <2>1. CASE UNCHANGED ring /\ UNCHANGED c
    BY <2>1 DEF ring, Pending
  <2>2. CASE keyboard_handler
    <3>1. c' = c
      BY <2>2 DEF keyboard_handler
    <3>2. ASSUME NEW ch \in Chars, keyboard_buffer_push(ch)
          PROVE  Queue!Put \/ UNCHANGED ring
      <4>1. UNCHANGED ring \/ (Len(Pending) < Size - 1 /\ Pending' = Append(Pending, ch))
        BY <3>2, PushStep
      <4> QED BY <3>1, <4>1 DEF Queue!Put, Size
    <3> QED BY <2>1, <2>2, <3>1, <3>2, HandlerRing
  <2>3. CASE PopAdvance
    <3>1. /\ keyboard_buffer \in [Slots -> Chars \union {NUL}]
          /\ buffer_read_pos \in Slots /\ buffer_write_pos \in Slots
          /\ buffer_read_pos # buffer_write_pos
          /\ c' = keyboard_buffer[buffer_read_pos]
          /\ buffer_read_pos' = (buffer_read_pos + 1) % Size
          /\ UNCHANGED <<keyboard_buffer, buffer_write_pos>>
      BY <2>3 DEF PopAdvance, RingInv, TypeOK, Size
    <3>2. /\ Pending = PendingOf(keyboard_buffer, buffer_read_pos, buffer_write_pos)
          /\ Pending' = PendingOf(keyboard_buffer', buffer_read_pos', buffer_write_pos')
      BY DEF Pending, PendingOf, Size
    <3>3. Pending # <<>> /\ c' = Head(Pending) /\ Pending' = Tail(Pending)
      BY <3>1, <3>2, PopTakesHead, Zenon
    <3> QED BY <3>3, Zenon DEF Queue!Get
  <2>4. CASE \E key \in Pressable : Press(key) \/ Release(key)
    BY <2>1, <2>4, Zenon DEF Press, Release, shell
  <2>5. CASE Tick \/ Check \/ PopLoad \/ Process
    BY <2>1, <2>5 DEF Tick, Check, PopLoad, Process
  <2>6. CASE UNCHANGED vars
    BY <2>1, <2>6 DEF vars, shell
  <2> QED BY <2>2, <2>3, <2>4, <2>5, <2>6 DEF Next, ShellStep
<1> QED BY <1>1, <1>2, RingInvariance, ModInvariance, PTL DEF Spec, ImplementsQueue, Queue!Spec

-----------------------------------------------------------------------------
(***************************************************************************)
(* The terminal's invariant.  RowStored alone is not inductive: between the *)
(* step that moves the cursor down and the append, the row may be the one  *)
(* after the last line, and a clear passes through an empty buffer.        *)
(***************************************************************************)
Lines == [Columns -> Cells]

RowKnown ==
    /\ writer \in {"idle", "test", "follow", "unlock", "start", "copy", "cursor", "row", "place"} =>
           (logical_row < scrollback_count \/ scrollback_count = SCROLLBACK_LINES)
    /\ writer = "grow" =>
           (logical_row <= scrollback_count \/ scrollback_count = SCROLLBACK_LINES)
    /\ writer = "row" => (logical_row < scrollback_count /\ InView(StartOf(0)))
    /\ writer \in {"clear top", "clear lock"} => (scrollback_count = 0 /\ logical_row = 0)
    /\ writer = "clear screen" => (scrollback_count = 1 /\ logical_row = 0)

ViewKnown ==
    /\ ViewportSound
    /\ writer \in {"clear lock", "clear screen"} => viewport_top = 0

RowInv == TerminalTypeOK /\ RowKnown /\ ViewKnown

(***************************************************************************)
(* What is already on the screen at each step of the drawing.  A render    *)
(* that a page key interrupts is damaged, and so is the fast path; while a *)
(* character is stored and not yet drawn, every row but its own is right.  *)
(***************************************************************************)
Whole(top) == \A r \in ScreenRows : vga[r] = RowFrom(StartOf(top), r)

CursorAt(top) ==
    InView(StartOf(top)) => hw_cursor = <<logical_row - StartOf(top), logical_col>>

OtherRows ==
    \A r \in ScreenRows : StartOf(0) + r # logical_row => vga[r] = RowFrom(StartOf(0), r)

ScreenKnown ==
    /\ writer = "idle" /\ ~damaged /\ (viewport_top # 0 => scroll_locked) =>
           Whole(viewport_top) /\ CursorAt(viewport_top)
    /\ writer \in {"test", "row"} /\ drawing = "char" /\ ~damaged /\ viewport_top = 0 /\ ~scroll_locked =>
           OtherRows
    /\ writer = "place" /\ ~damaged /\ viewport_top = 0 => Whole(0)
    /\ writer = "copy" /\ ~damaged =>
           /\ start = StartOf(viewport_top)
           /\ \A r \in ScreenRows : r < y => vga[r] = RowFrom(start, r)
    /\ writer = "cursor" /\ ~damaged => start = StartOf(viewport_top) /\ Whole(viewport_top)
    /\ writer \in {"start", "copy", "cursor", "row", "place"} /\ drawing # "full" /\ ~damaged =>
           ~scroll_locked
    /\ writer \in {"row", "place"} => drawing # "full"
    /\ writer = "grow" => drawing # "char"
    /\ Clearing => logical_col = 0
    /\ writer = "clear screen" => scrollback = <<BlankLine>>

-----------------------------------------------------------------------------
(***************************************************************************)
(* What the operators of the model return.                                 *)
(***************************************************************************)
\* A blank line is a line, and a blank screen is made of them.
LEMMA BlankType == BlankLine \in Lines /\ BlankScreen \in [ScreenRows -> Lines]
BY DEF BlankLine, BlankScreen, Lines, Cells

\* The number of stored lines is a number, and each of them is a line.
LEMMA LineType ==
    ASSUME TerminalTypeOK
    PROVE  /\ scrollback_count \in Nat
           /\ \A i \in Nat : i < scrollback_count => Line(i) \in Lines
<1>1. scrollback \in Seq(Lines)
  BY DEF TerminalTypeOK, Lines
<1>2. Len(scrollback) \in Nat /\ scrollback \in [1..Len(scrollback) -> Lines]
  BY <1>1
<1>3. ASSUME NEW i \in Nat, i < Len(scrollback) PROVE i + 1 \in 1..Len(scrollback)
  BY <1>2, <1>3
<1>4. QED BY <1>2, <1>3 DEF scrollback_count, Line

\* A view starts at a line of the buffer.
LEMMA StartType ==
    ASSUME TerminalTypeOK, NEW top \in Nat
    PROVE  /\ StartOf(top) \in Nat
           /\ top = 0 /\ scrollback_count >= VGA_HEIGHT => StartOf(top) + VGA_HEIGHT = scrollback_count
           /\ scrollback_count < VGA_HEIGHT => StartOf(top) = 0
BY LineType, TerminalAssumption DEF StartOf

\* The rows of a view are lines.
LEMMA RowType ==
    ASSUME TerminalTypeOK, NEW s \in Nat, NEW r \in ScreenRows
    PROVE  RowFrom(s, r) \in Lines
BY LineType, BlankType, TerminalAssumption DEF RowFrom, ScreenRows

\* A view is a screen.
LEMMA ViewType ==
    ASSUME TerminalTypeOK, NEW top \in Nat
    PROVE  ViewOf(top) \in [ScreenRows -> Lines]
BY StartType, RowType DEF ViewOf

\* The cursor is on the screen's columns.
LEMMA CursorType ==
    ASSUME TerminalTypeOK, NEW s \in Nat
    PROVE  CursorFrom(s) \in Nat \X Columns
BY TerminalAssumption DEF CursorFrom, InView, TerminalTypeOK, Columns

\* Storing cells keeps the number of lines.
LEMMA StoredType ==
    ASSUME TerminalTypeOK, NEW row \in Nat, NEW cells,
           \A x \in DOMAIN cells : x \in Columns => cells[x] \in Cells
    PROVE  StoredLine(row, cells) \in Seq(Lines) /\ Len(StoredLine(row, cells)) = scrollback_count
<1>1. scrollback \in Seq(Lines) /\ scrollback_count \in Nat
  BY LineType DEF TerminalTypeOK, Lines
<1>2. CASE row < scrollback_count
  <2> DEFINE line == [x \in Columns |-> IF x \in DOMAIN cells THEN cells[x] ELSE scrollback[row + 1][x]]
  <2>1. row + 1 \in 1..Len(scrollback)
    BY <1>1, <1>2 DEF scrollback_count
  <2>2. scrollback[row + 1] \in Lines
    BY <1>2, LineType DEF Line
  <2>3. line \in Lines
    BY <2>2 DEF Lines
  <2>4. StoredLine(row, cells) = [scrollback EXCEPT ![row + 1] = line]
    BY <1>2 DEF StoredLine
  <2> HIDE DEF line
  <2>5. QED BY <1>1, <2>1, <2>3, <2>4 DEF scrollback_count
<1>3. CASE ~(row < scrollback_count)
  BY <1>1, <1>3 DEF StoredLine, scrollback_count
<1>4. QED BY <1>2, <1>3

\* scrollback_append_blank_line keeps the buffer's bound and gives the row its line.
LEMMA AppendedType ==
    ASSUME TerminalTypeOK
    PROVE  /\ Appended \in Seq(Lines)
           /\ Len(Appended) <= SCROLLBACK_LINES
           /\ Len(Appended) >= scrollback_count
           /\ logical_row <= scrollback_count =>
                 (logical_row < Len(Appended) \/ Len(Appended) = SCROLLBACK_LINES)
           /\ scrollback_count = SCROLLBACK_LINES => Len(Appended) = SCROLLBACK_LINES
<1>1. scrollback \in Seq(Lines) /\ scrollback_count \in Nat /\ logical_row \in Nat
      /\ scrollback_count <= SCROLLBACK_LINES /\ SCROLLBACK_LINES \in Nat \ {0}
  BY LineType, TerminalAssumption DEF TerminalTypeOK, Lines
<1>2. CASE logical_row < scrollback_count
  BY <1>1, <1>2 DEF Appended, scrollback_count
<1>3. CASE ~(logical_row < scrollback_count) /\ scrollback_count < SCROLLBACK_LINES
  <2>1. Appended = Append(scrollback, BlankLine)
    BY <1>3 DEF Appended
  <2>2. QED BY <1>1, <1>3, <2>1, BlankType DEF scrollback_count
<1>4. CASE ~(logical_row < scrollback_count) /\ ~(scrollback_count < SCROLLBACK_LINES)
  <2>1. Appended = Append(Tail(scrollback), BlankLine)
    BY <1>4 DEF Appended
  <2>2. scrollback_count = SCROLLBACK_LINES
    BY <1>1, <1>4
  <2>3. scrollback # <<>>
    BY <1>1, <2>2 DEF scrollback_count
  <2>4. Tail(scrollback) \in Seq(Lines) /\ Len(Tail(scrollback)) = scrollback_count - 1
    BY <1>1, <2>3 DEF scrollback_count
  <2>5. Appended \in Seq(Lines) /\ Len(Appended) = Len(Tail(scrollback)) + 1
    BY <2>1, <2>4, BlankType
  <2>6. QED BY <1>1, <2>2, <2>4, <2>5
<1>5. QED BY <1>2, <1>3, <1>4, Zenon

-----------------------------------------------------------------------------
(***************************************************************************)
(* Every step keeps the invariant.                                         *)
(***************************************************************************)
\* terminal_initialize establishes the invariant.
LEMMA InitInv == TerminalInit => RowInv
<1> SUFFICES ASSUME TerminalInit PROVE RowInv
  OBVIOUS
<1>1. scrollback \in Seq(Lines) /\ Len(scrollback) = 1
  BY BlankType DEF TerminalInit
<1>2. TerminalTypeOK
  <2>1. 0 \in Columns /\ 0 \in ScreenRows /\ 1 <= SCROLLBACK_LINES
    BY TerminalAssumption DEF Columns, ScreenRows
  <2>2. vga \in [ScreenRows -> Lines]
    BY BlankType DEF TerminalInit
  <2>3. QED BY <1>1, <2>1, <2>2, Zenon DEF TerminalInit, TerminalTypeOK, scrollback_count, Lines, PCs
<1>3. RowKnown
  BY <1>1 DEF TerminalInit, RowKnown, scrollback_count
<1>4. ViewKnown
  BY DEF TerminalInit, ViewKnown, ViewportSound
<1>5. QED BY <1>2, <1>3, <1>4 DEF RowInv

\* What terminal_putchar stores before it draws keeps the invariant.
LEMMA WriteRows == RowInv /\ Write => RowInv'
<1> SUFFICES ASSUME RowInv, Write PROVE RowInv'
  OBVIOUS
<1> USE TerminalAssumption
<1>1. /\ TerminalTypeOK /\ writer = "idle" /\ logical_row \in Nat /\ logical_col \in Columns
      /\ scrollback \in Seq(Lines) /\ scrollback_count \in Nat
      /\ logical_row < scrollback_count \/ scrollback_count = SCROLLBACK_LINES
      /\ viewport_top = 0 \/ viewport_top + VGA_HEIGHT <= scrollback_count
      /\ ~(viewport_top = 0 /\ scroll_locked)
      /\ viewport_top \in Nat /\ scrollback_count <= SCROLLBACK_LINES
  BY LineType, Zenon DEF RowInv, TerminalTypeOK, RowKnown, ViewKnown, ViewportSound, Clearing, Lines, Write, PutNewline,
     PutReturn, PutBackspace, PutTab, PutPrintable, Clear
\* It is enough that the lines keep their number and the next step is one of putchar.
<1>2. ASSUME scrollback' \in Seq(Lines), Len(scrollback') = scrollback_count,
             logical_row' \in Nat, logical_col' \in Columns,
             drawing' \in {"full", "char", "wrap"},
             writer' \in {"test", "grow", "overrun"},
             writer' = "test" => (logical_row' <= logical_row),
             writer' = "grow" => logical_row' = logical_row + 1,
             UNCHANGED <<view, screen, render, damaged>>
      PROVE  RowInv'
  <2>1. TerminalTypeOK'
    BY <1>1, <1>2, Zenon DEF TerminalTypeOK, Lines, PCs, view, screen, render, scrollback_count
  <2>2. RowKnown'
    <3>1. CASE writer' = "test"
      <4>1. logical_row' < scrollback_count \/ scrollback_count = SCROLLBACK_LINES
        BY <1>1, <1>2, <3>1
      <4>2. QED BY <1>2, <3>1, <4>1, Zenon DEF RowKnown, scrollback_count
    <3>2. CASE writer' = "grow"
      <4>1. logical_row' <= scrollback_count \/ scrollback_count = SCROLLBACK_LINES
        BY <1>1, <1>2, <3>2
      <4>2. QED BY <1>2, <3>2, <4>1, Zenon DEF RowKnown, scrollback_count
    <3>3. CASE writer' = "overrun"
      BY <3>3 DEF RowKnown
    <3>4. QED BY <1>2, <3>1, <3>2, <3>3
  <2>3. ViewKnown'
    BY <1>1, <1>2, Zenon DEF ViewKnown, ViewportSound, Clearing, scrollback_count, view
  <2>4. QED BY <2>1, <2>2, <2>3 DEF RowInv
<1>3. CASE PutNewline \/ (PutTab /\ NewLine)
  BY <1>1, <1>2, <1>3 DEF PutNewline, NewLine, Columns, scrollback_count
<1>4. CASE PutReturn
  BY <1>1, <1>2, <1>4 DEF PutReturn, Columns, scrollback_count
<1>5. CASE PutBackspace
  <2> DEFINE row == IF logical_col = 0 /\ logical_row > 0 THEN logical_row - 1 ELSE logical_row
             col == IF logical_col > 0 THEN logical_col - 1
                    ELSE IF logical_row > 0 THEN VGA_WIDTH - 1 ELSE 0
             cells == [x \in {col} |-> Space]
  <2>1. row \in Nat /\ row <= logical_row /\ col \in Columns
    BY <1>1 DEF Columns
  <2>2. \A x \in DOMAIN cells : x \in Columns => cells[x] \in Cells
    BY Zenon DEF Cells
  <2>3. /\ logical_row' = row /\ logical_col' = col
        /\ scrollback' = StoredLine(row, cells) \/ scrollback' = scrollback
        /\ writer' \in {"test", "overrun"} /\ drawing' = "full"
        /\ UNCHANGED <<view, screen, render, damaged>>
    BY <1>5 DEF PutBackspace, Then
  <2> HIDE DEF row, col, cells
  <2>4. scrollback' \in Seq(Lines) /\ Len(scrollback') = scrollback_count
    BY <1>1, <2>1, <2>2, <2>3, StoredType DEF scrollback_count
  <2>5. QED BY <1>1, <1>2, <2>1, <2>3, <2>4
<1>6. CASE PutTab /\ ~NewLine
  <2> DEFINE next == ((logical_col + TAB_STOP) \div TAB_STOP) * TAB_STOP
             cells == [x \in logical_col..(next - 1) |-> Space]
  <2>1. /\ next < VGA_WIDTH
        /\ scrollback' = StoredLine(logical_row, cells)
        /\ logical_col' = next /\ logical_row' = logical_row
        /\ writer' \in {"test", "overrun"} /\ drawing' = "full"
        /\ UNCHANGED <<view, screen, render, damaged>>
    BY <1>6 DEF PutTab, Then
  <2>2. \A x \in DOMAIN cells : x \in Columns => cells[x] \in Cells
    BY DEF Cells
  <2>3. next \in Nat
    BY <1>1 DEF Columns
  <2>4. next \in Columns
    BY <2>1, <2>3 DEF Columns
  <2> HIDE DEF next, cells
  <2>5. scrollback' \in Seq(Lines) /\ Len(scrollback') = scrollback_count
    BY <1>1, <2>1, <2>2, StoredType
  <2>6. QED BY <1>1, <1>2, <2>1, <2>4, <2>5
<1>7. ASSUME NEW ch \in Printable, PutPrintable(ch) PROVE RowInv'
  <2> DEFINE cells == [x \in {logical_col} |-> ch]
  <2>1. \A x \in DOMAIN cells : x \in Columns => cells[x] \in Cells
    BY DEF Cells
  <2>2. /\ scrollback' = StoredLine(logical_row, cells)
        /\ UNCHANGED <<view, screen, render, damaged>>
    BY <1>7, Zenon DEF PutPrintable
  <2>3. /\ logical_row' \in Nat /\ logical_col' \in Columns
        /\ writer' \in {"test", "grow", "overrun"}
        /\ writer' = "test" => logical_row' <= logical_row
        /\ writer' = "grow" => logical_row' = logical_row + 1
        /\ drawing' \in {"full", "char", "wrap"}
    BY <1>1, <1>7 DEF PutPrintable, Then, Columns
  <2> HIDE DEF cells
  <2>4. scrollback' \in Seq(Lines) /\ Len(scrollback') = scrollback_count
    BY <1>1, <2>1, <2>2, StoredType
  <2>5. QED BY <1>2, <2>2, <2>3, <2>4
<1>8. CASE Clear
  <2>1. scrollback' \in Seq(Lines) /\ Len(scrollback') = 0
    <3>1. scrollback' = <<>>
      BY <1>8, Zenon DEF Clear
    <3>2. <<>> \in Seq(Lines) /\ Len(<<>>) = 0
      OBVIOUS
    <3> QED
      BY <3>1, <3>2, Zenon
  <2>2. TerminalTypeOK'
    <3>1. 0 \in Columns /\ 0 <= SCROLLBACK_LINES
      BY DEF Columns
    <3>2. QED BY <1>1, <1>8, <2>1, <3>1, Zenon DEF Clear, TerminalTypeOK, Lines, PCs, view, screen, render, scrollback_count
  <2>3. RowKnown'
    BY <1>1, <1>8, <2>1, Zenon DEF Clear, RowKnown, scrollback_count
  <2>4. ViewKnown'
    BY <1>1, <1>8, Zenon DEF Clear, ViewKnown, ViewportSound, Clearing, view
  <2>5. QED BY <2>2, <2>3, <2>4 DEF RowInv
<1>9. QED BY <1>3, <1>4, <1>5, <1>6, <1>7, <1>8, SMTT(30) DEF Write

\* The append and the drawing keep the invariant.
LEMMA DrawInv == RowInv /\ Draw => RowInv'
<1> SUFFICES ASSUME RowInv, Draw PROVE RowInv'
  OBVIOUS
<1>1. /\ TerminalTypeOK /\ scrollback_count \in Nat /\ logical_row \in Nat /\ viewport_top \in Nat
      /\ scrollback \in Seq(Lines) /\ scrollback_count <= SCROLLBACK_LINES
  BY LineType DEF RowInv, TerminalTypeOK, Lines
<1>2. RowKnown /\ ViewKnown
  BY DEF RowInv
\* The steps that only draw.
<1>3. ASSUME UNCHANGED <<text, view>>,
             vga' \in [ScreenRows -> Lines], hw_cursor' \in Nat \X Columns,
             drawing' \in {"full", "char", "wrap"}, start' \in Nat, y' \in ScreenRows,
             damaged' \in BOOLEAN,
             writer \in {"test", "start", "copy", "cursor", "row", "place"},
             writer' \in {"idle", "follow", "start", "copy", "cursor", "row", "place"},
             writer' = "row" => (logical_row < scrollback_count /\ InView(StartOf(0)))
      PROVE  RowInv'
  <2>1. TerminalTypeOK'
    BY <1>1, <1>3, Zenon DEF TerminalTypeOK, Lines, PCs, text, view, scrollback_count
  <2>2. RowKnown'
    BY <1>2, <1>3, Zenon DEF RowKnown, text, scrollback_count, InView, StartOf
  <2>3. ViewKnown'
    BY <1>2, <1>3, Zenon DEF ViewKnown, ViewportSound, Clearing, text, view, scrollback_count
  <2>4. QED BY <2>1, <2>2, <2>3 DEF RowInv
<1>4. CASE Grow
  <2>1. /\ scrollback' \in Seq(Lines) /\ scrollback_count' <= SCROLLBACK_LINES
        /\ scrollback_count' \in Nat /\ scrollback_count' >= scrollback_count
        /\ logical_row' < scrollback_count' \/ scrollback_count' = SCROLLBACK_LINES
    <3>1. logical_row <= scrollback_count \/ scrollback_count = SCROLLBACK_LINES
      BY <1>2, <1>4 DEF Grow, RowKnown
    <3>2. Len(Appended) \in Nat
      BY <1>1, AppendedType
    <3>3. QED BY <1>1, <1>4, <3>1, <3>2, AppendedType, Zenon DEF Grow, scrollback_count
  <2>2. TerminalTypeOK'
    BY <1>1, <1>4, <2>1 DEF Grow, TerminalTypeOK, Lines, PCs, view, screen, render
  <2>3. RowKnown'
    BY <1>4, <2>1 DEF Grow, RowKnown
  <2>4. ViewKnown'
    <3>1. viewport_top' = 0 \/ viewport_top' + VGA_HEIGHT <= scrollback_count'
      BY <1>1, <1>2, <1>4, <2>1, TerminalAssumption DEF Grow, ViewKnown, ViewportSound, Clearing, view
    <3>2. QED BY <1>2, <1>4, <3>1, Zenon DEF Grow, ViewKnown, ViewportSound, Clearing, view
  <2>5. QED BY <2>2, <2>3, <2>4 DEF RowInv
<1>5. CASE TestLock
  <2>1. ASSUME InView(StartOf(0)) PROVE logical_row < scrollback_count
    <3>1. logical_row < scrollback_count \/ scrollback_count = SCROLLBACK_LINES
      BY <1>2, <1>5 DEF TestLock, RowKnown
    <3>2. StartOf(0) \in Nat /\ (scrollback_count >= VGA_HEIGHT => StartOf(0) + VGA_HEIGHT = scrollback_count)
      BY <1>1, StartType
    <3>3. QED BY <1>1, <2>1, <3>1, <3>2, TerminalAssumption DEF InView
  <2>2. vga \in [ScreenRows -> Lines]
    BY <1>1 DEF TerminalTypeOK, Lines
  <2>3. QED BY <1>1, <1>3, <1>5, <2>1, <2>2 DEF TestLock, TerminalTypeOK, screen, render
<1>6. CASE FollowTop \/ FollowUnlock
  <2>1. TerminalTypeOK'
    <3>1. CASE FollowTop
      BY <1>1, <3>1 DEF FollowTop, TerminalTypeOK, PCs, text, screen, render, scrollback_count
    <3>2. CASE FollowUnlock
      BY <1>1, <3>2, Zenon DEF FollowUnlock, TerminalTypeOK, PCs, text, screen, render, scrollback_count
    <3>3. QED BY <1>6, <3>1, <3>2, Zenon
  <2>2. RowKnown'
    BY <1>2, <1>6, Zenon DEF FollowTop, FollowUnlock, RowKnown, text, scrollback_count
  <2>3. ViewKnown'
    BY <1>2, <1>6, Zenon DEF FollowTop, FollowUnlock, ViewKnown, ViewportSound, Clearing, text, scrollback_count
  <2>4. QED BY <2>1, <2>2, <2>3 DEF RowInv
<1>7. CASE RenderStart
  <2>1. StartOf(viewport_top) \in Nat /\ 0 \in ScreenRows /\ vga \in [ScreenRows -> Lines]
    <3>1. 0 \in ScreenRows
      BY TerminalAssumption DEF ScreenRows
    <3>2. QED BY <1>1, <3>1, StartType, Zenon DEF TerminalTypeOK, Lines
  <2>2. damaged' \in BOOLEAN
    BY <1>7 DEF RenderStart
  <2>3. QED BY <1>1, <1>3, <1>7, <2>1, <2>2 DEF RenderStart, TerminalTypeOK, screen
<1>8. CASE RenderRow
  <2>1. y \in ScreenRows /\ start \in Nat /\ vga \in [ScreenRows -> Lines]
    BY <1>1 DEF TerminalTypeOK, Lines
  <2>2. vga' \in [ScreenRows -> Lines]
    BY <1>1, <1>8, <2>1, RowType DEF RenderRow
  <2>3. y' \in ScreenRows
    BY <1>8, <2>1, TerminalAssumption DEF RenderRow, ScreenRows
  <2>4. QED BY <1>1, <1>3, <1>8, <2>1, <2>2, <2>3, Zenon DEF RenderRow, TerminalTypeOK
<1>9. CASE RenderCursor
  <2>1. hw_cursor' \in Nat \X Columns /\ vga \in [ScreenRows -> Lines]
    BY <1>1, <1>9, CursorType, Zenon DEF RenderCursor, TerminalTypeOK, Lines
  <2>2. QED BY <1>1, <1>3, <1>9, <2>1, Zenon DEF RenderCursor, TerminalTypeOK
<1>10. CASE UpdateRow
  <2>1. Line(logical_row) \in Lines /\ vga \in [ScreenRows -> Lines]
    BY <1>1, <1>2, <1>10, LineType DEF UpdateRow, RowKnown, TerminalTypeOK, Lines
  <2>2. vga' \in [ScreenRows -> Lines]
    BY <1>10, <2>1, Zenon DEF UpdateRow
  <2>3. damaged' \in BOOLEAN
    BY <1>10, Zenon DEF UpdateRow
  <2>4. QED BY <1>1, <1>3, <1>10, <2>2, <2>3, Zenon DEF UpdateRow, TerminalTypeOK, render
<1>11. CASE PlaceCursor
  <2>1. StartOf(0) \in Nat
    BY <1>1, StartType, Zenon
  <2>2. hw_cursor' \in Nat \X Columns
    BY <1>1, <1>11, <2>1, TerminalAssumption DEF PlaceCursor, TerminalTypeOK
  <2>3. vga \in [ScreenRows -> Lines]
    BY <1>1 DEF TerminalTypeOK, Lines
  <2>4. QED BY <1>1, <1>3, <1>11, <2>2, <2>3 DEF PlaceCursor, TerminalTypeOK, render
<1>12. CASE ClearTop
  <2>1. TerminalTypeOK'
    BY <1>1, <1>12, Zenon DEF ClearTop, TerminalTypeOK, PCs, text, screen, render, scrollback_count
  <2>2. RowKnown'
    BY <1>2, <1>12, Zenon DEF ClearTop, RowKnown, text, scrollback_count
  <2>3. ViewKnown'
    BY <1>2, <1>12, Zenon DEF ClearTop, ViewKnown, ViewportSound, Clearing
  <2>4. QED BY <2>1, <2>2, <2>3 DEF RowInv
<1>13. CASE ClearLock
  <2>1. scrollback' \in Seq(Lines) /\ Len(scrollback') = 1 /\ 1 <= SCROLLBACK_LINES
    <3>1. scrollback' = <<BlankLine>> /\ BlankLine \in Lines
      BY <1>13, BlankType, Zenon DEF ClearLock
    <3>2. 1 <= SCROLLBACK_LINES
      BY TerminalAssumption
    <3>3. QED BY <3>1, <3>2
  <2>2. TerminalTypeOK'
    BY <1>1, <1>13, <2>1, Zenon DEF ClearLock, TerminalTypeOK, Lines, PCs, screen, render, scrollback_count
  <2>3. RowKnown'
    BY <1>2, <1>13, <2>1, Zenon DEF ClearLock, RowKnown, scrollback_count
  <2>4. ViewKnown'
    BY <1>2, <1>13, Zenon DEF ClearLock, ViewKnown, ViewportSound, Clearing
  <2>5. QED BY <2>2, <2>3, <2>4 DEF RowInv
<1>14. CASE ClearScreen
  <2>1. 0 \in Columns
    BY TerminalAssumption, SMTT(30) DEF Columns
  <2>2. TerminalTypeOK'
    BY <1>1, <1>14, <2>1, BlankType, Zenon DEF ClearScreen, TerminalTypeOK, Lines, PCs, text, view, render, scrollback_count
  <2>3. RowKnown'
    <3>1. scrollback_count' = 1 /\ logical_row' = 0
      BY <1>2, <1>14, Zenon DEF ClearScreen, RowKnown, text, scrollback_count
    <3>2. logical_row' < scrollback_count'
      BY <3>1
    <3>3. writer' = "idle"
      BY <1>14, Zenon DEF ClearScreen
    <3>4. QED BY <3>2, <3>3 DEF RowKnown
  <2>4. ViewKnown'
    BY <1>2, <1>14, Zenon DEF ClearScreen, ViewKnown, ViewportSound, Clearing, text, view, scrollback_count
  <2>5. QED BY <2>2, <2>3, <2>4 DEF RowInv
<1>15. QED BY <1>4, <1>5, <1>6, <1>7, <1>8, <1>9, <1>10, <1>11, <1>12, <1>13, <1>14, Zenon DEF Draw

\* A page key, wherever it interrupts the writer, keeps the invariant.
LEMMA ShowInv ==
    ASSUME RowInv, NEW top \in Nat, ShowFrom(top),
           top = 0 \/ top + VGA_HEIGHT <= scrollback_count \/ writer = "clear top",
           writer \in {"clear lock", "clear screen"} => top = 0
    PROVE  RowInv'
<1>1. TerminalTypeOK /\ RowKnown /\ ViewKnown
  BY Zenon DEF RowInv
<1>2. StartOf(top) \in Nat /\ vga' \in [ScreenRows -> Lines] /\ hw_cursor' \in Nat \X Columns
  BY <1>1, StartType, ViewType, CursorType, Zenon DEF ShowFrom
<1>3. damaged' \in BOOLEAN /\ scroll_locked' \in BOOLEAN
  <2>1. scroll_locked' \in BOOLEAN
    BY Zenon DEF ShowFrom
  <2>2. damaged' \in BOOLEAN
    BY ZenonT(30) DEF ShowFrom, Drawing
  <2>3. QED BY <2>1, <2>2, Zenon
<1>4. TerminalTypeOK'
  BY <1>1, <1>2, <1>3, ZenonT(30) DEF ShowFrom, TerminalTypeOK, Lines, text, render, scrollback_count
<1>5. RowKnown'
  BY <1>1, Zenon DEF ShowFrom, RowKnown, text, scrollback_count, InView, StartOf
<1>6. ViewKnown'
  <2>1. /\ viewport_top' = top
        /\ scrollback_count' = scrollback_count /\ writer' = writer
    BY Zenon DEF ShowFrom, text, scrollback_count
  <2>2. ~(viewport_top' = 0 /\ scroll_locked')
    <3>1. scroll_locked' <=> top # 0
      BY Zenon DEF ShowFrom
    <3>2. QED BY <2>1, <3>1, Zenon
  <2>3. QED BY <1>1, <2>1, <2>2, Zenon DEF ViewKnown, ViewportSound, Clearing
<1>7. QED BY <1>4, <1>5, <1>6, Zenon DEF RowInv

\* Page up is capped at the oldest line; page down goes towards the live view.
LEMMA PageInv ==
    RowInv /\ (terminal_scrollback_page_up \/ terminal_scrollback_page_down) => RowInv'
<1> SUFFICES ASSUME RowInv, terminal_scrollback_page_up \/ terminal_scrollback_page_down PROVE RowInv'
  OBVIOUS
<1>1. /\ TerminalTypeOK /\ RowKnown /\ ViewKnown
      /\ scrollback_count \in Nat /\ viewport_top \in Nat /\ VGA_HEIGHT \in Nat \ {0}
  BY LineType, TerminalAssumption DEF RowInv, TerminalTypeOK
<1>2. CASE terminal_scrollback_page_up
  <2> DEFINE max_top == scrollback_count - VGA_HEIGHT
             top == IF viewport_top + VGA_HEIGHT <= max_top
                    THEN viewport_top + VGA_HEIGHT ELSE max_top
  <2>1. scrollback_count > VGA_HEIGHT /\ ShowFrom(top)
    BY <1>2 DEF terminal_scrollback_page_up
  <2>2. top \in Nat /\ top + VGA_HEIGHT <= scrollback_count
    BY <1>1, <2>1
  <2>3. writer \notin {"clear lock", "clear screen"}
    <3>1. scrollback_count # 0 /\ scrollback_count # 1
      BY <1>1, <2>1
    <3>2. QED BY <1>1, <3>1, Zenon DEF RowKnown
  <2> HIDE DEF top
  <2>4. QED BY <2>1, <2>2, <2>3, ShowInv, Zenon
<1>3. CASE terminal_scrollback_page_down
  <2> DEFINE top == IF viewport_top > VGA_HEIGHT THEN viewport_top - VGA_HEIGHT ELSE 0
  <2>1. viewport_top # 0 /\ ShowFrom(top)
    BY <1>3 DEF terminal_scrollback_page_down
  <2>2. writer \notin {"clear lock", "clear screen"}
    BY <1>1, <2>1, Zenon DEF ViewKnown
  <2>3. viewport_top + VGA_HEIGHT <= scrollback_count \/ writer = "clear top"
    BY <1>1, <2>1, <2>2, Zenon DEF ViewKnown, ViewportSound, Clearing
  <2>4. top \in Nat /\ top <= viewport_top
    BY <1>1
  <2> HIDE DEF top
  <2>5. ASSUME viewport_top + VGA_HEIGHT <= scrollback_count
        PROVE  top + VGA_HEIGHT <= scrollback_count
    <3>1. scrollback_count \in Nat /\ viewport_top \in Nat /\ VGA_HEIGHT \in Nat
      BY <1>1, Zenon
    <3>2. QED BY <2>4, <2>5, <3>1
  <2>6. QED BY <2>1, <2>2, <2>3, <2>4, <2>5, ShowInv, Zenon
<1>4. QED BY <1>2, <1>3

-----------------------------------------------------------------------------
(***************************************************************************)
(* Every step keeps what is known of the screen.                           *)
(***************************************************************************)
\* Storing cells in one line leaves the others alone.
LEMMA StoredRows ==
    ASSUME TerminalTypeOK, logical_row < scrollback_count, NEW cells, NEW i \in Nat,
           i < scrollback_count, i # logical_row,
           \A x \in DOMAIN cells : x \in Columns => cells[x] \in Cells
    PROVE  StoredLine(logical_row, cells)[i + 1] = Line(i)
<1> DEFINE line == [x \in Columns |->
                      IF x \in DOMAIN cells THEN cells[x] ELSE scrollback[logical_row + 1][x]]
<1>1. scrollback \in Seq(Lines) /\ scrollback_count \in Nat /\ logical_row \in Nat
  BY LineType DEF TerminalTypeOK, Lines
<1>2. logical_row + 1 \in 1..Len(scrollback) /\ i + 1 \in 1..Len(scrollback)
      /\ i + 1 # logical_row + 1
  BY <1>1 DEF scrollback_count
<1>3. scrollback[logical_row + 1] \in Lines
  BY <1>1, LineType, Zenon DEF Line
<1>4. line \in Lines
  BY <1>3, Zenon DEF Lines
<1>5. StoredLine(logical_row, cells) = [scrollback EXCEPT ![logical_row + 1] = line]
  BY Zenon DEF StoredLine
<1> HIDE DEF line
<1>6. QED BY <1>1, <1>2, <1>4, <1>5 DEF Line

\* After terminal_initialize the screen is the view.
LEMMA InitScreen == TerminalInit => ScreenKnown
<1> SUFFICES ASSUME TerminalInit PROVE ScreenKnown
  OBVIOUS
<1>1. StartOf(0) = 0 /\ scrollback_count = 1 /\ Line(0) = BlankLine
  BY TerminalAssumption DEF TerminalInit, StartOf, scrollback_count, Line
<1>2. Whole(0)
  BY <1>1, TerminalAssumption DEF TerminalInit, Whole, BlankScreen, RowFrom, ScreenRows
<1>3. CursorAt(0)
  BY <1>1 DEF TerminalInit, CursorAt
<1>4. QED BY <1>2, <1>3 DEF TerminalInit, ScreenKnown, Clearing

\* A stored character leaves every row but its own as it is drawn.
LEMMA WriteScreen == RowInv /\ ScreenKnown /\ Write => ScreenKnown'
<1> SUFFICES ASSUME RowInv, ScreenKnown, Write PROVE ScreenKnown'
  OBVIOUS
<1>1. CASE PutNewline \/ PutReturn \/ PutBackspace \/ PutTab \/ Clear
  <2>1. \/ writer' \in {"test", "grow", "overrun"} /\ drawing' = "full"
        \/ writer' = "clear top" /\ logical_col' = 0
    BY <1>1, Zenon DEF PutNewline, NewLine, PutReturn, PutBackspace, PutTab, Clear, Then
  <2>2. QED BY <2>1, ZenonT(30) DEF ScreenKnown, Clearing
<1>2. ASSUME NEW ch \in Printable, PutPrintable(ch) PROVE ScreenKnown'
  <2> DEFINE cells == [x \in {logical_col} |-> ch]
  <2>1. /\ writer = "idle" /\ scrollback' = StoredLine(logical_row, cells)
        /\ UNCHANGED <<view, screen, render, damaged>>
    BY <1>2 DEF PutPrintable
  <2>2. \/ writer' = "overrun"
        \/ writer' = "grow" /\ drawing' = "wrap"
        \/ writer' = "test" /\ drawing' = "char" /\ logical_row' = logical_row /\ logical_row < scrollback_count
    BY <1>2, SMTT(30) DEF PutPrintable, Then
  <2>3. CASE writer' # "test"
    BY <2>2, <2>3, Zenon DEF ScreenKnown, Clearing
  <2>4. CASE writer' = "test"
    <3>1. drawing' = "char" /\ logical_row' = logical_row /\ logical_row < scrollback_count
      BY <2>2, <2>4, Zenon
    <3>2. SUFFICES ASSUME ~damaged, viewport_top = 0, ~scroll_locked PROVE OtherRows'
      BY <2>1, <2>4, Zenon DEF ScreenKnown, Clearing, view
    <3>3. Whole(0)
      BY <2>1, <3>2 DEF ScreenKnown
    <3>4. \A x \in DOMAIN cells : x \in Columns => cells[x] \in Cells
      BY Zenon DEF Cells
    <3>5. TerminalTypeOK /\ logical_row \in Nat
      BY DEF RowInv, TerminalTypeOK
    <3> HIDE DEF cells
    <3>6. scrollback_count' = scrollback_count /\ scrollback_count \in Nat
      BY <2>1, <3>4, <3>5, StoredType, LineType, Zenon DEF scrollback_count
    <3>7. StartOf(0)' = StartOf(0) /\ StartOf(0) \in Nat
      BY <3>5, <3>6, StartType, Zenon DEF StartOf
    <3>8. ASSUME NEW r \in ScreenRows, StartOf(0) + r # logical_row
          PROVE  RowFrom(StartOf(0), r)' = RowFrom(StartOf(0), r)
      <4>1. StartOf(0) + r \in Nat
        BY <3>7, TerminalAssumption DEF ScreenRows
      <4>2. CASE StartOf(0) + r < scrollback_count
        <5>1. scrollback'[StartOf(0) + r + 1] = Line(StartOf(0) + r)
          BY <2>1, <3>1, <3>4, <3>5, <3>8, <4>1, <4>2, StoredRows, Zenon
        <5>2. QED BY <3>6, <3>7, <4>2, <5>1, Zenon DEF RowFrom, Line
      <4>3. CASE ~(StartOf(0) + r < scrollback_count)
        BY <3>6, <3>7, <4>3, Zenon DEF RowFrom
      <4>4. QED BY <4>2, <4>3
    <3>9. QED BY <2>1, <3>1, <3>3, <3>7, <3>8 DEF OtherRows, Whole, screen
  <2>5. QED BY <2>3, <2>4, Zenon
<1>3. QED BY <1>1, <1>2 DEF Write

\* The views do not depend on anything but the text.
LEMMA SameText ==
    ASSUME UNCHANGED text
    PROVE  /\ scrollback_count' = scrollback_count
           /\ \A top \in Nat : StartOf(top)' = StartOf(top)
           /\ \A s, r : RowFrom(s, r)' = RowFrom(s, r)
           /\ \A s : InView(s)' <=> InView(s)
BY DEF text, scrollback_count, StartOf, RowFrom, Line, InView

\* Each drawing step adds the row or the cursor that it draws.
LEMMA DrawScreen == RowInv /\ ScreenKnown /\ Draw => ScreenKnown'
<1> SUFFICES ASSUME RowInv, ScreenKnown, Draw PROVE ScreenKnown'
  OBVIOUS
<1>1. /\ TerminalTypeOK /\ RowKnown /\ ViewKnown /\ viewport_top \in Nat /\ logical_row \in Nat
      /\ scrollback_count \in Nat /\ y \in ScreenRows /\ start \in Nat
  BY LineType, SMTT(30) DEF RowInv, TerminalTypeOK
<1>2. CASE Grow \/ FollowTop \/ FollowUnlock
  BY <1>2, Zenon DEF Grow, FollowTop, FollowUnlock, ScreenKnown, Clearing
<1>3. CASE TestLock
  <2>1. UNCHANGED <<text, view, screen, render, damaged>>
    BY <1>3 DEF TestLock
  <2>2. \/ writer' = "start" /\ (drawing' # "full" => ~scroll_locked)
        \/ writer' = "follow"
        \/ writer' = "row" /\ drawing' = drawing /\ drawing # "full" /\ ~scroll_locked
    BY <1>3, SMTT(30) DEF TestLock
  <2>3. CASE writer' # "row"
    BY <2>1, <2>2, <2>3, Zenon DEF ScreenKnown, Clearing, view
  <2>4. CASE writer' = "row"
    <3>1. drawing' = drawing /\ drawing # "full" /\ ~scroll_locked /\ writer = "test"
      BY <1>3, <2>2, <2>4, Zenon DEF TestLock
    <3>2. OtherRows => OtherRows'
      BY <2>1, SameText, SMTT(30) DEF OtherRows, screen, text
    <3>3. QED BY <2>1, <2>4, <3>1, <3>2, Zenon DEF ScreenKnown, Clearing, view
  <2>5. QED BY <2>3, <2>4
<1>4. CASE RenderStart
  <2>1. /\ writer = "start" /\ writer' = "copy" /\ drawing' = drawing /\ UNCHANGED <<text, view>>
        /\ start' = StartOf(viewport_top) /\ y' = 0
    BY <1>4 DEF RenderStart
  <2>2. ~damaged' /\ drawing # "full" => ~damaged
    BY <1>4, Zenon DEF RenderStart
  <2>3. start' = StartOf(viewport_top)' /\ scroll_locked' = scroll_locked
    BY <1>1, <2>1, SameText DEF view
  <2>4. \A r \in ScreenRows : ~(r < 0)
    BY TerminalAssumption DEF ScreenRows
  <2>5. QED BY <2>1, <2>2, <2>3, <2>4, Zenon DEF ScreenKnown, Clearing
<1>5. CASE RenderRow
  <2>1. /\ writer = "copy" /\ UNCHANGED <<text, view, start, drawing, damaged>>
        /\ vga' = [vga EXCEPT ![y] = RowFrom(start, y)]
        /\ y' = IF y + 1 = VGA_HEIGHT THEN 0 ELSE y + 1
        /\ writer' = IF y + 1 = VGA_HEIGHT THEN "cursor" ELSE "copy"
    BY <1>5, SMTT(30) DEF RenderRow
  <2>2. SUFFICES ASSUME ~damaged
                 PROVE  /\ start' = StartOf(viewport_top)'
                        /\ writer' = "copy" => \A r \in ScreenRows : r < y' => vga'[r] = RowFrom(start, r)'
                        /\ writer' = "cursor" => Whole(viewport_top)'
    BY <2>1, Zenon DEF ScreenKnown, Clearing, view
  <2>3. start = StartOf(viewport_top) /\ \A r \in ScreenRows : r < y => vga[r] = RowFrom(start, r)
    BY <2>1, <2>2, Zenon DEF ScreenKnown
  <2>4. start' = StartOf(viewport_top)' /\ \A r : RowFrom(start, r)' = RowFrom(start, r)
    BY <1>1, <2>1, <2>3, SameText DEF view
  <2>5. vga \in [ScreenRows -> Lines]
    BY <1>1, Zenon DEF TerminalTypeOK, Lines
  <2>6. \A r \in ScreenRows : r < y + 1 => vga'[r] = RowFrom(start, r)
    BY <1>1, <2>1, <2>3, <2>5, TerminalAssumption DEF ScreenRows
  <2>7. writer' = "copy" => \A r \in ScreenRows : r < y' => vga'[r] = RowFrom(start, r)'
    BY <2>1, <2>4, <2>6
  <2>8. ASSUME writer' = "cursor" PROVE Whole(viewport_top)'
    <3>1. y + 1 = VGA_HEIGHT
      BY <2>1, <2>8
    <3>2. \A r \in ScreenRows : r < y + 1
      BY <3>1, TerminalAssumption DEF ScreenRows
    <3>3. QED BY <2>4, <2>6, <3>2 DEF Whole
  <2>9. QED BY <2>4, <2>7, <2>8, Zenon
<1>6. CASE RenderCursor
  <2>1. /\ writer = "cursor" /\ UNCHANGED <<text, view, vga, drawing, damaged>>
        /\ hw_cursor' = CursorFrom(start)
        /\ writer' = IF drawing = "full" THEN "idle" ELSE "place"
    BY <1>6, SMTT(30) DEF RenderCursor
  <2>2. SUFFICES ASSUME ~damaged PROVE Whole(viewport_top)' /\ CursorAt(viewport_top)'
    BY <2>1, Zenon DEF ScreenKnown, Clearing, view
  <2>3. start = StartOf(viewport_top) /\ Whole(viewport_top)
    BY <2>1, <2>2, Zenon DEF ScreenKnown
  <2>4. Whole(viewport_top)'
    BY <1>1, <2>1, <2>3, SameText, Zenon DEF Whole, view
  <2>5. scrollback_count # 0
    BY <1>1, <2>1, TerminalAssumption DEF RowKnown
  <2>6. CursorAt(viewport_top)'
    BY <1>1, <2>1, <2>3, <2>5, SameText, Zenon DEF CursorAt, CursorFrom, view, text
  <2>7. QED BY <2>4, <2>6
<1>7. CASE UpdateRow
  <2>1. /\ writer = "row" /\ writer' = "place" /\ UNCHANGED <<text, view, drawing>>
        /\ vga' = [vga EXCEPT ![logical_row - StartOf(0)] = Line(logical_row)]
    BY <1>7 DEF UpdateRow
  <2>2. ~damaged' => ~damaged /\ drawing # "wrap"
    BY <1>7, ZenonT(30) DEF UpdateRow
  <2>3. drawing \in {"char", "wrap"}
    BY <1>1, <2>1 DEF TerminalTypeOK, ScreenKnown
  <2>4. SUFFICES ASSUME ~damaged, drawing = "char", viewport_top = 0, ~scroll_locked PROVE Whole(0)'
    BY <2>1, <2>2, <2>3, Zenon DEF ScreenKnown, Clearing, view
  <2>5. OtherRows
    BY <2>1, <2>4, Zenon DEF ScreenKnown
  <2>6. logical_row < scrollback_count /\ InView(StartOf(0)) /\ StartOf(0) \in Nat
    BY <1>1, <2>1, StartType DEF RowKnown
  <2>7. vga \in [ScreenRows -> Lines]
    BY <1>1 DEF TerminalTypeOK, Lines
  <2>8. ASSUME NEW r \in ScreenRows PROVE vga'[r] = RowFrom(StartOf(0), r)
    <3>1. CASE StartOf(0) + r = logical_row
      <4>1. r = logical_row - StartOf(0)
        BY <1>1, <2>6, <3>1, TerminalAssumption DEF ScreenRows
      <4>2. RowFrom(StartOf(0), r) = Line(logical_row)
        BY <2>6, <3>1, Zenon DEF RowFrom
      <4>3. QED BY <2>1, <2>7, <4>1, <4>2
    <3>2. CASE StartOf(0) + r # logical_row
      <4>1. r # logical_row - StartOf(0)
        BY <1>1, <2>6, <3>2, TerminalAssumption DEF ScreenRows
      <4>2. QED BY <2>1, <2>5, <2>7, <3>2, <4>1 DEF OtherRows
    <3>3. QED BY <3>1, <3>2, Zenon
  <2>9. QED BY <2>1, <2>8, SameText DEF Whole
<1>8. CASE PlaceCursor
  <2>1. /\ writer = "place" /\ writer' = "idle" /\ UNCHANGED <<text, view, vga, damaged>>
        /\ hw_cursor' = <<IF logical_row >= StartOf(0) THEN logical_row - StartOf(0)
                          ELSE VGA_HEIGHT - 1, logical_col>>
    BY <1>8, Zenon DEF PlaceCursor
  <2>2. SUFFICES ASSUME ~damaged, viewport_top # 0 => scroll_locked
                 PROVE  Whole(viewport_top)' /\ CursorAt(viewport_top)'
    BY <2>1, Zenon DEF ScreenKnown, Clearing, view
  <2>3. viewport_top = 0 /\ Whole(0)
    BY <2>1, <2>2, Zenon DEF ScreenKnown
  <2>4. viewport_top' = 0 /\ Whole(0)'
    BY <2>1, <2>3, SameText, Zenon DEF Whole, view
  <2>5. CursorAt(0)'
    BY <2>1, SameText, SMTT(30) DEF CursorAt, InView, text
  <2>6. QED BY <2>4, <2>5
<1>9. CASE ClearTop \/ ClearLock
  BY <1>9, ZenonT(30) DEF ClearTop, ClearLock, ScreenKnown, Clearing, text
<1>10. CASE ClearScreen
  <2>1. /\ writer = "clear screen" /\ writer' = "idle" /\ UNCHANGED <<text, view>>
        /\ vga' = BlankScreen /\ hw_cursor' = <<0, 0>>
    BY <1>10, ZenonT(30) DEF ClearScreen
  <2>2. /\ viewport_top = 0 /\ scrollback = <<BlankLine>> /\ logical_col = 0 /\ logical_row = 0
        /\ scrollback_count = 1
    BY <1>1, <2>1, Zenon DEF ViewKnown, RowKnown, ScreenKnown, Clearing
  <2>3. StartOf(0) = 0 /\ Line(0) = BlankLine
    BY <2>2, TerminalAssumption DEF StartOf, Line
  <2>4. \A r \in ScreenRows : RowFrom(0, r) = BlankLine
    BY <2>2, <2>3, TerminalAssumption DEF RowFrom, ScreenRows
  <2>5. Whole(0)'
    BY <2>1, <2>3, <2>4, SameText, Zenon DEF Whole, BlankScreen
  <2>6. CursorAt(0)'
    <3>1. StartOf(0)' = 0 /\ logical_row' = 0 /\ logical_col' = 0
      BY <2>1, <2>2, <2>3, SameText, Zenon DEF text
    <3>2. logical_row' - StartOf(0)' = 0
      BY <3>1
    <3>3. QED BY <2>1, <3>1, <3>2, Zenon DEF CursorAt
  <2>7. QED BY <2>1, <2>2, <2>5, <2>6, Zenon DEF ScreenKnown, Clearing, view
<1>11. QED BY <1>2, <1>3, <1>4, <1>5, <1>6, <1>7, <1>8, <1>9, <1>10, Zenon DEF Draw

\* A page key draws its whole view, and marks what it interrupted as damaged.
LEMMA PageScreen ==
    RowInv /\ ScreenKnown /\ (terminal_scrollback_page_up \/ terminal_scrollback_page_down)
        => ScreenKnown'
<1> SUFFICES ASSUME RowInv, ScreenKnown, terminal_scrollback_page_up \/ terminal_scrollback_page_down
             PROVE  ScreenKnown'
  OBVIOUS
<1>0. PICK top \in Nat : ShowFrom(top)
  <2>1. viewport_top \in Nat /\ scrollback_count \in Nat /\ VGA_HEIGHT \in Nat
    <3>1. TerminalTypeOK /\ viewport_top \in Nat
      BY DEF RowInv, TerminalTypeOK
    <3>2. QED BY <3>1, LineType, TerminalAssumption, Zenon
  <2>2. ASSUME terminal_scrollback_page_up PROVE \E top \in Nat : ShowFrom(top)
    <3>1. scrollback_count - VGA_HEIGHT \in Nat /\ viewport_top + VGA_HEIGHT \in Nat
      BY <2>1, <2>2 DEF terminal_scrollback_page_up
    <3>2. QED BY <2>2, <3>1 DEF terminal_scrollback_page_up
  <2>3. ASSUME terminal_scrollback_page_down PROVE \E top \in Nat : ShowFrom(top)
    <3>1. viewport_top > VGA_HEIGHT => viewport_top - VGA_HEIGHT \in Nat
      BY <2>1
    <3>2. QED BY <2>3, <3>1 DEF terminal_scrollback_page_down
  <2>4. QED BY <2>2, <2>3
<1>1. TerminalTypeOK /\ RowKnown /\ scrollback_count \in Nat /\ logical_row \in Nat
  BY LineType DEF RowInv, TerminalTypeOK
<1>2. /\ UNCHANGED <<text, render, writer, drawing>> /\ viewport_top' = top
      /\ vga' = ViewOf(top) /\ hw_cursor' = CursorFrom(StartOf(top))
  BY <1>0 DEF ShowFrom
<1>3. damaged' <=> Drawing
  BY <1>0, Zenon DEF ShowFrom
<1>4. Whole(top)'
  BY <1>2, SameText, SMTT(30) DEF Whole, ViewOf
<1>5. CASE writer \in {"copy", "cursor", "row", "place"}
  BY <1>2, <1>3, <1>5, ZenonT(30) DEF ScreenKnown, Clearing, Drawing
<1>6. CASE writer = "start"
  BY <1>2, <1>3, <1>6, SMTT(30) DEF ScreenKnown, Clearing, Drawing
<1>7. CASE writer = "idle"
  <2>1. scrollback_count # 0
    BY <1>1, <1>7, TerminalAssumption DEF RowKnown
  <2>2. CursorAt(top)'
    BY <1>2, <2>1, SameText, Zenon DEF CursorAt, CursorFrom, text
  <2>3. QED BY <1>2, <1>4, <1>7, <2>2, Zenon DEF ScreenKnown, Clearing
<1>8. CASE writer = "test"
  <2>1. top = 0 => OtherRows'
    BY <1>4, SMTT(30) DEF OtherRows, Whole
  <2>2. QED BY <1>2, <1>8, <2>1, Zenon DEF ScreenKnown, Clearing
<1>9. CASE writer \notin {"copy", "cursor", "row", "place", "start", "idle", "test"}
  BY <1>2, <1>9, Zenon DEF ScreenKnown, Clearing, text
<1>10. QED BY <1>5, <1>6, <1>7, <1>8, <1>9

-----------------------------------------------------------------------------
\* The invariant holds in every behaviour of the terminal.
THEOREM RowInvariance == TerminalSpec => [](RowInv /\ ScreenKnown)
<1>1. TerminalInit => RowInv /\ ScreenKnown
  BY InitInv, InitScreen
<1>2. RowInv /\ ScreenKnown /\ [TerminalNext]_terminal_vars => (RowInv /\ ScreenKnown)'
  <2>1. ASSUME RowInv, ScreenKnown, UNCHANGED terminal_vars PROVE (RowInv /\ ScreenKnown)'
    <3>1. UNCHANGED text
      BY <2>1, SMTT(30) DEF terminal_vars
    <3>2. RowInv'
      BY <2>1, ZenonT(30) DEF terminal_vars, text, view, screen, render, RowInv, TerminalTypeOK, RowKnown, ViewKnown, ViewportSound,
                  Clearing, scrollback_count, InView, StartOf
    <3>3. ScreenKnown'
      BY <2>1, ZenonT(30) DEF terminal_vars, text, view, screen, render, ScreenKnown, Whole, CursorAt, OtherRows,
                  Clearing, scrollback_count, InView, StartOf, RowFrom, Line
    <3>4. QED BY <3>2, <3>3
  <2>2. QED BY <2>1, WriteRows, DrawInv, PageInv, WriteScreen, DrawScreen, PageScreen DEF TerminalNext
<1>3. QED BY <1>1, <1>2, PTL DEF TerminalSpec

\* Lines stay whole, the buffer keeps its bound, and the render never leaves
\* the screen.
THEOREM TerminalTypes == TerminalSpec => []TerminalTypeOK
<1>1. RowInv => TerminalTypeOK
  BY DEF RowInv
<1>2. QED BY <1>1, RowInvariance, PTL

\* The view never reaches above the oldest line and the live view is never
\* locked, wherever the page keys interrupt the writer.
THEOREM ViewportAlwaysSound == TerminalSpec => []ViewportSound
<1>1. RowInv => ViewportSound
  BY Zenon DEF RowInv, ViewKnown
<1>2. QED BY <1>1, RowInvariance, PTL

\* Until the buffer is full the cursor's row is a stored line, so that no
\* character is stored outside the buffer.
THEOREM RowAlwaysStored == TerminalSpec => []RowStored
<1>1. RowInv => RowStored
  BY DEF RowInv, RowKnown, RowStored
<1>2. QED BY <1>1, RowInvariance, PTL

\* Between two operations the screen is the viewport's part of the scrollback.
THEOREM ScreenAlwaysMatches == TerminalSpec => []ScreenMatches
<1>1. RowInv /\ ScreenKnown => ScreenMatches
  <2> SUFFICES ASSUME RowInv, ScreenKnown, writer = "idle", ~damaged, viewport_top > 0 => scroll_locked
               PROVE  vga = ViewOf(viewport_top) /\ CursorAt(viewport_top)
    BY DEF ScreenMatches, CursorAt
  <2>1. viewport_top \in Nat /\ vga \in [ScreenRows -> Lines]
    BY DEF RowInv, TerminalTypeOK, Lines
  <2>2. viewport_top # 0 => scroll_locked
    BY <2>1
  <2>3. Whole(viewport_top) /\ CursorAt(viewport_top)
    BY <2>2 DEF ScreenKnown
  <2>4. vga = ViewOf(viewport_top)
    BY <2>1, <2>3 DEF Whole, ViewOf
  <2>5. QED BY <2>3, <2>4, Zenon
<1>2. QED BY <1>1, RowInvariance, PTL
=============================================================================
