---------------------------- MODULE BoundedQueue ----------------------------
(***************************************************************************)
(* What the keyboard driver promises the shell: characters come out in the *)
(* order they went in, none twice, at most Capacity are kept.              *)
(***************************************************************************)
EXTENDS Naturals, Sequences

CONSTANTS Values, Capacity, None

VARIABLES
    q,     \* characters typed and not yet read
    last   \* the character read last

Init == q = <<>> /\ last = None

Put == \E v \in Values :
    /\ Len(q) < Capacity
    /\ q' = Append(q, v)
    /\ UNCHANGED last

Get ==
    /\ q # <<>>
    /\ last' = Head(q)
    /\ q' = Tail(q)

Spec == Init /\ [][Put \/ Get]_<<q, last>>
=============================================================================
