--------------------------- MODULE PageAllocator ---------------------------
(***************************************************************************)
(* What the physical memory manager promises its callers: a page that is   *)
(* handed out was free, and stays with its holder until given back.        *)
(***************************************************************************)
CONSTANTS Pages, Clients

VARIABLES
    free,   \* pages that can be handed out
    held    \* the pages each client holds

Init ==
    /\ free = {}
    /\ held = [c \in Clients |-> {}]

\* Before anyone allocates, memory is released and reserved in regions.
SetRegions ==
    /\ held = [c \in Clients |-> {}]
    /\ free' \in SUBSET Pages
    /\ UNCHANGED held

Alloc(c) == \E p \in free :
    /\ free' = free \ {p}
    /\ held' = [held EXCEPT ![c] = @ \union {p}]

Free(c) == \E p \in held[c] :
    /\ free' = free \union {p}
    /\ held' = [held EXCEPT ![c] = @ \ {p}]

Next == SetRegions \/ \E c \in Clients : Alloc(c) \/ Free(c)

Spec == Init /\ [][Next]_<<free, held>>
=============================================================================
