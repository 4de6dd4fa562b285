-------------------------------- MODULE Pmm --------------------------------
(***************************************************************************)
(* The physical memory manager (mm/pmm.c).  The shell calls it with        *)
(* interrupts on, so a tick may fall between any two of its accesses to    *)
(* the bitmap and the counter; the other clients (system calls and page    *)
(* faults) call it with interrupts off, in one step.                       *)
(*                                                                         *)
(* Nothing is volatile: the compiler may store back the bitmap word and    *)
(* the counter from the value it tested, or load them again.  Both are     *)
(* outcomes of an update here.                                             *)
(***************************************************************************)
EXTENDS Integers, FiniteSets

CONSTANTS
    max_blocks,        \* pages of memory
    WordBits,          \* bits of a bitmap word
    Wrap,              \* modulus of the uint32_t used_blocks
    FreeStart,         \* first page kernel_main releases, to the end of memory
    KernelStart,       \* first page of the kernel image ...
    KernelBlocks,      \* ... and how many it has
    Shell,
    Others             \* clients that run while the shell is preempted

Blocks == 0..(max_blocks - 1)
Clients == {Shell} \union Others

\* Pages kernel_main never releases or takes back.
Reserved == {b \in Blocks : b < FreeStart \/ b \in KernelStart..(KernelStart + KernelBlocks - 1)}

ASSUME PmmAssumption ==
    /\ max_blocks \in Nat
    /\ WordBits \in Nat \ {0}
    /\ Wrap \in Nat /\ Wrap > max_blocks
    /\ FreeStart \in 0..max_blocks
    /\ KernelStart \in Nat
    /\ KernelBlocks \in Nat
    /\ Shell \notin Others

VARIABLES
    pmm_bitmap,    \* blocks whose bit is set (in use)
    used_blocks,
    boot,          \* "init" -> "deinit" -> "up": calls kernel_main has made
    step,          \* where the shell is in the allocator
    index,         \* its loop index, or the block it frees
    seen,          \* the bits it tested: the word of block index
    count,         \* the counter it tested
    owned,         \* blocks each client received and has not given back
    preempted      \* history: another client came in between two accesses of the shell

vars == <<pmm_bitmap, used_blocks, boot, step, index, seen, count, owned, preempted>>

-----------------------------------------------------------------------------
\* pmm_init: everything in use.
Init ==
    /\ pmm_bitmap = Blocks
    /\ used_blocks = max_blocks
    /\ boot = "init"
    /\ step = "idle"
    /\ index = 0
    /\ seen = {} /\ count = 0
    /\ owned = [c \in Clients |-> {}]
    /\ preempted = FALSE

Region(start, length) == {b \in start..(start + length - 1) : b < max_blocks}

\* Every set bit of the region is cleared and counted.
pmm_init_region(start, length) ==
    LET cleared == Region(start, length) \intersect pmm_bitmap
    IN /\ pmm_bitmap' = pmm_bitmap \ cleared
       /\ used_blocks' = (used_blocks - Cardinality(cleared)) % Wrap

\* MUTANT: one block of the region is left out.
DeinitRegionShort(start, length) ==
    LET marked == Region(start, length - 1) \ pmm_bitmap
    IN /\ pmm_bitmap' = pmm_bitmap \union marked
       /\ used_blocks' = (used_blocks + Cardinality(marked)) % Wrap

\* Every clear bit of the region is set and counted.
pmm_deinit_region(start, length) ==
    LET marked == Region(start, length) \ pmm_bitmap
    IN /\ pmm_bitmap' = pmm_bitmap \union marked
       /\ used_blocks' = (used_blocks + Cardinality(marked)) % Wrap

\* kernel_main releases the memory above 1 MB and reserves its own image.
FreeMemory ==
    /\ boot = "init"
    /\ pmm_init_region(FreeStart, max_blocks - FreeStart)
    /\ boot' = "deinit"
    /\ UNCHANGED <<step, index, seen, count, owned>>

ReserveKernel ==
    /\ boot = "deinit"
    /\ pmm_deinit_region(KernelStart, KernelBlocks)
    /\ boot' = "up"
    /\ UNCHANGED <<step, index, seen, count, owned>>

-----------------------------------------------------------------------------
(***************************************************************************)
(* pmm_alloc_block and pmm_free_block as the shell executes them.          *)
(***************************************************************************)
\* The blocks whose bits are in the same uint32_t as that of b.
Word(b) == {d \in Blocks : d \div WordBits = b \div WordBits}

\* MUTANT: the counter is not looked at.
AllocStartUnchecked ==
    /\ boot = "up" /\ step = "idle"
    /\ step' = "test"
    /\ index' = 0
    /\ count' = used_blocks
    /\ UNCHANGED <<pmm_bitmap, used_blocks, boot, seen, owned>>

\* An allocation that finds the counter at its limit returns 0 at once.
AllocStart ==
    /\ boot = "up" /\ step = "idle"
    /\ used_blocks < max_blocks
    /\ step' = "test"
    /\ index' = 0
    /\ count' = used_blocks
    /\ UNCHANGED <<pmm_bitmap, used_blocks, boot, seen, owned>>

\* The loop condition and bitmap_test; running off the end returns 0.
AllocTest ==
    /\ step = "test"
    /\ \/ index >= max_blocks /\ step' = "idle" /\ UNCHANGED <<index, seen>>
       \/ index < max_blocks /\ index \in pmm_bitmap /\ index' = index + 1 /\ UNCHANGED <<step, seen>>
       \/ /\ index < max_blocks /\ index \notin pmm_bitmap
          /\ step' = "set" /\ seen' = pmm_bitmap \intersect Word(index)
          /\ UNCHANGED index
    /\ UNCHANGED <<pmm_bitmap, used_blocks, boot, count, owned>>

\* MUTANT: the bit is not set.
AllocSetForgotten ==
    /\ step = "set"
    /\ step' = "inc"
    /\ UNCHANGED <<pmm_bitmap, used_blocks, boot, index, seen, count, owned>>

\* bitmap_set and bitmap_unset rewrite the whole word.
StoreWord(bits) == pmm_bitmap' = (pmm_bitmap \ Word(index)) \union bits

AllocSet ==
    /\ step = "set"
    /\ \E bits \in {seen, pmm_bitmap \intersect Word(index)} : StoreWord(bits \union {index})
    /\ step' = "inc"
    /\ UNCHANGED <<used_blocks, boot, index, seen, count, owned>>

\* used_blocks++ and the return of the address.
AllocCount ==
    /\ step = "inc"
    /\ \E n \in {count, used_blocks} : used_blocks' = (n + 1) % Wrap
    /\ owned' = [owned EXCEPT ![Shell] = @ \union {index}]
    /\ step' = "idle"
    /\ UNCHANGED <<pmm_bitmap, boot, index, seen, count>>

\* The bound and bitmap_test of pmm_free_block; a clear bit is left alone.
FreeTest(b) ==
    /\ boot = "up" /\ step = "idle"
    /\ b \in owned[Shell]
    /\ owned' = [owned EXCEPT ![Shell] = @ \ {b}]
    /\ \/ /\ b \in pmm_bitmap
          /\ step' = "unset" /\ index' = b /\ seen' = pmm_bitmap \intersect Word(b)
       \/ b \notin pmm_bitmap /\ UNCHANGED <<step, index, seen>>
    /\ UNCHANGED <<pmm_bitmap, used_blocks, boot, count>>

FreeUnset ==
    /\ step = "unset"
    /\ \E bits \in {seen, pmm_bitmap \intersect Word(index)} : StoreWord(bits \ {index})
    /\ step' = "dec"
    /\ UNCHANGED <<used_blocks, boot, index, seen, count, owned>>

\* MUTANT: the counter is not taken down.
FreeCountForgotten ==
    /\ step = "dec"
    /\ step' = "idle"
    /\ UNCHANGED <<pmm_bitmap, used_blocks, boot, index, seen, count, owned>>

FreeCount ==
    /\ step = "dec"
    /\ used_blocks' = (used_blocks - 1) % Wrap
    /\ step' = "idle"
    /\ UNCHANGED <<pmm_bitmap, boot, index, seen, count, owned>>

-----------------------------------------------------------------------------
(***************************************************************************)
(* The same two functions with interrupts off.                             *)
(***************************************************************************)
\* The block the scan finds: the first whose bit is clear.
FirstFree(b) == b \in Blocks \ pmm_bitmap /\ \A d \in Blocks \ pmm_bitmap : b <= d

pmm_alloc_block(c) ==
    /\ boot = "up"
    /\ used_blocks < max_blocks
    /\ \E b \in Blocks :
          /\ FirstFree(b)
          /\ pmm_bitmap' = pmm_bitmap \union {b}
          /\ used_blocks' = (used_blocks + 1) % Wrap
          /\ owned' = [owned EXCEPT ![c] = @ \union {b}]
    /\ UNCHANGED <<boot, step, index, seen, count>>

pmm_free_block(c, b) ==
    /\ b \in owned[c]
    /\ owned' = [owned EXCEPT ![c] = @ \ {b}]
    /\ \/ /\ b \in pmm_bitmap
          /\ pmm_bitmap' = pmm_bitmap \ {b}
          /\ used_blocks' = (used_blocks - 1) % Wrap
       \/ b \notin pmm_bitmap /\ UNCHANGED <<pmm_bitmap, used_blocks>>
    /\ UNCHANGED <<boot, step, index, seen, count>>

ShellStep ==
    \/ AllocStart \/ AllocTest \/ AllocSet \/ AllocCount
    \/ \E b \in Blocks : FreeTest(b)
    \/ FreeUnset \/ FreeCount

OtherStep == \E c \in Others : pmm_alloc_block(c) \/ \E b \in Blocks : pmm_free_block(c, b)

Next ==
    \/ (FreeMemory \/ ReserveKernel \/ ShellStep) /\ UNCHANGED preempted
    \/ OtherStep /\ preempted' = (preempted \/ step # "idle")

Spec == Init /\ [][Next]_vars

-----------------------------------------------------------------------------
\* The counter stays between zero and the number of pages, the scan in bounds, as
\* long as the allocator is not preempted.
TypeOK ==
    /\ pmm_bitmap \in SUBSET Blocks
    /\ used_blocks \in 0..max_blocks
    /\ boot \in {"init", "deinit", "up"}
    /\ step \in {"idle", "test", "set", "inc", "unset", "dec"}
    /\ index \in 0..max_blocks
    /\ seen \in SUBSET Blocks
    /\ count \in 0..max_blocks
    /\ owned \in [Clients -> SUBSET Blocks]

\* Low memory and the kernel image are never handed out or freed, even when
\* an allocation is interrupted by another.
ReservedKept ==
    boot = "up" =>
        /\ Reserved \subseteq pmm_bitmap
        /\ \A c \in Clients : owned[c] \intersect Reserved = {}

\* The counter behind pmm_get_free_blocks agrees with the bitmap, up to the
\* update that the allocator is in the middle of, until the shell is preempted
\* in the allocator by another client of it.
Counted ==
    used_blocks + (IF step = "inc" THEN 1 ELSE 0) - (IF step = "dec" THEN 1 ELSE 0)
        = Cardinality(pmm_bitmap)
UsedMatchesBits == ~preempted => Counted

\* pmm_alloc_block does not fail while a page is free: once the counter let
\* it in, its scan finds a clear bit, until the shell is preempted in it.
BitAhead == step = "test" => \E b \in Blocks : b >= index /\ b \notin pmm_bitmap
ScanFinds == ~preempted => BitAhead

\* A page is allocated to one client at a time, and its bit stays set.  That ends
\* with a preemption in the allocator: Pmm_race.cfg shows it.
PagesNotShared ==
    /\ \A c, d \in Clients : c # d => owned[c] \intersect owned[d] = {}
    /\ \A c \in Clients : owned[c] \subseteq pmm_bitmap

\* Until the shell is preempted in it the bitmap implements the page allocator: a
\* block being freed belongs to the shell until its bit is cleared, one being
\* allocated from the moment its bit is set.
Held == [c \in Clients |->
            IF c = Shell /\ step \in {"inc", "unset"} THEN owned[c] \union {index} ELSE owned[c]]

Allocator == INSTANCE PageAllocator
                 WITH Pages <- Blocks, free <- Blocks \ pmm_bitmap, held <- Held

ImplementsAllocator ==
    Allocator!Init /\ [][preempted' \/ Allocator!Next]_<<Blocks \ pmm_bitmap, Held>>
=============================================================================
