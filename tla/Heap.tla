-------------------------------- MODULE Heap --------------------------------
(***************************************************************************)
(* The kernel heap (mm/heap.c) over the pages of the physical allocator,   *)
(* which other clients use too.                                            *)
(*                                                                         *)
(* Addresses and sizes count words of four bytes: a block header is four   *)
(* words, sizes are rounded to two, and the word in front of a large       *)
(* allocation holds its size.  Page f is the words f * PAGE_SIZE and up.   *)
(* Calls of the heap do not overlap; the other clients' pmm_alloc_block    *)
(* and pmm_free_block fall between the pages of a large allocation.        *)
(***************************************************************************)
EXTENDS Integers, Sequences, FiniteSetsExt

CONSTANTS
    PAGE_SIZE,             \* words of a page
    Frames,                \* the pages the physical allocator may hand out
    HEAP_INITIAL_PAGES,
    HEAP_MAX_PAGES,
    Sizes,                 \* the sizes asked for
    MaxLive                \* allocations alive at a time

HeaderSize == 4
MIN_BLOCK_SIZE == HeaderSize + 2

ASSUME HeapAssumption ==
    /\ PAGE_SIZE \in Nat /\ PAGE_SIZE % 4 = 0 /\ PAGE_SIZE >= 2 * MIN_BLOCK_SIZE
    /\ Frames \subseteq Nat /\ IsFiniteSet(Frames)
    /\ HEAP_INITIAL_PAGES \in Nat
    /\ HEAP_INITIAL_PAGES <= Cardinality(Frames)
    /\ HEAP_INITIAL_PAGES <= HEAP_MAX_PAGES
    /\ HEAP_MAX_PAGES \in Nat
    /\ Sizes \subseteq Nat \ {0}
    /\ MaxLive \in Nat

VARIABLES
    free_list,     \* heap.free_list: [at, size] of its blocks, in list order
    used,          \* the allocated small blocks, [at, size]
    large,         \* the large allocations, [page, pages] as their headers say
    heap_pages,    \* heap.pages
    pmm_free,      \* pages the physical allocator has
    others,        \* pages other clients have
    pc,            \* "idle", or "large" inside the page loop of kmalloc
    first_page,    \* its locals, 0 outside it
    taken,
    pages_needed,
    fragmented     \* history: a large allocation got pages that do not adjoin

blocks == <<free_list, used, heap_pages>>
loop == <<first_page, taken, pages_needed>>
heap_vars == <<blocks, loop, large, pmm_free, others, pc, fragmented>>

align_size(size) == ((size + 1) \div 2) * 2
total_size(size) == HeaderSize + align_size(size)

Block(at, size) == [at |-> at, size |-> size]
End(b) == b.at + HeaderSize + b.size

\* The block of a fresh heap page.
PageBlock(f) == Block(f * PAGE_SIZE, PAGE_SIZE - HeaderSize)

\* pmm_alloc_block: the scan of the bitmap finds the lowest free page.
LowestFree == Min(pmm_free)

-----------------------------------------------------------------------------
\* pmm_alloc_block, called again and again by heap_init, hands out the lowest pages
\* in ascending order.
LowestFirst(pages) ==
    \A i \in DOMAIN pages :
        /\ \A j \in 1..(i - 1) : pages[j] < pages[i]
        /\ \A f \in Frames : f < pages[i] => \E j \in 1..(i - 1) : pages[j] = f

\* heap_init: each page goes to the front of the list.
HeapInit ==
    /\ \E pages \in [1..HEAP_INITIAL_PAGES -> Frames] :
           /\ LowestFirst(pages)
           /\ heap_pages = Range(pages)
           /\ free_list = [i \in 1..HEAP_INITIAL_PAGES |->
                              PageBlock(pages[HEAP_INITIAL_PAGES - i + 1])]
           /\ pmm_free = Frames \ Range(pages)
    /\ used = {}
    /\ large = {}
    /\ others = {}
    /\ pc = "idle" /\ first_page = 0 /\ taken = 0 /\ pages_needed = 0
    /\ fragmented = FALSE

-----------------------------------------------------------------------------
(***************************************************************************)
(* kmalloc.                                                                *)
(***************************************************************************)
\* Memory written through a large allocation with foreign pages inside it is
\* anybody's: the model ends there.
Idle == pc = "idle" /\ ~fragmented
CanAllocate == Cardinality(used) + Cardinality(large) < MaxLive

\* MUTANT: the remainder is not reduced by its own header.
SplitHeaderless(b, size) ==
    LET wanted == align_size(size)
    IN IF b.size - wanted >= MIN_BLOCK_SIZE
       THEN <<Block(b.at, wanted), Block(b.at + HeaderSize + wanted, b.size - wanted)>>
       ELSE <<b>>

\* split_block(b, align_size(size)): the block and the remainder, if any.
Split(b, size) ==
    LET wanted == align_size(size)
        remaining == b.size - wanted
    IN IF remaining >= MIN_BLOCK_SIZE
       THEN <<Block(b.at, wanted),
              Block(b.at + HeaderSize + wanted, remaining - HeaderSize)>>
       ELSE <<b>>

\* The first block of the list that fits is split; the remainder stays in its
\* place in the list.
TakeFirstFit(list, size) ==
    LET i == Min({k \in DOMAIN list : list[k].size >= size})
        parts == Split(list[i], size)
    IN /\ used' = used \union {Head(parts)}
       /\ free_list' = SubSeq(list, 1, i - 1) \o Tail(parts) \o SubSeq(list, i + 1, Len(list))

Fits(size) == \E k \in DOMAIN free_list : free_list[k].size >= size

\* A small allocation, with heap_grow when nothing fits.
SmallAlloc(size) ==
    /\ Idle /\ CanAllocate
    /\ total_size(size) < PAGE_SIZE \div 2
    /\ \/ /\ Fits(size)
          /\ TakeFirstFit(free_list, size)
          /\ UNCHANGED <<heap_pages, pmm_free>>
       \/ /\ ~Fits(size)
          /\ Cardinality(heap_pages) < HEAP_MAX_PAGES
          /\ pmm_free # {}
          /\ heap_pages' = heap_pages \union {LowestFree}
          /\ pmm_free' = pmm_free \ {LowestFree}
          /\ TakeFirstFit(<<PageBlock(LowestFree)>> \o free_list, size)
    /\ UNCHANGED <<large, others, pc, loop, fragmented>>

\* A large allocation takes its first page.
LargeBegin(size) ==
    /\ Idle /\ CanAllocate
    /\ total_size(size) >= PAGE_SIZE \div 2
    /\ pmm_free # {}
    /\ first_page' = LowestFree
    /\ pmm_free' = pmm_free \ {LowestFree}
    /\ pages_needed' = (total_size(size) + PAGE_SIZE - 1) \div PAGE_SIZE
    /\ taken' = 1
    /\ pc' = "large"
    /\ UNCHANGED <<blocks, large, others, fragmented>>

LoopDone ==
    /\ pc' = "idle" /\ first_page' = 0 /\ taken' = 0 /\ pages_needed' = 0

\* One more page; where it lies is looked at and ignored.
LargePage ==
    /\ pc = "large"
    /\ taken < pages_needed
    /\ pmm_free # {}
    /\ pmm_free' = pmm_free \ {LowestFree}
    /\ taken' = taken + 1
    /\ fragmented' = (fragmented \/ LowestFree # first_page + taken)
    /\ UNCHANGED <<blocks, large, others, pc, first_page, pages_needed>>

\* MUTANT: the first page is kept when a later one is missing.
LargeFailKeepsFirst ==
    /\ pc = "large"
    /\ taken < pages_needed
    /\ pmm_free = {}
    /\ pmm_free' = pmm_free \union ((first_page + 1)..(first_page + taken - 1))
    /\ LoopDone
    /\ UNCHANGED <<blocks, large, others, fragmented>>

\* No page left: the pages that should have been given are given back.
LargeFail ==
    /\ pc = "large"
    /\ taken < pages_needed
    /\ pmm_free = {}
    /\ pmm_free' = pmm_free \union (first_page..(first_page + taken - 1))
    /\ LoopDone
    /\ UNCHANGED <<blocks, large, others, fragmented>>

LargeEnd ==
    /\ pc = "large"
    /\ taken = pages_needed
    /\ large' = large \union {[page |-> first_page, pages |-> pages_needed]}
    /\ LoopDone
    /\ UNCHANGED <<blocks, pmm_free, others, fragmented>>

-----------------------------------------------------------------------------
(***************************************************************************)
(* kfree.  It is given the pointer kmalloc returned.                       *)
(***************************************************************************)
SmallPointer(b) == b.at + HeaderSize
LargePointer(l) == l.page * PAGE_SIZE + 1

\* MUTANT: the size word is looked for where a block header starts.
LooksLargeByBlock(ptr) == (ptr - HeaderSize) % PAGE_SIZE = 0

\* "if the address is page-aligned, assume it's a large allocation".
LooksLarge(ptr) == (ptr - 1) % PAGE_SIZE = 0

\* A block joins the one in front of it in the list if it is right behind that in
\* memory.
Absorb(list, b) ==
    LET last == list[Len(list)]
        grown == Block(last.at, last.size + HeaderSize + b.size)
    IN IF list # <<>> /\ End(last) = b.at THEN [list EXCEPT ![Len(list)] = grown]
       ELSE Append(list, b)

\* merge_blocks: a block takes in its successor in the list, again and again.
merge_blocks(list) ==
    LET merged[k \in 0..Len(list)] ==
            IF k = 0 THEN <<>> ELSE Absorb(merged[k - 1], list[k])
    IN merged[Len(list)]

FreeSmall(b) ==
    /\ Idle
    /\ b \in used
    /\ ~LooksLarge(SmallPointer(b))
    /\ used' = used \ {b}
    /\ free_list' = merge_blocks(<<b>> \o free_list)
    /\ UNCHANGED <<heap_pages, large, pmm_free, others, pc, loop, fragmented>>

FreeLarge(l) ==
    /\ Idle
    /\ l \in large
    /\ LooksLarge(LargePointer(l))
    /\ large' = large \ {l}
    /\ pmm_free' = pmm_free \union (l.page..(l.page + l.pages - 1))
    /\ UNCHANGED <<blocks, others, pc, loop, fragmented>>

-----------------------------------------------------------------------------
(***************************************************************************)
(* The other clients of the physical allocator.                            *)
(***************************************************************************)
OtherAlloc ==
    /\ ~fragmented
    /\ pmm_free # {}
    /\ others' = others \union {LowestFree}
    /\ pmm_free' = pmm_free \ {LowestFree}
    /\ UNCHANGED <<blocks, large, pc, loop, fragmented>>

OtherFree(f) ==
    /\ ~fragmented
    /\ f \in others
    /\ others' = others \ {f}
    /\ pmm_free' = pmm_free \union {f}
    /\ UNCHANGED <<blocks, large, pc, loop, fragmented>>

-----------------------------------------------------------------------------
HeapNext ==
    \/ \E size \in Sizes : SmallAlloc(size) \/ LargeBegin(size)
    \/ LargePage
    \/ LargeFail
    \/ LargeEnd
    \/ \E b \in used : FreeSmall(b)
    \/ \E l \in large : FreeLarge(l)
    \/ OtherAlloc
    \/ \E f \in others : OtherFree(f)

HeapSpec == HeapInit /\ [][HeapNext]_heap_vars

-----------------------------------------------------------------------------
AllBlocks == Range(free_list) \union used
Words(b) == b.at..(End(b) - 1)
PageWords(f) == (f * PAGE_SIZE)..(f * PAGE_SIZE + PAGE_SIZE - 1)
LargePages(l) == l.page..(l.page + l.pages - 1)
InLoop == IF pc = "large" THEN first_page..(first_page + taken - 1) ELSE {}

\* The blocks, free and allocated, fill the heap's pages: no word is in two of
\* them and none is lost, and a block is on the free list once or allocated,
\* never both, whatever was split, merged, also across pages, and given out
\* again.
BlocksTileHeap ==
    /\ IsInjective(free_list)
    /\ Range(free_list) \intersect used = {}
    /\ \A b1, b2 \in AllBlocks : b1 # b2 => Words(b1) \intersect Words(b2) = {}
    /\ UNION {Words(b) : b \in AllBlocks} = UNION {PageWords(f) : f \in heap_pages}

\* kfree tells small from large by the address alone.  A merged block spans
\* pages, so a small allocation can start anywhere in one: only the rounding of
\* the sizes keeps its size word off the first word of a page.
KindsDistinct ==
    /\ \A b \in used : ~LooksLarge(SmallPointer(b))
    /\ \A l \in large : LooksLarge(LargePointer(l))

\* As long as the pages of every large allocation adjoined, each page has one
\* owner - heap, large allocation, other client or the allocator itself - and
\* none is lost, also after an allocation that failed half way.
PagesAccounted ==
    ~fragmented =>
        LET owners == <<pmm_free, heap_pages, others, InLoop>>
            big == UNION {LargePages(l) : l \in large}
        IN /\ \A i, j \in DOMAIN owners : i # j => owners[i] \intersect owners[j] = {}
           /\ \A i \in DOMAIN owners : owners[i] \intersect big = {}
           /\ \A l1, l2 \in large : l1 # l2 => LargePages(l1) \intersect LargePages(l2) = {}
           /\ (UNION Range(owners)) \union big = Frames
=============================================================================
