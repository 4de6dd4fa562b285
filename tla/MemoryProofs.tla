---------------------------- MODULE MemoryProofs ----------------------------
(***************************************************************************)
(* Proofs about memory: Heap for any page size, set of pages, limits and   *)
(* sizes asked for; Pmm for any amount of memory and any kernel image.     *)
(***************************************************************************)
EXTENDS Heap, Pmm, FiniteSetTheorems, TLAPS

-----------------------------------------------------------------------------
(***************************************************************************)
(* Induction over the natural numbers in the form the provers can use: the *)
(* predicate is the set of the numbers it holds of.                        *)
(***************************************************************************)
\* A set of natural numbers that is not empty has a least element.
LEMMA LeastNumber ==
  ASSUME NEW T, T \subseteq Nat, T # {}
  PROVE  \E x \in T : \A y \in T : x <= y
<1> DEFINE R == OpToRel(<, Nat)
<1>1. IsWellFoundedOn(R, Nat)
  BY NatLessThanWellFounded DEF OpToRel
<1>2. \E x \in T : \A y \in T : ~(<<y, x>> \in R)
  <2> HIDE DEF R
  <2> QED
    BY <1>1, WFMin, Zenon
<1>3. PICK x \in T : \A y \in T : ~(<<y, x>> \in R)
  BY <1>2, Zenon
<1>4. ASSUME NEW y \in T PROVE x <= y
  <2>1. x \in Nat /\ y \in Nat
    OBVIOUS
  <2>2. y < x => <<y, x>> \in R
    BY <2>1 DEF OpToRel
  <2> HIDE DEF R
  <2> QED
    BY <1>3, <2>1, <2>2
<1> QED
  BY <1>4

\* What holds of 0, and of n + 1 whenever it holds of n, holds of every number.
LEMMA Induct ==
  ASSUME NEW S, 0 \in S, \A n \in Nat : n \in S => n + 1 \in S
  PROVE  Nat \subseteq S
<1> DEFINE T == {n \in Nat : n \notin S}
<1>1. SUFFICES ASSUME T # {} PROVE FALSE
  OBVIOUS
<1>2. T \subseteq Nat
  OBVIOUS
<1>3. PICK x \in T : \A y \in T : x <= y
  BY <1>1, <1>2, LeastNumber, Zenon
<1>4. x \in Nat /\ x # 0 /\ x - 1 \in Nat /\ x \notin S /\ x = (x - 1) + 1
  OBVIOUS
<1>5. x - 1 \in T
  BY <1>4
<1> QED
  BY <1>3, <1>4, <1>5

-----------------------------------------------------------------------------
(***************************************************************************)
(* Blocks.  Positions and sizes are even: align_size rounds to two words.  *)
(***************************************************************************)
Even == {n \in Nat : n % 2 = 0}
BlockType == [at : Even, size : Even]
Apart(b, c) == End(b) <= c.at \/ End(c) <= b.at

\* The blocks of a list and of a set u fill the words W, and no word twice.
Tiles(list, u, W) ==
    /\ list \in Seq(BlockType) /\ u \subseteq BlockType
    /\ \A i, j \in 1..Len(list) : i # j => Apart(list[i], list[j])
    /\ \A i \in 1..Len(list) : \A b \in u : Apart(list[i], b)
    /\ \A b, c \in u : b # c => Apart(b, c)
    /\ \A x : x \in W <=> \/ \E i \in 1..Len(list) : x \in Words(list[i])
                          \/ \E b \in u : x \in Words(b)

LEMMA Constants ==
  /\ PAGE_SIZE \in Nat /\ PAGE_SIZE % 2 = 0 /\ PAGE_SIZE % 4 = 0 /\ PAGE_SIZE >= 12
  /\ Frames \subseteq Nat /\ HEAP_INITIAL_PAGES \in Nat /\ Sizes \subseteq Nat \ {0}
<1>1. /\ PAGE_SIZE \in Nat /\ PAGE_SIZE % 4 = 0 /\ PAGE_SIZE >= 2 * MIN_BLOCK_SIZE
      /\ Frames \subseteq Nat /\ HEAP_INITIAL_PAGES \in Nat /\ Sizes \subseteq Nat \ {0}
  BY HeapAssumption, Zenon
<1> QED
  BY <1>1 DEF MIN_BLOCK_SIZE, HeaderSize

LEMMA BlockFacts ==
  ASSUME NEW b \in BlockType
  PROVE  /\ b.at \in Nat /\ b.size \in Nat /\ b.at % 2 = 0 /\ b.size % 2 = 0
         /\ End(b) = b.at + 4 + b.size /\ End(b) \in Nat
         /\ \A x : x \in Words(b) <=> x \in Nat /\ b.at <= x /\ x < End(b)
  BY DEF BlockType, Even, End, HeaderSize, Words

LEMMA NewBlock ==
  ASSUME NEW at \in Even, NEW size \in Even
  PROVE  /\ Block(at, size) \in BlockType
         /\ Block(at, size).at = at /\ Block(at, size).size = size
  BY DEF Block, BlockType

\* split_block always finds room for what it takes off: sizes are even.
LEMMA SplitParts ==
  ASSUME NEW b \in BlockType, NEW size \in Nat \ {0}, b.size >= size
  PROVE  \/ Split(b, size) = <<b>>
         \/ \E c, d \in BlockType : /\ Split(b, size) = <<c, d>>
                               /\ c.at = b.at /\ End(c) = d.at /\ End(d) = End(b)
<1> DEFINE wanted == align_size(size)
           c == Block(b.at, wanted)
           d == Block(b.at + HeaderSize + wanted, b.size - wanted - HeaderSize)
<1>1. wanted \in Even /\ wanted <= b.size
  BY BlockFacts DEF align_size, Even
<1>2. ASSUME b.size - wanted >= MIN_BLOCK_SIZE
      PROVE  /\ c \in BlockType /\ d \in BlockType
             /\ c.at = b.at /\ End(c) = d.at /\ End(d) = End(b)
  <2> HIDE DEF wanted
  <2>1. /\ b.at \in Even
        /\ b.at + HeaderSize + wanted \in Even /\ b.size - wanted - HeaderSize \in Even
    BY <1>1, <1>2, BlockFacts DEF Even, HeaderSize, MIN_BLOCK_SIZE
  <2>2. /\ c \in BlockType /\ c.at = b.at /\ c.size = wanted
        /\ d \in BlockType /\ d.at = b.at + HeaderSize + wanted
        /\ d.size = b.size - wanted - HeaderSize
    BY <1>1, <2>1, NewBlock
  <2> HIDE DEF c, d
  <2> QED
    BY <1>1, <2>2, BlockFacts DEF HeaderSize, End
<1>3. Split(b, size) = IF b.size - wanted >= MIN_BLOCK_SIZE THEN <<c, d>> ELSE <<b>>
  BY DEF Split
<1> HIDE DEF wanted, c, d
<1> QED
  BY <1>2, <1>3

\* What merge_blocks makes of two blocks.
LEMMA Joined ==
  ASSUME NEW b \in BlockType, NEW c \in BlockType, End(b) = c.at
  PROVE  LET m == Block(b.at, b.size + HeaderSize + c.size)
         IN m \in BlockType /\ m.at = b.at /\ End(m) = End(c)
<1> DEFINE m == Block(b.at, b.size + HeaderSize + c.size)
<1>1. b.at \in Even /\ b.size + HeaderSize + c.size \in Even
  BY BlockFacts DEF Even, HeaderSize
<1>2. m \in BlockType /\ m.at = b.at /\ m.size = b.size + HeaderSize + c.size
  BY <1>1, NewBlock
<1> HIDE DEF m
<1>3. End(m) = End(c)
  BY <1>2, BlockFacts DEF HeaderSize
<1> QED
  BY <1>2, <1>3 DEF m

\* The words of two blocks that adjoin are those of the block that spans both.
LEMMA Adjoining ==
  ASSUME NEW b \in BlockType, NEW c \in BlockType, NEW m \in BlockType,
         End(b) = c.at, m.at = b.at, End(m) = End(c)
  PROVE  /\ Apart(b, c)
         /\ \A x : x \in Words(m) <=> x \in Words(b) \/ x \in Words(c)
         /\ \A a \in BlockType : Apart(a, m) <=> Apart(a, b) /\ Apart(a, c)
         /\ \A a \in BlockType : Apart(m, a) <=> Apart(b, a) /\ Apart(c, a)
<1>1. /\ Apart(b, c)
      /\ \A x : x \in Words(m) <=> x \in Words(b) \/ x \in Words(c)
  BY BlockFacts DEF Apart
<1>2. ASSUME NEW a \in BlockType
      PROVE  /\ Apart(a, m) <=> Apart(a, b) /\ Apart(a, c)
             /\ Apart(m, a) <=> Apart(b, a) /\ Apart(c, a)
  BY BlockFacts DEF Apart
<1> QED
  BY <1>1, <1>2

LEMMA ApartFacts ==
  ASSUME NEW b \in BlockType, NEW c \in BlockType
  PROVE  /\ Apart(b, c) <=> Apart(c, b)
         /\ ~Apart(b, b)
         /\ Apart(b, c) => b # c /\ Words(b) \intersect Words(c) = {}
<1>1. (Apart(b, c) <=> Apart(c, b)) /\ ~Apart(b, b)
  BY BlockFacts DEF Apart
<1>2. Apart(b, c) => Words(b) \intersect Words(c) = {}
  BY BlockFacts DEF Apart
<1> QED
  BY <1>1, <1>2

-----------------------------------------------------------------------------
(***************************************************************************)
(* Lists of blocks.                                                        *)
(***************************************************************************)
\* A part of a list.
LEMMA SubSeqFacts ==
  ASSUME NEW S, NEW seq \in Seq(S), NEW a \in Nat \ {0}, NEW b \in Nat, b <= Len(seq), a <= b + 1
  PROVE  /\ SubSeq(seq, a, b) \in Seq(S) /\ Len(SubSeq(seq, a, b)) = b - a + 1
         /\ \A k \in 1..(b - a + 1) : SubSeq(seq, a, b)[k] = seq[a + k - 1]
<1> DEFINE part == [k \in 1..(b - a + 1) |-> seq[a + k - 1]]
<1>1. SubSeq(seq, a, b) = part
  OBVIOUS
<1>2. b - a + 1 \in Nat /\ \A k \in 1..(b - a + 1) : seq[a + k - 1] \in S
  OBVIOUS
<1>3. part \in Seq(S) /\ Len(part) = b - a + 1
  BY <1>2
<1> QED
  BY <1>1, <1>3, Zenon

LEMMA ConcatFacts ==
  ASSUME NEW S, NEW a \in Seq(S), NEW z \in Seq(S)
  PROVE  /\ a \o z \in Seq(S) /\ Len(a \o z) = Len(a) + Len(z)
         /\ \A k \in 1..(Len(a) + Len(z)) : (a \o z)[k] = IF k <= Len(a) THEN a[k] ELSE z[k - Len(a)]
  OBVIOUS

\* A block of the list is taken off it.
LEMMA TileTake ==
  ASSUME NEW list, NEW u, NEW W, Tiles(list, u, W), NEW i \in 1..Len(list),
         NEW new \in Seq(BlockType), Len(new) = Len(list) - 1,
         \A k \in 1..Len(new) : new[k] = IF k < i THEN list[k] ELSE list[k + 1]
  PROVE  Tiles(new, u \union {list[i]}, W)
<1> DEFINE n == Len(list)
           old(k) == IF k < i THEN k ELSE k + 1
<1>1. n \in Nat /\ i \in 1..n /\ Len(new) = n - 1 /\ list \in Seq(BlockType) /\ u \subseteq BlockType
  BY DEF Tiles
<1>2. \A k \in 1..n : list[k] \in BlockType
  BY <1>1
<1>3. \A k \in 1..Len(new) : old(k) \in 1..n /\ old(k) # i /\ new[k] = list[old(k)]
  BY <1>1
<1>4. \A k, m \in 1..Len(new) : k # m => old(k) # old(m)
  BY <1>1
<1>5. \A k \in 1..n : k = i \/ \E m \in 1..Len(new) : old(m) = k
  <2>1. ASSUME NEW k \in 1..n, k # i PROVE \E m \in 1..Len(new) : old(m) = k
    <3>1. CASE k < i
      <4>1. k \in 1..Len(new) /\ old(k) = k
        BY <1>1, <3>1
      <4> QED
        BY <4>1, Zenon
    <3>2. CASE k > i
      <4>1. k - 1 \in 1..Len(new) /\ old(k - 1) = k
        BY <1>1, <3>2
      <4> QED
        BY <4>1, Zenon
    <3> QED
      BY <1>1, <2>1, <3>1, <3>2
  <2> QED
    BY <2>1, Zenon
<1> HIDE DEF old
<1>6. \A k, m \in 1..Len(new) : k # m => Apart(new[k], new[m])
  BY <1>3, <1>4, Zenon DEF Tiles
<1>7. ASSUME NEW k \in 1..Len(new), NEW b \in u \union {list[i]} PROVE Apart(new[k], b)
  BY <1>3, Zenon DEF Tiles
<1>8. ASSUME NEW b \in u \union {list[i]}, NEW c \in u \union {list[i]}, b # c
      PROVE  Apart(b, c)
  <2>1. CASE b \in u /\ c \in u
    BY <1>8, <2>1, Zenon DEF Tiles
  <2>2. CASE b = list[i] /\ c \in u
    BY <2>2, Zenon DEF Tiles
  <2>3. CASE c = list[i] /\ b \in u
    BY <1>1, <1>2, <2>3, ApartFacts, Zenon DEF Tiles
  <2> QED
    BY <1>8, <2>1, <2>2, <2>3, Zenon
<1>9. ASSUME NEW x
      PROVE  x \in W <=> \/ \E k \in 1..Len(new) : x \in Words(new[k])
                         \/ \E b \in u \union {list[i]} : x \in Words(b)
  <2>1. (\E k \in 1..n : x \in Words(list[k])) <=>
            \/ \E k \in 1..Len(new) : x \in Words(new[k])
            \/ x \in Words(list[i])
    BY <1>1, <1>3, <1>5, Zenon
  <2> QED
    BY <2>1, Zenon DEF Tiles
<1>10. u \union {list[i]} \subseteq BlockType
  BY <1>1, <1>2
<1> QED
  BY <1>6, <1>7, <1>8, <1>9, <1>10, Zenon DEF Tiles

\* A block of the list is split: its first part is taken off the list.
LEMMA TileSplit ==
  ASSUME NEW list, NEW u, NEW W, Tiles(list, u, W), NEW i \in 1..Len(list),
         NEW c \in BlockType, NEW d \in BlockType,
         c.at = list[i].at, End(c) = d.at, End(d) = End(list[i]),
         NEW new \in Seq(BlockType), Len(new) = Len(list),
         \A k \in 1..Len(new) : new[k] = IF k = i THEN d ELSE list[k]
  PROVE  Tiles(new, u \union {c}, W)
<1> DEFINE n == Len(list)
<1>1. n \in Nat /\ list \in Seq(BlockType) /\ u \subseteq BlockType
  BY DEF Tiles
<1>2. \A k \in 1..n : list[k] \in BlockType
  BY <1>1
<1>3. /\ Apart(c, d)
      /\ \A x : x \in Words(list[i]) <=> x \in Words(c) \/ x \in Words(d)
      /\ \A a \in BlockType : Apart(a, list[i]) <=> Apart(a, c) /\ Apart(a, d)
      /\ \A a \in BlockType : Apart(list[i], a) <=> Apart(c, a) /\ Apart(d, a)
  BY <1>2, Adjoining
<1>4. \A k, m \in 1..Len(new) : k # m => Apart(new[k], new[m])
  BY <1>2, <1>3, Zenon DEF Tiles
<1>5. ASSUME NEW k \in 1..Len(new), NEW b \in u \union {c} PROVE Apart(new[k], b)
  <2>1. CASE b \in u
    BY <1>1, <1>3, <2>1, Zenon DEF Tiles
  <2>2. CASE b = c /\ k # i
    BY <1>2, <1>3, <2>2, Zenon DEF Tiles
  <2>3. CASE b = c /\ k = i
    BY <1>3, <2>3, ApartFacts, Zenon
  <2> QED
    BY <2>1, <2>2, <2>3, Zenon
<1>6. ASSUME NEW a \in u \union {c}, NEW b \in u \union {c}, a # b PROVE Apart(a, b)
  <2>1. CASE a \in u /\ b \in u
    BY <1>6, <2>1, Zenon DEF Tiles
  <2>2. CASE a = c /\ b \in u
    BY <1>1, <1>3, <2>2, Zenon DEF Tiles
  <2>3. CASE b = c /\ a \in u
    <3>1. Apart(c, a)
      BY <1>1, <1>3, <2>3, Zenon DEF Tiles
    <3> QED
      BY <1>1, <2>3, <3>1, ApartFacts
  <2> QED
    BY <1>6, <2>1, <2>2, <2>3, Zenon
<1>7. ASSUME NEW x
      PROVE  x \in W <=> \/ \E k \in 1..Len(new) : x \in Words(new[k])
                         \/ \E b \in u \union {c} : x \in Words(b)
  <2>1. (\E k \in 1..n : x \in Words(list[k])) <=>
            \/ \E k \in 1..Len(new) : x \in Words(new[k])
            \/ x \in Words(c)
    BY <1>3, Zenon
  <2> QED
    BY <2>1, Zenon DEF Tiles
<1>8. u \union {c} \subseteq BlockType
  BY <1>1
<1> QED
  BY <1>4, <1>5, <1>6, <1>7, <1>8, Zenon DEF Tiles

\* The list new has the block b at place p, and the other list around it.
Inserted(new, p, b, list, old) ==
    /\ p \in 1..Len(new) /\ new[p] = b
    /\ \A k \in 1..Len(new) : k # p => old[k] \in 1..Len(list) /\ new[k] = list[old[k]]
    /\ \A k, m \in 1..Len(new) : k # p /\ m # p /\ k # m => old[k] # old[m]
    /\ \A m \in 1..Len(list) : \E k \in 1..Len(new) : k # p /\ old[k] = m

\* A block of the set, or a new one, goes on the list, at either end.
LEMMA TilePut ==
  ASSUME NEW list, NEW u, NEW W, NEW V, Tiles(list, u, W), NEW b \in BlockType,
         \A c \in u : Apart(b, c), \A k \in 1..Len(list) : Apart(b, list[k]),
         \A x : x \in V <=> x \in W \/ x \in Words(b),
         NEW new \in Seq(BlockType), Len(new) = Len(list) + 1,
         \/ \A k \in 1..Len(new) : new[k] = IF k = 1 THEN b ELSE list[k - 1]
         \/ \A k \in 1..Len(new) : new[k] = IF k = Len(new) THEN b ELSE list[k]
  PROVE  Tiles(new, u, V)
<1>1. /\ Len(list) \in Nat /\ Len(new) = Len(list) + 1
      /\ list \in Seq(BlockType) /\ u \subseteq BlockType
  BY DEF Tiles
<1>2. \A k \in 1..Len(list) : list[k] \in BlockType
  BY <1>1
<1>3. \E p, old : Inserted(new, p, b, list, old)
  <2>1. CASE \A k \in 1..Len(new) : new[k] = IF k = 1 THEN b ELSE list[k - 1]
    <3> DEFINE p == 1  old == [k \in 1..Len(new) |-> k - 1]
    <3>1. p \in 1..Len(new) /\ new[p] = b
      BY <1>1, <2>1
    <3>2. /\ \A k \in 1..Len(new) : k # p => old[k] \in 1..Len(list) /\ new[k] = list[old[k]]
          /\ \A k, m \in 1..Len(new) : k # p /\ m # p /\ k # m => old[k] # old[m]
      BY <1>1, <2>1
    <3>3. \A m \in 1..Len(list) : m + 1 \in 1..Len(new) /\ m + 1 # p /\ old[m + 1] = m
      BY <1>1
    <3> HIDE DEF p, old
    <3>4. \A m \in 1..Len(list) : \E k \in 1..Len(new) : k # p /\ old[k] = m
      BY <3>3, Zenon
    <3>5. Inserted(new, p, b, list, old)
      BY <3>1, <3>2, <3>4, Zenon DEF Inserted
    <3> QED
      BY <3>5, Zenon
  <2>2. CASE \A k \in 1..Len(new) : new[k] = IF k = Len(new) THEN b ELSE list[k]
    <3> DEFINE p == Len(new)  old == [k \in 1..Len(new) |-> k]
    <3>1. p \in 1..Len(new) /\ new[p] = b
      BY <1>1, <2>2
    <3>2. /\ \A k \in 1..Len(new) : k # p => old[k] \in 1..Len(list) /\ new[k] = list[old[k]]
          /\ \A k, m \in 1..Len(new) : k # p /\ m # p /\ k # m => old[k] # old[m]
      BY <1>1, <2>2
    <3>3. \A m \in 1..Len(list) : m \in 1..Len(new) /\ m # p /\ old[m] = m
      BY <1>1
    <3> HIDE DEF p, old
    <3>4. \A m \in 1..Len(list) : \E k \in 1..Len(new) : k # p /\ old[k] = m
      BY <3>3, Zenon
    <3>5. Inserted(new, p, b, list, old)
      BY <3>1, <3>2, <3>4, Zenon DEF Inserted
    <3> QED
      BY <3>5, Zenon
  <2> QED
    BY <2>1, <2>2
<1>0. PICK p, old : Inserted(new, p, b, list, old)
  BY <1>3, Zenon
<1>4. ASSUME NEW k \in 1..Len(new), NEW m \in 1..Len(new), k # m
      PROVE  Apart(new[k], new[m])
  <2>1. CASE k # p /\ m # p
    <3>1. /\ old[k] \in 1..Len(list) /\ new[k] = list[old[k]]
          /\ old[m] \in 1..Len(list) /\ new[m] = list[old[m]] /\ old[k] # old[m]
      BY <1>0, <1>4, <2>1, Zenon DEF Inserted
    <3> QED
      BY <3>1, Zenon DEF Tiles
  <2>2. CASE k = p /\ m # p
    BY <1>0, <2>2, Zenon DEF Inserted
  <2>3. CASE k # p /\ m = p
    BY <1>0, <1>2, <2>3, ApartFacts, Zenon DEF Inserted
  <2> QED
    BY <1>4, <2>1, <2>2, <2>3, Zenon
<1>5. \A k \in 1..Len(new) : \A c \in u : Apart(new[k], c)
  BY <1>0, Zenon DEF Inserted, Tiles
<1>6. ASSUME NEW x
      PROVE  x \in V <=> \/ \E k \in 1..Len(new) : x \in Words(new[k])
                         \/ \E c \in u : x \in Words(c)
  <2>1. (\E k \in 1..Len(new) : x \in Words(new[k])) <=>
            \/ x \in Words(b)
            \/ \E k \in 1..Len(list) : x \in Words(list[k])
    <3>1. ASSUME NEW k \in 1..Len(new), x \in Words(new[k])
          PROVE  x \in Words(b) \/ \E m \in 1..Len(list) : x \in Words(list[m])
      BY <1>0, <3>1, Zenon DEF Inserted
    <3>2. ASSUME NEW m \in 1..Len(list), x \in Words(list[m])
          PROVE  \E k \in 1..Len(new) : x \in Words(new[k])
      <4>1. PICK k \in 1..Len(new) : k # p /\ old[k] = m
        BY <1>0, Zenon DEF Inserted
      <4>2. new[k] = list[m]
        BY <1>0, <4>1, Zenon DEF Inserted
      <4> QED
        BY <3>2, <4>2, Zenon
    <3>3. x \in Words(b) => \E k \in 1..Len(new) : x \in Words(new[k])
      BY <1>0, Zenon DEF Inserted
    <3> QED
      BY <3>1, <3>2, <3>3, Zenon
  <2> QED
    BY <2>1, Zenon DEF Tiles
<1> QED
  BY <1>1, <1>4, <1>5, <1>6, Zenon DEF Tiles

\* A block of the set u joins the last block of the list, or goes behind it.
LEMMA TileAbsorb ==
  ASSUME NEW list, NEW u, NEW W, Tiles(list, u, W), NEW b \in u
  PROVE  Tiles(Absorb(list, b), u \ {b}, W)
<1> DEFINE n == Len(list)
<1>1. /\ n \in Nat /\ list \in Seq(BlockType) /\ u \subseteq BlockType /\ b \in BlockType
      /\ \A k \in 1..n : list[k] \in BlockType
  BY DEF Tiles
<1>2. /\ \A c \in u \ {b} : Apart(b, c)
      /\ \A k \in 1..n : Apart(b, list[k])
  <2>1. \A k \in 1..n : Apart(list[k], b)
    BY Zenon DEF Tiles
  <2>2. \A c \in u \ {b} : Apart(b, c)
    BY Zenon DEF Tiles
  <2> QED
    BY <1>1, <2>1, <2>2, ApartFacts, Zenon
<1>3. CASE list # <<>> /\ End(list[n]) = b.at
  <2> DEFINE m == Block(list[n].at, list[n].size + HeaderSize + b.size)
             new == [list EXCEPT ![n] = m]
  <2>1. n \in 1..n
    BY <1>1, <1>3
  <2>2. /\ m \in BlockType /\ m.at = list[n].at /\ End(m) = End(b) /\ End(list[n]) = b.at
    BY <1>1, <1>3, <2>1, Joined
  <2>3. Absorb(list, b) = new
    BY <1>3 DEF Absorb
  <2> HIDE DEF m
  <2>4. /\ new \in Seq(BlockType) /\ Len(new) = n
        /\ \A k \in 1..n : new[k] = IF k = n THEN m ELSE list[k]
    BY <1>1, <2>1, <2>2
  <2> HIDE DEF new
  <2>5. /\ \A x : x \in Words(m) <=> x \in Words(list[n]) \/ x \in Words(b)
        /\ \A a \in BlockType : Apart(a, m) <=> Apart(a, list[n]) /\ Apart(a, b)
        /\ \A a \in BlockType : Apart(m, a) <=> Apart(list[n], a) /\ Apart(b, a)
    BY <1>1, <2>1, <2>2, Adjoining
  <2>6. ASSUME NEW i \in 1..n, NEW j \in 1..n, i # j PROVE Apart(new[i], new[j])
    <3>1. Apart(list[i], list[j]) /\ Apart(list[i], b) /\ Apart(b, list[j])
      BY <1>2, <2>6, Zenon DEF Tiles
    <3> QED
      BY <1>1, <2>4, <2>5, <2>6, <3>1, Zenon
  <2>7. ASSUME NEW i \in 1..n, NEW c \in u \ {b} PROVE Apart(new[i], c)
    <3>1. Apart(list[i], c) /\ Apart(b, c) /\ c \in BlockType
      BY <1>1, <1>2, Zenon DEF Tiles
    <3> QED
      BY <2>4, <2>5, <3>1, Zenon
  <2>8. ASSUME NEW x
        PROVE  x \in W <=> \/ \E i \in 1..n : x \in Words(new[i])
                           \/ \E c \in u \ {b} : x \in Words(c)
    <3>1. (\E i \in 1..n : x \in Words(new[i])) <=>
              \/ x \in Words(b)
              \/ \E i \in 1..n : x \in Words(list[i])
      BY <2>1, <2>4, <2>5, Zenon
    <3>2. (\E c \in u : x \in Words(c)) <=> x \in Words(b) \/ \E c \in u \ {b} : x \in Words(c)
      BY Zenon
    <3> QED
      BY <3>1, <3>2, Zenon DEF Tiles
  <2>9. \A c, d \in u \ {b} : c # d => Apart(c, d)
    BY Zenon DEF Tiles
  <2>10. u \ {b} \subseteq BlockType
    BY <1>1
  <2>11. Tiles(new, u \ {b}, W)
    BY <2>4, <2>6, <2>7, <2>8, <2>9, <2>10, Zenon DEF Tiles
  <2> QED
    BY <2>3, <2>11
<1>4. CASE ~(list # <<>> /\ End(list[n]) = b.at)
  <2> DEFINE new == Append(list, b)
             V == {x \in W : x \notin Words(b)}
  <2>1. Absorb(list, b) = new
    BY <1>4 DEF Absorb
  <2>2. /\ new \in Seq(BlockType) /\ Len(new) = n + 1
        /\ \A k \in 1..Len(new) : new[k] = IF k = Len(new) THEN b ELSE list[k]
    BY <1>1
  <2>3. Tiles(list, u \ {b}, V)
    <3>1. \A i \in 1..n : \A c \in u \ {b} : Apart(list[i], c)
      BY Zenon DEF Tiles
    <3>2. \A c, d \in u \ {b} : c # d => Apart(c, d)
      BY Zenon DEF Tiles
    <3>3. u \ {b} \subseteq BlockType
      BY <1>1
    <3>4. ASSUME NEW x
          PROVE  x \in V <=> \/ \E i \in 1..n : x \in Words(list[i])
                             \/ \E c \in u \ {b} : x \in Words(c)
      <4>1. \A i \in 1..n : ~(x \in Words(list[i]) /\ x \in Words(b))
        BY <1>1, <1>2, ApartFacts
      <4>2. \A c \in u \ {b} : ~(x \in Words(c) /\ x \in Words(b))
        BY <1>1, <1>2, ApartFacts
      <4>3. x \in W <=> \/ \E i \in 1..n : x \in Words(list[i])
                        \/ \E c \in u : x \in Words(c)
        BY Zenon DEF Tiles
      <4> QED
        BY <4>1, <4>2, <4>3, Zenon
    <3>5. /\ list \in Seq(BlockType)
          /\ \A i, j \in 1..Len(list) : i # j => Apart(list[i], list[j])
      BY Zenon DEF Tiles
    <3> HIDE DEF V
    <3> QED
      BY <3>1, <3>2, <3>3, <3>4, <3>5, Zenon DEF Tiles
  <2>4. \A x : x \in W <=> x \in V \/ x \in Words(b)
    <3>1. \A x \in Words(b) : x \in W
      BY Zenon DEF Tiles
    <3> QED
      BY <3>1, Zenon
  <2> HIDE DEF new, V
  <2>5. Tiles(new, u \ {b}, W)
    BY <1>1, <1>2, <2>2, <2>3, <2>4, TilePut, Zenon
  <2> QED
    BY <2>1, <2>5
<1> QED
  BY <1>3, <1>4

-----------------------------------------------------------------------------
(***************************************************************************)
(* merge_blocks.                                                           *)
(***************************************************************************)
\* The function f is the loop of merge_blocks over the first n blocks of the list.
Merges(list, n, f) ==
    f = [k \in 0..n |-> IF k = 0 THEN <<>> ELSE Absorb(f[k - 1], list[k])]

LEMMA MergesExists ==
  ASSUME NEW list
  PROVE  \A n \in Nat : \E f : Merges(list, n, f)
<1> DEFINE S == {n \in Nat : \E f : Merges(list, n, f)}
<1>1. 0 \in S
  <2> DEFINE f == [k \in 0..0 |-> <<>>]
  <2>1. Merges(list, 0, f)
    BY DEF Merges
  <2> HIDE DEF f
  <2> QED
    BY <2>1
<1>2. ASSUME NEW n \in Nat, n \in S PROVE n + 1 \in S
  <2>1. PICK f : Merges(list, n, f)
    BY <1>2
  <2> DEFINE g == [k \in 0..(n + 1) |-> IF k = n + 1 THEN Absorb(f[n], list[n + 1]) ELSE f[k]]
  <2>2. /\ \A k \in 0..n : g[k] = f[k]
        /\ g[n + 1] = Absorb(f[n], list[n + 1])
        /\ g = [k \in 0..(n + 1) |-> g[k]]
    OBVIOUS
  <2>3. \A k \in 0..n : f[k] = IF k = 0 THEN <<>> ELSE Absorb(f[k - 1], list[k])
    BY <2>1 DEF Merges
  <2> HIDE DEF g
  <2>4. \A k \in 0..(n + 1) : g[k] = IF k = 0 THEN <<>> ELSE Absorb(g[k - 1], list[k])
    <3>1. ASSUME NEW k \in 0..(n + 1), k # 0, k # n + 1
          PROVE  g[k] = Absorb(g[k - 1], list[k])
      <4>1. k \in 0..n /\ k - 1 \in 0..n
        BY <3>1
      <4>2. f[k] = Absorb(f[k - 1], list[k])
        BY <2>3, <3>1, <4>1, Zenon
      <4> QED
        BY <2>2, <4>1, <4>2, Zenon
    <3>2. g[n + 1] = Absorb(g[(n + 1) - 1], list[n + 1]) /\ n + 1 # 0
      <4>1. (n + 1) - 1 = n /\ n \in 0..n /\ n + 1 # 0
        OBVIOUS
      <4> QED
        BY <2>2, <4>1, Zenon
    <3>3. g[0] = <<>>
      <4>1. 0 \in 0..n
        OBVIOUS
      <4> QED
        BY <2>2, <2>3, <4>1, Zenon
    <3> QED
      BY <3>1, <3>2, <3>3, Zenon
  <2>5. Merges(list, n + 1, g)
    BY <2>2, <2>4, Zenon DEF Merges
  <2> QED
    BY <2>5
<1> HIDE DEF S
<1>3. Nat \subseteq S
  BY <1>1, <1>2, Induct
<1> QED
  BY <1>3, Zenon DEF S

\* merge_blocks loses no word and duplicates none, whatever the order of the list.
LEMMA MergeTiles ==
  ASSUME NEW list, NEW u, NEW W, Tiles(list, u, W)
  PROVE  Tiles(merge_blocks(list), u, W)
<1> DEFINE n == Len(list)
           Rest(k) == u \union {list[j] : j \in (k + 1)..n}
           f == CHOOSE g : Merges(list, n, g)
           S == {k \in Nat : k <= n => Tiles(f[k], Rest(k), W)}
<1>1. /\ n \in Nat /\ list \in Seq(BlockType) /\ u \subseteq BlockType
      /\ \A k \in 1..n : list[k] \in BlockType
  BY DEF Tiles
<1>2. Merges(list, n, f)
  BY <1>1, MergesExists
<1>3. merge_blocks(list) = f[n]
  BY DEF merge_blocks, Merges
<1> HIDE DEF f
<1>4. \A k \in 0..n : f[k] = IF k = 0 THEN <<>> ELSE Absorb(f[k - 1], list[k])
  BY <1>2 DEF Merges
<1>5. 0 \in S
  <2>1. f[0] = <<>> /\ Len(<<>>) = 0 /\ <<>> \in Seq(BlockType)
    BY <1>1, <1>4
  <2>2. Rest(0) = u \union {list[j] : j \in 1..n} /\ Rest(0) \subseteq BlockType
    BY <1>1
  <2>3. ASSUME NEW b \in Rest(0), NEW c \in Rest(0), b # c PROVE Apart(b, c)
    <3>1. CASE b \in u /\ c \in u
      BY <2>3, <3>1, Zenon DEF Tiles
    <3>2. ASSUME b \in u, c \notin u PROVE Apart(b, c)
      <4>1. PICK j \in 1..n : c = list[j]
        BY <2>2, <3>2, Zenon
      <4>2. Apart(list[j], b)
        BY <3>2, Zenon DEF Tiles
      <4> QED
        BY <1>1, <3>2, <4>1, <4>2, ApartFacts
    <3>3. ASSUME b \notin u, c \in u PROVE Apart(b, c)
      <4>1. PICK j \in 1..n : b = list[j]
        BY <2>2, <3>3, Zenon
      <4> QED
        BY <3>3, <4>1, Zenon DEF Tiles
    <3>4. ASSUME b \notin u, c \notin u PROVE Apart(b, c)
      <4>1. PICK i \in 1..n : b = list[i]
        BY <2>2, <3>4, Zenon
      <4>2. PICK j \in 1..n : c = list[j]
        BY <2>2, <3>4, Zenon
      <4> QED
        BY <2>3, <4>1, <4>2, Zenon DEF Tiles
    <3> QED
      BY <3>1, <3>2, <3>3, <3>4, Zenon
  <2>4. ASSUME NEW x PROVE x \in W <=> \E b \in Rest(0) : x \in Words(b)
    <3>1. (\E b \in Rest(0) : x \in Words(b)) <=>
              \/ \E b \in u : x \in Words(b)
              \/ \E j \in 1..n : x \in Words(list[j])
      BY <2>2, Zenon
    <3> QED
      BY <3>1, Zenon DEF Tiles
  <2> HIDE DEF Rest
  <2>5. Tiles(f[0], Rest(0), W)
    <3>1. \A i \in 1..Len(<<>>) : FALSE
      OBVIOUS
    <3>2. Tiles(<<>>, Rest(0), W)
      BY <2>1, <2>2, <2>3, <2>4, <3>1, Zenon DEF Tiles
    <3> QED
      BY <2>1, <3>2, Zenon
  <2> QED
    BY <2>5
<1>6. ASSUME NEW k \in Nat, k \in S PROVE k + 1 \in S
  <2>1. SUFFICES ASSUME k + 1 <= n PROVE Tiles(f[k + 1], Rest(k + 1), W)
    OBVIOUS
  <2>2. Tiles(f[k], Rest(k), W)
    <3>1. k <= n
      BY <1>1, <2>1
    <3> HIDE DEF Rest
    <3> QED
      BY <1>6, <3>1, Zenon
  <2>3. k + 1 \in 1..n /\ k + 1 \in 0..n /\ k + 1 # 0 /\ (k + 1) - 1 = k
    BY <1>1, <2>1
  <2>4. f[k + 1] = Absorb(f[k], list[k + 1])
    BY <1>4, <2>3, Zenon
  <2>5. list[k + 1] \in Rest(k)
    <3>1. k + 1 \in (k + 1)..n
      BY <1>1, <2>1
    <3> QED
      BY <3>1, Zenon
  <2>6. list[k + 1] \notin Rest(k + 1)
    <3>1. list[k + 1] \notin u
      <4>1. list[k + 1] \in u => Apart(list[k + 1], list[k + 1])
        BY <2>3, Zenon DEF Tiles
      <4> QED
        BY <1>1, <2>3, <4>1, ApartFacts
    <3>2. ASSUME NEW j \in ((k + 1) + 1)..n PROVE list[j] # list[k + 1]
      <4>1. j \in 1..n /\ j # k + 1
        BY <1>1
      <4>2. Apart(list[j], list[k + 1])
        BY <2>3, <4>1, Zenon DEF Tiles
      <4> QED
        BY <1>1, <2>3, <4>1, <4>2, ApartFacts
    <3> QED
      BY <3>1, <3>2, Zenon
  <2>7. Rest(k) = Rest(k + 1) \union {list[k + 1]}
    <3>1. \A j : j \in (k + 1)..n <=> j = k + 1 \/ j \in ((k + 1) + 1)..n
      BY <1>1, <2>1
    <3> QED
      BY <3>1, Zenon
  <2> HIDE DEF Rest
  <2>8. Rest(k) \ {list[k + 1]} = Rest(k + 1)
    BY <2>6, <2>7, Zenon
  <2>9. Tiles(Absorb(f[k], list[k + 1]), Rest(k) \ {list[k + 1]}, W)
    BY <2>2, <2>5, TileAbsorb, Zenon
  <2> QED
    BY <2>4, <2>8, <2>9, Zenon
<1>7. Rest(n) = u
  <2>1. \A j : j \notin (n + 1)..n
    BY <1>1
  <2> QED
    BY <2>1, Zenon
<1> HIDE DEF S, Rest
<1>8. Nat \subseteq S
  BY <1>5, <1>6, Induct
<1>9. Tiles(f[n], Rest(n), W)
  BY <1>1, <1>8 DEF S
<1> QED
  BY <1>3, <1>7, <1>9, Zenon

-----------------------------------------------------------------------------
(***************************************************************************)
(* Pages.                                                                  *)
(***************************************************************************)
HeapWords(pages) == UNION {PageWords(f) : f \in pages}

LEMMA PageFacts ==
  ASSUME NEW f \in Nat
  PROVE  /\ f * PAGE_SIZE \in Nat
         /\ PageBlock(f) \in BlockType /\ PageBlock(f).size = PAGE_SIZE - 4
         /\ \A x : x \in Words(PageBlock(f)) <=> x \in PageWords(f)
<1> DEFINE p == f * PAGE_SIZE
<1>1. p \in Nat /\ p % 2 = 0
  <2>1. PICK h \in Nat : PAGE_SIZE = 2 * h
    <3>1. PAGE_SIZE \div 2 \in Nat /\ PAGE_SIZE = 2 * (PAGE_SIZE \div 2)
      BY Constants
    <3> QED
      BY <3>1
  <2>2. p = 2 * (f * h) /\ f * h \in Nat
    BY <2>1
  <2> DEFINE q == f * h
  <2> HIDE DEF p, q
  <2>3. p = 2 * q /\ q \in Nat
    BY <2>2 DEF q
  <2> QED
    BY <2>3
<1>2. PageBlock(f) = Block(p, PAGE_SIZE - HeaderSize)
  BY DEF PageBlock
<1>3. \A x : x \in PageWords(f) <=> x \in p..(p + PAGE_SIZE - 1)
  BY DEF PageWords
<1> HIDE DEF p
<1>4. p \in Even /\ PAGE_SIZE - HeaderSize \in Even
  BY <1>1, Constants DEF Even, HeaderSize
<1>5. /\ PageBlock(f) \in BlockType /\ PageBlock(f).at = p
      /\ PageBlock(f).size = PAGE_SIZE - HeaderSize
  BY <1>2, <1>4, NewBlock
<1>6. End(PageBlock(f)) = p + PAGE_SIZE
  BY <1>1, <1>5, Constants DEF End, HeaderSize
<1>7. \A x : x \in Words(PageBlock(f)) <=> x \in PageWords(f)
  BY <1>1, <1>3, <1>5, <1>6, Constants DEF Words
<1> QED
  BY <1>1, <1>5, <1>7 DEF p, HeaderSize

LEMMA PagesApart ==
  ASSUME NEW f \in Nat, NEW g \in Nat, f # g
  PROVE  PageWords(f) \intersect PageWords(g) = {}
<1>1. ASSUME NEW a \in Nat, NEW b \in Nat, a < b
      PROVE  PageWords(a) \intersect PageWords(b) = {}
  <2>1. PICK d \in Nat : b = a + 1 + d
    <3>1. b - a - 1 \in Nat /\ b = a + 1 + (b - a - 1)
      BY <1>1
    <3> QED
      BY <3>1
  <2>2. b * PAGE_SIZE = a * PAGE_SIZE + PAGE_SIZE + d * PAGE_SIZE
    BY <2>1, Constants
  <2> DEFINE A == a * PAGE_SIZE  B == b * PAGE_SIZE  D == d * PAGE_SIZE
  <2>3. A \in Nat /\ B \in Nat /\ D \in Nat
    BY Constants
  <2>4. PageWords(a) = A..(A + PAGE_SIZE - 1) /\ PageWords(b) = B..(B + PAGE_SIZE - 1)
    BY DEF PageWords
  <2>5. B = A + PAGE_SIZE + D
    BY <2>2
  <2> HIDE DEF A, B, D
  <2> QED
    BY <2>3, <2>4, <2>5, Constants
<1>2. f < g \/ g < f
  OBVIOUS
<1> QED
  BY <1>1, <1>2

LEMMA WordsApart ==
  ASSUME NEW b \in BlockType, NEW c \in BlockType, Words(b) \intersect Words(c) = {}
  PROVE  Apart(b, c)
<1>1. b.at \notin Words(c) /\ c.at \notin Words(b)
  <2>1. b.at \in Words(b) /\ c.at \in Words(c)
    BY BlockFacts
  <2> QED
    BY <2>1
<1> QED
  BY <1>1, BlockFacts DEF Apart

\* heap_grow puts the block of a fresh page in front.
LEMMA TileGrow ==
  ASSUME NEW list, NEW u, NEW pages, pages \subseteq Nat, Tiles(list, u, HeapWords(pages)),
         NEW f \in Nat, f \notin pages
  PROVE  Tiles(<<PageBlock(f)>> \o list, u, HeapWords(pages \union {f}))
<1> DEFINE b == PageBlock(f)
           new == <<b>> \o list
<1>1. /\ Len(list) \in Nat /\ list \in Seq(BlockType) /\ u \subseteq BlockType
      /\ \A k \in 1..Len(list) : list[k] \in BlockType
  BY DEF Tiles
<1>2. b \in BlockType /\ \A x : x \in Words(b) <=> x \in PageWords(f)
  BY PageFacts
<1> HIDE DEF b
<1>3. /\ new \in Seq(BlockType) /\ Len(new) = Len(list) + 1
      /\ \A k \in 1..Len(new) : new[k] = IF k = 1 THEN b ELSE list[k - 1]
  BY <1>1, <1>2
<1>4. \A x \in HeapWords(pages) : x \notin Words(b)
  BY <1>2, PagesApart DEF HeapWords
<1>5. ASSUME NEW c \in BlockType, \A x \in Words(c) : x \in HeapWords(pages)
      PROVE  Apart(b, c)
  BY <1>2, <1>4, <1>5, WordsApart
<1>6. \A c \in u : Apart(b, c)
  <2>1. \A c \in u : \A x \in Words(c) : x \in HeapWords(pages)
    BY Zenon DEF Tiles
  <2> QED
    BY <1>1, <1>5, <2>1
<1>7. \A k \in 1..Len(list) : Apart(b, list[k])
  <2>1. \A k \in 1..Len(list) : \A x \in Words(list[k]) : x \in HeapWords(pages)
    BY Zenon DEF Tiles
  <2> QED
    BY <1>1, <1>5, <2>1
<1>8. \A x : x \in HeapWords(pages \union {f}) <=> x \in HeapWords(pages) \/ x \in Words(b)
  BY <1>2, Zenon DEF HeapWords
<1> HIDE DEF new
<1> QED
  BY <1>2, <1>3, <1>6, <1>7, <1>8, TilePut, Zenon DEF new, b

\* kfree puts a block in front.
LEMMA TileFree ==
  ASSUME NEW list, NEW u, NEW W, Tiles(list, u, W), NEW b \in u
  PROVE  Tiles(<<b>> \o list, u \ {b}, W)
<1> DEFINE new == <<b>> \o list
           V == {x \in W : x \notin Words(b)}
<1>1. /\ Len(list) \in Nat /\ list \in Seq(BlockType) /\ u \subseteq BlockType /\ b \in BlockType
      /\ \A k \in 1..Len(list) : list[k] \in BlockType
  BY DEF Tiles
<1>2. /\ \A c \in u \ {b} : Apart(b, c)
      /\ \A k \in 1..Len(list) : Apart(b, list[k])
  <2>1. \A k \in 1..Len(list) : Apart(list[k], b)
    BY Zenon DEF Tiles
  <2>2. \A c \in u \ {b} : Apart(b, c)
    BY Zenon DEF Tiles
  <2> QED
    BY <1>1, <2>1, <2>2, ApartFacts, Zenon
<1>3. /\ new \in Seq(BlockType) /\ Len(new) = Len(list) + 1
      /\ \A k \in 1..Len(new) : new[k] = IF k = 1 THEN b ELSE list[k - 1]
  BY <1>1
<1>4. Tiles(list, u \ {b}, V)
  <2>1. ASSUME NEW x
        PROVE  x \in V <=> \/ \E i \in 1..Len(list) : x \in Words(list[i])
                           \/ \E c \in u \ {b} : x \in Words(c)
    <3>1. \A i \in 1..Len(list) : ~(x \in Words(list[i]) /\ x \in Words(b))
      BY <1>1, <1>2, ApartFacts
    <3>2. \A c \in u \ {b} : ~(x \in Words(c) /\ x \in Words(b))
      BY <1>1, <1>2, ApartFacts
    <3>3. x \in W <=> \/ \E i \in 1..Len(list) : x \in Words(list[i])
                      \/ \E c \in u : x \in Words(c)
      BY Zenon DEF Tiles
    <3> QED
      BY <3>1, <3>2, <3>3, Zenon
  <2>2. /\ list \in Seq(BlockType) /\ u \ {b} \subseteq BlockType
        /\ \A i, j \in 1..Len(list) : i # j => Apart(list[i], list[j])
        /\ \A i \in 1..Len(list) : \A c \in u \ {b} : Apart(list[i], c)
        /\ \A c, d \in u \ {b} : c # d => Apart(c, d)
    BY Zenon DEF Tiles
  <2> HIDE DEF V
  <2> QED
    BY <2>1, <2>2, Zenon DEF Tiles
<1>5. \A x : x \in W <=> x \in V \/ x \in Words(b)
  <2>1. \A x \in Words(b) : x \in W
    BY Zenon DEF Tiles
  <2> QED
    BY <2>1, Zenon
<1> HIDE DEF new, V
<1> QED
  BY <1>1, <1>2, <1>3, <1>4, <1>5, TilePut, Zenon DEF new

\* kmalloc takes the first block that fits.
LEMMA TileFirstFit ==
  ASSUME NEW list, NEW W, Tiles(list, used, W), NEW size \in Nat \ {0},
         \E k \in 1..Len(list) : list[k].size >= size, TakeFirstFit(list, size)
  PROVE  Tiles(free_list', used', W)
<1> DEFINE n == Len(list)
           i == Min({k \in DOMAIN list : list[k].size >= size})
           parts == Split(list[i], size)
           before == SubSeq(list, 1, i - 1)
           behind == SubSeq(list, i + 1, n)
<1>1. /\ n \in Nat /\ list \in Seq(BlockType) /\ DOMAIN list = 1..n
      /\ \A k \in 1..n : list[k] \in BlockType
  BY DEF Tiles
<1>2. i \in 1..n /\ list[i].size >= size
  <2> DEFINE T == {k \in DOMAIN list : list[k].size >= size}
  <2>1. T \subseteq Nat /\ T # {}
    BY <1>1
  <2>2. \E x \in T : \A y \in T : x <= y
    <3> HIDE DEF T
    <3> QED
      BY <2>1, LeastNumber, Zenon
  <2>3. i \in T
    BY <2>2, Zenon DEF Min
  <2> QED
    BY <1>1, <2>3
<1>3. /\ used' = used \union {Head(parts)}
      /\ free_list' = before \o Tail(parts) \o behind
  BY DEF TakeFirstFit
<1>4. \/ parts = <<list[i]>>
      \/ \E c, d \in BlockType : /\ parts = <<c, d>>
                            /\ c.at = list[i].at /\ End(c) = d.at /\ End(d) = End(list[i])
  BY <1>1, <1>2, SplitParts, Zenon
<1> HIDE DEF i, parts
<1>5. /\ before \in Seq(BlockType) /\ Len(before) = i - 1
      /\ \A k \in 1..(i - 1) : before[k] = list[k]
  <2> DEFINE m == i - 1
  <2>1. m \in Nat /\ m <= n /\ 1 <= m + 1 /\ m - 1 + 1 = m /\ \A k \in 1..m : 1 + k - 1 = k
    BY <1>1, <1>2
  <2> HIDE DEF m
  <2>2. /\ SubSeq(list, 1, m) \in Seq(BlockType) /\ Len(SubSeq(list, 1, m)) = m - 1 + 1
        /\ \A k \in 1..(m - 1 + 1) : SubSeq(list, 1, m)[k] = list[1 + k - 1]
    BY <1>1, <2>1, SubSeqFacts
  <2> QED
    BY <2>1, <2>2 DEF m
<1>6. /\ behind \in Seq(BlockType) /\ Len(behind) = n - i
      /\ \A k \in 1..(n - i) : behind[k] = list[i + k]
  <2> DEFINE a == i + 1
  <2>1. a \in Nat \ {0} /\ n <= n /\ a <= n + 1 /\ n - a + 1 = n - i
        /\ \A k \in 1..(n - i) : a + k - 1 = i + k
    BY <1>1, <1>2
  <2> HIDE DEF a
  <2>2. /\ SubSeq(list, a, n) \in Seq(BlockType) /\ Len(SubSeq(list, a, n)) = n - a + 1
        /\ \A k \in 1..(n - a + 1) : SubSeq(list, a, n)[k] = list[a + k - 1]
    BY <1>1, <2>1, SubSeqFacts
  <2> QED
    BY <2>1, <2>2 DEF a
<1> HIDE DEF before, behind
<1>7. CASE parts = <<list[i]>>
  <2> DEFINE new == before \o behind
  <2>1. free_list' = new /\ used' = used \union {list[i]}
    <3>1. Head(parts) = list[i] /\ Tail(parts) = <<>>
      BY <1>7
    <3>2. before \o <<>> = before
      BY <1>5
    <3> QED
      BY <1>3, <3>1, <3>2, Zenon
  <2>2. new \in Seq(BlockType) /\ Len(new) = n - 1
    <3>1. new \in Seq(BlockType) /\ Len(new) = Len(before) + Len(behind)
      BY <1>5, <1>6, ConcatFacts, Zenon
    <3>2. (i - 1) + (n - i) = n - 1
      BY <1>1, <1>2
    <3> HIDE DEF new
    <3> QED
      BY <1>5, <1>6, <3>1, <3>2, Zenon
  <2>3. ASSUME NEW k \in 1..(n - 1)
        PROVE  new[k] = IF k < i THEN list[k] ELSE list[k + 1]
    <3>1. new[k] = IF k <= i - 1 THEN before[k] ELSE behind[k - (i - 1)]
      BY <1>1, <1>2, <1>5, <1>6
    <3>2. k <= i - 1 => k < i /\ k \in 1..(i - 1)
      BY <1>1, <1>2
    <3>3. ~(k <= i - 1) => ~(k < i) /\ k - (i - 1) \in 1..(n - i) /\ i + (k - (i - 1)) = k + 1
      BY <1>1, <1>2
    <3> HIDE DEF new
    <3> QED
      BY <1>5, <1>6, <3>1, <3>2, <3>3, Zenon
  <2> HIDE DEF new
  <2>4. Tiles(new, used \union {list[i]}, W)
    BY <1>2, <2>2, <2>3, TileTake, Zenon
  <2> QED
    BY <2>1, <2>4, Zenon
<1>8. ASSUME NEW c \in BlockType, NEW d \in BlockType, parts = <<c, d>>,
             c.at = list[i].at, End(c) = d.at, End(d) = End(list[i])
      PROVE  Tiles(free_list', used', W)
  <2> DEFINE new == (before \o <<d>>) \o behind
             front == before \o <<d>>
  <2>1. free_list' = new /\ used' = used \union {c}
    <3>1. Head(parts) = c /\ Tail(parts) = <<d>>
      BY <1>8
    <3> QED
      BY <1>3, <3>1, Zenon
  <2>2. /\ front \in Seq(BlockType) /\ Len(front) = i
        /\ \A k \in 1..i : front[k] = IF k = i THEN d ELSE list[k]
    <3>1. front \in Seq(BlockType) /\ Len(front) = i
      BY <1>1, <1>2, <1>5, <1>8
    <3>2. ASSUME NEW k \in 1..i PROVE front[k] = IF k = i THEN d ELSE list[k]
      BY <1>1, <1>2, <1>5, <1>8
    <3> QED
      BY <3>1, <3>2
  <2>3. new = front \o behind
    OBVIOUS
  <2> HIDE DEF front, new
  <2>4. new \in Seq(BlockType) /\ Len(new) = n
    <3>1. new \in Seq(BlockType) /\ Len(new) = Len(front) + Len(behind)
      BY <1>6, <2>2, <2>3, ConcatFacts, Zenon
    <3>2. i + (n - i) = n
      BY <1>1, <1>2
    <3> QED
      BY <1>6, <2>2, <3>1, <3>2, Zenon
  <2>5. ASSUME NEW k \in 1..n PROVE new[k] = IF k = i THEN d ELSE list[k]
    <3>1. new[k] = IF k <= i THEN front[k] ELSE behind[k - i]
      BY <1>1, <1>2, <1>6, <2>2, <2>3
    <3>2. k <= i => k \in 1..i
      BY <1>1, <1>2
    <3>3. ~(k <= i) => k # i /\ k - i \in 1..(n - i) /\ i + (k - i) = k
      BY <1>1, <1>2
    <3> QED
      BY <1>6, <2>2, <3>1, <3>2, <3>3, Zenon
  <2>6. Tiles(new, used \union {c}, W)
    BY <1>2, <1>8, <2>4, <2>5, TileSplit
  <2> QED
    BY <2>1, <2>6, Zenon
<1> QED
  BY <1>4, <1>7, <1>8

-----------------------------------------------------------------------------
(***************************************************************************)
(* Who owns a page.                                                        *)
(***************************************************************************)
\* Each page belongs to the allocator, the heap, another client, the loop of a large
\* allocation, or one large allocation.
Accounted(free, heap, other, loops, big) ==
    /\ free \intersect heap = {} /\ free \intersect other = {} /\ free \intersect loops = {}
    /\ heap \intersect other = {} /\ heap \intersect loops = {} /\ other \intersect loops = {}
    /\ \A l \in big : \A f \in LargePages(l) :
           f \notin free /\ f \notin heap /\ f \notin other /\ f \notin loops
    /\ \A l1, l2 \in big : l1 # l2 => LargePages(l1) \intersect LargePages(l2) = {}
    /\ \A f : f \in Frames <=> \/ f \in free \/ f \in heap \/ f \in other \/ f \in loops
                               \/ \E l \in big : f \in LargePages(l)

\* A page the allocator hands out.
LEMMA PageOut ==
  ASSUME NEW free, NEW heap, NEW other, NEW loops, NEW big, NEW f \in free,
         Accounted(free, heap, other, loops, big)
  PROVE  /\ Accounted(free \ {f}, heap \union {f}, other, loops, big)
         /\ Accounted(free \ {f}, heap, other \union {f}, loops, big)
         /\ Accounted(free \ {f}, heap, other, loops \union {f}, big)
<1>1. Accounted(free \ {f}, heap \union {f}, other, loops, big)
  BY Zenon DEF Accounted
<1>2. Accounted(free \ {f}, heap, other \union {f}, loops, big)
  BY Zenon DEF Accounted
<1>3. Accounted(free \ {f}, heap, other, loops \union {f}, big)
  BY Zenon DEF Accounted
<1> QED
  BY <1>1, <1>2, <1>3, Zenon

\* Pages that come back.
LEMMA PagesBack ==
  ASSUME NEW free, NEW heap, NEW other, NEW loops, NEW big,
         Accounted(free, heap, other, loops, big)
  PROVE  /\ Accounted(free \union loops, heap, other, {}, big)
         /\ \A f \in other : Accounted(free \union {f}, heap, other \ {f}, loops, big)
         /\ \A l \in big : Accounted(free \union LargePages(l), heap, other, loops, big \ {l})
<1>1. Accounted(free \union loops, heap, other, {}, big)
  BY Zenon DEF Accounted
<1>2. ASSUME NEW f \in other
      PROVE  Accounted(free \union {f}, heap, other \ {f}, loops, big)
  BY Zenon DEF Accounted
<1>3. ASSUME NEW l \in big
      PROVE  Accounted(free \union LargePages(l), heap, other, loops, big \ {l})
  BY ZenonT(60) DEF Accounted
<1> QED
  BY <1>1, <1>2, <1>3, Zenon

\* A large allocation that has all its pages.
LEMMA PagesKept ==
  ASSUME NEW free, NEW heap, NEW other, NEW loops, NEW big, NEW l,
         Accounted(free, heap, other, loops, big), LargePages(l) = loops
  PROVE  Accounted(free, heap, other, {}, big \union {l})
  BY ZenonT(60) DEF Accounted

LEMMA LowestIsFree ==
  ASSUME pmm_free \subseteq Nat, pmm_free # {}
  PROVE  LowestFree \in pmm_free
<1>1. \E x \in pmm_free : \A y \in pmm_free : x <= y
  BY LeastNumber, Zenon
<1> QED
  BY <1>1, Zenon DEF LowestFree, Min

-----------------------------------------------------------------------------
(***************************************************************************)
(* The inductive invariant.  None of the three invariants is inductive:    *)
(* kfree keeps the tiling only for blocks at even addresses, and heap_grow *)
(* only because the page it gets belongs to nobody.                        *)
(***************************************************************************)
Loop ==
    /\ pc \in {"idle", "large"} /\ first_page \in Nat /\ taken \in Nat /\ pages_needed \in Nat
    /\ large \subseteq [page : Nat, pages : Nat]
Tiled == Tiles(free_list, used, HeapWords(heap_pages))
Owned == ~fragmented => Accounted(pmm_free, heap_pages, others, InLoop, large)
HeapInv == Loop /\ Tiled /\ Owned

LEMMA OwnedTypes ==
  ASSUME Owned, ~fragmented
  PROVE  pmm_free \subseteq Nat /\ heap_pages \subseteq Nat
  BY Constants, Zenon DEF Owned, Accounted

LEMMA InitInv == HeapInit => HeapInv
<1> SUFFICES ASSUME HeapInit PROVE HeapInv
  BY Zenon
<1> DEFINE N == HEAP_INITIAL_PAGES
<1>1. PICK pages \in [1..N -> Frames] :
           /\ LowestFirst(pages)
           /\ heap_pages = Range(pages)
           /\ free_list = [i \in 1..N |-> PageBlock(pages[N - i + 1])]
           /\ pmm_free = Frames \ Range(pages)
  BY Zenon DEF HeapInit
<1>2. N \in Nat /\ \A i \in 1..N : pages[i] \in Nat
  BY Constants, Zenon
<1>3. \A i, j \in 1..N : i # j => pages[i] # pages[j]
  <2>1. \A i \in 1..N : \A j \in 1..(i - 1) : pages[j] < pages[i]
    BY <1>1 DEF LowestFirst
  <2>2. \A i, j \in 1..N : j < i => pages[j] < pages[i]
    BY <1>2, <2>1
  <2>3. \A i, j \in 1..N : i < j \/ j < i \/ i = j
    BY <1>2
  <2> QED
    BY <1>2, <2>2, <2>3
<1>4. \A i \in 1..N : PageBlock(pages[i]) \in BlockType
  BY <1>2, PageFacts, Zenon
<1>6. /\ free_list \in Seq(BlockType) /\ Len(free_list) = N
      /\ \A k \in 1..N : free_list[k] = PageBlock(pages[N - k + 1]) /\ N - k + 1 \in 1..N
  <2> HIDE DEF N
  <2>1. \A k \in 1..N : N - k + 1 \in 1..N
    BY <1>2
  <2>2. \A k \in 1..N : PageBlock(pages[N - k + 1]) \in BlockType
    BY <1>4, <2>1, Zenon
  <2>3. free_list \in Seq(BlockType) /\ Len(free_list) = N
    BY <1>1, <1>2, <2>2
  <2> QED
    BY <1>1, <2>1, <2>3, Zenon
<1> HIDE DEF N
<1>7. \A f : f \in heap_pages <=> \E i \in 1..N : f = pages[i]
  BY <1>1, Zenon DEF Range
<1>8. Tiled
  <2>1. ASSUME NEW i \in 1..N, NEW j \in 1..N, i # j PROVE Apart(free_list[i], free_list[j])
    <3>1. N - i + 1 # N - j + 1
      BY <1>2, <2>1
    <3>2. pages[N - i + 1] # pages[N - j + 1]
      BY <1>3, <1>6, <3>1
    <3> DEFINE f == pages[N - i + 1]
               g == pages[N - j + 1]
    <3>3. f \in Nat /\ g \in Nat /\ f # g
      BY <1>2, <1>6, <3>2
    <3>4. free_list[i] = PageBlock(f) /\ free_list[j] = PageBlock(g)
      BY <1>6
    <3> HIDE DEF f, g
    <3>5. Words(PageBlock(f)) \intersect Words(PageBlock(g)) = {}
      BY <3>3, PagesApart, PageFacts
    <3>6. PageBlock(f) \in BlockType /\ PageBlock(g) \in BlockType
      BY <3>3, PageFacts, Zenon
    <3> QED
      BY <3>4, <3>5, <3>6, WordsApart, Zenon
  <2>2. ASSUME NEW x
        PROVE  x \in HeapWords(heap_pages) <=> \E k \in 1..N : x \in Words(free_list[k])
    <3>1. x \in HeapWords(heap_pages) <=> \E i \in 1..N : x \in PageWords(pages[i])
      BY <1>7, Zenon DEF HeapWords
    <3>2. \A i \in 1..N : x \in PageWords(pages[i]) <=> x \in Words(PageBlock(pages[i]))
      BY <1>2, PageFacts, Zenon
    <3>3. \A i \in 1..N : N - i + 1 \in 1..N /\ N - (N - i + 1) + 1 = i
      BY <1>2
    <3>4. \A i \in 1..N : free_list[N - i + 1] = PageBlock(pages[i])
      BY <1>6, <3>3, Zenon
    <3> QED
      BY <1>6, <3>1, <3>2, <3>3, <3>4, Zenon
  <2>3. used = {}
    BY DEF HeapInit
  <2> QED
    BY <1>6, <2>1, <2>2, <2>3, Zenon DEF Tiled, Tiles
<1>9. Loop
  BY DEF HeapInit, Loop
<1>10. Owned
  <2>1. \A f : f \in heap_pages => f \in Frames
    BY <1>7
  <2>2. pmm_free = Frames \ heap_pages /\ others = {} /\ InLoop = {} /\ large = {}
    <3>1. pc = "idle" /\ others = {} /\ large = {}
      BY DEF HeapInit
    <3> QED
      BY <1>1, <3>1 DEF InLoop
  <2>3. Accounted(pmm_free, heap_pages, others, InLoop, large)
    BY <2>1, <2>2, Zenon DEF Accounted
  <2> QED
    BY <2>3 DEF Owned
<1> QED
  BY <1>8, <1>9, <1>10 DEF HeapInv


(***************************************************************************)
(* The steps.                                                              *)
(***************************************************************************)
LEMMA SmallAllocInv ==
  ASSUME HeapInv, NEW size \in Sizes, SmallAlloc(size)
  PROVE  HeapInv'
<1>1. size \in Nat \ {0}
  BY Constants
<1>2. ~fragmented /\ ~fragmented' /\ pc = "idle"
  BY DEF SmallAlloc, Idle
<1>3. Loop' /\ InLoop' = InLoop /\ large' = large /\ others' = others
  BY DEF HeapInv, Loop, SmallAlloc, loop, InLoop
<1>4. Accounted(pmm_free, heap_pages, others, InLoop, large)
  BY <1>2 DEF HeapInv, Owned
<1>5. pmm_free \subseteq Nat /\ heap_pages \subseteq Nat
  BY <1>2, OwnedTypes DEF HeapInv
<1>6. CASE /\ Fits(size)
           /\ TakeFirstFit(free_list, size)
           /\ UNCHANGED <<heap_pages, pmm_free>>
  <2>1. Tiles(free_list, used, HeapWords(heap_pages))
    BY DEF HeapInv, Tiled
  <2>2. \E k \in 1..Len(free_list) : free_list[k].size >= size
    <3>1. free_list \in Seq(BlockType)
      BY <2>1 DEF Tiles
    <3> QED
      BY <1>6, <3>1 DEF Fits
  <2>3. Tiles(free_list', used', HeapWords(heap_pages))
    BY <1>1, <1>6, <2>1, <2>2, TileFirstFit
  <2>4. Tiled' /\ Owned'
    BY <1>3, <1>4, <1>6, <2>3 DEF Tiled, Owned
  <2> QED
    BY <1>3, <2>4 DEF HeapInv
<1>7. CASE /\ ~Fits(size)
           /\ pmm_free # {}
           /\ heap_pages' = heap_pages \union {LowestFree}
           /\ pmm_free' = pmm_free \ {LowestFree}
           /\ TakeFirstFit(<<PageBlock(LowestFree)>> \o free_list, size)
  <2> DEFINE f == LowestFree
             list == <<PageBlock(f)>> \o free_list
  <2>1. f \in pmm_free /\ f \in Nat /\ f \notin heap_pages
    <3>1. f \in pmm_free
      BY <1>5, <1>7, LowestIsFree
    <3>2. f \notin heap_pages
      BY <1>4, <3>1, Zenon DEF Accounted
    <3> QED
      BY <1>5, <3>1, <3>2
  <2> HIDE DEF f
  <2>2. Tiles(free_list, used, HeapWords(heap_pages))
    BY DEF HeapInv, Tiled
  <2>3. Tiles(list, used, HeapWords(heap_pages \union {f}))
    BY <1>5, <2>1, <2>2, TileGrow, Zenon
  <2>4. \E k \in 1..Len(list) : list[k].size >= size
    <3>1. free_list \in Seq(BlockType) /\ Len(free_list) \in Nat
      BY <2>2 DEF Tiles
    <3>2. PageBlock(f) \in BlockType /\ PageBlock(f).size = PAGE_SIZE - 4
      BY <2>1, PageFacts
    <3>3. 1 \in 1..Len(list) /\ list[1] = PageBlock(f)
      BY <3>1, <3>2
    <3>4. size <= PAGE_SIZE - 4
      <4>1. HeaderSize + align_size(size) < PAGE_SIZE \div 2
        BY DEF SmallAlloc, total_size
      <4>2. align_size(size) >= size
        BY <1>1 DEF align_size
      <4>3. align_size(size) \in Nat
        BY <1>1 DEF align_size
      <4>4. PAGE_SIZE \in Nat /\ PAGE_SIZE >= 12
        BY Constants
      <4> QED
        BY <1>1, <4>1, <4>2, <4>3, <4>4 DEF HeaderSize
    <3>5. PAGE_SIZE \in Nat
      BY Constants
    <3> HIDE DEF list
    <3> QED
      BY <1>1, <3>2, <3>3, <3>4, <3>5
  <2>5. TakeFirstFit(list, size)
    BY <1>7 DEF f
  <2> HIDE DEF list
  <2>6. Tiles(free_list', used', HeapWords(heap_pages \union {f}))
    BY <1>1, <2>3, <2>4, <2>5, TileFirstFit
  <2>7. Tiled'
    BY <1>7, <2>6 DEF Tiled, f
  <2>8. Accounted(pmm_free \ {f}, heap_pages \union {f}, others, InLoop, large)
    BY <1>4, <2>1, PageOut, Zenon
  <2>9. Owned'
    BY <1>3, <1>7, <2>8 DEF Owned, f
  <2> QED
    BY <1>3, <2>7, <2>9 DEF HeapInv
<1> QED
  BY <1>6, <1>7, Zenon DEF SmallAlloc

\* A step that leaves the blocks alone.
LEMMA BlocksKept ==
  ASSUME HeapInv, UNCHANGED blocks
  PROVE  Tiled' /\ heap_pages' = heap_pages
  BY DEF HeapInv, Tiled, blocks

LEMMA LargeBeginInv ==
  ASSUME HeapInv, NEW size \in Sizes, LargeBegin(size)
  PROVE  HeapInv'
<1>1. Tiled' /\ heap_pages' = heap_pages
  BY BlocksKept DEF LargeBegin
<1>2. ~fragmented /\ pc = "idle" /\ large' = large /\ others' = others /\ pmm_free # {}
  BY DEF LargeBegin, Idle
<1>3. Accounted(pmm_free, heap_pages, others, {}, large)
  BY <1>2 DEF HeapInv, Owned, InLoop
<1>4. LowestFree \in pmm_free /\ LowestFree \in Nat
  <2>1. pmm_free \subseteq Nat
    BY <1>2, OwnedTypes DEF HeapInv
  <2> QED
    BY <1>2, <2>1, LowestIsFree, Zenon
<1>5. pages_needed' \in Nat
  <2>1. size \in Nat \ {0} /\ PAGE_SIZE \in Nat /\ PAGE_SIZE >= 12
    BY Constants
  <2> DEFINE total == total_size(size)
  <2>2. total \in Nat
    BY <2>1 DEF total_size, align_size, HeaderSize
  <2>3. pages_needed' = (total + PAGE_SIZE - 1) \div PAGE_SIZE
    BY DEF LargeBegin
  <2> HIDE DEF total
  <2> QED
    BY <2>1, <2>2, <2>3
<1>6. first_page' = LowestFree /\ taken' = 1 /\ pc' = "large" /\ pmm_free' = pmm_free \ {LowestFree}
  BY DEF LargeBegin
<1> DEFINE f == LowestFree
<1> HIDE DEF f
<1>7. InLoop' = {} \union {f}
  <2>1. InLoop' = f..(f + 1 - 1)
    BY <1>6 DEF InLoop, f
  <2> QED
    BY <1>4, <2>1 DEF f
<1>8. Accounted(pmm_free \ {f}, heap_pages, others, {} \union {f}, large)
  BY <1>3, <1>4, PageOut, Zenon DEF f
<1>9. Owned'
  BY <1>1, <1>2, <1>6, <1>7, <1>8 DEF Owned, f
<1>10. Loop'
  BY <1>2, <1>4, <1>5, <1>6 DEF HeapInv, Loop
<1> QED
  BY <1>1, <1>9, <1>10 DEF HeapInv

LEMMA LargePageInv ==
  ASSUME HeapInv, LargePage
  PROVE  HeapInv'
<1>1. Tiled' /\ heap_pages' = heap_pages
  BY BlocksKept DEF LargePage
<1>2. /\ pc = "large" /\ pc' = pc /\ first_page' = first_page /\ pages_needed' = pages_needed
      /\ large' = large /\ others' = others /\ taken' = taken + 1
      /\ pmm_free # {} /\ pmm_free' = pmm_free \ {LowestFree}
      /\ ~fragmented' => ~fragmented /\ LowestFree = first_page + taken
  BY Zenon DEF LargePage
<1>3. first_page \in Nat /\ taken \in Nat
  BY DEF HeapInv, Loop
<1>4. Loop'
  BY <1>2, <1>3 DEF HeapInv, Loop
<1>5. ASSUME ~fragmented' PROVE Accounted(pmm_free', heap_pages', others', InLoop', large')
  <2> DEFINE f == LowestFree
  <2>1. Accounted(pmm_free, heap_pages, others, InLoop, large)
    BY <1>2, <1>5 DEF HeapInv, Owned
  <2>2. f \in pmm_free
    <3>1. pmm_free \subseteq Nat
      BY <1>2, <1>5, OwnedTypes DEF HeapInv
    <3> QED
      BY <1>2, <3>1, LowestIsFree
  <2>3. f = first_page + taken
    BY <1>2, <1>5
  <2> HIDE DEF f
  <2>4. InLoop' = InLoop \union {f}
    <3>1. InLoop = first_page..(first_page + taken - 1)
      BY <1>2 DEF InLoop
    <3>2. InLoop' = first_page..(first_page + (taken + 1) - 1)
      BY <1>2 DEF InLoop
    <3> QED
      BY <1>3, <2>3, <3>1, <3>2
  <2>5. Accounted(pmm_free \ {f}, heap_pages, others, InLoop \union {f}, large)
    BY <2>1, <2>2, PageOut, Zenon
  <2> QED
    BY <1>1, <1>2, <2>4, <2>5, Zenon DEF f
<1> QED
  BY <1>1, <1>4, <1>5 DEF HeapInv, Owned

LEMMA LargeFailInv ==
  ASSUME HeapInv, LargeFail
  PROVE  HeapInv'
<1>1. Tiled' /\ heap_pages' = heap_pages
  BY BlocksKept DEF LargeFail
<1>2. /\ pc = "large" /\ pc' = "idle" /\ large' = large /\ others' = others
      /\ pmm_free' = pmm_free \union (first_page..(first_page + taken - 1))
      /\ fragmented' = fragmented
  BY DEF LargeFail, LoopDone
<1>3. Loop'
  BY DEF HeapInv, Loop, LargeFail, LoopDone
<1>4. InLoop = first_page..(first_page + taken - 1) /\ InLoop' = {}
  BY <1>2 DEF InLoop
<1>5. ASSUME ~fragmented' PROVE Accounted(pmm_free', heap_pages', others', InLoop', large')
  <2>1. Accounted(pmm_free, heap_pages, others, InLoop, large)
    BY <1>2, <1>5 DEF HeapInv, Owned
  <2>2. Accounted(pmm_free \union InLoop, heap_pages, others, {}, large)
    BY <2>1, PagesBack, Zenon
  <2> QED
    BY <1>1, <1>2, <1>4, <2>2, Zenon
<1> QED
  BY <1>1, <1>3, <1>5 DEF HeapInv, Owned

LEMMA LargeEndInv ==
  ASSUME HeapInv, LargeEnd
  PROVE  HeapInv'
<1> DEFINE l == [page |-> first_page, pages |-> pages_needed]
<1>1. Tiled' /\ heap_pages' = heap_pages
  BY BlocksKept DEF LargeEnd
<1>2. /\ pc = "large" /\ pc' = "idle" /\ large' = large \union {l} /\ others' = others
      /\ taken = pages_needed /\ pmm_free' = pmm_free /\ fragmented' = fragmented
  BY DEF LargeEnd, LoopDone
<1>3. Loop'
  BY DEF HeapInv, Loop, LargeEnd, LoopDone
<1>4. LargePages(l) = InLoop /\ InLoop' = {}
  BY <1>2 DEF InLoop, LargePages
<1> HIDE DEF l
<1>5. ASSUME ~fragmented' PROVE Accounted(pmm_free', heap_pages', others', InLoop', large')
  <2>1. Accounted(pmm_free, heap_pages, others, InLoop, large)
    BY <1>2, <1>5 DEF HeapInv, Owned
  <2>2. Accounted(pmm_free, heap_pages, others, {}, large \union {l})
    BY <1>4, <2>1, PagesKept, Zenon
  <2> QED
    BY <1>1, <1>2, <1>4, <2>2, Zenon
<1> QED
  BY <1>1, <1>3, <1>5 DEF HeapInv, Owned

LEMMA FreeSmallInv ==
  ASSUME HeapInv, NEW b \in used, FreeSmall(b)
  PROVE  HeapInv'
<1>1. Tiles(free_list, used, HeapWords(heap_pages))
  BY DEF HeapInv, Tiled
<1>2. Tiles(<<b>> \o free_list, used \ {b}, HeapWords(heap_pages))
  BY <1>1, TileFree
<1> DEFINE list == <<b>> \o free_list
<1> HIDE DEF list
<1>3. Tiles(merge_blocks(list), used \ {b}, HeapWords(heap_pages))
  BY <1>2, MergeTiles, Zenon DEF list
<1>4. used' = used \ {b} /\ free_list' = merge_blocks(list) /\ heap_pages' = heap_pages
  BY Zenon DEF FreeSmall, list
<1>5. Tiled'
  BY <1>3, <1>4, Zenon DEF Tiled
<1>6. Loop' /\ Owned'
  BY DEF HeapInv, Loop, Owned, FreeSmall, loop, InLoop
<1> QED
  BY <1>5, <1>6, Zenon DEF HeapInv

LEMMA FreeLargeInv ==
  ASSUME HeapInv, NEW l \in large, FreeLarge(l)
  PROVE  HeapInv'
<1>1. Tiled' /\ heap_pages' = heap_pages
  BY BlocksKept DEF FreeLarge
<1>2. /\ ~fragmented /\ large' = large \ {l} /\ others' = others
      /\ pmm_free' = pmm_free \union LargePages(l)
  BY DEF FreeLarge, Idle, LargePages
<1>3. Loop' /\ InLoop' = InLoop
  BY DEF HeapInv, Loop, FreeLarge, loop, InLoop
<1>4. Accounted(pmm_free, heap_pages, others, InLoop, large)
  BY <1>2 DEF HeapInv, Owned
<1>5. Accounted(pmm_free \union LargePages(l), heap_pages, others, InLoop, large \ {l})
  BY <1>4, PagesBack, Zenon
<1>6. Owned'
  BY <1>1, <1>2, <1>3, <1>5, Zenon DEF Owned
<1> QED
  BY <1>1, <1>3, <1>6, Zenon DEF HeapInv

LEMMA OtherAllocInv ==
  ASSUME HeapInv, OtherAlloc
  PROVE  HeapInv'
<1>1. Tiled' /\ heap_pages' = heap_pages
  BY BlocksKept DEF OtherAlloc
<1>2. /\ ~fragmented /\ large' = large /\ others' = others \union {LowestFree}
      /\ pmm_free # {} /\ pmm_free' = pmm_free \ {LowestFree}
  BY DEF OtherAlloc
<1>3. Loop' /\ InLoop' = InLoop
  BY DEF HeapInv, Loop, OtherAlloc, loop, InLoop
<1>4. Accounted(pmm_free, heap_pages, others, InLoop, large)
  BY <1>2 DEF HeapInv, Owned
<1>5. LowestFree \in pmm_free
  BY <1>2, OwnedTypes, LowestIsFree DEF HeapInv
<1>6. Accounted(pmm_free \ {LowestFree}, heap_pages, others \union {LowestFree}, InLoop, large)
  BY <1>4, <1>5, PageOut, Zenon
<1>7. Owned'
  BY <1>1, <1>2, <1>3, <1>6, Zenon DEF Owned
<1> QED
  BY <1>1, <1>3, <1>7, Zenon DEF HeapInv

LEMMA OtherFreeInv ==
  ASSUME HeapInv, NEW f \in others, OtherFree(f)
  PROVE  HeapInv'
<1>1. Tiled' /\ heap_pages' = heap_pages
  BY BlocksKept DEF OtherFree
<1>2. /\ ~fragmented /\ large' = large /\ others' = others \ {f}
      /\ pmm_free' = pmm_free \union {f}
  BY DEF OtherFree
<1>3. Loop' /\ InLoop' = InLoop
  BY DEF HeapInv, Loop, OtherFree, loop, InLoop
<1>4. Accounted(pmm_free, heap_pages, others, InLoop, large)
  BY <1>2 DEF HeapInv, Owned
<1>5. Accounted(pmm_free \union {f}, heap_pages, others \ {f}, InLoop, large)
  BY <1>4, PagesBack, Zenon
<1>6. Owned'
  BY <1>1, <1>2, <1>3, <1>5, Zenon DEF Owned
<1> QED
  BY <1>1, <1>3, <1>6, Zenon DEF HeapInv

LEMMA NextInv ==
  ASSUME HeapInv, [HeapNext]_heap_vars
  PROVE  HeapInv'
<1>1. CASE UNCHANGED heap_vars
  BY <1>1 DEF HeapInv, Loop, Tiled, Owned, InLoop, heap_vars, blocks, loop
<1>2. ASSUME NEW size \in Sizes, SmallAlloc(size) \/ LargeBegin(size) PROVE HeapInv'
  BY <1>2, SmallAllocInv, LargeBeginInv, Zenon
<1>3. CASE HeapNext
  BY <1>2, <1>3, LargePageInv, LargeFailInv, LargeEndInv, FreeSmallInv, FreeLargeInv,
     OtherAllocInv, OtherFreeInv, Zenon DEF HeapNext
<1> QED
  BY <1>1, <1>3, Zenon

THEOREM Invariance == HeapSpec => []HeapInv
<1>1. HeapInv /\ [HeapNext]_heap_vars => HeapInv'
  BY NextInv, Zenon
<1> QED
  BY <1>1, InitInv, PTL DEF HeapSpec

-----------------------------------------------------------------------------
LEMMA TiledFills == Tiled => BlocksTileHeap
<1> SUFFICES ASSUME Tiled PROVE BlocksTileHeap
  BY Zenon
<1> DEFINE n == Len(free_list)
<1>1. Tiles(free_list, used, HeapWords(heap_pages))
  BY DEF Tiled
<1>2. /\ n \in Nat /\ DOMAIN free_list = 1..n /\ used \subseteq BlockType
      /\ \A i \in 1..n : free_list[i] \in BlockType
  BY <1>1 DEF Tiles
<1> HIDE DEF n
<1>3. \A b : b \in Range(free_list) <=> \E i \in 1..n : b = free_list[i]
  BY <1>2, Zenon DEF Range
<1>4. IsInjective(free_list)
  <2>1. \A i, j \in 1..n : i # j => Apart(free_list[i], free_list[j])
    BY <1>1, Zenon DEF Tiles, n
  <2> QED
    BY <1>2, <2>1, ApartFacts, Zenon DEF IsInjective
<1>5. \A b \in AllBlocks : b \in BlockType
  BY <1>2, <1>3, Zenon DEF AllBlocks
<1>6. Range(free_list) \intersect used = {}
  <2>1. \A i \in 1..n : \A b \in used : Apart(free_list[i], b)
    BY <1>1, Zenon DEF Tiles, n
  <2> QED
    BY <1>2, <1>3, <2>1, ApartFacts, Zenon
<1>7. ASSUME NEW b \in AllBlocks, NEW c \in AllBlocks, b # c
      PROVE  Words(b) \intersect Words(c) = {}
  <2>1. Apart(b, c) \/ Apart(c, b)
    BY <1>1, <1>3, <1>7, Zenon DEF AllBlocks, Tiles, n
  <2> QED
    BY <1>5, <1>7, <2>1, ApartFacts, Zenon
<1>8. UNION {Words(b) : b \in AllBlocks} = UNION {PageWords(f) : f \in heap_pages}
  <2>1. \A x : x \in UNION {PageWords(f) : f \in heap_pages} <=>
                   \/ \E i \in 1..n : x \in Words(free_list[i])
                   \/ \E b \in used : x \in Words(b)
    BY <1>1, Zenon DEF Tiles, HeapWords, n
  <2>2. \A x : x \in UNION {Words(b) : b \in AllBlocks} <=>
                   \/ \E i \in 1..n : x \in Words(free_list[i])
                   \/ \E b \in used : x \in Words(b)
    BY <1>3, Zenon DEF AllBlocks
  <2> QED
    BY <2>1, <2>2, Zenon
<1> QED
  BY <1>4, <1>6, <1>7, <1>8, Zenon DEF BlocksTileHeap

\* The blocks of the kernel heap, free and allocated, tile its pages whatever kmalloc
\* splits, heap_grow adds and kfree merges, for any page size and number of pages.
THEOREM HeapStaysTiled == HeapSpec => []BlocksTileHeap
<1>1. HeapInv => BlocksTileHeap
  BY TiledFills, Zenon DEF HeapInv
<1> QED
  BY <1>1, Invariance, PTL

\* kfree never takes a small allocation for a large one or a large one for a small one,
\* for any page size that is a multiple of four words: headers and sizes are even, so
\* the word in front of a small allocation's data is never the first of a page.
THEOREM KfreeTellsKinds == HeapSpec => []KindsDistinct
<1>1. ASSUME HeapInv, NEW b \in used PROVE ~LooksLarge(SmallPointer(b))
  <2>1. b.at \in Nat /\ b.at % 2 = 0
    BY <1>1, BlockFacts DEF HeapInv, Tiled, Tiles
  <2>2. PAGE_SIZE \in Nat /\ PAGE_SIZE % 2 = 0 /\ PAGE_SIZE >= 12
    BY Constants
  <2> DEFINE a == b.at
  <2>3. SmallPointer(b) - 1 = a + 3
    BY <2>1 DEF SmallPointer, HeaderSize
  <2> HIDE DEF a
  <2>4. (a + 3) % PAGE_SIZE # 0
    <3>1. SUFFICES ASSUME (a + 3) % PAGE_SIZE = 0 PROVE FALSE
      OBVIOUS
    <3> DEFINE q == (a + 3) \div PAGE_SIZE
               h == PAGE_SIZE \div 2
    <3>2. q \in Int /\ h \in Int /\ PAGE_SIZE = 2 * h /\ a + 3 = PAGE_SIZE * q
      BY <2>1, <2>2, <3>1 DEF a
    <3> HIDE DEF q, h
    <3> DEFINE p == h * q
    <3>3. p \in Int /\ a + 3 = 2 * p
      BY <3>2
    <3> HIDE DEF p
    <3> QED
      BY <2>1, <3>3 DEF a
  <2> QED
    BY <2>3, <2>4 DEF LooksLarge
<1>2. ASSUME HeapInv, NEW l \in large PROVE LooksLarge(LargePointer(l))
  <2> DEFINE p == l.page
  <2>1. p \in Nat
    BY <1>2 DEF HeapInv, Loop
  <2> HIDE DEF p
  <2>2. PAGE_SIZE \in Nat /\ PAGE_SIZE >= 12
    BY Constants
  <2> DEFINE m == p * PAGE_SIZE
  <2>3. m \in Nat /\ m % PAGE_SIZE = 0
    BY <2>1, <2>2
  <2> HIDE DEF m
  <2>4. LargePointer(l) - 1 = m
    BY <2>3 DEF LargePointer, m, p
  <2> QED
    BY <2>3, <2>4 DEF LooksLarge
<1>3. HeapInv => KindsDistinct
  BY <1>1, <1>2, Zenon DEF KindsDistinct
<1> QED
  BY <1>3, Invariance, PTL

\* Every page has one owner and none is lost between the heap, large allocations, the
\* other clients and the physical allocator, as long as the pages of the large
\* allocations adjoined, also after one that failed half way: for any set of pages.
THEOREM PagesStayAccounted == HeapSpec => []PagesAccounted
<1>1. ASSUME HeapInv PROVE PagesAccounted
  <2> DEFINE owners == <<pmm_free, heap_pages, others, InLoop>>
             big == UNION {LargePages(l) : l \in large}
  <2> SUFFICES ASSUME ~fragmented
               PROVE  /\ \A i, j \in DOMAIN owners : i # j => owners[i] \intersect owners[j] = {}
                      /\ \A i \in DOMAIN owners : owners[i] \intersect big = {}
                      /\ \A l1, l2 \in large :
                             l1 # l2 => LargePages(l1) \intersect LargePages(l2) = {}
                      /\ (UNION Range(owners)) \union big = Frames
    BY Zenon DEF PagesAccounted
  <2>1. Accounted(pmm_free, heap_pages, others, InLoop, large)
    BY <1>1 DEF HeapInv, Owned
  <2>2. /\ DOMAIN owners = {1, 2, 3, 4}
        /\ owners[1] = pmm_free /\ owners[2] = heap_pages
        /\ owners[3] = others /\ owners[4] = InLoop
    OBVIOUS
  <2> HIDE DEF owners
  <2>3. \A i, j \in DOMAIN owners : i # j => owners[i] \intersect owners[j] = {}
    <3>1. /\ owners[1] \intersect owners[2] = {} /\ owners[1] \intersect owners[3] = {}
          /\ owners[1] \intersect owners[4] = {} /\ owners[2] \intersect owners[3] = {}
          /\ owners[2] \intersect owners[4] = {} /\ owners[3] \intersect owners[4] = {}
      BY <2>1, <2>2, Zenon DEF Accounted
    <3> QED
      BY <2>2, <3>1
  <2>4. \A i \in DOMAIN owners : owners[i] \intersect big = {}
    <3>1. \A f \in big : f \notin pmm_free /\ f \notin heap_pages /\ f \notin others /\ f \notin InLoop
      BY <2>1, Zenon DEF Accounted
    <3> HIDE DEF big
    <3> QED
      BY <2>2, <3>1, Zenon
  <2>5. \A l1, l2 \in large : l1 # l2 => LargePages(l1) \intersect LargePages(l2) = {}
    BY <2>1, Zenon DEF Accounted
  <2>6. (UNION Range(owners)) \union big = Frames
    <3> DEFINE all == UNION Range(owners)
    <3>1. \A f : f \in all <=> f \in pmm_free \/ f \in heap_pages \/ f \in others \/ f \in InLoop
      BY <2>2, Zenon DEF Range
    <3>2. \A f : f \in big <=> \E l \in large : f \in LargePages(l)
      BY Zenon
    <3>3. \A f : f \in Frames <=> \/ f \in pmm_free \/ f \in heap_pages \/ f \in others
                                  \/ f \in InLoop \/ \E l \in large : f \in LargePages(l)
      BY <2>1, Zenon DEF Accounted
    <3> HIDE DEF all, big
    <3>4. ASSUME NEW f PROVE f \in all \union big <=> f \in Frames
      <4>1. f \in all \union big <=> f \in all \/ f \in big
        OBVIOUS
      <4> QED
        BY <3>1, <3>2, <3>3, <4>1, Zenon
    <3>5. all \union big = Frames
      BY <3>4
    <3> QED
      BY <3>5 DEF all
  <2> QED
    BY <2>3, <2>4, <2>5, <2>6, Zenon
<1>2. HeapInv => PagesAccounted
  BY <1>1, Zenon
<1> QED
  BY <1>2, Invariance, PTL

-----------------------------------------------------------------------------
(***************************************************************************)
(* The physical memory manager.                                            *)
(***************************************************************************)
\* Values below the modulus are not changed by the wrap of used_blocks.
LEMMA NoWrap == ASSUME NEW n \in 0..max_blocks PROVE n % Wrap = n
BY PmmAssumption

-----------------------------------------------------------------------------
(***************************************************************************)
(* Reserved memory, with preemption.  The invariant follows a block from   *)
(* the test of its bit to the update: it was seen free, or is owned, so it *)
(* is not reserved; and the word it tested, which may be stored back,      *)
(* holds the reserved bits.                                                *)
(***************************************************************************)
Shape ==
    /\ pmm_bitmap \in SUBSET Blocks
    /\ boot \in {"init", "deinit", "up"}
    /\ index \in Nat
    /\ owned \in [Clients -> SUBSET Blocks]
    /\ boot # "up" => step = "idle" /\ owned = [c \in Clients |-> {}]
    /\ boot = "init" => pmm_bitmap = Blocks
    /\ boot = "deinit" => {b \in Blocks : b < FreeStart} \subseteq pmm_bitmap
    /\ step \in {"set", "inc", "unset"} => index \in Blocks \ Reserved
    /\ seen \in SUBSET Blocks
    /\ step \in {"set", "unset"} => Reserved \intersect Word(index) \subseteq seen

KeptInv == Shape /\ ReservedKept

\* The state after pmm_init satisfies the invariant.
LEMMA KeptInit == Init => KeptInv
BY PmmAssumption DEF Init, KeptInv, Shape, ReservedKept, Blocks, Clients

\* Every step of the shell, of the other clients and of the boot keeps it.
LEMMA KeptStep == KeptInv /\ [Next]_vars => KeptInv'
<1> SUFFICES ASSUME KeptInv, [Next]_vars PROVE KeptInv'
  OBVIOUS
<1> USE DEF KeptInv, Shape, ReservedKept
<1>1. CASE FreeMemory
  BY <1>1, PmmAssumption DEF FreeMemory, pmm_init_region, Region, Blocks
<1>2. CASE ReserveKernel
  <2>1. Reserved \subseteq pmm_bitmap \union Region(KernelStart, KernelBlocks)
    BY <1>2, PmmAssumption DEF ReserveKernel, Reserved, Region, Blocks
  <2>2. Region(KernelStart, KernelBlocks) \subseteq Blocks
    BY PmmAssumption DEF Region, Blocks
  <2>3. pmm_bitmap' = pmm_bitmap \union Region(KernelStart, KernelBlocks)
    BY <1>2 DEF ReserveKernel, pmm_deinit_region
  <2>4. QED BY <1>2, <2>1, <2>2, <2>3 DEF ReserveKernel, Clients
<1>3. CASE AllocStart
  BY <1>3, Zenon DEF AllocStart
<1>4. CASE AllocTest
  <2>1. Reserved \intersect Word(index) \subseteq pmm_bitmap \intersect Word(index)
    BY <1>4 DEF AllocTest
  <2>2. index < max_blocks => index \in Blocks
    BY PmmAssumption DEF Blocks
  <2>3. CASE index >= max_blocks /\ step' = "idle" /\ UNCHANGED <<index, seen>>
    BY <1>4, <2>3, Zenon DEF AllocTest
  <2>4. CASE index' = index + 1 /\ UNCHANGED <<step, seen>>
    BY <1>4, <2>4 DEF AllocTest
  <2>5. CASE /\ index < max_blocks /\ index \notin pmm_bitmap
             /\ step' = "set" /\ seen' = pmm_bitmap \intersect Word(index)
             /\ UNCHANGED index
    <3>1. boot = "up" /\ index \in Blocks \ Reserved
      BY <1>4, <2>2, <2>5 DEF AllocTest
    <3>2. QED BY <1>4, <2>1, <2>5, <3>1, Zenon DEF AllocTest
  <2>6. QED BY <1>4, <2>3, <2>4, <2>5 DEF AllocTest
<1>5. CASE AllocSet
  BY <1>5 DEF AllocSet, StoreWord
<1>6. CASE AllocCount
  BY <1>6, Zenon DEF AllocCount, Clients
<1>7. ASSUME NEW b \in Blocks, FreeTest(b) PROVE KeptInv'
  <2>1. b \in Blocks \ Reserved /\ b \in Nat
    BY <1>7, PmmAssumption DEF FreeTest, Clients, Blocks
  <2>2. Reserved \intersect Word(b) \subseteq pmm_bitmap \intersect Word(b)
    BY <1>7 DEF FreeTest
  <2>3. QED BY <1>7, <2>1, <2>2, Zenon DEF FreeTest, Clients
<1>8. CASE FreeUnset
  BY <1>8, Zenon DEF FreeUnset, StoreWord
<1>9. CASE FreeCount
  BY <1>9, Zenon DEF FreeCount
<1>10. ASSUME NEW c \in Others, pmm_alloc_block(c) PROVE KeptInv'
  BY <1>10 DEF pmm_alloc_block, FirstFree, Clients
<1>11. ASSUME NEW c \in Others, NEW b \in Blocks, pmm_free_block(c, b) PROVE KeptInv'
  <2>1. boot = "up" /\ b \notin Reserved
    BY <1>11 DEF pmm_free_block, Clients
  <2>2. QED BY <1>11, <2>1, Zenon DEF pmm_free_block, Clients
<1>12. CASE UNCHANGED vars
  BY <1>12 DEF vars
<1>13. QED
  BY <1>1, <1>2, <1>3, <1>4, <1>5, <1>6, <1>7, <1>8, <1>9, <1>10, <1>11, <1>12, Zenon
     DEF Next, ShellStep, OtherStep

\* Low memory and the kernel image stay in use whatever interrupts an
\* allocation.
THEOREM ReservedAlways == Spec => []ReservedKept
<1>1. KeptInv => ReservedKept
  BY DEF KeptInv
<1>2. QED BY <1>1, KeptInit, KeptStep, PTL DEF Spec

-----------------------------------------------------------------------------
(***************************************************************************)
(* Until the shell is preempted in the allocator.  The counter, the scan   *)
(* and the bitmap depend on each other: the scan finds a clear bit because *)
(* the counter is below the limit, and the counter stays right because the *)
(* bit found was clear.  That a page freed has its bit set, and that no    *)
(* other client has the page in transit, needs the pages not shared.       *)
(***************************************************************************)
\* The block being allocated or freed has its bit set and no owner.
InTransit == index \in pmm_bitmap /\ \A c \in Clients : index \notin owned[c]

AloneInv ==
    /\ TypeOK
    /\ Counted
    /\ BitAhead
    /\ PagesNotShared
    /\ boot # "up" => step = "idle" /\ owned = [c \in Clients |-> {}]
    /\ step = "set" => index \in Blocks \ pmm_bitmap
    /\ step \in {"inc", "unset"} => InTransit
    /\ step = "dec" => index \in Blocks \ pmm_bitmap
    /\ step \in {"set", "unset"} => seen = pmm_bitmap \intersect Word(index)
    /\ step \in {"test", "set", "inc"} => count = used_blocks

\* Alone, the word stored is the word that is there, but for bit index.
LEMMA AloneStores ==
    ASSUME AloneInv
    PROVE  /\ AllocSet => pmm_bitmap' = pmm_bitmap \union {index}
           /\ FreeUnset => pmm_bitmap' = pmm_bitmap \ {index}
           /\ AllocCount => used_blocks' = (used_blocks + 1) % Wrap
<1>1. ASSUME AllocSet PROVE pmm_bitmap' = pmm_bitmap \union {index}
  BY <1>1 DEF AllocSet, StoreWord, AloneInv
<1>2. ASSUME FreeUnset PROVE pmm_bitmap' = pmm_bitmap \ {index}
  <2>1. index \in Word(index)
    BY <1>2 DEF FreeUnset, AloneInv, TypeOK, InTransit, Word
  <2>2. QED BY <1>2, <2>1 DEF FreeUnset, StoreWord, AloneInv
<1>3. ASSUME AllocCount PROVE used_blocks' = (used_blocks + 1) % Wrap
  BY <1>3 DEF AllocCount, AloneInv
<1>4. QED BY <1>1, <1>2, <1>3

\* A set of blocks is finite and has at most max_blocks elements.
LEMMA BlocksFinite ==
    /\ IsFiniteSet(Blocks) /\ Cardinality(Blocks) = max_blocks
    /\ \A S \in SUBSET Blocks :
          /\ IsFiniteSet(S)
          /\ Cardinality(S) \in 0..max_blocks
          /\ Cardinality(S) = max_blocks => S = Blocks
<1>1. IsFiniteSet(Blocks) /\ Cardinality(Blocks) = max_blocks
  BY FS_Interval, PmmAssumption DEF Blocks
<1>2. ASSUME NEW S \in SUBSET Blocks
      PROVE  /\ IsFiniteSet(S)
             /\ Cardinality(S) \in 0..max_blocks
             /\ Cardinality(S) = max_blocks => S = Blocks
  <2>1. IsFiniteSet(S) /\ Cardinality(S) <= max_blocks
        /\ (Cardinality(S) = max_blocks => S = Blocks)
    BY <1>1, FS_Subset
  <2>2. Cardinality(S) \in Nat
    BY <2>1, FS_CardinalityType
  <2>3. QED BY <2>1, <2>2, PmmAssumption
<1>3. QED BY <1>1, <1>2

\* The state after pmm_init satisfies the invariant.
LEMMA AloneInit == Init => AloneInv
BY BlocksFinite, PmmAssumption
   DEF Init, AloneInv, TypeOK, Counted, BitAhead, PagesNotShared, InTransit, Clients

\* Clearing a region takes the number of bits it clears off the counter.
LEMMA FreeMemoryAlone == AloneInv /\ FreeMemory => AloneInv'
<1> SUFFICES ASSUME AloneInv, FreeMemory PROVE AloneInv'
  OBVIOUS
<1> DEFINE cleared == Region(FreeStart, max_blocks - FreeStart) \intersect pmm_bitmap
<1>1. /\ pmm_bitmap \in SUBSET Blocks
      /\ step = "idle"
      /\ used_blocks = Cardinality(pmm_bitmap)
      /\ owned = [c \in Clients |-> {}]
  BY BlocksFinite, PmmAssumption DEF AloneInv, TypeOK, Counted, FreeMemory
<1>2. /\ pmm_bitmap' = pmm_bitmap \ cleared
      /\ used_blocks' = (used_blocks - Cardinality(cleared)) % Wrap
      /\ boot' = "deinit"
      /\ UNCHANGED <<step, index, seen, count, owned>>
  BY DEF FreeMemory, pmm_init_region
<1>3. Cardinality(pmm_bitmap \ cleared) = Cardinality(pmm_bitmap) - Cardinality(cleared)
  <2>1. pmm_bitmap \intersect cleared = cleared
    OBVIOUS
  <2>2. IsFiniteSet(pmm_bitmap)
    BY <1>1, BlocksFinite
  <2> HIDE DEF cleared
  <2>3. Cardinality(pmm_bitmap \ cleared)
          = Cardinality(pmm_bitmap) - Cardinality(pmm_bitmap \intersect cleared)
    BY <2>2, FS_Difference, Zenon
  <2>4. QED BY <2>1, <2>3
<1>4. pmm_bitmap \ cleared \in SUBSET Blocks
  BY <1>1
<1> HIDE DEF cleared
<1>5. used_blocks' = Cardinality(pmm_bitmap')
  BY <1>1, <1>2, <1>3, <1>4, BlocksFinite, NoWrap
<1>6. used_blocks' \in 0..max_blocks
  BY <1>2, <1>4, <1>5, BlocksFinite
<1>7. QED BY <1>1, <1>2, <1>4, <1>5, <1>6, PmmAssumption
         DEF AloneInv, TypeOK, Counted, BitAhead, PagesNotShared, InTransit, Clients

\* Setting a region adds the number of bits it sets to the counter.
LEMMA ReserveKernelAlone == AloneInv /\ ReserveKernel => AloneInv'
<1> SUFFICES ASSUME AloneInv, ReserveKernel PROVE AloneInv'
  OBVIOUS
<1> DEFINE marked == Region(KernelStart, KernelBlocks) \ pmm_bitmap
<1>1. /\ pmm_bitmap \in SUBSET Blocks
      /\ step = "idle"
      /\ used_blocks = Cardinality(pmm_bitmap)
      /\ owned = [c \in Clients |-> {}]
  BY BlocksFinite, PmmAssumption DEF AloneInv, TypeOK, Counted, ReserveKernel
<1>2. /\ pmm_bitmap' = pmm_bitmap \union marked
      /\ used_blocks' = (used_blocks + Cardinality(marked)) % Wrap
      /\ boot' = "up"
      /\ UNCHANGED <<step, index, seen, count, owned>>
  BY DEF ReserveKernel, pmm_deinit_region
<1>3. marked \in SUBSET Blocks /\ pmm_bitmap \union marked \in SUBSET Blocks
  <2>1. Region(KernelStart, KernelBlocks) \subseteq Blocks
    BY PmmAssumption DEF Region, Blocks
  <2>2. QED BY <1>1, <2>1
<1>4. Cardinality(pmm_bitmap \union marked) = Cardinality(pmm_bitmap) + Cardinality(marked)
  <2>1. pmm_bitmap \intersect marked = {}
    OBVIOUS
  <2>2. IsFiniteSet(pmm_bitmap) /\ IsFiniteSet(marked)
    BY <1>1, <1>3, BlocksFinite
  <2>3. Cardinality(pmm_bitmap) \in Int /\ Cardinality(marked) \in Int
    BY <1>1, <1>3, BlocksFinite
  <2> HIDE DEF marked
  <2>4. QED BY <2>1, <2>2, <2>3, FS_Union, FS_EmptySet
<1> HIDE DEF marked
<1>5. used_blocks' = Cardinality(pmm_bitmap')
  BY <1>1, <1>2, <1>3, <1>4, BlocksFinite, NoWrap, Zenon
<1>6. used_blocks' \in 0..max_blocks
  BY <1>2, <1>3, <1>5, BlocksFinite
<1>7. QED BY <1>1, <1>2, <1>3, <1>5, <1>6, PmmAssumption
         DEF AloneInv, TypeOK, Counted, BitAhead, PagesNotShared, InTransit, Clients

\* Every step of the boot and of the shell keeps the invariant.
LEMMA AloneShellStep == AloneInv /\ (FreeMemory \/ ReserveKernel \/ ShellStep) => AloneInv'
<1> SUFFICES ASSUME AloneInv, FreeMemory \/ ReserveKernel \/ ShellStep PROVE AloneInv'
  OBVIOUS
<1>0. /\ Shell \in Clients
      /\ pmm_bitmap \in SUBSET Blocks /\ IsFiniteSet(pmm_bitmap)
      /\ Cardinality(pmm_bitmap) \in 0..max_blocks
      /\ max_blocks \in Nat
      /\ owned \in [Clients -> SUBSET Blocks]
  BY BlocksFinite, PmmAssumption, Zenon DEF Clients, AloneInv, TypeOK
<1>1. CASE AllocStart
  <2>1. Cardinality(pmm_bitmap) < max_blocks
    BY <1>1, <1>0 DEF AllocStart, AloneInv, Counted, TypeOK
  <2>2. pmm_bitmap # Blocks
    BY <2>1, <1>0, BlocksFinite
  <2>3. \E b \in Blocks : b >= 0 /\ b \notin pmm_bitmap
    <3>1. PICK b \in Blocks : b \notin pmm_bitmap
      BY <2>2, <1>0
    <3>2. b >= 0
      BY <3>1, <1>0 DEF Blocks
    <3>3. QED BY <3>1, <3>2
  <2>4. QED BY <1>1, <1>0, <2>3 DEF AllocStart, AloneInv, TypeOK, Counted, BitAhead, PagesNotShared, InTransit
<1>2. CASE AllocTest
  <2>1. PICK b \in Blocks : b >= index /\ b \notin pmm_bitmap
    BY <1>2 DEF AllocTest, AloneInv, BitAhead
  <2>2. index < max_blocks /\ index \in Nat
    BY <2>1, <1>0 DEF AloneInv, TypeOK, Blocks
  <2>3. CASE index \in pmm_bitmap
    <3>1. /\ index' = index + 1 /\ step = "test"
          /\ UNCHANGED <<step, pmm_bitmap, used_blocks, boot, seen, count, owned>>
      BY <1>0, <1>2, <2>2, <2>3 DEF AllocTest
    <3>2. b >= index + 1
      BY <2>1, <2>2, <2>3, <1>0 DEF Blocks
    <3>3. QED BY <1>0, <2>1, <2>2, <3>1, <3>2
             DEF AloneInv, TypeOK, Counted, BitAhead, PagesNotShared, InTransit
  <2>4. CASE index \notin pmm_bitmap
    <3>1. index \in Blocks
      BY <2>2, <1>0 DEF Blocks
    <3>2. QED BY <1>0, <1>2, <2>2, <2>4, <3>1, Zenon
             DEF AllocTest, AloneInv, TypeOK, Counted, BitAhead, PagesNotShared, InTransit
  <2>5. QED BY <2>3, <2>4
<1>3. CASE AllocSet
  <2>1. index \in Blocks \ pmm_bitmap /\ step = "set"
    BY <1>3 DEF AllocSet, AloneInv
  <2>2. Cardinality(pmm_bitmap \union {index}) = Cardinality(pmm_bitmap) + 1
    BY <2>1, <1>0, FS_AddElement, Zenon
  <2>3. /\ pmm_bitmap' = pmm_bitmap \union {index} /\ step' = "inc"
        /\ UNCHANGED <<used_blocks, boot, index, seen, count, owned>>
    BY <1>3, AloneStores, Zenon DEF AllocSet
  <2>4. QED BY <1>0, <2>1, <2>2, <2>3 DEF AloneInv, TypeOK, Counted, BitAhead, PagesNotShared, InTransit
<1>4. CASE AllocCount
  <2>0. step = "inc" /\ InTransit /\ Counted /\ used_blocks \in 0..max_blocks
    BY <1>4, Zenon DEF AllocCount, AloneInv, TypeOK
  <2>1. /\ used_blocks + 1 = Cardinality(pmm_bitmap)
        /\ used_blocks + 1 \in 0..max_blocks
        /\ index \in pmm_bitmap /\ index \in Blocks
    BY <2>0, <1>0 DEF Counted, InTransit
  <2>2. used_blocks' = used_blocks + 1
    BY <1>4, <2>1, NoWrap, AloneStores, Zenon
  <2>3. PagesNotShared' /\ owned' \in [Clients -> SUBSET Blocks]
    <3>1. /\ owned' = [owned EXCEPT ![Shell] = @ \union {index}]
          /\ pmm_bitmap' = pmm_bitmap
      BY <1>4 DEF AllocCount
    <3>2. PagesNotShared
      BY DEF AloneInv
    <3> QED
      BY <1>0, <2>0, <2>1, <3>1, <3>2 DEF PagesNotShared, InTransit
  <2>4. /\ step' = "idle" /\ boot' = boot /\ index' = index /\ seen' = seen /\ count' = count
        /\ pmm_bitmap' = pmm_bitmap /\ boot = "up"
    BY <1>4, <2>0 DEF AllocCount, AloneInv
  <2>5. QED BY <1>0, <2>1, <2>2, <2>3, <2>4 DEF AloneInv, TypeOK, Counted, BitAhead
<1>5. ASSUME NEW b \in Blocks, FreeTest(b) PROVE AloneInv'
  <2>0. b \in owned[Shell] /\ PagesNotShared /\ owned' = [owned EXCEPT ![Shell] = @ \ {b}]
    BY <1>5, Zenon DEF FreeTest, AloneInv
  <2>1. b \in pmm_bitmap /\ b \in 0..max_blocks
    BY <2>0, <1>0 DEF PagesNotShared, Blocks
  <2>2. /\ owned' \in [Clients -> SUBSET Blocks]
        /\ \A c, d \in Clients : c # d => owned'[c] \intersect owned'[d] = {}
        /\ \A c \in Clients : owned'[c] \subseteq pmm_bitmap /\ b \notin owned'[c]
    BY <2>0, <1>0 DEF PagesNotShared
  <2>3. step = "idle" /\ step' = "unset" /\ index' = b /\ boot = "up"
        /\ seen' = pmm_bitmap \intersect Word(b)
        /\ UNCHANGED <<pmm_bitmap, used_blocks, boot, count>>
    BY <1>5, <2>1, Zenon DEF FreeTest
  <2>4. PagesNotShared' /\ InTransit'
    BY <2>1, <2>2, <2>3 DEF PagesNotShared, InTransit
  <2>5. QED BY <1>0, <2>1, <2>2, <2>3, <2>4, Zenon DEF AloneInv, TypeOK, Counted, BitAhead
<1>6. CASE FreeUnset
  <2>1. index \in pmm_bitmap /\ (\A c \in Clients : index \notin owned[c]) /\ step = "unset"
    BY <1>6, Zenon DEF FreeUnset, AloneInv, InTransit
  <2>2. Cardinality(pmm_bitmap \ {index}) = Cardinality(pmm_bitmap) - 1
    BY <2>1, <1>0, FS_RemoveElement, Zenon
  <2>3. /\ pmm_bitmap' = pmm_bitmap \ {index} /\ step' = "dec"
        /\ UNCHANGED <<used_blocks, boot, index, seen, count, owned>>
    BY <1>6, AloneStores, Zenon DEF FreeUnset
  <2>4. QED BY <1>0, <2>1, <2>2, <2>3 DEF AloneInv, TypeOK, Counted, BitAhead, PagesNotShared, InTransit
<1>7. CASE FreeCount
  <2>0. step = "dec" /\ Counted /\ used_blocks \in 0..max_blocks
    BY <1>7, Zenon DEF FreeCount, AloneInv, TypeOK
  <2>1. /\ used_blocks - 1 = Cardinality(pmm_bitmap)
        /\ used_blocks - 1 \in 0..max_blocks
    BY <2>0, <1>0 DEF Counted
  <2>2. used_blocks' = used_blocks - 1
    BY <1>7, <2>1, NoWrap, Zenon DEF FreeCount
  <2>3. QED BY <1>0, <1>7, <2>1, <2>2 DEF FreeCount, AloneInv, TypeOK, Counted, BitAhead, PagesNotShared, InTransit
<1>8. QED
  BY <1>1, <1>2, <1>3, <1>4, <1>5, <1>6, <1>7, FreeMemoryAlone, ReserveKernelAlone, Zenon
     DEF ShellStep

\* A call of another client that finds the shell outside the allocator keeps it.
LEMMA AloneOtherStep == AloneInv /\ step = "idle" /\ OtherStep => AloneInv'
<1> SUFFICES ASSUME AloneInv, step = "idle", OtherStep PROVE AloneInv'
  OBVIOUS
<1>0. /\ Others \subseteq Clients
      /\ pmm_bitmap \in SUBSET Blocks /\ IsFiniteSet(pmm_bitmap)
      /\ Cardinality(pmm_bitmap) \in 0..max_blocks
      /\ max_blocks \in Nat
      /\ owned \in [Clients -> SUBSET Blocks]
      /\ PagesNotShared
  BY BlocksFinite, PmmAssumption, Zenon DEF Clients, AloneInv, TypeOK
<1>1. used_blocks = Cardinality(pmm_bitmap) /\ used_blocks \in 0..max_blocks
  BY <1>0 DEF AloneInv, Counted, TypeOK
<1>2. ASSUME NEW c \in Others, pmm_alloc_block(c) PROVE AloneInv'
  <2>1. PICK b \in Blocks : /\ b \notin pmm_bitmap
                           /\ pmm_bitmap' = pmm_bitmap \union {b}
                           /\ used_blocks' = (used_blocks + 1) % Wrap
                           /\ owned' = [owned EXCEPT ![c] = @ \union {b}]
    BY <1>2, Zenon DEF pmm_alloc_block, FirstFree
  <2>2. used_blocks < max_blocks /\ boot = "up" /\ UNCHANGED <<boot, step, index, seen, count>>
    BY <1>2 DEF pmm_alloc_block
  <2>3. Cardinality(pmm_bitmap \union {b}) = Cardinality(pmm_bitmap) + 1
    BY <2>1, <1>0, FS_AddElement, Zenon
  <2>4. used_blocks + 1 \in 0..max_blocks
    BY <1>1, <2>2, <1>0
  <2>5. used_blocks' = used_blocks + 1
    BY <2>1, <2>4, NoWrap, Zenon
  <2>6. PagesNotShared' /\ owned' \in [Clients -> SUBSET Blocks]
    BY <1>0, <2>1 DEF PagesNotShared
  <2>7. QED BY <1>0, <1>1, <2>1, <2>2, <2>3, <2>4, <2>5, <2>6
           DEF AloneInv, TypeOK, Counted, BitAhead
<1>3. ASSUME NEW c \in Others, NEW b \in Blocks, pmm_free_block(c, b) PROVE AloneInv'
  <2>1. b \in owned[c] /\ owned' = [owned EXCEPT ![c] = @ \ {b}] /\ boot = "up"
    <3>1. b \in owned[c] /\ owned' = [owned EXCEPT ![c] = @ \ {b}]
      BY <1>3 DEF pmm_free_block
    <3>2. boot = "up"
      BY <1>0, <3>1 DEF AloneInv
    <3> QED BY <3>1, <3>2
  <2>2. b \in pmm_bitmap
    BY <1>0, <2>1 DEF PagesNotShared
  <2>3. /\ pmm_bitmap' = pmm_bitmap \ {b} /\ used_blocks' = (used_blocks - 1) % Wrap
        /\ UNCHANGED <<boot, step, index, seen, count>>
    BY <1>3, <2>2 DEF pmm_free_block
  <2>4. Cardinality(pmm_bitmap \ {b}) = Cardinality(pmm_bitmap) - 1
    BY <2>2, <1>0, FS_RemoveElement, Zenon
  <2>5. used_blocks - 1 \in 0..max_blocks
    <3>1. pmm_bitmap \ {b} \in SUBSET Blocks
      BY <1>0
    <3>2. Cardinality(pmm_bitmap \ {b}) \in 0..max_blocks
      BY <3>1, BlocksFinite
    <3> QED BY <3>2, <2>4, <1>1
  <2>6. used_blocks' = used_blocks - 1
    BY <2>3, <2>5, NoWrap, Zenon
  <2>7. PagesNotShared' /\ owned' \in [Clients -> SUBSET Blocks]
    <3>1. /\ owned' \in [Clients -> SUBSET Blocks]
          /\ \A d \in Clients : owned'[d] = IF d = c THEN owned[c] \ {b} ELSE owned[d]
      BY <1>0, <2>1
    <3>2. \A d \in Clients : owned'[d] \subseteq owned[d] /\ b \notin owned'[d]
      BY <1>0, <2>1, <3>1 DEF PagesNotShared
    <3> QED BY <1>0, <2>3, <3>1, <3>2 DEF PagesNotShared
  <2>8. QED BY <1>0, <1>1, <2>1, <2>3, <2>4, <2>5, <2>6, <2>7
           DEF AloneInv, TypeOK, Counted, BitAhead
<1>4. QED BY <1>2, <1>3 DEF OtherStep

\* Until the shell is preempted inside the allocator the invariant holds.
THEOREM AloneInvariance == Spec => [](~preempted => AloneInv)
<1>1. ASSUME ~preempted => AloneInv, [Next]_vars, ~preempted' PROVE AloneInv'
  <2>1. CASE UNCHANGED vars
    BY <1>1, <2>1 DEF vars, AloneInv, TypeOK, Counted, BitAhead, PagesNotShared, InTransit, Word
  <2>2. CASE (FreeMemory \/ ReserveKernel \/ ShellStep) /\ UNCHANGED preempted
    BY <1>1, <2>2, AloneShellStep, Zenon
  <2>3. CASE OtherStep /\ preempted' = (preempted \/ step # "idle")
    BY <1>1, <2>3, AloneOtherStep, Zenon
  <2>4. QED BY <1>1, <2>1, <2>2, <2>3, Zenon DEF Next
<1>2. QED BY <1>1, AloneInit, PTL DEF Spec

\* Until then the counter stays within the memory and the scan within the bitmap.
THEOREM AloneTypes == Spec => [](~preempted => TypeOK)
<1>1. AloneInv => TypeOK
  BY DEF AloneInv
<1>2. QED BY <1>1, AloneInvariance, PTL

\* used_blocks is the number of set bits until the shell is preempted in the
\* allocator.
THEOREM AloneCounts == Spec => []UsedMatchesBits
<1>1. (~preempted => AloneInv) => UsedMatchesBits
  BY DEF AloneInv, UsedMatchesBits
<1>2. QED BY <1>1, AloneInvariance, PTL

\* Until then pmm_alloc_block finds a page whenever the counter says there is one.
THEOREM AloneFinds == Spec => []ScanFinds
<1>1. (~preempted => AloneInv) => ScanFinds
  BY DEF AloneInv, ScanFinds
<1>2. QED BY <1>1, AloneInvariance, PTL

\* Until then no page has two owners, however the calls of the clients interleave.
THEOREM AloneNotShared == Spec => [](~preempted => PagesNotShared)
<1>1. AloneInv => PagesNotShared
  BY DEF AloneInv
<1>2. QED BY <1>1, AloneInvariance, PTL

-----------------------------------------------------------------------------
\* The bitmap implements the page allocator: until the shell is preempted in it
\* every step of mm/pmm.c sets the regions, allocates a free page, frees a held
\* one, or changes nothing that a client can see.
THEOREM AloneImplements == Spec => ImplementsAllocator
<1> USE DEF Allocator!Init, Allocator!Next, Allocator!SetRegions, Allocator!Alloc, Allocator!Free
<1>1. Init => Allocator!Init
  BY Zenon DEF Init, Held
<1>2. AloneInv /\ (FreeMemory \/ ReserveKernel \/ ShellStep)
        => [Allocator!Next]_<<Blocks \ pmm_bitmap, Held>>
  <2> SUFFICES ASSUME AloneInv, FreeMemory \/ ReserveKernel \/ ShellStep
               PROVE  [Allocator!Next]_<<Blocks \ pmm_bitmap, Held>>
    OBVIOUS
  <2>0. /\ Shell \in Clients
        /\ pmm_bitmap \in SUBSET Blocks
        /\ owned \in [Clients -> SUBSET Blocks]
    BY DEF Clients, AloneInv, TypeOK
  <2>1. CASE FreeMemory \/ ReserveKernel
    <3>1. step = "idle" /\ owned = [c \in Clients |-> {}] /\ UNCHANGED <<step, index, seen, count, owned>>
      BY <2>1 DEF FreeMemory, ReserveKernel, AloneInv
    <3>2. Held = [c \in Clients |-> {}] /\ Held' = Held
      BY <3>1 DEF Held
    <3>3. (Blocks \ pmm_bitmap)' \in SUBSET Blocks
      BY DEF Blocks
    <3>4. Allocator!SetRegions
      BY <3>2, <3>3, Zenon
    <3>5. QED BY <3>4, Zenon
  <2>2. CASE AllocStart \/ AllocTest
    BY <2>0, <2>2, Zenon DEF AllocStart, AllocTest, Held
  <2>3. CASE AllocSet
    <3>1. index \in Blocks \ pmm_bitmap /\ step = "set" /\ step' = "inc"
          /\ pmm_bitmap' = pmm_bitmap \union {index} /\ UNCHANGED <<index, owned>>
      BY <2>3, AloneStores, Zenon DEF AllocSet, AloneInv
    <3>2. (Blocks \ pmm_bitmap)' = (Blocks \ pmm_bitmap) \ {index}
      BY <3>1 DEF Blocks
    <3>3. Held' = [Held EXCEPT ![Shell] = @ \union {index}]
      BY <2>0, <3>1 DEF Held
    <3>4. QED BY <2>0, <3>1, <3>2, <3>3, Zenon
  <2>4. CASE AllocCount
    BY <2>0, <2>4, Zenon DEF AllocCount, Held
  <2>5. ASSUME NEW b \in Blocks, FreeTest(b) PROVE UNCHANGED <<Blocks \ pmm_bitmap, Held>>
    <3>1. b \in pmm_bitmap /\ b \in owned[Shell]
      BY <2>0, <2>5 DEF FreeTest, AloneInv, PagesNotShared
    <3>2. QED BY <2>0, <2>5, <3>1, Zenon DEF FreeTest, Held
  <2>6. CASE FreeUnset
    <3>0. index \in pmm_bitmap \ owned[Shell] /\ step = "unset"
      BY <2>0, <2>6, Zenon DEF FreeUnset, AloneInv, InTransit
    <3>1. index \in pmm_bitmap \ owned[Shell] /\ step = "unset" /\ step' = "dec"
          /\ pmm_bitmap' = pmm_bitmap \ {index} /\ UNCHANGED <<index, owned>>
      BY <2>6, <3>0, AloneStores, Zenon DEF FreeUnset
    <3>2. (Blocks \ pmm_bitmap)' = (Blocks \ pmm_bitmap) \union {index}
      BY <2>0, <3>1 DEF Blocks
    <3>3. Held' = [Held EXCEPT ![Shell] = @ \ {index}] /\ index \in Held[Shell]
      BY <2>0, <3>1 DEF Held
    <3>4. QED BY <2>0, <3>2, <3>3, Zenon
  <2>7. CASE FreeCount
    BY <2>0, <2>7, Zenon DEF FreeCount, Held
  <2>8. QED
    BY <2>1, <2>2, <2>3, <2>4, <2>5, <2>6, <2>7, Zenon DEF ShellStep
<1>3. AloneInv /\ step = "idle" /\ OtherStep => Allocator!Next
  <2> SUFFICES ASSUME AloneInv, step = "idle", OtherStep PROVE Allocator!Next
    OBVIOUS
  <2>0. /\ Others \subseteq Clients
        /\ pmm_bitmap \in SUBSET Blocks
        /\ owned \in [Clients -> SUBSET Blocks]
        /\ Held = owned
    BY DEF Clients, AloneInv, TypeOK, Held
  <2>1. ASSUME NEW c \in Others, pmm_alloc_block(c) PROVE Allocator!Next
    <3>1. PICK b \in Blocks : /\ b \notin pmm_bitmap
                             /\ pmm_bitmap' = pmm_bitmap \union {b}
                             /\ owned' = [owned EXCEPT ![c] = @ \union {b}]
      BY <2>1, Zenon DEF pmm_alloc_block, FirstFree
    <3>2. (Blocks \ pmm_bitmap)' = (Blocks \ pmm_bitmap) \ {b}
      BY <3>1 DEF Blocks
    <3>3. step' = "idle"
      BY <2>1 DEF pmm_alloc_block
    <3>4. Held' = [Held EXCEPT ![c] = @ \union {b}]
      BY <2>0, <3>1, <3>3 DEF Held
    <3> QED BY <2>0, <3>1, <3>2, <3>4, Zenon
  <2>2. ASSUME NEW c \in Others, NEW b \in Blocks, pmm_free_block(c, b) PROVE Allocator!Next
    <3>1. b \in owned[c] /\ owned' = [owned EXCEPT ![c] = @ \ {b}] /\ step' = "idle"
      BY <2>2 DEF pmm_free_block
    <3>2. b \in pmm_bitmap
      BY <2>0, <3>1 DEF AloneInv, PagesNotShared
    <3>3. pmm_bitmap' = pmm_bitmap \ {b}
      BY <2>2, <3>2 DEF pmm_free_block
    <3>4. (Blocks \ pmm_bitmap)' = (Blocks \ pmm_bitmap) \union {b}
      BY <2>0, <3>2, <3>3 DEF Blocks
    <3>5. Held' = [Held EXCEPT ![c] = @ \ {b}] /\ b \in Held[c]
      BY <2>0, <3>1 DEF Held
    <3> QED BY <2>0, <3>4, <3>5, Zenon
  <2>3. QED BY <2>1, <2>2, Zenon DEF OtherStep
<1>4. (~preempted => AloneInv) /\ [Next]_vars
        => [preempted' \/ Allocator!Next]_<<Blocks \ pmm_bitmap, Held>>
  <2>1. ASSUME UNCHANGED vars PROVE UNCHANGED <<Blocks \ pmm_bitmap, Held>>
    BY <2>1, Zenon DEF vars, Held, Blocks
  <2> HIDE DEF Allocator!Next
  <2>2. QED BY <1>2, <1>3, <2>1, Zenon DEF Next
<1>5. QED
  BY <1>1, <1>4, AloneInvariance, PTL DEF Spec, ImplementsAllocator
=============================================================================
