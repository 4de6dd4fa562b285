--------------------------------- MODULE Fat ---------------------------------
(***************************************************************************)
(* The FAT16 driver (fs/fat.c) on a disk that may refuse any sector, on a  *)
(* machine that may lose power between any two writes.                     *)
(*                                                                         *)
(* The disk holds copies of the FAT, the root directory and the clusters;  *)
(* memory holds fat_table and the operation in progress.  The shell calls  *)
(* one operation at a time, on a path it has just looked up, and writes    *)
(* from offset 0 of a file it has truncated; no program is executed        *)
(* meanwhile (Ata.tla has what that does to a sector).  Directories are    *)
(* the root (cluster 0) and the directories in it; the entries "." and     *)
(* ".." of a directory cluster are left out.                               *)
(***************************************************************************)
EXTENDS Integers, Sequences, FiniteSets

CONSTANTS
    total_clusters,
    RootSlots,           \* entries of the root directory
    DirSlots,            \* entries of a directory cluster, besides . and ..
    SectorSlots,         \* those of them in the first sector of the cluster
    CLUSTER_SIZE,        \* cells of a cluster
    Names,
    Texts,               \* what is written, sequences of cells
    Garbage,             \* a cell that holds anything
    MaxOps               \* operations the shell starts

Clusters == 2..(total_clusters + 1)
FREE == 0
EOC == total_clusters + 2

ASSUME FatAssumption ==
    /\ total_clusters \in Nat
    /\ RootSlots \in Nat \ {0} /\ DirSlots \in Nat /\ SectorSlots \in 0..DirSlots
    /\ CLUSTER_SIZE \in Nat \ {0}
    /\ "" \notin Names     \* a slot whose name is empty is free
    /\ \A t \in Texts : t \in Seq({t[i] : i \in 1..Len(t)}) /\ Len(t) \in Nat \ {0}
    /\ MaxOps \in Nat

VARIABLES
    \* The disk.
    copies,              \* the two copies of the FAT
    root,                \* slots of the root directory
    data,                \* the clusters
    \* Memory.
    fat_table,
    fat_dirty,
    pc,                  \* "idle", or the step of the operation in progress
    op,                  \* its locals
    ops,                 \* operations started
    \* History.
    exposed,             \* a cluster was allocated and no sync has ended since
    lost,                \* power failed while exposed, or a write updated the
                         \* entry of another file of that name
    unclean,             \* power failed while dirty, and no sync has ended since
    ioerror,             \* the disk refused a sector
    leaky,               \* power failed inside an operation, or a directory
                         \* went with its entries
    orphans,             \* first clusters of the files whose entry was not written
    written              \* what each file should contain

disk == <<copies, root, data>>
table == <<fat_table, fat_dirty>>
history == <<exposed, lost, unclean, ioerror, leaky, orphans, written>>
vars == <<disk, table, pc, op, ops, history>>

NoEntry == [name |-> "", dir |-> FALSE, first |-> 0, size |-> 0]
Entry(name, isdir, first, size) ==
    [name |-> name, dir |-> isdir, first |-> first, size |-> size]

EmptyDir == [kind |-> "dir", slots |-> [s \in 1..DirSlots |-> NoEntry]]
Cells(c) ==
    IF data[c].kind = "data" THEN data[c].cells ELSE [i \in 1..CLUSTER_SIZE |-> Garbage]

NoOp == [dir |-> 0, slot |-> 0, name |-> "", isdir |-> FALSE, text |-> <<>>,
         first |-> 0, cluster |-> 0, count |-> 0, bytes |-> 0]

-----------------------------------------------------------------------------
(***************************************************************************)
(* Directories and chains.                                                 *)
(***************************************************************************)
Slots(dir) == IF dir = 0 THEN root ELSE data[dir].slots
Live(dir) == {s \in DOMAIN Slots(dir) : Slots(dir)[s] # NoEntry}

\* The directories a path can name.
Dirs == {0} \union {root[s].first : s \in {r \in Live(0) : root[r].dir}}

Least(S) == CHOOSE x \in S : \A z \in S : x <= z

\* What a search of a directory for one of the slots S comes to: the first of them,
\* 0 when there is none.  A sector of the root that cannot be read is passed over;
\* a directory cluster that cannot be read ends the search.
Search(dir, S) ==
    IF S = {} THEN {[slot |-> 0, refused |-> FALSE]}
    ELSE {[slot |-> Least(S), refused |-> FALSE]}
         \union [slot : {0} \union (IF dir = 0 THEN S ELSE {}), refused : {TRUE}]

\* fat_find_in_dir, and the searches of fat_node_write and fat_node_unlink.
FindInDir(dir, name) == Search(dir, {s \in Live(dir) : Slots(dir)[s].name = name})

\* fat_find_free_entry: it looks at every entry of the cluster.
FindFreeEntry(dir) == Search(dir, DOMAIN Slots(dir) \ Live(dir))

\* ... but names its first sector, so that fat_write_dir_entry puts an entry of a
\* later one past its 512 byte buffer (over the scratch buffer that follows it)
\* and writes the sector back as it was.
Reaches(dir, slot) == dir = 0 \/ slot <= SectorSlots

FreeClusters == {c \in Clusters : fat_table[c] = FREE}

\* fat_alloc_cluster, when there is a free one.
NewCluster == Least(FreeClusters)

\* The i-th cluster of the chain that starts at c, or what ended it: EOC or FREE.
ChainAt(t, c, i) ==
    LET at[k \in 0..i] ==
            IF k = 0 THEN c
            ELSE IF at[k - 1] \in Clusters THEN t[at[k - 1]] ELSE at[k - 1]
    IN at[i]

ChainSet(t, c) == {ChainAt(t, c, i) : i \in 0..total_clusters} \intersect Clusters

-----------------------------------------------------------------------------
(***************************************************************************)
(* A mounted disk: nothing on it but an empty file without a cluster, as   *)
(* other systems make them, and perhaps an empty directory.                *)
(***************************************************************************)
Init ==
    /\ \E n1, n2 \in Names, isdir \in BOOLEAN :
        /\ isdir => n1 # n2 /\ RootSlots > 1 /\ total_clusters > 0
        /\ root = [s \in 1..RootSlots |->
               CASE s = 1 -> Entry(n1, FALSE, 0, 0)
                 [] s = 2 /\ isdir -> Entry(n2, TRUE, 2, 0)
                 [] OTHER -> NoEntry]
        /\ data = [c \in Clusters |->
               IF c = 2 /\ isdir THEN EmptyDir
               ELSE [kind |-> "data", cells |-> [i \in 1..CLUSTER_SIZE |-> Garbage]]]
        /\ fat_table = [c \in Clusters |-> IF c = 2 /\ isdir THEN EOC ELSE FREE]
    /\ copies = [i \in 1..2 |-> fat_table]
    /\ fat_dirty = FALSE
    /\ pc = "idle" /\ op = NoOp /\ ops = 0
    /\ exposed = FALSE /\ lost = FALSE /\ unclean = FALSE
    /\ ioerror = FALSE /\ leaky = FALSE /\ orphans = {}
    /\ written = [f \in {<<0, root[1].name>>} |-> <<>>]

\* Chains that may share clusters are not followed any further.
Begin ==
    /\ pc = "idle" /\ ~lost
    /\ ops < MaxOps
    /\ ops' = ops + 1

Done == pc' = "idle" /\ op' = NoOp

\* fat_set_cluster.
SetCluster(c, value) ==
    /\ fat_table' = [fat_table EXCEPT ![c] = value]
    /\ fat_dirty' = TRUE

PutSlot(dir, slot, entry) ==
    IF dir = 0
    THEN /\ root' = [root EXCEPT ![slot] = entry]
         /\ UNCHANGED data
    ELSE /\ data' = [data EXCEPT ![dir].slots[slot] = entry]
         /\ UNCHANGED root

Without(f) == [g \in DOMAIN written \ {f} |-> written[g]]
With(f, text) == [g \in DOMAIN written \union {f} |-> IF g = f THEN text ELSE written[g]]

-----------------------------------------------------------------------------
(***************************************************************************)
(* fat_node_create and fat_node_mkdir.  The shell's touch and mkdir end    *)
(* there; its echo goes on to write its text to the node it got.           *)
(***************************************************************************)
\* The checks and the allocation.
Create(dir, name, isdir, text) ==
    /\ Begin
    /\ FreeClusters # {}
    /\ \E found \in FindInDir(dir, name), spot \in FindFreeEntry(dir) :
        /\ found.slot = 0 /\ spot.slot # 0
        /\ ioerror' = (ioerror \/ found.refused \/ spot.refused)
        /\ op' = [NoOp EXCEPT !.dir = dir, !.slot = spot.slot, !.name = name,
                              !.isdir = isdir, !.text = text, !.first = NewCluster]
    /\ SetCluster(NewCluster, EOC)
    /\ pc' = IF isdir THEN "dirinit" ELSE "entry"
    /\ exposed' = TRUE
    /\ UNCHANGED <<disk, lost, unclean, leaky, orphans, written>>

\* A refused sector: the new cluster is given back, in memory.
GiveBack ==
    /\ SetCluster(op.first, FREE)
    /\ Done
    /\ ioerror' = TRUE
    /\ UNCHANGED <<disk, exposed, lost, unclean, leaky, orphans, written>>

DirInit ==
    /\ pc = "dirinit"
    /\ \/ /\ data' = [data EXCEPT ![op.first] = EmptyDir]
          /\ pc' = "entry"
          /\ UNCHANGED <<copies, root, table, op, history>>
       \/ GiveBack

\* fat_write_dir_entry.
WriteEntry ==
    /\ pc = "entry"
    /\ \/ /\ Reaches(op.dir, op.slot)
          /\ PutSlot(op.dir, op.slot, Entry(op.name, op.isdir, op.first, 0))
          /\ pc' = "sync"
          /\ written' = IF op.isdir THEN written ELSE With(<<op.dir, op.name>>, <<>>)
          /\ UNCHANGED <<copies, table, op, exposed, lost, unclean, ioerror, leaky, orphans>>
       \/ /\ ~Reaches(op.dir, op.slot)
          /\ pc' = "sync"
          /\ orphans' = orphans \union {op.first}
          /\ UNCHANGED <<disk, table, op, exposed, lost, unclean, ioerror, leaky, written>>
       \/ GiveBack

-----------------------------------------------------------------------------
(***************************************************************************)
(* fat_sync, one sector per copy; a refused one ends it with the FAT still *)
(* dirty, and its caller does not look.                                    *)
(***************************************************************************)
\* The operation returns, or echo goes on from the creation to the text.
Return ==
    \/ /\ op.text # <<>> /\ op.count = 0
       /\ op' = [op EXCEPT !.cluster = op.first, !.count = 1]
       /\ pc' = "extend"
    \/ /\ op.text = <<>> \/ op.count > 0
       /\ Done

SyncFails ==
    /\ Return
    /\ ioerror' = TRUE
    /\ UNCHANGED <<disk, table, exposed, lost, unclean, leaky, orphans, written>>

Sync ==
    /\ pc = "sync"
    /\ \/ /\ ~fat_dirty
          /\ Return
          /\ UNCHANGED <<disk, table, history>>
       \/ /\ fat_dirty
          /\ copies' = [copies EXCEPT ![1] = fat_table]
          /\ pc' = "sync copy"
          /\ UNCHANGED <<root, data, table, op, history>>
       \/ fat_dirty /\ SyncFails

\* MUTANT: the flag is cleared although the second copy was refused.
SyncCopyClears ==
    /\ pc = "sync copy"
    /\ \/ /\ copies' = [copies EXCEPT ![2] = fat_table]
          /\ UNCHANGED ioerror
       \/ /\ UNCHANGED copies
          /\ ioerror' = TRUE
    /\ fat_dirty' = FALSE
    /\ exposed' = FALSE /\ unclean' = FALSE
    /\ Return
    /\ UNCHANGED <<root, data, fat_table, lost, leaky, orphans, written>>

SyncCopy ==
    /\ pc = "sync copy"
    /\ \/ /\ copies' = [copies EXCEPT ![2] = fat_table]
          /\ fat_dirty' = FALSE
          /\ exposed' = FALSE /\ unclean' = FALSE
          /\ Return
          /\ UNCHANGED <<root, data, fat_table, lost, ioerror, leaky, orphans, written>>
       \/ SyncFails

-----------------------------------------------------------------------------
(***************************************************************************)
(* fat_node_unlink, and fat_node_rmdir, which is the same.                 *)
(***************************************************************************)
Unlink(dir, name) ==
    /\ Begin
    /\ \E found \in FindInDir(dir, name) :
        /\ found.slot # 0
        /\ ioerror' = (ioerror \/ found.refused)
        /\ op' = [NoOp EXCEPT !.dir = dir, !.slot = found.slot, !.name = name,
                              !.cluster = Slots(dir)[found.slot].first]
    /\ pc' = "mark"
    /\ UNCHANGED <<disk, table, exposed, lost, unclean, leaky, orphans, written>>

\* MUTANT: a refused sector does not end the call.
MarkUnchecked ==
    /\ pc = "mark"
    /\ \/ PutSlot(op.dir, op.slot, NoEntry) /\ UNCHANGED ioerror
       \/ UNCHANGED <<root, data>> /\ ioerror' = TRUE
    /\ pc' = "free"
    /\ UNCHANGED <<copies, table, op, exposed, lost, unclean, leaky, orphans, written>>

\* The entry leaves the directory, and with a directory what is in it.
DropEntry ==
    LET entry == Slots(op.dir)[op.slot]
        inside == entry.dir /\ op.dir = 0 /\ Live(entry.first) # {}
    IN /\ PutSlot(op.dir, op.slot, NoEntry)
       /\ leaky' = (leaky \/ inside)
       /\ written' = [f \in {g \in DOMAIN written :
                          ~(\/ g = <<op.dir, op.name>>
                            \/ entry.dir /\ g[1] = entry.first)} |-> written[f]]

\* A directory cluster is written sector by sector: the entry may be gone although
\* a later sector is refused.
MarkDeleted ==
    /\ pc = "mark"
    /\ \/ /\ DropEntry
          /\ pc' = "free"
          /\ UNCHANGED <<op, ioerror>>
       \/ /\ op.dir # 0
          /\ DropEntry
          /\ Done
          /\ ioerror' = TRUE
       \/ /\ Done
          /\ ioerror' = TRUE
          /\ UNCHANGED <<root, data, leaky, written>>
    /\ UNCHANGED <<copies, table, exposed, lost, unclean, orphans>>

\* MUTANT: only the first cluster of the chain is freed.
FreeFirst ==
    /\ pc = "free"
    /\ \/ /\ op.cluster \in Clusters
          /\ SetCluster(op.cluster, FREE)
          /\ op' = [op EXCEPT !.cluster = EOC]
          /\ UNCHANGED pc
       \/ /\ op.cluster \notin Clusters
          /\ pc' = "sync"
          /\ UNCHANGED <<table, op>>
    /\ UNCHANGED <<disk, history>>

\* fat_free_cluster_chain, one cluster.
FreeCluster ==
    /\ pc = "free"
    /\ \/ /\ op.cluster \in Clusters
          /\ SetCluster(op.cluster, FREE)
          /\ op' = [op EXCEPT !.cluster = fat_table[op.cluster]]
          /\ UNCHANGED pc
       \/ /\ op.cluster \notin Clusters
          /\ pc' = "sync"
          /\ UNCHANGED <<table, op>>
    /\ UNCHANGED <<disk, history>>

-----------------------------------------------------------------------------
(***************************************************************************)
(* fat_node_write at offset 0.  vfs_open has set the node's size to 0.     *)
(***************************************************************************)
needed_clusters == (Len(op.text) + CLUSTER_SIZE - 1) \div CLUSTER_SIZE

\* The shell's echo to a file that is there.  One that has no cluster gets one.
Write(dir, name, text) ==
    /\ Begin
    /\ \E found \in FindInDir(dir, name) :
        LET entry == Slots(dir)[found.slot]
            first == IF entry.first = 0 THEN NewCluster ELSE entry.first
        IN /\ found.slot # 0
           /\ ioerror' = (ioerror \/ found.refused)
           /\ ~entry.dir
           /\ entry.first # 0 \/ FreeClusters # {}
           /\ op' = [NoOp EXCEPT !.dir = dir, !.slot = found.slot, !.name = name,
                                 !.text = text, !.first = first, !.cluster = first,
                                 !.count = 1]
           /\ \/ /\ entry.first # 0
                 /\ UNCHANGED <<table, exposed>>
              \/ /\ entry.first = 0
                 /\ SetCluster(first, EOC)
                 /\ exposed' = TRUE
    /\ pc' = "extend"
    /\ UNCHANGED <<disk, lost, unclean, leaky, orphans, written>>

\* One turn of the loop that extends the chain; a full disk ends it early.
Extend ==
    /\ pc = "extend"
    /\ \/ /\ op.count < needed_clusters
          /\ fat_table[op.cluster] # EOC
          /\ op' = [op EXCEPT !.cluster = fat_table[op.cluster], !.count = @ + 1]
          /\ UNCHANGED <<table, pc, exposed>>
       \/ /\ op.count < needed_clusters
          /\ fat_table[op.cluster] = EOC
          /\ FreeClusters # {}
          /\ fat_table' = [fat_table EXCEPT ![NewCluster] = EOC, ![op.cluster] = NewCluster]
          /\ fat_dirty' = TRUE
          /\ exposed' = TRUE
          /\ op' = [op EXCEPT !.cluster = NewCluster, !.count = @ + 1]
          /\ UNCHANGED pc
       \/ /\ \/ op.count >= needed_clusters
             \/ fat_table[op.cluster] = EOC /\ FreeClusters = {}
          /\ op' = [op EXCEPT !.cluster = op.first]
          /\ pc' = "data"
          /\ UNCHANGED <<table, exposed>>
    /\ UNCHANGED <<disk, lost, unclean, ioerror, leaky, orphans, written>>

\* The buffer written to the current cluster: a partial cluster is read first,
\* and what the static buffer held is written back when that read failed.
Buffer(base) ==
    [i \in 1..CLUSTER_SIZE |->
        IF op.bytes + i <= Len(op.text) THEN op.text[op.bytes + i] ELSE base[i]]
Partial == Len(op.text) - op.bytes < CLUSTER_SIZE

WriteCluster ==
    /\ pc = "data"
    /\ op.bytes < Len(op.text) /\ op.cluster \in Clusters
    /\ \/ /\ data' = [data EXCEPT ![op.cluster] =
                 [kind |-> "data", cells |-> Buffer(Cells(op.cluster))]]
          /\ UNCHANGED ioerror
       \/ /\ Partial
          /\ data' = [data EXCEPT ![op.cluster] =
                 [kind |-> "data", cells |-> Buffer([i \in 1..CLUSTER_SIZE |-> Garbage])]]
          /\ ioerror' = TRUE
    /\ op' = [op EXCEPT !.cluster = fat_table[op.cluster],
                  !.bytes = IF Partial THEN Len(op.text) ELSE @ + CLUSTER_SIZE]
    /\ UNCHANGED <<copies, root, table, pc, exposed, lost, unclean, leaky, orphans, written>>

\* The loop ends, or a refused sector ends it with k cells of the cluster written.
WriteEnd ==
    /\ pc = "data"
    /\ \/ /\ op.bytes = Len(op.text) \/ op.cluster \notin Clusters
          /\ UNCHANGED <<data, ioerror>>
       \/ /\ op.bytes < Len(op.text) /\ op.cluster \in Clusters
          /\ \E k \in 0..(CLUSTER_SIZE - 1) :
                 data' = [data EXCEPT ![op.cluster] = [kind |-> "data", cells |->
                     [i \in 1..CLUSTER_SIZE |->
                         IF i <= k THEN Buffer(Cells(op.cluster))[i] ELSE Cells(op.cluster)[i]]]]
          /\ ioerror' = TRUE
    /\ pc' = "update"
    /\ UNCHANGED <<copies, root, table, op, exposed, lost, unclean, leaky, orphans, written>>

\* The search for the name in the parent, and the size and the first cluster that
\* its entry is given.  A refused sector is ignored; one of a directory cluster
\* may follow the sector that has the entry.
PutSize(slot, size) ==
    LET f == <<op.dir, op.name>>
    IN /\ PutSlot(op.dir, slot, [Slots(op.dir)[slot] EXCEPT !.first = op.first, !.size = size])
       /\ lost' = (slot # op.slot)
       /\ written' = IF f \in DOMAIN written
                     THEN With(f, SubSeq(op.text, 1, op.bytes)) ELSE written

\* MUTANT: the size in the entry only grows.
UpdateGrows ==
    /\ pc = "update"
    /\ \E found \in FindInDir(op.dir, op.name) :
        /\ found.slot # 0 /\ ~found.refused
        /\ LET size == Slots(op.dir)[found.slot].size
           IN PutSize(found.slot, IF op.bytes > size THEN op.bytes ELSE size)
    /\ pc' = "sync"
    /\ UNCHANGED <<copies, table, op, exposed, unclean, ioerror, leaky, orphans>>

Update ==
    /\ pc = "update"
    /\ \E found \in FindInDir(op.dir, op.name) :
        \/ /\ op.bytes > 0 /\ found.slot # 0
           /\ PutSize(found.slot, op.bytes)
           /\ \/ ioerror' = (ioerror \/ found.refused)
              \/ op.dir # 0 /\ ioerror' = TRUE
        \/ /\ op.bytes > 0 /\ found.slot # 0
           /\ ioerror' = TRUE
           /\ UNCHANGED <<root, data, lost, written>>
        \/ /\ op.bytes = 0 \/ found.slot = 0
           /\ ioerror' = (ioerror \/ found.refused)
           /\ UNCHANGED <<root, data, lost, written>>
    /\ pc' = "sync"
    /\ UNCHANGED <<copies, table, op, exposed, unclean, leaky, orphans>>

-----------------------------------------------------------------------------
(***************************************************************************)
(* The power fails, and fat_mount loads the first copy of the FAT.         *)
(***************************************************************************)
Remount ==
    /\ ~lost
    /\ fat_table' = copies[1]
    /\ fat_dirty' = FALSE
    /\ Done
    /\ lost' = exposed
    /\ exposed' = FALSE
    /\ unclean' = (unclean \/ fat_dirty)
    /\ leaky' = (leaky \/ pc # "idle" \/ fat_dirty)
    /\ written' = IF pc = "idle" THEN written ELSE Without(<<op.dir, op.name>>)
    /\ UNCHANGED <<disk, ioerror, orphans>>

-----------------------------------------------------------------------------
Step ==
    \/ DirInit
    \/ WriteEntry
    \/ Sync
    \/ SyncCopy
    \/ MarkDeleted
    \/ FreeCluster
    \/ Extend
    \/ WriteCluster
    \/ WriteEnd
    \/ Update

Next ==
    \/ \E dir \in Dirs, name \in Names, isdir \in BOOLEAN : Create(dir, name, isdir, <<>>)
    \/ \E dir \in Dirs, name \in Names, text \in Texts : Create(dir, name, FALSE, text)
    \/ \E dir \in Dirs, name \in Names : Unlink(dir, name)
    \/ \E dir \in Dirs, name \in Names, text \in Texts : Write(dir, name, text)
    \/ Step /\ UNCHANGED ops
    \/ Remount /\ UNCHANGED ops

Spec == Init /\ [][Next]_vars

-----------------------------------------------------------------------------
(***************************************************************************)
(* Properties.                                                             *)
(***************************************************************************)
\* The entries a path can reach.
Reachable == {e \in Dirs \X (1..(RootSlots + DirSlots)) : e[2] \in Live(e[1])}
FirstOf(e) == Slots(e[1])[e[2]].first

\* Every chain an entry starts runs through allocated clusters to an end, and no
\* cluster is in two of them: in every state, whatever sectors the disk refused
\* and wherever the power failed.  Two things end it (lost): a power failure
\* between an allocation and the end of the sync that follows it - the entry is
\* written before the FAT - and an echo to a file whose entry could not be read,
\* which makes a second one and then gives its cluster to the first.
ChainsSound ==
    ~lost =>
        /\ \A e \in Reachable : FirstOf(e) # 0 =>
               /\ FirstOf(e) \in Clusters
               /\ ChainAt(fat_table, FirstOf(e), total_clusters) = EOC
        /\ \A e1, e2 \in Reachable : e1 # e2 =>
               ChainSet(fat_table, FirstOf(e1)) \intersect ChainSet(fat_table, FirstOf(e2)) = {}

\* When fat_dirty is clear, nothing of the FAT is only in memory: the copy that
\* fat_mount reads is fat_table, and so is the other one unless the power failed
\* with it dirty.
DirtyTracksDisk ==
    ~fat_dirty =>
        /\ copies[1] = fat_table
        /\ ~unclean => copies[2] = fat_table

\* fat_node_read of the file f: as many cells as its entry says, or as its chain has.
ReadBack(f) ==
    LET entry == Slots(f[1])[Least({s \in Live(f[1]) : Slots(f[1])[s].name = f[2]})]
        Cluster(i) == ChainAt(fat_table, entry.first, (i - 1) \div CLUSTER_SIZE)
    IN [i \in {k \in 1..entry.size : Cluster(k) \in Clusters} |->
           Cells(Cluster(i))[((i - 1) % CLUSTER_SIZE) + 1]]

\* A file whose entry is on the disk stays there, and reads back as the last text
\* written to it, or as much of it as the disk had room for: at any time, also
\* after a longer text, after the clusters of other files were freed and used
\* again, and after a power failure in somebody else's operation.
FilesKept ==
    (~lost /\ ~ioerror) =>
        \A f \in DOMAIN written :
            ~(pc # "idle" /\ f = <<op.dir, op.name>>) =>
                /\ \E s \in Live(f[1]) : Slots(f[1])[s].name = f[2]
                /\ ReadBack(f) = written[f]

\* Between operations every allocated cluster belongs to the chain of an entry, or
\* to that of a file whose entry fell outside the first sector of its directory:
\* no error path of the driver loses any other, except a refused sector, a power
\* failure inside an operation, and the removal of a directory that is not empty.
SpaceReclaimed ==
    (pc = "idle" /\ ~lost /\ ~ioerror /\ ~leaky) =>
        Clusters \ FreeClusters =
            UNION {ChainSet(fat_table, c) : c \in orphans \union {FirstOf(e) : e \in Reachable}}

\* A file that was created can be found ("Write a directory entry to disk",
\* fs/fat.c:230).  It cannot when its entry is not in the first sector of a
\* directory's cluster: Fat_subdir.cfg shows it.
CreatedFound == ioerror \/ orphans = {}
=============================================================================
