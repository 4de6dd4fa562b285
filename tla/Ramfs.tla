------------------------------- MODULE Ramfs --------------------------------
(* The nodes of the RAM file system (fs/ramfs.c) and what its operations do  *)
(* to them.  A node is an address: freed nodes are allocated again.  The     *)
(* operations are called by the VFS layer, which is modelled in Vfs.         *)
EXTENDS Integers, Sequences, FiniteSets

CONSTANTS Node,       \* addresses of vfs_node_t objects
          Root,       \* the root directory's node
          Null,       \* the NULL pointer
          Byte,       \* values of initialised bytes
          Garbage,    \* the value of a byte kmalloc returned and nobody wrote
          CapUnit,    \* capacities are rounded up to a multiple of this (256)
          StdDirs     \* the directories ramfs_init creates

\* "" is the name of the root, and what follows a trailing slash.
CONSTANT Names

ASSUME RamfsAssumption == /\ Root \in Node
                          /\ Null \notin Node
                          /\ Garbage \notin Byte
                          /\ CapUnit \in Nat \ {0}
                          /\ "" \in Names
                          /\ StdDirs \subseteq Names

VARIABLES type,        \* "free" (not allocated), "file" or "directory"
          name, parent,
          children,    \* the set of nodes in a directory's children list
          size,        \* the node's size field
          open_count,
          file         \* ramfs_file_t: data pointer, buffer, size (capacity = Len(buffer))

nodeVars == <<type, name, parent, children, size, open_count, file>>

Live == {n \in Node : type[n] # "free"}

EmptyFile == [data |-> "null", bytes |-> <<>>, size |-> 0]

\* ramfs_init: the root directory and the standard directories in it.
RamfsInit ==
  \E std \in [StdDirs -> Node \ {Root}] :
    LET dirs == {std[s] : s \in StdDirs}
    IN /\ \A s, t \in StdDirs : std[s] = std[t] => s = t
       /\ type = [n \in Node |-> IF n = Root \/ n \in dirs THEN "directory" ELSE "free"]
       /\ name = [n \in Node |-> IF n \in dirs THEN CHOOSE s \in StdDirs : std[s] = n ELSE ""]
       /\ parent = [n \in Node |-> IF n \in dirs THEN Root ELSE Null]
       /\ children = [n \in Node |-> IF n = Root THEN dirs ELSE {}]
       /\ size = [n \in Node |-> 0]
       /\ open_count = [n \in Node |-> 0]
       /\ file = [n \in Node |-> EmptyFile]

Matches(d, nm) == {c \in children[d] : name[c] = nm}

\* ramfs_finddir.  The list is searched from its head; names are unique (TreeSound).
FindDir(d, nm) ==
  IF type[d] # "directory" \/ Matches(d, nm) = {} THEN Null ELSE CHOOSE c \in Matches(d, nm) : TRUE

\* ramfs_attach_child, up to and including the store that makes the child reachable.
LinkChild(d, n) == children' = [children EXCEPT ![d] = @ \cup {n}]

\* ramfs_attach_child, its last store.
SetParent(d, n) == parent' = [parent EXCEPT ![n] = d]

\* ramfs_create and ramfs_mkdir, from the allocation of the node to LinkChild.
NewChild(n, d, nm, k) ==
  /\ type' = [type EXCEPT ![n] = k]
  /\ name' = [name EXCEPT ![n] = nm]
  /\ parent' = [parent EXCEPT ![n] = Null]
  /\ size' = [size EXCEPT ![n] = 0]
  /\ open_count' = [open_count EXCEPT ![n] = 0]
  /\ file' = [file EXCEPT ![n] = EmptyFile]
  /\ children' = [children EXCEPT ![n] = {}, ![d] = @ \cup {n}]

\* ramfs_mkdir without its look for an existing name.
NameUnchecked(d, nm) == TRUE

\* ramfs_create and ramfs_mkdir refuse a name that is taken.
NameIsFree(d, nm) == FindDir(d, nm) = Null

\* ramfs_detach_child.
DetachChild(d, n) ==
  /\ children' = [children EXCEPT ![d] = @ \ {n}]
  /\ parent' = [parent EXCEPT ![n] = Null]
  /\ UNCHANGED <<type, name, size, open_count, file>>

\* ramfs_rmdir that does not look for children.
UnlinkAnyDirectory(o, n) == (o = "rm") = (type[n] = "file")

\* Whether ramfs_unlink, or ramfs_rmdir, goes on to free the detached node.
Removable(o, n) ==
  IF o = "rm" THEN type[n] # "directory" ELSE type[n] = "directory" /\ children[n] = {}

\* The kfree calls at the end of ramfs_unlink and ramfs_rmdir.  What a free node holds
\* is never used: ramfs_alloc_node sets every field.
FreeNode(n) ==
  /\ type' = [type EXCEPT ![n] = "free"]
  /\ name' = [name EXCEPT ![n] = ""]
  /\ size' = [size EXCEPT ![n] = 0]
  /\ file' = [file EXCEPT ![n] = EmptyFile]
  /\ UNCHANGED <<parent, children, open_count>>

\* ramfs_read: how many bytes from position pos it copies, -1 for no file.
ReadCount(n, pos, len) ==
  IF type[n] # "file" THEN -1
  ELSE IF file[n].data = "null" \/ pos >= file[n].size THEN 0
  ELSE IF pos + len > file[n].size THEN file[n].size - pos ELSE len

Capacity(n) == Len(file[n].bytes)

\* ramfs_write: required_size rounded up.
RoundUp(len) == ((len + CapUnit - 1) \div CapUnit) * CapUnit

\* The buffer ramfs_write fills: the old one, or a new one with the old contents.
NewBuffer(n, required) ==
  IF required <= Capacity(n) THEN file[n].bytes
  ELSE [i \in 1..RoundUp(required) |-> IF file[n].data # "null" /\ i <= file[n].size
                                       THEN file[n].bytes[i] ELSE Garbage]

\* ramfs_write: the old buffer is freed before the new pointer is stored.
FreeOldData(n, required) ==
  file' = [file EXCEPT ![n].data = IF required > Capacity(n) /\ @ # "null" THEN "freed" ELSE @]

\* ramfs_write: the new pointer and capacity, then the bytes.
StoreData(n, buffer, pos, text) ==
  file' = [file EXCEPT ![n].data = "live",
                       ![n].bytes = [i \in DOMAIN buffer |->
                          IF i > pos /\ i <= pos + Len(text) THEN text[i - pos] ELSE buffer[i]]]
=============================================================================
