-------------------------------- MODULE Vfs ---------------------------------
(* The VFS layer (fs/vfs.c) over the RAM file system, driven by its clients:  *)
(* the shell's file commands, which run with interrupts on, and the exec      *)
(* system call of user programs, which runs with interrupts off, at any point *)
(* of a shell command.  Such an exec opens, reads and closes a file and so    *)
(* leaves the state as it found it: it is not an action but an observation,   *)
(* ExecOutcome, that a property makes in every state.                         *)
EXTENDS Ramfs

CONSTANTS MaxOpen,    \* MAX_OPEN_FILES
          Paths,      \* the paths typed: [abs, dirs, last]
          Texts,      \* the texts echo writes
          CatBuf,     \* bytes cat asks for (255)
          ExecBuf     \* bytes exec asks for (65536)

Path == [abs : BOOLEAN, dirs : Seq(Names \ {""}), last : Names]

ASSUME VfsAssumption == /\ MaxOpen \in Nat \ {0, 1}
                        /\ Paths \subseteq Path
                        /\ Texts \subseteq Seq(Byte)
                        /\ CatBuf \in Nat \ {0}
                        /\ ExecBuf \in Nat \ {0}

VARIABLES vfs_cwd,
          fd_table,
          \* the shell's command: where it is, what it runs, and its locals
          pc, op, path, text,
          at, rest,    \* vfs_resolve_path: current, and the components left
          node,        \* the node opened, attached or detached
          fd, buffer

cmdVars == <<op, path, text, at, rest, node, fd, buffer>>
vars == <<nodeVars, vfs_cwd, fd_table, pc, cmdVars>>

Fd == 0..MaxOpen - 1
FreeFd == [in_use |-> FALSE, node |-> Null, position |-> 0]

OpenOps == {"cat", "exec", "touch", "echo"}
Ops == OpenOps \cup {"cd", "mkdir", "rm", "rmdir"}
Creates(o) == o \in {"touch", "echo"}     \* O_CREAT
Truncates(o) == o = "echo"                \* O_TRUNC

\* path_split drops the empty component after a trailing slash.
Components(p) == p.dirs \o (IF p.last = "" THEN <<>> ELSE <<p.last>>)
\* strrchr(path, '/') finds one.
HasSlash(p) == p.abs \/ p.dirs # <<>>
\* vfs_root or vfs_cwd.  A relative path needs a cwd whose memory is still a node.
Start(p) == IF p.abs THEN Root ELSE vfs_cwd
CanStart(p) == p.abs \/ vfs_cwd \in Live

\* "/"
RootPath == [abs |-> TRUE, dirs |-> <<>>, last |-> ""]

Init ==
  /\ RamfsInit
  /\ vfs_cwd = Root
  /\ fd_table = [f \in Fd |-> FreeFd]
  /\ pc = "idle" /\ op = "cd" /\ path = RootPath /\ text = <<>>
  /\ at = Null /\ rest = <<>> /\ node = Null /\ fd = 0 /\ buffer = <<>>

-----------------------------------------------------------------------------
\* A shell command returns: its locals are gone.
Return ==
  /\ pc' = "idle" /\ at' = Null /\ rest' = <<>> /\ node' = Null /\ fd' = 0
  /\ text' = <<>> /\ buffer' = <<>> /\ op' = "cd" /\ path' = RootPath

\* The shell calls the operation of a command: vfs_open, vfs_chdir, vfs_mkdir,
\* vfs_unlink or vfs_rmdir, whose first part is the walk to the node or its parent.
Begin(o, p, t) ==
  /\ pc = "idle"
  /\ CanStart(p)
  /\ o \in {"mkdir", "rm", "rmdir"} => HasSlash(p)
  /\ op' = o /\ path' = p /\ text' = (IF o = "echo" THEN t ELSE <<>>)
  /\ at' = Start(p)
  /\ \/ o \in OpenOps \cup {"cd"} /\ pc' = "walk" /\ rest' = Components(p)
     \/ o \in {"mkdir", "rm", "rmdir"} /\ pc' = "parent" /\ rest' = p.dirs
  /\ UNCHANGED <<nodeVars, vfs_cwd, fd_table, node, fd, buffer>>

\* One component of a path: the body of the loop of vfs_resolve_path.
WalkStep(current, c) ==
  IF current = Null \/ c = "." THEN current
  ELSE IF c = ".." THEN (IF parent[current] # Null THEN parent[current] ELSE current)
  ELSE FindDir(current, c)

Walk ==
  /\ pc \in {"walk", "parent"}
  /\ rest # <<>>
  /\ at' = WalkStep(at, Head(rest))
  /\ rest' = (IF at' = Null THEN <<>> ELSE Tail(rest))
  /\ UNCHANGED <<nodeVars, vfs_cwd, fd_table, pc, op, path, text, node, fd, buffer>>

\* vfs_chdir after the walk.
Chdir ==
  /\ pc = "walk" /\ rest = <<>> /\ op = "cd"
  /\ vfs_cwd' = (IF at # Null /\ type[at] = "directory" THEN at ELSE vfs_cwd)
  /\ Return
  /\ UNCHANGED <<nodeVars, fd_table>>

\* vfs_open: the file exists, or is to be created in the parent, or the open fails.
Resolved ==
  /\ pc = "walk" /\ rest = <<>> /\ op \in OpenOps
  /\ \/ /\ at # Null
        /\ pc' = "open" /\ node' = at
        /\ UNCHANGED <<at, rest, op, path, text, fd, buffer>>
     \/ /\ at = Null /\ Creates(op) /\ HasSlash(path)
        /\ pc' = "parent" /\ at' = Start(path) /\ rest' = path.dirs
        /\ UNCHANGED <<op, path, text, node, fd, buffer>>
     \/ /\ at = Null /\ ~ (Creates(op) /\ HasSlash(path))
        /\ Return
  /\ UNCHANGED <<nodeVars, vfs_cwd, fd_table>>

AtParent == pc = "parent" /\ rest = <<>>
ParentOk == at # Null /\ type[at] = "directory"

\* The parent is not a directory, the name is taken or absent, or kmalloc fails.
Fail ==
  /\ AtParent
  /\ \/ ~ ParentOk
     \/ Creates(op) \/ op = "mkdir"
     \/ ParentOk /\ op \in {"rm", "rmdir"} /\ FindDir(at, path.last) = Null
  /\ Return
  /\ UNCHANGED <<nodeVars, vfs_cwd, fd_table>>

\* ramfs_create or ramfs_mkdir, up to the store that links the new node.
Create ==
  /\ AtParent /\ ParentOk
  /\ Creates(op) \/ op = "mkdir"
  /\ NameIsFree(at, path.last)
  /\ \E n \in Node \ Live : 
       /\ NewChild(n, at, path.last, IF op = "mkdir" THEN "directory" ELSE "file")
       /\ node' = n
  /\ pc' = "attach"
  /\ UNCHANGED <<vfs_cwd, fd_table, op, path, text, at, rest, fd, buffer>>

\* ramfs_unlink or ramfs_rmdir: the node is detached before it is looked at.
Detach ==
  /\ AtParent /\ ParentOk
  /\ op \in {"rm", "rmdir"}
  /\ FindDir(at, path.last) # Null
  /\ node' = FindDir(at, path.last)
  /\ DetachChild(at, FindDir(at, path.last))
  /\ pc' = "detached"
  /\ UNCHANGED <<vfs_cwd, fd_table, op, path, text, at, rest, fd, buffer>>

\* A node that may not be removed is forgotten.
PutBackForgotten ==
  /\ pc = "detached" /\ ~ Removable(op, node)
  /\ Return
  /\ UNCHANGED <<nodeVars, vfs_cwd, fd_table>>

\* A node that may not be removed is put back.
PutBack ==
  /\ pc = "detached" /\ ~ Removable(op, node)
  /\ LinkChild(at, node)
  /\ pc' = "attach"
  /\ UNCHANGED <<type, name, parent, size, open_count, file, vfs_cwd, fd_table, cmdVars>>

\* A node that may be removed is freed.
Free ==
  /\ pc = "detached" /\ Removable(op, node)
  /\ FreeNode(node)
  /\ Return
  /\ UNCHANGED <<vfs_cwd, fd_table>>

\* The last store of ramfs_attach_child; a new file is then opened.
Attach ==
  /\ pc = "attach"
  /\ SetParent(at, node)
  /\ \/ op \in OpenOps /\ pc' = "open" /\ UNCHANGED cmdVars
     \/ op \notin OpenOps /\ Return
  /\ UNCHANGED <<type, name, children, size, open_count, file, vfs_cwd, fd_table>>

-----------------------------------------------------------------------------
\* fd_alloc: the lowest free slots.
FreeFds == {f \in Fd : ~ fd_table[f].in_use}

\* What a command does once the file is open.
AfterOpen == IF op \in {"cat", "exec"} THEN "read"
             ELSE IF op = "echo" /\ text # <<>> THEN "write" ELSE "close"

\* vfs_open from fd_alloc on; both ramfs_open and vfs_open count the open.
Open ==
  /\ pc = "open"
  /\ IF FreeFds = {}
     THEN Return /\ UNCHANGED <<nodeVars, fd_table>>
     ELSE \E f \in FreeFds :
            /\ \A g \in FreeFds : f <= g
            /\ fd_table' = [fd_table EXCEPT ![f] = [in_use |-> TRUE, node |-> node, position |-> 0]]
            /\ open_count' = [open_count EXCEPT ![node] = @ + 2]
            /\ size' = (IF Truncates(op) THEN [size EXCEPT ![node] = 0] ELSE size)
            /\ fd' = f
            /\ pc' = AfterOpen
            /\ UNCHANGED <<type, name, parent, children, file, op, path, text, at, rest, node, buffer>>
  /\ UNCHANGED vfs_cwd

Opened == fd_table[fd].node

\* vfs_read, with the descriptor left open when exec has no buffer.
ReadNoClose ==
  /\ pc = "read"
  /\ LET n == ReadCount(Opened, fd_table[fd].position, IF op = "cat" THEN CatBuf ELSE ExecBuf)
     IN \/ /\ n > 0
           /\ fd_table' = [fd_table EXCEPT ![fd].position = @ + n]
           /\ pc' = (IF op = "cat" THEN "read" ELSE "close")
           /\ UNCHANGED cmdVars
        \/ /\ n <= 0 \/ op = "exec"
           /\ Return
           /\ UNCHANGED fd_table
  /\ UNCHANGED <<nodeVars, vfs_cwd>>

\* vfs_read.  cat reads until nothing comes, exec once, and not at all when its
\* buffer cannot be allocated.
Read ==
  /\ pc = "read"
  /\ LET n == ReadCount(Opened, fd_table[fd].position, IF op = "cat" THEN CatBuf ELSE ExecBuf)
     IN \/ /\ n > 0
           /\ fd_table' = [fd_table EXCEPT ![fd].position = @ + n]
           /\ pc' = (IF op = "cat" THEN "read" ELSE "close")
        \/ /\ n <= 0 \/ op = "exec"
           /\ pc' = "close"
           /\ UNCHANGED fd_table
  /\ UNCHANGED <<nodeVars, vfs_cwd, cmdVars>>

Required == fd_table[fd].position + Len(text)

\* vfs_write and ramfs_write up to the point where the old buffer is freed.  Nothing is
\* written to a directory, or when the new buffer cannot be allocated.
WriteGrow ==
  /\ pc = "write"
  /\ \/ /\ type[Opened] = "file"
        /\ buffer' = NewBuffer(Opened, Required)
        /\ FreeOldData(Opened, Required)
        /\ pc' = "store"
     \/ /\ type[Opened] # "file" \/ Required > Capacity(Opened)
        /\ pc' = "close"
        /\ UNCHANGED <<file, buffer>>
  /\ UNCHANGED <<type, name, parent, children, size, open_count, vfs_cwd, fd_table,
                 op, path, text, at, rest, node, fd>>

\* ramfs_write: the new pointer, then the bytes.
WriteStore ==
  /\ pc = "store"
  /\ StoreData(Opened, buffer, fd_table[fd].position, text)
  /\ pc' = "sizes"
  /\ UNCHANGED <<type, name, parent, children, size, open_count, vfs_cwd, fd_table, cmdVars>>

\* The sizes ramfs_write, and then vfs_write, record.
NewSize(old) == IF Required > old THEN Required ELSE old

\* The sizes, with the file's taken from its capacity.
WriteSizesCapacity ==
  /\ pc = "sizes"
  /\ file' = [file EXCEPT ![Opened].size = Capacity(Opened)]
  /\ size' = [size EXCEPT ![Opened] = NewSize(@)]
  /\ fd_table' = [fd_table EXCEPT ![fd].position = Required]
  /\ pc' = "close"
  /\ UNCHANGED <<type, name, parent, children, open_count, vfs_cwd, cmdVars>>

WriteSizes ==
  /\ pc = "sizes"
  /\ file' = [file EXCEPT ![Opened].size = NewSize(@)]
  /\ size' = [size EXCEPT ![Opened] = IF Required > file[Opened].size THEN Required ELSE NewSize(@)]
  /\ fd_table' = [fd_table EXCEPT ![fd].position = Required]
  /\ pc' = "close"
  /\ UNCHANGED <<type, name, parent, children, open_count, vfs_cwd, cmdVars>>

\* vfs_close: ramfs_close and vfs_close each take back one count.
Close ==
  /\ pc = "close"
  /\ open_count' = [open_count EXCEPT ![Opened] = IF @ > 1 THEN @ - 2 ELSE 0]
  /\ fd_table' = [fd_table EXCEPT ![fd] = FreeFd]
  /\ Return
  /\ UNCHANGED <<type, name, parent, children, size, file, vfs_cwd>>

-----------------------------------------------------------------------------
\* sys_exec of a user program: what vfs_open and vfs_read, and with them the call, come to.
ExecOutcome(p) ==
  LET reached[i \in 0..Len(Components(p))] ==
          IF i = 0 THEN Start(p) ELSE WalkStep(reached[i - 1], Components(p)[i])
      n == reached[Len(Components(p))]
  IN IF n = Null THEN "missing"
     ELSE IF FreeFds = {} THEN "no descriptor"
     ELSE IF ReadCount(n, 0, ExecBuf) <= 0 THEN "nothing"
     ELSE IF file[n].data = "freed" THEN "freed memory" ELSE "contents"

Next ==  \/ \E o \in Ops, p \in Paths, t \in Texts : Begin(o, p, t)
         \/ Walk \/ Chdir \/ Resolved \/ Fail \/ Create \/ Detach \/ PutBack \/ Free
         \/ Attach \/ Open \/ Read \/ WriteGrow \/ WriteStore \/ WriteSizes \/ Close

Spec == Init /\ [][Next]_vars

-----------------------------------------------------------------------------
NodeTypes ==
  /\ type \in [Node -> {"free", "file", "directory"}]
  /\ name \in [Node -> Names]
  /\ parent \in [Node -> Node \cup {Null}]
  /\ children \in [Node -> SUBSET Node]
  /\ size \in [Node -> Nat]
  /\ open_count \in [Node -> Nat]
  /\ file \in [Node -> [data : {"null", "live", "freed"}, bytes : Seq(Byte \cup {Garbage}), size : Nat]]

CmdTypes ==
  /\ pc \in {"idle", "walk", "parent", "detached", "attach", "open", "read", "write", "store", "sizes", "close"}
  /\ op \in Ops
  /\ path \in Paths \cup {RootPath}
  /\ text \in Seq(Byte)
  /\ at \in Node \cup {Null}
  /\ rest \in Seq(Names)
  /\ node \in Node \cup {Null}
  /\ buffer \in Seq(Byte \cup {Garbage})

FdTypes ==
  /\ vfs_cwd \in Node
  /\ fd_table \in [Fd -> [in_use : BOOLEAN, node : Node \cup {Null}, position : Nat]]
  /\ fd \in Fd

\* Types, and that a command only uses a pointer or a descriptor that it has set: no
\* NULL is dereferenced in fs/vfs.c or fs/ramfs.c.
TypeOK ==
  /\ NodeTypes /\ CmdTypes /\ FdTypes
  /\ pc \in {"detached", "attach"} => at # Null
  /\ pc \in {"detached", "attach", "open"} => node # Null
  /\ pc \in {"read", "write", "store", "sizes", "close"} => fd_table[fd].in_use /\ Opened # Null

\* The children lists and the parent pointers of fs/ramfs.c describe one tree: only
\* directories have children, a child is allocated and in one directory, siblings have
\* different names, and a child points to its parent, except between the last two stores
\* of ramfs_attach_child.
TreeSound ==
  /\ type[Root] = "directory"
  /\ \A d \in Node : type[d] # "directory" => children[d] = {}
  /\ \A d \in Node : \A c \in children[d] :
       /\ c \in Live \ {Root}
       /\ parent[c] = d \/ (pc = "attach" /\ c = node /\ d = at)
       /\ \A b \in children[d] : name[b] = name[c] => b = c
       /\ \A e \in Node : c \in children[e] => e = d

\* Every node that was allocated is in the tree, or is the one that ramfs_unlink or
\* ramfs_rmdir has detached and will put back or free.
NothingLost ==
  \A n \in Live \ {Root} : \/ \E d \in Node : n \in children[d]
                           \/ pc = "detached" /\ n = node

\* A descriptor is in use only within a shell command and on a node that is still
\* allocated; the reference count is two for the node that is open (ramfs_open and
\* vfs_open both count) and zero for the others.
DescriptorsMatch ==
  /\ \A f \in Fd : fd_table[f].in_use => /\ f = fd
                                        /\ pc \in {"read", "write", "store", "sizes", "close"}
                                        /\ fd_table[f].node \in Live
  /\ \A n \in Live : open_count[n] = IF \E f \in Fd : fd_table[f].in_use /\ fd_table[f].node = n
                                     THEN 2 ELSE 0

\* The sizes of a file stay within its buffer and cover written bytes only, and the
\* buffer of a file is freed memory only between kfree and the store in ramfs_write.
DataInitialised ==
  \A n \in Node : type[n] = "file" =>
    /\ size[n] <= file[n].size
    /\ file[n].size <= Capacity(n)
    /\ \A i \in 1..file[n].size : file[n].bytes[i] \in Byte
    /\ file[n].data = "freed" => pc = "store" /\ n = Opened

\* An exec of a user program that preempts a shell command reads no freed memory.  This
\* does not hold between kfree and the store in ramfs_write: Vfs_exec.cfg shows it.
ExecReadsLive ==
  \A p \in Paths : CanStart(p) => ExecOutcome(p) # "freed memory"

\* The name space clients see, for fs/ramfs.c: a node that will be put back still counts,
\* and one that will be freed does not.
Doomed == pc = "detached" /\ Removable(op, node)
Held == pc = "detached" /\ ~ Removable(op, node)
AbsKind == [n \in Node |-> IF Doomed /\ n = node THEN "free" ELSE type[n]]
EntryOf(d, c) == [dir |-> d, name |-> name[c], node |-> c]
AbsEntries ==
  {EntryOf(e[1], e[2]) : e \in {x \in Node \X Node : x[2] \in children[x[1]]
                                               \/ (Held /\ x[1] = at /\ x[2] = node)}}

NS == INSTANCE NameSpace WITH kind <- AbsKind, entries <- AbsEntries

\* Every shell command changes the name space in one step and by one entry, or not at
\* all: a failed rm or rmdir, which detaches the node and puts it back, changes nothing.
ImplementsNameSpace == NS!Spec

\* vfs.h: O_TRUNC truncates to 0 length, so that after echo a file holds the text only.
EchoReplaces ==
  (pc = "close" /\ op = "echo" /\ type[Opened] = "file" /\ fd_table[fd].position = Len(text) /\ text # <<>>)
     => SubSeq(file[Opened].bytes, 1, file[Opened].size) = text
=============================================================================
