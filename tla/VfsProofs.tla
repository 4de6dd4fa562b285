----------------------------- MODULE VfsProofs ------------------------------
(* Proofs about the VFS layer and the RAM file system, for every set of nodes, *)
(* paths and texts: the tree and the descriptors, the file contents, and that  *)
(* they implement the abstract name space.                                     *)
EXTENDS Vfs, TLAPS

-----------------------------------------------------------------------------
\* Sequences.
LEMMA LenProperties ==
  ASSUME NEW S, NEW seq \in Seq(S)
  PROVE  Len(seq) \in Nat /\ seq \in [1..Len(seq) -> S] /\ DOMAIN seq = 1..Len(seq)
  OBVIOUS

LEMMA SeqMonotonic ==
  ASSUME NEW S, NEW T, NEW seq \in Seq(S), S \subseteq T
  PROVE  seq \in Seq(T)
  OBVIOUS

LEMMA ConcatProperties ==
  ASSUME NEW S, NEW s1 \in Seq(S), NEW s2 \in Seq(S)
  PROVE  s1 \o s2 \in Seq(S)
  OBVIOUS

-----------------------------------------------------------------------------
(***************************************************************************)
(* Every step keeps the tree, the descriptors and the locals of a command  *)
(* sound (TreeInv).                                                        *)
(***************************************************************************)
FdPcs == {"read", "write", "store", "sizes", "close"}

\* The root is nobody's child and no directory is in itself.
TreeRoot == parent[Root] = Null /\ \A d \in Node : d \notin children[d]

\* What the locals of a shell command refer to, and the shape of the tree around the
\* node a command has in its hands.
LocalsOk ==
  /\ pc \in {"walk", "parent"} => (at = Null \/ at \in Live) /\ CanStart(path)
  /\ pc \in {"detached", "attach"} => /\ at \in Node /\ type[at] = "directory"
                                      /\ node \in Live \ {Root}
                                      /\ node # at
  /\ pc = "detached" => /\ \A d \in Node : node \notin children[d]
                        /\ \A c \in children[at] : name[c] # name[node]
  /\ pc = "attach" => node \in children[at]
  /\ pc = "open" => node \in Live
  /\ pc \in FdPcs => fd_table[fd].in_use

TreeInv == /\ NodeTypes /\ CmdTypes /\ FdTypes
           /\ TreeSound /\ NothingLost /\ TreeRoot
           /\ DescriptorsMatch /\ LocalsOk

-----------------------------------------------------------------------------
LEMMA NodeFacts == Root \in Node /\ Null \notin Node /\ "" \in Names
  BY RamfsAssumption, Zenon

LEMMA FdFacts == 0 \in Fd /\ 1 \in Fd /\ Fd \subseteq Nat
<1>1. MaxOpen \in Nat /\ MaxOpen # 0 /\ MaxOpen # 1
  BY VfsAssumption
<1> QED
  BY <1>1 DEF Fd

LEMMA PathFacts ==
  ASSUME NEW p \in Paths \cup {RootPath}
  PROVE  p.last \in Names /\ p.dirs \in Seq(Names) /\ Components(p) \in Seq(Names)
<1>1. p \in Path
  <2>1. <<>> \in Seq(Names \ {""})
    OBVIOUS
  <2>2. RootPath \in Path
    BY <2>1, RamfsAssumption, Zenon DEF RootPath, Path
  <2> QED
    BY <2>2, VfsAssumption
<1>2. p.last \in Names /\ p.dirs \in Seq(Names \ {""})
  BY <1>1, Zenon DEF Path
<1>3. p.dirs \in Seq(Names)
  BY <1>2, SeqMonotonic, Zenon
<1>4. p.dirs \o <<>> \in Seq(Names) /\ p.dirs \o <<p.last>> \in Seq(Names)
  <2>1. p.last \in Names
    BY <1>2, Zenon
  <2>2. <<>> \in Seq(Names) /\ <<p.last>> \in Seq(Names)
    BY <2>1
  <2> QED
    BY <1>3, <2>2, ConcatProperties
<1> QED
  BY <1>2, <1>3, <1>4, Zenon DEF Components

\* After a return the locals are well typed.
LEMMA ReturnTypes == Return => CmdTypes' /\ fd' \in Fd /\ pc' = "idle"
<1> SUFFICES ASSUME Return PROVE CmdTypes' /\ fd' \in Fd /\ pc' = "idle"
  OBVIOUS
<1>1. fd' \in Fd /\ pc' = "idle"
  BY FdFacts DEF Return
<1>2. path' \in Paths \cup {RootPath} /\ op' \in Ops
  BY DEF Return, Ops, OpenOps
<1>3. /\ text' \in Seq(Byte) /\ rest' \in Seq(Names) /\ buffer' \in Seq(Byte \cup {Garbage})
      /\ at' \in Node \cup {Null} /\ node' \in Node \cup {Null}
  BY DEF Return
<1> QED
  BY <1>1, <1>2, <1>3 DEF CmdTypes

\* The tree stays sound when no step touches it and no node is in the command's hands.
LEMMA TreeFrame ==
  ASSUME TreeSound, NothingLost, TreeRoot, UNCHANGED <<type, name, parent, children>>,
         pc \notin {"attach", "detached"}, pc' \notin {"attach", "detached"}
  PROVE  TreeSound' /\ NothingLost' /\ TreeRoot'
<1>1. TreeSound'
  BY DEF TreeSound, Live
<1>2. NothingLost'
  BY DEF NothingLost, Live
<1>3. TreeRoot'
  BY DEF TreeRoot
<1> QED
  BY <1>1, <1>2, <1>3

LEMMA OneDirectory ==
  ASSUME TreeSound, NEW d \in Node, NEW e \in Node, NEW c \in children[d], c \in children[e]
  PROVE  e = d
  BY DEF TreeSound

LEMMA SiblingNames ==
  ASSUME TreeSound, NEW d \in Node, NEW b \in children[d], NEW c \in children[d], name[b] = name[c]
  PROVE  b = c
  BY DEF TreeSound

\* Outside the steps that use a descriptor none is in use and no node counts as open.
LEMMA NoDescriptor ==
  ASSUME DescriptorsMatch, pc \notin FdPcs
  PROVE  /\ \A f \in Fd : ~ fd_table[f].in_use
         /\ \A n \in Live : open_count[n] = 0
  BY DEF DescriptorsMatch, FdPcs

\* A step outside them that keeps the descriptors and opens no node.
LEMMA DescriptorFrame ==
  ASSUME DescriptorsMatch, pc \notin FdPcs, fd_table' = fd_table,
         \A n \in Live' : open_count'[n] = 0
  PROVE  DescriptorsMatch'
<1>1. \A f \in Fd : ~ fd_table[f].in_use
  BY NoDescriptor
<1> QED
  BY <1>1 DEF DescriptorsMatch

\* A step that keeps what is open keeps the counts right.
LEMMA OpenFrame ==
  ASSUME DescriptorsMatch, UNCHANGED <<type, open_count, fd>>, pc' \in FdPcs,
         \A f \in Fd : /\ fd_table'[f].in_use <=> fd_table[f].in_use
                       /\ fd_table'[f].node = fd_table[f].node
  PROVE  DescriptorsMatch'
<1>1. Live' = Live
  BY DEF Live
<1>2. \A n : (\E f \in Fd : fd_table'[f].in_use /\ fd_table'[f].node = n)
               <=> (\E f \in Fd : fd_table[f].in_use /\ fd_table[f].node = n)
  OBVIOUS
<1>3. \A f \in Fd : fd_table'[f].in_use => /\ f = fd'
                                         /\ pc' \in FdPcs
                                         /\ fd_table'[f].node \in Live'
  BY <1>1 DEF DescriptorsMatch
<1>4. \A n \in Live' : open_count'[n] = IF \E f \in Fd : fd_table'[f].in_use /\ fd_table'[f].node = n
                                        THEN 2 ELSE 0
  <2> TAKE n \in Live'
  <2>1. open_count[n] = IF \E f \in Fd : fd_table[f].in_use /\ fd_table[f].node = n THEN 2 ELSE 0
    BY <1>1 DEF DescriptorsMatch
  <2>2. CASE \E f \in Fd : fd_table[f].in_use /\ fd_table[f].node = n
    BY <1>2, <2>1, <2>2
  <2>3. CASE ~ \E f \in Fd : fd_table[f].in_use /\ fd_table[f].node = n
    BY <1>2, <2>1, <2>3
  <2> QED
    BY <2>2, <2>3
<1> QED
  BY <1>3, <1>4 DEF DescriptorsMatch, FdPcs

-----------------------------------------------------------------------------
\* The steps that change neither the nodes nor the descriptors.
LEMMA QuietStep ==
  ASSUME TreeInv, UNCHANGED <<nodeVars, fd_table>>,
         pc \notin FdPcs \cup {"attach", "detached"}, pc' \notin FdPcs \cup {"attach", "detached"}
  PROVE  NodeTypes' /\ TreeSound' /\ NothingLost' /\ TreeRoot' /\ DescriptorsMatch'
<1>1. NodeTypes'
  BY DEF TreeInv, NodeTypes, nodeVars
<1>2. TreeSound' /\ NothingLost' /\ TreeRoot'
  BY TreeFrame DEF TreeInv, nodeVars
<1>3. \A n \in Live' : open_count'[n] = 0
  BY NoDescriptor DEF TreeInv, nodeVars, Live
<1>4. DescriptorsMatch'
  BY <1>3, DescriptorFrame DEF TreeInv
<1> QED
  BY <1>1, <1>2, <1>4

LEMMA TreeBegin ==
  ASSUME TreeInv, NEW o \in Ops, NEW p \in Paths, NEW t \in Texts, Begin(o, p, t)
  PROVE  TreeInv'
<1>1. /\ pc = "idle" /\ pc' \in {"walk", "parent"} /\ CanStart(p) /\ path' = p /\ at' = Start(p)
      /\ UNCHANGED <<type, name, parent, children, size, open_count, file, vfs_cwd, fd_table, fd, node, buffer>>
  BY DEF Begin, nodeVars
<1>2. NodeTypes' /\ TreeSound' /\ NothingLost' /\ TreeRoot' /\ DescriptorsMatch'
  BY <1>1, QuietStep DEF FdPcs, nodeVars
<1>3. at' \in Live' /\ CanStart(path)'
  BY <1>1, NodeFacts, Zenon DEF Start, CanStart, Live, TreeInv, TreeSound
<1>4. CmdTypes'
  <2>1. text' \in Seq(Byte)
    BY VfsAssumption DEF Begin
  <2>2. rest' \in Seq(Names)
    BY PathFacts DEF Begin
  <2>3. at' \in Node
    BY <1>3 DEF Live
  <2> QED
    BY <1>1, <2>1, <2>2, <2>3 DEF Begin, CmdTypes, TreeInv
<1>5. FdTypes'
  BY <1>1 DEF FdTypes, TreeInv
<1>6. LocalsOk'
  BY <1>1, <1>3 DEF LocalsOk, FdPcs
<1> QED
  BY <1>2, <1>4, <1>5, <1>6 DEF TreeInv

\* Outside ramfs_attach_child and ramfs_detach_child, the parent of a node is allocated.
LEMMA ParentLive ==
  ASSUME TreeInv, pc \notin {"attach", "detached"}, NEW n \in Live
  PROVE  parent[n] = Null \/ parent[n] \in Live
<1>1. CASE n = Root
  BY <1>1 DEF TreeInv, TreeRoot
<1>2. CASE n # Root
  <2>1. PICK d \in Node : n \in children[d]
    BY <1>2 DEF TreeInv, NothingLost
  <2>2. parent[n] = d /\ type[d] = "directory"
    BY <2>1 DEF TreeInv, TreeSound
  <2> QED
    BY <2>2 DEF Live
<1> QED
  BY <1>1, <1>2

\* What ramfs_finddir returns.
LEMMA FindDirResult ==
  ASSUME TreeInv, NEW d \in Node, NEW nm
  PROVE  /\ FindDir(d, nm) = Null \/ FindDir(d, nm) \in Live
         /\ FindDir(d, nm) # Null => /\ type[d] = "directory"
                                    /\ FindDir(d, nm) \in children[d]
                                    /\ name[FindDir(d, nm)] = nm
         /\ FindDir(d, nm) = Null /\ type[d] = "directory" => \A c \in children[d] : name[c] # nm
<1>1. CASE type[d] # "directory" \/ Matches(d, nm) = {}
  <2>1. FindDir(d, nm) = Null
    BY <1>1 DEF FindDir
  <2> QED
    BY <1>1, <2>1 DEF Matches
<1>2. CASE type[d] = "directory" /\ Matches(d, nm) # {}
  <2>1. FindDir(d, nm) \in Matches(d, nm)
    BY <1>2 DEF FindDir
  <2>2. FindDir(d, nm) \in children[d] /\ name[FindDir(d, nm)] = nm
    BY <2>1 DEF Matches
  <2>3. FindDir(d, nm) \in Live
    BY <2>2 DEF TreeInv, TreeSound
  <2> QED
    BY <1>2, <2>2, <2>3, NodeFacts, Zenon DEF Live
<1> QED
  BY <1>1, <1>2

LEMMA TreeWalk ==
  ASSUME TreeInv, Walk
  PROVE  TreeInv'
<1>1. /\ pc \in {"walk", "parent"} /\ pc' = pc /\ rest # <<>>
      /\ UNCHANGED <<type, name, parent, children, size, open_count, file, vfs_cwd, fd_table, fd, node, buffer,
                     op, path, text>>
  BY DEF Walk, nodeVars
<1>2. NodeTypes' /\ TreeSound' /\ NothingLost' /\ TreeRoot' /\ DescriptorsMatch'
  BY <1>1, QuietStep DEF FdPcs, nodeVars
<1>3. at' = Null \/ at' \in Live
  <2>1. at = Null \/ at \in Live
    BY <1>1 DEF TreeInv, LocalsOk
  <2>2. at' = WalkStep(at, Head(rest))
    BY DEF Walk
  <2>3. CASE at = Null
    BY <2>2, <2>3 DEF WalkStep
  <2>4. CASE at \in Live
    <3>1. parent[at] = Null \/ parent[at] \in Live
      BY <2>4, <1>1, ParentLive
    <3>2. FindDir(at, Head(rest)) = Null \/ FindDir(at, Head(rest)) \in Live
      BY <2>4, FindDirResult DEF Live
    <3> QED
      BY <2>2, <2>4, <3>1, <3>2 DEF WalkStep
  <2> QED
    BY <2>1, <2>3, <2>4
<1>4. CmdTypes'
  <2>1. rest' \in Seq(Names)
    <3>1. rest \in Seq(Names)
      BY DEF TreeInv, CmdTypes
    <3>2. Tail(rest) \in Seq(Names) /\ <<>> \in Seq(Names)
      BY <1>1, <3>1
    <3> QED
      BY <3>2 DEF Walk
  <2>2. at' \in Node \cup {Null}
    BY <1>3 DEF Live
  <2> QED
    BY <1>1, <2>1, <2>2 DEF TreeInv, CmdTypes
<1>5. FdTypes'
  BY <1>1 DEF FdTypes, TreeInv
<1>6. LocalsOk'
  BY <1>1, <1>3 DEF TreeInv, LocalsOk, FdPcs, CanStart, Live
<1> QED
  BY <1>2, <1>4, <1>5, <1>6 DEF TreeInv

\* A command that returns without having changed anything but the working directory.
LEMMA QuietReturn ==
  ASSUME TreeInv, Return, UNCHANGED <<nodeVars, fd_table>>, vfs_cwd' \in Node,
         pc \notin FdPcs \cup {"attach", "detached"}
  PROVE  TreeInv'
<1>1. CmdTypes' /\ fd' \in Fd /\ pc' = "idle"
  BY ReturnTypes
<1>2. NodeTypes' /\ TreeSound' /\ NothingLost' /\ TreeRoot' /\ DescriptorsMatch'
  BY <1>1, QuietStep DEF FdPcs
<1>3. FdTypes'
  BY <1>1 DEF FdTypes, TreeInv
<1>4. LocalsOk'
  BY <1>1 DEF LocalsOk, FdPcs
<1> QED
  BY <1>1, <1>2, <1>3, <1>4 DEF TreeInv

LEMMA TreeChdir ==
  ASSUME TreeInv, Chdir
  PROVE  TreeInv'
<1>1. vfs_cwd' \in Node
  BY DEF Chdir, TreeInv, FdTypes, CmdTypes
<1> QED
  BY <1>1, QuietReturn DEF Chdir, FdPcs

LEMMA TreeFail ==
  ASSUME TreeInv, Fail
  PROVE  TreeInv'
<1>1. vfs_cwd' \in Node
  BY DEF Fail, TreeInv, FdTypes
<1>2. Return /\ UNCHANGED <<nodeVars, fd_table>> /\ pc = "parent"
  BY DEF Fail, AtParent
<1> QED
  BY <1>1, <1>2, QuietReturn DEF FdPcs

LEMMA TreeResolved ==
  ASSUME TreeInv, Resolved
  PROVE  TreeInv'
<1>1. /\ pc = "walk" /\ UNCHANGED <<nodeVars, vfs_cwd, fd_table>>
      /\ UNCHANGED <<type, name, parent, children, size, open_count, file>>
  BY DEF Resolved, nodeVars
<1>2. /\ at = Null \/ at \in Live
      /\ CanStart(path)
  BY <1>1 DEF TreeInv, LocalsOk
<1>3. CASE at # Null /\ pc' = "open" /\ node' = at /\ UNCHANGED <<at, rest, op, path, text, fd, buffer>>
  <2>1. NodeTypes' /\ TreeSound' /\ NothingLost' /\ TreeRoot' /\ DescriptorsMatch'
    BY <1>1, <1>3, QuietStep DEF FdPcs
  <2>2. CmdTypes' /\ FdTypes'
    BY <1>1, <1>3 DEF TreeInv, CmdTypes, FdTypes
  <2>3. LocalsOk'
    BY <1>1, <1>2, <1>3 DEF LocalsOk, FdPcs, Live
  <2> QED
    BY <2>1, <2>2, <2>3 DEF TreeInv
<1>4. CASE /\ pc' = "parent" /\ at' = Start(path) /\ rest' = path.dirs
           /\ UNCHANGED <<op, path, text, node, fd, buffer>>
  <2>1. NodeTypes' /\ TreeSound' /\ NothingLost' /\ TreeRoot' /\ DescriptorsMatch'
    BY <1>1, <1>4, QuietStep DEF FdPcs
  <2>2. Start(path) \in Live
    BY <1>2, NodeFacts, Zenon DEF Start, CanStart, Live, TreeInv, TreeSound
  <2>3. path.dirs \in Seq(Names)
    BY PathFacts DEF TreeInv, CmdTypes
  <2>4. CmdTypes' /\ FdTypes'
    BY <1>1, <1>4, <2>2, <2>3 DEF TreeInv, CmdTypes, FdTypes, Live
  <2>5. LocalsOk'
    BY <1>1, <1>2, <1>4, <2>2 DEF LocalsOk, FdPcs, Live, CanStart
  <2> QED
    BY <2>1, <2>4, <2>5 DEF TreeInv
<1>5. CASE Return
  <2>1. vfs_cwd' \in Node
    BY <1>1 DEF TreeInv, FdTypes
  <2> QED
    BY <1>1, <1>5, <2>1, QuietReturn DEF FdPcs
<1> QED
  BY <1>3, <1>4, <1>5 DEF Resolved

LEMMA TreeCreate ==
  ASSUME TreeInv, Create
  PROVE  TreeInv'
<1>1. PICK n \in Node \ Live :
        /\ NewChild(n, at, path.last, IF op = "mkdir" THEN "directory" ELSE "file")
        /\ node' = n
  BY DEF Create
<1>2. /\ pc = "parent" /\ at # Null /\ type[at] = "directory" /\ pc' = "attach"
      /\ UNCHANGED <<vfs_cwd, fd_table, op, path, text, at, rest, fd, buffer>>
      /\ FindDir(at, path.last) = Null
  BY DEF Create, AtParent, ParentOk, NameIsFree
<1>3. at \in Node /\ path.last \in Names
  BY <1>2, PathFacts DEF TreeInv, CmdTypes
<1>4. \A c \in children[at] : name[c] # path.last
  BY <1>2, <1>3, FindDirResult
<1>5. /\ type' = [type EXCEPT ![n] = type'[n]] /\ type'[n] \in {"file", "directory"}
      /\ name' = [name EXCEPT ![n] = path.last]
      /\ parent' = [parent EXCEPT ![n] = Null]
      /\ size' = [size EXCEPT ![n] = 0]
      /\ open_count' = [open_count EXCEPT ![n] = 0]
      /\ file' = [file EXCEPT ![n] = EmptyFile]
      /\ children' = [children EXCEPT ![n] = {}, ![at] = @ \cup {n}]
  BY <1>1 DEF NewChild, TreeInv, NodeTypes
<1>6. n # Root /\ n # at /\ type[n] = "free" /\ children[n] = {}
  BY <1>2, <1>3, NodeFacts, Zenon DEF Live, TreeInv, TreeSound
<1>7. \A d \in Node : n \notin children[d]
  BY DEF TreeInv, TreeSound
<1>8. \A d \in Node : children'[d] = IF d = at THEN children[d] \cup {n} ELSE children[d]
  BY <1>3, <1>5, <1>6, Zenon DEF TreeInv, NodeTypes
<1>9. /\ \A m \in Node : m # n => /\ type'[m] = type[m] /\ name'[m] = name[m]
                                /\ parent'[m] = parent[m] /\ open_count'[m] = open_count[m]
      /\ name'[n] = path.last /\ open_count'[n] = 0
  BY <1>5 DEF TreeInv, NodeTypes
<1>10. Live' = Live \cup {n}
  BY <1>5, <1>9 DEF Live
<1>11. NodeTypes'
  <2>3. children' \in [Node -> SUBSET Node]
    BY <1>3, <1>5, Zenon DEF TreeInv, NodeTypes
  <2>4. /\ type' \in [Node -> {"free", "file", "directory"}]
        /\ parent' \in [Node -> Node \cup {Null}]
    BY <1>5, Zenon DEF TreeInv, NodeTypes
  <2>5. /\ name' \in [Node -> Names] /\ size' \in [Node -> Nat] /\ open_count' \in [Node -> Nat]
    BY <1>3, <1>5 DEF TreeInv, NodeTypes
  <2>1. EmptyFile \in [data : {"null", "live", "freed"}, bytes : Seq(Byte \cup {Garbage}), size : Nat]
    BY DEF EmptyFile
  <2>2. file' \in [Node -> [data : {"null", "live", "freed"}, bytes : Seq(Byte \cup {Garbage}), size : Nat]]
    BY <1>5, <2>1 DEF TreeInv, NodeTypes
  <2> QED
    BY <2>2, <2>3, <2>4, <2>5 DEF NodeTypes
<1>12. CmdTypes' /\ FdTypes'
  BY <1>1, <1>2, Zenon DEF TreeInv, CmdTypes, FdTypes
<1>13. TreeSound'
  <2>1. type'[Root] = "directory"
    BY <1>6, <1>9, NodeFacts, Zenon DEF TreeInv, TreeSound
  <2>2. \A d \in Node : type'[d] # "directory" => children'[d] = {}
    BY <1>2, <1>6, <1>8, <1>9, Zenon DEF TreeInv, TreeSound
  <2>3. ASSUME NEW d \in Node, NEW c \in children'[d]
        PROVE  /\ c \in Live' \ {Root}
               /\ parent'[c] = d \/ (pc' = "attach" /\ c = node' /\ d = at')
               /\ \A b \in children'[d] : name'[b] = name'[c] => b = c
               /\ \A e \in Node : c \in children'[e] => e = d
    <3>1. CASE c = n
      <4>1. d = at
        BY <1>7, <1>8, <2>3, <3>1, Zenon
      <4>2. \A b \in children'[d] : name'[b] = name'[c] => b = c
        <5> SUFFICES ASSUME NEW b \in children[at], b # n PROVE name'[b] # name'[n]
          BY <1>3, <1>8, <3>1, <4>1, Zenon
        <5>1. b \in Node
          BY <1>3 DEF TreeInv, NodeTypes
        <5> QED
          BY <1>4, <1>9, <5>1
      <4>3. \A e \in Node : c \in children'[e] => e = d
        BY <1>7, <1>8, <3>1, <4>1, Zenon
      <4> QED
        BY <1>1, <1>2, <1>6, <1>10, <3>1, <4>1, <4>2, <4>3
    <3>2. CASE c # n
      <4>1. c \in children[d] /\ c \in Node
        BY <1>8, <2>3, <3>2, Zenon DEF TreeInv, NodeTypes
      <4>2. parent[c] = d /\ c \in Live \ {Root}
        BY <1>2, <4>1 DEF TreeInv, TreeSound
      <4>3. \A b \in children'[d] : name'[b] = name'[c] => b = c
        <5> SUFFICES ASSUME NEW b \in children'[d], name'[b] = name'[c] PROVE b = c
          OBVIOUS
        <5>1. CASE b = n
          <6>1. d = at
            BY <1>7, <1>8, <5>1, Zenon
          <6> QED
            BY <1>4, <1>9, <3>2, <4>1, <5>1, <6>1
        <5>2. CASE b # n
          <6>1. b \in children[d] /\ b \in Node
            BY <1>8, <5>2, Zenon DEF TreeInv, NodeTypes
          <6>2. name[b] = name[c]
            BY <1>9, <3>2, <4>1, <5>2, <6>1
          <6> QED
            BY <4>1, <6>1, <6>2, SiblingNames DEF TreeInv
        <5> QED
          BY <5>1, <5>2
      <4>4. \A e \in Node : c \in children'[e] => e = d
        BY <1>8, <3>2, <4>1, OneDirectory, ZenonT(30) DEF TreeInv
      <4> QED
        BY <1>9, <1>10, <3>2, <4>1, <4>2, <4>3, <4>4
    <3> QED
      BY <3>1, <3>2
  <2> QED
    BY <2>1, <2>2, <2>3 DEF TreeSound
<1>14. NothingLost'
  BY <1>2, <1>3, <1>8, <1>10, Zenon DEF TreeInv, NothingLost
<1>15. TreeRoot'
  BY <1>6, <1>7, <1>8, <1>9, NodeFacts, ZenonT(30) DEF TreeInv, TreeRoot
<1>16. DescriptorsMatch'
  <2>1. \A m \in Live' : open_count'[m] = 0
    BY <1>2, <1>9, <1>10, NoDescriptor DEF TreeInv, FdPcs, Live
  <2> QED
    BY <1>2, <2>1, DescriptorFrame DEF TreeInv, FdPcs
<1>17. LocalsOk'
  BY <1>1, <1>2, <1>3, <1>6, <1>8, <1>9, <1>10, Zenon DEF LocalsOk, FdPcs
<1> QED
  BY <1>11, <1>12, <1>13, <1>14, <1>15, <1>16, <1>17 DEF TreeInv

LEMMA TreeDetach ==
  ASSUME TreeInv, Detach
  PROVE  TreeInv'
<1> DEFINE victim == FindDir(at, path.last)
<1>1. /\ pc = "parent" /\ at # Null /\ type[at] = "directory" /\ pc' = "detached"
      /\ UNCHANGED <<vfs_cwd, fd_table, op, path, text, at, rest, fd, buffer>>
      /\ UNCHANGED <<type, name, size, open_count, file>>
      /\ victim # Null /\ node' = victim
      /\ children' = [children EXCEPT ![at] = @ \ {victim}]
      /\ parent' = [parent EXCEPT ![victim] = Null]
  BY DEF Detach, DetachChild, AtParent, ParentOk
<1>2. at \in Node
  BY <1>1 DEF TreeInv, CmdTypes
<1>3. victim \in children[at] /\ victim \in Live
  BY <1>1, <1>2, FindDirResult
<1> HIDE DEF victim
<1>4. victim \in Node /\ victim # Root /\ victim # at
  BY <1>2, <1>3 DEF TreeInv, TreeSound, TreeRoot, Live
<1>5. /\ \A d \in Node : children'[d] = IF d = at THEN children[d] \ {victim} ELSE children[d]
      /\ \A m \in Node : m # victim => parent'[m] = parent[m]
  <2>1. children \in [Node -> SUBSET Node] /\ parent \in [Node -> Node \cup {Null}]
    BY DEF TreeInv, NodeTypes
  <2>2. \A d \in Node : children'[d] = IF d = at THEN children[d] \ {victim} ELSE children[d]
    BY <1>1, <1>2, <2>1
  <2>3. \A m \in Node : m # victim => parent'[m] = parent[m]
    BY <1>1, <1>4, <2>1
  <2> QED
    BY <2>2, <2>3
<1>6. \A d \in Node : victim \notin children'[d]
  <2>1. \A d \in Node : victim \in children[d] => d = at
    BY <1>2, <1>3 DEF TreeInv, TreeSound
  <2> QED
    BY <1>5, <2>1, Zenon
<1>7. Live' = Live
  BY <1>1 DEF Live
<1>8. NodeTypes' /\ CmdTypes' /\ FdTypes'
  BY <1>1, <1>2, <1>4, Zenon DEF TreeInv, NodeTypes, CmdTypes, FdTypes
<1>9. TreeSound'
  <2>1. \A d \in Node : children'[d] \subseteq children[d]
    BY <1>5, Zenon
  <2>2. \A d \in Node : \A c \in children'[d] : parent'[c] = d
    BY <1>1, <1>5, <1>6, <2>1 DEF TreeInv, TreeSound, NodeTypes
  <2> QED
    BY <1>1, <1>7, <2>1, <2>2 DEF TreeInv, TreeSound
<1>10. NothingLost'
  BY <1>1, <1>5, <1>7 DEF TreeInv, NothingLost
<1>11. TreeRoot'
  BY <1>4, <1>5, NodeFacts, Zenon DEF TreeInv, TreeRoot
<1>12. DescriptorsMatch'
  <2>1. \A m \in Live' : open_count'[m] = 0
    BY <1>1, <1>7, NoDescriptor DEF TreeInv, FdPcs
  <2> QED
    BY <1>1, <2>1, DescriptorFrame DEF TreeInv, FdPcs
<1>13. LocalsOk'
  <2>1. \A c \in children'[at] : name[c] # name[victim]
    BY <1>2, <1>3, <1>5, SiblingNames, Zenon DEF TreeInv
  <2> QED
    BY <1>1, <1>2, <1>3, <1>4, <1>6, <1>7, <2>1 DEF LocalsOk, FdPcs
<1> QED
  BY <1>8, <1>9, <1>10, <1>11, <1>12, <1>13 DEF TreeInv

LEMMA TreePutBack ==
  ASSUME TreeInv, PutBack
  PROVE  TreeInv'
<1>1. /\ pc = "detached" /\ pc' = "attach"
      /\ UNCHANGED <<type, name, parent, size, open_count, file, vfs_cwd, fd_table>>
      /\ UNCHANGED <<op, path, text, at, rest, node, fd, buffer>>
      /\ children' = [children EXCEPT ![at] = @ \cup {node}]
  BY DEF PutBack, LinkChild, cmdVars
<1>2. /\ at \in Node /\ type[at] = "directory" /\ node \in Live \ {Root} /\ node # at /\ node \in Node
      /\ \A d \in Node : node \notin children[d]
      /\ \A c \in children[at] : name[c] # name[node]
  BY <1>1 DEF TreeInv, LocalsOk, Live
<1>3. \A d \in Node : children'[d] = IF d = at THEN children[d] \cup {node} ELSE children[d]
  BY <1>1, <1>2, Zenon DEF TreeInv, NodeTypes
<1>4. Live' = Live
  BY <1>1 DEF Live
<1>5. NodeTypes' /\ CmdTypes' /\ FdTypes'
  BY <1>1, <1>2, Zenon DEF TreeInv, NodeTypes, CmdTypes, FdTypes
<1>6. TreeSound'
  <2>1. type'[Root] = "directory" /\ \A d \in Node : type'[d] # "directory" => children'[d] = {}
    BY <1>1, <1>2, <1>3, Zenon DEF TreeInv, TreeSound
  <2>2. ASSUME NEW d \in Node, NEW c \in children'[d]
        PROVE  /\ c \in Live' \ {Root}
               /\ parent'[c] = d \/ (pc' = "attach" /\ c = node' /\ d = at')
               /\ \A b \in children'[d] : name'[b] = name'[c] => b = c
               /\ \A e \in Node : c \in children'[e] => e = d
    <3>1. CASE c = node
      <4>1. d = at
        BY <1>2, <1>3, <2>2, <3>1, Zenon
      <4> QED
        BY <1>1, <1>2, <1>3, <1>4, <3>1, <4>1
    <3>2. CASE c # node
      <4>1. c \in children[d]
        BY <1>3, <2>2, <3>2, Zenon
      <4>2. parent[c] = d /\ c \in Live \ {Root}
        BY <1>1, <4>1, Zenon DEF TreeInv, TreeSound
      <4>3. \A b \in children'[d] : name'[b] = name'[c] => b = c
        BY <1>1, <1>2, <1>3, <3>2, <4>1 DEF TreeInv, TreeSound
      <4>4. \A e \in Node : c \in children'[e] => e = d
        BY <1>3, <3>2, <4>1, OneDirectory, Zenon DEF TreeInv
      <4> QED
        BY <1>1, <1>4, <4>2, <4>3, <4>4
    <3> QED
      BY <3>1, <3>2
  <2> QED
    BY <2>1, <2>2 DEF TreeSound
<1>7. NothingLost'
  BY <1>1, <1>2, <1>3, <1>4 DEF TreeInv, NothingLost
<1>8. TreeRoot'
  BY <1>1, <1>2, <1>3 DEF TreeInv, TreeRoot
<1>9. DescriptorsMatch'
  <2>1. \A m \in Live' : open_count'[m] = 0
    BY <1>1, <1>4, NoDescriptor, Zenon DEF TreeInv, FdPcs
  <2> QED
    BY <1>1, <2>1, DescriptorFrame DEF TreeInv, FdPcs
<1>10. LocalsOk'
  BY <1>1, <1>2, <1>3, <1>4 DEF LocalsOk, FdPcs
<1> QED
  BY <1>5, <1>6, <1>7, <1>8, <1>9, <1>10 DEF TreeInv

LEMMA TreeFree ==
  ASSUME TreeInv, Free
  PROVE  TreeInv'
<1>1. /\ pc = "detached" /\ Removable(op, node) /\ Return
      /\ UNCHANGED <<vfs_cwd, fd_table, parent, children, open_count>>
      /\ type' = [type EXCEPT ![node] = "free"]
      /\ name' = [name EXCEPT ![node] = ""]
      /\ size' = [size EXCEPT ![node] = 0]
      /\ file' = [file EXCEPT ![node] = EmptyFile]
  BY Zenon DEF Free, FreeNode
<1>2. /\ node \in Live \ {Root} /\ node \in Node
      /\ \A d \in Node : node \notin children[d]
  BY <1>1, Zenon DEF TreeInv, LocalsOk, Live
<1>3. children[node] = {}
  BY <1>1, <1>2, Zenon DEF Removable, TreeInv, TreeSound
<1>4. \A m \in Node : m # node => type'[m] = type[m] /\ name'[m] = name[m]
  BY <1>1, Zenon DEF TreeInv, NodeTypes
<1>5. Live' = Live \ {node}
  BY <1>1, <1>2, <1>4, Zenon DEF Live, TreeInv, NodeTypes
<1>6. CmdTypes' /\ fd' \in Fd /\ pc' = "idle"
  BY <1>1, ReturnTypes, Zenon
<1>7. FdTypes'
  BY <1>1, <1>6, Zenon DEF TreeInv, FdTypes
<1>8. NodeTypes'
  <2>1. EmptyFile \in [data : {"null", "live", "freed"}, bytes : Seq(Byte \cup {Garbage}), size : Nat]
    BY DEF EmptyFile
  <2>2. file' \in [Node -> [data : {"null", "live", "freed"}, bytes : Seq(Byte \cup {Garbage}), size : Nat]]
    BY <1>1, <2>1, Zenon DEF TreeInv, NodeTypes
  <2>3. type' \in [Node -> {"free", "file", "directory"}] /\ name' \in [Node -> Names] /\ size' \in [Node -> Nat]
    BY <1>1, NodeFacts, ZenonT(30) DEF TreeInv, NodeTypes
  <2> QED
    BY <1>1, <2>2, <2>3, Zenon DEF TreeInv, NodeTypes
<1>9. TreeSound'
  <2>1. type'[Root] = "directory"
    BY <1>2, <1>4, NodeFacts, Zenon DEF TreeInv, TreeSound
  <2>2. \A d \in Node : type'[d] # "directory" => children'[d] = {}
    BY <1>1, <1>3, <1>4, Zenon DEF TreeInv, TreeSound
  <2>3. ASSUME NEW d \in Node, NEW c \in children'[d]
        PROVE  /\ c \in Live' \ {Root}
               /\ parent'[c] = d
               /\ \A b \in children'[d] : name'[b] = name'[c] => b = c
               /\ \A e \in Node : c \in children'[e] => e = d
    <3>1. c \in children[d] /\ c # node /\ c \in Node
      BY <1>1, <1>2, <2>3, Zenon DEF TreeInv, NodeTypes
    <3>2. c \in Live' \ {Root} /\ parent'[c] = d
      BY <1>1, <1>5, <3>1, ZenonT(30) DEF TreeInv, TreeSound
    <3>3. ASSUME NEW b \in children'[d], name'[b] = name'[c] PROVE b = c
      <4>1. b \in children[d] /\ b # node /\ b \in Node
        BY <1>1, <1>2, <3>3, Zenon DEF TreeInv, NodeTypes
      <4> QED
        BY <1>4, <3>1, <3>3, <4>1, SiblingNames DEF TreeInv
    <3>4. \A e \in Node : c \in children'[e] => e = d
      BY <1>1, <3>1, OneDirectory, Zenon DEF TreeInv
    <3> QED
      BY <3>2, <3>3, <3>4
  <2> QED
    BY <2>1, <2>2, <2>3 DEF TreeSound
<1>10. NothingLost'
  BY <1>1, <1>5, Zenon DEF TreeInv, NothingLost
<1>11. TreeRoot'
  BY <1>1, Zenon DEF TreeInv, TreeRoot
<1>12. DescriptorsMatch'
  <2>1. \A m \in Live' : open_count'[m] = 0
    BY <1>1, <1>5, NoDescriptor, Zenon DEF TreeInv, FdPcs
  <2> QED
    BY <1>1, <2>1, DescriptorFrame, Zenon DEF TreeInv, FdPcs
<1>13. LocalsOk'
  BY <1>6 DEF LocalsOk, FdPcs
<1> QED
  BY <1>6, <1>7, <1>8, <1>9, <1>10, <1>11, <1>12, <1>13 DEF TreeInv

LEMMA TreeAttach ==
  ASSUME TreeInv, Attach
  PROVE  TreeInv'
<1>1. /\ pc = "attach" /\ parent' = [parent EXCEPT ![node] = at]
      /\ UNCHANGED <<type, name, children, size, open_count, file, vfs_cwd, fd_table>>
  BY DEF Attach, SetParent
<1>2. \/ pc' = "open" /\ UNCHANGED <<op, path, text, at, rest, node, fd, buffer>>
      \/ Return
  BY DEF Attach, cmdVars
<1>3. pc' \in {"open", "idle"}
  BY <1>2 DEF Return
<1>4. /\ at \in Node /\ node \in Live \ {Root} /\ node \in Node /\ node \in children[at]
  BY <1>1 DEF TreeInv, LocalsOk, Live
<1>5. parent'[node] = at /\ \A m \in Node : m # node => parent'[m] = parent[m]
  BY <1>1, <1>4 DEF TreeInv, NodeTypes
<1>6. Live' = Live
  BY <1>1 DEF Live
<1>7. NodeTypes'
  <2>1. parent' \in [Node -> Node \cup {Null}]
    BY <1>1, <1>4 DEF TreeInv, NodeTypes
  <2> QED
    BY <1>1, <2>1 DEF TreeInv, NodeTypes
<1>8. CmdTypes' /\ FdTypes'
  <2>1. CASE Return
    BY <1>1, <2>1, ReturnTypes DEF TreeInv, FdTypes
  <2>2. CASE pc' = "open" /\ UNCHANGED <<op, path, text, at, rest, node, fd, buffer>>
    BY <1>1, <2>2, Zenon DEF TreeInv, FdTypes, CmdTypes
  <2> QED
    BY <1>2, <2>1, <2>2
<1>9. TreeSound'
  <2>1. ASSUME NEW d \in Node, NEW c \in children[d]
        PROVE  parent'[c] = d
    <3>1. CASE c = node
      BY <1>4, <1>5, <2>1, <3>1, OneDirectory DEF TreeInv
    <3>2. CASE c # node
      <4>1. parent[c] = d /\ c \in Node
        BY <2>1, <3>2 DEF TreeInv, TreeSound, NodeTypes
      <4> QED
        BY <1>5, <3>2, <4>1
    <3> QED
      BY <3>1, <3>2
  <2> QED
    BY <1>1, <1>6, <2>1 DEF TreeInv, TreeSound
<1>10. NothingLost'
  BY <1>1, <1>6 DEF TreeInv, NothingLost
<1>11. TreeRoot'
  BY <1>1, <1>4, <1>5, NodeFacts, Zenon DEF TreeInv, TreeRoot
<1>12. DescriptorsMatch'
  <2>1. \A m \in Live' : open_count'[m] = 0
    BY <1>1, <1>6, NoDescriptor DEF TreeInv, FdPcs
  <2> QED
    BY <1>1, <2>1, DescriptorFrame DEF TreeInv, FdPcs
<1>13. LocalsOk'
  BY <1>2, <1>3, <1>4, <1>6 DEF LocalsOk, FdPcs, Return
<1> QED
  BY <1>7, <1>8, <1>9, <1>10, <1>11, <1>12, <1>13 DEF TreeInv

LEMMA TreeOpen ==
  ASSUME TreeInv, Open
  PROVE  TreeInv'
<1>1. pc = "open" /\ vfs_cwd' = vfs_cwd
  BY DEF Open
<1>2. CASE FreeFds = {}
  <2>1. Return /\ UNCHANGED <<nodeVars, fd_table>>
    BY <1>2 DEF Open
  <2>2. vfs_cwd' \in Node
    BY <1>1 DEF TreeInv, FdTypes
  <2> QED
    BY <1>1, <2>1, <2>2, QuietReturn DEF FdPcs
<1>3. CASE FreeFds # {}
  <2>1. PICK f \in FreeFds :
          /\ fd_table' = [fd_table EXCEPT ![f] = [in_use |-> TRUE, node |-> node, position |-> 0]]
          /\ open_count' = [open_count EXCEPT ![node] = @ + 2]
          /\ size' = (IF Truncates(op) THEN [size EXCEPT ![node] = 0] ELSE size)
          /\ fd' = f
          /\ pc' = AfterOpen
          /\ UNCHANGED <<type, name, parent, children, file, op, path, text, at, rest, node, buffer>>
    BY <1>3 DEF Open
  <2>2. pc' \in {"read", "write", "close"}
    BY <2>1 DEF AfterOpen
  <2>3. f \in Fd /\ node \in Live /\ node \in Node
    BY <1>1 DEF FreeFds, TreeInv, LocalsOk, Live
  <2>4. TreeSound' /\ NothingLost' /\ TreeRoot'
    BY <1>1, <2>1, <2>2, TreeFrame, Zenon DEF TreeInv
  <2>5. NodeTypes'
    <3>1. open_count' \in [Node -> Nat]
      BY <2>1, <2>3 DEF TreeInv, NodeTypes
    <3>2. size' \in [Node -> Nat]
      BY <2>1, <2>3 DEF TreeInv, NodeTypes
    <3> QED
      BY <2>1, <3>1, <3>2 DEF TreeInv, NodeTypes
  <2>6. CmdTypes'
    BY <2>1, <2>2 DEF TreeInv, CmdTypes
  <2>7. FdTypes'
    BY <1>1, <2>1, <2>3 DEF TreeInv, FdTypes
  <2>8. /\ \A g \in Fd : ~ fd_table[g].in_use
        /\ \A n \in Live : open_count[n] = 0
    BY <1>1, NoDescriptor DEF TreeInv, FdPcs
  <2>9. /\ fd_table'[f].in_use /\ fd_table'[f].node = node
        /\ \A g \in Fd : g # f => fd_table'[g] = fd_table[g]
        /\ \A n \in Node : open_count'[n] = IF n = node THEN open_count[n] + 2 ELSE open_count[n]
    BY <2>1, <2>3 DEF TreeInv, FdTypes, NodeTypes
  <2>10. Live' = Live
    BY <2>1 DEF Live
  <2>11. DescriptorsMatch'
    <3>1. \A g \in Fd : fd_table'[g].in_use => g = fd' /\ fd_table'[g].node \in Live'
      BY <2>1, <2>3, <2>8, <2>9, <2>10
    <3>2. ASSUME NEW n \in Live'
          PROVE  open_count'[n] = IF \E g \in Fd : fd_table'[g].in_use /\ fd_table'[g].node = n
                                  THEN 2 ELSE 0
      <4>1. n \in Node /\ open_count[n] = 0
        BY <2>8, <2>10 DEF Live
      <4>2. CASE n = node
        BY <2>3, <2>9, <4>1, <4>2
      <4>3. CASE n # node
        BY <2>8, <2>9, <4>1, <4>3, Zenon
      <4> QED
        BY <4>2, <4>3
    <3> QED
      BY <2>2, <3>1, <3>2, Zenon DEF DescriptorsMatch
  <2>12. LocalsOk'
    BY <2>1, <2>2, <2>9 DEF LocalsOk
  <2> QED
    BY <2>4, <2>5, <2>6, <2>7, <2>11, <2>12, Zenon DEF TreeInv
<1> QED
  BY <1>2, <1>3

LEMMA OpenedLive ==
  ASSUME TreeInv, pc \in FdPcs
  PROVE  Opened \in Live /\ Opened \in Node /\ fd \in Fd /\ fd_table[fd].in_use
  BY Zenon DEF TreeInv, LocalsOk, DescriptorsMatch, FdTypes, Opened, Live

\* A step of a command that has a file open and keeps it open.
LEMMA FdStep ==
  ASSUME TreeInv, pc \in FdPcs, pc' \in FdPcs, NodeTypes',
         UNCHANGED <<type, name, parent, children, open_count, vfs_cwd, fd, op, path, text, at, rest, node>>,
         buffer' \in Seq(Byte \cup {Garbage}),
         fd_table' \in [Fd -> [in_use : BOOLEAN, node : Node \cup {Null}, position : Nat]],
         \A f \in Fd : /\ fd_table'[f].in_use <=> fd_table[f].in_use
                       /\ fd_table'[f].node = fd_table[f].node
  PROVE  TreeInv'
<1>1. TreeSound' /\ NothingLost' /\ TreeRoot'
  BY TreeFrame DEF TreeInv, FdPcs
<1>2. DescriptorsMatch'
  BY OpenFrame DEF TreeInv
<1>3. CmdTypes'
  BY DEF TreeInv, CmdTypes, FdPcs
<1>4. FdTypes'
  BY DEF TreeInv, FdTypes
<1>5. LocalsOk'
  BY OpenedLive DEF LocalsOk, FdPcs
<1> QED
  BY <1>1, <1>2, <1>3, <1>4, <1>5 DEF TreeInv

\* How vfs_read and vfs_write move a position.
LEMMA MovePosition ==
  ASSUME FdTypes, NEW q \in Nat, fd_table' = [fd_table EXCEPT ![fd].position = q]
  PROVE  /\ fd_table' \in [Fd -> [in_use : BOOLEAN, node : Node \cup {Null}, position : Nat]]
         /\ \A f \in Fd : /\ fd_table'[f].in_use <=> fd_table[f].in_use
                          /\ fd_table'[f].node = fd_table[f].node
         /\ fd_table'[fd].position = q
  BY DEF FdTypes

LEMMA KeepTable ==
  ASSUME FdTypes, fd_table' = fd_table
  PROVE  /\ fd_table' \in [Fd -> [in_use : BOOLEAN, node : Node \cup {Null}, position : Nat]]
         /\ \A f \in Fd : /\ fd_table'[f].in_use <=> fd_table[f].in_use
                          /\ fd_table'[f].node = fd_table[f].node
  BY DEF FdTypes

LEMMA ReadCountInt ==
  ASSUME NodeTypes, NEW n \in Node, NEW pos \in Nat, NEW len \in Nat
  PROVE  ReadCount(n, pos, len) \in Int
<1>1. file[n].size \in Nat
  BY DEF NodeTypes
<1> QED
  BY <1>1 DEF ReadCount

LEMMA TreeRead ==
  ASSUME TreeInv, Read
  PROVE  TreeInv'
<1> DEFINE n == ReadCount(Opened, fd_table[fd].position, IF op = "cat" THEN CatBuf ELSE ExecBuf)
<1>1. /\ pc = "read" /\ UNCHANGED <<nodeVars, vfs_cwd, op, path, text, at, rest, node, fd, buffer>>
      /\ UNCHANGED <<type, name, parent, children, size, open_count, file>>
      /\ pc' \in {"read", "close"}
  BY DEF Read, cmdVars, nodeVars
<1>2. \/ n > 0 /\ fd_table' = [fd_table EXCEPT ![fd].position = @ + n]
      \/ fd_table' = fd_table
  BY DEF Read
<1>3. fd_table[fd].position \in Nat /\ Opened \in Node
  BY <1>1, OpenedLive DEF TreeInv, FdTypes, FdPcs
<1>4. n \in Int
  BY <1>3, ReadCountInt, VfsAssumption, Zenon DEF TreeInv
<1> HIDE DEF n
<1>5. /\ fd_table' \in [Fd -> [in_use : BOOLEAN, node : Node \cup {Null}, position : Nat]]
      /\ \A f \in Fd : /\ fd_table'[f].in_use <=> fd_table[f].in_use
                       /\ fd_table'[f].node = fd_table[f].node
  <2>1. CASE n > 0 /\ fd_table' = [fd_table EXCEPT ![fd].position = @ + n]
    <3>1. fd_table[fd].position + n \in Nat
      BY <1>3, <1>4, <2>1
    <3>2. fd_table' = [fd_table EXCEPT ![fd].position = fd_table[fd].position + n]
      BY <2>1
    <3> QED
      BY <3>1, <3>2, MovePosition, Zenon DEF TreeInv
  <2>2. CASE fd_table' = fd_table
    BY <2>2, KeepTable, Zenon DEF TreeInv
  <2> QED
    BY <1>2, <2>1, <2>2
<1>6. NodeTypes' /\ buffer' \in Seq(Byte \cup {Garbage})
  BY <1>1, Zenon DEF TreeInv, NodeTypes, CmdTypes
<1> QED
  BY <1>1, <1>5, <1>6, FdStep DEF FdPcs

LEMMA TreeClose ==
  ASSUME TreeInv, Close
  PROVE  TreeInv'
<1>1. /\ pc = "close" /\ Return
      /\ UNCHANGED <<type, name, parent, children, size, file, vfs_cwd>>
      /\ fd_table' = [fd_table EXCEPT ![fd] = FreeFd]
      /\ open_count' = [open_count EXCEPT ![Opened] = IF @ > 1 THEN @ - 2 ELSE 0]
  BY DEF Close
<1>2. Opened \in Live /\ Opened \in Node /\ fd \in Fd /\ fd_table[fd].in_use
  BY <1>1, OpenedLive DEF FdPcs
<1>3. CmdTypes' /\ fd' \in Fd /\ pc' = "idle"
  BY <1>1, ReturnTypes
<1>4. TreeSound' /\ NothingLost' /\ TreeRoot'
  BY <1>1, <1>3, TreeFrame DEF TreeInv
<1>5. /\ \A f \in Fd : fd_table'[f] = IF f = fd THEN FreeFd ELSE fd_table[f]
      /\ \A n \in Node : n # Opened => open_count'[n] = open_count[n]
      /\ open_count'[Opened] = IF open_count[Opened] > 1 THEN open_count[Opened] - 2 ELSE 0
  BY <1>1, <1>2, Zenon DEF TreeInv, FdTypes, NodeTypes
<1>6. NodeTypes'
  <2>1. open_count' \in [Node -> Nat]
    BY <1>1, <1>2 DEF TreeInv, NodeTypes
  <2> QED
    BY <1>1, <2>1 DEF TreeInv, NodeTypes
<1>7. FdTypes'
  <2>1. FreeFd \in [in_use : BOOLEAN, node : Node \cup {Null}, position : Nat]
    BY DEF FreeFd
  <2> QED
    BY <1>1, <1>3, <2>1 DEF TreeInv, FdTypes
<1>8. \A f \in Fd : ~ fd_table'[f].in_use
  <2>1. \A f \in Fd : f # fd => ~ fd_table[f].in_use
    BY DEF TreeInv, DescriptorsMatch
  <2> QED
    BY <1>5, <2>1 DEF FreeFd
<1>9. ASSUME NEW n \in Live PROVE open_count'[n] = 0
  <2>1. CASE n = Opened
    <3>1. open_count[n] = 2
      BY <1>2, <2>1 DEF TreeInv, DescriptorsMatch, Opened
    <3> QED
      BY <1>5, <2>1, <3>1
  <2>2. CASE n # Opened
    <3>1. ~ \E f \in Fd : fd_table[f].in_use /\ fd_table[f].node = n
      BY <2>2 DEF TreeInv, DescriptorsMatch, Opened
    <3>2. open_count[n] = 0
      BY <3>1 DEF TreeInv, DescriptorsMatch
    <3> QED
      BY <1>5, <2>2, <3>2 DEF Live
  <2> QED
    BY <2>1, <2>2
<1>10. Live' = Live
  BY <1>1 DEF Live
<1>11. DescriptorsMatch'
  BY <1>8, <1>9, <1>10 DEF DescriptorsMatch
<1>12. LocalsOk'
  BY <1>3 DEF LocalsOk, FdPcs
<1> QED
  BY <1>3, <1>4, <1>6, <1>7, <1>11, <1>12 DEF TreeInv

-----------------------------------------------------------------------------
(***************************************************************************)
(* The file contents, and with the tree the invariants.                    *)
(***************************************************************************)
\* The buffer between the steps of a write, which starts at the beginning of the file.
WriteOk ==
  /\ pc \in {"write", "store", "sizes"} => fd_table[fd].position = 0
  /\ pc \in {"store", "sizes"} => type[Opened] = "file"
  /\ pc = "store" => /\ Len(text) <= Len(buffer)
                     /\ file[Opened].size <= Len(buffer)
                     /\ \A i \in 1..file[Opened].size : buffer[i] \in Byte
  /\ pc = "sizes" => /\ file[Opened].data = "live"
                     /\ Len(text) <= Capacity(Opened)
                     /\ \A i \in 1..Len(text) : file[Opened].bytes[i] \in Byte
  /\ \A n \in Node : type[n] = "file" /\ file[n].data = "null" => file[n].size = 0

IInv == TreeInv /\ DataInitialised /\ WriteOk

-----------------------------------------------------------------------------
\* Rounding up to a multiple of the unit never loses bytes.
LEMMA RoundUpEnough ==
  ASSUME NEW len \in Nat
  PROVE  RoundUp(len) \in Nat /\ RoundUp(len) >= len
<1>0. CapUnit \in Nat \ {0}
  BY RamfsAssumption, Zenon
<1>1. CapUnit \in Nat /\ CapUnit > 0
  BY <1>0
<1> DEFINE q == (len + CapUnit - 1) \div CapUnit
           r == (len + CapUnit - 1) % CapUnit
<1>2. q \in Nat /\ r \in 0..CapUnit - 1 /\ len + CapUnit - 1 = CapUnit * q + r
  BY <1>1
<1> HIDE DEF q, r
<1>3. CapUnit * q \in Nat /\ CapUnit * q = q * CapUnit
  BY <1>1, <1>2
<1>4. q * CapUnit >= len
  BY <1>1, <1>2, <1>3
<1> QED
  BY <1>3, <1>4 DEF RoundUp, q

\* The buffer a write from the start of the file fills has room for the old contents
\* and for the text, and begins with the old contents.
LEMMA NewBufferFits ==
  ASSUME NodeTypes, NEW n \in Node, NEW len \in Nat,
         file[n].size <= Capacity(n),
         \A i \in 1..file[n].size : file[n].bytes[i] \in Byte,
         file[n].data = "null" => file[n].size = 0
  PROVE  /\ NewBuffer(n, len) \in Seq(Byte \cup {Garbage})
         /\ len <= Len(NewBuffer(n, len))
         /\ file[n].size <= Len(NewBuffer(n, len))
         /\ \A i \in 1..file[n].size : NewBuffer(n, len)[i] \in Byte
<1>1. /\ file[n].bytes \in Seq(Byte \cup {Garbage}) /\ file[n].size \in Nat
      /\ Capacity(n) \in Nat /\ Capacity(n) = Len(file[n].bytes)
  <2>1. file[n] \in [data : {"null", "live", "freed"}, bytes : Seq(Byte \cup {Garbage}), size : Nat]
    BY Zenon DEF NodeTypes
  <2> QED
    BY <2>1, LenProperties, Zenon DEF Capacity
<1>2. CASE len <= Capacity(n)
  BY <1>1, <1>2 DEF NewBuffer
<1>3. CASE ~ (len <= Capacity(n))
  <2> DEFINE R == RoundUp(len)
             b == [i \in 1..R |-> IF file[n].data # "null" /\ i <= file[n].size
                                  THEN file[n].bytes[i] ELSE Garbage]
  <2>1. R \in Nat /\ R >= len
    BY RoundUpEnough
  <2>2. NewBuffer(n, len) = b
    BY <1>3 DEF NewBuffer
  <2> HIDE DEF R
  <2>3. ASSUME NEW i \in 1..R
        PROVE  (IF file[n].data # "null" /\ i <= file[n].size THEN file[n].bytes[i] ELSE Garbage)
                  \in Byte \cup {Garbage}
    BY <1>1, <2>1
  <2>4. b \in [1..R -> Byte \cup {Garbage}]
    BY <2>3
  <2>5. b \in Seq(Byte \cup {Garbage}) /\ Len(b) = R
    BY <2>1, <2>4
  <2>6. file[n].size <= R
    BY <1>1, <1>3, <2>1
  <2>7. ASSUME NEW i \in 1..file[n].size PROVE b[i] \in Byte
    <3>1. i \in 1..R /\ i <= file[n].size /\ file[n].data # "null"
      BY <1>1, <2>1, <2>6
    <3> QED
      BY <3>1
  <2> HIDE DEF b
  <2> QED
    BY <2>1, <2>2, <2>5, <2>6, <2>7
<1> QED
  BY <1>2, <1>3

LEMMA TextFacts == ASSUME CmdTypes PROVE text \in Seq(Byte) /\ Len(text) \in Nat
<1>1. text \in Seq(Byte)
  BY DEF CmdTypes
<1> QED
  BY <1>1, LenProperties

LEMMA OpenedFile ==
  ASSUME NodeTypes, NEW n \in Node
  PROVE  /\ file[n].data \in {"null", "live", "freed"} /\ file[n].size \in Nat
         /\ file[n].bytes \in Seq(Byte \cup {Garbage})
         /\ Capacity(n) = Len(file[n].bytes) /\ Capacity(n) \in Nat
<1>1. file[n] \in [data : {"null", "live", "freed"}, bytes : Seq(Byte \cup {Garbage}), size : Nat]
  BY DEF NodeTypes
<1> QED
  BY <1>1, LenProperties DEF Capacity

\* A step that leaves the nodes' contents alone, outside the three steps of a write.
LEMMA DataFrame ==
  ASSUME IInv, UNCHANGED <<type, size, file>>, pc \notin {"store", "sizes"},
         pc' \notin {"write", "store", "sizes"}
  PROVE  DataInitialised' /\ WriteOk'
<1>1. DataInitialised'
  BY Zenon DEF IInv, DataInitialised, Capacity
<1>2. WriteOk'
  BY DEF IInv, WriteOk
<1> QED
  BY <1>1, <1>2

LEMMA DataCreate ==
  ASSUME IInv, Create
  PROVE  DataInitialised' /\ WriteOk'
<1>1. pc = "parent" /\ pc' = "attach"
  BY DEF Create, AtParent
<1>2. PICK n \in Node \ Live :
        NewChild(n, at, path.last, IF op = "mkdir" THEN "directory" ELSE "file")
  BY DEF Create
<1>3. /\ \A m \in Node : m # n => type'[m] = type[m] /\ size'[m] = size[m] /\ file'[m] = file[m]
      /\ size'[n] = 0 /\ file'[n] = EmptyFile
  BY <1>2, Zenon DEF NewChild, IInv, TreeInv, NodeTypes
<1>4. ASSUME NEW m \in Node, type'[m] = "file"
      PROVE  /\ size'[m] <= file'[m].size
             /\ file'[m].size <= Len(file'[m].bytes)
             /\ \A i \in 1..file'[m].size : file'[m].bytes[i] \in Byte
             /\ file'[m].data # "freed"
             /\ file'[m].data = "null" => file'[m].size = 0
  <2>1. CASE m = n
    <3>1. /\ file'[m].size = 0 /\ file'[m].bytes = <<>> /\ file'[m].data = "null" /\ size'[m] = 0
      BY <1>3, <2>1 DEF EmptyFile
    <3>2. Len(<<>>) = 0 /\ 1..0 = {}
      BY SMTT(30), Zenon
    <3> QED
      BY <3>1, <3>2
  <2>2. CASE m # n
    BY <1>1, <1>3, <1>4, <2>2, Zenon DEF IInv, DataInitialised, WriteOk, Capacity
  <2> QED
    BY <2>1, <2>2
<1>5. DataInitialised'
  BY <1>4, Zenon DEF DataInitialised, Capacity
<1>6. WriteOk'
  BY <1>1, <1>4 DEF WriteOk
<1> QED
  BY <1>5, <1>6

LEMMA DataFree ==
  ASSUME IInv, Free
  PROVE  DataInitialised' /\ WriteOk'
<1>1. pc = "detached" /\ pc' = "idle" /\ FreeNode(node)
  BY Zenon DEF Free, Return
<1>2. node \in Node
  BY <1>1 DEF IInv, TreeInv, LocalsOk, Live
<1>3. /\ \A m \in Node : m # node => type'[m] = type[m] /\ size'[m] = size[m] /\ file'[m] = file[m]
      /\ type'[node] = "free"
  BY <1>1, <1>2, ZenonT(30) DEF FreeNode, IInv, TreeInv, NodeTypes
<1>4. ASSUME NEW m \in Node, type'[m] = "file"
      PROVE  /\ size'[m] <= file'[m].size
             /\ file'[m].size <= Len(file'[m].bytes)
             /\ \A i \in 1..file'[m].size : file'[m].bytes[i] \in Byte
             /\ file'[m].data # "freed"
             /\ file'[m].data = "null" => file'[m].size = 0
  BY <1>1, <1>3, <1>4, Zenon DEF IInv, DataInitialised, WriteOk, Capacity
<1>5. DataInitialised'
  BY <1>4, Zenon DEF DataInitialised, Capacity
<1>6. WriteOk'
  BY <1>1, <1>4 DEF WriteOk
<1> QED
  BY <1>5, <1>6

LEMMA DataOpen ==
  ASSUME IInv, Open
  PROVE  DataInitialised' /\ WriteOk'
<1>1. pc = "open" /\ node \in Node
  BY Zenon DEF Open, IInv, TreeInv, LocalsOk, Live
<1>2. CASE FreeFds = {}
  <2>1. pc' = "idle" /\ UNCHANGED <<type, size, file>>
    BY <1>2 DEF Open, Return, nodeVars
  <2> QED
    BY <1>1, <2>1, DataFrame, Zenon
<1>3. CASE FreeFds # {}
  <2>1. PICK f \in FreeFds :
          /\ fd_table' = [fd_table EXCEPT ![f] = [in_use |-> TRUE, node |-> node, position |-> 0]]
          /\ size' = (IF Truncates(op) THEN [size EXCEPT ![node] = 0] ELSE size)
          /\ fd' = f
          /\ pc' = AfterOpen
          /\ UNCHANGED <<type, file>>
    BY <1>3 DEF Open
  <2>2. pc' \in {"read", "write", "close"}
    BY <2>1, Zenon DEF AfterOpen
  <2>3. f \in Fd /\ fd_table'[fd'].position = 0
    BY <2>1 DEF FreeFds, IInv, TreeInv, FdTypes
  <2>4. ASSUME NEW m \in Node, type[m] = "file" PROVE size'[m] <= file[m].size
    <3>1. size[m] \in Nat /\ file[m].size \in Nat /\ size[m] <= file[m].size
      BY <2>4, OpenedFile, ZenonT(30) DEF IInv, TreeInv, NodeTypes, DataInitialised
    <3>2. size'[m] = size[m] \/ size'[m] = 0
      BY <1>1, <2>1, SMTT(30) DEF IInv, TreeInv, NodeTypes
    <3> QED
      BY <3>1, <3>2
  <2>5. DataInitialised'
    BY <1>1, <2>1, <2>4, ZenonT(30) DEF IInv, DataInitialised, Capacity
  <2>6. WriteOk'
    BY <2>1, <2>2, <2>3, Zenon DEF IInv, WriteOk
  <2> QED
    BY <2>5, <2>6, Zenon
<1> QED
  BY <1>2, <1>3

LEMMA StepWriteGrow ==
  ASSUME IInv, WriteGrow
  PROVE  IInv'
<1> DEFINE o == Opened
<1>1. /\ pc = "write"
      /\ UNCHANGED <<type, name, parent, children, size, open_count, vfs_cwd, fd_table,
                     op, path, text, at, rest, node, fd>>
  BY DEF WriteGrow
<1>2. o \in Node /\ fd \in Fd /\ TreeInv /\ NodeTypes
  BY <1>1, OpenedLive DEF IInv, TreeInv, FdPcs
<1>3. o' = o
  BY <1>1 DEF Opened
<1>4. Len(text) \in Nat /\ Required = Len(text)
  <2>1. fd_table[fd].position = 0
    BY <1>1 DEF IInv, WriteOk
  <2>2. Len(text) \in Nat
    BY TextFacts DEF IInv, TreeInv
  <2> QED
    BY <2>1, <2>2 DEF Required
<1>5. CASE pc' = "close" /\ UNCHANGED <<file, buffer>>
  <2>1. NodeTypes' /\ buffer' \in Seq(Byte \cup {Garbage})
    BY <1>1, <1>2, <1>5, Zenon DEF TreeInv, NodeTypes, CmdTypes
  <2>2. TreeInv'
    BY <1>1, <1>2, <1>5, <2>1, FdStep, KeepTable DEF FdPcs, TreeInv
  <2>3. DataInitialised' /\ WriteOk'
    BY <1>1, <1>5, DataFrame
  <2> QED
    BY <2>2, <2>3 DEF IInv
<1>6. CASE /\ type[Opened] = "file" /\ buffer' = NewBuffer(Opened, Required)
           /\ FreeOldData(Opened, Required) /\ pc' = "store"
  <2>1. /\ type[o] = "file" /\ buffer' = NewBuffer(o, Len(text))
    BY <1>4, <1>6
  <2>2. /\ file[o].size <= Capacity(o)
        /\ \A i \in 1..file[o].size : file[o].bytes[i] \in Byte
        /\ file[o].data = "null" => file[o].size = 0
    BY <1>2, <2>1, Zenon DEF IInv, DataInitialised, WriteOk
  <2>3. PICK d \in {"null", "live", "freed"} :
          /\ file' = [file EXCEPT ![o].data = d] /\ (d = "null" => file[o].data = "null")
    <3>1. file[o].data \in {"null", "live", "freed"}
      BY <1>2, OpenedFile
    <3> QED
      BY <1>6, <3>1, Zenon DEF FreeOldData
  <2>4. /\ \A m \in Node : m # o => file'[m] = file[m]
        /\ file'[o].bytes = file[o].bytes /\ file'[o].size = file[o].size /\ file'[o].data = d
        /\ file' \in [Node -> [data : {"null", "live", "freed"}, bytes : Seq(Byte \cup {Garbage}), size : Nat]]
    BY <1>2, <2>3, Zenon DEF NodeTypes
  <2>5. /\ buffer' \in Seq(Byte \cup {Garbage})
        /\ Len(text) <= Len(buffer') /\ file[o].size <= Len(buffer')
        /\ \A i \in 1..file[o].size : buffer'[i] \in Byte
    <3> HIDE DEF o
    <3> QED
      BY <1>2, <1>4, <2>1, <2>2, NewBufferFits
  <2>6. NodeTypes'
    BY <1>1, <1>2, <2>4, Zenon DEF NodeTypes
  <2>7. TreeInv'
    BY <1>1, <1>2, <1>6, <2>5, <2>6, FdStep, KeepTable, Zenon DEF FdPcs, TreeInv
  <2>8. ASSUME NEW m \in Node, type[m] = "file"
        PROVE  /\ size[m] <= file'[m].size
               /\ file'[m].size <= Len(file'[m].bytes)
               /\ \A i \in 1..file'[m].size : file'[m].bytes[i] \in Byte
               /\ file'[m].data = "freed" => m = o
               /\ file'[m].data = "null" => file'[m].size = 0
    <3>1. /\ size[m] <= file[m].size /\ file[m].size <= Len(file[m].bytes)
          /\ \A i \in 1..file[m].size : file[m].bytes[i] \in Byte
          /\ file[m].data # "freed"
          /\ file[m].data = "null" => file[m].size = 0
      BY <1>1, <2>8, Zenon DEF IInv, DataInitialised, WriteOk, Capacity
    <3> HIDE DEF o
    <3> QED
      BY <2>3, <2>4, <3>1
  <2>9. DataInitialised'
    <3> HIDE DEF o
    <3>1. Opened' = o
      BY <1>3 DEF o
    <3> QED
      BY <1>1, <1>6, <2>8, <3>1, Zenon DEF DataInitialised, Capacity
  <2>10. WriteOk'
    <3>1. Opened' = o /\ fd_table'[fd'].position = 0 /\ type'[o] = "file" /\ text' = text
      BY <1>1, <1>3, <2>1, Zenon DEF IInv, WriteOk
    <3> HIDE DEF o
    <3> QED
      BY <1>1, <1>6, <2>4, <2>5, <2>8, <3>1, Zenon DEF WriteOk
  <2> QED
    BY <2>7, <2>9, <2>10 DEF IInv
<1> QED
  BY <1>5, <1>6 DEF WriteGrow

LEMMA StepWriteStore ==
  ASSUME IInv, WriteStore
  PROVE  IInv'
<1> DEFINE o == Opened
           b == [i \in DOMAIN buffer |-> IF i > 0 /\ i <= 0 + Len(text) THEN text[i - 0] ELSE buffer[i]]
<1>1. /\ pc = "store" /\ pc' = "sizes"
      /\ UNCHANGED <<type, name, parent, children, size, open_count, vfs_cwd, fd_table,
                     op, path, text, at, rest, node, fd, buffer>>
  BY Zenon DEF WriteStore, cmdVars
<1>2. o \in Node /\ fd \in Fd /\ TreeInv /\ NodeTypes /\ type[o] = "file"
  BY <1>1, OpenedLive DEF IInv, TreeInv, FdPcs, WriteOk
<1>3. Opened' = o
  BY <1>1 DEF Opened
<1>4. /\ text \in Seq(Byte) /\ Len(text) \in Nat
      /\ buffer \in Seq(Byte \cup {Garbage}) /\ Len(buffer) \in Nat /\ DOMAIN buffer = 1..Len(buffer)
  <2>1. buffer \in Seq(Byte \cup {Garbage})
    BY <1>2 DEF TreeInv, CmdTypes
  <2> QED
    BY <2>1, TextFacts, LenProperties DEF IInv, TreeInv
<1>5. file' = [file EXCEPT ![o].data = "live", ![o].bytes = b]
  <2>1. fd_table[fd].position = 0
    BY <1>1 DEF IInv, WriteOk
  <2> QED
    BY <2>1, Zenon DEF WriteStore, StoreData
<1>6. /\ Len(text) <= Len(buffer) /\ file[o].size <= Len(buffer) /\ file[o].size \in Nat
      /\ \A i \in 1..file[o].size : buffer[i] \in Byte
  BY <1>1, <1>2, OpenedFile, Zenon DEF IInv, WriteOk
<1> HIDE DEF o
<1>7. /\ b \in Seq(Byte \cup {Garbage}) /\ Len(b) = Len(buffer)
      /\ \A i \in 1..Len(text) : b[i] \in Byte
      /\ \A i \in 1..file[o].size : b[i] \in Byte
  <2>1. ASSUME NEW i \in 1..Len(buffer)
        PROVE  /\ b[i] = IF i <= Len(text) THEN text[i] ELSE buffer[i]
               /\ i <= Len(text) => text[i] \in Byte
               /\ buffer[i] \in Byte \cup {Garbage}
    BY <1>4
  <2>2. b \in [1..Len(buffer) -> Byte \cup {Garbage}]
    <3>1. b = [i \in 1..Len(buffer) |-> b[i]]
      BY <1>4
    <3> HIDE DEF b
    <3>2. \A i \in 1..Len(buffer) : b[i] \in Byte \cup {Garbage}
      BY <2>1
    <3> QED
      BY <3>1, <3>2
  <2> HIDE DEF b
  <2>3. b \in Seq(Byte \cup {Garbage}) /\ Len(b) = Len(buffer)
    BY <1>4, <2>2
  <2>4. ASSUME NEW i \in 1..Len(text) PROVE b[i] \in Byte
    <3>1. i \in 1..Len(buffer) /\ i <= Len(text)
      BY <1>4, <1>6
    <3> QED
      BY <2>1, <3>1
  <2>5. ASSUME NEW i \in 1..file[o].size PROVE b[i] \in Byte
    <3>1. i \in 1..Len(buffer)
      BY <1>4, <1>6
    <3> QED
      BY <1>6, <2>1, <3>1, Zenon
  <2> QED
    BY <2>3, <2>4, <2>5
<1> HIDE DEF b
<1>8. /\ \A m \in Node : m # o => file'[m] = file[m]
      /\ file'[o].bytes = b /\ file'[o].size = file[o].size /\ file'[o].data = "live"
      /\ file' \in [Node -> [data : {"null", "live", "freed"}, bytes : Seq(Byte \cup {Garbage}), size : Nat]]
  BY <1>2, <1>5, <1>7, ZenonT(30) DEF NodeTypes
<1>9. NodeTypes'
  BY <1>1, <1>2, <1>8, Zenon DEF NodeTypes
<1>10. TreeInv'
  BY <1>1, <1>2, <1>4, <1>9, FdStep, KeepTable DEF FdPcs, TreeInv
<1>11. ASSUME NEW m \in Node, type[m] = "file"
       PROVE  /\ size[m] <= file'[m].size
              /\ file'[m].size <= Len(file'[m].bytes)
              /\ \A i \in 1..file'[m].size : file'[m].bytes[i] \in Byte
              /\ file'[m].data # "freed"
              /\ file'[m].data = "null" => file'[m].size = 0
  <2>1. /\ size[m] <= file[m].size /\ file[m].size <= Len(file[m].bytes)
        /\ \A i \in 1..file[m].size : file[m].bytes[i] \in Byte
        /\ file[m].data = "freed" => m = o
        /\ file[m].data = "null" => file[m].size = 0
    BY <1>11, Zenon DEF IInv, DataInitialised, WriteOk, Capacity, o
  <2>2. CASE m = o
    BY <1>6, <1>7, <1>8, <2>1, <2>2, Zenon
  <2>3. CASE m # o
    BY <1>8, <2>1, <2>3
  <2> QED
    BY <2>2, <2>3, ZenonT(30)
<1>12. DataInitialised'
  BY <1>1, <1>11, Zenon DEF DataInitialised, Capacity
<1>13. WriteOk'
  <2>1. fd_table'[fd'].position = 0 /\ type'[o] = "file" /\ text' = text
    BY <1>1, <1>2, Zenon DEF IInv, WriteOk
  <2> QED
    BY <1>1, <1>3, <1>6, <1>7, <1>8, <1>11, <2>1, Zenon DEF WriteOk, Capacity
<1> QED
  BY <1>10, <1>12, <1>13, Zenon DEF IInv

LEMMA StepWriteSizes ==
  ASSUME IInv, WriteSizes
  PROVE  IInv'
<1> DEFINE o == Opened
           t == Len(text)
           fs == IF t > file[o].size THEN t ELSE file[o].size
           ns == IF t > file[o].size THEN t ELSE IF t > size[o] THEN t ELSE size[o]
<1>1. /\ pc = "sizes" /\ pc' = "close"
      /\ UNCHANGED <<type, name, parent, children, open_count, vfs_cwd,
                     op, path, text, at, rest, node, fd, buffer>>
  BY DEF WriteSizes, cmdVars
<1>2. o \in Node /\ fd \in Fd /\ TreeInv /\ NodeTypes /\ type[o] = "file"
  BY <1>1, OpenedLive, Zenon DEF IInv, TreeInv, FdPcs, WriteOk
<1>3. t \in Nat /\ Required = t
  <2>1. fd_table[fd].position = 0
    BY <1>1, Zenon DEF IInv, WriteOk
  <2>2. Len(text) \in Nat
    BY TextFacts DEF IInv, TreeInv
  <2> QED
    BY <2>1, <2>2 DEF Required
<1>4. /\ file' = [file EXCEPT ![o].size = fs]
      /\ size' = [size EXCEPT ![o] = ns]
      /\ fd_table' = [fd_table EXCEPT ![fd].position = t]
  BY <1>3, SMTT(30) DEF WriteSizes, NewSize
<1>5. /\ size[o] \in Nat /\ file[o].size \in Nat /\ size[o] <= file[o].size
      /\ file[o].size <= Len(file[o].bytes) /\ Len(file[o].bytes) \in Nat
      /\ \A i \in 1..file[o].size : file[o].bytes[i] \in Byte
      /\ t <= Len(file[o].bytes) /\ \A i \in 1..t : file[o].bytes[i] \in Byte
  <2>1. size[o] \in Nat
    BY <1>2, Zenon DEF NodeTypes
  <2>2. file[o].size \in Nat /\ Capacity(o) = Len(file[o].bytes) /\ Len(file[o].bytes) \in Nat
    BY <1>2, OpenedFile, Zenon
  <2> QED
    BY <1>1, <1>2, <2>1, <2>2, Zenon DEF IInv, DataInitialised, WriteOk
<1> HIDE DEF o, t
<1>6. /\ fs \in Nat /\ ns \in Nat /\ ns <= fs /\ fs <= Len(file[o].bytes)
      /\ \A i \in 1..fs : file[o].bytes[i] \in Byte
  BY <1>3, <1>5, SMTT(30)
<1>7. file[o].data = "live"
  BY <1>1 DEF IInv, WriteOk, o
<1> HIDE DEF fs, ns
<1>8. /\ \A m \in Node : m # o => file'[m] = file[m] /\ size'[m] = size[m]
      /\ file'[o].bytes = file[o].bytes /\ file'[o].size = fs /\ file'[o].data = "live"
      /\ size'[o] = ns
      /\ file' \in [Node -> [data : {"null", "live", "freed"}, bytes : Seq(Byte \cup {Garbage}), size : Nat]]
      /\ size' \in [Node -> Nat]
  BY <1>2, <1>4, <1>6, <1>7, Zenon DEF NodeTypes
<1>9. NodeTypes'
  BY <1>1, <1>2, <1>8, Zenon DEF NodeTypes
<1>10. TreeInv'
  <2>1. buffer' \in Seq(Byte \cup {Garbage})
    BY <1>1, <1>2 DEF TreeInv, CmdTypes
  <2>2. /\ fd_table' \in [Fd -> [in_use : BOOLEAN, node : Node \cup {Null}, position : Nat]]
        /\ \A f \in Fd : /\ fd_table'[f].in_use <=> fd_table[f].in_use
                         /\ fd_table'[f].node = fd_table[f].node
    BY <1>2, <1>3, <1>4, MovePosition, Zenon DEF TreeInv
  <2> QED
    BY <1>1, <1>2, <1>9, <2>1, <2>2, FdStep, Zenon DEF FdPcs
<1>11. ASSUME NEW m \in Node, type[m] = "file"
       PROVE  /\ size'[m] <= file'[m].size
              /\ file'[m].size <= Len(file'[m].bytes)
              /\ \A i \in 1..file'[m].size : file'[m].bytes[i] \in Byte
              /\ file'[m].data # "freed"
              /\ file'[m].data = "null" => file'[m].size = 0
  <2>1. CASE m = o
    BY <1>6, <1>8, <2>1
  <2>2. CASE m # o
    BY <1>1, <1>8, <1>11, <2>2, Zenon DEF IInv, DataInitialised, WriteOk, Capacity
  <2> QED
    BY <2>1, <2>2, Zenon
<1>12. DataInitialised'
  BY <1>1, <1>11, Zenon DEF DataInitialised, Capacity
<1>13. WriteOk'
  BY <1>1, <1>11 DEF WriteOk
<1> QED
  BY <1>10, <1>12, <1>13 DEF IInv

-----------------------------------------------------------------------------
LEMMA InitInv == Init => IInv
<1> SUFFICES ASSUME Init PROVE IInv
  OBVIOUS
<1>1. PICK std \in [StdDirs -> Node \ {Root}] :
        /\ \A s, t \in StdDirs : std[s] = std[t] => s = t
        /\ type = [n \in Node |-> IF n = Root \/ n \in {std[s] : s \in StdDirs} THEN "directory" ELSE "free"]
        /\ name = [n \in Node |-> IF n \in {std[s] : s \in StdDirs}
                                  THEN CHOOSE s \in StdDirs : std[s] = n ELSE ""]
        /\ parent = [n \in Node |-> IF n \in {std[s] : s \in StdDirs} THEN Root ELSE Null]
        /\ children = [n \in Node |-> IF n = Root THEN {std[s] : s \in StdDirs} ELSE {}]
        /\ size = [n \in Node |-> 0]
        /\ open_count = [n \in Node |-> 0]
        /\ file = [n \in Node |-> EmptyFile]
  BY Zenon DEF Init, RamfsInit
<1> DEFINE dirs == {std[s] : s \in StdDirs}
<1>2. /\ vfs_cwd = Root /\ fd_table = [f \in Fd |-> FreeFd]
      /\ pc = "idle" /\ op = "cd" /\ path = RootPath /\ text = <<>>
      /\ at = Null /\ rest = <<>> /\ node = Null /\ fd = 0 /\ buffer = <<>>
  BY DEF Init
<1>3. dirs \subseteq Node \ {Root}
  OBVIOUS
<1>4. \A n \in dirs : name[n] \in StdDirs /\ std[name[n]] = n
  <2> TAKE n \in dirs
  <2>1. PICK s \in StdDirs : std[s] = n
    OBVIOUS
  <2>2. name[n] = CHOOSE r \in StdDirs : std[r] = n
    BY <1>1, <1>3, Zenon
  <2> QED
    BY <2>1, <2>2
<1>5. StdDirs \subseteq Names
  BY RamfsAssumption, ZenonT(30)
<1>6. NodeTypes
  <2>1. name \in [Node -> Names]
    <3>1. \A n \in Node : name[n] \in Names
      <4> TAKE n \in Node
      <4>1. CASE n \in dirs
        BY <1>4, <1>5, <4>1
      <4>2. CASE n \notin dirs
        BY <1>1, <4>2, NodeFacts, Zenon
      <4> QED
        BY <4>1, <4>2
    <3>2. name = [n \in Node |-> name[n]]
      BY <1>1, Zenon
    <3> QED
      BY <3>1, <3>2
  <2>2. EmptyFile \in [data : {"null", "live", "freed"}, bytes : Seq(Byte \cup {Garbage}), size : Nat]
    BY DEF EmptyFile
  <2>3. type \in [Node -> {"free", "file", "directory"}]
    BY <1>1, Zenon
  <2>4. parent \in [Node -> Node \cup {Null}]
    BY <1>1, NodeFacts, Zenon
  <2>5. children \in [Node -> SUBSET Node]
    BY <1>1, <1>3, Zenon
  <2>6. size \in [Node -> Nat] /\ open_count \in [Node -> Nat]
    BY <1>1, Zenon
  <2>7. file \in [Node -> [data : {"null", "live", "freed"}, bytes : Seq(Byte \cup {Garbage}), size : Nat]]
    BY <1>1, <2>2, Zenon
  <2> QED
    BY <2>1, <2>3, <2>4, <2>5, <2>6, <2>7 DEF NodeTypes
<1>7. CmdTypes
  BY <1>2 DEF CmdTypes, Ops
<1>8. FdTypes
  <2>1. FreeFd \in [in_use : BOOLEAN, node : Node \cup {Null}, position : Nat]
    BY DEF FreeFd
  <2> QED
    BY <1>2, <2>1, NodeFacts, FdFacts, Zenon DEF FdTypes
<1>9. /\ Live = dirs \cup {Root} /\ type[Root] = "directory"
      /\ \A n \in Node : type[n] # "file"
      /\ children[Root] = dirs /\ \A d \in Node : d # Root => children[d] = {}
      /\ \A c \in dirs : parent[c] = Root
      /\ parent[Root] = Null
  <2>1. /\ type[Root] = "directory" /\ children[Root] = dirs /\ parent[Root] = Null
    BY <1>1, <1>3, NodeFacts, Zenon
  <2>2. \A n \in Node : type[n] = IF n = Root \/ n \in dirs THEN "directory" ELSE "free"
    BY <1>1, Zenon
  <2>3. \A d \in Node : d # Root => children[d] = {}
    BY <1>1, Zenon
  <2>4. \A c \in dirs : parent[c] = Root
    BY <1>1, <1>3, Zenon
  <2> HIDE DEF dirs
  <2>5. \A n \in Node : n \in Live <=> n \in dirs \cup {Root}
    BY <2>2 DEF Live
  <2>6. Live \subseteq Node /\ dirs \cup {Root} \subseteq Node
    BY <1>3, NodeFacts, Zenon DEF Live
  <2>7. Live = dirs \cup {Root}
    BY <2>5, <2>6
  <2>8. \A n \in Node : type[n] # "file"
    BY <2>2
  <2> QED
    BY <2>1, <2>3, <2>4, <2>7, <2>8, Zenon
<1>10. \A b, c \in dirs : name[b] = name[c] => b = c
  BY <1>4
<1> HIDE DEF dirs
<1>11. TreeSound /\ NothingLost /\ TreeRoot
  <2>1. TreeSound
    BY <1>3, <1>9, <1>10, NodeFacts, Zenon DEF TreeSound
  <2>2. NothingLost
    BY <1>3, <1>9, NodeFacts, Zenon DEF NothingLost
  <2>3. TreeRoot
    BY <1>3, <1>9, NodeFacts, Zenon DEF TreeRoot
  <2> QED
    BY <2>1, <2>2, <2>3
<1>12. DescriptorsMatch
  <2>1. \A f \in Fd : ~ fd_table[f].in_use
    BY <1>2 DEF FreeFd
  <2>2. \A n \in Live : open_count[n] = 0
    BY <1>1, ZenonT(30) DEF Live
  <2> QED
    BY <2>1, <2>2 DEF DescriptorsMatch
<1>13. LocalsOk
  BY <1>2, Zenon DEF LocalsOk, FdPcs
<1>14. DataInitialised /\ WriteOk
  BY <1>2, <1>9, Zenon DEF DataInitialised, WriteOk
<1> QED
  BY <1>6, <1>7, <1>8, <1>11, <1>12, <1>13, <1>14 DEF IInv, TreeInv

\* The steps that change no file: the walk, the name operations, the reads and the close.
LEMMA QuietData ==
  ASSUME IInv, (\E o \in Ops, p \in Paths, t \in Texts : Begin(o, p, t))
               \/ Walk \/ Chdir \/ Resolved \/ Fail \/ Detach \/ PutBack \/ Attach \/ Read \/ Close
  PROVE  DataInitialised' /\ WriteOk'
<1>1. UNCHANGED <<type, size, file>>
  BY DEF Begin, Walk, Chdir, Resolved, Fail, AtParent, Detach, DetachChild, PutBack, Attach, Read, Close, nodeVars
<1>2. pc \notin {"store", "sizes"}
  BY DEF Begin, Walk, Chdir, Resolved, Fail, AtParent, Detach, PutBack, Attach, Read, Close
<1>3. pc' \notin {"write", "store", "sizes"}
  BY DEF Begin, Walk, Chdir, Resolved, Fail, AtParent, Detach, PutBack, Attach, Read, Close, Return
<1> QED
  BY <1>1, <1>2, <1>3, DataFrame

LEMMA StepInv == IInv /\ [Next]_vars => IInv'
<1> SUFFICES ASSUME IInv, [Next]_vars PROVE IInv'
  OBVIOUS
<1>0. TreeInv
  BY DEF IInv
<1>1. ASSUME NEW o \in Ops, NEW p \in Paths, NEW t \in Texts, Begin(o, p, t) PROVE IInv'
  BY <1>0, <1>1, TreeBegin, QuietData DEF IInv
<1>2. CASE Walk
  BY <1>0, <1>2, TreeWalk, QuietData DEF IInv
<1>3. CASE Chdir
  BY <1>0, <1>3, TreeChdir, QuietData DEF IInv
<1>4. CASE Resolved
  BY <1>0, <1>4, TreeResolved, QuietData DEF IInv
<1>5. CASE Fail
  BY <1>0, <1>5, TreeFail, QuietData DEF IInv
<1>6. CASE Create
  BY <1>0, <1>6, TreeCreate, DataCreate DEF IInv
<1>7. CASE Detach
  BY <1>0, <1>7, TreeDetach, QuietData DEF IInv
<1>8. CASE PutBack
  BY <1>0, <1>8, TreePutBack, QuietData, Zenon DEF IInv
<1>9. CASE Free
  BY <1>0, <1>9, TreeFree, DataFree DEF IInv
<1>10. CASE Attach
  BY <1>0, <1>10, TreeAttach, QuietData DEF IInv
<1>11. CASE Open
  BY <1>0, <1>11, TreeOpen, DataOpen DEF IInv
<1>12. CASE Read
  BY <1>0, <1>12, TreeRead, QuietData DEF IInv
<1>13. CASE WriteGrow
  BY <1>13, StepWriteGrow
<1>14. CASE WriteStore
  BY <1>14, StepWriteStore
<1>15. CASE WriteSizes
  BY <1>15, StepWriteSizes
<1>16. CASE Close
  BY <1>0, <1>16, TreeClose, QuietData, Zenon DEF IInv
<1>17. CASE UNCHANGED vars
  <2>1. /\ UNCHANGED <<type, name, parent, children, size, open_count, file>>
        /\ UNCHANGED <<vfs_cwd, fd_table, pc, op, path, text, at, rest, node, fd, buffer>>
    BY <1>17 DEF vars, nodeVars, cmdVars
  <2>2. NodeTypes' /\ CmdTypes' /\ FdTypes'
    BY <1>0, <2>1, Zenon DEF TreeInv, NodeTypes, CmdTypes, FdTypes
  <2>3. Live' = Live /\ Opened' = Opened
    BY <2>1 DEF Live, Opened
  <2>4. TreeSound' /\ NothingLost' /\ TreeRoot'
    <3>1. TreeSound'
      <4>1. TreeSound
        BY <1>0, Zenon DEF TreeInv
      <4>2. type[Root]' = "directory"
        BY <4>1, <2>1, Zenon DEF TreeSound
      <4>3. ASSUME NEW d \in Node
            PROVE  /\ type[d]' # "directory" => children[d]' = {}
                   /\ \A c \in children[d]' :
                         /\ c \in Live' \ {Root}
                         /\ parent[c]' = d \/ (pc' = "attach" /\ c = node' /\ d = at')
                         /\ \A b \in children[d]' : name[b]' = name[c]' => b = c
                         /\ \A e \in Node : c \in children[e]' => e = d
        BY <4>1, <2>1, <2>3 DEF TreeSound
      <4> QED
        BY <4>2, <4>3, Zenon DEF TreeSound
    <3>2. NothingLost'
      BY <1>0, <2>1, <2>3 DEF TreeInv, NothingLost
    <3>3. TreeRoot'
      BY <1>0, <2>1, Zenon DEF TreeInv, TreeRoot
    <3> QED
      BY <3>1, <3>2, <3>3, Zenon
  <2>5. DescriptorsMatch' /\ LocalsOk'
    BY <1>0, <2>1, <2>3, Zenon DEF TreeInv, DescriptorsMatch, LocalsOk, CanStart
  <2>6. DataInitialised' /\ WriteOk'
    BY <2>1, <2>3, Zenon DEF IInv, DataInitialised, WriteOk, Capacity
  <2> QED
    BY <2>2, <2>4, <2>5, <2>6, Zenon DEF IInv, TreeInv
<1> QED
  BY <1>1, <1>2, <1>3, <1>4, <1>5, <1>6, <1>7, <1>8, <1>9, <1>10, <1>11, <1>12, <1>13, <1>14,
     <1>15, <1>16, <1>17, Zenon DEF Next

LEMMA AlwaysInv == Spec => []IInv
  BY InitInv, StepInv, PTL DEF Spec

\* The children lists and parent pointers of the RAM file system always describe one
\* tree, whatever the shell's mkdir, touch, echo, rm, rmdir and cd do.
THEOREM TreeAlwaysSound == Spec => []TreeSound
<1>1. IInv => TreeSound
  BY DEF IInv, TreeInv
<1> QED
  BY <1>1, AlwaysInv, PTL

\* No node is ever lost: an allocated node is in the tree, or ramfs_unlink or
\* ramfs_rmdir has it in its hands.
THEOREM NothingEverLost == Spec => []NothingLost
<1>1. IInv => NothingLost
  BY DEF IInv, TreeInv
<1> QED
  BY <1>1, AlwaysInv, PTL

\* The descriptor table and the reference counts agree, and every descriptor in use is
\* that of the running command and refers to an allocated node.
THEOREM DescriptorsAlwaysMatch == Spec => []DescriptorsMatch
<1>1. IInv => DescriptorsMatch
  BY DEF IInv, TreeInv
<1> QED
  BY <1>1, AlwaysInv, PTL

\* Files never show a byte that was not written: ramfs_write keeps the sizes within the
\* buffer and the part of the buffer they cover initialised, for every text.
THEOREM DataAlwaysInitialised == Spec => []DataInitialised
<1>1. IInv => DataInitialised
  BY DEF IInv
<1> QED
  BY <1>1, AlwaysInv, PTL

\* fs/vfs.c and fs/ramfs.c dereference no NULL and use no descriptor they did not set.
THEOREM TypesAlways == Spec => []TypeOK
<1>1. IInv => TypeOK
  <2> SUFFICES ASSUME IInv PROVE TypeOK
    OBVIOUS
  <2>1. pc \in FdPcs => fd_table[fd].in_use /\ Opened # Null
    BY OpenedLive, NodeFacts, Zenon DEF IInv
  <2>2. pc \in {"detached", "attach"} => at # Null /\ node # Null
    BY NodeFacts, Zenon DEF IInv, TreeInv, LocalsOk, Live
  <2>3. pc = "open" => node # Null
    BY NodeFacts, Zenon DEF IInv, TreeInv, LocalsOk, Live
  <2> QED
    BY <2>1, <2>2, <2>3 DEF IInv, TreeInv, TypeOK, FdPcs
<1> QED
  BY <1>1, AlwaysInv, PTL

-----------------------------------------------------------------------------
(***************************************************************************)
(* The layer implements the abstract name space.                           *)
(***************************************************************************)
\* A node is an entry of a directory: it is in the list, or will be put back in it.
InDir(d, c) == c \in children[d] \/ (Held /\ d = at /\ c = node)

LEMMA EntryIn ==
  /\ \A x : x \in AbsEntries <=> \E d, c \in Node : InDir(d, c) /\ x = EntryOf(d, c)
  /\ \A x : x \in AbsEntries' <=> \E d, c \in Node : InDir(d, c)' /\ x = EntryOf(d, c)'
<1>1. ASSUME NEW x
      PROVE  x \in AbsEntries <=> \E d, c \in Node : InDir(d, c) /\ x = EntryOf(d, c)
  <2>1. ASSUME NEW d \in Node, NEW c \in Node, InDir(d, c) PROVE EntryOf(d, c) \in AbsEntries
    <3>1. <<d, c>> \in {y \in Node \X Node : y[2] \in children[y[1]] \/ (Held /\ y[1] = at /\ y[2] = node)}
      BY <2>1 DEF InDir
    <3>2. EntryOf(d, c) = EntryOf(<<d, c>>[1], <<d, c>>[2])
      OBVIOUS
    <3> QED
      BY <3>1, <3>2 DEF AbsEntries
  <2>2. ASSUME x \in AbsEntries PROVE \E d, c \in Node : InDir(d, c) /\ x = EntryOf(d, c)
    <3>1. PICK y \in Node \X Node : /\ y[2] \in children[y[1]] \/ (Held /\ y[1] = at /\ y[2] = node)
                                   /\ x = EntryOf(y[1], y[2])
      BY <2>2 DEF AbsEntries
    <3>2. y[1] \in Node /\ y[2] \in Node
      OBVIOUS
    <3> QED
      BY <3>1, <3>2 DEF InDir
  <2> QED
    BY <2>1, <2>2
<1>2. ASSUME NEW x
      PROVE  x \in AbsEntries' <=> \E d, c \in Node : InDir(d, c)' /\ x = EntryOf(d, c)'
  <2>1. ASSUME NEW d \in Node, NEW c \in Node, InDir(d, c)' PROVE EntryOf(d, c)' \in AbsEntries'
    <3>1. <<d, c>> \in {y \in Node \X Node : y[2] \in children'[y[1]] \/ (Held' /\ y[1] = at' /\ y[2] = node')}
      BY <2>1 DEF InDir
    <3>2. EntryOf(d, c)' = EntryOf(<<d, c>>[1], <<d, c>>[2])'
      BY Zenon
    <3> QED
      BY <3>1, <3>2 DEF AbsEntries
  <2>2. ASSUME x \in AbsEntries' PROVE \E d, c \in Node : InDir(d, c)' /\ x = EntryOf(d, c)'
    <3>1. PICK y \in Node \X Node : /\ y[2] \in children'[y[1]] \/ (Held' /\ y[1] = at' /\ y[2] = node')
                                   /\ x = EntryOf(y[1], y[2])'
      BY <2>2, Zenon DEF AbsEntries
    <3>2. y[1] \in Node /\ y[2] \in Node
      OBVIOUS
    <3> QED
      BY <3>1, <3>2 DEF InDir
  <2> QED
    BY <2>1, <2>2
<1> QED
  BY <1>1, <1>2

LEMMA SameEntries ==
  ASSUME \A d, c \in Node : InDir(d, c)' <=> InDir(d, c),
         \A d, c \in Node : InDir(d, c) => name'[c] = name[c]
  PROVE  AbsEntries' = AbsEntries
<1>1. \A d, c \in Node : InDir(d, c) => EntryOf(d, c)' = EntryOf(d, c)
  BY DEF EntryOf
<1>2. ASSUME NEW x PROVE x \in AbsEntries' <=> x \in AbsEntries
  <2>1. x \in AbsEntries' <=> \E d, c \in Node : InDir(d, c)' /\ x = EntryOf(d, c)'
    BY EntryIn, ZenonT(30)
  <2>2. x \in AbsEntries <=> \E d, c \in Node : InDir(d, c) /\ x = EntryOf(d, c)
    BY EntryIn, Zenon
  <2>3. \A d, c \in Node : InDir(d, c)' /\ x = EntryOf(d, c)' <=> InDir(d, c) /\ x = EntryOf(d, c)
    BY <1>1
  <2> QED
    BY <2>1, <2>2, <2>3, Zenon
<1> QED
  BY <1>2, Zenon

LEMMA SameKind ==
  ASSUME \A n \in Node : AbsKind'[n] = AbsKind[n]
  PROVE  AbsKind' = AbsKind
<1>1. AbsKind = [n \in Node |-> AbsKind[n]] /\ AbsKind' = [n \in Node |-> AbsKind'[n]]
  BY DEF AbsKind
<1> QED
  BY <1>1

LEMMA KindOf ==
  /\ \A n \in Node : AbsKind[n] = IF Doomed /\ n = node THEN "free" ELSE type[n]
  /\ \A n \in Node : AbsKind'[n] = IF Doomed' /\ n = node' THEN "free" ELSE type'[n]
  BY DEF AbsKind

\* Outside the detached state the mapping shows the lists as they are.
LEMMA PlainNames ==
  /\ pc # "detached" => /\ \A n \in Node : AbsKind[n] = type[n]
                        /\ \A d, c \in Node : InDir(d, c) <=> c \in children[d]
  /\ pc' # "detached" => /\ \A n \in Node : AbsKind'[n] = type'[n]
                         /\ \A d, c \in Node : InDir(d, c)' <=> c \in children'[d]
<1>1. pc # "detached" => ~ Doomed /\ ~ Held
  BY DEF Doomed, Held
<1>2. pc' # "detached" => ~ Doomed' /\ ~ Held'
  BY DEF Doomed, Held
<1> QED
  BY <1>1, <1>2, KindOf DEF InDir

LEMMA QuietNames ==
  ASSUME pc # "detached", pc' # "detached", UNCHANGED <<type, name, children>>
  PROVE  UNCHANGED <<AbsKind, AbsEntries>>
<1>1. AbsKind' = AbsKind
  BY PlainNames, SameKind, Zenon
<1>2. AbsEntries' = AbsEntries
  BY PlainNames, SameEntries
<1> QED
  BY <1>1, <1>2, Zenon

LEMMA NamesCreate ==
  ASSUME IInv, Create
  PROVE  NS!Next
<1> DEFINE nm == path.last
           k == IF op = "mkdir" THEN "directory" ELSE "file"
<1>1. /\ pc = "parent" /\ pc' = "attach" /\ ParentOk /\ NameIsFree(at, nm)
  BY DEF Create, AtParent
<1>2. PICK n \in Node \ Live : NewChild(n, at, nm, k)
  BY DEF Create
<1>3. at \in Node /\ type[at] = "directory" /\ type[n] = "free" /\ n # at /\ nm \in Names
  <2>1. at \in Node /\ type[at] = "directory"
    BY <1>1 DEF ParentOk, IInv, TreeInv, CmdTypes
  <2>2. nm \in Names
    BY PathFacts DEF IInv, TreeInv, CmdTypes
  <2> QED
    BY <1>2, <2>1, <2>2 DEF Live
<1> HIDE DEF nm, k
<1>4. /\ \A m \in Node : type'[m] = IF m = n THEN k ELSE type[m]
      /\ \A m \in Node : name'[m] = IF m = n THEN nm ELSE name[m]
      /\ \A d \in Node : children'[d] = IF d = at THEN children[at] \cup {n}
                                        ELSE IF d = n THEN {} ELSE children[d]
  BY <1>2, <1>3, Zenon DEF NewChild, IInv, TreeInv, NodeTypes
<1>5. /\ \A d \in Node : n \notin children[d]
      /\ children[n] = {}
  BY <1>2, <1>3, ZenonT(30) DEF IInv, TreeInv, TreeSound
<1>6. /\ \A m \in Node : AbsKind[m] = type[m] /\ AbsKind'[m] = type'[m]
      /\ \A d, c \in Node : InDir(d, c) <=> c \in children[d]
      /\ \A d, c \in Node : InDir(d, c)' <=> c \in children'[d]
  BY <1>1, PlainNames
<1>7. AbsKind' = [AbsKind EXCEPT ![n] = k]
  <2>1. /\ AbsKind = [m \in Node |-> AbsKind[m]]
        /\ AbsKind' = [m \in Node |-> AbsKind'[m]]
    BY SMTT(30), Zenon DEF AbsKind
  <2>2. \A m \in Node : AbsKind'[m] = IF m = n THEN k ELSE AbsKind[m]
    BY <1>4, <1>6
  <2> QED
    BY <1>2, <2>1, <2>2
<1>8. ~ \E e \in AbsEntries : e.dir = at /\ e.name = nm
  <2> SUFFICES ASSUME NEW e \in AbsEntries, e.dir = at, e.name = nm PROVE FALSE
    OBVIOUS
  <2>1. PICK d, c \in Node : c \in children[d] /\ e = EntryOf(d, c)
    BY <1>6, EntryIn, ZenonT(30)
  <2>2. d = at /\ name[c] = nm
    BY <2>1, Zenon DEF EntryOf
  <2>3. Matches(at, nm) # {} /\ c \in Matches(at, nm)
    BY <2>1, <2>2, Zenon DEF Matches
  <2>4. FindDir(at, nm) \in Matches(at, nm)
    BY <1>3, <2>3 DEF FindDir
  <2>5. Matches(at, nm) \subseteq Node
    BY <1>3 DEF Matches, IInv, TreeInv, NodeTypes
  <2> QED
    BY <1>1, <2>4, <2>5, NodeFacts, Zenon DEF NameIsFree
<1>9. AbsEntries' = AbsEntries \cup {[dir |-> at, name |-> nm, node |-> n]}
  <2>1. \A d, c \in Node : c \in children'[d] <=> c \in children[d] \/ (d = at /\ c = n)
    BY <1>3, <1>4, <1>5, Zenon
  <2>2. /\ \A d, c \in Node : c \in children[d] => EntryOf(d, c)' = EntryOf(d, c)
        /\ \A d, c \in Node : d = at /\ c = n => EntryOf(d, c)' = [dir |-> at, name |-> nm, node |-> n]
    <3>1. \A d, c \in Node : EntryOf(d, c)' = [dir |-> d, name |-> name'[c], node |-> c]
      BY Zenon DEF EntryOf
    <3>3. \A d, c \in Node : c \in children[d] => name'[c] = name[c]
      BY <1>4, <1>5, Zenon
    <3>4. name'[n] = nm
      BY <1>2, <1>4, Zenon
    <3> QED
      BY <3>1, <3>3, <3>4 DEF EntryOf
  <2>3. ASSUME NEW x
        PROVE  x \in AbsEntries' <=> x \in AbsEntries \/ x = [dir |-> at, name |-> nm, node |-> n]
    <3>1. x \in AbsEntries' <=> \E d, c \in Node : c \in children'[d] /\ x = EntryOf(d, c)'
      BY <1>6, EntryIn
    <3>2. x \in AbsEntries <=> \E d, c \in Node : c \in children[d] /\ x = EntryOf(d, c)
      BY <1>6, EntryIn, Zenon
    <3>3. \A d, c \in Node : d = at /\ c = n => c \in children'[d]
      BY <2>1, Zenon
    <3>4. ASSUME x \in AbsEntries PROVE x \in AbsEntries'
      <4>1. PICK d \in Node, c \in Node : c \in children[d] /\ x = EntryOf(d, c)
        BY <3>2, <3>4, Zenon
      <4>2. c \in children'[d] /\ x = EntryOf(d, c)'
        BY <2>1, <2>2, <4>1, Zenon
      <4> QED
        BY <3>1, <4>2, Zenon
    <3>5. x = [dir |-> at, name |-> nm, node |-> n] => x \in AbsEntries'
      BY <1>2, <1>3, <2>2, <3>1, <3>3, ZenonT(30)
    <3>6. ASSUME x \in AbsEntries' PROVE x \in AbsEntries \/ x = [dir |-> at, name |-> nm, node |-> n]
      <4>1. PICK d \in Node, c \in Node : c \in children'[d] /\ x = EntryOf(d, c)'
        BY <3>1, <3>6, Zenon
      <4>2. CASE c \in children[d]
        BY <2>2, <3>2, <4>1, <4>2, Zenon
      <4>3. CASE d = at /\ c = n
        BY <2>2, <4>1, <4>3, Zenon
      <4> QED
        BY <2>1, <4>1, <4>2, <4>3, Zenon
    <3> QED
      BY <3>4, <3>5, <3>6, Zenon
  <2> QED
    BY <2>3, Zenon
<1>10. NS!Add(at, nm, n, k)
  BY <1>2, <1>3, <1>6, <1>7, <1>8, <1>9, Zenon DEF NS!Add
<1>11. k \in {"file", "directory"}
  BY DEF k
<1> QED
  BY <1>2, <1>3, <1>10, <1>11 DEF NS!Next

LEMMA NamesDetach ==
  ASSUME IInv, Detach
  PROVE  NS!Next \/ UNCHANGED <<AbsKind, AbsEntries>>
<1> DEFINE v == FindDir(at, path.last)
<1>1. /\ pc = "parent" /\ pc' = "detached" /\ ParentOk /\ v # Null
      /\ node' = v /\ at' = at /\ op' = op /\ DetachChild(at, v)
  BY DEF Detach, AtParent
<1>2. at \in Node /\ type[at] = "directory"
  BY <1>1 DEF ParentOk, IInv, TreeInv, CmdTypes
<1>3. v \in children[at] /\ v \in Node
  <2>1. v \in Matches(at, path.last)
    BY <1>1, <1>2, Zenon DEF FindDir
  <2> QED
    BY <1>2, <2>1 DEF Matches, IInv, TreeInv, NodeTypes
<1> HIDE DEF v
<1>4. v # at /\ \A d \in Node : v \in children[d] => d = at
  BY <1>2, <1>3, Zenon DEF IInv, TreeInv, TreeRoot, TreeSound
<1>5. /\ type' = type /\ name' = name
      /\ \A d \in Node : children'[d] = IF d = at THEN children[at] \ {v} ELSE children[d]
  BY <1>1, <1>2 DEF DetachChild, IInv, TreeInv, NodeTypes
<1>6. /\ \A m \in Node : AbsKind[m] = type[m]
      /\ \A d, c \in Node : InDir(d, c) <=> c \in children[d]
  BY <1>1, PlainNames, ZenonT(30)
<1>7. Removable(op, node)' <=> Removable(op, v)
  BY <1>1, <1>3, <1>4, <1>5, Zenon DEF Removable
<1>8. CASE ~ Removable(op, v)
  <2>1. Held' /\ ~ Doomed'
    BY <1>1, <1>7, <1>8, Zenon DEF Held, Doomed
  <2>2. AbsKind' = AbsKind
    BY <1>5, <1>6, <2>1, KindOf, SameKind, Zenon
  <2>3. \A d, c \in Node : InDir(d, c)' <=> InDir(d, c)
    <3>1. \A d, c \in Node : InDir(d, c)' <=> c \in children'[d] \/ (d = at /\ c = v)
      BY <1>1, <2>1, Zenon DEF InDir
    <3> QED
      BY <1>2, <1>3, <1>5, <1>6, <3>1, Zenon
  <2>4. AbsEntries' = AbsEntries
    BY <1>5, <2>3, SameEntries
  <2> QED
    BY <2>2, <2>4
<1>9. CASE Removable(op, v)
  <2> DEFINE e == EntryOf(at, v)
  <2>1. Doomed' /\ ~ Held'
    BY <1>1, <1>7, <1>9 DEF Held, Doomed
  <2>2. children[v] = {}
    <3>1. type[v] # "directory" \/ children[v] = {}
      BY <1>9, SMTT(30) DEF Removable
    <3> QED
      BY <1>3, <3>1, Zenon DEF IInv, TreeInv, TreeSound
  <2>3. e \in AbsEntries
    BY <1>2, <1>3, <1>6, EntryIn, ZenonT(30)
  <2>4. ~ \E f \in AbsEntries : f.dir = e.node
    <3> SUFFICES ASSUME NEW f \in AbsEntries, f.dir = e.node PROVE FALSE
      BY SMTT(30), Zenon
    <3>1. PICK d, c \in Node : c \in children[d] /\ f = EntryOf(d, c)
      BY <1>6, EntryIn, Zenon
    <3>2. d = v
      BY <3>1 DEF EntryOf
    <3> QED
      BY <2>2, <3>1, <3>2, Zenon
  <2>5. AbsKind' = [AbsKind EXCEPT ![e.node] = "free"]
    <3>1. e.node = v
      BY DEF EntryOf
    <3>2. /\ AbsKind = [m \in Node |-> AbsKind[m]]
          /\ AbsKind' = [m \in Node |-> AbsKind'[m]]
      BY Zenon DEF AbsKind
    <3>3. \A m \in Node : AbsKind'[m] = IF m = v THEN "free" ELSE AbsKind[m]
      BY <1>1, <1>5, <1>6, <2>1, KindOf
    <3> HIDE DEF e
    <3> QED
      BY <1>3, <3>1, <3>2, <3>3
  <2>6. AbsEntries' = AbsEntries \ {e}
    <3>1. \A d, c \in Node : InDir(d, c)' <=> c \in children[d] /\ ~ (d = at /\ c = v)
      <4>1. \A d, c \in Node : InDir(d, c)' <=> c \in children'[d]
        BY <2>1, Zenon DEF InDir
      <4> QED
        BY <1>4, <1>5, <4>1, Zenon
    <3>2. \A d, c \in Node : EntryOf(d, c)' = EntryOf(d, c)
      BY <1>5 DEF EntryOf
    <3>3. \A d, c \in Node : EntryOf(d, c) = e <=> d = at /\ c = v
      BY DEF EntryOf
    <3> HIDE DEF e
    <3>4. ASSUME NEW x PROVE x \in AbsEntries' <=> x \in AbsEntries /\ x # e
      <4>1. x \in AbsEntries' <=> \E d, c \in Node : c \in children[d] /\ EntryOf(d, c) # e /\ x = EntryOf(d, c)
        <5>1. x \in AbsEntries' <=> \E d, c \in Node : InDir(d, c)' /\ x = EntryOf(d, c)'
          BY EntryIn, Zenon
        <5>2. \A d, c \in Node : InDir(d, c)' <=> c \in children[d] /\ EntryOf(d, c) # e
          BY <3>1, <3>3, Zenon
        <5> QED
          BY <3>2, <5>1, <5>2
      <4>2. x \in AbsEntries <=> \E d, c \in Node : c \in children[d] /\ x = EntryOf(d, c)
        BY <1>6, EntryIn, Zenon
      <4> QED
        BY <4>1, <4>2, Zenon
    <3> QED
      BY <3>4, Zenon
  <2>7. NS!Remove(e)
    BY <2>3, <2>4, <2>5, <2>6 DEF NS!Remove
  <2> QED
    BY <2>3, <2>7 DEF NS!Next
<1> QED
  BY <1>8, <1>9

LEMMA NamesPutBack ==
  ASSUME IInv, PutBack
  PROVE  UNCHANGED <<AbsKind, AbsEntries>>
<1>1. /\ pc = "detached" /\ pc' = "attach" /\ ~ Removable(op, node)
      /\ LinkChild(at, node) /\ UNCHANGED <<type, name, at, node>>
  BY SMTT(30), Zenon DEF PutBack, cmdVars
<1>2. at \in Node /\ node \in Node
  BY <1>1 DEF IInv, TreeInv, LocalsOk, Live
<1>3. Held /\ ~ Doomed
  BY <1>1 DEF Held, Doomed
<1>4. AbsKind' = AbsKind
  BY <1>1, <1>3, KindOf, PlainNames, SameKind, Zenon
<1>5. \A d, c \in Node : c \in children'[d] <=> c \in children[d] \/ (d = at /\ c = node)
  BY <1>1, <1>2, Zenon DEF LinkChild, IInv, TreeInv, NodeTypes
<1>6. \A d, c \in Node : InDir(d, c)' <=> InDir(d, c)
  <2>1. \A d, c \in Node : InDir(d, c)' <=> c \in children'[d]
    BY <1>1, PlainNames, Zenon
  <2> QED
    BY <1>3, <1>5, <2>1 DEF InDir
<1>7. AbsEntries' = AbsEntries
  BY <1>1, <1>6, SameEntries
<1> QED
  BY <1>4, <1>7

LEMMA NamesFree ==
  ASSUME IInv, Free
  PROVE  UNCHANGED <<AbsKind, AbsEntries>>
<1>1. /\ pc = "detached" /\ pc' = "idle" /\ Removable(op, node) /\ FreeNode(node)
  BY SMTT(30), Zenon DEF Free, Return
<1>2. node \in Node /\ \A d \in Node : node \notin children[d]
  BY <1>1 DEF IInv, TreeInv, LocalsOk, Live
<1>3. Doomed /\ ~ Held
  BY <1>1 DEF Held, Doomed
<1>4. /\ \A m \in Node : type'[m] = IF m = node THEN "free" ELSE type[m]
      /\ \A m \in Node : m # node => name'[m] = name[m]
      /\ children' = children
  BY <1>1, <1>2, Zenon DEF FreeNode, IInv, TreeInv, NodeTypes
<1>5. AbsKind' = AbsKind
  BY <1>1, <1>3, <1>4, KindOf, PlainNames, SameKind, Zenon
<1>6. \A d, c \in Node : InDir(d, c)' <=> c \in children[d]
  BY <1>1, <1>4, PlainNames, Zenon
<1>7. \A d, c \in Node : InDir(d, c) <=> c \in children[d]
  BY <1>3 DEF InDir
<1>8. AbsEntries' = AbsEntries
  BY <1>2, <1>4, <1>6, <1>7, SameEntries, Zenon
<1> QED
  BY <1>5, <1>8

LEMMA NamesInit == Init => NS!Init
<1> SUFFICES ASSUME Init PROVE NS!Init
  OBVIOUS
<1>1. IInv
  BY InitInv
<1>2. /\ pc # "detached"
      /\ \A n \in Node : type[n] \in {"free", "directory"}
      /\ \A d \in Node : d # Root => children[d] = {}
  BY ZenonT(30) DEF Init, RamfsInit
<1>3. /\ \A n \in Node : AbsKind[n] = type[n]
      /\ \A d, c \in Node : InDir(d, c) <=> c \in children[d]
  BY <1>2, PlainNames
<1>4. AbsKind \in [Node -> {"free", "directory"}]
  <2>1. AbsKind = [n \in Node |-> AbsKind[n]]
    BY DEF AbsKind
  <2> QED
    BY <1>2, <1>3, <2>1
<1>5. AbsKind[Root] = "directory"
  BY <1>1, <1>3, NodeFacts, Zenon DEF IInv, TreeInv, TreeSound
<1>6. ASSUME NEW e \in AbsEntries
      PROVE  e \in NS!Entry /\ e.dir = Root /\ AbsKind[e.node] = "directory"
  <2>1. PICK d, c \in Node : c \in children[d] /\ e = EntryOf(d, c)
    BY <1>3, EntryIn, Zenon
  <2>2. name[c] \in Names /\ type[c] # "free"
    BY <1>1, <2>1 DEF IInv, TreeInv, NodeTypes, TreeSound, Live
  <2>3. e.dir = d /\ e.node = c /\ e \in NS!Entry
    BY <2>1, <2>2, Zenon DEF EntryOf, NS!Entry
  <2> QED
    BY <1>2, <1>3, <2>1, <2>2, <2>3
<1> QED
  BY <1>4, <1>5, <1>6, Zenon DEF NS!Init

LEMMA NamesStep == IInv /\ [Next]_vars => [NS!Next]_(NS!vars)
<1> SUFFICES ASSUME IInv, [Next]_vars PROVE NS!Next \/ UNCHANGED <<AbsKind, AbsEntries>>
  BY DEF NS!vars
<1>1. CASE (\E o \in Ops, p \in Paths, t \in Texts : Begin(o, p, t))
           \/ Walk \/ Chdir \/ Resolved \/ Fail \/ Attach \/ Open \/ Read \/ WriteGrow
           \/ WriteStore \/ WriteSizes \/ Close
  <2>1. UNCHANGED <<type, name, children>>
    BY <1>1, Zenon DEF Begin, Walk, Chdir, Resolved, Fail, AtParent, Attach, Open, Read, WriteGrow, WriteStore,
                WriteSizes, Close, nodeVars
  <2>2. pc # "detached"
    BY <1>1, Zenon DEF Begin, Walk, Chdir, Resolved, Fail, AtParent, Attach, Open, Read, WriteGrow, WriteStore,
                WriteSizes, Close
  <2>3. pc' # "detached"
    BY <1>1 DEF Begin, Walk, Chdir, Resolved, Fail, AtParent, Attach, Open, Read, WriteGrow, WriteStore,
                WriteSizes, Close, Return, AfterOpen
  <2> QED
    BY <2>1, <2>2, <2>3, QuietNames, Zenon
<1>2. CASE Create
  BY <1>2, NamesCreate
<1>3. CASE Detach
  BY <1>3, NamesDetach
<1>4. CASE PutBack
  BY <1>4, NamesPutBack
<1>5. CASE Free
  BY <1>5, NamesFree
<1>6. CASE UNCHANGED vars
  BY <1>6, Zenon DEF vars, nodeVars, cmdVars, AbsKind, AbsEntries, Doomed, Held, Removable, EntryOf
<1> QED
  BY <1>1, <1>2, <1>3, <1>4, <1>5, <1>6 DEF Next

\* The VFS over the RAM file system implements the abstract name space: every command
\* adds one entry, removes one, or changes nothing, also where the code detaches a node
\* before it knows whether the node may be removed.
THEOREM NameSpaceRefined == Spec => ImplementsNameSpace
  BY NamesInit, NamesStep, AlwaysInv, PTL DEF Spec, ImplementsNameSpace, NS!Spec
=============================================================================
