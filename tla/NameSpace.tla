----------------------------- MODULE NameSpace -----------------------------
(* What a file system promises about names: a tree of objects in which one   *)
(* entry appears, for a fresh object under a free name of an existing        *)
(* directory, or one entry disappears, whose object is a file or an empty    *)
(* directory.  Nothing else ever changes the tree.                           *)
EXTENDS FiniteSets

CONSTANTS Node, Root, Names

VARIABLES kind,      \* "free", "file" or "directory", for every object
          entries    \* the set of directory entries

vars == <<kind, entries>>

Entry == [dir : Node, name : Names, node : Node]

\* The tree in which a client finds the system: Root and directories in it.
Init == /\ kind \in [Node -> {"free", "directory"}]
        /\ kind[Root] = "directory"
        /\ entries \in SUBSET Entry
        /\ \A e \in entries : e.dir = Root /\ kind[e.node] = "directory"

Add(d, nm, n, k) ==
  /\ kind[d] = "directory"
  /\ ~ \E e \in entries : e.dir = d /\ e.name = nm
  /\ kind[n] = "free"
  /\ kind' = [kind EXCEPT ![n] = k]
  /\ entries' = entries \cup {[dir |-> d, name |-> nm, node |-> n]}

Remove(e) ==
  /\ e \in entries
  /\ ~ \E f \in entries : f.dir = e.node
  /\ kind' = [kind EXCEPT ![e.node] = "free"]
  /\ entries' = entries \ {e}

Next == \/ \E d, n \in Node, nm \in Names, k \in {"file", "directory"} : Add(d, nm, n, k)
        \/ \E e \in entries : Remove(e)

Spec == Init /\ [][Next]_vars
=============================================================================
