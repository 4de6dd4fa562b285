----------------------------- MODULE MCPrograms -----------------------------
(***************************************************************************)
(* Three program files, with pages of two cells: one like those of user/,  *)
(* two segments with zeroed memory at the end of the second; one whose     *)
(* segment starts in the middle of a page and ends beyond the buffer; and  *)
(* one that is not a program.                                              *)
(***************************************************************************)
EXTENDS Programs, TLC

Seg(vaddr, offset, filesz, memsz) ==
    [load |-> TRUE, vaddr |-> vaddr, offset |-> offset, filesz |-> filesz, memsz |-> memsz]
Note == [load |-> FALSE, vaddr |-> 0, offset |-> 0, filesz |-> 0, memsz |-> 0]

MCPrograms ==
    <<[valid |-> TRUE, size |-> 5, segs |-> <<Seg(0, 2, 2, 2), Seg(2, 4, 1, 3), Note>>],
      [valid |-> TRUE, size |-> 9, segs |-> <<Seg(1, 5, 2, 2)>>],
      [valid |-> FALSE, size |-> 1, segs |-> <<>>]>>

Symmetry == Permutations(Tasks) \union Permutations(Blocks)
=============================================================================
