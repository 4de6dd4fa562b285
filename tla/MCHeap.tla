------------------------------- MODULE MCHeap -------------------------------
(***************************************************************************)
(* Pages of 16 words, of which the heap starts with two adjoining ones.    *)
(***************************************************************************)
EXTENDS Heap
=============================================================================
