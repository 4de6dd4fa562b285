----------------------------- MODULE MCTasking -----------------------------
(***************************************************************************)
(* Instances of Tasking for TLC.  The threads are interchangeable, so the  *)
(* safety runs may permute them.                                           *)
(***************************************************************************)
EXTENDS Tasking, TLC

Symmetry == Permutations(Threads)

\* Fairness of the liveness runs: see FairSpec and FiniteThreads.
FiniteThreadsSpec == FairSpec /\ FiniteThreads

=============================================================================
