-------------------------------- MODULE MCFat --------------------------------
(***************************************************************************)
(* Three clusters, two names, texts shorter and longer than a cluster:     *)
(* chains grow, files shrink, the disk and the directories fill.  A        *)
(* directory cluster has one entry in its first sector and one after it.   *)
(* The names are interchangeable.                                          *)
(***************************************************************************)
EXTENDS Fat, TLC

Symmetry == Permutations(Names)

MCTexts == {<<"x">>, <<"y", "y", "y">>}
=============================================================================
