------------------------------- MODULE MCPmm -------------------------------
(***************************************************************************)
(* Five pages in two bitmap words: one page below the usable memory, one   *)
(* of kernel image; the shell and one other client.                        *)
(***************************************************************************)
EXTENDS Pmm
=============================================================================
