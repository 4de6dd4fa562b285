----------------------------- MODULE MCTerminal -----------------------------
(***************************************************************************)
(* A screen of two rows over a buffer of five lines: two pages of history, *)
(* a full buffer, and tabs that fit and that do not.                       *)
(***************************************************************************)
EXTENDS Terminal
=============================================================================
