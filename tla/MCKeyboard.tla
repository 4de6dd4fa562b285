----------------------------- MODULE MCKeyboard -----------------------------
(***************************************************************************)
(* Small buffers: the ring fills and wraps, the command line fills.        *)
(***************************************************************************)
EXTENDS Keyboard
=============================================================================
