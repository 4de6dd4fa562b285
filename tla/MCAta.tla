-------------------------------- MODULE MCAta --------------------------------
(***************************************************************************)
(* Four sectors, addressed by two registers of one bit.  The two sector    *)
(* numbers differ in the high digit, and one of them has a digit that no   *)
(* register takes.  Two words to a sector, wait loops of two polls.        *)
(***************************************************************************)
EXTENDS Ata
=============================================================================
