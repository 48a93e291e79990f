---------------------------- MODULE MCAcknowledge ----------------------------
(***************************************************************************)
(* Small bounds for the runs of Acknowledge: a range of 3 numbers stands   *)
(* for the code's 512, a word of 16 for its 2^32, and a count of 3 bits    *)
(* for its 16, so that 4 records are too many for it.                      *)
(***************************************************************************)
EXTENDS Acknowledge
=============================================================================
