------------------------------ MODULE MCBufIde ------------------------------
(***************************************************************************)
(* BufIde for TLC: more blocks than buffers, so that buffers are recycled. *)
(***************************************************************************)
EXTENDS BufIde

CONSTANTS p1, p2

MCBlockNo == 1..3
MCNoBlock == 0
TwoProc == {p1, p2}
==============================================================================
