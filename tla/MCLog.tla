-------------------------------- MODULE MCLog --------------------------------
(* Instances of Log for TLC.                                               *)
EXTENDS Log, TLC

\* The superblock, the header block, three log blocks and two home blocks.
MCBlockNo == 1..7
==============================================================================
