------------------------- MODULE MCFdcRotationClock -------------------------
(* Small instances of FdcRotationClock for TLC.                              *)
EXTENDS FdcRotationClock

MCBlocks == 0..60

=============================================================================
