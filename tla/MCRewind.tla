------------------------------ MODULE MCRewind ------------------------------
(* Small instances of Rewind for TLC. *)
EXTENDS Rewind

=============================================================================
