---------------------------- MODULE MCSoundQueue ----------------------------
(* Small instances of SoundQueue for TLC.                                    *)
EXTENDS SoundQueue
=============================================================================
