------------------------------ MODULE MCSF7000 ------------------------------
(* Small instances of SF7000 for TLC.  The bytes are multiples of four, so    *)
(* that the guest selects drive 0 only.                                      *)
EXTENDS SF7000

MCStepTimeOf == [v \in Bytes |-> IF v = 0 THEN 2 ELSE 1]
MCSizeOf == [v \in Bytes |-> 1]

MCMedia == {[present |-> TRUE, readOnly |-> FALSE, dirty |-> FALSE, nominal |-> 1,
             track |-> [t \in 0..LastTrack |->
                          IF t = 0 THEN <<[R |-> 0, bytes |-> 1], [R |-> LastTrack, bytes |-> 1]>>
                          ELSE << >>]]}

=============================================================================
