------------------------------ MODULE MCNEC765 ------------------------------
(* A small instance of NEC765 for TLC: a head step takes two blocks of time,   *)
(* and of the guest's size bytes one fits the buffer and one, like an N of 24   *)
(* to 31, names a length that is not positive.                                 *)
EXTENDS NEC765

MCOneRate == [v \in Bytes |-> 2]
MCSizeOf == [v \in Bytes |-> IF v = 0 THEN 2 ELSE -1]

\* A disc with two sectors on track 0, one of them longer than the buffer.
MCMedia == {[present |-> TRUE, readOnly |-> FALSE, dirty |-> FALSE, nominal |-> 2,
             track |-> [t \in 0..LastTrack |->
                          IF t = 0 THEN <<[R |-> LastTrack, bytes |-> 2], [R |-> 0, bytes |-> 3]>>
                          ELSE << >>]]}

=============================================================================
