--------------------------- MODULE MCNEC765Driver ---------------------------
(* A small instance of NEC765Driver for TLC, in which every length fits: the   *)
(* guest's is that of the buffer, the discs' are one byte and two.             *)
EXTENDS NEC765Driver

MCOneRate == [v \in Bytes |-> 1]
MCSizeOf == [v \in Bytes |-> 2]

\* A disc with two sectors on track 0, and a write-protected one.
MCDisc(ro) == [present |-> TRUE, readOnly |-> ro, dirty |-> FALSE, nominal |-> 2,
               track |-> [t \in 0..LastTrack |->
                            IF t = 0 THEN <<[R |-> 1, bytes |-> 2], [R |-> 0, bytes |-> 1]>>
                            ELSE << >>]]
MCMedia == {MCDisc(FALSE), MCDisc(TRUE)}

=============================================================================
