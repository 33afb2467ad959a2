---------------------------- MODULE MCSerialPort ----------------------------
(* Small instances of SerialPort for TLC.                                    *)
EXTENDS SerialPort

MCFrameClocks == [f \in Formats |-> [s \in {"fast", "slow"} |->
  CASE f = "8N1" /\ s = "fast" -> 3 [] f = "8N2" /\ s = "fast" -> 3
    [] f = "8N1" /\ s = "slow" -> 5 [] f = "8N2" /\ s = "slow" -> 6]]

=============================================================================
