---------------------------- MODULE MCSystemBusM5 ----------------------------
(* Small instances of SystemBusM5 for TLC.                                   *)
EXTENDS SystemBusM5

Starts == {"interrupt", "external", "rising", "follows", "reset"}
MCWords == [i \in Channels |->
  CASE i = 2 -> {Starts, {"divide256"}}
    [] i = 3 -> {{"interrupt", "counter", "follows", "reset"}}
    [] OTHER -> {}]

\* The program was left in the handler of channel 2, whose timer runs on; one more
\* edge of the video chip's interrupt, which is asserted, brings a request.
LeftServing ==
  LET timer   == [Idle EXCEPT !.control = Starts \ {"follows", "reset"}, !.constant = 1,
                              !.counter = 1, !.loaded = TRUE, !.running = TRUE,
                              !.triggerHigh = TRUE, !.inService = TRUE, !.zeroCountHigh = TRUE]
      counter == [Idle EXCEPT !.control = {"interrupt", "counter"}, !.constant = 2,
                              !.counter = 1, !.loaded = TRUE, !.running = TRUE]
  IN [chip |-> [ResetChip EXCEPT !.channels[2] = timer, !.channels[3] = counter],
      clock |-> CK2Half, half |-> 0, edPrefix |-> FALSE, cpu |-> "run", intLine |-> FALSE,
      vdp |-> TRUE, serving |-> <<2>>]
MCStored == {LeftServing}

=============================================================================
