------------------------------- MODULE COM8251A -------------------------------
(***************************************************************************)
(* The serial interface chip of the SF-7000 (src/src/COM8251A.cpp) as        *)
(* operators from the old chip to the new: a transmitter that holds one byte *)
(* for the length of a frame, and a receiver that takes a byte per frame     *)
(* from a queue which the host fills.                                        *)
(*                                                                         *)
(* Bytes are not told apart, so the queue is its length, and bytes that have *)
(* been sent are the host's affair.  Parity and framing errors never occur   *)
(* in the code, and the modem lines do nothing.                              *)
(***************************************************************************)
EXTENDS Integers, FiniteSetsExt

CONSTANTS
  Formats,       \* what a mode word can ask for: bits per frame, and how they are used
  Speeds,        \* positions of the DSW1 jumper
  FrameClocks    \* CPU clocks per frame: of each format, at each speed

ASSUME FrameAssumption == FrameClocks \in [Formats -> [Speeds -> Nat \ {0}]]

\* The bits of a command word; reset is IR, clear is ER.
Commands == [transmit : BOOLEAN, receive : BOOLEAN, clear : BOOLEAN, reset : BOOLEAN]
Chip == [initState : {"mode", "command"}, format : Formats, speed : Speeds, frame : Nat \ {0},
         txEnabled : BOOLEAN, txReady : BOOLEAN, txEmpty : BOOLEAN, txPending : BOOLEAN,
         txClocksLeft : Nat,
         rxEnabled : BOOLEAN, rxReady : BOOLEAN, oe : BOOLEAN, rxPollAccum : Nat, rxQueue : Nat]

-----------------------------------------------------------------------------
(* The length of a frame.                                                    *)

\* Mutant of UpdateTiming: rounds what is left of a frame down.
UpdateTimingDown(c, format, speed) ==
  LET frame == FrameClocks[format][speed]
  IN [c EXCEPT !.format = format, !.speed = speed, !.frame = frame,
               !.rxPollAccum = (@ * frame) \div c.frame,
               !.txClocksLeft = IF c.txPending THEN (@ * frame) \div c.frame ELSE @]

\* The part of a frame that is over stays over, whatever the new length.
UpdateTiming(c, format, speed) ==
  LET frame == FrameClocks[format][speed]
  IN [c EXCEPT !.format = format, !.speed = speed, !.frame = frame,
               !.rxPollAccum = (@ * frame) \div c.frame,
               !.txClocksLeft = IF c.txPending THEN (@ * frame + c.frame - 1) \div c.frame ELSE @]

SetSpeed(c, speed) == UpdateTiming(c, c.format, speed)

\* Power-on and Reset (Init): the speed is a jumper and stays.
ResetChip(format, speed) ==
  [initState |-> "mode", format |-> format, speed |-> speed,
   frame |-> FrameClocks[format][speed],
   txEnabled |-> FALSE, txReady |-> FALSE, txEmpty |-> TRUE, txPending |-> FALSE,
   txClocksLeft |-> 0,
   rxEnabled |-> FALSE, rxReady |-> FALSE, oe |-> FALSE, rxPollAccum |-> 0, rxQueue |-> 0]

-----------------------------------------------------------------------------
(* The ports of the CPU.                                                     *)

ReadData(c) == [c EXCEPT !.rxReady = FALSE]

\* A byte that is still being sent is overwritten, and the frame starts again.
WriteData(c) ==
  IF c.txEnabled
  THEN [c EXCEPT !.txPending = TRUE, !.txReady = FALSE, !.txEmpty = FALSE,
                 !.txClocksLeft = c.frame]
  ELSE c

WriteMode(c, format) ==
  [UpdateTiming(c, format, c.speed) EXCEPT !.initState = "command"]

InternalReset(c) ==
  [c EXCEPT !.initState = "mode", !.txEnabled = FALSE, !.rxEnabled = FALSE, !.txReady = FALSE,
            !.txEmpty = TRUE, !.txPending = FALSE, !.txClocksLeft = 0, !.rxPollAccum = 0,
            !.rxReady = FALSE, !.oe = FALSE]

\* The transmitter is ready at once, unless a frame that began earlier is on its way.
WriteCommand(c, word) ==
  IF word.reset THEN InternalReset(c)
  ELSE [c EXCEPT !.txEnabled = word.transmit, !.rxEnabled = word.receive,
                 !.oe = @ /\ ~word.clear,
                 !.txReady = word.transmit /\ (@ \/ (~c.txPending /\ c.txClocksLeft = 0))]

-----------------------------------------------------------------------------
(* Time.                                                                     *)

Sends(c) == c.txPending /\ c.txClocksLeft > 0
Receives(c) == c.rxEnabled /\ c.rxQueue # 0

\* Mutant of HasTimedWork: the receiver is forgotten.
HasTransmitterWork(c) == Sends(c)

HasTimedWork(c) == Sends(c) \/ Receives(c)

\* Mutant of Deadlines: only the transmitter has any.
TransmitterDeadlines(c) == IF Sends(c) THEN {c.txClocksLeft} ELSE {}

\* The deadlines of which ClocksToNextEvent is the first.
Deadlines(c) ==
       (IF Sends(c) THEN {c.txClocksLeft} ELSE {})
  \cup (IF Receives(c) THEN {c.frame - c.rxPollAccum} ELSE {})

\* The byte goes out to the host.
FrameOver(c) ==
  [c EXCEPT !.txClocksLeft = 0, !.txPending = FALSE, !.txReady = c.txEnabled, !.txEmpty = TRUE]

Transmit(c, n) ==
  IF ~Sends(c) THEN c
  ELSE IF n < c.txClocksLeft THEN [c EXCEPT !.txClocksLeft = @ - n]
  ELSE FrameOver(c)

\* One byte for each frame that is over; what is left of the clocks counts only
\* while there is another byte.
Receive(c, n) ==
  LET clocks == c.rxPollAccum + n
      taken  == Min({clocks \div c.frame, c.rxQueue})
  IN IF ~Receives(c) THEN [c EXCEPT !.rxPollAccum = 0]
     ELSE [c EXCEPT !.rxQueue = @ - taken, !.rxReady = @ \/ taken > 0,
                    !.oe = @ \/ taken > 1 \/ (c.rxReady /\ taken = 1),
                    !.rxPollAccum = IF taken < c.rxQueue THEN clocks % c.frame ELSE 0]

Tick(c, n) == Receive(Transmit(c, n), n)

=============================================================================
