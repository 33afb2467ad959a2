-------------------------------- MODULE Z80CTC --------------------------------
(***************************************************************************)
(* The counter/timer chip of the Sord M5 (src/src/Z80CTC.cpp) as operators   *)
(* from the old chip to the new: four channels that divide the clock or      *)
(* count edges of a trigger, and a daisy chain of interrupts in which an     *)
(* interrupt in service holds back its own channel and those below it.       *)
(*                                                                         *)
(* The program hands time to the chip in blocks, and AdvanceTo skips from    *)
(* one event to the next.  SystemBusM5 wires the chip to its board.          *)
(***************************************************************************)
EXTENDS Integers, FiniteSetsExt

CONSTANTS
  Divide16,      \* the two ratios of the prescaler
  Divide256,
  MaxConstant    \* the time constant that a zero byte stands for (256)

ASSUME PrescalerAssumption ==
  /\ Divide16 \in Nat \ {0} /\ Divide256 \in Nat \ {0} /\ MaxConstant \in Nat \ {0}

Channels == 0..3
\* The bits of a control word, but for the one that tells it from a vector.
Flags == {"interrupt", "counter", "divide256", "rising", "external", "follows", "reset"}
Channel == [control : SUBSET Flags, constant : 1..MaxConstant, counter : 1..MaxConstant,
            prescalerPhase : Nat, loaded : BOOLEAN, running : BOOLEAN,
            waitingForTrigger : BOOLEAN, triggerHigh : BOOLEAN, pending : BOOLEAN,
            inService : BOOLEAN, zeroCountHigh : BOOLEAN]
\* interrupt is the level last given to the pin (m_interrupt).
Chip == [channels : [Channels -> Channel], interrupt : BOOLEAN]

-----------------------------------------------------------------------------
(* The interrupt chain.                                                      *)

InService(chip) == {i \in Channels : chip.channels[i].inService}

\* Mutant of Eligible: an interrupt in service holds nobody back.
EligibleAlways(chip) == {i \in Channels : chip.channels[i].pending}

\* EligibleInterrupt is the first of these.
Eligible(chip) ==
  {i \in Channels : chip.channels[i].pending /\ \A j \in 0..i : ~chip.channels[j].inService}

\* Mutant of UpdateInterrupt: the pin is never released.
UpdateInterruptSticks(chip) ==
  [chip EXCEPT !.interrupt = chip.interrupt \/ Eligible(chip) # {}]

UpdateInterrupt(chip) == [chip EXCEPT !.interrupt = Eligible(chip) # {}]

WithChannel(chip, i, c) == [chip EXCEPT !.channels[i] = c]

AcknowledgeInterrupt(chip) ==
  LET first == Min(Eligible(chip))
  IN IF Eligible(chip) = {} THEN chip
     ELSE UpdateInterrupt(WithChannel(chip, first,
            [chip.channels[first] EXCEPT !.pending = FALSE, !.inService = TRUE]))

Reti(chip) ==
  LET first == Min(InService(chip))
  IN IF InService(chip) = {} THEN chip
     ELSE UpdateInterrupt(WithChannel(chip, first,
            [chip.channels[first] EXCEPT !.inService = FALSE]))

-----------------------------------------------------------------------------
(* Counting.                                                                 *)

Prescaler(c) == IF "divide256" \in c.control THEN Divide256 ELSE Divide16
TimerRuns(c) == c.running /\ "counter" \notin c.control

\* Channel 3 has no ZC/TO pin.
TerminalCount(c, i) ==
  [c EXCEPT !.counter = c.constant,
            !.pending = @ \/ "interrupt" \in c.control,
            !.zeroCountHigh = @ \/ i < 3]

\* Mutant of ClocksToExpiry: the part of a prescaler period already gone is forgotten.
ClocksToExpiryWhole(c) == c.counter * Prescaler(c)

ClocksToExpiry(c) == c.counter * Prescaler(c) - c.prescalerPhase

\* How far the loop in AdvanceTo may skip: a timer expires, or a pulse of one clock ends.
EventsAhead(chip) ==
       {ClocksToExpiry(chip.channels[i]) : i \in {j \in Channels : TimerRuns(chip.channels[j])}}
  \cup {1 : i \in {j \in Channels : chip.channels[j].zeroCountHigh}}

Expires(c, n) == TimerRuns(c) /\ (c.prescalerPhase + n) \div Prescaler(c) = c.counter

\* A channel n clocks later, if nothing happens before.
Clocked(c, i, n) ==
  LET phase   == c.prescalerPhase + n
      quiet   == [c EXCEPT !.zeroCountHigh = FALSE]
      counted == [quiet EXCEPT !.prescalerPhase = phase % Prescaler(c)]
  IN IF ~TimerRuns(c) THEN quiet
     ELSE IF Expires(c, n) THEN TerminalCount(counted, i)
     ELSE [counted EXCEPT !.counter = @ - phase \div Prescaler(c)]

\* One turn of the loop in AdvanceTo.
Skip(chip, n) ==
  LET later == [chip EXCEPT !.channels = [i \in Channels |-> Clocked(chip.channels[i], i, n)]]
  IN IF \E i \in Channels : Expires(chip.channels[i], n) THEN UpdateInterrupt(later) ELSE later

\* An edge of the active polarity starts a waiting timer and moves a counter.
SetTrigger(chip, i, high) ==
  LET old    == chip.channels[i]
      c      == [old EXCEPT !.triggerHigh = high]
      active == /\ high # old.triggerHigh /\ high = ("rising" \in old.control)
                /\ old.loaded /\ "reset" \notin old.control
  IN CASE active /\ old.waitingForTrigger ->
            WithChannel(chip, i, [c EXCEPT !.waitingForTrigger = FALSE, !.running = TRUE,
                                           !.prescalerPhase = 0])
       [] active /\ ~old.waitingForTrigger /\ old.running /\ "counter" \in old.control ->
            IF old.counter > 1 THEN WithChannel(chip, i, [c EXCEPT !.counter = @ - 1])
            ELSE UpdateInterrupt(WithChannel(chip, i, TerminalCount(c, i)))
       [] OTHER -> WithChannel(chip, i, c)

-----------------------------------------------------------------------------
(* The registers.                                                            *)

\* The byte after a control word that announces it.  A running channel takes
\* the new constant at its next terminal count.
WriteConstant(chip, i, k) ==
  LET c      == [chip.channels[i] EXCEPT !.constant = k, !.loaded = TRUE,
                                         !.control = @ \ {"follows", "reset"}]
      waits  == "counter" \notin c.control /\ "external" \in c.control
  IN UpdateInterrupt(WithChannel(chip, i,
       IF c.running THEN c
       ELSE [c EXCEPT !.counter = k, !.prescalerPhase = 0,
                      !.waitingForTrigger = waits, !.running = ~waits]))

\* Mutant of WriteControl: a change of prescaler keeps the phase.
WriteControlKeepsPhase(chip, i, word) ==
  LET old     == chip.channels[i]
      resets  == "reset" \in word
      waiting == old.waitingForTrigger /\ ~resets
      starts  == waiting /\ ("counter" \in word \/ "external" \notin word)
      loaded  == old.loaded /\ ~resets
  IN UpdateInterrupt(WithChannel(chip, i,
       [old EXCEPT !.control = word, !.loaded = loaded,
                   !.running = (@ /\ ~resets) \/ (starts /\ loaded),
                   !.waitingForTrigger = waiting /\ ~starts,
                   !.pending = @ /\ "interrupt" \in word]))
WriteControl(chip, i, word) ==
  LET old     == chip.channels[i]
      resets  == "reset" \in word
      rephase == resets \/ \E f \in {"counter", "divide256"} : (f \in word) # (f \in old.control)
      waiting == old.waitingForTrigger /\ ~resets
      starts  == waiting /\ ("counter" \in word \/ "external" \notin word)
      loaded  == old.loaded /\ ~resets
  IN UpdateInterrupt(WithChannel(chip, i,
       [old EXCEPT !.control = word, !.loaded = loaded,
                   !.running = IF starts THEN loaded ELSE @ /\ ~resets,
                   !.waitingForTrigger = waiting /\ ~starts,
                   !.prescalerPhase = IF rephase THEN 0 ELSE @,
                   !.pending = @ /\ "interrupt" \in word]))

\* Power-on and Reset: every channel awaits a control word.
Idle == [control |-> {"reset"}, constant |-> MaxConstant, counter |-> MaxConstant,
         prescalerPhase |-> 0, loaded |-> FALSE, running |-> FALSE,
         waitingForTrigger |-> FALSE, triggerHigh |-> FALSE, pending |-> FALSE,
         inService |-> FALSE, zeroCountHigh |-> FALSE]
ResetChip == [channels |-> [i \in Channels |-> Idle], interrupt |-> FALSE]

\* What LoadState asks of the channel it is given.
Loadable(c, i) ==
  /\ c.constant \in 1..MaxConstant /\ c.counter \in 1..MaxConstant
  /\ c.prescalerPhase < Prescaler(c)
  /\ c.running => c.loaded /\ ~c.waitingForTrigger /\ "reset" \notin c.control
  /\ c.waitingForTrigger =>
        c.loaded /\ {"counter", "reset"} \cap c.control = {} /\ "external" \in c.control
  /\ "counter" \in c.control => c.prescalerPhase = 0
  /\ c.pending => "interrupt" \in c.control
  /\ i = 3 => ~c.zeroCountHigh

LoadChip(chip) == UpdateInterrupt(chip)

=============================================================================
