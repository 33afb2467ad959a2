------------------------------ MODULE SystemBusM5 ------------------------------
(***************************************************************************)
(* The interrupts of the Sord M5: the board (src/src/SystemBusM5.cpp) with   *)
(* its Z80 CTC, the clock CK2 that triggers channel 2, the video chip whose   *)
(* interrupt pin triggers channel 3, the CPU that accepts interrupts and      *)
(* whose opcode fetches the board watches for RETI, the machine's reset, and  *)
(* save states (GearSF7000Core.cpp).                                         *)
(*                                                                         *)
(* The CPU advances the board by blocks of half-cycles.  Time is kept modulo *)
(* a period of CK2: the code compares it with nothing else.                  *)
(***************************************************************************)
EXTENDS Z80CTC, Sequences

CONSTANTS
  CK2Half,       \* clocks between two edges of CK2
  Blocks,        \* half-cycles that the CPU advances the board by
  Words,         \* control words the guest writes to each channel
  TimeConstants, \* time constants the guest writes
  Stored         \* states that the program saved in earlier sessions

ASSUME BoardAssumption ==
  /\ CK2Half \in Nat \ {0} /\ Blocks \subseteq Nat
  /\ Words \in [Channels -> SUBSET SUBSET Flags] /\ TimeConstants \subseteq 1..MaxConstant

CK2(t) == (t \div CK2Half) % 2 = 1

\* A saved state, and the levels that hold in what the program saves.
State == [chip : Chip, clock : 0..(2 * CK2Half - 1), half : 0..1, edPrefix : BOOLEAN,
          cpu : {"run", "accept"}, intLine : BOOLEAN, vdp : BOOLEAN, serving : Seq(Channels)]
Wired(s) ==
  /\ s.chip.interrupt = (Eligible(s.chip) # {}) /\ s.intLine = s.chip.interrupt
  /\ s.chip.channels[3].triggerHigh = ~s.vdp
  /\ s.chip.channels[2].triggerHigh = CK2(s.clock)
Sourced(s) == s.cpu = "accept" => Eligible(s.chip) # {}
Nested(s) ==
  /\ InService(s.chip) = {s.serving[k] : k \in DOMAIN s.serving}
  /\ \A k, l \in DOMAIN s.serving : k < l => s.serving[k] < s.serving[l]

ASSUME StoredAssumption == \A s \in Stored : s \in State /\ Wired(s) /\ Sourced(s) /\ Nested(s)

VARIABLES
  chip,          \* m_ctc
  clock,         \* the time of the chip, modulo a period of CK2
  due,           \* clocks that AdvanceCpuHalfCycles has still to deliver
  half,          \* the odd half-cycle of m_halfCycles
  edPrefix,      \* m_edPrefix
  intLine,       \* the /INT input of the CPU
  cpu,           \* "run", or "accept": the CPU has seen /INT and goes on to acknowledge
  vdp,           \* the video chip asserts its interrupt
  serving        \* the channels acknowledged, the latest first (not in the code)
vars == <<chip, clock, due, half, edPrefix, intLine, cpu, vdp, serving>>

\* The chip calls SetInterrupt only when its pin changes.
Tell(next) ==
  /\ chip' = next
  /\ intLine' = IF next.interrupt # chip.interrupt THEN next.interrupt ELSE intLine

Quiet == due = 0

-----------------------------------------------------------------------------
(* Time.                                                                     *)

Advance(n) ==
  /\ Quiet
  /\ due' = (half + n) \div 2 /\ half' = (half + n) % 2
  /\ UNCHANGED <<chip, clock, edPrefix, intLine, cpu, vdp, serving>>

\* The next event of the chip, the next edge of CK2, or the end of the block.
Stride == Min(EventsAhead(chip) \cup {due, CK2Half - (clock % CK2Half)})

\* One turn of the loop in AdvanceTo, and the edge of CK2 if it has come.
Deliver ==
  /\ ~Quiet
  /\ LET now   == (clock + Stride) % (2 * CK2Half)
         later == Skip(chip, Stride)
     IN /\ clock' = now
        /\ Tell(IF now % CK2Half = 0 THEN SetTrigger(later, 2, CK2(now)) ELSE later)
  /\ due' = due - Stride
  /\ UNCHANGED <<half, edPrefix, cpu, vdp, serving>>

-----------------------------------------------------------------------------
(* The CPU and the video chip.  Each finds the board advanced to the present. *)

Write(i) ==
  /\ Quiet /\ cpu = "run"
  /\ IF "follows" \in chip.channels[i].control
     THEN \E k \in TimeConstants : Tell(WriteConstant(chip, i, k))
     ELSE \E word \in Words[i] : Tell(WriteControl(chip, i, word))
  /\ UNCHANGED <<clock, due, half, edPrefix, cpu, vdp, serving>>

\* The pin is active low.  Only the CPU, by reading the status, releases it.
VdpDrives(asserted) ==
  /\ Quiet /\ vdp # asserted /\ (cpu = "run" \/ asserted)
  /\ vdp' = asserted
  /\ Tell(SetTrigger(chip, 3, ~asserted))
  /\ UNCHANGED <<clock, due, half, edPrefix, cpu, serving>>

\* ObserveOpcodeFetch: ED 4D is RETI.
Fetch(opcode) ==
  /\ Quiet /\ cpu = "run"
  /\ edPrefix' = (~edPrefix /\ opcode = "ED")
  /\ IF edPrefix /\ opcode = "4D"
     THEN /\ Tell(Reti(chip))
          /\ serving' = IF serving = << >> THEN << >> ELSE Tail(serving)
     ELSE UNCHANGED <<chip, intLine, serving>>
  /\ UNCHANGED <<clock, due, half, cpu, vdp>>

Accept ==
  /\ Quiet /\ cpu = "run" /\ intLine
  /\ cpu' = "accept"
  /\ UNCHANGED <<chip, clock, due, half, edPrefix, intLine, vdp, serving>>

\* The vector tells the CPU which channel it is.
Acknowledge ==
  /\ Quiet /\ cpu = "accept"
  /\ cpu' = "run" /\ edPrefix' = FALSE
  /\ Tell(AcknowledgeInterrupt(chip))
  /\ serving' = IF Eligible(chip) = {} THEN serving ELSE <<Min(Eligible(chip))>> \o serving
  /\ UNCHANGED <<clock, due, half, vdp>>

-----------------------------------------------------------------------------
(* The machine: reset, and states that are saved and loaded.                  *)

\* Mutant of ResetMachine: the chip is reset and channel 3 is left at its power-on level.
ResetWithoutPin ==
  /\ Quiet
  /\ chip' = ResetChip
  /\ clock' = 0 /\ half' = 0 /\ edPrefix' = FALSE /\ intLine' = FALSE /\ cpu' = "run"
  /\ vdp' = FALSE /\ serving' = << >>
  /\ UNCHANGED due

\* The board, then the adapter of the video pin, the router and the CPU, the video chip.
ResetMachine ==
  /\ Quiet
  /\ chip' = SetTrigger(ResetChip, 3, TRUE)
  /\ clock' = 0 /\ half' = 0 /\ edPrefix' = FALSE /\ intLine' = FALSE /\ cpu' = "run"
  /\ vdp' = FALSE /\ serving' = << >>
  /\ UNCHANGED due

Snapshot == [chip |-> chip, clock |-> clock, half |-> half, edPrefix |-> edPrefix, cpu |-> cpu,
             intLine |-> intLine, vdp |-> vdp, serving |-> serving]

\* What SystemBusM5::LoadState asks of a state.
Acceptable(s) ==
  /\ \A i \in Channels : Loadable(s.chip.channels[i], i)
  /\ ~s.chip.channels[0].triggerHigh /\ ~s.chip.channels[1].triggerHigh
  /\ s.chip.channels[2].triggerHigh = CK2(s.clock)

\* The chip is loaded silently; at the end the core reconciles the lines.
LoadState ==
  /\ Quiet
  /\ \E s \in Stored :
       /\ Acceptable(s)
       /\ chip' = LoadChip(s.chip) /\ intLine' = (Eligible(s.chip) # {})
       /\ clock' = s.clock /\ half' = s.half /\ edPrefix' = s.edPrefix
       /\ cpu' = s.cpu /\ vdp' = s.vdp /\ serving' = s.serving
  /\ UNCHANGED due

Init ==
  /\ chip = SetTrigger(ResetChip, 3, TRUE)
  /\ clock = 0 /\ due = 0 /\ half = 0 /\ edPrefix = FALSE /\ intLine = FALSE /\ cpu = "run"
  /\ vdp = FALSE /\ serving = << >>

Next ==
  \/ \E n \in Blocks : Advance(n)
  \/ Deliver
  \/ \E i \in Channels : Write(i)
  \/ \E asserted \in BOOLEAN : VdpDrives(asserted)
  \/ \E opcode \in {"ED", "4D", "other"} : Fetch(opcode)
  \/ Accept
  \/ Acknowledge
  \/ ResetMachine
  \/ LoadState

Spec == Init /\ [][Next]_vars

-----------------------------------------------------------------------------

TypeOK ==
  /\ Snapshot \in State
  /\ due \in Nat

\* Whatever the guest did, the state that would be saved now is one that
\* LoadState does not refuse.
SavedStateLoads == Acceptable(Snapshot)

\* Every wire has one level at both of its ends, after a reset or a load too:
\* the chip's request and /INT, the video pin and channel 3, CK2 and channel 2.
WiresAgree == Wired(Snapshot)

\* An interrupt that the CPU accepted still has a channel behind it when it is
\* acknowledged, however long that takes: the CPU never reads an idle bus.
AcceptedHasSource == Sourced(Snapshot)

\* Interrupts nest by priority, so that RETI, which ends the service of the first
\* channel in the chain, ends the one that the CPU began last.
RetiEndsLatest == Nested(Snapshot)

\* Nothing happens in the clocks skipped: stopping anywhere on the way, as
\* a shorter block would, leads to the same chip.
SkippingIsExact ==
  \A n \in 1..Min(EventsAhead(chip) \cup {2 * CK2Half}) : \A k \in 1..(n - 1) :
    Skip(Skip(chip, k), n - k) = Skip(chip, n)

=============================================================================
