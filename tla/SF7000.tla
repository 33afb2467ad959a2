------------------------------- MODULE SF7000 -------------------------------
(***************************************************************************)
(* The SF-7000 board around the floppy controller (src/src/SF7000.cpp): the *)
(* port E6 lines to motor, terminal count and reset, the spindle with its   *)
(* INDEX pulse, and the way the board feeds time to the controller.         *)
(*                                                                         *)
(* The board is lazy: clocks are set aside in m_fdcPendingClocks and the     *)
(* controller catches up when the CPU looks at it or one of its deadlines    *)
(* comes due.  Immediate, at the end, is the same board with a controller    *)
(* that lives in the present: NEC765 itself.  The laziness is correct if     *)
(* this module implements it.                                               *)
(***************************************************************************)
EXTENDS NEC765

CONSTANTS
  IndexPulse,    \* indexPulseClocks
  GuestLines,    \* the lines of port E6 that the guest moves
  Ejects         \* {TRUE} when discs are also taken out, {} otherwise

Lines == {"MOTOR_OFF", "TC", "RESET"}
\* A data mark comes after its ID mark, so no search ends the moment it begins.
ASSUME BoardAssumption ==
  /\ IndexPulse \in 0..Rev /\ GuestLines \subseteq Lines /\ Ejects \subseteq {TRUE}
  /\ IdamToDam # 0

VARIABLES
  portE6,        \* the lines of port E6 that are high
  pending,       \* m_fdcPendingClocks
  clocksIndex,   \* position of the spindle since the last index
  index          \* the INDEX bit of port E4
boardVars == <<fdc, disk, motor, portE6, pending, clocksIndex, index>>

-----------------------------------------------------------------------------
(* Catching up.                                                              *)

CatchUp(f, dk, p) ==
  IF p = 0 THEN f ELSE Tick(f, dk, p, motor /\ Present(dk, f.drive))
MediumCaughtUp(f, dk, p) ==
  IF p = 0 THEN dk ELSE MediumAfterTick(f, dk, p, motor /\ Present(dk, f.drive))

\* The controller and the medium as they are now, pending clocks included.
CurrentFdc == CatchUp(fdc, disk, pending)
CurrentDisk == MediumCaughtUp(fdc, disk, pending)

Until(deadline, now) == IF deadline > now THEN deadline - now ELSE 0

\* Mutant of Deadlines: a seek is not an event.
DeadlinesOfSpindle ==
     (IF Rotating /\ fdc.pendingFind
          THEN {Until(fdc.findCompleteBit, fdc.totalBits)} ELSE {})
  \cup (IF Rotating /\ fdc.pendingFormat
          THEN {Until(fdc.formatCompleteBit, fdc.totalBits)} ELSE {})

\* nec765ClocksToNextEvent is the least of these, if there are any.
Deadlines ==
     (IF fdc.phase2 = "SEEKING" THEN {Until(fdc.stepTime, fdc.stepClocks)} ELSE {})
  \cup (IF Rotating /\ fdc.pendingFind
          THEN {Until(fdc.findCompleteBit, fdc.totalBits)} ELSE {})
  \cup (IF Rotating /\ fdc.pendingFormat
          THEN {Until(fdc.formatCompleteBit, fdc.totalBits)} ELSE {})

SpindleAfter(n) == IF motor THEN (clocksIndex + n) % Rev ELSE clocksIndex

TickFDC(n) ==
  LET needsTime == Rotating \/ Deadlines # {}
      p         == IF needsTime THEN pending + n ELSE 0
      position  == SpindleAfter(n)
      pulse     == motor /\ Present(disk, fdc.drive) /\ position < IndexPulse
      due       == pulse # index \/ \E d \in Deadlines : p >= d
  IN /\ clocksIndex' = position
     /\ index' = pulse
     /\ IF due
          THEN /\ fdc' = CatchUp(fdc, disk, p)
               /\ disk' = MediumCaughtUp(fdc, disk, p)
               /\ pending' = 0
          ELSE pending' = p /\ UNCHANGED <<fdc, disk>>
     /\ UNCHANGED <<motor, portE6>>

-----------------------------------------------------------------------------
(* The CPU's accesses.                                                       *)

\* What the guest can write: a command byte is expected when the chip is idle.
BoardInput == IF CurrentFdc.phase = "IDLE" THEN Commands ELSE Bytes

\* Mutant of DataWrite: writes to the controller of the last synchronisation.
DataWriteStale(v) ==
  /\ InBuffer(fdc, disk)
  /\ fdc' = Write(fdc, disk, v)
  /\ disk' = MediumAfterWrite(fdc, disk, v)
  /\ UNCHANGED <<motor, portE6, pending, clocksIndex, index>>

DataWrite(v) ==
  /\ InBuffer(CurrentFdc, CurrentDisk)
  /\ fdc' = Write(CurrentFdc, CurrentDisk, v)
  /\ disk' = MediumAfterWrite(CurrentFdc, CurrentDisk, v)
  /\ pending' = 0
  /\ UNCHANGED <<motor, portE6, clocksIndex, index>>

DataRead ==
  /\ fdc' = Read(CurrentFdc)
  /\ disk' = CurrentDisk
  /\ pending' = 0
  /\ UNCHANGED <<motor, portE6, clocksIndex, index>>

StatusRead ==
  /\ fdc' = ReadStatus(CurrentFdc)
  /\ disk' = CurrentDisk
  /\ pending' = 0
  /\ UNCHANGED <<motor, portE6, clocksIndex, index>>

\* Port A carries the interrupt line, so reading it catches up too.
PortARead ==
  /\ fdc' = CurrentFdc
  /\ disk' = CurrentDisk
  /\ pending' = 0
  /\ UNCHANGED <<motor, portE6, clocksIndex, index>>

\* Only rising edges act; the motor does not start without a disc.
SetPortE6(lines) ==
  LET f == CurrentFdc
  IN /\ portE6' = lines
     /\ motor' = ("MOTOR_OFF" \notin lines /\ Present(CurrentDisk, f.drive))
     /\ fdc' = ControlEdges(f, "TC" \in lines \ portE6, "RESET" \in lines \ portE6)
     /\ disk' = CurrentDisk
     /\ pending' = 0
     /\ UNCHANGED <<clocksIndex, index>>

BoardReset ==
  /\ fdc' = Reset([fdc EXCEPT !.totalBits = 0])
  /\ motor' = FALSE
  /\ portE6' = {"MOTOR_OFF"}
  /\ pending' = 0 /\ clocksIndex' = 0
  /\ index' = TRUE
  /\ UNCHANGED disk

-----------------------------------------------------------------------------
(* The user's disc operations.  The drive changes before the board hears of   *)
(* it, so the clocks still pending are charged to the new disc; an eject is   *)
(* not announced to the board at all.                                        *)

BoardInsert(m) ==
  /\ fdc' = DiskChanged(CatchUp(fdc, m, pending))
  /\ disk' = MediumCaughtUp(fdc, m, pending)
  /\ pending' = 0 /\ clocksIndex' = 0
  /\ UNCHANGED <<motor, portE6, index>>

BoardEject ==
  /\ disk' = [NoMedium EXCEPT !.readOnly = disk.readOnly]
  /\ UNCHANGED <<fdc, motor, portE6, pending, clocksIndex, index>>

BoardProtect(b) ==
  /\ disk' = [disk EXCEPT !.readOnly = b]
  /\ UNCHANGED <<fdc, motor, portE6, pending, clocksIndex, index>>

-----------------------------------------------------------------------------

BoardInit ==
  /\ Init
  /\ portE6 = {"MOTOR_OFF"} /\ pending = 0 /\ clocksIndex = 0 /\ index = TRUE

Others ==
  \/ StatusRead
  \/ PortARead
  \/ \E lines \in SUBSET GuestLines : SetPortE6(lines)
  \/ BoardReset
  \/ \E m \in Media : BoardInsert(m)
  \/ \E e \in Ejects : BoardEject
  \/ \E b \in Protection : BoardProtect(b)

CpuTick == \E n \in Blocks : TickFDC(n)

BoardNext ==
  \/ \E v \in BoardInput : DataWrite(v)
  \/ DataRead
  \/ Others
  \/ CpuTick

BoardSpec == BoardInit /\ [][BoardNext]_boardVars

-----------------------------------------------------------------------------

\* Type invariant.
BoardTypeOK ==
  /\ TypeOK
  /\ portE6 \subseteq Lines /\ pending \in Nat
  /\ clocksIndex \in 0..(Rev - 1) /\ index \in BOOLEAN

\* Laziness is invisible: with the pending clocks counted in, every step of the
\* board is a step of the controller living in the present, or none.  The board
\* is not told of an eject, nor, with the motor on, of the disc put in after one:
\* it charges the clocks pending at that moment to the state after it, or, once
\* nothing needs time any more, drops them.
Immediate == INSTANCE NEC765 WITH fdc <- CurrentFdc, disk <- CurrentDisk
MediumUnannounced ==
  BoardEject \/ (motor /\ ~disk.present /\ \E m \in Media : BoardInsert(m))
ClocksDropped == CpuTick /\ ~disk.present /\ Deadlines = {} /\ pending # 0
LazinessInvisible ==
  /\ Immediate!Init
  /\ [][Immediate!Next \/ MediumUnannounced \/ ClocksDropped]_<<CurrentFdc, CurrentDisk, motor>>

\* FDC765_DiskChanged: "a deterministic common index phase for the spindle and
\* the FDC raw-bit clock": while a disc is in, the INDEX position and the
\* controller's rotational position (drive 0 selected) never drift apart.
IndexPhaseCommon == disk.present => clocksIndex = CurrentFdc.totalBits % Rev

\* No event waits in the deferred clocks: the interrupt line, the head and the
\* phase that the board publishes are those of this moment, and so is the disc.
NothingOverdue ==
  /\ CurrentFdc.interrupt = fdc.interrupt /\ CurrentFdc.currentTrack = fdc.currentTrack
  /\ CurrentFdc.phase = fdc.phase /\ CurrentFdc.phase2 = fdc.phase2
  /\ CurrentDisk = disk

=============================================================================
