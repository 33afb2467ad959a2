----------------------------- MODULE SF7000Proofs -----------------------------
(***************************************************************************)
(* Theorems about SF7000: the board that sets clocks aside keeps the         *)
(* controller's invariants and implements the one that lives in the present. *)
(***************************************************************************)
EXTENDS SF7000, NEC765Proofs

-----------------------------------------------------------------------------
(* Deadlines.                                                                *)

\* What the controller waits for lies ahead.
NotDue(f) ==
  /\ f.pendingFind => f.totalBits < f.findCompleteBit
  /\ f.pendingFormat => f.totalBits < f.formatCompleteBit

\* A tick of any length leaves nothing due behind.
LEMMA TickNotDue ==
  ASSUME NEW f \in Fdc, NEW dk \in Medium, NEW n \in Nat, NEW rotating \in BOOLEAN
  PROVE  NotDue(Tick(f, dk, n, rotating))
<1>1. PICK m \in Fdc : m = MoveToTrackTick(Rotate(f, n, rotating), n)
  BY RotateType, MoveToTrackTickType
<1>2. PICK s \in Fdc : s = SectorFindTick(m, dk)
  BY SectorFindTickType
<1>3. PICK t \in Fdc : t = FormatTick(s)
  BY FormatTickType
<1>4. s.pendingFind => s.totalBits < s.findCompleteBit
  <2>1. CASE ~FindDue(m)
    BY <1>2, <2>1 DEF SectorFindTick, FindDue, Fdc
  <2>2. CASE FindDue(m)
    <3> DEFINE done == EnterResult([m EXCEPT !.pendingFind = FALSE, !.findCompleteBit = 0,
                                             !.findSectorIdx = 0])
    <3>1. PICK d \in Fdc : d = done /\ ~d.pendingFind
      <4>1. [m EXCEPT !.pendingFind = FALSE, !.findCompleteBit = 0, !.findSectorIdx = 0] \in Fdc
        BY DEF Fdc
      <4>2. ~done.pendingFind
        BY DEF EnterResult, Fdc
      <4>3. QED
        BY <4>1, <4>2, EnterResultType
    <3> HIDE DEF done
    <3>2. PICK a, b, c : /\ s = [d EXCEPT !.status0 = a, !.status1 = b]
                           \/ s = [d EXCEPT !.sectorNumber = c]
      BY <1>2, <2>2, <3>1 DEF SectorFindTick, done
    <3>3. s.pendingFind = d.pendingFind
      <4>1. CASE s = [d EXCEPT !.status0 = a, !.status1 = b]
        BY <4>1 DEF Fdc
      <4>2. CASE s = [d EXCEPT !.sectorNumber = c]
        BY <4>2 DEF Fdc
      <4>3. QED
        BY <3>2, <4>1, <4>2
    <3>4. QED
      BY <3>1, <3>3
  <2>3. QED
    BY <2>1, <2>2
<1>5. t.pendingFormat => t.totalBits < t.formatCompleteBit
  BY <1>3 DEF FormatTick, FormatDue, EnterResult, Fdc
<1>6. t.pendingFind = s.pendingFind /\ t.totalBits = s.totalBits /\ t.findCompleteBit = s.findCompleteBit
  BY <1>3 DEF FormatTick, EnterResult, Fdc
<1>7. NotDue(t)
  BY <1>4, <1>5, <1>6 DEF NotDue
<1>8. NotDue(Settle(t))
  BY <1>7 DEF NotDue, Settle, Fdc
<1>9. QED
  BY <1>1, <1>2, <1>3, <1>8 DEF Tick, BeforeFormatTick

LEMMA FindSectorNotDue ==
  ASSUME NEW f \in Fdc, ~f.pendingFormat, NEW dk \in Medium
  PROVE  NotDue(FindSector(f, dk))
<1> DEFINE s   == SectorsUnder(f, dk)
           pos == Kept(f.totalBits) % Rev
<1>0. PICK now \in Nat : now = Kept(f.totalBits)
  BY KeptType DEF Fdc
<1>1. pos \in Nat /\ Rev \in Nat \ {0} /\ IdamToDam \in Nat \ {0}
  BY <1>0, GeometryAssumption, BoardAssumption
<1>2. s # << >> => ForwardDistance(pos, NextSector(s, pos)) \in Nat
  <2>1. s \in Track
    BY SectorsUnderType
  <2>2. s # << >> => NextSector(s, pos) \in Nat
    BY <1>1, <2>1, NextSectorType DEF Track
  <2>3. QED
    BY <1>1, <2>2, ForwardDistanceType
<1>3. PICK wait \in Nat \ {0} :
        wait = IF s = << >> THEN 2 * Rev ELSE ForwardDistance(pos, NextSector(s, pos)) + IdamToDam
  BY <1>1, <1>2
<1>5. PICK i : i = IF s = << >> THEN 0 ELSE NextSector(s, pos)
  OBVIOUS
<1>6. FindSector(f, dk) = [f EXCEPT !.pendingFind = TRUE, !.totalBits = now,
                                    !.findCompleteBit = now + wait, !.findSectorIdx = i]
  BY <1>0, <1>3, <1>5 DEF FindSector
<1>7. QED
  BY <1>6 DEF NotDue, Fdc

LEMMA WriteNotDue ==
  ASSUME NEW f \in Fdc, NotDue(f), NEW dk \in Medium, NEW v,
         IF f.phase = "IDLE" THEN v \in Commands ELSE v \in Bytes
  PROVE  NotDue(Write(f, dk, v))
<1>1. ASSUME ~f.pendingFormat, f.phase = "IDLE"
      PROVE  NotDue(IdlePhaseWrite(f, v))
  BY <1>1 DEF NotDue, IdlePhaseWrite, EnterResult, Fdc
<1>2. ASSUME ~f.pendingFormat, f.phase = "COMMAND"
      PROVE  NotDue(CommandPhaseWrite(f, dk, v))
  <2> DEFINE g == [f EXCEPT !.phaseStep = @ + 1]
             idle == [[f EXCEPT !.phaseStep = @ + 1] EXCEPT !.phase = "IDLE", !.phaseStep = 0]
             sought == [idle EXCEPT !.drive = v % 4]
  <2>1. sought \in Fdc /\ ~sought.pendingFormat
    <3>1. v % 4 \in 0..3
      <4>1. v \in Nat
        <5>1. v \in Bytes
          BY <1>2
        <5>2. QED
          BY <5>1, ByteAssumption, GeometryAssumption
      <4>2. QED
        BY <4>1
    <3>2. QED
      BY <3>1, <1>2 DEF Fdc
  <2>2. CASE f.command = "READ_ID" /\ f.phaseStep = 1
    <3>1. NotDue(FindSector(sought, dk))
      BY <2>1, FindSectorNotDue
    <3>2. QED
      BY <2>2, <3>1 DEF CommandPhaseWrite
  <2>3. CASE ~(f.command = "READ_ID" /\ f.phaseStep = 1)
    <3> DEFINE h == CommandPhaseWrite(f, dk, v)
    <3>1. /\ h.pendingFind = f.pendingFind /\ h.totalBits = f.totalBits
          /\ h.findCompleteBit = f.findCompleteBit /\ h.pendingFormat = f.pendingFormat
          /\ h.formatCompleteBit = f.formatCompleteBit
      BY <2>3 DEF CommandPhaseWrite, ReadSector, SetupMoveToTrack, EnterResult, Fdc
    <3>2. QED
      BY <3>1 DEF NotDue
  <2>4. QED
    BY <2>2, <2>3
<1>3. ASSUME ~f.pendingFormat, f.phase = "DATATRANSFER"
      PROVE  NotDue(Transferred(ExecutionPhaseWrite(f, dk, v)))
  <2>1. NotDue(Transferred(WriteDataByte(f, dk)))
    BY <1>3 DEF NotDue, Transferred, WriteDataByte, Fdc
  <2>2. NotDue(Transferred(FormatByte(f, v)))
    <3>1. Rev \in Nat \ {0}
      BY GeometryAssumption
    <3>2. QED
      BY <1>3, <3>1 DEF NotDue, Transferred, FormatByte, Fdc
  <2>3. NotDue(Transferred(f))
    BY DEF NotDue, Transferred, Fdc
  <2>4. QED
    BY <2>1, <2>2, <2>3 DEF ExecutionPhaseWrite
<1>4. QED
  BY <1>1, <1>2, <1>3 DEF Write

LEMMA OthersNotDue ==
  ASSUME NEW f \in Fdc, NotDue(f), NEW tc \in BOOLEAN, NEW reset \in BOOLEAN
  PROVE  /\ NotDue(Read(f)) /\ NotDue(ReadStatus(f)) /\ NotDue(ControlEdges(f, tc, reset))
         /\ NotDue(DiskChanged(f)) /\ NotDue(Reset(f))
<1>1. NotDue(Read(f))
  BY DEF NotDue, Read, Transferred, ExecutionPhaseRead, ResultsPhaseRead, Fdc
<1>2. NotDue(ReadStatus(f))
  BY DEF NotDue, ReadStatus, Fdc
<1>3. NotDue(TerminalCount(f))
  BY DEF NotDue, TerminalCount, Fdc
<1>4. \A g : NotDue(Reset(g))
  BY DEF NotDue, Reset
<1>5. NotDue(ControlEdges(f, tc, reset))
  BY <1>3, <1>4 DEF ControlEdges
<1>6. NotDue(DiskChanged(f))
  BY DEF NotDue, DiskChanged, Fdc
<1>7. QED
  BY <1>1, <1>2, <1>4, <1>5, <1>6

-----------------------------------------------------------------------------
(* Time in which nothing happens.                                            *)

\* The next n clocks meet no event.
Calm(f, n, rotating) ==
  /\ f.phase2 = "SEEKING" => f.stepClocks + n < f.stepTime
  /\ rotating /\ f.pendingFind => f.totalBits + n < f.findCompleteBit
  /\ rotating /\ f.pendingFormat => f.totalBits + n < f.formatCompleteBit

LEMMA CalmTick ==
  ASSUME NEW f \in Fdc, NotDue(f), NEW n \in Nat, NEW rotating \in BOOLEAN, Calm(f, n, rotating),
         NEW dk \in Medium
  PROVE  /\ Tick(f, dk, n, rotating).interrupt = f.interrupt
         /\ Tick(f, dk, n, rotating).currentTrack = f.currentTrack
         /\ Tick(f, dk, n, rotating).phase = f.phase
         /\ Tick(f, dk, n, rotating).phase2 = f.phase2
         /\ MediumAfterTick(f, dk, n, rotating) = dk
<1>1. PICK r \in Fdc : r = Rotate(f, n, rotating)
  BY RotateType
<1>2. PICK m \in Fdc : m = MoveToTrackTick(r, n)
  BY MoveToTrackTickType
<1>3. /\ r.interrupt = f.interrupt /\ r.currentTrack = f.currentTrack /\ r.phase = f.phase
      /\ r.phase2 = f.phase2 /\ r.stepClocks = f.stepClocks /\ r.stepTime = f.stepTime
      /\ ~FindDue(r) /\ ~FormatDue(r)
  BY <1>1 DEF Rotate, Fdc, FindDue, FormatDue, NotDue, Calm
<1>4. /\ m.interrupt = f.interrupt /\ m.currentTrack = f.currentTrack /\ m.phase = f.phase
      /\ m.phase2 = f.phase2 /\ ~FindDue(m) /\ ~FormatDue(m)
  <2>1. CASE r.phase2 # "SEEKING"
    BY <1>2, <1>3, <2>1 DEF MoveToTrackTick
  <2>2. CASE r.phase2 = "SEEKING"
    <3>1. PICK c \in Nat, w \in Nat \ {0} : c = r.stepClocks + n /\ w = r.stepTime /\ c < w
      BY <1>3, <2>2 DEF Fdc, Calm
    <3>2. c \div w = 0
      BY <3>1
    <3>3. SeekDistance(r) \in Nat /\ HeadAfter(r, 0) = r.currentTrack
      BY GeometryAssumption DEF SeekDistance, HeadAfter, Fdc
    <3>4. PICK k : k = c % w
      OBVIOUS
    <3>5. m = [r EXCEPT !.currentTrack = r.currentTrack, !.stepClocks = k]
      <4>1. PICK needed \in Nat \ {0} : needed = IF SeekDistance(r) = 0 THEN 1 ELSE SeekDistance(r)
        BY <3>3
      <4>2. PICK steps : steps = (r.stepClocks + n) \div r.stepTime /\ steps = 0
        BY <3>1, <3>2
      <4>3. ~(steps >= needed) /\ HeadAfter(r, steps) = r.currentTrack
        BY <3>3, <4>1, <4>2
      <4>4. k = (r.stepClocks + n) % r.stepTime
        BY <3>1, <3>4
      <4>5. QED
        BY <1>2, <2>2, <4>1, <4>2, <4>3, <4>4 DEF MoveToTrackTick
    <3>6. QED
      BY <1>3, <3>5 DEF Fdc, FindDue, FormatDue
  <2>3. QED
    BY <2>1, <2>2
<1>5. SectorFindTick(m, dk) = m /\ FormatTick(m) = m
  BY <1>4 DEF SectorFindTick, FormatTick
<1>6. Tick(f, dk, n, rotating) = Settle(m) /\ MediumAfterTick(f, dk, n, rotating) = dk
  BY <1>1, <1>2, <1>4, <1>5 DEF Tick, MediumAfterTick, BeforeFormatTick
<1>7. /\ Settle(m).interrupt = m.interrupt /\ Settle(m).currentTrack = m.currentTrack
      /\ Settle(m).phase = m.phase /\ Settle(m).phase2 = m.phase2
  BY DEF Settle, Fdc
<1>8. QED
  BY <1>4, <1>6, <1>7
LEMMA NothingPasses ==
  ASSUME NEW f, NEW dk, NEW p
  PROVE  p = 0 => CatchUp(f, dk, p) = f /\ MediumCaughtUp(f, dk, p) = dk
  BY DEF CatchUp, MediumCaughtUp

\* Catching up is a tick, or nothing.
LEMMA CatchUpFacts ==
  ASSUME NEW f \in Fdc, Consistent(f), NotDue(f), NEW dk \in Medium, NEW p \in Nat, motor \in BOOLEAN
  PROVE  /\ CatchUp(f, dk, p) \in Fdc /\ MediumCaughtUp(f, dk, p) \in Medium
         /\ Consistent(CatchUp(f, dk, p)) /\ NotDue(CatchUp(f, dk, p))
<1>1. PICK rotating \in BOOLEAN : rotating = (motor /\ Present(dk, f.drive))
  BY DEF Present, Medium
<1>2. QED
  BY <1>1, TickType, TickConsistent, TickNotDue DEF CatchUp, MediumCaughtUp

-----------------------------------------------------------------------------
(* The board's invariant.                                                    *)

\* Every deadline lies beyond the clocks that are set aside.
SetAside == pending # 0 => \A d \in Deadlines : pending < d

BoardInv == BoardTypeOK /\ Consistent(fdc) /\ NotDue(fdc) /\ SetAside

LEMMA BoardInvInit == BoardInit => BoardInv
<1> SUFFICES ASSUME BoardInit
             PROVE  BoardInv
  OBVIOUS
<1>1. TypeOK /\ Consistent(fdc)
  BY InitProtocolInv DEF BoardInit, ProtocolInv
<1>2. NotDue(fdc)
  BY DEF BoardInit, Init, PowerUp, Reset, NotDue
<1>3. 0 \in 0..(Rev - 1)
  BY GeometryAssumption
<1>4. QED
  BY <1>1, <1>2, <1>3 DEF BoardInit, BoardInv, BoardTypeOK, SetAside, Lines

\* What a step has to provide when it leaves no clocks aside.
LEMMA CaughtUp ==
  ASSUME fdc' \in Fdc, Consistent(fdc'), NotDue(fdc'), disk' \in Medium, motor' \in BOOLEAN,
         portE6' \subseteq Lines, pending' = 0, clocksIndex' \in 0..(Rev - 1), index' \in BOOLEAN
  PROVE  BoardInv'
  BY DEF BoardInv, BoardTypeOK, TypeOK, SetAside

LEMMA BoardInvNext == BoardInv /\ [BoardNext]_boardVars => BoardInv'
<1> SUFFICES ASSUME BoardInv, [BoardNext]_boardVars
             PROVE  BoardInv'
  OBVIOUS
<1>1. /\ fdc \in Fdc /\ disk \in Medium /\ motor \in BOOLEAN /\ Consistent(fdc) /\ NotDue(fdc)
      /\ portE6 \subseteq Lines /\ pending \in Nat /\ clocksIndex \in 0..(Rev - 1) /\ index \in BOOLEAN
  BY DEF BoardInv, BoardTypeOK, TypeOK
<1>2. PICK f \in Fdc, dk \in Medium : /\ f = CurrentFdc /\ dk = CurrentDisk
                                      /\ Consistent(f) /\ NotDue(f)
  BY <1>1, CatchUpFacts DEF CurrentFdc, CurrentDisk
<1>3. Rev \in Nat \ {0} /\ 0 \in 0..(Rev - 1)
  BY GeometryAssumption
<1>4. ASSUME NEW v \in BoardInput, DataWrite(v)
      PROVE  BoardInv'
  <2>1. IF f.phase = "IDLE" THEN v \in Commands ELSE v \in Bytes
    BY <1>2, <1>4 DEF BoardInput
  <2>2. Write(f, dk, v) \in Fdc /\ MediumAfterWrite(f, dk, v) \in Medium
    BY <2>1, WriteType
  <2>3. Consistent(Write(f, dk, v)) /\ NotDue(Write(f, dk, v))
    BY <1>2, <2>1, WriteConsistent, WriteNotDue
  <2>4. QED
    BY <1>1, <1>2, <1>4, <2>2, <2>3, CaughtUp DEF DataWrite
<1>5. CASE DataRead
  <2>1. Read(f) \in Fdc /\ Consistent(Read(f)) /\ NotDue(Read(f))
    BY <1>2, ReadType, ReadConsistent, OthersNotDue
  <2>2. QED
    BY <1>1, <1>2, <1>5, <2>1, CaughtUp DEF DataRead
<1>6. CASE StatusRead
  <2>1. ReadStatus(f) \in Fdc /\ Consistent(ReadStatus(f)) /\ NotDue(ReadStatus(f))
    BY <1>2, ReadStatusType, OtherInputsConsistent, OthersNotDue
  <2>2. QED
    BY <1>1, <1>2, <1>6, <2>1, CaughtUp DEF StatusRead
<1>7. CASE PortARead
  BY <1>1, <1>2, <1>7, CaughtUp DEF PortARead
<1>8. ASSUME NEW lines \in SUBSET GuestLines, SetPortE6(lines)
      PROVE  BoardInv'
  <2>1. PICK tc \in BOOLEAN, reset \in BOOLEAN :
          tc = ("TC" \in lines \ portE6) /\ reset = ("RESET" \in lines \ portE6)
    <3>1. ("TC" \in lines \ portE6) \in BOOLEAN /\ ("RESET" \in lines \ portE6) \in BOOLEAN
      OBVIOUS
    <3>2. QED
      BY <3>1
  <2>2. PICK g \in Fdc : g = ControlEdges(f, tc, reset) /\ Consistent(g) /\ NotDue(g)
    BY <1>2, ControlEdgesType, ControlEdgesConsistent, OthersNotDue
  <2>3. fdc' = g /\ disk' = dk /\ portE6' = lines /\ pending' = 0 /\ UNCHANGED <<clocksIndex, index>>
    BY <1>2, <1>8, <2>1, <2>2 DEF SetPortE6
  <2>4. motor' \in BOOLEAN
    BY <1>8 DEF SetPortE6
  <2>5. lines \subseteq Lines
    BY BoardAssumption
  <2>6. QED
    BY <1>1, <2>2, <2>3, <2>4, <2>5, CaughtUp
<1>9. CASE BoardReset
  <2>1. PICK g \in Fdc : g = Reset([fdc EXCEPT !.totalBits = 0]) /\ Consistent(g) /\ NotDue(g)
    <3>1. NotDue(Reset([fdc EXCEPT !.totalBits = 0]))
      BY DEF NotDue, Reset
    <3>2. QED
      BY <1>1, <3>1, MachineResetType, ResetConsistent
  <2>2. QED
    BY <1>1, <1>3, <1>9, <2>1, CaughtUp DEF BoardReset, Lines
<1>10. ASSUME NEW m \in Media, BoardInsert(m)
       PROVE  BoardInv'
  <2>1. m \in Medium
    BY MediaAssumption
  <2>2. PICK g \in Fdc, d \in Medium : /\ g = CatchUp(fdc, m, pending) /\ d = MediumCaughtUp(fdc, m, pending)
                                       /\ Consistent(g) /\ NotDue(g)
    BY <1>1, <2>1, CatchUpFacts
  <2>3. DiskChanged(g) \in Fdc /\ Consistent(DiskChanged(g)) /\ NotDue(DiskChanged(g))
    BY <2>2, DiskChangedType, OtherInputsConsistent, OthersNotDue
  <2>4. QED
    BY <1>1, <1>3, <1>10, <2>2, <2>3, CaughtUp DEF BoardInsert
<1>11. CASE BoardEject
  <2>1. disk' \in Medium /\ ~disk'.present
    <3>1. [NoMedium EXCEPT !.readOnly = disk.readOnly] \in Medium
      BY <1>1, NoMediumType DEF Medium
    <3>2. ~[NoMedium EXCEPT !.readOnly = disk.readOnly].present
      BY DEF NoMedium
    <3>3. QED
      BY <1>11, <3>1, <3>2 DEF BoardEject
  <2>2. Deadlines' \subseteq Deadlines
    BY <1>11, <2>1 DEF BoardEject, Deadlines, Rotating, Present, Until
  <2>3. SetAside'
    BY <1>11, <2>2 DEF BoardEject, BoardInv, SetAside
  <2>4. QED
    BY <1>1, <1>11, <2>1, <2>3 DEF BoardEject, BoardInv, BoardTypeOK, TypeOK
<1>12. ASSUME NEW b \in Protection, BoardProtect(b)
       PROVE  BoardInv'
  <2>1. disk' \in Medium /\ disk'.present = disk.present
    BY <1>1, <1>12, MediaAssumption DEF BoardProtect, Medium
  <2>2. Deadlines' = Deadlines
    BY <1>12, <2>1 DEF BoardProtect, Deadlines, Rotating, Present, Until
  <2>3. SetAside'
    BY <1>12, <2>2 DEF BoardProtect, BoardInv, SetAside
  <2>4. QED
    BY <1>1, <1>12, <2>1, <2>3 DEF BoardProtect, BoardInv, BoardTypeOK, TypeOK
<1>13. ASSUME NEW n \in Blocks, TickFDC(n)
       PROVE  BoardInv'
  <2>1. n \in Nat
    BY TimingAssumption
  <2>2. PICK p \in Nat : p = IF Rotating \/ Deadlines # {} THEN pending + n ELSE 0
    BY <1>1, <2>1
  <2>3. clocksIndex' \in 0..(Rev - 1) /\ index' \in BOOLEAN /\ UNCHANGED <<motor, portE6>>
    <3>1. clocksIndex \in Nat /\ (clocksIndex + n) % Rev \in 0..(Rev - 1)
      BY <1>1, <1>3, <2>1
    <3>2. QED
      BY <1>1, <1>13, <3>1 DEF TickFDC, SpindleAfter
  <2>4. CASE fdc' = CatchUp(fdc, disk, p) /\ disk' = MediumCaughtUp(fdc, disk, p) /\ pending' = 0
    BY <1>1, <2>3, <2>4, CatchUpFacts, CaughtUp
  <2>5. CASE pending' = p /\ UNCHANGED <<fdc, disk>> /\ \A d \in Deadlines : ~(p >= d)
    <3>1. Deadlines' = Deadlines /\ Deadlines \subseteq Nat
      BY <1>1, <2>3, <2>5 DEF Deadlines, Rotating, Until, Fdc
    <3>2. SetAside'
      BY <2>2, <2>5, <3>1 DEF SetAside
    <3>3. QED
      BY <1>1, <2>2, <2>3, <2>5, <3>2 DEF BoardInv, BoardTypeOK, TypeOK
  <2>6. QED
    BY <1>13, <2>2, <2>4, <2>5 DEF TickFDC
<1>14. CASE UNCHANGED boardVars
  BY <1>14 DEF boardVars, BoardInv, BoardTypeOK, TypeOK, SetAside, Deadlines, Rotating
<1>15. QED
  BY <1>4, <1>5, <1>6, <1>7, <1>8, <1>9, <1>10, <1>11, <1>12, <1>13, <1>14
     DEF BoardNext, Others, CpuTick

LEMMA BoardInvHolds == BoardSpec => []BoardInv
  BY BoardInvInit, BoardInvNext, PTL DEF BoardSpec

-----------------------------------------------------------------------------
(* Lengths on the board: what was short when the clocks were set aside is      *)
(* short when they are delivered.                                             *)

LEMMA CatchUpShort ==
  ASSUME NEW f \in Fdc, ShortFdc(f), NEW dk \in Medium, ShortMedium(dk), NEW p \in Nat,
         motor \in BOOLEAN
  PROVE  ShortFdc(CatchUp(f, dk, p)) /\ ShortMedium(MediumCaughtUp(f, dk, p))
<1>1. PICK rotating \in BOOLEAN : rotating = (motor /\ Present(dk, f.drive))
  BY DEF Present, Medium
<1> QED
  BY <1>1, TickShort DEF CatchUp, MediumCaughtUp

AllShort == ShortFdc(fdc) /\ ShortMedium(disk)
BoardLengths == BoardInv /\ (LengthsFit => AllShort)

LEMMA BoardLengthsInit == BoardInit => BoardLengths
BY BoardInvInit, InitBufferInv DEF BoardInit, BufferInv, BoardLengths, AllShort

LEMMA BoardLengthsNext == BoardLengths /\ [BoardNext]_boardVars => BoardLengths'
<1> SUFFICES ASSUME BoardInv, LengthsFit, AllShort, [BoardNext]_boardVars
             PROVE  AllShort'
  BY BoardInvNext DEF BoardLengths, LengthsFit
<1> USE DEF AllShort
<1>1. /\ fdc \in Fdc /\ disk \in Medium /\ motor \in BOOLEAN /\ Consistent(fdc) /\ NotDue(fdc)
      /\ pending \in Nat
  BY DEF BoardInv, BoardTypeOK, TypeOK
<1>2. PICK f \in Fdc, dk \in Medium : /\ f = CurrentFdc /\ dk = CurrentDisk
                                      /\ ShortFdc(f) /\ ShortMedium(dk)
  BY <1>1, CatchUpFacts, CatchUpShort DEF CurrentFdc, CurrentDisk
<1>3. ASSUME NEW v \in BoardInput, DataWrite(v)
      PROVE  AllShort'
  <2>1. IF f.phase = "IDLE" THEN v \in Commands ELSE v \in Bytes
    BY <1>2, <1>3 DEF BoardInput
  <2> QED
    BY <1>2, <1>3, <2>1, WriteShort DEF DataWrite
<1>4. CASE DataRead \/ StatusRead \/ PortARead
  BY <1>2, <1>4, OtherInputsShort DEF DataRead, StatusRead, PortARead
<1>5. ASSUME NEW lines \in SUBSET GuestLines, SetPortE6(lines)
      PROVE  AllShort'
  <2>1. \A tc, reset \in BOOLEAN : ShortFdc(ControlEdges(f, tc, reset))
    BY <1>2, OtherInputsShort
  <2>2. ("TC" \in lines \ portE6) \in BOOLEAN /\ ("RESET" \in lines \ portE6) \in BOOLEAN
    OBVIOUS
  <2> QED
    BY <1>2, <1>5, <2>1, <2>2 DEF SetPortE6
<1>6. CASE BoardReset
  BY <1>1, <1>6, MachineResetType, ResetShort DEF BoardReset
<1>7. ASSUME NEW m \in Media, BoardInsert(m)
      PROVE  AllShort'
  <2>1. m \in Medium /\ ShortMedium(m)
    BY MediaAssumption DEF LengthsFit, ShortMedium, Short
  <2>2. PICK g \in Fdc : g = CatchUp(fdc, m, pending) /\ ShortFdc(g)
    BY <1>1, <2>1, CatchUpFacts, CatchUpShort
  <2>3. ShortMedium(MediumCaughtUp(fdc, m, pending))
    BY <1>1, <2>1, CatchUpShort
  <2> QED
    BY <1>7, <2>2, <2>3, OtherInputsShort DEF BoardInsert
<1>8. CASE BoardEject
  <2>1. ShortMedium([NoMedium EXCEPT !.readOnly = disk.readOnly])
    BY EmptyIsShort, NoMediumType DEF NoMedium, ShortMedium, Medium
  <2> QED
    BY <1>8, <2>1 DEF BoardEject
<1>9. ASSUME NEW b \in Protection, BoardProtect(b)
      PROVE  AllShort'
  BY <1>1, <1>9 DEF BoardProtect, ShortMedium, Medium
<1>10. ASSUME NEW n \in Blocks, TickFDC(n)
       PROVE  AllShort'
  <2>1. n \in Nat
    BY TimingAssumption
  <2>2. PICK p \in Nat : p = IF Rotating \/ Deadlines # {} THEN pending + n ELSE 0
    BY <1>1, <2>1
  <2>3. \/ fdc' = CatchUp(fdc, disk, p) /\ disk' = MediumCaughtUp(fdc, disk, p)
        \/ UNCHANGED <<fdc, disk>>
    BY <1>10, <2>2 DEF TickFDC
  <2> QED
    BY <1>1, <2>2, <2>3, CatchUpShort
<1>11. CASE UNCHANGED boardVars
  BY <1>11 DEF boardVars
<1> QED
  BY <1>3, <1>4, <1>5, <1>6, <1>7, <1>8, <1>9, <1>10, <1>11 DEF BoardNext, Others, CpuTick

LEMMA BoardLengthsHold == BoardSpec => []BoardLengths
BY BoardLengthsInit, BoardLengthsNext, PTL DEF BoardSpec

-----------------------------------------------------------------------------
(* The spindle.  Position and bit clock are compared modulo a revolution.     *)

LEMMA RevDivision ==
  ASSUME NEW a \in Nat
  PROVE  a \div Rev \in Nat /\ a % Rev \in 0..(Rev - 1) /\ a = Rev * (a \div Rev) + (a % Rev)
<1>1. Rev \in Nat \ {0}
  BY GeometryAssumption
<1>2. QED
  BY <1>1

\* Numbers that differ by revolutions are at the same position.
LEMMA WholeRevolutions ==
  ASSUME NEW q \in Nat, NEW a \in Nat
  PROVE  (Rev * q + a) % Rev = a % Rev
<1>1. Rev \in Nat \ {0}
  BY GeometryAssumption
<1> DEFINE b == Rev * q + a
           d == b \div Rev
           m == b % Rev
           e == a \div Rev
           n == a % Rev
<1>2. b \in Nat
  BY <1>1
<1>3. d \in Nat /\ m \in 0..(Rev - 1) /\ b = Rev * d + m
  BY <1>2, RevDivision
<1>4. e \in Nat /\ n \in 0..(Rev - 1) /\ a = Rev * e + n
  BY RevDivision
<1> HIDE DEF d, m, e, n
<1>5. Rev * (d - (q + e)) = n - m
  BY <1>1, <1>3, <1>4
<1>6. d - (q + e) = 0
  <2>1. PICK k \in Int : k = d - (q + e)
    BY <1>3, <1>4
  <2>2. k >= 1 => Rev * k >= Rev
    BY <1>1, <2>1
  <2>3. k <= -1 => Rev * k <= -Rev
    BY <1>1, <2>1
  <2>4. QED
    BY <1>1, <1>3, <1>4, <1>5, <2>1, <2>2, <2>3
<1>7. m = n
  BY <1>1, <1>3, <1>4, <1>5, <1>6
<1>8. QED
  BY <1>7 DEF m, n

\* A position moves on from where it is.
LEMMA PositionMovesOn ==
  ASSUME NEW a \in Nat, NEW n \in Nat
  PROVE  ((a % Rev) + n) % Rev = (a + n) % Rev
<1>1. /\ a \div Rev \in Nat /\ a % Rev \in Nat
      /\ a = Rev * (a \div Rev) + (a % Rev)
  BY RevDivision, GeometryAssumption
<1>2. (Rev * (a \div Rev) + ((a % Rev) + n)) % Rev = ((a % Rev) + n) % Rev
  BY <1>1, WholeRevolutions
<1>3. Rev * (a \div Rev) + ((a % Rev) + n) = a + n
  <2>1. PICK w \in Nat, r \in Nat : w = Rev * (a \div Rev) /\ r = a % Rev /\ a = w + r
    BY <1>1, GeometryAssumption
  <2>2. QED
    BY <2>1
<1>4. QED
  BY <1>2, <1>3

LEMMA PositionOfPosition ==
  ASSUME NEW a \in Nat
  PROVE  (a % Rev) % Rev = a % Rev
<1>1. (a % Rev) + 0 = a % Rev /\ a + 0 = a
  BY RevDivision, GeometryAssumption
<1>2. QED
  BY <1>1, PositionMovesOn

\* The revolutions that the idle bit clock does not count change no position, and
\* it does not matter when they are dropped.
LEMMA KeptPosition ==
  ASSUME NEW t \in Nat
  PROVE  Kept(t) % Rev = t % Rev
<1>1. PICK r \in Nat : r = t % Rev
  BY RevDivision, GeometryAssumption
<1>2. (Rev * MaxTurns + r) % Rev = r % Rev
  BY <1>1, WholeRevolutions, GeometryAssumption
<1>3. MaxTurns * Rev + r = Rev * MaxTurns + r
  BY GeometryAssumption
<1>4. r % Rev = t % Rev
  BY <1>1, PositionOfPosition
<1> QED
  BY <1>1, <1>2, <1>3, <1>4 DEF Kept

LEMMA KeptAdds ==
  ASSUME NEW t \in Nat, NEW n \in Nat
  PROVE  Kept(Kept(t) + n) = Kept(t + n)
<1>1. PICK full \in Nat, r \in Nat : full = MaxTurns * Rev /\ r = t % Rev
  BY RevDivision, GeometryAssumption
<1>2. (MaxTurns + 1) * Rev = full + Rev /\ Rev \in Nat \ {0}
  BY <1>1, GeometryAssumption
<1>3. \A x : Kept(x) = IF x < full + Rev THEN x ELSE full + (x % Rev)
  BY <1>1, <1>2 DEF Kept
<1>4. CASE t < full + Rev
  BY <1>3, <1>4
<1>5. CASE ~(t < full + Rev)
  <2>1. PICK k \in Nat : k = Kept(t) /\ k = full + r
    BY <1>1, <1>3, <1>5
  <2>2. (k + n) % Rev = (t + n) % Rev
    <3>1. k % Rev = t % Rev
      BY <2>1, KeptPosition
    <3>2. ((k % Rev) + n) % Rev = (k + n) % Rev /\ ((t % Rev) + n) % Rev = (t + n) % Rev
      BY PositionMovesOn
    <3> QED
      BY <3>1, <3>2
  <2>3. ~(t + n < full + Rev) /\ Kept(t + n) = full + ((t + n) % Rev)
    <3>1. ~(t + n < full + Rev)
      BY <1>2, <1>5
    <3> QED
      BY <1>3, <3>1
  <2>4. CASE ~(k + n < full + Rev)
    BY <1>3, <2>1, <2>2, <2>3, <2>4
  <2>5. CASE k + n < full + Rev
    <3>1. r + n \in Nat /\ r + n < Rev /\ k + n = full + (r + n)
      BY <1>2, <2>1, <2>5
    <3>2. (r + n) % Rev = r + n
      BY <1>2, <3>1
    <3>3. (Rev * MaxTurns + (r + n)) % Rev = (r + n) % Rev
      BY <3>1, WholeRevolutions, GeometryAssumption
    <3>4. Rev * MaxTurns = full
      BY <1>1, GeometryAssumption
    <3>5. (t + n) % Rev = r + n
      BY <2>2, <3>1, <3>2, <3>3, <3>4
    <3> QED
      BY <1>3, <2>1, <2>3, <2>5, <3>1, <3>5
  <2> QED
    BY <2>4, <2>5
<1> QED
  BY <1>4, <1>5

\* Where a controller is after the clocks it has been told of turn it, or not.
Position(f, n, rotating) == (f.totalBits + (IF rotating THEN n ELSE 0)) % Rev

LEMMA TickPosition ==
  ASSUME NEW f \in Fdc, NotDue(f), NEW dk \in Medium, NEW n \in Nat, NEW rotating \in BOOLEAN
  PROVE  /\ Tick(f, dk, n, rotating).drive = f.drive
         /\ Tick(f, dk, n, rotating).totalBits % Rev = Position(f, n, rotating)
         /\ ~rotating => MediumAfterTick(f, dk, n, rotating) = dk
<1>1. PICK r \in Fdc : r = Rotate(f, n, rotating)
  BY RotateType
<1>2. PICK m \in Fdc : m = MoveToTrackTick(r, n)
  BY MoveToTrackTickType
<1>3. PICK s \in Fdc : s = SectorFindTick(m, dk)
  BY SectorFindTickType
<1>4. PICK t \in Fdc : t = FormatTick(s)
  BY FormatTickType
<1>5. /\ r.drive = f.drive /\ r.totalBits = f.totalBits + (IF rotating THEN n ELSE 0)
      /\ r.pendingFormat = f.pendingFormat /\ r.formatCompleteBit = f.formatCompleteBit
  BY <1>1 DEF Rotate, Fdc
<1>6. /\ m.drive = r.drive /\ m.totalBits = r.totalBits
      /\ m.pendingFormat = r.pendingFormat /\ m.formatCompleteBit = r.formatCompleteBit
  BY <1>2 DEF MoveToTrackTick, EndSeek, Fdc
<1>7. /\ s.drive = m.drive /\ s.totalBits = m.totalBits
      /\ s.pendingFormat = m.pendingFormat /\ s.formatCompleteBit = m.formatCompleteBit
  BY <1>3 DEF SectorFindTick, EnterResult, Fdc
<1>8. t.drive = s.drive /\ t.totalBits = s.totalBits
  BY <1>4 DEF FormatTick, EnterResult, Fdc
<1>9. /\ Settle(t).drive = t.drive
      /\ Settle(t).totalBits = t.totalBits \/ Settle(t).totalBits = Kept(t.totalBits)
  BY DEF Settle, Fdc
<1>10. Settle(t).totalBits % Rev = t.totalBits % Rev
  BY <1>9, KeptPosition DEF Fdc
<1>11. ~rotating => MediumAfterTick(f, dk, n, rotating) = dk
  BY <1>1, <1>2, <1>3, <1>5, <1>6, <1>7 DEF MediumAfterTick, BeforeFormatTick, FormatDue, NotDue, Fdc
<1>12. Tick(f, dk, n, rotating) = Settle(t)
  BY <1>1, <1>2, <1>3, <1>4 DEF Tick, BeforeFormatTick
<1>13. Position(f, n, rotating) = t.totalBits % Rev
  BY <1>5, <1>6, <1>7, <1>8 DEF Position
<1>14. QED
  BY <1>5, <1>6, <1>7, <1>8, <1>9, <1>10, <1>11, <1>12, <1>13

LEMMA CatchUpPosition ==
  ASSUME NEW f \in Fdc, NotDue(f), NEW dk \in Medium, NEW p \in Nat, motor \in BOOLEAN
  PROVE  /\ CatchUp(f, dk, p).drive = f.drive
         /\ CatchUp(f, dk, p).totalBits % Rev = Position(f, p, motor /\ Present(dk, f.drive))
         /\ MediumCaughtUp(f, dk, p).present => dk.present
<1>1. PICK rotating \in BOOLEAN : rotating = (motor /\ Present(dk, f.drive))
  BY DEF Present, Medium
<1>2. CASE p = 0
  <2>1. Position(f, 0, rotating) = f.totalBits % Rev
    BY DEF Position, Fdc
  <2>2. QED
    BY <1>1, <1>2, <2>1, NothingPasses
<1>3. CASE p # 0
  <2>1. ~dk.present => ~rotating
    BY <1>1 DEF Present
  <2>2. QED
    BY <1>1, <1>3, <2>1, TickPosition DEF CatchUp, MediumCaughtUp
<1>4. QED
  BY <1>2, <1>3

\* READ_ID when its parameter byte has arrived.
Addressed(f, d) ==
  [[f EXCEPT !.phaseStep = @ + 1] EXCEPT !.phase = "IDLE", !.phaseStep = 0, !.drive = d]

LEMMA SearchPosition ==
  ASSUME NEW f \in Fdc, NEW dk
  PROVE  /\ FindSector(Addressed(f, 0), dk).drive = 0
         /\ FindSector(Addressed(f, 0), dk).totalBits = Kept(f.totalBits)
<1>1. Addressed(f, 0) \in Fdc
  <2>1. [f EXCEPT !.phaseStep = @ + 1] \in Fdc
    BY DEF Fdc
  <2>2. ASSUME NEW g \in Fdc
        PROVE  [g EXCEPT !.phase = "IDLE", !.phaseStep = 0, !.drive = 0] \in Fdc
    <3>1. [g EXCEPT !.phase = "IDLE", !.phaseStep = 0] \in Fdc
      BY DEF Fdc
    <3>2. ASSUME NEW h \in Fdc
          PROVE  [h EXCEPT !.drive = 0] \in Fdc
      <4>1. 0 \in 0..3
        OBVIOUS
      <4>2. QED
        BY <4>1 DEF Fdc
    <3>3. QED
      BY <3>1, <3>2
  <2>3. QED
    BY <2>1, <2>2 DEF Addressed
<1>2. Addressed(f, 0).drive = 0 /\ Addressed(f, 0).totalBits = f.totalBits
  BY DEF Addressed, Fdc
<1>3. PICK g \in Fdc : g = Addressed(f, 0)
  BY <1>1
<1> DEFINE s    == SectorsUnder(g, dk)
           now  == Kept(g.totalBits)
           pos  == now % Rev
           wait == IF s = << >> THEN 2 * Rev ELSE ForwardDistance(pos, NextSector(s, pos)) + IdamToDam
           at   == IF s = << >> THEN 0 ELSE NextSector(s, pos)
<1>4. FindSector(g, dk) = [g EXCEPT !.pendingFind = TRUE, !.totalBits = now,
                                    !.findCompleteBit = now + wait, !.findSectorIdx = at]
  BY DEF FindSector
<1>5. PICK due : due = now + wait
  OBVIOUS
<1> HIDE DEF now, pos, wait, at
<1>6. FindSector(g, dk).drive = g.drive /\ FindSector(g, dk).totalBits = now
  BY <1>4, <1>5 DEF Fdc
<1>7. QED
  BY <1>2, <1>3, <1>6 DEF now

\* What the guest writes changes neither the position nor, if it addresses drive 0
\* only, the drive.
LEMMA WritePosition ==
  ASSUME \A b \in Bytes : b % 4 = 0,
         NEW f \in Fdc, f.drive = 0, NEW dk \in Medium, NEW v,
         IF f.phase = "IDLE" THEN v \in Commands ELSE v \in Bytes
  PROVE  /\ Write(f, dk, v).drive = 0
         /\ Write(f, dk, v).totalBits % Rev = f.totalBits % Rev
         /\ MediumAfterWrite(f, dk, v).present = dk.present
<1>1. PICK p : p = Kept(f.totalBits)
  OBVIOUS
<1>2. /\ Write(f, dk, v).drive = 0
      /\ Write(f, dk, v).totalBits \in {f.totalBits, p}
  <2>1. f.phase = "IDLE" => /\ IdlePhaseWrite(f, v).drive = 0
                            /\ IdlePhaseWrite(f, v).totalBits = f.totalBits
    BY DEF IdlePhaseWrite, EnterResult, Fdc
  <2>2. ASSUME f.phase = "COMMAND"
        PROVE  /\ CommandPhaseWrite(f, dk, v).drive = 0
               /\ CommandPhaseWrite(f, dk, v).totalBits \in {f.totalBits, p}
    <3>1. v % 4 = 0
      BY <2>2
    <3>2. CASE f.command = "READ_ID"
      <4>1. f.phaseStep = 1 => CommandPhaseWrite(f, dk, v) = FindSector(Addressed(f, 0), dk)
        BY <3>1, <3>2 DEF CommandPhaseWrite, Addressed
      <4>2. f.phaseStep # 1 => CommandPhaseWrite(f, dk, v) = [f EXCEPT !.phaseStep = @ + 1]
        BY <3>2 DEF CommandPhaseWrite
      <4>3. QED
        BY <1>1, <4>1, <4>2, SearchPosition DEF Fdc
    <3>3. CASE f.command # "READ_ID"
      BY <3>1, <3>3 DEF CommandPhaseWrite, ReadSector, SetupMoveToTrack, EnterResult, Fdc
    <3>4. QED
      BY <3>2, <3>3
  <2>3. /\ Transferred(ExecutionPhaseWrite(f, dk, v)).drive = 0
        /\ Transferred(ExecutionPhaseWrite(f, dk, v)).totalBits = f.totalBits
    <3>1. /\ Transferred(WriteDataByte(f, dk)).drive = 0
          /\ Transferred(WriteDataByte(f, dk)).totalBits = f.totalBits
      BY DEF Transferred, WriteDataByte, Fdc
    <3>2. /\ Transferred(FormatByte(f, v)).drive = 0
          /\ Transferred(FormatByte(f, v)).totalBits = f.totalBits
      BY DEF Transferred, FormatByte, Fdc
    <3>3. Transferred(f).drive = 0 /\ Transferred(f).totalBits = f.totalBits
      BY DEF Transferred, Fdc
    <3>4. QED
      BY <3>1, <3>2, <3>3 DEF ExecutionPhaseWrite
  <2>4. QED
    BY <2>1, <2>2, <2>3 DEF Write
<1>3. Write(f, dk, v).totalBits % Rev = f.totalBits % Rev
  BY <1>1, <1>2, KeptPosition DEF Fdc
<1>4. MediumAfterWrite(f, dk, v).present = dk.present
  BY DEF MediumAfterWrite, Medium
<1>5. QED
  BY <1>2, <1>3, <1>4

LEMMA OthersPosition ==
  ASSUME NEW f \in Fdc, f.drive = 0, NEW tc \in BOOLEAN, NEW reset \in BOOLEAN
  PROVE  /\ Read(f).drive = 0 /\ Read(f).totalBits = f.totalBits
         /\ ReadStatus(f).drive = 0 /\ ReadStatus(f).totalBits = f.totalBits
         /\ ControlEdges(f, tc, reset).drive = 0
         /\ ControlEdges(f, tc, reset).totalBits % Rev = f.totalBits % Rev
<1>1. Read(f).drive = 0 /\ Read(f).totalBits = f.totalBits
  BY DEF Read, Transferred, ExecutionPhaseRead, ResultsPhaseRead, Fdc
<1>2. ReadStatus(f).drive = 0 /\ ReadStatus(f).totalBits = f.totalBits
  BY DEF ReadStatus, Fdc
<1>3. TerminalCount(f).drive = 0 /\ TerminalCount(f).totalBits = f.totalBits
  BY DEF TerminalCount, Fdc
<1>4. \A g : Reset(g).drive = 0 /\ Reset(g).totalBits = Kept(g.totalBits)
  BY DEF Reset
<1>5. Kept(f.totalBits) % Rev = f.totalBits % Rev
  BY KeptPosition DEF Fdc
<1>6. /\ ControlEdges(f, tc, reset).drive = 0
      /\ ControlEdges(f, tc, reset).totalBits \in {f.totalBits, Kept(f.totalBits)}
  BY <1>3, <1>4 DEF ControlEdges
<1>7. QED
  BY <1>1, <1>2, <1>5, <1>6

\* While a disc is in, the spindle is where the controller will be.
InPhase == disk.present => clocksIndex = Position(fdc, pending, Rotating)
SpindleInv == BoardInv /\ fdc.drive = 0 /\ InPhase

LEMMA SpindleInvInit == BoardInit => SpindleInv
<1>1. BoardInit => fdc.drive = 0 /\ ~disk.present
  BY DEF BoardInit, Init, PowerUp, Reset, NoMedium
<1>2. QED
  BY <1>1, BoardInvInit DEF SpindleInv, InPhase

\* What a step has to provide when it leaves no clocks aside.
LEMMA PhaseCaughtUp ==
  ASSUME BoardInv', fdc'.drive = 0, pending' = 0,
         disk'.present => clocksIndex' = fdc'.totalBits % Rev
  PROVE  SpindleInv'
<1>1. fdc'.totalBits \in Nat
  BY DEF BoardInv, BoardTypeOK, TypeOK, Fdc
<1>2. Position(fdc', 0, Rotating') = fdc'.totalBits % Rev
  BY <1>1 DEF Position
<1>3. QED
  BY <1>2 DEF SpindleInv, InPhase

LEMMA SpindleInvNext ==
  ASSUME \A b \in Bytes : b % 4 = 0
  PROVE  SpindleInv /\ [BoardNext]_boardVars => SpindleInv'
<1> SUFFICES ASSUME SpindleInv, [BoardNext]_boardVars
             PROVE  SpindleInv'
  OBVIOUS
<1>1. BoardInv'
  BY BoardInvNext DEF SpindleInv
<1>2. /\ fdc \in Fdc /\ disk \in Medium /\ motor \in BOOLEAN /\ Consistent(fdc) /\ NotDue(fdc)
      /\ pending \in Nat /\ fdc.drive = 0 /\ InPhase
  BY DEF SpindleInv, BoardInv, BoardTypeOK, TypeOK
<1>3. PICK f \in Fdc, dk \in Medium : /\ f = CurrentFdc /\ dk = CurrentDisk
                                      /\ f.drive = 0
                                      /\ f.totalBits % Rev = Position(fdc, pending, Rotating)
                                      /\ dk.present => disk.present
  BY <1>2, CatchUpFacts, CatchUpPosition DEF CurrentFdc, CurrentDisk, Rotating
<1>4. dk.present => clocksIndex = f.totalBits % Rev
  BY <1>2, <1>3 DEF InPhase
<1>5. ASSUME NEW v \in BoardInput, DataWrite(v)
      PROVE  SpindleInv'
  <2>1. IF f.phase = "IDLE" THEN v \in Commands ELSE v \in Bytes
    BY <1>3, <1>5 DEF BoardInput
  <2>2. /\ fdc'.drive = 0 /\ fdc'.totalBits % Rev = f.totalBits % Rev
        /\ disk'.present = dk.present /\ pending' = 0 /\ clocksIndex' = clocksIndex
    BY <1>3, <1>5, <2>1, WritePosition DEF DataWrite
  <2>3. QED
    BY <1>1, <1>4, <2>2, PhaseCaughtUp
<1>6. CASE DataRead \/ StatusRead \/ PortARead
  <2>1. /\ fdc'.drive = 0 /\ fdc'.totalBits = f.totalBits
        /\ disk' = dk /\ pending' = 0 /\ clocksIndex' = clocksIndex
    BY <1>3, <1>6, OthersPosition DEF DataRead, StatusRead, PortARead
  <2>2. QED
    BY <1>1, <1>4, <2>1, PhaseCaughtUp
<1>7. ASSUME NEW lines \in SUBSET GuestLines, SetPortE6(lines)
      PROVE  SpindleInv'
  <2>1. PICK tc \in BOOLEAN, reset \in BOOLEAN :
          tc = ("TC" \in lines \ portE6) /\ reset = ("RESET" \in lines \ portE6)
    <3>1. ("TC" \in lines \ portE6) \in BOOLEAN /\ ("RESET" \in lines \ portE6) \in BOOLEAN
      OBVIOUS
    <3>2. QED
      BY <3>1
  <2>2. /\ fdc' = ControlEdges(f, tc, reset)
        /\ disk' = dk /\ pending' = 0 /\ clocksIndex' = clocksIndex
    BY <1>3, <1>7, <2>1 DEF SetPortE6
  <2>3. fdc'.drive = 0 /\ fdc'.totalBits % Rev = f.totalBits % Rev
    BY <1>3, <2>2, OthersPosition
  <2>4. QED
    BY <1>1, <1>4, <2>2, <2>3, PhaseCaughtUp
<1>8. CASE BoardReset
  <2>1. fdc'.drive = 0 /\ fdc'.totalBits = Kept(0)
    BY <1>2, <1>8 DEF BoardReset, Reset, Fdc
  <2>2. Kept(0) % Rev = 0
    <3>1. Kept(0) % Rev = 0 % Rev
      BY KeptPosition
    <3> QED
      BY <3>1, GeometryAssumption
  <2>3. pending' = 0 /\ clocksIndex' = 0
    BY <1>8 DEF BoardReset
  <2>4. QED
    BY <1>1, <2>1, <2>2, <2>3, PhaseCaughtUp
<1>9. ASSUME NEW m \in Media, BoardInsert(m)
      PROVE  SpindleInv'
  <2>1. m \in Medium
    BY MediaAssumption
  <2>2. PICK g \in Fdc : g = CatchUp(fdc, m, pending) /\ g.drive = 0
    <3>1. CatchUp(fdc, m, pending) \in Fdc
      BY <1>2, <2>1, CatchUpFacts
    <3>2. CatchUp(fdc, m, pending).drive = 0
      BY <1>2, <2>1, CatchUpPosition
    <3>3. QED
      BY <3>1, <3>2
  <2>3. fdc'.drive = 0 /\ fdc'.totalBits = 0
    BY <1>9, <2>2 DEF BoardInsert, DiskChanged, Fdc
  <2>4. 0 % Rev = 0
    BY GeometryAssumption
  <2>5. pending' = 0 /\ clocksIndex' = 0
    BY <1>9 DEF BoardInsert
  <2>6. QED
    BY <1>1, <2>3, <2>4, <2>5, PhaseCaughtUp
<1>10. CASE BoardEject
  <2>1. ~disk'.present /\ fdc' = fdc
    BY <1>10 DEF BoardEject, NoMedium
  <2>2. QED
    BY <1>1, <1>2, <2>1 DEF SpindleInv, InPhase
<1>11. ASSUME NEW b \in Protection, BoardProtect(b)
       PROVE  SpindleInv'
  <2>1. disk'.present = disk.present
    BY <1>2, <1>11 DEF BoardProtect, Medium
  <2>2. UNCHANGED <<fdc, motor, pending, clocksIndex>>
    BY <1>11 DEF BoardProtect
  <2>3. Rotating' = Rotating
    BY <2>1, <2>2 DEF Rotating, Present
  <2>4. Position(fdc, pending, Rotating)' = Position(fdc, pending, Rotating)
    BY <2>2, <2>3 DEF Position
  <2>5. InPhase'
    BY <1>2, <2>1, <2>2, <2>4 DEF InPhase
  <2>6. QED
    BY <1>1, <1>2, <2>2, <2>5 DEF SpindleInv
<1>12. ASSUME NEW n \in Blocks, TickFDC(n)
       PROVE  SpindleInv'
  <2>1. n \in Nat
    BY TimingAssumption
  <2>2. PICK p \in Nat : p = IF Rotating \/ Deadlines # {} THEN pending + n ELSE 0
    <3>1. pending + n \in Nat
      BY <1>2, <2>1
    <3>2. QED
      BY <3>1
  <2>3. disk.present => Rotating = motor
    BY <1>2 DEF Rotating, Present
  <2>4. disk.present => clocksIndex' = Position(fdc, p, Rotating)
    <3>1. CASE disk.present /\ motor
      <4>1. p = pending + n /\ clocksIndex = (fdc.totalBits + pending) % Rev
        BY <1>2, <2>2, <2>3, <3>1 DEF InPhase, Position
      <4>2. clocksIndex' = (clocksIndex + n) % Rev
        BY <1>12, <3>1 DEF TickFDC, SpindleAfter
      <4>3. PICK a \in Nat : a = fdc.totalBits + pending
        BY <1>2 DEF Fdc
      <4>4. clocksIndex' = (a + n) % Rev
        BY <2>1, <4>1, <4>2, <4>3, PositionMovesOn
      <4>5. a + n = fdc.totalBits + p
        BY <1>2, <2>1, <4>1, <4>3 DEF Fdc
      <4>6. QED
        BY <2>3, <3>1, <4>4, <4>5 DEF Position
    <3>2. CASE disk.present /\ ~motor
      <4>1. clocksIndex' = clocksIndex
        BY <1>12, <3>2 DEF TickFDC, SpindleAfter
      <4>2. QED
        BY <1>2, <2>3, <3>2, <4>1 DEF InPhase, Position
    <3>3. QED
      BY <1>2, <3>1, <3>2
  <2>5. CASE fdc' = CatchUp(fdc, disk, p) /\ disk' = MediumCaughtUp(fdc, disk, p) /\ pending' = 0
    <3>1. /\ fdc'.drive = 0 /\ fdc'.totalBits % Rev = Position(fdc, p, Rotating)
          /\ disk'.present => disk.present
      BY <1>2, <2>5, CatchUpPosition DEF Rotating
    <3>2. QED
      BY <1>1, <2>4, <2>5, <3>1, PhaseCaughtUp
  <2>6. CASE pending' = p /\ UNCHANGED <<fdc, disk>>
    <3>1. Rotating' = Rotating
      BY <1>12, <2>6 DEF TickFDC, Rotating
    <3>2. QED
      BY <1>1, <1>2, <2>4, <2>6, <3>1 DEF SpindleInv, InPhase
  <2>7. QED
    BY <1>12, <2>2, <2>5, <2>6 DEF TickFDC
<1>13. CASE UNCHANGED boardVars
  <2>1. Rotating' = Rotating
    BY <1>13 DEF boardVars, Rotating
  <2>2. QED
    BY <1>1, <1>2, <1>13, <2>1 DEF boardVars, SpindleInv, InPhase
<1>14. QED
  BY <1>5, <1>6, <1>7, <1>8, <1>9, <1>10, <1>11, <1>12, <1>13 DEF BoardNext, Others, CpuTick

-----------------------------------------------------------------------------
(* Ticks add up: clocks that meet no event may as well be delivered with the  *)
(* ones that follow.                                                         *)

\* The fields that time alone moves: the bit clock, the time since the last
\* transfer, the step clocks; and the head, which a seek moves with the last.
Clocked(f, t, s, c) == [f EXCEPT !.totalBits = t, !.sinceTransfer = s, !.stepClocks = c]
AtBits(f, t) == [f EXCEPT !.totalBits = t]
Stepped(f, k, c) == [f EXCEPT !.currentTrack = k, !.stepClocks = c]

\* The clocks have gone by and nothing has come of it yet.
Aged(age, n) == IF age + n < Recovery THEN age + n ELSE Recovery
Gained(n, rotating) == IF rotating THEN n ELSE 0
StepGain(f, n) == IF f.phase2 = "SEEKING" THEN n ELSE 0
Elapsed(f, n, rotating) ==
  Clocked(f, f.totalBits + Gained(n, rotating), Aged(f.sinceTransfer, n),
             f.stepClocks + StepGain(f, n))
Searching(f) == f.pendingFind \/ f.pendingFormat

LEMMA AgedAdds ==
  ASSUME NEW a \in Nat, NEW p \in Nat, NEW n \in Nat
  PROVE  Aged(a, n) \in Nat /\ Aged(Aged(a, p), n) = Aged(a, p + n)
BY TimingAssumption DEF Aged

LEMMA ClockedType ==
  ASSUME NEW f \in Fdc, NEW t \in Nat, NEW s \in Nat, NEW c \in Nat
  PROVE  Clocked(f, t, s, c) \in Fdc
BY DEF Clocked, Fdc

LEMMA ClockedFields ==
  ASSUME NEW f \in Fdc, NEW t, NEW s, NEW c
  PROVE  /\ Clocked(f, t, s, c).totalBits = t /\ Clocked(f, t, s, c).sinceTransfer = s
         /\ Clocked(f, t, s, c).stepClocks = c
BY DEF Clocked, Fdc

LEMMA ClockedKeeps ==
  ASSUME NEW f \in Fdc, NEW t \in Nat, NEW s \in Nat, NEW c \in Nat
  PROVE  /\ Clocked(f, t, s, c).phase2 = f.phase2 /\ Clocked(f, t, s, c).stepTime = f.stepTime
         /\ Clocked(f, t, s, c).currentTrack = f.currentTrack
         /\ Clocked(f, t, s, c).destinationTrack = f.destinationTrack
         /\ Clocked(f, t, s, c).pendingFind = f.pendingFind
         /\ Clocked(f, t, s, c).pendingFormat = f.pendingFormat
         /\ Clocked(f, t, s, c).findCompleteBit = f.findCompleteBit
         /\ Clocked(f, t, s, c).formatCompleteBit = f.formatCompleteBit
BY DEF Clocked, Fdc

LEMMA ClockedSearching ==
  ASSUME NEW f \in Fdc, NEW t \in Nat, NEW s \in Nat, NEW c \in Nat
  PROVE  Searching(Clocked(f, t, s, c)) <=> Searching(f)
BY ClockedKeeps DEF Searching

LEMMA ClockedOver ==
  ASSUME NEW f \in Fdc, NEW t, NEW s, NEW c, NEW u, NEW v, NEW w
  PROVE  Clocked(Clocked(f, t, s, c), u, v, w) = Clocked(f, u, v, w)
BY DEF Clocked, Fdc

LEMMA ClockedBits ==
  ASSUME NEW f \in Fdc, NEW t, NEW s, NEW c, NEW u
  PROVE  /\ AtBits(Clocked(f, t, s, c), u) = Clocked(f, u, s, c)
         /\ Clocked(AtBits(f, u), t, s, c) = Clocked(f, t, s, c)
         /\ AtBits(AtBits(f, t), u) = AtBits(f, u)
BY DEF Clocked, AtBits, Fdc

LEMMA AtBitsFields ==
  ASSUME NEW f \in Fdc, NEW t \in Nat
  PROVE  /\ AtBits(f, t) \in Fdc /\ AtBits(f, t).totalBits = t
         /\ AtBits(f, t).phase2 = f.phase2 /\ AtBits(f, t).stepTime = f.stepTime
         /\ AtBits(f, t).currentTrack = f.currentTrack
         /\ AtBits(f, t).destinationTrack = f.destinationTrack
         /\ AtBits(f, t).stepClocks = f.stepClocks /\ AtBits(f, t).sinceTransfer = f.sinceTransfer
BY DEF AtBits, Fdc

LEMMA AtBitsSearching ==
  ASSUME NEW f \in Fdc, NEW t \in Nat
  PROVE  Searching(AtBits(f, t)) <=> Searching(f)
BY DEF AtBits, Searching, Fdc

LEMMA SteppedOver ==
  ASSUME NEW f \in Fdc, NEW t, NEW s, NEW c, NEW d, NEW k, NEW w
  PROVE  Stepped(Clocked(f, t, s, c), k, w) = Stepped(Clocked(f, t, s, d), k, w)
BY DEF Clocked, Stepped, Fdc

LEMMA SteppedBits ==
  ASSUME NEW f \in Fdc, NEW t, NEW k, NEW w
  PROVE  /\ Stepped(AtBits(f, t), k, w) = AtBits(Stepped(f, k, w), t)
         /\ EndSeek(AtBits(Stepped(f, k, w), t)) = AtBits(EndSeek(Stepped(f, k, w)), t)
BY DEF AtBits, Stepped, EndSeek, Fdc

LEMMA ElapsedType ==
  ASSUME NEW f \in Fdc, NEW n \in Nat, NEW rotating \in BOOLEAN
  PROVE  \E t \in Nat, s \in Nat, c \in Nat :
           /\ Elapsed(f, n, rotating) = Clocked(f, t, s, c)
           /\ t = f.totalBits + Gained(n, rotating)
           /\ s = Aged(f.sinceTransfer, n)
           /\ c = f.stepClocks + StepGain(f, n)
<1>1. f.totalBits \in Nat /\ f.sinceTransfer \in Nat /\ f.stepClocks \in Nat
  BY DEF Fdc
<1>2. /\ f.totalBits + Gained(n, rotating) \in Nat
      /\ f.stepClocks + StepGain(f, n) \in Nat
  BY <1>1 DEF Gained, StepGain
<1>3. Aged(f.sinceTransfer, n) \in Nat
  BY <1>1, AgedAdds
<1>4. QED
  BY <1>2, <1>3 DEF Elapsed

LEMMA ElapsedBits ==
  ASSUME NEW f \in Fdc, NEW n \in Nat, NEW rotating \in BOOLEAN
  PROVE  /\ Elapsed(f, n, rotating) \in Fdc
         /\ Elapsed(f, n, rotating).totalBits = f.totalBits + Gained(n, rotating)
         /\ Searching(Elapsed(f, n, rotating)) <=> Searching(f)
<1>1. PICK t \in Nat, s \in Nat, c \in Nat :
        /\ Elapsed(f, n, rotating) = Clocked(f, t, s, c)
        /\ t = f.totalBits + Gained(n, rotating)
  BY ElapsedType
<1>2. Clocked(f, t, s, c) \in Fdc /\ Clocked(f, t, s, c).totalBits = t
  BY ClockedType, ClockedFields
<1>3. Searching(Clocked(f, t, s, c)) <=> Searching(f)
  BY ClockedSearching
<1>4. QED
  BY <1>1, <1>2, <1>3

LEMMA ElapsedAdds ==
  ASSUME NEW f \in Fdc, NEW p \in Nat, NEW n \in Nat, NEW rotating \in BOOLEAN
  PROVE  Elapsed(Elapsed(f, p, rotating), n, rotating) = Elapsed(f, p + n, rotating)
<1>1. PICK t \in Nat, s \in Nat, c \in Nat :
        /\ Elapsed(f, p, rotating) = Clocked(f, t, s, c)
        /\ t = f.totalBits + Gained(p, rotating)
        /\ s = Aged(f.sinceTransfer, p)
        /\ c = f.stepClocks + StepGain(f, p)
  BY ElapsedType
<1>2. PICK e \in Fdc : e = Clocked(f, t, s, c)
  BY ClockedType
<1>3. e.totalBits = t /\ e.sinceTransfer = s /\ e.stepClocks = c /\ StepGain(e, n) = StepGain(f, n)
  <2>1. e.totalBits = t /\ e.sinceTransfer = s /\ e.stepClocks = c
    BY <1>2, ClockedFields
  <2>2. e.phase2 = f.phase2
    BY <1>2, ClockedKeeps
  <2>3. QED
    BY <2>1, <2>2 DEF StepGain
<1>4. f.totalBits \in Nat /\ f.sinceTransfer \in Nat /\ f.stepClocks \in Nat
  BY DEF Fdc
<1>5. /\ t + Gained(n, rotating) = f.totalBits + Gained(p + n, rotating)
      /\ c + StepGain(f, n) = f.stepClocks + StepGain(f, p + n)
  <2>1. t + Gained(n, rotating) = f.totalBits + Gained(p + n, rotating)
    BY <1>1, <1>4 DEF Gained
  <2>2. c + StepGain(f, n) = f.stepClocks + StepGain(f, p + n)
    BY <1>1, <1>4 DEF StepGain
  <2>3. QED
    BY <2>1, <2>2
<1>6. Aged(s, n) = Aged(f.sinceTransfer, p + n)
  <2>1. PICK a \in Nat : a = f.sinceTransfer
    BY <1>4
  <2>2. Aged(Aged(a, p), n) = Aged(a, p + n)
    BY <2>1, AgedAdds
  <2>3. QED
    BY <1>1, <2>1, <2>2
<1>7. Elapsed(e, n, rotating)
        = Clocked(Clocked(f, t, s, c), t + Gained(n, rotating), Aged(s, n),
                  c + StepGain(f, n))
  BY <1>2, <1>3 DEF Elapsed
<1>8. QED
  BY <1>1, <1>2, <1>5, <1>6, <1>7, ClockedOver DEF Elapsed

\* Rotate moves the bit clock and the age only.
LEMMA RotateForm ==
  ASSUME NEW f \in Fdc, NEW n \in Nat, NEW rotating \in BOOLEAN
  PROVE  Rotate(f, n, rotating)
           = Clocked(f, f.totalBits + Gained(n, rotating), Aged(f.sinceTransfer, n), f.stepClocks)
<1>1. f.totalBits \in Nat
  BY DEF Fdc
<1>2. PICK t \in Nat : /\ t = f.totalBits + Gained(n, rotating)
                       /\ t = (IF rotating THEN f.totalBits + n ELSE f.totalBits)
  BY <1>1 DEF Gained
<1>3. PICK s : /\ s = Aged(f.sinceTransfer, n)
               /\ s = (IF f.sinceTransfer + n < Recovery THEN f.sinceTransfer + n ELSE Recovery)
  BY DEF Aged
<1>4. Rotate(f, n, rotating) = [f EXCEPT !.totalBits = t, !.sinceTransfer = s]
  BY <1>2, <1>3 DEF Rotate, Fdc
<1>5. [f EXCEPT !.totalBits = t, !.sinceTransfer = s] = Clocked(f, t, s, f.stepClocks)
  BY DEF Clocked, Fdc
<1>6. QED
  BY <1>2, <1>3, <1>4, <1>5

\* Where the step clocks and the bit clock stand does not say where a seek goes.
LEMMA HeadMoves ==
  ASSUME NEW e \in Fdc, NEW r \in Fdc, e.currentTrack = r.currentTrack,
         e.destinationTrack = r.destinationTrack
  PROVE  SeekDistance(e) = SeekDistance(r) /\ \A k : HeadAfter(e, k) = HeadAfter(r, k)
BY DEF SeekDistance, HeadAfter

\* What a seek has made of the head after some clocks.
SeekSteps(f, clocks) == clocks \div f.stepTime
SeekNeeds(f) == IF SeekDistance(f) = 0 THEN 1 ELSE SeekDistance(f)
SeekLeaves(f, clocks) == clocks - SeekNeeds(f) * f.stepTime
SeekRests(f, clocks) == clocks % f.stepTime

LEMMA SeekForm ==
  ASSUME NEW f \in Fdc, NEW n \in Nat, f.phase2 = "SEEKING"
  PROVE  MoveToTrackTick(f, n) =
           IF SeekSteps(f, f.stepClocks + n) >= SeekNeeds(f)
             THEN EndSeek(Stepped(f, f.destinationTrack, SeekLeaves(f, f.stepClocks + n)))
             ELSE Stepped(f, HeadAfter(f, SeekSteps(f, f.stepClocks + n)),
                             SeekRests(f, f.stepClocks + n))
BY DEF MoveToTrackTick, SeekSteps, SeekNeeds, SeekLeaves, SeekRests, Stepped

LEMMA SeekAlike ==
  ASSUME NEW e \in Fdc, NEW r \in Fdc, NEW clocks, e.currentTrack = r.currentTrack,
         e.destinationTrack = r.destinationTrack, e.stepTime = r.stepTime
  PROVE  /\ SeekSteps(e, clocks) = SeekSteps(r, clocks) /\ SeekNeeds(e) = SeekNeeds(r)
         /\ SeekLeaves(e, clocks) = SeekLeaves(r, clocks)
         /\ SeekRests(e, clocks) = SeekRests(r, clocks)
BY HeadMoves DEF SeekSteps, SeekNeeds, SeekLeaves, SeekRests

\* A seek is advanced by the sum of what it had waited and what it waits now.
LEMMA SeekFromElapsed ==
  ASSUME NEW f \in Fdc, NEW n \in Nat, NEW rotating \in BOOLEAN
  PROVE  MoveToTrackTick(Rotate(f, n, rotating), n) = MoveToTrackTick(Elapsed(f, n, rotating), 0)
<1>1. PICK t \in Nat, s \in Nat, c \in Nat :
        /\ Elapsed(f, n, rotating) = Clocked(f, t, s, c)
        /\ t = f.totalBits + Gained(n, rotating)
        /\ s = Aged(f.sinceTransfer, n)
        /\ c = f.stepClocks + StepGain(f, n)
  BY ElapsedType
<1>2. PICK b \in Nat : b = f.stepClocks
  BY DEF Fdc
<1>3. PICK r \in Fdc : r = Rotate(f, n, rotating) /\ r = Clocked(f, t, s, b)
  BY <1>1, <1>2, RotateForm, RotateType
<1>4. PICK e \in Fdc : e = Elapsed(f, n, rotating) /\ e = Clocked(f, t, s, c)
  BY <1>1, ClockedType
<1>5. /\ e.phase2 = f.phase2 /\ r.phase2 = f.phase2 /\ e.stepTime = r.stepTime
      /\ e.currentTrack = r.currentTrack /\ e.destinationTrack = r.destinationTrack
      /\ e.stepClocks = c /\ r.stepClocks = b
  <2>1. /\ e.phase2 = f.phase2 /\ e.stepTime = f.stepTime /\ e.currentTrack = f.currentTrack
        /\ e.destinationTrack = f.destinationTrack
    BY <1>4, ClockedKeeps
  <2>2. /\ r.phase2 = f.phase2 /\ r.stepTime = f.stepTime /\ r.currentTrack = f.currentTrack
        /\ r.destinationTrack = f.destinationTrack
    BY <1>3, ClockedKeeps
  <2>3. e.stepClocks = c /\ r.stepClocks = b
    BY <1>3, <1>4, ClockedFields
  <2>4. QED
    BY <2>1, <2>2, <2>3
<1>6. CASE f.phase2 # "SEEKING"
  <2>1. c = b
    BY <1>1, <1>2, <1>6 DEF StepGain
  <2>2. QED
    BY <1>3, <1>4, <1>5, <1>6, <2>1 DEF MoveToTrackTick
<1>7. CASE f.phase2 = "SEEKING"
  <2>1. b + n = c + 0
    BY <1>1, <1>2, <1>7 DEF StepGain
  <2>2. \A k, w : Stepped(e, k, w) = Stepped(r, k, w)
    BY <1>3, <1>4, SteppedOver
  <2>3. \A k : HeadAfter(e, k) = HeadAfter(r, k)
    BY <1>5, HeadMoves
  <2>4. QED
    BY <1>3, <1>4, <1>5, <1>7, <2>1, <2>2, <2>3, SeekForm, SeekAlike
<1>8. QED
  BY <1>6, <1>7

\* What a tick has done before it comes to the format revolution.
Passed(e, dk) == SectorFindTick(MoveToTrackTick(e, 0), dk)

LEMMA TickFromElapsed ==
  ASSUME NEW f \in Fdc, NEW dk, NEW n \in Nat, NEW rotating \in BOOLEAN
  PROVE  Tick(f, dk, n, rotating) = Settle(FormatTick(Passed(Elapsed(f, n, rotating), dk)))
BY SeekFromElapsed DEF Tick, BeforeFormatTick, Passed

LEMMA MediumFromElapsed ==
  ASSUME NEW f \in Fdc, NEW dk, NEW n \in Nat, NEW rotating \in BOOLEAN
  PROVE  MediumAfterTick(f, dk, n, rotating) =
           IF FormatDue(Passed(Elapsed(f, n, rotating), dk))
             THEN SetFormattedTrack(Passed(Elapsed(f, n, rotating), dk), dk) ELSE dk
BY SeekFromElapsed DEF MediumAfterTick, BeforeFormatTick, Passed

\* Without a search a tick moves the head, and nothing else waits.
LEMMA QuietPassed ==
  ASSUME NEW e \in Fdc, ~Searching(e), NEW dk
  PROVE  /\ ~FormatDue(Passed(e, dk))
         /\ Settle(FormatTick(Passed(e, dk))) = AtBits(MoveToTrackTick(e, 0), Kept(e.totalBits))
<1>1. PICK m \in Fdc : m = MoveToTrackTick(e, 0)
  BY MoveToTrackTickType
<1>2. m.totalBits = e.totalBits /\ m.pendingFind = e.pendingFind /\ m.pendingFormat = e.pendingFormat
  BY <1>1 DEF MoveToTrackTick, EndSeek, Fdc
<1>3. Passed(e, dk) = m /\ ~FormatDue(m) /\ FormatTick(m) = m
  BY <1>1, <1>2 DEF Passed, SectorFindTick, FindDue, FormatTick, FormatDue, Searching
<1>4. Settle(m) = AtBits(m, Kept(e.totalBits))
  BY <1>2 DEF Settle, Searching, AtBits, Fdc
<1>5. QED
  BY <1>1, <1>3, <1>4

\* A seek does not look at the bit clock.
LEMMA SeekIgnoresBits ==
  ASSUME NEW e \in Fdc, NEW x \in Nat
  PROVE  MoveToTrackTick(AtBits(e, x), 0) = AtBits(MoveToTrackTick(e, 0), x)
<1>1. PICK b \in Fdc : b = AtBits(e, x)
  BY AtBitsFields
<1>2. /\ b.phase2 = e.phase2 /\ b.stepTime = e.stepTime /\ b.currentTrack = e.currentTrack
      /\ b.destinationTrack = e.destinationTrack /\ b.stepClocks = e.stepClocks
  BY <1>1, AtBitsFields
<1>3. CASE e.phase2 # "SEEKING"
  BY <1>1, <1>2, <1>3 DEF MoveToTrackTick
<1>4. CASE e.phase2 = "SEEKING"
  <2>1. \A k : HeadAfter(b, k) = HeadAfter(e, k)
    BY <1>2, HeadMoves
  <2>2. \A k, w : /\ Stepped(b, k, w) = AtBits(Stepped(e, k, w), x)
                  /\ EndSeek(Stepped(b, k, w)) = AtBits(EndSeek(Stepped(e, k, w)), x)
    BY <1>1, SteppedBits
  <2>3. QED
    BY <1>1, <1>2, <1>4, <2>1, <2>2, SeekForm, SeekAlike
<1>5. QED
  BY <1>3, <1>4

\* Clocks that meet no event only go by.
LEMMA CalmTickForm ==
  ASSUME NEW f \in Fdc, NotDue(f), NEW n \in Nat, NEW rotating \in BOOLEAN, Calm(f, n, rotating),
         NEW dk \in Medium
  PROVE  Tick(f, dk, n, rotating) = Settle(Elapsed(f, n, rotating))
<1>0. PICK t \in Nat, s \in Nat, c \in Nat :
        /\ Elapsed(f, n, rotating) = Clocked(f, t, s, c)
        /\ t = f.totalBits + Gained(n, rotating)
        /\ s = Aged(f.sinceTransfer, n)
        /\ c = f.stepClocks + StepGain(f, n)
  BY ElapsedType
<1>1. PICK e \in Fdc : e = Elapsed(f, n, rotating) /\ e = Clocked(f, t, s, c)
  BY <1>0, ClockedType
<1>2. /\ e.phase2 = f.phase2 /\ e.stepTime = f.stepTime
      /\ f.phase2 = "SEEKING" => e.stepClocks = f.stepClocks + n
      /\ e.pendingFind = f.pendingFind /\ e.pendingFormat = f.pendingFormat
      /\ e.findCompleteBit = f.findCompleteBit /\ e.formatCompleteBit = f.formatCompleteBit
      /\ e.totalBits = f.totalBits + (IF rotating THEN n ELSE 0)
  <2>1. /\ e.phase2 = f.phase2 /\ e.stepTime = f.stepTime
        /\ e.pendingFind = f.pendingFind /\ e.pendingFormat = f.pendingFormat
        /\ e.findCompleteBit = f.findCompleteBit /\ e.formatCompleteBit = f.formatCompleteBit
    BY <1>1, ClockedKeeps
  <2>2. e.totalBits = t /\ e.stepClocks = c
    BY <1>1, ClockedFields
  <2>3. QED
    BY <1>0, <2>1, <2>2 DEF Gained, StepGain
<1>3. MoveToTrackTick(e, 0) = e
  <2>1. CASE e.phase2 # "SEEKING"
    BY <2>1 DEF MoveToTrackTick
  <2>2. CASE e.phase2 = "SEEKING"
    <3>1. PICK went \in Nat, w \in Nat \ {0} : went = e.stepClocks /\ w = e.stepTime /\ went < w
      BY <1>2, <2>2 DEF Calm, Fdc
    <3>2. went + 0 = went /\ went \div w = 0 /\ went % w = went
      BY <3>1
    <3>3. SeekDistance(e) \in Nat /\ HeadAfter(e, 0) = e.currentTrack
      BY GeometryAssumption DEF SeekDistance, HeadAfter, Fdc
    <3>4. PICK needed \in Nat \ {0} : needed = IF SeekDistance(e) = 0 THEN 1 ELSE SeekDistance(e)
      BY <3>3
    <3>5. ~(0 >= needed)
      BY <3>4
    <3>6. [e EXCEPT !.currentTrack = e.currentTrack, !.stepClocks = went] = e
      BY <3>1 DEF Fdc
    <3>7. (e.stepClocks + 0) \div e.stepTime = 0 /\ (e.stepClocks + 0) % e.stepTime = went
      BY <3>1, <3>2
    <3>8. QED
      BY <2>2, <3>3, <3>4, <3>5, <3>6, <3>7 DEF MoveToTrackTick
  <2>3. QED
    BY <2>1, <2>2
<1>4. ~FindDue(e) /\ ~FormatDue(e)
  BY <1>2 DEF FindDue, FormatDue, NotDue, Calm, Fdc
<1>5. Passed(e, dk) = e /\ FormatTick(e) = e
  BY <1>3, <1>4 DEF Passed, SectorFindTick, FormatTick
<1>6. Tick(f, dk, n, rotating) = Settle(FormatTick(Passed(Elapsed(f, n, rotating), dk)))
  BY TickFromElapsed
<1>7. Settle(FormatTick(Passed(Elapsed(f, n, rotating), dk))) = Settle(e)
  BY <1>1, <1>5
<1>8. QED
  BY <1>1, <1>6, <1>7

\* Two ticks, the first without an event, are one.
LEMMA TicksAdd ==
  ASSUME NEW f \in Fdc, NotDue(f), NEW p \in Nat, NEW n \in Nat, NEW rotating \in BOOLEAN,
         Calm(f, p, rotating), NEW dk \in Medium
  PROVE  /\ Tick(Tick(f, dk, p, rotating), dk, n, rotating) = Tick(f, dk, p + n, rotating)
         /\ MediumAfterTick(Tick(f, dk, p, rotating), dk, n, rotating)
              = MediumAfterTick(f, dk, p + n, rotating)
<1>1. p + n \in Nat
  OBVIOUS
<1>2. PICK e \in Fdc, h \in Fdc : /\ e = Elapsed(f, p, rotating) /\ h = Elapsed(f, p + n, rotating)
                                  /\ (Searching(e) <=> Searching(f)) /\ (Searching(h) <=> Searching(f))
  BY <1>1, ElapsedBits
<1>3. PICK g \in Fdc : g = Settle(e) /\ g = Tick(f, dk, p, rotating)
  BY <1>2, CalmTickForm, SettleType
<1>4. h = Elapsed(e, n, rotating)
  BY <1>2, ElapsedAdds
<1>5. CASE Searching(f)
  <2>1. g = e
    BY <1>2, <1>3, <1>5 DEF Settle, Searching
  <2>2. QED
    BY <1>1, <1>2, <1>3, <1>4, <2>1, TickFromElapsed, MediumFromElapsed
<1>6. CASE ~Searching(f)
  <2>1. PICK a \in Nat, k \in Nat : a = e.totalBits /\ k = Gained(n, rotating)
    BY DEF Fdc, Gained
  <2>2. PICK pos \in Nat : pos = Kept(a)
    BY <2>1, KeptType
  <2>3. g = AtBits(e, pos)
    BY <1>2, <1>3, <1>6, <2>1, <2>2 DEF Settle, Searching, AtBits
  <2>4. /\ g.totalBits = pos /\ g.phase2 = e.phase2 /\ g.stepClocks = e.stepClocks
        /\ g.sinceTransfer = e.sinceTransfer /\ StepGain(g, n) = StepGain(e, n)
    BY <2>3, AtBitsFields DEF StepGain
  <2>5. PICK x \in Nat, y \in Nat : x = pos + k /\ y = a + k
    BY <2>1, <2>2
  <2>6. PICK s, c : s = Aged(e.sinceTransfer, n) /\ c = e.stepClocks + StepGain(e, n)
    OBVIOUS
  <2>7. Elapsed(g, n, rotating) = Clocked(AtBits(e, pos), x, s, c) /\ h = Clocked(e, y, s, c)
    BY <1>4, <2>1, <2>3, <2>4, <2>5, <2>6 DEF Elapsed
  <2>8. Elapsed(g, n, rotating) = AtBits(h, x)
    BY <2>7, ClockedBits
  <2>9. PICK b \in Fdc : b = AtBits(h, x)
    BY AtBitsFields
  <2>10. ~Searching(b) /\ ~Searching(h) /\ b.totalBits = x
    BY <1>2, <1>6, <2>9, AtBitsFields, AtBitsSearching
  <2>11. h.totalBits = y
    <3>1. Elapsed(e, n, rotating).totalBits = e.totalBits + Gained(n, rotating)
      BY <1>2, ElapsedBits
    <3>2. QED
      BY <1>4, <2>1, <2>5, <3>1
  <2>12. Kept(x) = Kept(y)
    BY <2>1, <2>2, <2>5, KeptAdds
  <2>13. PICK m \in Fdc : m = MoveToTrackTick(h, 0)
    BY MoveToTrackTickType
  <2>14. MoveToTrackTick(b, 0) = AtBits(m, x)
    BY <2>9, <2>13, SeekIgnoresBits
  <2>15. AtBits(AtBits(m, x), Kept(x)) = AtBits(m, Kept(y))
    BY <2>12, ClockedBits
  <2>16. Settle(FormatTick(Passed(b, dk))) = Settle(FormatTick(Passed(h, dk)))
    BY <2>10, <2>11, <2>13, <2>14, <2>15, QuietPassed
  <2>17. Tick(g, dk, n, rotating) = Tick(f, dk, p + n, rotating)
    BY <1>1, <1>2, <2>8, <2>9, <2>16, TickFromElapsed
  <2>18. /\ MediumAfterTick(g, dk, n, rotating) = dk
         /\ MediumAfterTick(f, dk, p + n, rotating) = dk
    BY <1>1, <1>2, <1>3, <2>8, <2>9, <2>10, QuietPassed, MediumFromElapsed
  <2>19. QED
    BY <1>3, <2>17, <2>18
<1>7. QED
  BY <1>5, <1>6

-----------------------------------------------------------------------------
(* Immediate is this board's NEC765 with two of its variables replaced: its   *)
(* operators, which look at no variable, are the same.                       *)

LEMMA SameWrite ==
  ASSUME NEW f, NEW dk, NEW v
  PROVE  /\ Immediate!Write(f, dk, v) = Write(f, dk, v)
         /\ Immediate!MediumAfterWrite(f, dk, v) = MediumAfterWrite(f, dk, v)
         /\ Immediate!InBuffer(f, dk) <=> InBuffer(f, dk)
BY DEF Write, MediumAfterWrite, Immediate!Write, Immediate!MediumAfterWrite,
       IdlePhaseWrite, CommandPhaseWrite, ExecutionPhaseWrite, Transferred, FormatByte, WriteDataByte,
       Writable, SetupMoveToTrack, FindSector, NextSector, ForwardDistance, ReadSector, EnterResult,
       HasSector, SectorsUnder, SectorLength, NominalSize, IdamBit, Present, ReadOnly, Kept, InBuffer,
       Immediate!IdlePhaseWrite, Immediate!CommandPhaseWrite, Immediate!ExecutionPhaseWrite,
       Immediate!Transferred, Immediate!FormatByte, Immediate!WriteDataByte, Immediate!Writable,
       Immediate!SetupMoveToTrack, Immediate!FindSector, Immediate!NextSector,
       Immediate!ForwardDistance, Immediate!ReadSector, Immediate!EnterResult, Immediate!HasSector,
       Immediate!SectorsUnder, Immediate!NominalSize, Immediate!IdamBit, Immediate!Present,
       Immediate!ReadOnly, Immediate!SectorLength, Immediate!Kept, Immediate!InBuffer

LEMMA SameSeek ==
  ASSUME NEW f, NEW n
  PROVE  Immediate!MoveToTrackTick(f, n) = MoveToTrackTick(f, n)
BY DEF MoveToTrackTick, EndSeek, SeekDistance, HeadAfter, Immediate!MoveToTrackTick,
       Immediate!EndSeek, Immediate!SeekDistance, Immediate!HeadAfter

LEMMA SameFind ==
  ASSUME NEW f, NEW dk
  PROVE  Immediate!SectorFindTick(f, dk) = SectorFindTick(f, dk)
BY DEF SectorFindTick, FindDue, SectorsUnder, Present, EnterResult, Immediate!SectorFindTick,
       Immediate!FindDue, Immediate!SectorsUnder, Immediate!Present, Immediate!EnterResult

LEMMA SameFormat ==
  ASSUME NEW f, NEW dk
  PROVE  /\ Immediate!FormatDue(f) <=> FormatDue(f)
         /\ Immediate!FormatTick(f) = FormatTick(f)
         /\ Immediate!SetFormattedTrack(f, dk) = SetFormattedTrack(f, dk)
BY DEF FormatTick, FormatDue, EnterResult, SetFormattedTrack, Immediate!FormatTick,
       Immediate!FormatDue, Immediate!EnterResult, Immediate!SetFormattedTrack

LEMMA SameEnds ==
  ASSUME NEW f, NEW n, NEW rotating
  PROVE  /\ Immediate!Rotate(f, n, rotating) = Rotate(f, n, rotating)
         /\ Immediate!Settle(f) = Settle(f)
BY DEF Rotate, Settle, Kept, Immediate!Rotate, Immediate!Settle, Immediate!Kept

LEMMA SameTick ==
  ASSUME NEW f, NEW dk, NEW n, NEW rotating
  PROVE  /\ Immediate!Tick(f, dk, n, rotating) = Tick(f, dk, n, rotating)
         /\ Immediate!MediumAfterTick(f, dk, n, rotating) = MediumAfterTick(f, dk, n, rotating)
<1>1. Immediate!BeforeFormatTick(f, dk, n, rotating) = BeforeFormatTick(f, dk, n, rotating)
  BY SameSeek, SameFind, SameEnds DEF BeforeFormatTick, Immediate!BeforeFormatTick
<1>2. QED
  BY <1>1, SameFormat, SameEnds DEF Tick, MediumAfterTick, Immediate!Tick, Immediate!MediumAfterTick

LEMMA SameReads ==
  ASSUME NEW f
  PROVE  /\ Immediate!Read(f) = Read(f)
         /\ Immediate!ReadStatus(f) = ReadStatus(f)
BY DEF Read, ReadStatus, ExecutionPhaseRead, ResultsPhaseRead, ResultLength, Transferred,
       Immediate!Read, Immediate!ReadStatus, Immediate!ExecutionPhaseRead,
       Immediate!ResultsPhaseRead, Immediate!ResultLength, Immediate!Transferred

LEMMA SameControl ==
  ASSUME NEW f, NEW tc, NEW reset, NEW t
  PROVE  /\ Immediate!ControlEdges(f, tc, reset) = ControlEdges(f, tc, reset)
         /\ Immediate!Reset(f) = Reset(f)
         /\ Immediate!DiskChanged(f) = DiskChanged(f)
         /\ Immediate!PowerUp(t) = PowerUp(t)
         /\ Immediate!NoMedium = NoMedium
BY DEF ControlEdges, Reset, Kept, Immediate!Kept, TerminalCount, DiskChanged, PowerUp, NoMedium, Immediate!ControlEdges,
       Immediate!Reset, Immediate!TerminalCount, Immediate!DiskChanged, Immediate!PowerUp, Immediate!NoMedium

-----------------------------------------------------------------------------
(* Laziness: what the board shows with the clocks it has set aside.           *)

\* Until the clocks set aside are delivered, a step or a search has not yet come
\* due; so whatever the disc, as long as it turns as it did, they bring the same.
LEMMA SetAsideIsCalm ==
  ASSUME BoardInv, pending # 0
  PROVE  \E rotating \in BOOLEAN : rotating = Rotating /\ Calm(fdc, pending, rotating)
<1>1. /\ fdc \in Fdc /\ disk \in Medium /\ motor \in BOOLEAN /\ pending \in Nat
      /\ \A d \in Deadlines : pending < d
  BY DEF BoardInv, BoardTypeOK, TypeOK, SetAside
<1>2. PICK rotating \in BOOLEAN : rotating = Rotating
  BY <1>1 DEF Rotating, Present, Medium
<1>3. Calm(fdc, pending, rotating)
  BY <1>1, <1>2 DEF Calm, Deadlines, Until, Fdc
<1>4. QED
  BY <1>2, <1>3

LEMMA ClockedDrive ==
  ASSUME NEW f \in Fdc, NEW t, NEW s, NEW c
  PROVE  /\ Clocked(f, t, s, c).drive = f.drive /\ Clocked(f, t, s, c).stepTime = f.stepTime
         /\ Clocked(f, t, s, c).currentTrack = f.currentTrack
BY DEF Clocked, Fdc

LEMMA ElapsedKeeps ==
  ASSUME NEW f \in Fdc, NEW n \in Nat, NEW rotating \in BOOLEAN
  PROVE  /\ Settle(Elapsed(f, n, rotating)).drive = f.drive
         /\ Settle(Elapsed(f, n, rotating)).stepTime = f.stepTime
         /\ Settle(Elapsed(f, n, rotating)).currentTrack = f.currentTrack
<1>1. PICK t, s, c : Elapsed(f, n, rotating) = Clocked(f, t, s, c)
  BY ElapsedType
<1>2. PICK g \in Fdc : g = Elapsed(f, n, rotating)
  BY ElapsedBits
<1>3. g.drive = f.drive /\ g.stepTime = f.stepTime /\ g.currentTrack = f.currentTrack
  BY <1>1, <1>2, ClockedDrive
<1>4. Settle(g).drive = g.drive /\ Settle(g).stepTime = g.stepTime
      /\ Settle(g).currentTrack = g.currentTrack
  BY DEF Settle, Fdc
<1>5. QED
  BY <1>2, <1>3, <1>4

LEMMA LateMedium ==
  ASSUME BoardInv, NEW m \in Medium, (motor /\ Present(m, fdc.drive)) <=> Rotating
  PROVE  /\ CatchUp(fdc, m, pending) = CurrentFdc /\ MediumCaughtUp(fdc, m, pending) = m
         /\ CurrentDisk = disk
         /\ CurrentFdc.drive = fdc.drive /\ CurrentFdc.stepTime = fdc.stepTime
         /\ CurrentFdc.currentTrack = fdc.currentTrack
<1>1. /\ fdc \in Fdc /\ NotDue(fdc) /\ disk \in Medium /\ motor \in BOOLEAN /\ pending \in Nat
  BY DEF BoardInv, BoardTypeOK, TypeOK
<1>2. CASE pending = 0
  BY <1>2, NothingPasses DEF CurrentFdc, CurrentDisk
<1>3. CASE pending # 0
  <2>1. PICK rotating \in BOOLEAN : rotating = Rotating /\ Calm(fdc, pending, rotating)
    BY <1>3, SetAsideIsCalm
  <2>2. rotating = (motor /\ Present(m, fdc.drive)) /\ rotating = (motor /\ Present(disk, fdc.drive))
    BY <1>1, <2>1 DEF Rotating, Present, Medium
  <2>3. /\ CatchUp(fdc, m, pending) = Tick(fdc, m, pending, rotating)
        /\ MediumCaughtUp(fdc, m, pending) = MediumAfterTick(fdc, m, pending, rotating)
        /\ CurrentFdc = Tick(fdc, disk, pending, rotating)
        /\ CurrentDisk = MediumAfterTick(fdc, disk, pending, rotating)
    BY <1>3, <2>2 DEF CurrentFdc, CurrentDisk, CatchUp, MediumCaughtUp
  <2>4. /\ MediumAfterTick(fdc, m, pending, rotating) = m
        /\ MediumAfterTick(fdc, disk, pending, rotating) = disk
    BY <1>1, <2>1, CalmTick
  <2>5. /\ Tick(fdc, m, pending, rotating) = Settle(Elapsed(fdc, pending, rotating))
        /\ Tick(fdc, disk, pending, rotating) = Settle(Elapsed(fdc, pending, rotating))
    BY <1>1, <2>1, CalmTickForm
  <2>6. QED
    BY <1>1, <2>3, <2>4, <2>5, ElapsedKeeps
<1>4. QED
  BY <1>2, <1>3

LEMMA CurrentKeeps ==
  ASSUME BoardInv
  PROVE  /\ CurrentDisk = disk
         /\ CurrentFdc.drive = fdc.drive /\ CurrentFdc.stepTime = fdc.stepTime
         /\ CurrentFdc.currentTrack = fdc.currentTrack
BY LateMedium DEF BoardInv, BoardTypeOK, TypeOK, Rotating

\* A block of clocks that joins those set aside is a tick of the controller that
\* lives in the present.
LEMMA CatchUpAdds ==
  ASSUME BoardInv, NEW n \in Nat \ {0}
  PROVE  /\ CatchUp(fdc, disk, pending + n) = Tick(CurrentFdc, CurrentDisk, n, Rotating)
         /\ MediumCaughtUp(fdc, disk, pending + n)
              = MediumAfterTick(CurrentFdc, CurrentDisk, n, Rotating)
<1>1. /\ fdc \in Fdc /\ NotDue(fdc) /\ disk \in Medium /\ motor \in BOOLEAN /\ pending \in Nat
  BY DEF BoardInv, BoardTypeOK, TypeOK
<1>2. pending + n # 0 /\ n # 0 /\ n \in Nat
  BY <1>1
<1>3. /\ CatchUp(fdc, disk, pending + n) = Tick(fdc, disk, pending + n, Rotating)
      /\ MediumCaughtUp(fdc, disk, pending + n) = MediumAfterTick(fdc, disk, pending + n, Rotating)
  BY <1>2 DEF CatchUp, MediumCaughtUp, Rotating
<1>4. CASE pending = 0
  <2>1. pending + n = n /\ CurrentFdc = fdc /\ CurrentDisk = disk
    BY <1>2, <1>4, NothingPasses DEF CurrentFdc, CurrentDisk
  <2>2. QED
    BY <1>3, <2>1
<1>5. CASE pending # 0
  <2>1. PICK rotating \in BOOLEAN : rotating = Rotating /\ Calm(fdc, pending, rotating)
    BY <1>5, SetAsideIsCalm
  <2>2. CurrentFdc = Tick(fdc, disk, pending, rotating) /\ CurrentDisk = disk
    BY <1>5, <2>1, CurrentKeeps DEF CurrentFdc, CatchUp, Rotating
  <2>3. /\ Tick(Tick(fdc, disk, pending, rotating), disk, n, rotating)
             = Tick(fdc, disk, pending + n, rotating)
        /\ MediumAfterTick(Tick(fdc, disk, pending, rotating), disk, n, rotating)
             = MediumAfterTick(fdc, disk, pending + n, rotating)
    BY <1>1, <1>2, <2>1, TicksAdd
  <2>4. QED
    BY <1>3, <2>1, <2>2, <2>3
<1>6. QED
  BY <1>4, <1>5

\* While a disc is in, clocks are set aside only for what they will bring about.
Waiting == pending # 0 => Rotating \/ Deadlines # {} \/ ~disk.present
LazyInv == BoardInv /\ Waiting

LEMMA LazyInvNext == LazyInv /\ [BoardNext]_boardVars => LazyInv'
<1> SUFFICES ASSUME LazyInv, [BoardNext]_boardVars
             PROVE  LazyInv'
  OBVIOUS
<1>1. BoardInv /\ BoardInv' /\ Waiting
  BY BoardInvNext DEF LazyInv
<1>2. pending' = 0 => Waiting'
  BY DEF Waiting
<1>3. ASSUME BoardEject
      PROVE  Waiting'
  BY <1>3 DEF BoardEject, NoMedium, Waiting
<1>4. ASSUME NEW b \in Protection, BoardProtect(b)
      PROVE  Waiting'
  <2>1. disk'.present = disk.present
    BY <1>1, <1>4 DEF BoardProtect, Medium, BoardInv, BoardTypeOK, TypeOK
  <2>2. (Rotating' <=> Rotating) /\ Deadlines' = Deadlines /\ pending' = pending
    BY <1>4, <2>1 DEF BoardProtect, Deadlines, Rotating, Present, Until
  <2>3. QED
    BY <1>1, <2>1, <2>2 DEF Waiting
<1>5. ASSUME NEW n \in Blocks, TickFDC(n), pending' # 0
      PROVE  Waiting'
  <2>1. Rotating \/ Deadlines # {}
    BY <1>5 DEF TickFDC
  <2>2. UNCHANGED <<fdc, disk, motor>>
    BY <1>5 DEF TickFDC
  <2>3. Rotating' = Rotating /\ Deadlines' = Deadlines
    BY <2>2 DEF Rotating, Deadlines
  <2>4. QED
    BY <2>1, <2>3 DEF Waiting
<1>6. ASSUME UNCHANGED boardVars
      PROVE  Waiting'
  BY <1>1, <1>6 DEF boardVars, Waiting, Rotating, Deadlines
<1>7. Waiting'
  BY <1>2, <1>3, <1>4, <1>5, <1>6
     DEF BoardNext, Others, CpuTick, DataWrite, DataRead, StatusRead, PortARead, SetPortE6,
         BoardReset, BoardInsert
<1>8. QED
  BY <1>1, <1>7 DEF LazyInv

LEMMA LazyInvHolds == BoardSpec => []LazyInv
<1>1. BoardInit => LazyInv
  BY BoardInvInit DEF LazyInv, Waiting, BoardInit
<1>2. QED
  BY <1>1, LazyInvNext, PTL DEF BoardSpec

\* What a step that leaves no clocks aside shows of the controller.
LEMMA NothingLeft ==
  ASSUME pending' = 0
  PROVE  CurrentFdc' = fdc' /\ CurrentDisk' = disk'
BY DEF CurrentFdc, CurrentDisk, CatchUp, MediumCaughtUp

LEMMA ResetAlike ==
  ASSUME NEW f \in Fdc, NEW g \in Fdc, f.currentTrack = g.currentTrack, f.stepTime = g.stepTime
  PROVE  Reset([f EXCEPT !.totalBits = 0]) = Reset([g EXCEPT !.totalBits = 0])
BY DEF Reset, Fdc

Seen == <<CurrentFdc, CurrentDisk, motor>>

LEMMA LazyStep ==
  ASSUME LazyInv, [BoardNext]_boardVars
  PROVE  [Immediate!Next \/ MediumUnannounced \/ ClocksDropped]_Seen
<1>1. /\ BoardInv /\ fdc \in Fdc /\ NotDue(fdc) /\ Consistent(fdc) /\ disk \in Medium
      /\ motor \in BOOLEAN /\ pending \in Nat
  BY DEF LazyInv, BoardInv, BoardTypeOK, TypeOK
<1>2. CurrentFdc \in Fdc /\ CurrentDisk = disk
  BY <1>1, CurrentKeeps, CatchUpFacts DEF CurrentFdc
<1>3. ASSUME NEW v \in BoardInput, DataWrite(v)
      PROVE  Immediate!Next
  <2>1. v \in Immediate!Input
    BY <1>3 DEF BoardInput, Immediate!Input
  <2>2. Immediate!GuestWrite(v)
    BY <1>3, NothingLeft, SameWrite DEF DataWrite, Immediate!GuestWrite
  <2>3. QED
    BY <2>1, <2>2 DEF Immediate!Next
<1>4. CASE DataRead
  <2>1. Immediate!GuestRead
    BY <1>4, NothingLeft, SameReads DEF DataRead, Immediate!GuestRead
  <2>2. QED
    BY <2>1 DEF Immediate!Next
<1>5. CASE StatusRead
  <2>1. Immediate!GuestReadStatus
    BY <1>5, NothingLeft, SameReads DEF StatusRead, Immediate!GuestReadStatus
  <2>2. QED
    BY <2>1 DEF Immediate!Next
<1>6. CASE PortARead
  BY <1>6, NothingLeft DEF PortARead, Seen
<1>7. ASSUME NEW lines \in SUBSET GuestLines, SetPortE6(lines)
      PROVE  Immediate!Next
  <2>1. PICK tc \in BOOLEAN, reset \in BOOLEAN :
          tc = ("TC" \in lines \ portE6) /\ reset = ("RESET" \in lines \ portE6)
    <3>1. ("TC" \in lines \ portE6) \in BOOLEAN /\ ("RESET" \in lines \ portE6) \in BOOLEAN
      OBVIOUS
    <3>2. QED
      BY <3>1
  <2>2. /\ fdc' = ControlEdges(CurrentFdc, tc, reset) /\ disk' = CurrentDisk /\ pending' = 0
        /\ motor' \in BOOLEAN
    BY <1>7, <2>1 DEF SetPortE6
  <2>3. Immediate!GuestControl(motor', tc, reset)
    BY <2>2, NothingLeft, SameControl DEF Immediate!GuestControl
  <2>4. QED
    BY <2>1, <2>2, <2>3 DEF Immediate!Next
<1>8. CASE BoardReset
  <2>1. Reset([fdc EXCEPT !.totalBits = 0]) = Reset([CurrentFdc EXCEPT !.totalBits = 0])
    BY <1>1, <1>2, CurrentKeeps, ResetAlike
  <2>2. Immediate!MachineReset
    BY <1>2, <1>8, <2>1, NothingLeft, SameControl DEF BoardReset, Immediate!MachineReset
  <2>3. QED
    BY <2>2 DEF Immediate!Next
<1>9. ASSUME NEW m \in Media, BoardInsert(m), ~MediumUnannounced
      PROVE  Immediate!Next
  <2>1. m \in Medium /\ m.present
    BY MediaAssumption
  <2>2. ~motor \/ disk.present
    BY <1>9 DEF MediumUnannounced
  <2>3. (motor /\ Present(m, fdc.drive)) <=> Rotating
    BY <2>1, <2>2 DEF Rotating, Present
  <2>4. fdc' = DiskChanged(CurrentFdc) /\ disk' = m /\ pending' = 0 /\ motor' = motor
    BY <1>1, <1>9, <2>1, <2>3, LateMedium DEF BoardInsert
  <2>5. Immediate!InsertMedium(m)
    BY <2>4, NothingLeft, SameControl DEF Immediate!InsertMedium
  <2>6. QED
    BY <2>5 DEF Immediate!Next
<1>10. CASE BoardEject
  BY <1>10 DEF MediumUnannounced
<1>11. ASSUME NEW b \in Protection, BoardProtect(b)
       PROVE  Immediate!Next
  <2>1. PICK d \in Medium : d = [disk EXCEPT !.readOnly = b] /\ d.present = disk.present
    <3>1. disk' \in Medium /\ disk'.present = disk.present /\ disk' = [disk EXCEPT !.readOnly = b]
      BY <1>1, <1>11, MediaAssumption DEF BoardProtect, Medium
    <3>2. QED
      BY <3>1
  <2>2. (motor /\ Present(d, fdc.drive)) <=> Rotating
    BY <2>1 DEF Rotating, Present
  <2>3. CatchUp(fdc, d, pending) = CurrentFdc /\ MediumCaughtUp(fdc, d, pending) = d
    BY <1>1, <2>2, LateMedium
  <2>4. fdc' = fdc /\ disk' = d /\ pending' = pending /\ motor' = motor
    BY <1>11, <2>1 DEF BoardProtect
  <2>5. CurrentFdc' = CurrentFdc /\ CurrentDisk' = d
    BY <2>3, <2>4 DEF CurrentFdc, CurrentDisk, CatchUp, MediumCaughtUp
  <2>6. Immediate!SetWriteProtect(b)
    BY <1>2, <2>1, <2>4, <2>5 DEF Immediate!SetWriteProtect
  <2>7. QED
    BY <2>6 DEF Immediate!Next
<1>12. ASSUME NEW n \in Blocks, TickFDC(n), ~ClocksDropped
       PROVE  Immediate!Next \/ UNCHANGED Seen
  <2>1. n \in Nat \ {0} /\ motor' = motor
    BY <1>12, TimingAssumption DEF TickFDC
  <2>2. CASE Rotating \/ Deadlines # {}
    <3>1. PICK p : p = pending + n
      OBVIOUS
    <3>2. \/ fdc' = CatchUp(fdc, disk, p) /\ disk' = MediumCaughtUp(fdc, disk, p) /\ pending' = 0
          \/ pending' = p /\ UNCHANGED <<fdc, disk>>
      BY <1>12, <2>2, <3>1 DEF TickFDC
    <3>3. CurrentFdc' = CatchUp(fdc, disk, p) /\ CurrentDisk' = MediumCaughtUp(fdc, disk, p)
      <4>1. CASE fdc' = CatchUp(fdc, disk, p) /\ disk' = MediumCaughtUp(fdc, disk, p) /\ pending' = 0
        BY <4>1, NothingLeft
      <4>2. CASE pending' = p /\ UNCHANGED <<fdc, disk>>
        BY <2>1, <4>2 DEF CurrentFdc, CurrentDisk, CatchUp, MediumCaughtUp
      <4>3. QED
        BY <3>2, <4>1, <4>2
    <3>4. /\ CurrentFdc' = Tick(CurrentFdc, CurrentDisk, n, Rotating)
          /\ CurrentDisk' = MediumAfterTick(CurrentFdc, CurrentDisk, n, Rotating)
      BY <1>1, <2>1, <3>1, <3>3, CatchUpAdds
    <3>5. Immediate!Rotating = Rotating
      BY <1>1, CurrentKeeps DEF Rotating, Immediate!Rotating, Present, Immediate!Present
    <3>6. Immediate!Clock(n)
      BY <2>1, <3>4, <3>5, SameTick DEF Immediate!Clock
    <3>7. QED
      BY <3>6 DEF Immediate!Next
  <2>3. CASE ~Rotating /\ Deadlines = {}
    <3>1. fdc' = fdc /\ disk' = disk /\ pending' = 0
      BY <1>12, <2>3, NothingPasses DEF TickFDC
    <3>2. pending = 0
      BY <1>12, <2>3 DEF LazyInv, Waiting, ClocksDropped, CpuTick
    <3>3. QED
      BY <2>1, <3>1, <3>2, NothingLeft, NothingPasses DEF Seen, CurrentFdc, CurrentDisk
  <2>4. QED
    BY <2>2, <2>3
<1>13. CASE UNCHANGED boardVars
  BY <1>13 DEF boardVars, Seen, CurrentFdc, CurrentDisk, CatchUp, MediumCaughtUp
<1>14. QED
  BY <1>3, <1>4, <1>5, <1>6, <1>7, <1>8, <1>9, <1>10, <1>11, <1>12, <1>13
     DEF BoardNext, Others, CpuTick

-----------------------------------------------------------------------------
(* The theorems.                                                             *)

\* The board's lines, its spindle and the clocks it sets aside keep their types,
\* and so do the controller and the medium that it feeds late.
THEOREM BoardTypeCorrect == BoardSpec => []BoardTypeOK
<1>1. BoardInv => BoardTypeOK
  BY DEF BoardInv
<1>2. QED
  BY <1>1, BoardInvHolds, PTL

\* A controller that is fed its clocks late, and all at once, still ends every
\* command that it shows as busy, keeps FORMAT to itself and, if the guest and the
\* media name no length that is too long, moves the bytes the CPU writes and reads
\* inside the sector buffer (SF7000.cpp:116-124, 334-401).
THEOREM BoardKeepsProtocol ==
  BoardSpec => []( /\ BusyHasCause /\ FormatOwnsController
                   /\ LengthsFit => InBuffer(CurrentFdc, CurrentDisk) )
<1>1. BoardLengths => BusyHasCause /\ FormatOwnsController
  BY DEF BoardLengths, BoardInv, Consistent, BusyHasCause, FormatOwnsController
<1>2. ASSUME BoardLengths, LengthsFit
      PROVE  InBuffer(CurrentFdc, CurrentDisk)
  <2>1. /\ fdc \in Fdc /\ disk \in Medium /\ motor \in BOOLEAN /\ Consistent(fdc) /\ NotDue(fdc)
        /\ pending \in Nat /\ ShortFdc(fdc) /\ ShortMedium(disk)
    BY <1>2 DEF BoardLengths, AllShort, BoardInv, BoardTypeOK, TypeOK
  <2>2. /\ CurrentFdc \in Fdc /\ Consistent(CurrentFdc) /\ ShortFdc(CurrentFdc)
        /\ CurrentDisk \in Medium /\ ShortMedium(CurrentDisk)
    BY <2>1, CatchUpFacts, CatchUpShort DEF CurrentFdc, CurrentDisk
  <2> QED
    BY <2>2, ShortStaysInBuffer
<1>3. BoardLengths => (LengthsFit => InBuffer(CurrentFdc, CurrentDisk))
  BY <1>2
<1> QED
  BY <1>1, <1>3, BoardLengthsHold, PTL

\* No event waits in the clocks set aside: were they delivered now, the interrupt
\* line, the head, the phases and the disc would stay as they are (SF7000.cpp:334-401).
THEOREM NothingWaits == BoardSpec => []NothingOverdue
<1>1. ASSUME BoardInv
      PROVE  NothingOverdue
  <2>1. fdc \in Fdc /\ disk \in Medium /\ motor \in BOOLEAN /\ NotDue(fdc) /\ pending \in Nat
    BY <1>1 DEF BoardInv, BoardTypeOK, TypeOK
  <2>2. CASE pending = 0
    BY <2>2, NothingPasses DEF NothingOverdue, CurrentFdc, CurrentDisk
  <2>3. CASE pending # 0
    <3>1. PICK rotating \in BOOLEAN : rotating = Rotating
      BY <2>1 DEF Rotating, Present, Medium
    <3>2. \A d \in Deadlines : pending < d
      BY <1>1, <2>3 DEF BoardInv, SetAside
    <3>3. Calm(fdc, pending, rotating)
      BY <2>1, <2>3, <3>1, <3>2 DEF Calm, Deadlines, Until, Fdc
    <3>4. /\ CurrentFdc = Tick(fdc, disk, pending, rotating)
          /\ CurrentDisk = MediumAfterTick(fdc, disk, pending, rotating)
      BY <2>3, <3>1 DEF CurrentFdc, CurrentDisk, CatchUp, MediumCaughtUp, Rotating
    <3>5. QED
      BY <2>1, <3>3, <3>4, CalmTick DEF NothingOverdue
  <2>4. QED
    BY <2>2, <2>3
<1>2. QED
  BY <1>1, BoardInvHolds, PTL

\* The INDEX position of the spindle and the bit clock of the controller are one,
\* whatever is set aside, switched or changed, as long as the guest addresses the
\* drive that has the disc (SF7000.cpp:334-401, FDC765_DiskChanged).
THEOREM IndexStaysInPhase ==
  ASSUME \A b \in Bytes : b % 4 = 0
  PROVE  BoardSpec => []IndexPhaseCommon
<1>1. SpindleInv /\ [BoardNext]_boardVars => SpindleInv'
  BY SpindleInvNext
<1>2. SpindleInv => IndexPhaseCommon
  <2> SUFFICES ASSUME SpindleInv, disk.present
               PROVE  clocksIndex = CurrentFdc.totalBits % Rev
    BY DEF IndexPhaseCommon
  <2>1. /\ fdc \in Fdc /\ disk \in Medium /\ motor \in BOOLEAN /\ NotDue(fdc) /\ pending \in Nat
        /\ InPhase
    BY DEF SpindleInv, BoardInv, BoardTypeOK, TypeOK
  <2>2. CurrentFdc.totalBits % Rev = Position(fdc, pending, Rotating)
    BY <2>1, CatchUpPosition DEF CurrentFdc, Rotating
  <2>3. QED
    BY <2>1, <2>2 DEF InPhase
<1>3. QED
  BY <1>1, <1>2, SpindleInvInit, PTL DEF BoardSpec

\* The board may set clocks aside, deliver them late and all at once: with them
\* counted in, every step is one of a controller that lives in the present, or
\* none, but for an eject and what follows one (SF7000.cpp:116-124, 334-401).
THEOREM BoardIsImmediate == BoardSpec => LazinessInvisible
<1>1. BoardInit => Immediate!Init
  BY NothingPasses, SameControl DEF BoardInit, Init, Immediate!Init, CurrentFdc, CurrentDisk
<1>2. LazyInv /\ [BoardNext]_boardVars =>
        [Immediate!Next \/ MediumUnannounced \/ ClocksDropped]_<<CurrentFdc, CurrentDisk, motor>>
  BY LazyStep DEF Seen
<1>3. QED
  BY <1>1, <1>2, LazyInvHolds, PTL DEF BoardSpec, LazinessInvisible

===============================================================================
