------------------------------- MODULE NEC765 -------------------------------
(***************************************************************************)
(* The uPD765 floppy-disk controller of the SF-7000 (src/src/NEC765.cpp)    *)
(* with the medium in drive 0 (src/src/Disk.cpp).                           *)
(*                                                                         *)
(* The C code keeps the controller in a struct and every entry point is a   *)
(* function on it; here the struct is a record and every entry point an     *)
(* operator from the old record to the new one, so that the board (module   *)
(* SF7000) can chain them as the C++ does.  Spec lets an arbitrary guest     *)
(* program drive the chip: any byte at any time, with terminal count,       *)
(* resets, motor switching and media changes at any point.                  *)
(*                                                                         *)
(* One unit of time is one raw bit under the head.  Sides, sector data,     *)
(* CRC flags and the drive-select bits of ST0/ST3 are left out.             *)
(*                                                                         *)
(* The code moves sector bytes through sectorBuf without comparing any       *)
(* length with its size.  What an access past its end does is undefined, so  *)
(* the model stops short of it: a guest write that would make one is not a   *)
(* step (InBuffer).  Everything else is said of any guest up to that point.  *)
(***************************************************************************)
EXTENDS Integers, Sequences, FiniteSets

CONSTANTS
  LastTrack,     \* highest head position the guest names (255 in the code)
  MaxTracks,     \* MAX_TRACKS: tracks a medium can hold (85 in the code)
  StartTrack,    \* NEC765_STARTTRACK: where the head powers up
  InsertTrack,   \* where nec765DiskChanged leaves the head (10)
  Rev,           \* bitsPerRevolution
  IdamToDam,     \* raw bits from an ID mark to its data mark
  MaxSectors,    \* MAX_SECTORS: capacity of formatEntries
  SizeOf,        \* 128 << N of a size byte N, as the int the build makes of it
  BufferBytes,   \* bytes of sectorBuf (4096)
  MaxTurns,      \* bound: whole revolutions that the idle bit clock counts
  StepTimeOf,    \* nec765CyclesPerTrack for each SPECIFY byte
  Recovery,      \* nec765DataTransferLatency: time until RQM returns
  Blocks,        \* clock blocks handed to the controller at once
  Bytes,         \* values of a parameter or data byte
  Commands,      \* commands the guest program issues
  Media,         \* media that can be inserted
  Protection     \* settings of the user's write-protect switch

ASSUME GeometryAssumption ==
  /\ LastTrack \in Nat /\ StartTrack \in 0..LastTrack /\ InsertTrack \in 0..LastTrack
  /\ MaxTracks \in Nat /\ Rev \in Nat \ {0} /\ IdamToDam \in Nat
  /\ MaxSectors \in Nat \ {0} /\ BufferBytes \in Nat \ {0} /\ MaxTurns \in Nat
ASSUME ByteAssumption ==
  Bytes \subseteq 0..LastTrack /\ 0 \in Bytes /\ SizeOf \in [Bytes -> Int]
ASSUME TimingAssumption ==
  Recovery \in Nat /\ StepTimeOf \in [Bytes -> Nat \ {0}] /\ Blocks \subseteq Nat \ {0}

CommandNames == {"READ_DATA", "WRITE_DATA", "FORMAT", "READ_ID", "SEEK", "RECALIBRATE",
                 "SENSE_INT", "SENSE_DEVICE", "SPECIFY", "UNKNOWN"}
ASSUME CommandAssumption == Commands \subseteq CommandNames

\* A medium: the sectors on each track in order of rotation, each with its ID
\* and dataLen, and the sector size its loader found.
Sector == [R : 0..LastTrack, bytes : Nat]
Track == Seq(Sector)
Medium == [present : BOOLEAN, readOnly : BOOLEAN, dirty : BOOLEAN, nominal : Nat,
           track : [0..LastTrack -> Track]]
NoMedium == [present |-> FALSE, readOnly |-> TRUE, dirty |-> FALSE, nominal |-> 0,
             track |-> [t \in 0..LastTrack |-> << >>]]
ASSUME MediaAssumption ==
  /\ \A m \in Media : m \in Medium /\ m.present /\ ~m.dirty
  /\ Protection \subseteq BOOLEAN

VARIABLES
  fdc,    \* struct NEC765
  disk,   \* diskDrives[0]
  motor   \* whether the spindle is driven
vars == <<fdc, disk, motor>>

-----------------------------------------------------------------------------
(* The medium, as the controller sees it.  Only drive 0 ever holds one.      *)

Present(dk, d) == d = 0 /\ dk.present
ReadOnly(dk, d) == Present(dk, d) /\ dk.readOnly
SectorsUnder(f, dk) ==
  IF Present(dk, f.drive) /\ f.currentTrack < MaxTracks THEN dk.track[f.currentTrack] ELSE << >>
HasSector(f, dk) ==
  LET s == SectorsUnder(f, dk) IN \E i \in DOMAIN s : s[i].R = f.sectorNumber

\* The length of the sector a command names: of the first one with its ID.
SectorLength(f, dk) ==
  LET s     == SectorsUnder(f, dk)
      first == CHOOSE i \in DOMAIN s :
                 s[i].R = f.sectorNumber /\ \A j \in 1..(i - 1) : s[j].R # f.sectorNumber
  IN IF HasSector(f, dk) THEN s[first].bytes ELSE 0

\* diskGetSectorSize, of the drive just selected and the track under its head.
NominalSize(f, dk) ==
  LET s == SectorsUnder(f, dk)
  IN IF s # << >> /\ s[1].bytes > 0 THEN s[1].bytes
     ELSE IF f.drive = 0 THEN dk.nominal ELSE 0

\* Where the ID mark of the i-th sector of a track passes the head: evenly spaced,
\* whatever the lengths.
IdamBit(i) == ((i - 1) * (Rev \div MaxSectors)) % Rev

\* A negative length fails the allocation after the old track was freed: the
\* track is gone, and nothing else is touched.
SetFormattedTrack(f, dk) ==
  IF ~(f.drive = 0 /\ f.currentTrack < MaxTracks /\ f.formatEntries # << >>) THEN dk
  ELSE IF \E i \in DOMAIN f.formatEntries : f.formatEntries[i].bytes < 0
    THEN [dk EXCEPT !.track[f.currentTrack] = << >>]
  ELSE [dk EXCEPT !.track[f.currentTrack] = f.formatEntries, !.dirty = TRUE, !.present = TRUE]

-----------------------------------------------------------------------------
(* The bit clock runs on for ever in the code.  While no deadline is pending  *)
(* only its position in the revolution matters, and how far it has come when  *)
(* a media change sets it back to zero under a deadline.  So the model counts *)
(* MaxTurns whole revolutions of it and no more (here, in Reset and in        *)
(* FindSector), which makes the state space finite.                           *)

Kept(bits) == IF bits < (MaxTurns + 1) * Rev THEN bits ELSE MaxTurns * Rev + (bits % Rev)
Settle(f) == IF f.pendingFind \/ f.pendingFormat THEN f ELSE [f EXCEPT !.totalBits = Kept(@)]

-----------------------------------------------------------------------------
(* Reset: cancels the protocol, leaves the drive mechanics and the spindle.  *)

Reset(f) ==
  [ phase |-> "IDLE", phase2 |-> "IDLE", command |-> "UNKNOWN", phaseStep |-> 0,
    mainStatus |-> {"RQM"}, status0 |-> {}, status1 |-> {}, interrupt |-> FALSE,
    drive |-> 0, currentTrack |-> f.currentTrack, destinationTrack |-> f.currentTrack,
    stepClocks |-> 0, stepTime |-> f.stepTime,
    sectorNumber |-> 0, sectorSize |-> 0, sectorOffset |-> 0, sectorsPerCylinder |-> 0,
    pendingFind |-> FALSE, findSectorIdx |-> 0, findCompleteBit |-> 0,
    pendingFormat |-> FALSE, formatCompleteBit |-> 0, formatEntries |-> << >>,
    totalBits |-> Kept(f.totalBits), sinceTransfer |-> Recovery ]

PowerUp(t) == Reset([currentTrack |-> StartTrack, stepTime |-> t, totalBits |-> 0])

-----------------------------------------------------------------------------
(* The passage of time.                                                      *)

Rotate(f, n, rotating) ==
  LET aged == f.sinceTransfer + n
  IN [f EXCEPT !.totalBits = IF rotating THEN @ + n ELSE @,
               !.sinceTransfer = IF aged < Recovery THEN aged ELSE Recovery]

\* Mutant of EndSeek: the busy bit survives the seek.
EndSeekKeepsBusy(f) ==
  [f EXCEPT !.status0 = @ \cup {"SE"}, !.interrupt = TRUE, !.phase2 = "IDLE"]

EndSeek(f) ==
  [f EXCEPT !.status0 = @ \cup {"SE"}, !.mainStatus = @ \ {"CB"}, !.interrupt = TRUE,
            !.phase2 = "IDLE"]

SeekDistance(f) == IF f.currentTrack < f.destinationTrack
                     THEN f.destinationTrack - f.currentTrack
                     ELSE f.currentTrack - f.destinationTrack

\* The head after k steps that do not reach the destination.
HeadAfter(f, k) == IF f.currentTrack < f.destinationTrack
                     THEN f.currentTrack + k ELSE f.currentTrack - k

\* The loop over step intervals in closed form: a seek of distance d ends at
\* its d-th step; one that is already there ends at the first interval.
MoveToTrackTick(f, n) ==
  LET clocks == f.stepClocks + n
      steps  == clocks \div f.stepTime
      needed == IF SeekDistance(f) = 0 THEN 1 ELSE SeekDistance(f)
  IN IF f.phase2 # "SEEKING" THEN f
     ELSE IF steps >= needed
       THEN EndSeek([f EXCEPT !.currentTrack = f.destinationTrack,
                              !.stepClocks = clocks - needed * f.stepTime])
       ELSE [f EXCEPT !.currentTrack = HeadAfter(f, steps), !.stepClocks = clocks % f.stepTime]

EnterResult(f) ==
  [f EXCEPT !.phase = "RESULT", !.phaseStep = 0, !.mainStatus = @ \cup {"DIO"}, !.interrupt = TRUE]

FindDue(f) == f.pendingFind /\ f.totalBits >= f.findCompleteBit

\* The deadline and the index are dead once the search is over; the model
\* clears them (and the format's, below) so that they do not multiply states.
SectorFindTick(f, dk) ==
  LET s    == SectorsUnder(f, dk)
      done == EnterResult([f EXCEPT !.pendingFind = FALSE, !.findCompleteBit = 0,
                                    !.findSectorIdx = 0])
  IN IF ~FindDue(f) THEN f
     ELSE IF f.findSectorIdx = 0 \/ s = << >>
       THEN [done EXCEPT !.status0 = @ \cup {"IC0"}, !.status1 = @ \cup {"MA"}]
       \* a slot past the sectors of the track is an all-zero DiskSector
       ELSE [done EXCEPT !.sectorNumber = IF f.findSectorIdx \in DOMAIN s
                                            THEN s[f.findSectorIdx].R ELSE 0]

FormatDue(f) == f.pendingFormat /\ f.totalBits >= f.formatCompleteBit

\* Mutant of FormatTick: the revolution is not over when it ends.
FormatTickAgain(f) ==
  IF FormatDue(f)
    THEN EnterResult([f EXCEPT !.formatCompleteBit = 0, !.formatEntries = << >>])
    ELSE f

FormatTick(f) ==
  IF FormatDue(f)
    THEN EnterResult([f EXCEPT !.pendingFormat = FALSE, !.formatCompleteBit = 0,
                               !.formatEntries = << >>])
    ELSE f

BeforeFormatTick(f, dk, n, rotating) ==
  SectorFindTick(MoveToTrackTick(Rotate(f, n, rotating), n), dk)

Tick(f, dk, n, rotating) == Settle(FormatTick(BeforeFormatTick(f, dk, n, rotating)))

MediumAfterTick(f, dk, n, rotating) ==
  LET g == BeforeFormatTick(f, dk, n, rotating)
  IN IF FormatDue(g) THEN SetFormattedTrack(g, dk) ELSE dk

-----------------------------------------------------------------------------
(* Command bytes.                                                            *)

\* Mutants of SetupMoveToTrack: the head jumps at once (the call left commented
\* out in the code), or the seek runs without showing busy.
JumpToTrack(f, target) == [f EXCEPT !.currentTrack = target, !.phase2 = "SEEKING"]
SeekNotBusy(f, target) ==
  [f EXCEPT !.stepClocks = 0, !.destinationTrack = target, !.phase2 = "SEEKING",
            !.mainStatus = @ \ {"CB"}]

SetupMoveToTrack(f, target) ==
  [f EXCEPT !.stepClocks = 0, !.destinationTrack = target, !.phase2 = "SEEKING"]

ForwardDistance(pos, i) == (IdamBit(i) - pos) % Rev

\* Index of the sector whose ID mark passes the head next.
NextSector(s, pos) ==
  CHOOSE i \in DOMAIN s :
    \A j \in DOMAIN s : \/ ForwardDistance(pos, i) < ForwardDistance(pos, j)
                        \/ ForwardDistance(pos, i) = ForwardDistance(pos, j) /\ i <= j

\* Mutant of FindSector: counts sectors from one where the track counts from zero.
FindSectorOffByOne(f, dk) ==
  LET s    == SectorsUnder(f, dk)
      now  == Kept(f.totalBits)
      next == NextSector(s, now % Rev)
      wait == IF s = << >> THEN 2 * Rev ELSE ForwardDistance(now % Rev, next) + IdamToDam
  IN [f EXCEPT !.pendingFind = TRUE, !.totalBits = now, !.findCompleteBit = now + wait,
               !.findSectorIdx = IF s = << >> THEN 0 ELSE next + 1]

\* READ_ID: wait for the next ID mark, or for two revolutions if there is none.
FindSector(f, dk) ==
  LET s    == SectorsUnder(f, dk)
      now  == Kept(f.totalBits)
      next == NextSector(s, now % Rev)
      wait == IF s = << >> THEN 2 * Rev ELSE ForwardDistance(now % Rev, next) + IdamToDam
  IN [f EXCEPT !.pendingFind = TRUE, !.totalBits = now, !.findCompleteBit = now + wait,
               !.findSectorIdx = IF s = << >> THEN 0 ELSE next]

\* ReadSector loads the sector named in the command, synchronously; its own
\* length, not the guest's N, is that of the transfer.
ReadSector(f, dk) ==
  LET g == [f EXCEPT !.mainStatus = @ \cup {"DIO"}, !.phase = "DATATRANSFER", !.phaseStep = 0,
                     !.interrupt = TRUE, !.sectorOffset = 0]
  IN IF HasSector(f, dk)
       THEN [g EXCEPT !.sectorSize = SectorLength(f, dk)]
       ELSE [g EXCEPT !.sectorSize = 0, !.status0 = @ \cup {"IC0"}, !.status1 = @ \cup {"MA"}]

IdlePhaseWrite(f, c) ==
  LET g == [f EXCEPT !.command = c, !.phase = "COMMAND", !.phaseStep = 1,
                     !.mainStatus = @ \cup {"CB"}]
  IN CASE c \in {"READ_DATA", "WRITE_DATA", "FORMAT"} -> [g EXCEPT !.status0 = @ \ {"IC0"}]
       [] c = "RECALIBRATE" -> [g EXCEPT !.status0 = @ \ {"SE"}]
       [] c = "SENSE_INT" -> IF f.interrupt THEN EnterResult(g)
                             ELSE [g EXCEPT !.mainStatus = @ \ {"CB"}, !.phase = "IDLE"]
       [] c = "UNKNOWN" -> [g EXCEPT !.mainStatus = @ \ {"CB"}, !.phase = "IDLE",
                                     !.interrupt = TRUE]
       [] OTHER -> g

CommandPhaseWrite(f, dk, v) ==
  LET g         == [f EXCEPT !.phaseStep = @ + 1]
      addressed == [g EXCEPT !.drive = v % 4, !.status0 = @ \ {"IC0"}]
      sized     == [addressed EXCEPT !.sectorSize = NominalSize(addressed, dk)]
      idle      == [g EXCEPT !.phase = "IDLE", !.phaseStep = 0]
      transfer  == [g EXCEPT !.mainStatus = @ \ {"DIO"}, !.phase = "DATATRANSFER",
                             !.phaseStep = 0, !.interrupt = TRUE]
      c == f.command
      k == f.phaseStep
  IN CASE c \in {"READ_DATA", "WRITE_DATA", "FORMAT"} /\ k = 1 -> sized
       [] c \in {"READ_DATA", "WRITE_DATA"} /\ k = 4 -> [g EXCEPT !.sectorNumber = v]
       \* the length is the guest's N, whatever the sector's
       [] c = "WRITE_DATA" /\ k = 5 -> [g EXCEPT !.sectorSize = SizeOf[v], !.sectorOffset = 0]
       [] c = "READ_DATA" /\ k = 8 -> ReadSector(g, dk)
       [] c = "WRITE_DATA" /\ k = 8 -> transfer
       [] c = "FORMAT" /\ k = 3 -> [g EXCEPT !.sectorsPerCylinder = v, !.sectorNumber = v]
       [] c = "FORMAT" /\ k = 5 -> [transfer EXCEPT !.sectorOffset = 0, !.formatEntries = << >>]
       [] c = "SEEK" /\ k = 1 -> addressed
       [] c = "SEEK" /\ k = 2 -> SetupMoveToTrack(idle, v)
       \* the parameter byte itself becomes the destination
       [] c = "RECALIBRATE" /\ k = 1 ->
            SetupMoveToTrack([idle EXCEPT !.drive = v % 4, !.status0 = @ \ {"IC0"}], v)
       [] c = "READ_ID" /\ k = 1 -> FindSector([idle EXCEPT !.drive = v % 4], dk)
       [] c = "SPECIFY" /\ k = 1 -> [g EXCEPT !.stepTime = StepTimeOf[v]]
       [] c = "SPECIFY" /\ k = 2 -> [g EXCEPT !.mainStatus = @ \ {"CB"}, !.phase = "IDLE",
                                              !.interrupt = TRUE]
       [] c = "SENSE_DEVICE" /\ k = 1 -> EnterResult(addressed)
       [] OTHER -> g

-----------------------------------------------------------------------------
(* Data bytes of the execution phase.                                        *)

\* diskWriteSector succeeds: the sector exists and the medium may be written.
Writable(f, dk) == HasSector(f, dk) /\ ~dk.readOnly

\* Mutant of WriteDataByte: the end is noticed one byte late.
WriteDataPastEnd(f, dk) ==
  IF f.sectorOffset > f.sectorSize THEN f
  ELSE IF f.sectorOffset < f.sectorSize THEN [f EXCEPT !.sectorOffset = @ + 1]
  ELSE [f EXCEPT !.sectorOffset = @ + 1, !.phase = "RESULT", !.phaseStep = 0,
                 !.mainStatus = @ \cup {"DIO"}]

WriteDataByte(f, dk) ==
  LET g == [f EXCEPT !.sectorOffset = @ + 1]
  IN IF f.sectorOffset >= f.sectorSize THEN f
     ELSE IF g.sectorOffset < f.sectorSize THEN g
     \* the last byte: no interrupt is raised here
     ELSE [g EXCEPT !.phase = "RESULT", !.phaseStep = 0, !.mainStatus = @ \cup {"DIO"},
                    !.status0 = IF ReadOnly(dk, f.drive) THEN @ \cup {"IC0"} ELSE @]

\* C, H, R, N in turn; after 4 * SC bytes the format revolution starts.  With
\* SC = 0 the count is past 4 * SC from the first byte on and only its
\* residue matters.
FormatByte(f, v) ==
  LET step == f.phaseStep % 4
      count == IF f.sectorsPerCylinder = 0 THEN (f.phaseStep + 1) % 4 ELSE f.phaseStep + 1
      g == CASE step = 0 -> [f EXCEPT !.currentTrack = v]
             [] step = 2 -> [f EXCEPT !.sectorNumber = v]
             [] step = 3 /\ Len(f.formatEntries) < MaxSectors ->
                  [f EXCEPT !.formatEntries = Append(@, [R |-> f.sectorNumber, bytes |-> SizeOf[v]])]
             [] OTHER -> f
  IN IF f.sectorsPerCylinder # 0 /\ count = 4 * f.sectorsPerCylinder
       THEN [g EXCEPT !.phaseStep = count, !.phase = "IDLE", !.mainStatus = @ \ {"DIO"},
                      !.pendingFormat = TRUE, !.formatCompleteBit = f.totalBits + Rev]
       ELSE [g EXCEPT !.phaseStep = count]

ExecutionPhaseWrite(f, dk, v) ==
  CASE f.command = "WRITE_DATA" -> WriteDataByte(f, dk)
    [] f.command = "FORMAT" -> FormatByte(f, v)
    [] OTHER -> f

\* Every byte that crosses the data register drops RQM for the recovery time.
Transferred(f) == [f EXCEPT !.mainStatus = @ \ {"RQM"}, !.sinceTransfer = 0]

Write(f, dk, v) ==
  CASE f.pendingFormat -> f
    [] ~f.pendingFormat /\ f.phase = "IDLE" -> IdlePhaseWrite(f, v)
    [] ~f.pendingFormat /\ f.phase = "COMMAND" -> CommandPhaseWrite(f, dk, v)
    [] ~f.pendingFormat /\ f.phase = "DATATRANSFER" -> Transferred(ExecutionPhaseWrite(f, dk, v))
    [] OTHER -> f

\* diskWriteSector on the last byte of WRITE_DATA, diskWrite on each H byte of
\* FORMAT; the latter marks the drive dirty whatever it holds.
MediumAfterWrite(f, dk, v) ==
  CASE f.phase # "DATATRANSFER" \/ f.pendingFormat -> dk
    [] f.phase = "DATATRANSFER" /\ f.command = "WRITE_DATA" /\ f.sectorOffset + 1 = f.sectorSize
         /\ Writable(f, dk) -> [dk EXCEPT !.dirty = TRUE]
    [] f.phase = "DATATRANSFER" /\ f.command = "FORMAT" /\ f.phaseStep % 4 = 1 /\ f.drive < 2 ->
         IF f.drive = 0 THEN [dk EXCEPT !.dirty = TRUE] ELSE dk
    [] OTHER -> dk

\* A byte written to the data register touches sectorBuf inside its bounds: where
\* the sector is loaded, at the byte of a transfer, where the sector is committed
\* (with its own length again) and where FORMAT fills the buffer.
InBuffer(f, dk) ==
  /\ f.phase = "COMMAND" /\ f.command = "READ_DATA" /\ f.phaseStep = 8 =>
       SectorLength(f, dk) <= BufferBytes
  /\ f.phase = "DATATRANSFER" /\ f.command = "FORMAT" /\ f.phaseStep % 4 = 1 =>
       f.sectorSize <= BufferBytes
  /\ f.phase = "DATATRANSFER" /\ f.command \in {"READ_DATA", "WRITE_DATA"} =>
       f.sectorOffset < BufferBytes
  /\ f.phase = "DATATRANSFER" /\ f.command = "WRITE_DATA" /\ f.sectorOffset + 1 = f.sectorSize
       /\ Writable(f, dk) => SectorLength(f, dk) <= BufferBytes

-----------------------------------------------------------------------------
(* Reads of the data register, the status register, and the other inputs.    *)

ResultLength(c) ==
  CASE c \in {"READ_ID", "READ_DATA", "WRITE_DATA", "FORMAT"} -> 7
    [] c = "SENSE_INT" -> 2
    [] c = "SENSE_DEVICE" -> 1
    [] OTHER -> 0

\* Mutant of ResultsPhaseRead: the last result byte leaves DIO up.
ResultsKeepDio(f) ==
  IF f.phaseStep + 1 = ResultLength(f.command)
    THEN [f EXCEPT !.phaseStep = @ + 1, !.phase = "IDLE", !.mainStatus = @ \ {"CB"}]
    ELSE [f EXCEPT !.phaseStep = @ + 1]

ResultsPhaseRead(f) ==
  LET g == [f EXCEPT !.phaseStep = @ + 1]
  IN IF f.phaseStep >= ResultLength(f.command)
       THEN IF ResultLength(f.command) = 0 THEN f ELSE g
     ELSE IF g.phaseStep = ResultLength(f.command)
       THEN [g EXCEPT !.phase = "IDLE", !.mainStatus = @ \ {"CB", "DIO"}]
     ELSE g

ExecutionPhaseRead(f) ==
  IF f.command # "READ_DATA" \/ f.sectorOffset >= f.sectorSize THEN f
  ELSE IF f.sectorOffset + 1 = f.sectorSize
    THEN [f EXCEPT !.sectorOffset = @ + 1, !.phase = "RESULT", !.phaseStep = 0,
                   !.interrupt = TRUE]
    ELSE [f EXCEPT !.sectorOffset = @ + 1]

Read(f) ==
  LET g == [f EXCEPT !.interrupt = FALSE]
  IN CASE f.phase = "DATATRANSFER" -> Transferred(ExecutionPhaseRead(g))
       [] f.phase = "RESULT" -> ResultsPhaseRead(g)
       [] OTHER -> g

ReadStatus(f) ==
  IF f.sinceTransfer >= Recovery THEN [f EXCEPT !.mainStatus = @ \cup {"RQM"}] ELSE f

\* nec765Restart, run on the rising edge of terminal count.
TerminalCount(f) ==
  [f EXCEPT !.interrupt = TRUE, !.phase = "RESULT", !.phaseStep = 0,
            !.mainStatus = (@ \cup {"RQM"}) \ {"CB"}, !.sectorOffset = 0]

\* The rising edges of the terminal-count and reset lines, in the order of
\* SF7000::SetPortE6.
ControlEdges(f, tc, reset) ==
  LET g == IF tc THEN TerminalCount(f) ELSE f
  IN IF reset THEN Reset(g) ELSE g

\* Mutant of DiskChanged: the rotational position survives the change.
DiskChangedKeepsPhase(f) == [f EXCEPT !.currentTrack = InsertTrack, !.destinationTrack = 0]

DiskChanged(f) ==
  [f EXCEPT !.currentTrack = InsertTrack, !.destinationTrack = 0, !.totalBits = 0]

-----------------------------------------------------------------------------
(* The chip under an arbitrary guest program and an arbitrary user.          *)

Rotating == motor /\ Present(disk, fdc.drive)

Init ==
  /\ \E v \in Bytes : fdc = PowerUp(StepTimeOf[v])
  /\ disk = NoMedium
  /\ motor = FALSE

\* What the guest can write: a command byte is expected when the chip is idle.
Input == IF fdc.phase = "IDLE" THEN Commands ELSE Bytes

GuestWrite(v) ==
  /\ InBuffer(fdc, disk)
  /\ fdc' = Write(fdc, disk, v)
  /\ disk' = MediumAfterWrite(fdc, disk, v)
  /\ UNCHANGED motor

GuestRead == fdc' = Read(fdc) /\ UNCHANGED <<disk, motor>>
GuestReadStatus == fdc' = ReadStatus(fdc) /\ UNCHANGED <<disk, motor>>

\* One write to port E6 moves the motor, terminal-count and reset lines.
GuestControl(on, tc, reset) ==
  /\ motor' = on
  /\ fdc' = ControlEdges(fdc, tc, reset)
  /\ UNCHANGED disk

\* SF7000::Reset: the timebase starts over as well.
MachineReset ==
  /\ fdc' = Reset([fdc EXCEPT !.totalBits = 0])
  /\ motor' = FALSE
  /\ UNCHANGED disk

\* GearSF7000Core::DiskChange: the old medium goes, the controller is told of
\* the new one; a load that fails, like DiskEject, tells the controller nothing.
InsertMedium(m) ==
  /\ disk' = m
  /\ fdc' = DiskChanged(fdc)
  /\ UNCHANGED motor
EjectMedium ==
  /\ disk' = [NoMedium EXCEPT !.readOnly = disk.readOnly]
  /\ UNCHANGED <<fdc, motor>>
SetWriteProtect(b) == disk' = [disk EXCEPT !.readOnly = b] /\ UNCHANGED <<fdc, motor>>

Clock(n) ==
  /\ fdc' = Tick(fdc, disk, n, Rotating)
  /\ disk' = MediumAfterTick(fdc, disk, n, Rotating)
  /\ UNCHANGED motor

Next ==
  \/ \E v \in Input : GuestWrite(v)
  \/ GuestRead
  \/ GuestReadStatus
  \/ \E on, tc, reset \in BOOLEAN : GuestControl(on, tc, reset)
  \/ MachineReset
  \/ \E m \in Media : InsertMedium(m)
  \/ EjectMedium
  \/ \E b \in Protection : SetWriteProtect(b)
  \/ \E n \in Blocks : Clock(n)

Spec == Init /\ [][Next]_vars

-----------------------------------------------------------------------------
(* Properties that hold whatever the guest and the user do.                  *)

\* A sector that FORMAT has collected.
Entry == [R : 0..LastTrack, bytes : Int]
Entries == Seq(Entry)

Fdc == [ phase : {"IDLE", "COMMAND", "DATATRANSFER", "RESULT"}, phase2 : {"IDLE", "SEEKING"},
         command : CommandNames, phaseStep : Nat,
         mainStatus : SUBSET {"RQM", "DIO", "CB"}, status0 : SUBSET {"IC0", "SE"},
         status1 : SUBSET {"MA"}, interrupt : BOOLEAN, drive : 0..3,
         currentTrack : 0..LastTrack, destinationTrack : 0..LastTrack,
         stepClocks : Nat, stepTime : Nat \ {0},
         sectorNumber : 0..LastTrack, sectorSize : Int, sectorOffset : Nat,
         sectorsPerCylinder : 0..LastTrack,
         pendingFind : BOOLEAN, findSectorIdx : Nat, findCompleteBit : Nat,
         pendingFormat : BOOLEAN, formatCompleteBit : Nat,
         formatEntries : Entries,
         totalBits : Nat, sinceTransfer : Nat ]

\* Type invariant.
TypeOK == fdc \in Fdc /\ disk \in Medium /\ motor \in BOOLEAN

\* A controller that is idle yet reports busy has work under way that will
\* clear the busy bit: a seek, a READ_ID search or a format revolution.  A
\* guest waiting for CB to drop is never left with nothing to wait for.
BusyHasCause ==
  fdc.phase = "IDLE" /\ "CB" \in fdc.mainStatus =>
    fdc.phase2 = "SEEKING" \/ fdc.pendingFind \/ fdc.pendingFormat

\* While a format revolution turns, the controller still belongs to FORMAT and
\* holds the sector IDs it will commit: no command slipped in between.
FormatOwnsController ==
  fdc.pendingFormat => fdc.command = "FORMAT" /\ fdc.formatEntries # << >>

\* The lengths that the guest and the media name fit the buffer.
LengthsFit ==
  /\ \A v \in Bytes : SizeOf[v] <= BufferBytes
  /\ \A m \in Media : /\ m.nominal <= BufferBytes
                      /\ \A t \in 0..LastTrack : \A i \in DOMAIN m.track[t] :
                           m.track[t][i].bytes <= BufferBytes

\* The code moves bytes through sectorBuf, 4096 of them, with no check of its own:
\* READ_DATA takes the length from the disc, WRITE_DATA from the guest and commits
\* with the disc's, FORMAT from the disc and writes the guest's on it.  If none of
\* the lengths named is too long, none of these accesses leaves the buffer: no
\* transfer goes on past its length, in whatever order discs are formatted,
\* changed, read and written.
StaysInBuffer == LengthsFit => InBuffer(fdc, disk)

\* A medium that is write-protected stays as it is (no transfer marks it dirty).
WriteProtectHonoured ==
  [][disk.present /\ disk.readOnly /\ ~disk.dirty => ~disk'.dirty]_vars

\* Nothing teleports the head: it moves towards the destination of the
\* seek under way, never past it or away from it, except that FORMAT drags it to its C byte
\* and a media change parks it.  A reset, terminal count or motor change never
\* moves it.
HeadNeverTeleports ==
  [][ fdc'.currentTrack # fdc.currentTrack =>
        \/ /\ fdc.phase2 = "SEEKING"
           /\ SeekDistance([fdc EXCEPT !.currentTrack = fdc'.currentTrack]) < SeekDistance(fdc)
        \/ fdc.phase = "DATATRANSFER" /\ fdc.command = "FORMAT"
        \/ fdc'.currentTrack = InsertTrack /\ fdc'.destinationTrack = 0 /\ disk' \in Media ]_vars

=============================================================================
