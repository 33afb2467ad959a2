---------------------------- MODULE NEC765Driver ----------------------------
(***************************************************************************)
(* The controller under a guest that keeps to the main-status-register      *)
(* handshake, as the SF-7000 boot ROM does: it starts a command only when    *)
(* the register says idle, sends and fetches bytes only when RQM and DIO     *)
(* ask for them, waits for the busy bit of a seek, and ends a read with      *)
(* terminal count.  The motor runs and discs are changed between commands.   *)
(* This module asks what that discipline buys: the protocol properties that  *)
(* an arbitrary guest (NEC765!Spec) can break, and termination.              *)
(***************************************************************************)
EXTENDS NEC765

CONSTANT Drives   \* the drives this guest addresses
ASSUME DriveAssumption == Drives \subseteq 0..3

Rqm == "RQM" \in fdc.mainStatus
Dio == "DIO" \in fdc.mainStatus
Busy == "CB" \in fdc.mainStatus

DriverInit ==
  /\ \E v \in Bytes : fdc = PowerUp(StepTimeOf[v])
  /\ disk \in Media
  /\ motor = TRUE

StartCommand == Rqm /\ ~Dio /\ ~Busy /\ \E c \in Commands : GuestWrite(c)

\* A driver addresses the drives it knows and formats at least one sector.
Acceptable(v) ==
  fdc.phase = "COMMAND" =>
    /\ fdc.phaseStep = 1 /\ fdc.command # "SPECIFY" => v % 4 \in Drives
    /\ fdc.phaseStep = 3 /\ fdc.command = "FORMAT" => v # 0

SendByte ==
  /\ Rqm /\ ~Dio /\ Busy /\ fdc.phase \in {"COMMAND", "DATATRANSFER"}
  /\ \E v \in Bytes : Acceptable(v) /\ GuestWrite(v)

FetchByte == Rqm /\ Dio /\ GuestRead
PollStatus == ~Rqm /\ GuestReadStatus
EndRead == fdc.phase = "DATATRANSFER" /\ fdc.command = "READ_DATA" /\ GuestControl(motor, TRUE, FALSE)
ChangeDisc == Rqm /\ ~Dio /\ ~Busy /\ \E m \in Media : InsertMedium(m)
TimePasses == \E n \in Blocks : Clock(n)

DriverNext == StartCommand \/ SendByte \/ FetchByte \/ PollStatus \/ EndRead \/ ChangeDisc \/ TimePasses

\* The clock runs, and a driver in the middle of a command goes on with it.
DriverFairness ==
  WF_vars(TimePasses) /\ WF_vars(SendByte) /\ WF_vars(FetchByte) /\ WF_vars(PollStatus) /\ WF_vars(EndRead)

DriverSpec == DriverInit /\ [][DriverNext]_vars /\ DriverFairness

-----------------------------------------------------------------------------

\* The status register tells the truth: when it says idle the controller takes
\* the next byte as a command, and when it asks the guest to fetch a byte there
\* is one (a sector byte, or a result byte of the command last given).
MsrTruthful ==
  /\ Rqm /\ ~Dio /\ ~Busy => fdc.phase = "IDLE" /\ ~fdc.pendingFormat
  /\ Dio => \/ fdc.phase = "DATATRANSFER" /\ fdc.command = "READ_DATA"
            \/ fdc.phase = "RESULT" /\ fdc.phaseStep < ResultLength(fdc.command)

\* Background work is exclusive: at most one of seek, READ_ID search and format
\* revolution is under way, it belongs to the command last given, and the
\* controller shows busy and accepts nothing else meanwhile.
BackgroundExclusive ==
  /\ fdc.phase2 = "SEEKING" => Busy /\ fdc.phase = "IDLE" /\ fdc.command \in {"SEEK", "RECALIBRATE"}
  /\ fdc.pendingFind => Busy /\ fdc.phase = "IDLE" /\ fdc.command = "READ_ID"
  /\ fdc.pendingFormat => Busy /\ fdc.phase = "IDLE" /\ fdc.command = "FORMAT"

\* A READ_ID that found something reports an ID that is on the track under the
\* head (the search remembers only an index into that track).
FoundIdIsOnTrack ==
  fdc.phase = "RESULT" /\ fdc.command = "READ_ID" /\ "MA" \notin fdc.status1 => HasSector(fdc, disk)

\* Every command ends: the busy bit always drops again and the result bytes
\* are drained.
CommandsComplete == (Busy \/ fdc.phase # "IDLE") ~> (~Busy /\ fdc.phase = "IDLE")

=============================================================================
