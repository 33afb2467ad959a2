------------------------------ MODULE SerialPort ------------------------------
(***************************************************************************)
(* The serial port of the SF-7000 as the board drives it (src/src/SF7000.cpp):*)
(* the CPU's clocks are held back and handed to the USART only when one of    *)
(* its deadlines comes or somebody looks at it; the user interface leaves      *)
(* requests in a mailbox of one slot; a host's thread fills the receive queue; *)
(* the port is part of save states.                                            *)
(***************************************************************************)
EXTENDS COM8251A

CONSTANTS
  DefaultFormat, \* the format after a reset
  Jumper,        \* the speed the board starts with
  Blocks,        \* clocks that one call of TickCpu brings
  MaxQueue,      \* bound: bytes in the receive queue
  Nothing        \* an empty slot, and a save state that was not taken

ASSUME PortAssumption ==
  /\ DefaultFormat \in Formats /\ Jumper \in Speeds
  /\ Blocks \subseteq Nat \ {0} /\ MaxQueue \in Nat /\ Nothing \notin Speeds

\* One call of TickCpu brings the clocks of an instruction, some tens at most; the
\* shortest frame that a mode word and the jumper can ask for takes some thousands.
ASSUME BlockAssumption ==
  /\ Max(Blocks) \in Blocks /\ \A n \in Blocks : n <= Max(Blocks)
  /\ \A n \in Blocks, format \in Formats, speed \in Speeds : n < FrameClocks[format][speed]

VARIABLES
  chip,          \* m_usart
  pendingClocks, \* m_usartPendingClocks
  cpu,           \* where the emulation thread is: "guest", or inside TickCpu
  clocks,        \* the argument of TickCpu
  next,          \* the deadlines that TickCpu saw (nextUsartEvent is the first)
  slot,          \* m_usartReq
  flag,          \* m_usartReqPending
  taken,         \* the request ApplyRequest has copied
  gui,           \* the request whose flag the user interface has still to set
  saved,         \* a save state
  exact,         \* a USART that gets every clock at once and no bytes (not in the code)
  age,           \* clocks for which the receiver has owed the guest a byte (not in the code)
  credit         \* clocks that the line has had for the next byte (not in the code)
port == <<chip, pendingClocks>>
call == <<cpu, clocks, next>>
mailbox == <<slot, flag, taken, gui>>
books == <<exact, age, credit>>
vars == <<port, call, mailbox, saved, books>>

-----------------------------------------------------------------------------
(* The books.                                                                *)

\* What the guest sees of the transmitter, and what is left of its work.
Transmitter(c) == [txEnabled |-> c.txEnabled, txReady |-> c.txReady, txEmpty |-> c.txEmpty,
                   txPending |-> c.txPending, txClocksLeft |-> c.txClocksLeft]

\* Clocks that the line may have saved up: a frame that is over, and the block that ended it.
MostCredit(c) == c.frame + Max(Blocks)

\* The books after a step that delivers clocks and changes no configuration.
Delivered(before, after) ==
  /\ age' = IF after.rxQueue < before.rxQueue \/ ~Receives(after) THEN 0 ELSE age
  /\ credit' = credit - before.frame * (before.rxQueue - after.rxQueue)
\* The books after a step that does.
Afresh(after) == age' = 0 /\ credit' = MostCredit(after)

-----------------------------------------------------------------------------
(* The guest.  Each access finds a port that is up to date.                   *)

\* USART_Synchronize.
Now == IF pendingClocks = 0 THEN chip ELSE Tick(chip, pendingClocks)

Access(after, exactly) ==
  /\ cpu = "guest"
  /\ chip' = after /\ pendingClocks' = 0
  /\ exact' = exactly
  /\ IF after.rxEnabled = chip.rxEnabled THEN Delivered(chip, after) ELSE Afresh(after)
  /\ UNCHANGED <<call, mailbox, saved>>

ReadPort == Access(ReadData(Now), ReadData(exact))

ReadStatus == Access(Now, exact)

\* Mutant of WritePort: the clocks from before the byte count for it.
WritePortUnsynchronized ==
  /\ cpu = "guest"
  /\ chip' = WriteData(chip) /\ exact' = WriteData(exact)
  /\ Delivered(chip, chip')
  /\ UNCHANGED <<pendingClocks, call, mailbox, saved>>

WritePort == Access(WriteData(Now), WriteData(exact))

\* A mode word, or a command word.
WriteControl ==
  \/ /\ chip.initState = "mode"
     /\ \E format \in Formats : Access(WriteMode(Now, format), WriteMode(exact, format))
  \/ /\ chip.initState = "command"
     /\ \E word \in Commands : Access(WriteCommand(Now, word), WriteCommand(exact, word))

-----------------------------------------------------------------------------
(* TickCpu, in the steps between which another thread can come.               *)

\* A request is copied out of its slot, under the lock.
TickCpu(n) ==
  /\ cpu = "guest"
  /\ clocks' = n
  /\ IF flag
     THEN /\ chip' = Now /\ pendingClocks' = 0
          /\ taken' = slot /\ slot' = Nothing
          /\ Delivered(chip, Now)
          /\ cpu' = "apply"
     ELSE /\ cpu' = "look"
          /\ UNCHANGED <<port, taken, slot, age, credit>>
  /\ UNCHANGED <<flag, gui, next, saved, exact>>

\* The flag goes down when the lock has been released.
ApplyRequest ==
  /\ cpu = "apply"
  /\ flag' = FALSE
  /\ IF taken = Nothing THEN UNCHANGED <<chip, exact, age, credit>>
     ELSE /\ chip' = SetSpeed(chip, taken) /\ exact' = SetSpeed(exact, taken)
          /\ Afresh(chip')
  /\ taken' = Nothing /\ cpu' = "look"
  /\ UNCHANGED <<pendingClocks, clocks, next, slot, gui, saved>>

LookAhead ==
  /\ cpu = "look"
  /\ next' = Deadlines(chip)
  /\ cpu' = "count"
  /\ UNCHANGED <<port, clocks, mailbox, saved, books>>

\* The clocks are delivered when they reach the deadline that was seen.
Count ==
  LET held   == IF HasTimedWork(chip) THEN pendingClocks + clocks ELSE 0
      comes  == next # {} /\ held >= Min(next)
      after  == IF comes /\ held > 0 THEN Tick(chip, held) ELSE chip
  IN /\ cpu = "count"
     /\ chip' = after /\ pendingClocks' = IF comes THEN 0 ELSE held
     /\ exact' = Tick(exact, clocks)
     /\ age' = IF after.rxQueue < chip.rxQueue \/ ~Receives(chip) THEN 0 ELSE age + clocks
     /\ credit' = Max({credit, Min({MostCredit(chip), credit + clocks})})
                  - chip.frame * (chip.rxQueue - after.rxQueue)
     /\ cpu' = "guest" /\ clocks' = 0 /\ next' = {}
     /\ UNCHANGED <<mailbox, saved>>

-----------------------------------------------------------------------------
(* The host's thread, and the user interface's.                               *)

PushRxByte ==
  /\ chip.rxQueue < MaxQueue
  /\ chip' = [chip EXCEPT !.rxQueue = @ + 1]
  /\ UNCHANGED <<pendingClocks, call, mailbox, saved, books>>

\* The slot is written under the lock, and the flag set after it.
RequestSpeed(speed) ==
  /\ gui = Nothing
  /\ gui' = speed /\ slot' = speed
  /\ UNCHANGED <<port, call, flag, taken, saved, books>>

RaiseFlag ==
  /\ gui # Nothing
  /\ gui' = Nothing /\ flag' = TRUE
  /\ UNCHANGED <<port, call, slot, taken, saved, books>>

-----------------------------------------------------------------------------
(* Reset and save states.                                                     *)

\* The request stays in its slot.
ResetBoard ==
  /\ cpu = "guest"
  /\ chip' = ResetChip(DefaultFormat, chip.speed) /\ pendingClocks' = 0
  /\ exact' = chip'
  /\ flag' = FALSE
  /\ Afresh(chip')
  /\ UNCHANGED <<call, slot, taken, gui, saved>>

\* The pending clocks are written first, and then delivered.
SaveState ==
  /\ cpu = "guest"
  /\ saved' = [pending |-> pendingClocks, chip |-> Now]
  /\ chip' = Now /\ pendingClocks' = 0
  /\ Delivered(chip, Now)
  /\ UNCHANGED <<call, mailbox, exact>>

\* The books of the new run start from what the port will make of what it has read:
\* the pending clocks are delivered a second time.
LoadState ==
  /\ cpu = "guest" /\ saved # Nothing
  /\ chip' = [saved.chip EXCEPT !.rxPollAccum = 0] /\ pendingClocks' = saved.pending
  /\ exact' = Transmit([chip' EXCEPT !.rxQueue = 0], pendingClocks')
  /\ age' = 0 /\ credit' = MostCredit(chip') + pendingClocks'
  /\ UNCHANGED <<call, mailbox, saved>>

-----------------------------------------------------------------------------

Init ==
  /\ chip = ResetChip(DefaultFormat, Jumper) /\ exact = chip /\ pendingClocks = 0
  /\ cpu = "guest" /\ clocks = 0 /\ next = {}
  /\ slot = Nothing /\ flag = FALSE /\ taken = Nothing /\ gui = Nothing
  /\ saved = Nothing /\ age = 0 /\ credit = MostCredit(chip)

Running ==
  \/ ReadPort \/ ReadStatus \/ WritePort \/ WriteControl
  \/ \E n \in Blocks : TickCpu(n)
  \/ ApplyRequest \/ LookAhead \/ Count
  \/ PushRxByte
  \/ \E speed \in Speeds : RequestSpeed(speed)
  \/ RaiseFlag
  \/ ResetBoard
Next == Running \/ SaveState \/ LoadState

Spec == Init /\ [][Next]_vars
RunningSpec == Init /\ [][Running]_vars

-----------------------------------------------------------------------------
(* Properties.                                                                *)

\* A transmitter that is enabled and not ready is sending, so that its time comes:
\* no order of bytes, commands, changes of speed and loads leaves it busy for ever.
TransmitterNeverStuck == chip.txEnabled /\ ~chip.txReady => Sends(chip)

\* Holding clocks back is invisible: once the pending clocks are delivered, the
\* transmitter is where it would be, had it got every clock at once.
LazinessInvisible == Transmitter(Now) = Transmitter(exact)

\* The receiver keeps the time of the line: a byte in the queue of an enabled
\* receiver reaches the guest within a frame, and no more bytes do than the line has
\* had frames for.
ReceiverKeepsTime == age < chip.frame /\ credit >= 0

\* No step delivers two bytes: between two bytes the guest has an instruction to
\* read the first, so that an overrun is its own omission.
OneByteAtATime ==
  [][chip'.rxQueue >= chip.rxQueue - 1 \/ ResetBoard \/ LoadState]_vars

\* Save states preserve the peripherals and the clocks for a consistent
\* continuation (README.md:108): a machine that is loaded goes on as the one that was saved.
LoadGoesOn == [][LoadState => Transmitter(exact') = Transmitter(saved.chip)]_vars

=============================================================================
