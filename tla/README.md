# GearSF7000: a TLA+ model of its concurrent and timed core

GearSF7000 emulates the Sega SC-3000 family, with the SF-7000 "Super Control
Station" (floppy drive, PPI, USART) as its distinguishing machine. Most of the
program is sequential and table-like: a CPU, video and sound chips, memory maps,
file formats. This project models the parts whose correctness depends on *when*
things happen: several actors (guest program, spindle, user, sound device, other
threads), deferred time, counters at their limits, and protocols with commands
that outlive the call that started them.

Sources are named relative to `src/` of the repository's tree as the project maps
it, so the controller is `src/src/NEC765.cpp`.

## Inventory

| component | source | state | operations | what is hard |
|---|---|---|---|---|
| floppy controller | `NEC765.cpp` | phase, status registers, command in progress, head, pending search / format / seek, bit clock | tick, data write, data read, status read, terminal count, reset, media change | three kinds of background work that end by the passage of time, while guest, user and reset can intervene at any byte |
| drives and media | `Disk.cpp`, `DiskLayout.cpp` | presence, protection, dirty flag, sectors of each track | sector read / write, format, insert, eject, protect | the controller remembers indices and deadlines computed from a medium that may be gone |
| rotation clock | `FdcRotationClock.h` | fraction of a raw bit | advance, clocks until a deadline | rounding, non-integer ratios, 64-bit overflow |
| SF-7000 board | `SF7000.cpp` | ports E4–E9, motor, spindle, deferred clocks | `TickFDC`, port accesses, disc operations, reset | time is set aside and delivered later; every entry point has to catch up first |
| sound queue | `audio-shared/sound_queue.cpp` | ring, two counters, open / stopping flags, stream | `Write`, callback, `Start`, `Stop` | lock-free ring between two threads; condition variable notified without its mutex; shutdown against a running callback |
| rewind history | `desktop-shared/rewind.cpp` | ring of XOR deltas, seek cursor, capture cadence | capture, seek, commit, reconfigure, reset | delta chains, trimming, history of a machine that was rewired, captures that fail |
| run control and media changes | `desktop-shared/emu.cpp`, `gui_debug_rewind.cpp`, `gui.cpp`, `mcp_debug_adapter.cpp` | pause bit, debugger flags, frames to step | run, step, continue, play from here, reset, start, eject, load state | each meets a recorder whose cursor may be parked in the past |
| MCP bridge | `desktop-shared/mcp/*` | connection and its token, command and response queues, pending counter, running flags | accept, read, answer, pump, send, complete, start, stop | three threads; shutdown; a counter that spans both queues; late answers to clients that have gone |
| USART and its mailbox | `COM8251A.cpp`, `SF7000.cpp` | mode and command, two countdowns, receive queue, a slot for requests | port accesses, clock blocks, bytes from a host's thread, requests from the GUI's, reset, save, load | deferred clocks with a deadline that every access moves; a frame whose length changes under way; a flag lowered outside its lock |
| save states | `SaveStateStream.h`, `*::SaveState` | | save, load | what is saved before and after deferred work is delivered |
| frame scheduler | `desktop-shared/scheduler.cpp` | pacing, drift | per-frame decision | feedback against the sound queue |
| Z80 CTC and the Sord M5 | `Z80CTC.cpp`, `SystemBusM5.cpp` | four channels, interrupt pin, half-cycles, RETI prefix | clock blocks, register writes, triggers, acknowledgement, RETI, reset, save, load | time skipped from event to event; nested interrupts; wires with a level at both ends, one of which a load changes silently |
| PPI, VDP ports, tape | `Intel8255.cpp`, `TMS99xx*.cpp`, `Tape*.cpp`, `TZXPlay.cpp` | | port accesses, clocks | interrupt and handshake protocols |
| sf7fs and disc explorer | `sf7fs/`, `gui_debug_disc_explorer.cpp` | directory, allocation table and clusters of an image; path, selection, dirty flag | open, import, export, delete, save | long sequences of imports and deletions: a chain mislinked now destroys another file later |
| CPU, rendering, audio synthesis, mappers, loaders, GUI, ports, third-party | | | | not modelled: data paths, tables, file formats, presentation |

`PROJECT.json` lists all of them with the reason for what is left out, and under
`hazards` the lines where this code is exposed to orders and values that a test
hardly reaches.

How they interact: the CPU's port accesses and its clock blocks enter the board;
the board hands deferred clocks and accesses to the controller, which reads and
writes the medium of the selected drive and advances its rotation clock. The user
changes discs and protection between CPU instructions (GUI and emulation share a
thread), so each of these is atomic to the others. The sound queue is the
exception: the device pulls samples from a thread of its own; so do the reader and
the writer of the MCP bridge, which meet the emulation thread in two locked queues, and
a host that sends to the USART, whose thread fills the receive queue.
The disc explorer edits files of the host and never the disc in the drive. On the
M5 the CPU's clocks, CK2 and the video chip drive the CTC, which calls the CPU's
interrupt input back; the CPU acknowledges and the board tells the chip of RETI.

## Modules

| module | models | role |
|---|---|---|
| `NEC765` | `NEC765.cpp`, `Disk.cpp`, `DiskLayout.cpp` | the controller, as operators from the old `struct` to the new, with any guest program and any user |
| `NEC765Driver` | the same controller | a guest that keeps to the status-register handshake; extends `NEC765` |
| `NEC765Proofs` | | theorems about `NEC765` and `NEC765Driver` |
| `SF7000` | `SF7000.cpp`, disc operations of `GearSF7000Core.cpp` | the board; extends `NEC765` and chains its operators the way the C++ does |
| `SF7000Proofs` | | theorems about `SF7000`, from the lemmas of `NEC765Proofs` |
| `FdcRotationClock` | `FdcRotationClock.h` | the divider that lets `NEC765` count in raw bits |
| `FdcRotationClockProofs` | | theorems about `FdcRotationClock` |
| `SampleFifo` | | what the sound queue promises: a bounded FIFO with atomic ends |
| `SoundQueue` | `sound_queue.cpp` (SDL3 backend) | the ring, at the granularity of its atomic accesses |
| `SoundQueueProofs` | | theorems about `SoundQueue` |
| `RewindHistory` | | what the recorder promises: one line of captures, cut only at the cursor |
| `Rewind` | `rewind.cpp`, run control of `emu.cpp` and its callers | groups of XOR differences, window and memory limit, seek and branch |
| `RewindProofs` | | theorems about `Rewind` |
| `RequestReply` | | what the bridge promises: one answer at most, to the one who asked, after the work |
| `McpBridge` | `mcp_server.*`, `mcp_manager.h`, `mcp_transport.h` | the three threads, both queues and both transports |
| `McpBridgeProofs` | | theorems about `McpBridge` |
| `DiscVolumes` | | what the disc explorer promises: a volume of named files, edited in memory, saved as a whole |
| `SF7Disc` | `sf7fs/`, `gui_debug_disc_explorer.cpp` | directory, cluster chains and data of an image, and the buttons that change them |
| `Z80CTC` | `Z80CTC.cpp` | the counter/timer chip, as operators from the old chip to the new |
| `SystemBusM5` | `SystemBusM5.cpp`, reset and loading of `GearSF7000Core.cpp` | the chip on the M5, with CPU, CK2 and video pin; extends `Z80CTC` |
| `SystemBusM5Proofs` | | theorems about `SystemBusM5` |
| `COM8251A` | `COM8251A.cpp` | the serial chip, as operators from the old chip to the new |
| `SerialPort` | serial part of `SF7000.cpp` | the chip behind deferred clocks, the mailbox, the host's thread, save states; extends `COM8251A` |
| `SerialPortProofs` | | theorems about `SerialPort` |
| `MC*` | | media, step rates and blocks for TLC |

**The controller.** The record `fdc` has a field for each field of `struct NEC765`
that decides something. `Tick`, `Write`, `Read`, `ReadStatus`, `TerminalCount`,
`Reset` and `DiskChanged` are the entry points `nec765Tick`, `nec765Write` and so
on; the phase functions below them keep their names. Each calls what the code
calls in the same order: a tick moves the bit clock, then the head, then a search,
then a format. What the medium does in the same call is in `MediumAfterTick` and
`MediumAfterWrite`. Time is counted in raw bits; the clocks of a head step and of
the data register's recovery are counted in the same unit. Left out: sides, sector
contents and CRC flags, the bits of ST0 and ST3 that repeat the drive number, and
the debug log.

Of a sector the model keeps its ID and its length, since the code takes lengths from
three places: READ_DATA the sector's own (`SectorLength`), WRITE_DATA the guest's size
byte (`SizeOf`, `128 << N`), FORMAT the disc's nominal one for the byte it fills the buffer
with and the guest's for the sectors it makes. None is compared with `sectorBuf[4096]`
(`BufferBytes`). What happens after an access outside the buffer is undefined, so no
step of the model makes one: `InBuffer` guards `GuestWrite` and the board's `DataWrite`,
and all properties are about what happens before. `StaysInBuffer` says when the guard
never stops anything.

While no deadline is pending, the code only takes the remainder of `totalBits` by a
revolution, so how many whole revolutions it counts decides nothing. The model counts
`MaxTurns` of them (`Kept`, `Settle`), which makes the state space finite.

**The board.** `pending` is `m_fdcPendingClocks`; `CurrentFdc` is the controller
with the pending clocks counted in, what `FDC_Synchronize` would make of it.
Disc operations are the ones the GUI reaches: `DiskChange` (which tells the board
after the drive has changed), `DiskEject` (which tells nobody), `DiskWriteProtect`.

**The rotation clock.** Products and sums are taken modulo `MaxUint + 1`, as
`std::uint64_t` does; `numerator`, the exact position, is not in the code.

**The sound queue.** `producer` is where the emulation thread is inside `Write`,
`Start` or `Stop`, `device` where the callback is. Loading the counters, the copy
and the publication are separate steps on both sides; so are the test of the
condition variable's predicate and falling asleep, because the callback notifies
without holding the mutex. Samples are numbered so that loss, repetition, torn
copies and reordering are visible. Not modelled: spurious wake-ups (they re-test
the predicate, as `TimeOut` does), the statistics nothing decides on, the growth of
the scratch buffer, the CoreAudio branch.

**The recorder.** `g` is the `Recorder`, with `recording_gap` as `gap`. A machine
is what it was booted as and the inputs of every frame since; a difference is the
pair of captures it was made from and turns either into the other, anything else
into `Garbled`. `Pushed` is `rewind_push`, a chain of the steps the code takes, each
a function from recorder to recorder; `outcome` says whether saving or deflating
failed. A seek loads the predecessor and runs a frame (`RewindSeek`), and `Continue`
is `emu_debug_continue`, which seeks to the newest capture first. `ResetMachine`
is also a successful `emu_load_rom`. Abstracted: the size of a capture to the mode
of the machine, the two estimates made before any capture to `AssumedBytes`, the
counters of failed and dropped captures to `missed`. `booted` is not in the code. Left
out: stops in the middle of a frame, the stop of a VGM recording, `rewind_read_snapshot`,
the MSX branch of Continue, a cartridge that fails to load.

**The MCP bridge.** `reader`, `writer` and `main` say where each thread is;
`commands`, `pending` and `responses` are the two queues, each operation on them
one step because it holds the queue's mutex. `net` is the transport: the connection
held and its token, and the last token given out. What a request asks for is
abstracted to whether the server answers it itself (`ReaderReply`) or queues a tool
(`ReaderCall`), and the reading of a connection to its outcome (`ReaderPost`,
`ReaderReject`). A send succeeds, fails or finds the connection gone (`Send`).
`Close` is two steps over HTTP, since `m_closed` is set before the lock is taken.
A restart is the Stop inside Start (`MainStop` with `again`), which does not clear
the commands; `MainBegin` does. `stage`, `got` and `work`, what the clients see and
what became of the tools, are not in the code. Left out: a client that sends a byte
every few seconds, which keeps a read going because the time limit is one of each
`recv`, and the shutdown of the whole program.

**The disc explorer.** An image is a directory, the table that links clusters and
the clusters' sectors, with the codes of the table kept as they are. `Walk` is
`sf7GetClusterChainFromFAT`, whose result is whether the walk ended at an end marker
(`Sane`). A name stands for all spellings that normalise to it, and `Blank` for a
name of spaces and a dot, which makes an entry that counts as empty. `Target` is
the file that Export and Delete act on: they pass the name of the selected entry,
and the first entry of that name is found. Writing to the host may truncate a file
and then fail (`Save`, `ExportTo`). Left out: the verdict of `validate()`, the
label, the attribute byte and drawing.

**The M5's interrupts.** `chip` is `m_ctc`: the record of the four channels and the
level last given to the pin; the operators of `Z80CTC` are its methods. Time is kept
modulo a period of CK2 (`clock`), since the code compares it with nothing else.
`AdvanceCpuHalfCycles` is `Advance`, which sets the clocks of the block due, and then
`Deliver` until none is (`Quiet`): one turn of the loop of `AdvanceTo`, and the edge of
CK2 if one has come. Everything else happens between blocks. `Accept` and `Acknowledge`
are two steps because the CPU advances the board in between. A state can be loaded if
the program saved it before, in this session or another: `Stored` holds such states, and
`StoredAssumption` says of them what the invariants say of the present one, no more.
`serving`, the channels in whose handlers the CPU is, is not in the code. Left out: the
triggers of channels 0 and 1 and the ZC/TO pins, which nothing is connected to, the
vector, reading a register, and whether the CPU has interrupts enabled (it may accept at
any time).

**The serial port.** `chip` is `m_usart`, `pendingClocks` is `m_usartPendingClocks`. A frame
is `FrameClocks` of a format and a speed, so that neither the crystal nor the divisors
matter. `Now` is what `USART_Synchronize` makes of the port. `TickCpu` is in steps, since
other threads come between: it empties the mailbox under the lock (`TickCpu`), lowers the
flag and applies the request (`ApplyRequest`), computes the deadline (`LookAhead`), then
tests for timed work and counts the clocks (`Count`). A byte pushed while `Tick` itself runs
is one pushed before or after it: it takes the queue's mutex, and `Tick` asks for the length
again only to forget a part of a frame. The user interface writes the slot under the lock and raises
the flag after it (`RequestSpeed`, `RaiseFlag`). `exact`, `age` and `credit` are not in the
code: a transmitter that gets every clock at once, how long a byte has been waiting, and how
many clocks the line has had for the next one. Bytes are not told apart, so the queue is its
length; left out are the queue of sent bytes, log file and sockets, the modem lines, and
requests for backends, which share the slot. Parity and framing errors never occur in the
code. A reset lowers the flag and leaves the request in its slot, as `SF7000::Reset` does.

## Runs

Passing runs:

| run | shows | size |
|---|---|---|
| `FdcGuest` | under *any* guest (bytes at any time, terminal count, reset, motor, eject, insertion and protection in between): never busy without a cause (`BusyHasCause`), the head moves only by seeking (`HeadNeverTeleports`), up to an access that leaves the sector buffer | 3 tracks, 4 commands, a sector that fits the buffer and one too long for it, a length of the guest's that fits and one that is not positive |
| `Driver` | what keeping to the handshake buys: the status register tells the truth (`MsrTruthful`), background work is exclusive (`BackgroundExclusive`), a format revolution keeps the controller and the IDs it will commit (`FormatOwnsController`, proved for any guest), READ_ID reports an ID of the track under the head (`FoundIdIsOnTrack`), bytes stay in the sector buffer if no length named is longer (`StaysInBuffer`), every command ends (`CommandsComplete`) | all ten commands, 2 sectors, one shorter than the guest's length, a protected and an unprotected disc |
| `Board` | deferring clocks is invisible: the board implements `NEC765!Spec` through the refinement mapping `fdc <- CurrentFdc, disk <- CurrentDisk` (`LazinessInvisible`); spindle and controller keep one phase (`IndexPhaseCommon`); no interrupt, step or format commit waits in the deferred clocks (`NothingOverdue`); with motor, TC, machine resets, insertions and ejects | READ_ID and RECALIBRATE, 2 positions in a revolution |
| `Rotation` | no drift (`NoDrift`), exact deadlines (`DeadlineExact`), saturation instead of wrapping (`NeverBackwards`) | 3 clocks per revolution, rates 2 and 5, a 6-bit register, blocks 0–60 |
| `Sound` | the ring implements `SampleFifo` (`ImplementsFifo`); copies never overlap, `Stop` waits for the callback, samples are accounted for, and every call returns even without a device (`CallsReturn`) | ring of 4, blocks of 3 and 5, requests of 1 and 5, 8 samples |
| `Rewind` | whatever captures, failed captures, scrubs, steps, suspensions, configurations and resets happen in between, the chains decode to the one line of captures promised (`ImplementsHistory`), without holes or repetitions (`NoHoles`); counts and bytes are exact and within the window (`RingAccounted`); a seek lands on the age asked for (`SeekLandsOnAge`); eviction never shortens the reach (`WindowKept`) | groups of 2, a window of one second at one frame a second, 5 frames a boot, 2 memory limits, 2 video devices |
| `Mcp` | whatever order requests, tools, stalls, failed sends, stops and restarts come in, nobody receives another's answer (`AnswersOwnRequest`), the bridge implements `RequestReply` (`KeepsPromise`), the pending count is what is inside (`PendingAccounted`), a connection is always released even if no tool is ever run (`PortStaysAlive`), and `Stop` returns (`StopReturns`) | 2 connections and a line of stdin, a limit of 1, 2 starts |
| `Disc` | whatever imports, deletions, saves and reloads come in, files read back as they were imported and no operation touches another file: the explorer implements `DiscVolumes` (`FilesKept`); clusters are not lost (`NothingLeaks`) | 3 free clusters of 2 sectors and a reserved one, 2 entries, an empty and a two-cluster file, volumes with a fragmented or a looping chain |
| `M5` | interrupts nest by priority, so RETI ends the right one (`RetiEndsLatest`); an accepted interrupt has a source when it is acknowledged (`AcceptedHasSource`); both ends of each wire agree after resets and loads too (`WiresAgree`); whatever is saved can be loaded (`SavedStateLoads`); skipping clocks changes nothing (`SkippingIsExact`) | channels 2 and 3, prescalers 2 and 3, constants 1 and 2, CK2 of 4 clocks, blocks of 5 half-cycles, a state saved in a handler; 181,588 states |
| `Serial` | whatever bytes, words, requests, resets and pushed bytes come while clocks are held back: the transmitter never gets stuck (`TransmitterNeverStuck`) and cannot tell that its clocks were late (`LazinessInvisible`); a byte received is delivered within a frame and not before the line has had its frame (`ReceiverKeepsTime`), and never two in a step, so that an overrun is the guest's own omission (`OneByteAtATime`) | 2 formats, 2 speeds, frames of 3, 5 and 6 clocks, blocks of 2, a queue of 2; 380,838 states |

Runs that show a disagreement between the code and what the repository says of it:

| run | disagreement |
|---|---|
| `SerialLoad` | a state saved with clocks held back delivers them twice after a load, so a frame ends early (`SF7000.cpp:785`) |
| `RewindStart` | Start SF-7000 while the cursor is in the past of the same machine ends in the newest capture of the session before, not in the boot sequence |

### Bounds

Geometry: three tracks are the least in which a seek has a track to skip, and two the
least in which FORMAT and READ_ID can meet a different track; one sector shows presence
and absence, two the choice of the next one (`Driver`); two bytes show a transfer in its
middle. A byte's length is
two bytes, the buffer's too; `FdcGuest` and `Driver` say above which lengths there are
besides, and in the latter and in `Board` all of them fit. `MaxTurns` is 0, so that the
idle bit clock is the position alone. The theorems hold for any lengths and any number
of turns. `Blocks = {1}` delivers every instant, and the board makes longer blocks of them
by setting them aside. In the program a block is one instruction and the index pulse
some 4 ms: a block that jumped over the pulse would lose it. In the board runs the bytes
are multiples of four, so the guest selects drive 0; with another drive selected
`IndexPhaseCommon` is not claimed, as the bit clock stands still for it.
`LazinessInvisible` excuses the one event the board is not told of, an eject, and what it
leaves behind: the disc put in after it while the motor turns, and the clocks that were
set aside and are dropped once nothing needs time any more (`ClocksDropped`; only the
recovery of the data register can tell, so it takes READ_DATA, with which the space is
too large for this run at its other bounds; the theorem covers it). Of the lines of port E6 the
motor and TC move there; the reset line passes through the same `SetPortE6`, and the
machine's reset is in. `Rotation` uses a register so narrow that the longest blocks
saturate and yet as wide as `WidthAssumption` asks; `Horizon` bounds the time explored.
In `Sound` blocks and requests are shorter and longer than the ring, and `MaxOffered`
lets it wrap around more than once. In `Mcp` a limit of one makes the second request
meet a full server, and two starts let a thread of the first server meet the second. In
`Disc` three free clusters are the least in which a file of two can be put round another
one; a data sector is told from every other of the same file. Its images satisfy
`Apart`: no two entries share a name or a cluster (see the observations for discs that
do not). One path is configured, so `EditPath` changes nothing there; with a second one TLC
does not finish in the time of a run. In `M5` a block of five half-cycles leaves an odd one over and is longer than
half a period of CK2, which is longer than a clock, so that events fall before, on and
after an edge. Of the four channels the guest programs a timer that starts on CK2 and a
counter of the video pin: two are the least that nest. The words of the timer change its
prescaler, disable its interrupt and take its trigger away; three channels at work are
out of TLC's reach, and the theorems cover them. In `Serial` frames of 3, 5 and 6 clocks
and blocks of 2 make deadlines fall in a block and on its end, and every change of speed
meets remainders that do not divide; a queue of two is the least from which two bytes
could come at once. In the program the shortest frame is thousands of clocks and a
block those of one instruction; that a block is shorter is `BlockAssumption`, on which
`ReceiverKeepsTime` and `OneByteAtATime` rest. `Serial` runs without save states (`RunningSpec`): with them the receiver's
properties are false, since clocks delivered twice after a load, the subject of
`SerialLoad`, let it run ahead of the line; the transmitter's are proved with them. In
`Rewind` the least boot that evicts a group is five frames: a group of two, and the
window of three captures that has to remain. The smaller memory limit evicts before the
window does, the larger never; a second video device empties the ring in the middle of a
capture. `Strides = {1}` and `StartFrom = {"rom"}` keep two situations out in which the
properties are false: the first is an observation below, the second is the subject of
`RewindStart` (there `NoHoles` fails too: two sessions of the SF-7000 are spliced into
one history, since nothing tells their captures apart). From a cartridge, Start SF-7000
is in: the shape of a capture changes and the ring starts again.

### Fairness

`DriverSpec`: time passes, and a guest in the middle of a command goes on with it
(weak fairness of `TimePasses`, `SendByte`, `FetchByte`, `PollStatus`, `EndRead`).
The emulation loop runs clock blocks for ever, and a driver is a loop over the
status register; nothing obliges it to *start* a command. `SoundQueue`: a thread inside a
call takes its next step; the device is never obliged to call back, and nobody is
obliged to call `Write`. `McpBridge`: the reader, the writer and a call of Start or
Stop once begun take their next step, which stands for the operating system's
scheduling and for the time limits of the transport; the emulation thread is not
obliged to pump commands, as a modal dialogue keeps it from doing, nor a client to
connect. No strong fairness anywhere.

## Proofs

`NEC765Proofs` proves, for every geometry, byte range, step rate, block length,
set of commands and set of media that satisfies the assumptions of `NEC765`:

- `TypeCorrect`, `BusyIsCaused`, `FormatIsExclusive`;
- `TransfersFit` (`StaysInBuffer`): whatever the guest does, if no length named by guest
  or media is longer than the sector buffer, no access leaves it. The hypothesis
  (`LengthsFit`) is needed, since the code compares nothing with the buffer's size: what is
  proved is that a transfer never goes on past its length, and that no order of formatting,
  changing, reading and writing discs makes a length that nobody named;
- `HeadMovesOnlyBySeeking`, an action property;
- `ProtectionHoldsWithoutFormat`: no protected medium is changed if FORMAT is not
  among the commands (with it, the property is false: see the observations).

The invariants are not inductive alone. The inductive one is `ProtocolInv == TypeOK /\
Consistent(fdc)`: `Consistent` conjoins `BusyHasCause` and `FormatOwnsController` with the
fact that the offset of a transfer is zero or below its length, and zero from the last
parameter byte of a WRITE_DATA on. They need each other: `FormatOwnsController` is what
keeps a result phase from being entered in the middle of a format revolution, and so from
leaving the chip busy without a cause. The proof has a lemma for each operator on the record
(`...Type` and `...Consistent`), then one step per disjunct of `Next`. For `TransfersFit`
the invariant is `BufferInv`: in addition, under `LengthsFit`, every length that the
controller holds (`ShortFdc`, the entries of a format under way included) or that is on the
disc (`ShortMedium`) fits the buffer.

`NEC765Proofs` also proves, of the guest of `NEC765Driver` that keeps to the handshake
and for the same constants: `StatusIsTruthful` (`MsrTruthful`), `BackgroundIsExclusive`
(`BackgroundExclusive`) and `FoundIdsAreOnTrack` (`FoundIdIsOnTrack`). The invariant
`DriverInv` says which bits of the status register go with which phase, and that work in
the background belongs to one command and runs behind the busy bit (`Orderly`): that is
what makes the handshake keep away the bytes that would overtake a seek, a search or a
format revolution. Hence the head and the sectors under it stay put while a search lasts,
and the index it holds, then the ID it has found, are those of the track (`Located`).

`FdcRotationClockProofs` proves, for every ratio, block set and register width
that satisfies the assumptions:

- `RotationTypeCorrect`: the fraction kept is less than one bit;
- `RotationNeverDrifts`: however time was cut into blocks, and whatever the media
  were, the bits and the fraction add up to the exact position;
- `DeadlinesAreExact`: the clocks reported until a deadline suffice, and one less
  does not;
- `RotationNeverRunsBackwards`: more clocks never mean fewer bits, on either side of the
  saturation.

The argument is the identity `AdvanceExact` (bits times clocks plus the new
remainder equals the old remainder plus clocks times rate, when nothing
saturates); deadlines follow from the characterisation of a rounded-up quotient
(`CeilingOfDeadline`). `WidthAssumption` is what the code's comment on bounded
products says, with the two revolutions that a search on an empty track needs.

`SF7000Proofs` proves of the board, whatever the block lengths, timings and media:

- `BoardTypeCorrect`, and `BoardKeepsProtocol`: a controller that is fed late and in one
  go is never busy without a cause, belongs to FORMAT while a format revolution turns,
  and the CPU's next data byte stays in the buffer if the lengths named fit it;
- `NothingWaits` (`NothingOverdue`): no event waits in the clocks set aside;
- `BoardIsImmediate` (`LazinessInvisible`): with the clocks set aside counted in, the
  board implements `NEC765` step by step, the eject apart;
- `IndexStaysInPhase` (`IndexPhaseCommon`): spindle and bit clock are at one position, if
  the guest selects drive 0 only.

The invariant adds two facts to that of the controller: what it waits for lies ahead
(`NotDue`, which a tick of any length restores), and further ahead than the clocks set
aside (`SetAside`). Within these, a tick moves neither the head nor a search nor a
format (`CalmTick`): it is `Elapsed`, which only adds to three counters, so two ticks of
which the first meets no event are one (`TicksAdd`; the revolutions that the model drops
make no difference, `KeptAdds`), and clocks set aside may be charged
to another disc that turns alike (`LateMedium`). With `Waiting` (clocks are set aside
only for what they bring about, until an eject) this gives the refinement, one step per
action (`LazyStep`). For the index the invariant is `InPhase`, that the spindle is where
the pending clocks will take the bit clock, and the arithmetic is that of positions modulo
a revolution (`PositionMovesOn`). `BoardAssumption` asks that a data mark comes after its ID mark; in
the code the distance is a sum of positive constants (`NEC765.cpp:639`).

`SoundQueueProofs` proves, for every capacity, block and request size:
`TypeCorrect`, `CountersStayInOrder`, `CopiesNeverOverlap`, `RingOutlivesEveryCallback` and
`EverySampleAccounted`. The invariant relates each thread's program counter to what the
counters must have been when it loaded them (`Counted`, `Reach`), to the life of the ring
(`Lifetime`) and to the books (`Books`).

`RingImplementsFifo` (`ImplementsFifo`) is the refinement of `SampleFifo`: the queue is the
row of slots between the counters. The counters alone do not say what the slots hold, so
`Faithful` adds it: a copy that is finished but not yet published holds the block's samples
in order, one that is finished but not yet released holds those of the row, and blocks
arrive in the order of their numbers. A copy under way changes only slots outside the row
(`SlotsDiffer`), so every step but publish, release and the resets leaves the queue alone.

`McpBridgeProofs` proves, for every set of clients and limit: `TypeCorrect`,
`EveryoneGetsTheirOwn` and `PendingIsAccounted`. The invariant says which tokens and
which requests each thread and queue may hold (`Held`, `Tags`), and what a thread that
stops has left behind (`Stopping`).

`BridgeKeepsPromise` (`KeepsPromise`) is the refinement of `RequestReply`. It takes two facts
more. `Books`: the requests accepted and not yet executed are those in the command queue and
the one that runs, each there once, and a result is one of a tool that has run, also once;
otherwise a tool could run twice, or an answer come before the work. `Views`: whoever is
connected still waits for an answer, and over stdio, which has no token to tell one
connection from another, so does everyone whose request is under way.

`SystemBusM5Proofs` proves, for every prescaler, constant, control word, block length and
set of stored states that satisfies the assumptions, with all four channels at work:

- `TypeCorrect`, `SavedStatesAlwaysLoad`, `WiresAlwaysAgree`, `AcceptedAlwaysHasSource`;
- `RetiAlwaysEndsLatest`: the channels in service are those of the stack of handlers, in
  falling priority from its top;
- `SkippingIsAlwaysExact`: one stride or two come to the same chip.

The invariant is `Lines /\ Rest /\ Services`: every channel is one that LoadState accepts
and the pin is its level, the levels at the wires agree, and the services nest. That the
channels stay loadable is what keeps a counter from passing below zero in a skip, so the
five properties need each other. `SkippingIsAlwaysExact` follows from the quotient and
remainder of a phase (`ClockedForm`, `ClockedInTwo`).

`SerialPortProofs` proves, for every table of frame lengths, set of blocks and bound, with
resets, save states and loads: `TransmitterAlwaysReturns` and `LazinessAlwaysInvisible`. The
invariant is that the port brought up to date and the exact one are `Twins`: both `Sound` (a
byte is under way if and only if clocks are left, and an enabled transmitter that is not
ready has one), configured alike, their transmitters the same. It is kept because the
transmitter adds up (`TransmitAdds`: two blocks do to it what their sum does), because what
is left of a frame is rounded up and so not to zero (`RoundsUp`), and because what a guest
does to twins makes twins.

While no state is loaded (`RunningSpec`; after a load the properties are false, see
`SerialLoad`) it proves of the receiver `ReceiverAlwaysKeepsTime` (`ReceiverKeepsTime`) and
`NeverTwoBytes` (`OneByteAtATime`). Neither is inductive: both depend on how far the clocks
set aside have got. `LineInv` says that these hold no deadline (`HeldBack`), that the frame
counted by the chip, the clocks set aside and what the line has had agree (`Fits`), and what
`Count` has seen of the queue when a byte is pushed after the deadline was computed (`Seen`).
`BlockAssumption` keeps one block from holding two frames.

`RewindProofs` proves, for every group size, window, memory limit and number of boots:

- `AlwaysAccounted` (`RingAccounted`) and `WindowStays` (`WindowKept`);
- `RingImplementsHistory` (`ImplementsHistory`), the refinement of `RewindHistory`;
- `HistoryHasNoHoles` (`NoHoles`) and `SeeksLand` (`SeekLandsOnAge`), if there is a capture
  every frame (`Strides = {1}`) and the SF-7000 is started from a cartridge only
  (`StartFrom \subseteq {"rom"}`). Both hypotheses are needed: without the first the
  properties are false (see the observations), without the second as `RewindStart` shows.

The bytes of a ring and the captures of a chain are recursive functions of an index. What
they are of a ring that was cut, extended or evicted from is proved by induction over the
indices, as the least element of a set of naturals. The invariant is `Kept`, and its parts
need each other. `Accounted`: counts and bytes are those of the groups; it decides what is
evicted. `Chained`: every group opens with a keyframe and every difference starts where the
one before ended, without which nothing decodes. `Linked`: `previous_raw` is the end of the
newest group or empty, without which the next difference would start elsewhere. `Shaped`:
all captures have one size, so that an XOR of two is one. `InWindow`: the ring holds at most
the window and a group, so that the eviction of whole groups leaves the window. And a
recorder that is switched off is empty.

Each operation of the recorder is first shown to keep `Kept` and what it does to `Line`, the
captures that come out. Every step of the program is then one of seven moves (`Moves`: a
frame ends, nothing happens, a seek, a branch, the history is dropped, a ring is trimmed, a
machine is started; `OperationsMove`), and each theorem has one step per move. The last two
take `Tracks`: unless a capture was missed, neighbours in the line are a frame apart, and
what is on the screen is the capture under the cursor, unless it has moved on unrecorded.

Only model-checked:

- everything about liveness (`CommandsComplete`, `CallsReturn`, `PortStaysAlive`,
  `StopReturns`), which is out of the prover's reach;
- the disc explorer (`FilesKept`, `NothingLeaks`): `SF7Disc` walks chains with a recursive
  operator, which the prover does not support;
- what the code does not keep (`LoadGoesOn`, `StartBoots`).

## Observations without a run of their own

Met while modelling; each is visible in the model.

- `Disk.cpp:587`: FORMAT rewrites the tracks of a write-protected medium, although
  `application.cpp:553` speaks of "still honouring an explicit user write-protect".
- `NEC765.cpp:1007`: once a sector was not found, ST1 reports a missing address mark for
  every later command until a reset.
- `SF7000.cpp:281`: the flag of the request mailbox is lowered after the lock is released; a
  request written in between (`RequestSpeed` and `RaiseFlag` between `TickCpu` and
  `ApplyRequest`) stays in its slot without a flag, although `SF7000.h:159` says "thread-safe,
  applied at next TickCpu()". Nothing calls the functions that write the slot, so no second
  thread reaches this line today.
- `NEC765.cpp:611`: a search on a track without sectors ends after two
  revolutions, whereas `FdcRotationClock.h:89` says deadlines "never exceed one
  revolution" (harmless: the width suffices, see `WidthAssumption`).
- `NEC765.cpp:1776`: a disc change zeroes the bit clock and leaves `findCompleteBit` and
  `formatCompleteBit`, so a search or a format revolution in flight takes as long again as
  the spindle had turned since the clock was last zeroed, not the "one full revolution" of
  line 1411.
- `Disk.cpp:587`, the same moment: a disc put in during a format revolution is the one that
  is formatted, though the command was addressed to the disc before it.
- `NEC765.cpp:1087`: the length of a WRITE_DATA is `128 << N` of the guest's size byte, and
  `sectorBuf` has 4096 bytes (line 101), so with an N of 6 or more line 1337 writes past it.
  `Disk.cpp:505` copies a whole sector there, whose length is the image's or, after a
  FORMAT, the guest's again (line 644). These are the steps that `InBuffer` excludes.
- `NEC765.cpp:1087`: with an N of 24 to 31 the shift leaves no positive length, and a
  WRITE_DATA ends by terminal count or a reset only.
- `Disk.cpp:541`: a WRITE_DATA stores as many bytes as the sector on the disc has, whatever
  length was sent. After a shorter transfer the rest is what the buffer held before; of a
  longer one the rest is lost.
- `Disk.cpp:603`: FORMAT frees the old track before it builds the new one; if a length is
  negative (`N` of 24) its memory cannot be had, and the track is gone (`SetFormattedTrack`).
- `NEC765.cpp:1246`: RECALIBRATE passes its parameter byte, the drive number, as
  the destination track: RECALIBRATE of drive 1 goes to track 1.
- `NEC765.cpp:611` with `SF7000.cpp:110`: READ_ID addressed to a drive without a
  disc never times out, since raw bits do not pass for it.
- `NEC765.cpp:1410`: FORMAT with a sector count of zero never reaches its end.
- `GearSF7000Core.cpp:2954`: an eject does not synchronise the controller, so the
  rotation pending at that moment is lost or charged to the next disc;
  `SF7000::FDC765_DiskEject`, which would synchronise, has no caller. Clocks set aside
  before it may even be dropped (`SF7000.cpp:356`, `ClocksDropped`), and with them a part
  of the recovery time of the data register.
- `COM8251A.cpp:910`: the lengths of the two queues are saved in sixteen bits and all their
  bytes after them. Without a backend nothing empties the queue of sent bytes
  (`COM8251A.cpp:532`, no caller of `PopTxByte`), so a long session overflows the field.
- `COM8251A.h:108`: Init "may be called again to change the clock rate; the emulator state is
  preserved (no hardware reset)", whereas `COM8251A.cpp:184` resets it.
- `SF7000.cpp:235`: a reset lowers the flag of the mailbox but leaves the request in its slot.
- `rewind.cpp:519` with `frames_per_snapshot` greater than one: a seek loads the
  capture before and runs *one* frame, so it lands short of the age by the stride
  less one, though the comment at line 507 says "exactly on `age`" and
  `README.md:434` offers "a larger frame stride". `SeekLandsOnAge` and `NoHoles`
  are false with `Strides = {2}`: a branch made there captures a moment twice.
- `rewind.cpp:528`: the frame run by a seek uses the inputs held at the capture
  before; if they changed in the frame sought, the machine differs from its capture.
- `rewind.cpp:446`: a capture that fails leaves a hole, and seeks across it land
  early (`missed` excuses `NoHoles` and `SeekLandsOnAge`).
- `rewind.cpp:708`: configuring a smaller memory limit while scrubbed trims groups
  under the cursor, which then names an age that is no longer held.
- `emu.cpp:1825`: Continue "must return to the live edge"; after an unrecorded
  interval it returns to the newest capture, which is older.
- `mcp_transport.h`, stdio: when stdin ends the reader stops the response queue and
  empties it, so commands queued before are run and never answered.
- `mcp_transport.h:51`, "Nothing may hold a client longer than this": the limit on
  reading is one of each `recv`, so a client that dribbles bytes holds on.
- `SF7Disc.cpp:578`: importing under a name of spaces or `.` succeeds, and makes an
  entry that counts as empty: its clusters are lost and the import can be repeated
  (`NothingLeaks` excuses exactly this).
- `gui_debug_disc_explorer.cpp:408`: Save, whose tool tip says "Writes the image
  back", writes to the path now in the text field; Browse and typing change it
  without opening anything, so another image may be overwritten.
- `gui_debug_disc_explorer.cpp:436`: an import into an earlier slot moves the
  selection, which is an index, to the file before the one selected.
- `gui_debug_disc_explorer.cpp:391`: Delete passes a name; of two entries with the
  same normalised name the first one goes, whichever was selected.
- `SF7Disc.cpp:668`: a chain that shares a cluster with another passes the test of
  `deleteFile`, which then frees the other file's cluster; the next import reuses it.
- `emu.cpp:1832`: with a cursor from a machine of another medium the seek is
  refused and Continue does nothing, until a frame is stepped.
- `SF7000.cpp:356`: without rotation and without a seek, clocks are dropped instead of
  set aside, so with the motor off the recovery time of the data register does not pass
  and a guest that polls for RQM polls until the motor turns; `NEC765.cpp:532` calls that
  time "independent of the clock domain used to drive the controller".
- `GearSF7000Core.cpp:2744`: after a load the adapter of the video pin is given the level
  of channel 3, which is active low, though its level is a logical one
  (`VdpInterruptAdapter.h:61`, "only the remembered level has to agree with it"). It is
  read only when the adapter's target changes.
- `SystemBusM5.cpp:84`: the opcode bytes CB ED 4D (`SET 5,L` and `LD C,L`) look like RETI
  to the board, since it does not know that ED was the second byte of an instruction.
- `GearSF7000Core.cpp:2726`: a state of which a later section is rejected has replaced the
  chip by then, and the lines are not reconciled. `LoadState` models the load that succeeds.

## Plan

Done: the floppy controller, its board and clock, the sound queue, the recorder and run
control, the MCP bridge, the disc explorer, the CTC and the M5's interrupts, the serial
port, with theorems about nine of them: `NEC765`, `NEC765Driver`, `SF7000`,
`FdcRotationClock`, `SoundQueue`, `McpBridge`, `SystemBusM5`, `SerialPort` and `Rewind`.
Left, in this order:

1. theorems: the disc explorer (`FilesKept`, `NothingLeaks`), once its walk along a chain is
   a recursive function;
2. the other sections of a save state, and its loads that fail half-way;
3. the CPU's port to the video memory and its slots (`TMS99xxVramSequencer.cpp`);
4. the PPI's handshakes, the frame scheduler, the TZX player.

## Not modelled

- The CPU's instructions, rendering, audio synthesis: data paths, whose model would be
  as long as their code and whose errors are of a kind that tests reach.
- Memory maps, mappers, keyboards: tables and single assignments.
- Image, cartridge and database loaders, printers, recorders: file formats and output.
- GUI, settings, other ports, third-party code: presentation and hosts.
- The USART's backends: log file, sockets and their thread's reconnection, which nothing in
  the program turns on. The mailbox is modelled, although no front end calls it yet.
- The components of the plan above.
