------------------------------- MODULE Rewind -------------------------------
(***************************************************************************)
(* The frame recorder (platforms/desktop-shared/rewind.cpp) and the run      *)
(* control that drives it (emu.cpp, gui_debug_rewind.cpp and the MCP tools). *)
(*                                                                         *)
(* Captures are taken once per frame and held in groups: a keyframe and      *)
(* differences, each against the capture before it.  A machine state is      *)
(* what it was started as and the inputs of every frame since.  The          *)
(* difference of two captures turns either into the other and anything       *)
(* else into Garbled, as an exclusive or does.                               *)
(***************************************************************************)
EXTENDS Integers, Sequences, FiniteSetsExt

CONSTANTS
  FramesPerGroup,        \* kFramesPerGroup
  Fps,                   \* FramesPerSecond()
  KeyBytes, DeltaBytes,  \* size of a stored keyframe, of a stored difference
  AssumedBytes,          \* bytes per frame assumed before any capture
  Seconds, Strides, MemoryLimits,  \* arguments of rewind_configure
  Inputs,                \* what the host can hold down during a frame
  StartFrom,             \* the modes in which start_sf7000 is used
  MaxTime,               \* bound on the frames since a boot
  MaxDevice              \* bound on the video devices installed

ASSUME RewindAssumption ==
  /\ {FramesPerGroup, Fps, MaxTime, MaxDevice} \subseteq Nat \ {0}
  /\ {KeyBytes, DeltaBytes, AssumedBytes} \subseteq Nat \ {0}
  /\ Seconds \cup Strides \cup MemoryLimits \subseteq Nat \ {0}
  /\ StartFrom \subseteq {"rom", "sf7000"}

VARIABLES
  machine,   \* the emulated machine
  run,       \* the core's pause bit and the debugger's run state
  active,    \* DebugEventManager::IsRuntimeActive
  g,         \* the Recorder
  booted     \* history: the last step was a start of the SF-7000

vars == <<machine, run, active, g, booted>>

\* mode: "none" when no machine is ready; device: the video device installed.
Boot(mode, device) == [mode |-> mode, device |-> device, past |-> << >>]
NoCapture == Boot("none", 0)
Garbled == Boot("garbled", 0)
Ready == machine.mode # "none"
Ran(m, input) == [m EXCEPT !.past = Append(@, input)]

-----------------------------------------------------------------------------
(* Stored frames.                                                            *)

Size(f) == IF f.keyframe THEN KeyBytes ELSE DeltaBytes
Total(amounts) ==
  LET upTo[j \in 0..Len(amounts)] == IF j = 0 THEN 0 ELSE upTo[j - 1] + amounts[j]
  IN upTo[Len(amounts)]
BytesOf(frames) == Total([i \in DOMAIN frames |-> Size(frames[i])])
FramesIn(groups) == Total([j \in DOMAIN groups |-> Len(groups[j].frames)])
BytesIn(groups) == Total([j \in DOMAIN groups |-> groups[j].bytes])
FirstGroups(groups, j) == SubSeq(groups, 1, j)

Xor(f, capture) ==
  IF capture = f.from THEN f.to ELSE IF capture = f.to THEN f.from ELSE Garbled

\* The captures of one group: the chain starts at its keyframe.
Decoded(frames) ==
  LET capture[i \in DOMAIN frames] ==
        IF i = 1 THEN IF frames[1].keyframe THEN frames[1].to ELSE Garbled
        ELSE Xor(frames[i], capture[i - 1])
  IN capture

\* All the captures held, oldest first; the one age frames back from the newest.
Decompressed(groups) ==
  LET upTo[j \in 0..Len(groups)] ==
        IF j = 0 THEN << >> ELSE upTo[j - 1] \o Decoded(groups[j].frames)
  IN upTo[Len(groups)]
ReconstructRaw(r, age) == Decompressed(r.groups)[r.count - age]
line == Decompressed(g.groups)

CeilDiv(a, b) == (a + b - 1) \div b
TargetCapacity(r) == CeilDiv(r.seconds * Fps, r.frames_per_snapshot) + 1
ExposedCount(r) == IF r.count <= 1 THEN 0 ELSE Min({r.count - 1, TargetCapacity(r)})

-----------------------------------------------------------------------------
(* The recorder's own operations: each maps a Recorder to a Recorder.        *)

Forgotten(r) ==
  [r EXCEPT !.groups = << >>, !.bytes = 0, !.count = 0, !.frame_accum = 0,
            !.seek_position = -1, !.previous_raw = NoCapture, !.raw_size = "none",
            !.device = 0, !.missed = FALSE, !.memory_limited = FALSE, !.gap = FALSE]

\* Mutant: the bytes of an evicted group stay on the account.
WithoutOldestUncharged(r, n) ==
  [r EXCEPT !.groups = SubSeq(@, n + 1, Len(@)),
            !.count = @ - FramesIn(FirstGroups(r.groups, n))]

WithoutOldest(r, n) ==
  [r EXCEPT !.groups = SubSeq(@, n + 1, Len(@)),
            !.bytes = @ - BytesIn(FirstGroups(r.groups, n)),
            !.count = @ - FramesIn(FirstGroups(r.groups, n))]

\* Drops whole groups from the old end until Enough or one is left.
DropUntil(r, Enough(_)) ==
  WithoutOldest(r, Min({n \in 0..Len(r.groups) :
    LET left == WithoutOldest(r, n) IN Len(left.groups) <= 1 \/ Enough(left)}))

\* Mutant: trims as soon as the window is exceeded.
TrimAtCapacity(r) ==
  LET InWindow(x) == x.count <= TargetCapacity(x) + 1
      InMemory(x) == x.bytes <= x.memory_limit
      windowed == DropUntil(r, InWindow)
      fitted == DropUntil(windowed, InMemory)
  IN [fitted EXCEPT !.memory_limited = @ \/ fitted.groups # windowed.groups]

Trim(r) ==
  LET InWindow(x) == x.count - Len(x.groups[1].frames) < TargetCapacity(x) + 1
      InMemory(x) == x.bytes <= x.memory_limit
      windowed == DropUntil(r, InWindow)
      fitted == DropUntil(windowed, InMemory)
  IN [fitted EXCEPT !.memory_limited = @ \/ fitted.groups # windowed.groups]

\* Gives up the frames newer than the cursor, and the chain with them.
CommitSeek(r) ==
  LET keep == r.count - r.seek_position
      Cut(j) == LET size == Len(r.groups[j].frames)
                IN SubSeq(r.groups[j].frames, 1,
                          Min({size, keep - FramesIn(FirstGroups(r.groups, j - 1))}))
      whole == {j \in DOMAIN r.groups : FramesIn(FirstGroups(r.groups, j - 1)) < keep}
      groups == [j \in whole |->
                   [frames |-> Cut(j),
                    bytes |-> r.groups[j].bytes - BytesOf(r.groups[j].frames) + BytesOf(Cut(j))]]
  IN IF r.seek_position <= 0 THEN [r EXCEPT !.seek_position = -1]
     ELSE [r EXCEPT !.groups = groups,
                    !.bytes = @ - (BytesIn(r.groups) - BytesIn(groups)),
                    !.count = FramesIn(groups),
                    !.previous_raw = NoCapture, !.seek_position = -1]

\* Mutant: captures go on across an interval that was not recorded.
OneBranchSpliced(r) == IF r.seek_position > 0 THEN CommitSeek(r) ELSE r

\* What comes before the capture itself: an unrecorded interval ends the history,
\* running on from the past cuts it.
OneBranch(r) ==
  LET whole == IF r.gap THEN Forgotten(r) ELSE r
  IN IF whole.seek_position > 0 THEN CommitSeek(whole) ELSE whole

\* The ring starts again when the video device or the shape of a capture changed.
Fitted(r, raw) ==
  LET sameDevice == IF r.device # 0 /\ raw.device # r.device THEN Forgotten(r) ELSE r
      learned == IF sameDevice.device = 0 THEN [sameDevice EXCEPT !.device = raw.device]
                 ELSE sameDevice
      sameSize == IF learned.raw_size \notin {"none", raw.mode} THEN Forgotten(learned)
                  ELSE learned
  IN [sameSize EXCEPT !.raw_size = raw.mode]

\* Mutant: a chain cut by CommitSeek is continued.
NeedKeyframeUnlessFull(r, raw) ==
  \/ r.groups = << >>
  \/ Len(r.groups[Len(r.groups)].frames) >= FramesPerGroup

NeedKeyframe(r, raw) ==
  \/ r.groups = << >>
  \/ Len(r.groups[Len(r.groups)].frames) >= FramesPerGroup
  \/ r.previous_raw.mode # raw.mode

Stored(r, raw) ==
  LET key == NeedKeyframe(r, raw)
      frame == [keyframe |-> key, from |-> IF key THEN NoCapture ELSE r.previous_raw, to |-> raw]
      open == IF key THEN Append(r.groups, [frames |-> << >>, bytes |-> 0]) ELSE r.groups
  IN [r EXCEPT !.groups = [open EXCEPT ![Len(open)] =
                             [frames |-> Append(@.frames, frame), bytes |-> @.bytes + Size(frame)]],
               !.bytes = @ + Size(frame), !.count = @ + 1, !.previous_raw = raw]

\* rewind_push for a machine that has just finished a frame.
Pushed(r, raw, outcome) ==
  LET ready == OneBranch(r)
      due == [ready EXCEPT !.frame_accum = 0]
      fitted == Fitted(due, raw)
  IN CASE ~r.enabled -> r
       [] r.enabled /\ ~active -> [r EXCEPT !.gap = TRUE]
       [] r.enabled /\ active /\ ready.frame_accum + 1 < r.frames_per_snapshot ->
            [ready EXCEPT !.frame_accum = @ + 1]
       [] OTHER ->
            CASE outcome = "unsaved" -> [due EXCEPT !.missed = TRUE]
              [] outcome = "undeflated" -> [fitted EXCEPT !.missed = TRUE]
              [] outcome = "ok" -> [Trim(Stored(fitted, raw)) EXCEPT !.seek_position = -1]
Outcomes == {"ok", "unsaved", "undeflated"}

-----------------------------------------------------------------------------
(* Run control.                                                              *)

Running == [paused |-> FALSE, debugging |-> FALSE, pending |-> 0]

\* LoadState refuses a state of another medium or video device.
Loads(raw, m) == raw.mode = m.mode /\ raw.device = m.device

CanSeek(r, age, m) ==
  /\ r.enabled /\ m.mode # "none" /\ age < ExposedCount(r)
  /\ Loads(ReconstructRaw(r, age + 1), m)

\* The picture of a capture is drawn by running one frame from the one before it,
\* with the inputs held when that one was taken.
Replayed(raw) == Ran(raw, raw.past[Len(raw.past)])

\* Mutant: runs the frame from the capture asked for.
RewindSeekPast(age) ==
  /\ g' = [g EXCEPT !.seek_position = age]
  /\ CanSeek(g, age, machine)
  /\ machine' = Replayed(ReconstructRaw(g, age))
  /\ run' = [run EXCEPT !.paused = TRUE]

RewindSeek(age) ==
  /\ g' = [g EXCEPT !.seek_position = age]
  /\ CanSeek(g, age, machine)
  /\ machine' = Replayed(ReconstructRaw(g, age + 1))
  /\ run' = [run EXCEPT !.paused = TRUE]

\* emu_debug_continue on machine m with recorder r: back to the newest capture first.
Continue(r, m, stopped) ==
  IF m.mode = "none" THEN machine' = m /\ g' = r /\ run' = stopped
  ELSE IF r.seek_position <= 0 THEN machine' = m /\ g' = r /\ run' = Running
  ELSE IF CanSeek(r, 0, m)
       THEN /\ machine' = Replayed(ReconstructRaw(r, 1))
            /\ g' = [r EXCEPT !.seek_position = 0]
            /\ run' = Running
       ELSE machine' = m /\ g' = r /\ run' = stopped

FrameEnds ==
  /\ Ready /\ Len(machine.past) < MaxTime
  /\ \E input \in Inputs, outcome \in Outcomes :
       /\ machine' = Ran(machine, input)
       /\ g' = Pushed(g, machine', outcome)

\* emu_run_frame
RunFrame ==
  /\ ~run.paused /\ (run.debugging => run.pending > 0)
  /\ FrameEnds
  /\ run' = [run EXCEPT !.pending = IF @ > 0 THEN @ - 1 ELSE 0]
  /\ UNCHANGED active

\* emu_debug_step_frames_now(1), the synchronous MCP step
StepFrameNow ==
  /\ active /\ FrameEnds
  /\ run' = [paused |-> TRUE, debugging |-> TRUE, pending |-> 0]
  /\ UNCHANGED active

StepFrame ==
  /\ active
  /\ run' = [paused |-> FALSE, debugging |-> TRUE, pending |-> 1]
  /\ UNCHANGED <<machine, active, g>>

\* emu_debug_step_into: stops at the next instruction.
Break ==
  /\ active
  /\ run' = [paused |-> FALSE, debugging |-> TRUE, pending |-> 0]
  /\ UNCHANGED <<machine, active, g>>

Pause ==
  /\ run' = [run EXCEPT !.paused = TRUE]
  /\ UNCHANGED <<machine, active, g>>

Scrub ==
  /\ active
  /\ \E age \in 0..g.count : RewindSeek(age)
  /\ UNCHANGED active

Play == Continue(g, machine, run) /\ UNCHANGED active

\* gui_debug_rewind_resume_from_here, and play_from_here of the MCP
PlayFromHere ==
  /\ active
  /\ g.enabled /\ g.seek_position > 0
  /\ Continue(CommitSeek(g), machine, run)
  /\ UNCHANGED active

\* Debug mode switched off, or the MCP server stopped.
SuspendRuntime ==
  /\ active /\ active' = FALSE
  /\ Continue(g, machine, run) \/ UNCHANGED <<machine, run, g>>

ResumeRuntime ==
  /\ ~active /\ active' = TRUE
  /\ \/ run' = [paused |-> FALSE, debugging |-> TRUE, pending |-> 0]
     \/ run' = run
  /\ UNCHANGED <<machine, g>>

-----------------------------------------------------------------------------
(* Configuration and media.                                                  *)

RequiredBytes(seconds, stride) ==
  (IF g.count > 0 THEN g.bytes \div g.count ELSE AssumedBytes) * CeilDiv(seconds * Fps, stride)

Configure(enabled, seconds, stride, limit) ==
  LET shapeChanged == seconds # g.seconds \/ stride # g.frames_per_snapshot
      set == [g EXCEPT !.seconds = seconds, !.frames_per_snapshot = stride,
                       !.memory_limit = limit, !.enabled = enabled]
  IN /\ enabled => RequiredBytes(seconds, stride) <= limit
     /\ ~(g.enabled /\ enabled /\ shapeChanged)
     /\ g' = IF enabled /\ ~shapeChanged THEN Trim(set) ELSE Forgotten(set)
     /\ UNCHANGED <<machine, run, active>>

\* A cassette put in or taken out, or Reset Data
RewindReset == g' = Forgotten(g) /\ UNCHANGED <<machine, run, active>>

Devices == {machine.device, Min({machine.device + 1, MaxDevice})}

\* emu_reset, and emu_load_rom for mode "rom"
ResetMachine(mode, pauseAtResetVector) ==
  /\ \E device \in Devices : machine' = Boot(mode, device)
  /\ g' = Forgotten(g)
  /\ run' = [paused |-> pauseAtResetVector, debugging |-> pauseAtResetVector, pending |-> 0]
  /\ UNCHANGED active

EjectRom ==
  /\ machine.mode = "rom"
  /\ machine' = Boot("none", machine.device)
  /\ g' = Forgotten(g)
  /\ run' = [run EXCEPT !.paused = FALSE]
  /\ UNCHANGED active

\* emu_start_sf7000: the history stays, and so does the cursor.
StartSF7000(pauseAtResetVector) ==
  /\ machine.mode \in StartFrom
  /\ \E device \in Devices :
       LET fresh == Boot("sf7000", device)
           held == [run EXCEPT !.paused = pauseAtResetVector]
       IN IF pauseAtResetVector THEN machine' = fresh /\ run' = held /\ g' = g
          ELSE Continue(g, fresh, held)
  /\ UNCHANGED active

\* emu_load_state_slot and emu_load_state_file
LoadState ==
  /\ Ready
  /\ machine' = Boot(machine.mode, machine.device)
  /\ g' = IF g.enabled THEN Forgotten(g) ELSE g
  /\ UNCHANGED <<run, active>>

-----------------------------------------------------------------------------
Init ==
  /\ machine = Boot("rom", 1)
  /\ run = Running
  /\ active = TRUE
  /\ booted = FALSE
  /\ \E seconds \in Seconds, stride \in Strides, limit \in MemoryLimits :
       g = [enabled |-> TRUE, seconds |-> seconds, frames_per_snapshot |-> stride,
            memory_limit |-> limit, groups |-> << >>, bytes |-> 0, count |-> 0,
            frame_accum |-> 0, seek_position |-> -1, previous_raw |-> NoCapture,
            raw_size |-> "none", device |-> 0, missed |-> FALSE,
            memory_limited |-> FALSE, gap |-> FALSE]

Operate ==
  \/ RunFrame \/ StepFrameNow \/ StepFrame \/ Break \/ Pause
  \/ Scrub \/ Play \/ PlayFromHere
  \/ SuspendRuntime \/ ResumeRuntime
  \/ \E enabled \in BOOLEAN, seconds \in Seconds, stride \in Strides, limit \in MemoryLimits :
       Configure(enabled, seconds, stride, limit)
  \/ RewindReset
  \/ \E mode \in {"rom", machine.mode} \ {"none"}, paused \in BOOLEAN : ResetMachine(mode, paused)
  \/ EjectRom
  \/ LoadState

Next ==
  \/ Operate /\ booted' = FALSE
  \/ (\E paused \in BOOLEAN : StartSF7000(paused)) /\ booted' = TRUE

Spec == Init /\ [][Next]_vars

-----------------------------------------------------------------------------
(* Properties.                                                               *)

\* The counters that pushing, cutting back and evicting keep by hand say what the
\* groups hold, which is at most the window and one group, and fits the memory
\* limit unless a single group is left; and a cursor lies within the window.
RingAccounted ==
  /\ \A j \in DOMAIN g.groups :
       /\ Len(g.groups[j].frames) \in 1..FramesPerGroup
       /\ g.groups[j].bytes = BytesOf(g.groups[j].frames)
  /\ g.count = FramesIn(g.groups) /\ g.bytes = BytesIn(g.groups)
  /\ g.count <= TargetCapacity(g) + FramesPerGroup
  /\ g.bytes <= g.memory_limit \/ Len(g.groups) = 1
  /\ g.seek_position \in -1..TargetCapacity(g) - 1

\* Unless a capture was missed, what is held is one uninterrupted stretch of one
\* machine's life: no gap, no moment twice, whatever was scrubbed, stepped,
\* suspended, restarted or reconfigured meanwhile.
NoHoles ==
  ~g.missed => \A i \in 1..g.count - 1 :
    /\ Loads(line[i], line[i + 1])
    /\ Len(line[i + 1].past) = Len(line[i].past) + g.frames_per_snapshot

\* Seeking an age puts the machine at the moment of the capture of that age.
SeekLandsOnAge ==
  [][Scrub /\ ~g.missed =>
       Len(machine'.past) = Len(ReconstructRaw(g, g'.seek_position).past)]_vars

\* Eviction by whole groups never shortens the stretch that can be sought: only a
\* new history, running on from the past or the memory limit does.
WindowKept ==
  [][g.seek_position <= 0 /\ g'.count > 1 /\ ~g'.memory_limited
       => ExposedCount(g') >= ExposedCount(g)]_vars

\* What comes out of the chains of differences is the history promised.
History == INSTANCE RewindHistory WITH cursor <- g.seek_position
ImplementsHistory == History!HistorySpec

\* start_sf7000 "resets into the SF-7000 boot sequence".
StartBoots == booted => machine.past = << >>

=============================================================================
