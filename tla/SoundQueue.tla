------------------------------ MODULE SoundQueue ------------------------------
(***************************************************************************)
(* The sound queue between the emulator and the audio device                *)
(* (platforms/audio-shared/sound_queue.cpp, SDL3 backend): a lock-free ring  *)
(* with one producer, the emulation thread, and one consumer, the device's   *)
(* pull callback.                                                           *)
(*                                                                         *)
(* The emulation thread also starts and stops the queue, so producer covers  *)
(* Write, Start and Stop.  The atomic counters are read and written in steps *)
(* of their own, the copies between them in others; the callback runs under  *)
(* the lock of the SDL stream.                                              *)
(*                                                                         *)
(* One thread making all these calls, Write never finds the queue closed in  *)
(* its loop: the early return there has no action of its own.                *)
(***************************************************************************)
EXTENDS Naturals, Sequences, FiniteSetsExt

CONSTANTS
  Capacity,    \* samples in m_ring
  Chunks,      \* sizes of the blocks passed to Write
  Requests,    \* sizes the device asks for
  MaxOffered   \* bound on the samples produced

ASSUME RingAssumption ==
  /\ Capacity \in Nat \ {0} /\ MaxOffered \in Nat
  /\ Chunks \subseteq Nat \ {0} /\ Requests \subseteq Nat \ {0}

VARIABLES
  ring,        \* contents of m_ring, << >> when it is empty
  readPos,     \* m_ring_read
  writePos,    \* m_ring_write
  open,        \* m_sound_open
  stopping,    \* m_stopping
  stream,      \* the SDL stream: "none", "paused", "running"
  producer,    \* the emulation thread
  device,      \* the callback
  offered,     \* number of the last sample produced (not in the code)
  accepted,    \* samples the ring took since Start (not in the code)
  asked,       \* samples Write was given since Start (not in the code)
  dropped,     \* m_producer_dropped_samples
  heard,       \* the last block delivered (not in the code)
  latest       \* the last sample published (not in the code)
counters == <<offered, accepted, asked, dropped>>
vars == <<ring, readPos, writePos, open, stopping, stream, producer, device,
          counters, heard, latest>>

Slot(p) == p % Capacity
Smallest(S) == Min(S)
Queued == writePos - readPos
Closed == ~open \/ stopping

\* first: number of the next sample of the block; n: samples about to be copied;
\* again: this Stop is the beginning of a Start.
Idle == [pc |-> "idle", sync |-> FALSE, first |-> 0, remaining |-> 0, n |-> 0,
         again |-> FALSE]
Resting == [pc |-> "idle", requested |-> 0, from |-> 0, n |-> 0, buffer |-> << >>]

-----------------------------------------------------------------------------
(* Write.                                                                    *)

\* Without sync only the tail of a block longer than the ring is kept.
Write(count, sync) ==
  /\ producer.pc = "idle" /\ open /\ offered + count <= MaxOffered
  /\ LET kept == IF sync \/ count <= Capacity THEN count ELSE Capacity
     IN /\ producer' = [Idle EXCEPT !.pc = "load", !.sync = sync, !.remaining = kept,
                                   !.first = offered + count - kept + 1]
        /\ asked' = asked + kept
  /\ offered' = offered + count
  /\ UNCHANGED <<ring, readPos, writePos, open, stopping, stream, device,
                 accepted, dropped, heard, latest>>

Room == Capacity - Queued

\* Mutant of Drop: the samples go uncounted.
DropSilently == dropped' = dropped
Drop == dropped' = dropped + producer.remaining

LoadCounters ==
  /\ producer.pc = "load" /\ ~Closed
  /\ \/ /\ Room > 0
        /\ LET contiguous == Capacity - Slot(writePos)
           IN producer' = [producer EXCEPT !.pc = "copy",
                !.n = Smallest({producer.remaining, Room, contiguous})]
        /\ UNCHANGED dropped
     \/ Room = 0 /\ producer.sync /\ producer' = [producer EXCEPT !.pc = "test"]
        /\ UNCHANGED dropped
     \/ Room = 0 /\ ~producer.sync /\ Drop /\ producer' = Idle
  /\ UNCHANGED <<ring, readPos, writePos, open, stopping, stream, device,
                 offered, accepted, asked, heard, latest>>

CopyIn ==
  /\ producer.pc = "copy"
  /\ ring' = [s \in DOMAIN ring |->
       IF \E i \in 0..(producer.n - 1) : s = Slot(writePos + i)
         THEN producer.first + (CHOOSE i \in 0..(producer.n - 1) : s = Slot(writePos + i))
         ELSE ring[s]]
  /\ producer' = [producer EXCEPT !.pc = "publish"]
  /\ UNCHANGED <<readPos, writePos, open, stopping, stream, device, counters, heard, latest>>

Publish ==
  /\ producer.pc = "publish"
  /\ writePos' = writePos + producer.n
  /\ accepted' = accepted + producer.n
  /\ latest' = producer.first + producer.n - 1
  /\ producer' = IF producer.remaining = producer.n THEN Idle
                 ELSE [producer EXCEPT !.pc = "load", !.first = @ + producer.n,
                                       !.remaining = @ - producer.n, !.n = 0]
  /\ UNCHANGED <<ring, readPos, open, stopping, stream, device, offered, asked, dropped, heard>>

\* wait_for with a predicate: test, and sleep if it is false.  The callback
\* notifies without the mutex, so it may do so between the two.
SpaceAvailable == Queued < Capacity \/ Closed

TestSpace ==
  /\ producer.pc = "test"
  /\ producer' = [producer EXCEPT !.pc = IF SpaceAvailable THEN "load" ELSE "drowsy"]
  /\ UNCHANGED <<ring, readPos, writePos, open, stopping, stream, device, counters, heard, latest>>

FallAsleep ==
  /\ producer.pc = "drowsy"
  /\ producer' = [producer EXCEPT !.pc = "asleep"]
  /\ UNCHANGED <<ring, readPos, writePos, open, stopping, stream, device, counters, heard, latest>>

\* Mutant of TimeOut: keeps waiting for the device.
WaitAgain ==
  /\ producer.pc = "asleep"
  /\ producer' = [producer EXCEPT !.pc = "test"]
  /\ UNCHANGED <<ring, readPos, writePos, open, stopping, stream, device, counters, heard, latest>>

\* kProducerWaitLimit: the predicate is tried once more, then the rest is dropped.
TimeOut ==
  /\ producer.pc = "asleep"
  /\ \/ SpaceAvailable /\ producer' = [producer EXCEPT !.pc = "load"] /\ UNCHANGED dropped
     \/ ~SpaceAvailable /\ Drop /\ producer' = Idle
  /\ UNCHANGED <<ring, readPos, writePos, open, stopping, stream, device,
                 offered, accepted, asked, heard, latest>>

-----------------------------------------------------------------------------
(* The callback.                                                             *)

\* Mutant of TakeFrom: the space is given back before it has been read.
TakeAndRelease(n) == readPos' = readPos + n
TakeFrom(n) == UNCHANGED readPos

Available(requested) == Smallest({requested, Queued, Capacity})

Fill(requested) ==
  /\ device.pc = "idle" /\ stream = "running"
  /\ IF ~Closed /\ ring # << >>
       THEN /\ device' = [pc |-> "copy", requested |-> requested, from |-> readPos,
                          n |-> Available(requested), buffer |-> << >>]
            /\ TakeFrom(Available(requested))
       ELSE /\ device' = [Resting EXCEPT !.pc = "finish", !.requested = requested]
            /\ UNCHANGED readPos
  /\ UNCHANGED <<ring, writePos, open, stopping, stream, producer, counters, heard, latest>>

CopyOut ==
  /\ device.pc = "copy"
  /\ device' = [device EXCEPT !.pc = "release",
       !.buffer = [i \in 1..device.n |-> ring[Slot(device.from + i - 1)]]]
  /\ UNCHANGED <<ring, readPos, writePos, open, stopping, stream, producer, counters,
                 heard, latest>>

Release ==
  /\ device.pc = "release"
  /\ readPos' = device.from + device.n
  /\ heard' = device.buffer
  /\ device' = [device EXCEPT !.pc = "finish"]
  /\ UNCHANGED <<ring, writePos, open, stopping, stream, producer, counters, latest>>

\* The rest of the request is silence; whoever waits for space is notified.
Finish ==
  /\ device.pc = "finish"
  /\ device' = Resting
  /\ producer' = IF producer.pc = "asleep" THEN [producer EXCEPT !.pc = "test"] ELSE producer
  /\ UNCHANGED <<ring, readPos, writePos, open, stopping, stream, counters, heard, latest>>

-----------------------------------------------------------------------------
(* Start and Stop.  Start stops the queue first.                             *)

BeginStop(again) ==
  /\ producer.pc = "idle"
  /\ stopping' = TRUE /\ open' = FALSE
  /\ producer' = [Idle EXCEPT !.pc = "pause", !.again = again]
  /\ UNCHANGED <<ring, readPos, writePos, stream, device, counters, heard, latest>>

\* No callback starts on a paused stream; one may still be running.
PauseStream ==
  /\ producer.pc = "pause"
  /\ stream' = IF stream = "none" THEN "none" ELSE "paused"
  /\ producer' = [producer EXCEPT !.pc = "lock"]
  /\ UNCHANGED <<ring, readPos, writePos, open, stopping, device, counters, heard, latest>>

\* Mutant of StreamQuiet: the stream is not locked before it is destroyed.
StreamQuietAssumed == TRUE

\* The lock of the stream is free only while no callback runs.
StreamQuiet == device.pc = "idle"

EndStop ==
  /\ producer.pc = "lock"
  /\ stream = "none" \/ StreamQuiet
  /\ stream' = "none"
  /\ ring' = << >> /\ readPos' = 0 /\ writePos' = 0
  /\ producer' = IF producer.again THEN [producer EXCEPT !.pc = "prepare"] ELSE Idle
  /\ UNCHANGED <<open, stopping, device, counters, heard, latest>>

\* The ring starts half full of silence; opening the device may fail.
PrepareRing ==
  /\ producer.pc = "prepare"
  /\ ring' = [s \in 0..(Capacity - 1) |-> 0]
  /\ readPos' = 0 /\ writePos' = Capacity \div 2
  /\ stopping' = FALSE
  /\ accepted' = 0 /\ asked' = 0 /\ dropped' = 0
  /\ \/ stream' = "paused" /\ producer' = [producer EXCEPT !.pc = "open"]
     \/ stream' = "none" /\ producer' = Idle
  /\ UNCHANGED <<open, device, offered, heard, latest>>

OpenQueue ==
  /\ producer.pc = "open"
  /\ open' = TRUE
  /\ producer' = [producer EXCEPT !.pc = "resume"]
  /\ UNCHANGED <<ring, readPos, writePos, stopping, stream, device, counters, heard, latest>>

\* A device that does not resume is stopped again.
Resume ==
  /\ producer.pc = "resume"
  /\ \/ stream' = "running" /\ producer' = Idle /\ UNCHANGED <<open, stopping>>
     \/ /\ stopping' = TRUE /\ open' = FALSE
        /\ producer' = [Idle EXCEPT !.pc = "pause"] /\ UNCHANGED stream
  /\ UNCHANGED <<ring, readPos, writePos, device, counters, heard, latest>>

-----------------------------------------------------------------------------

Init ==
  /\ ring = << >> /\ readPos = 0 /\ writePos = 0
  /\ open = FALSE /\ stopping = FALSE /\ stream = "none"
  /\ producer = Idle /\ device = Resting
  /\ offered = 0 /\ accepted = 0 /\ asked = 0 /\ dropped = 0
  /\ heard = << >> /\ latest = 0

Producing == LoadCounters \/ CopyIn \/ Publish \/ TestSpace \/ FallAsleep \/ TimeOut
Switching ==
  \/ PauseStream \/ EndStop \/ PrepareRing \/ OpenQueue \/ Resume
Filling == CopyOut \/ Release \/ Finish

Next ==
  \/ \E count \in Chunks, sync \in BOOLEAN : Write(count, sync)
  \/ Producing
  \/ \E requested \in Requests : Fill(requested)
  \/ Filling
  \/ \E again \in BOOLEAN : BeginStop(again)
  \/ Switching

\* Threads that are inside a call go on; nobody has to make one.
Spec ==
  /\ Init /\ [][Next]_vars
  /\ WF_vars(Producing) /\ WF_vars(Switching) /\ WF_vars(Filling)

-----------------------------------------------------------------------------

\* Type invariant; no copy is longer than the ring.
TypeOK ==
  /\ ring \in {<< >>} \cup [0..(Capacity - 1) -> 0..MaxOffered]
  /\ readPos \in Nat /\ writePos \in Nat
  /\ open \in BOOLEAN /\ stopping \in BOOLEAN /\ stream \in {"none", "paused", "running"}
  /\ producer \in [pc : {"idle", "load", "copy", "publish", "test", "drowsy", "asleep",
                         "pause", "lock", "prepare", "open", "resume"},
                   sync : BOOLEAN, first : Nat, remaining : Nat, n : 0..Capacity, again : BOOLEAN]
  /\ device \in [pc : {"idle", "copy", "release", "finish"}, requested : Nat,
                 from : Nat, n : 0..Capacity, buffer : Seq(0..MaxOffered)]

\* The two counters never pass one another and never move further apart than
\* the ring is long, so that GetSampleCount and the free space mean something.
CountersInOrder == readPos <= writePos /\ writePos <= readPos + Capacity

\* "A lock-free SPSC ring": the slots the emulator is copying into and the slots
\* the device is copying out of never overlap.
CopiesDisjoint ==
  producer.pc = "copy" /\ device.pc = "copy" =>
    {Slot(writePos + i) : i \in 0..(producer.n - 1)}
      \cap {Slot(device.from + i) : i \in 0..(device.n - 1)} = {}

\* Stop: "so the ring can be released safely right after": a callback that saw
\* the ring never finds it gone.
RingOutlivesCallback == device.pc = "copy" => ring # << >>

\* Every sample Write accepted or gave up is accounted for in the diagnostics.
SamplesAccounted == producer.pc = "idle" /\ open => accepted + dropped = asked

\* "Never block the emulation/UI thread forever": every Write, Start and Stop
\* returns, even if the device never calls back.
CallsReturn == producer.pc # "idle" ~> producer.pc = "idle"

\* The ring is a bounded FIFO with atomic ends: what the device plays is what
\* was queued, in order, nothing twice and nothing torn.
Queue == [i \in 1..Queued |-> ring[Slot(readPos + i - 1)]]
Fifo == INSTANCE SampleFifo WITH queue <- Queue, Samples <- 1..MaxOffered
ImplementsFifo == Fifo!Spec

=============================================================================
