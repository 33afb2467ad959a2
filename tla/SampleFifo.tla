------------------------------ MODULE SampleFifo ------------------------------
(* What the emulator and the sound device may rely on: a bounded queue whose  *)
(* ends work at one stroke.  Samples are numbered as they are produced; 0 is   *)
(* silence.                                                                  *)
EXTENDS Naturals, Sequences

CONSTANTS Capacity, Samples
VARIABLES
  queue,   \* samples accepted and not yet heard
  heard,   \* the last block handed to the device
  latest   \* the number of the last sample accepted

fifoVars == <<queue, heard, latest>>

Init == queue = << >> /\ heard = << >> /\ latest = 0

\* A block of consecutive samples, later than everything accepted before.
Accept(first, n) ==
  /\ first > latest /\ Len(queue) + n <= Capacity
  /\ queue' = queue \o [i \in 1..n |-> first + i - 1]
  /\ latest' = first + n - 1
  /\ UNCHANGED heard

Deliver(n) ==
  /\ heard' = SubSeq(queue, 1, n)
  /\ queue' = SubSeq(queue, n + 1, Len(queue))
  /\ UNCHANGED latest

\* Stopping forgets what was queued; starting puts half a ring of silence in.
Clear == queue' = << >> /\ UNCHANGED <<heard, latest>>
Prime == queue = << >> /\ queue' = [i \in 1..(Capacity \div 2) |-> 0] /\ UNCHANGED <<heard, latest>>

Next ==
  \/ \E first \in Samples, n \in 1..Capacity : Accept(first, n)
  \/ \E n \in 0..Len(queue) : Deliver(n)
  \/ Clear
  \/ Prime

Spec == Init /\ [][Next]_fifoVars
=============================================================================
