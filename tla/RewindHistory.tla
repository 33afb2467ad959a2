---------------------------- MODULE RewindHistory ----------------------------
(***************************************************************************)
(* What the frame recorder promises: one line of captures of the machine,   *)
(* oldest first.  It grows at its newest end by what the machine is now,     *)
(* loses old captures, and is cut back only at the cursor, when the machine  *)
(* runs on from the past.  How captures are stored is not visible.           *)
(***************************************************************************)
EXTENDS Integers, Sequences

VARIABLES
  line,     \* the captures held, oldest first
  cursor,   \* age of the capture on the screen, -1 when none was sought
  machine   \* the running machine

\* The line without the future that the cursor has left behind.
Kept == SubSeq(line, 1, IF cursor > 0 THEN Len(line) - cursor ELSE Len(line))

Newest(s, n) == SubSeq(s, Len(s) - n + 1, Len(s))

RunsOneFrame(before, after) ==
  /\ after.mode = before.mode
  /\ Len(after.past) = Len(before.past) + 1
  /\ SubSeq(after.past, 1, Len(before.past)) = before.past

\* The machine runs; its new state joins the line, or is not captured.
Live ==
  /\ RunsOneFrame(machine, machine')
  /\ \/ cursor' = cursor /\ line' = line
     \/ cursor' = -1 /\ line' \in {Kept, << >>}
     \/ /\ cursor' = -1 /\ Len(line') \in 1..Len(Kept) + 1
        /\ line' = Append(Newest(Kept, Len(line') - 1), machine')

\* The machine goes to a capture by running a frame from the one before it; nothing
\* is lost.
Visit ==
  /\ cursor' >= 0 /\ Len(line) - cursor' - 1 \in DOMAIN line
  /\ RunsOneFrame(line[Len(line) - cursor' - 1], machine')
  /\ line' = line

\* The future is given up without running.
Branch == machine' = machine /\ cursor' = -1 /\ line' = Kept

Forget == cursor' = -1 /\ line' = << >>

\* Room is made, or another machine is started: the captures stay what they were.
Evict ==
  /\ machine' = machine /\ cursor' = cursor
  /\ Len(line') < Len(line) /\ line' = Newest(line, Len(line'))
Replace == machine'.past = << >> /\ cursor' = cursor /\ line' = line

HistoryInit == line = << >> /\ cursor = -1
HistoryNext == Live \/ Visit \/ Branch \/ Forget \/ Evict \/ Replace
HistorySpec == HistoryInit /\ [][HistoryNext]_<<line, cursor, machine>>
==============================================================================
