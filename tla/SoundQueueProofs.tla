--------------------------- MODULE SoundQueueProofs ---------------------------
(***************************************************************************)
(* The ring of the sound queue is safe for every capacity, block and         *)
(* request, and it is a queue: proofs of the safety properties of SoundQueue *)
(* and of its refinement of SampleFifo.                                     *)
(*                                                                         *)
(* None of them is inductive.  What holds them together is Inv: who may be    *)
(* inside the ring while it is put up and taken down (Lifetime), and how far   *)
(* each side's copy reaches from its counter (Reach).  The refinement adds    *)
(* what the finished copies hold (Faithful).                                 *)
(***************************************************************************)
EXTENDS SoundQueue, SequenceTheorems, TLAPS

-----------------------------------------------------------------------------
(* Arithmetic of the ring.                                                   *)

\* Positions less than a ring apart lie in different slots.
LEMMA SlotsDiffer ==
  ASSUME NEW C \in Nat \ {0}, NEW p \in Nat, NEW q \in Nat, q < p, p < q + C
  PROVE  p % C # q % C
<1> SUFFICES ASSUME p % C = q % C
             PROVE  FALSE
  OBVIOUS
<1> DEFINE a == p \div C
           b == q \div C
<1>1. a \in Nat /\ b \in Nat /\ p = C * a + (p % C) /\ q = C * b + (q % C)
  OBVIOUS
<1>2. p % C \in Nat /\ q % C \in Nat
  OBVIOUS
<1> HIDE DEF a, b
<1>3. 0 < C * a - C * b /\ C * a - C * b < C
  BY <1>1, <1>2
<1>4. CASE a <= b
  <2>1. C * a <= C * b
    BY <1>1, <1>4
  <2> QED
    BY <2>1, <1>1, <1>3
<1>5. CASE a >= b + 1
  <2>1. C * a >= C * b + C
    <3>1. C * a >= C * (b + 1)
      BY <1>1, <1>5
    <3>2. C * (b + 1) = C * b + C
      BY <1>1
    <3> QED
      BY <3>1, <3>2, <1>1
  <2> QED
    BY <2>1, <1>1, <1>3
<1> QED
  BY <1>1, <1>4, <1>5

LEMMA SlotInRing ==
  ASSUME NEW p \in Nat
  PROVE  Slot(p) \in 0..(Capacity - 1)
  BY RingAssumption DEF Slot

\* Smallest is the least of three numbers.
LEMMA SmallestOfThree ==
  ASSUME NEW a \in Nat, NEW b \in Nat, NEW c \in Nat
  PROVE  LET m == Smallest({a, b, c})
         IN m \in {a, b, c} /\ m <= a /\ m <= b /\ m <= c
<1>1. \E m \in {a, b, c} : \A y \in {a, b, c} : m <= y
  <2>1. CASE a <= b /\ a <= c
    BY <2>1
  <2>2. CASE b <= a /\ b <= c
    BY <2>2
  <2>3. CASE c <= a /\ c <= b
    BY <2>3
  <2> QED
    BY <2>1, <2>2, <2>3
<1> QED
  BY <1>1 DEF Smallest, Min

-----------------------------------------------------------------------------
(* Runs of samples in the ring.                                              *)

\* The samples in k slots from position p on.
Row(r, p, k) == [i \in 1..k |-> r[Slot(p + i - 1)]]

\* A row reads within the ring, or it is empty.
Readable(r, S, p, k) ==
  /\ p \in Nat /\ k \in Nat
  /\ \A q \in p..(p + k - 1) : r[Slot(q)] \in S

LEMMA RowIs ==
  ASSUME NEW r, NEW S, NEW p, NEW k, Readable(r, S, p, k)
  PROVE  /\ Row(r, p, k) \in Seq(S) /\ Len(Row(r, p, k)) = k
         /\ \A i \in 1..k : Row(r, p, k)[i] = r[Slot(p + i - 1)]
<1>1. p \in Nat /\ k \in Nat
  BY DEF Readable
<1>2. ASSUME NEW i \in 1..k PROVE r[Slot(p + i - 1)] \in S
  <2>1. p + i - 1 \in p..(p + k - 1)
    BY <1>1
  <2> QED
    BY <2>1 DEF Readable
<1> DEFINE row == [i \in 1..k |-> r[Slot(p + i - 1)]]
<1>3. row \in [1..k -> S] /\ \A i \in 1..k : row[i] = r[Slot(p + i - 1)]
  BY <1>2
<1>4. row = Row(r, p, k)
  BY DEF Row
<1> HIDE DEF row
<1>5. row \in Seq(S)
  BY <1>1, <1>3, SeqDef
<1>6. Len(row) = k
  <2>1. DOMAIN row = 1..k /\ DOMAIN row = 1..Len(row) /\ Len(row) \in Nat
    BY <1>3, <1>5, LenProperties
  <2> QED
    BY <1>1, <2>1
<1> QED
  BY <1>3, <1>4, <1>5, <1>6

\* Taking from the front of a row moves its beginning.
LEMMA RowTaken ==
  ASSUME NEW r, NEW S, NEW p, NEW k, Readable(r, S, p, k), NEW m \in 0..k
  PROVE  /\ SubSeq(Row(r, p, k), 1, m) = Row(r, p, m)
         /\ SubSeq(Row(r, p, k), m + 1, k) = Row(r, p + m, k - m)
<1>1. p \in Nat /\ k \in Nat /\ m \in Nat /\ m <= k /\ k - m \in Nat /\ p + m \in Nat
  BY DEF Readable
<1>2. PICK row : row = Row(r, p, k)
  OBVIOUS
<1>3. row \in Seq(S) /\ Len(row) = k /\ \A i \in 1..k : row[i] = r[Slot(p + i - 1)]
  BY <1>2, RowIs
<1>4. \A i \in 1..k : row[i] \in S
  BY <1>3, ElementOfSeq
<1>5. Readable(r, S, p, m) /\ Readable(r, S, p + m, k - m)
  BY <1>1 DEF Readable
<1>6. SubSeq(row, 1, m) = Row(r, p, m)
  <2>1. PICK t : t = SubSeq(row, 1, m)
    OBVIOUS
  <2>2. \A i \in 1..m : row[i] \in S
    BY <1>1, <1>4
  <2>3. t \in Seq(S) /\ Len(t) = (IF 1 <= m THEN m - 1 + 1 ELSE 0)
        /\ \A i \in 1..(m - 1 + 1) : t[i] = row[1 + i - 1]
    BY <1>1, <2>1, <2>2, SubSeqProperties
  <2>4. Len(t) = m /\ \A i \in 1..m : t[i] = r[Slot(p + i - 1)]
    <3>1. Len(t) = m
      BY <1>1, <2>3
    <3>2. ASSUME NEW i \in 1..m PROVE t[i] = r[Slot(p + i - 1)]
      <4>1. i \in 1..(m - 1 + 1) /\ 1 + i - 1 = i /\ i \in 1..k
        BY <1>1
      <4> QED
        BY <1>3, <2>3, <4>1
    <3> QED
      BY <3>1, <3>2
  <2>5. /\ Row(r, p, m) \in Seq(S) /\ Len(Row(r, p, m)) = m
        /\ \A i \in 1..m : Row(r, p, m)[i] = r[Slot(p + i - 1)]
    BY <1>5, RowIs
  <2>6. Len(t) = Len(Row(r, p, m)) /\ \A i \in 1..Len(t) : t[i] = Row(r, p, m)[i]
    BY <2>4, <2>5
  <2> QED
    BY <2>1, <2>3, <2>5, <2>6, SeqEqual
<1>7. SubSeq(row, m + 1, k) = Row(r, p + m, k - m)
  <2>1. PICK t : t = SubSeq(row, m + 1, k)
    OBVIOUS
  <2>2. \A i \in (m + 1)..k : row[i] \in S
    BY <1>1, <1>4
  <2>3. t \in Seq(S) /\ Len(t) = (IF m + 1 <= k THEN k - (m + 1) + 1 ELSE 0)
        /\ \A i \in 1..(k - (m + 1) + 1) : t[i] = row[m + 1 + i - 1]
    BY <1>1, <2>1, <2>2, SubSeqProperties
  <2>4. Len(t) = k - m
    BY <1>1, <2>3
  <2>5. ASSUME NEW i \in 1..(k - m) PROVE t[i] = r[Slot(p + m + i - 1)]
    <3>1. i \in 1..(k - (m + 1) + 1) /\ m + 1 + i - 1 = m + i /\ m + i \in 1..k
          /\ p + (m + i) - 1 = p + m + i - 1
      BY <1>1
    <3> QED
      BY <1>3, <2>3, <3>1
  <2>6. /\ Row(r, p + m, k - m) \in Seq(S) /\ Len(Row(r, p + m, k - m)) = k - m
        /\ \A i \in 1..(k - m) : Row(r, p + m, k - m)[i] = r[Slot(p + m + i - 1)]
    BY <1>5, RowIs
  <2>7. /\ Len(t) = Len(Row(r, p + m, k - m))
        /\ \A i \in 1..Len(t) : t[i] = Row(r, p + m, k - m)[i]
    BY <2>4, <2>5, <2>6
  <2> QED
    BY <2>1, <2>3, <2>6, <2>7, SeqEqual
<1> QED
  BY <1>2, <1>6, <1>7

\* A row that grows at its end by samples t.
LEMMA RowGrows ==
  ASSUME NEW r, NEW S, NEW p, NEW k, Readable(r, S, p, k),
         NEW t \in Seq(S),
         \A i \in 1..Len(t) : r[Slot(p + k + i - 1)] = t[i]
  PROVE  Row(r, p, k + Len(t)) = Row(r, p, k) \o t
<1>1. PICK n : n = Len(t)
  OBVIOUS
<1>2. p \in Nat /\ k \in Nat /\ n \in Nat /\ k + n \in Nat
  BY <1>1, LenProperties DEF Readable
<1>3. Readable(r, S, p, k + n)
  <2>1. ASSUME NEW q \in p..(p + (k + n) - 1) PROVE r[Slot(q)] \in S
    <3>1. CASE q <= p + k - 1
      BY <1>2, <3>1 DEF Readable
    <3>2. CASE q > p + k - 1
      <4>1. PICK i : i = q - (p + k) + 1
        OBVIOUS
      <4>2. i \in 1..n /\ p + k + i - 1 = q
        BY <1>2, <3>2, <4>1
      <4> QED
        BY <1>1, <4>2, ElementOfSeq
    <3> QED
      BY <1>2, <3>1, <3>2
  <2> QED
    BY <1>2, <2>1 DEF Readable
<1>4. PICK whole, row, both : whole = Row(r, p, k + n) /\ row = Row(r, p, k) /\ both = row \o t
  OBVIOUS
<1>5. whole \in Seq(S) /\ Len(whole) = k + n
      /\ \A i \in 1..(k + n) : whole[i] = r[Slot(p + i - 1)]
  BY <1>3, <1>4, RowIs
<1>6. row \in Seq(S) /\ Len(row) = k /\ \A i \in 1..k : row[i] = r[Slot(p + i - 1)]
  BY <1>4, RowIs
<1>7. both \in Seq(S) /\ Len(both) = k + n
      /\ \A i \in 1..(k + n) : both[i] = IF i <= k THEN row[i] ELSE t[i - k]
  BY <1>1, <1>4, <1>6, ConcatProperties
<1>8. ASSUME NEW i \in 1..(k + n) PROVE whole[i] = both[i]
  <2>1. CASE i <= k
    <3>1. i \in 1..k
      BY <1>2, <2>1
    <3> QED
      BY <1>5, <1>6, <1>7, <2>1, <3>1
  <2>2. CASE ~(i <= k)
    <3>1. i - k \in 1..n /\ p + k + (i - k) - 1 = p + i - 1
      BY <1>2, <2>2
    <3> QED
      BY <1>1, <1>5, <1>7, <2>2, <3>1
  <2> QED
    BY <2>1, <2>2
<1>9. whole = both
  BY <1>5, <1>7, <1>8, SeqEqual
<1> QED
  BY <1>1, <1>4, <1>9

\* Rows of rings that hold the same are the same.
LEMMA RowSame ==
  ASSUME NEW r, NEW u, NEW p \in Nat, NEW k \in Nat,
         \A q \in p..(p + k - 1) : r[Slot(q)] = u[Slot(q)]
  PROVE  Row(r, p, k) = Row(u, p, k)
<1>1. ASSUME NEW i \in 1..k PROVE r[Slot(p + i - 1)] = u[Slot(p + i - 1)]
  <2>1. p + i - 1 \in p..(p + k - 1)
    OBVIOUS
  <2> QED
    BY <2>1
<1> QED
  BY <1>1 DEF Row

-----------------------------------------------------------------------------
(* The inductive invariant.                                                  *)

Active == {"load", "copy", "publish", "test", "drowsy", "asleep"}
Copying == {"copy", "release"}

Counted ==
  /\ offered \in 0..MaxOffered
  /\ accepted \in Nat /\ asked \in Nat /\ dropped \in Nat

\* The ring is there while anybody is inside it, and Write only in an open queue.
Lifetime ==
  /\ open => ring # << >> /\ ~stopping
  /\ producer.pc \in Active \cup {"resume"} => open
  /\ producer.pc \in {"pause", "lock", "prepare", "open"} => ~open
  /\ producer.pc = "open" => ring # << >> /\ ~stopping
  /\ producer.pc = "prepare" => stream = "none"
  /\ stream = "none" => device.pc = "idle"
  /\ device.pc \in Copying => ring # << >>

\* Neither copy reaches beyond the other side's counter.
Reach ==
  /\ CountersInOrder
  /\ producer.pc \in {"copy", "publish"} =>
       producer.n <= producer.remaining /\ writePos + producer.n <= readPos + Capacity
  /\ device.pc \in Copying => device.from = readPos /\ readPos + device.n <= writePos

\* The samples still to be written are the last of those offered, and make up
\* the difference between those asked for and those accepted or dropped.
Books ==
  /\ producer.pc \in Active =>
       producer.remaining >= 1 /\ producer.first + producer.remaining = offered + 1
  /\ producer.pc = "open" => accepted = 0 /\ dropped = 0 /\ asked = 0
  /\ open => accepted + dropped + (IF producer.pc \in Active THEN producer.remaining ELSE 0) = asked

Inv == TypeOK /\ Counted /\ Lifetime /\ Reach /\ Books

ProducerType ==
  [pc : {"idle", "load", "copy", "publish", "test", "drowsy", "asleep",
         "pause", "lock", "prepare", "open", "resume"},
   sync : BOOLEAN, first : Nat, remaining : Nat, n : 0..Capacity, again : BOOLEAN]
DeviceType ==
  [pc : {"idle", "copy", "release", "finish"}, requested : Nat,
   from : Nat, n : 0..Capacity, buffer : Seq(0..MaxOffered)]

LEMMA IdleProducer == Idle \in ProducerType /\ Idle.pc = "idle"
  BY RingAssumption DEF Idle, ProducerType

LEMMA RestingDevice == Resting \in DeviceType /\ Resting.pc = "idle"
<1>1. << >> \in Seq(0..MaxOffered)
  OBVIOUS
<1> QED
  BY <1>1, RingAssumption DEF Resting, DeviceType

LEMMA StopRequested ==
  ASSUME NEW b \in BOOLEAN, NEW r, r = [Idle EXCEPT !.pc = "pause", !.again = b]
  PROVE  r \in ProducerType /\ r.pc = "pause"
<1>1. Idle \in ProducerType
  BY IdleProducer
<1> QED
  BY <1>1 DEF ProducerType

LEMMA StoppedAgain ==
  ASSUME NEW r, r = [Idle EXCEPT !.pc = "pause"]
  PROVE  r \in ProducerType /\ r.pc = "pause"
<1>1. Idle \in ProducerType
  BY IdleProducer
<1> QED
  BY <1>1 DEF ProducerType

LEMMA RingNotEmpty ==
  ASSUME NEW r \in [0..(Capacity - 1) -> 0..MaxOffered]
  PROVE  r # << >>
<1>1. DOMAIN r = 0..(Capacity - 1) /\ 0 \in 0..(Capacity - 1)
  BY RingAssumption
<1>2. DOMAIN << >> = {}
  OBVIOUS
<1> QED
  BY <1>1, <1>2

LEMMA Initially == Init => Inv
<1> SUFFICES ASSUME Init PROVE Inv
  OBVIOUS
<1> USE RingAssumption
<1>1. TypeOK
  BY IdleProducer, RestingDevice DEF Init, TypeOK, ProducerType, DeviceType
<1>2. Counted /\ Lifetime
  BY IdleProducer, RestingDevice DEF Init, Counted, Lifetime, Active, Copying
<1>3. Reach /\ Books
  BY IdleProducer, RestingDevice DEF Init, Reach, Books, CountersInOrder, Active, Copying
<1> QED
  BY <1>1, <1>2, <1>3 DEF Inv

-----------------------------------------------------------------------------
(* Each step preserves it.                                                   *)

\* So does going round the loop of Write.
LEMMA RoundTheLoop ==
  ASSUME Inv, producer.pc \in Active, NEW next \in {"load", "test", "drowsy", "asleep"},
         producer' = [producer EXCEPT !.pc = next],
         UNCHANGED <<ring, readPos, writePos, open, stopping, stream, device,
                     offered, accepted, asked, dropped, heard, latest>>
  PROVE  Inv'
<1>1. producer \in ProducerType
  BY DEF Inv, TypeOK, ProducerType
<1>2. /\ producer'.pc = next /\ producer' \in ProducerType
      /\ producer'.remaining = producer.remaining /\ producer'.first = producer.first
  BY <1>1 DEF ProducerType
<1>3. TypeOK' /\ Counted'
  BY <1>2 DEF Inv, TypeOK, Counted, ProducerType
<1>4. Lifetime' /\ Books' /\ Reach'
  BY <1>2 DEF Inv, Lifetime, Books, Reach, CountersInOrder, Active, Copying
<1> QED
  BY <1>3, <1>4 DEF Inv

\* Giving up the rest of a block keeps the books.
LEMMA DroppedRest ==
  ASSUME Inv, producer.pc \in Active, Drop, producer' = Idle,
         UNCHANGED <<ring, readPos, writePos, open, stopping, stream, device,
                     offered, accepted, asked, heard, latest>>
  PROVE  Inv'
<1>1. producer.remaining \in Nat /\ open
  BY DEF Inv, TypeOK, Lifetime
<1>2. TypeOK' /\ Counted'
  BY <1>1, IdleProducer DEF Inv, TypeOK, ProducerType, Counted, Drop
<1>3. Lifetime' /\ Reach'
  BY IdleProducer DEF Inv, Lifetime, Reach, CountersInOrder, Active, Copying
<1>4. Books'
  BY <1>1, IdleProducer DEF Inv, Counted, Books, Active, Drop
<1> QED
  BY <1>2, <1>3, <1>4 DEF Inv

LEMMA WriteStep ==
  ASSUME Inv, NEW count \in Chunks, NEW sync \in BOOLEAN, Write(count, sync)
  PROVE  Inv'
<1> DEFINE kept == IF sync \/ count <= Capacity THEN count ELSE Capacity
<1>1. count \in Nat \ {0} /\ kept \in Nat /\ 1 <= kept /\ kept <= count
  BY RingAssumption
<1>2. /\ producer' = [Idle EXCEPT !.pc = "load", !.sync = sync, !.remaining = kept,
                                  !.first = offered + count - kept + 1]
      /\ asked' = asked + kept /\ offered' = offered + count /\ offered + count <= MaxOffered
      /\ producer.pc = "idle" /\ open
      /\ UNCHANGED <<ring, readPos, writePos, open, stopping, stream, device,
                     accepted, dropped, heard, latest>>
  BY DEF Write
<1> HIDE DEF kept
<1>3. /\ producer'.pc = "load" /\ producer'.remaining = kept
      /\ producer'.first = offered + count - kept + 1
  BY <1>2 DEF Idle
<1>4. Counted'
  BY <1>1, <1>2, RingAssumption DEF Inv, Counted
<1>5. producer' \in ProducerType
  <2>1. offered + count - kept + 1 \in Nat
    BY <1>1 DEF Inv, Counted
  <2>2. producer' = [pc |-> "load", sync |-> sync, first |-> offered + count - kept + 1,
                    remaining |-> kept, n |-> 0, again |-> FALSE]
    BY <1>2 DEF Idle
  <2> QED
    BY <1>1, <2>1, <2>2, RingAssumption DEF ProducerType
<1>6. TypeOK'
  BY <1>2, <1>5 DEF Inv, TypeOK, ProducerType
<1>7. Lifetime' /\ Reach'
  BY <1>2, <1>3 DEF Inv, Lifetime, Reach, CountersInOrder, Active, Copying
<1>8. Books'
  BY <1>1, <1>2, <1>3 DEF Inv, Counted, Books, Active
<1> QED
  BY <1>4, <1>6, <1>7, <1>8 DEF Inv

LEMMA LoadCountersStep ==
  ASSUME Inv, LoadCounters
  PROVE  Inv'
<1>1. /\ producer.pc = "load" /\ open /\ producer \in ProducerType
      /\ readPos \in Nat /\ writePos \in Nat /\ Room \in Nat
      /\ UNCHANGED <<ring, readPos, writePos, open, stopping, stream, device,
                     offered, accepted, asked, heard, latest>>
  BY RingAssumption
     DEF LoadCounters, Closed, Inv, TypeOK, ProducerType, Reach, CountersInOrder, Room, Queued
<1>2. CASE /\ Room > 0 /\ UNCHANGED dropped
           /\ producer' = [producer EXCEPT !.pc = "copy",
                !.n = Smallest({producer.remaining, Room, Capacity - Slot(writePos)})]
  <2> DEFINE n == Smallest({producer.remaining, Room, Capacity - Slot(writePos)})
  <2>1. Capacity - Slot(writePos) \in Nat /\ Capacity - Slot(writePos) <= Capacity
    BY <1>1, SlotInRing, RingAssumption
  <2>2. producer.remaining \in Nat
    BY <1>1 DEF ProducerType
  <2>3. /\ n \in {producer.remaining, Room, Capacity - Slot(writePos)}
        /\ n <= producer.remaining /\ n <= Room /\ n <= Capacity - Slot(writePos)
    BY <1>1, <2>1, <2>2, SmallestOfThree
  <2>4. PICK k \in 0..Capacity :
               /\ k <= producer.remaining /\ k <= Room
               /\ producer' = [producer EXCEPT !.pc = "copy", !.n = k]
    <3>1. n \in 0..Capacity
      <4> HIDE DEF n
      <4> QED
        BY <2>3, <1>1, <2>1, <2>2, RingAssumption
    <3> QED
      BY <3>1, <2>3, <1>2
  <2>5. /\ producer'.pc = "copy" /\ producer'.n = k
        /\ producer'.remaining = producer.remaining /\ producer'.first = producer.first
        /\ producer' \in ProducerType
    <3>1. producer \in ProducerType
      BY <1>1
    <3>2. producer' \in ProducerType
      BY <3>1, <2>4 DEF ProducerType
    <3>3. producer'.pc = "copy" /\ producer'.n = k
      BY <3>1, <2>4 DEF ProducerType
    <3>4. producer'.remaining = producer.remaining /\ producer'.first = producer.first
      BY <3>1, <2>4 DEF ProducerType
    <3> QED
      BY <3>2, <3>3, <3>4
  <2>6. TypeOK' /\ Counted'
    BY <1>1, <1>2, <2>5 DEF Inv, TypeOK, Counted, ProducerType
  <2>7. Lifetime' /\ Books'
    BY <1>1, <1>2, <2>5 DEF Inv, Lifetime, Books, Active, Copying
  <2>8. Reach'
    <3>1. writePos + k <= readPos + Capacity
      BY <1>1, <2>4, RingAssumption DEF Room, Queued
    <3> QED
      BY <1>1, <2>4, <2>5, <3>1 DEF Inv, Reach, CountersInOrder, Copying
  <2> QED
    BY <2>6, <2>7, <2>8 DEF Inv
<1>3. CASE producer' = [producer EXCEPT !.pc = "test"] /\ UNCHANGED dropped
  BY <1>1, <1>3, RoundTheLoop DEF Active
<1>4. CASE Drop /\ producer' = Idle
  BY <1>1, <1>4, DroppedRest DEF Active
<1> QED
  BY <1>2, <1>3, <1>4 DEF LoadCounters

LEMMA CopyInStep ==
  ASSUME Inv, CopyIn
  PROVE  Inv'
<1>1. /\ producer.pc = "copy" /\ producer \in ProducerType /\ open
      /\ producer.n <= producer.remaining /\ producer.first + producer.remaining = offered + 1
      /\ offered \in 0..MaxOffered /\ MaxOffered \in Nat
      /\ ring \in [0..(Capacity - 1) -> 0..MaxOffered]
  BY RingAssumption
     DEF CopyIn, Inv, TypeOK, ProducerType, Counted, Lifetime, Reach, Books, Active
<1>2. /\ producer' = [producer EXCEPT !.pc = "publish"]
      /\ UNCHANGED <<readPos, writePos, open, stopping, stream, device,
                     offered, accepted, asked, dropped, heard, latest>>
  BY DEF CopyIn, counters
<1>3. ring' \in [0..(Capacity - 1) -> 0..MaxOffered]
  <2> DEFINE copied(s) == \E i \in 0..(producer.n - 1) : s = Slot(writePos + i)
             sample(s) == producer.first
                            + (CHOOSE i \in 0..(producer.n - 1) : s = Slot(writePos + i))
  <2>1. ASSUME NEW s \in 0..(Capacity - 1), copied(s)
        PROVE  sample(s) \in 0..MaxOffered
    <3>1. PICK i \in 0..(producer.n - 1) :
                 i = CHOOSE j \in 0..(producer.n - 1) : s = Slot(writePos + j)
      BY <2>1
    <3>2. producer.first \in Nat /\ producer.remaining \in Nat /\ producer.n \in Nat
      BY <1>1, RingAssumption DEF ProducerType
    <3> QED
      BY <1>1, <3>1, <3>2
  <2>2. ring' = [s \in DOMAIN ring |-> IF copied(s) THEN sample(s) ELSE ring[s]]
    BY DEF CopyIn
  <2> HIDE DEF copied, sample
  <2> QED
    BY <1>1, <2>1, <2>2
<1>4. /\ producer'.pc = "publish" /\ producer' \in ProducerType /\ producer'.n = producer.n
      /\ producer'.remaining = producer.remaining /\ producer'.first = producer.first
  <2>1. producer \in ProducerType
    BY <1>1
  <2> QED
    BY <1>2, <2>1 DEF ProducerType
<1>5. ring # << >> /\ ring' # << >>
  BY <1>1, <1>3, RingNotEmpty
<1>6. TypeOK' /\ Counted'
  BY <1>2, <1>3, <1>4 DEF Inv, TypeOK, Counted, ProducerType
<1>7. Lifetime' /\ Books'
  BY <1>1, <1>2, <1>4, <1>5 DEF Inv, Lifetime, Books, Active, Copying
<1>8. Reach'
  BY <1>1, <1>2, <1>4 DEF Inv, Reach, CountersInOrder, Copying
<1> QED
  BY <1>6, <1>7, <1>8 DEF Inv

LEMMA PublishStep ==
  ASSUME Inv, Publish
  PROVE  Inv'
<1>1. /\ producer.pc = "publish" /\ producer \in ProducerType /\ open
      /\ UNCHANGED <<ring, readPos, open, stopping, stream, device, offered, asked,
                     dropped, heard>>
  BY DEF Publish, Inv, TypeOK, ProducerType, Lifetime, Active
<1>2. /\ producer.n \in Nat /\ producer.remaining \in Nat /\ producer.first \in Nat
      /\ producer.n <= producer.remaining /\ writePos + producer.n <= readPos + Capacity
      /\ producer.first + producer.remaining = offered + 1
      /\ writePos \in Nat /\ readPos \in Nat /\ Capacity \in Nat
  BY <1>1, RingAssumption DEF Inv, TypeOK, ProducerType, Reach, Books, Active
<1>3. writePos' = writePos + producer.n /\ accepted' = accepted + producer.n
  BY DEF Publish
<1>4. Counted'
  BY <1>1, <1>2, <1>3 DEF Inv, Counted
<1>5. CASE producer.remaining = producer.n /\ producer' = Idle
  <2>1. TypeOK'
    BY <1>1, <1>2, <1>3, <1>5, IdleProducer DEF Inv, TypeOK, ProducerType
  <2>2. Lifetime'
    BY <1>1, <1>5, IdleProducer DEF Inv, Lifetime, Active, Copying
  <2>3. Reach'
    BY <1>1, <1>2, <1>3, <1>5, IdleProducer, RingAssumption
       DEF Inv, TypeOK, Reach, CountersInOrder, Copying
  <2>4. Books'
    BY <1>1, <1>2, <1>3, <1>5, IdleProducer DEF Inv, Counted, Books, Active
  <2> QED
    BY <1>4, <2>1, <2>2, <2>3, <2>4 DEF Inv
<1>6. CASE /\ producer.remaining # producer.n
           /\ producer' = [producer EXCEPT !.pc = "load", !.first = @ + producer.n,
                                           !.remaining = @ - producer.n, !.n = 0]
  <2>1. producer' = [pc |-> "load", sync |-> producer.sync,
                     first |-> producer.first + producer.n,
                     remaining |-> producer.remaining - producer.n,
                     n |-> 0, again |-> producer.again]
    BY <1>1, <1>6 DEF ProducerType
  <2>2. producer.sync \in BOOLEAN /\ producer.again \in BOOLEAN
    BY <1>1 DEF ProducerType
  <2>3. producer' \in ProducerType
    BY <2>1, <2>2, <1>2 DEF ProducerType
  <2>4. /\ producer'.pc = "load" /\ producer'.first = producer.first + producer.n
        /\ producer'.remaining = producer.remaining - producer.n
    BY <2>1
  <2>5. TypeOK'
    <3>1. writePos' \in Nat /\ readPos' \in Nat
      BY <1>1, <1>2, <1>3
    <3> QED
      BY <1>1, <2>3, <3>1 DEF Inv, TypeOK, ProducerType
  <2>6. Lifetime'
    BY <1>1, <2>4 DEF Inv, Lifetime, Active, Copying
  <2>7. Reach'
    <3>1. /\ writePos <= writePos' /\ writePos' <= readPos + Capacity /\ readPos <= writePos
          /\ device.n \in Nat
      BY <1>2, <1>3, RingAssumption DEF Inv, TypeOK, Reach, CountersInOrder
    <3> QED
      BY <1>1, <1>2, <1>3, <2>4, <3>1 DEF Inv, Reach, CountersInOrder, Copying
  <2>8. Books'
    BY <1>1, <1>2, <1>3, <1>6, <2>4 DEF Inv, Counted, Books, Active
  <2> QED
    BY <1>4, <2>5, <2>6, <2>7, <2>8 DEF Inv
<1> QED
  BY <1>5, <1>6 DEF Publish

LEMMA WaitStep ==
  ASSUME Inv, TestSpace \/ FallAsleep \/ TimeOut
  PROVE  Inv'
<1>1. CASE TestSpace
  BY <1>1, RoundTheLoop DEF TestSpace, Active, counters
<1>2. CASE FallAsleep
  BY <1>2, RoundTheLoop DEF FallAsleep, Active, counters
<1>3. CASE TimeOut
  BY <1>3, RoundTheLoop, DroppedRest DEF TimeOut, Active
<1> QED
  BY <1>1, <1>2, <1>3

LEMMA FillStep ==
  ASSUME Inv, NEW requested \in Requests, Fill(requested)
  PROVE  Inv'
<1>1. /\ device.pc = "idle" /\ stream = "running" /\ requested \in Nat
      /\ readPos \in Nat /\ writePos \in Nat /\ Queued \in Nat /\ Capacity \in Nat
      /\ UNCHANGED <<ring, writePos, open, stopping, stream, producer,
                     offered, accepted, asked, dropped, heard, latest>>
  BY RingAssumption DEF Fill, Inv, TypeOK, Reach, CountersInOrder, Queued, counters
<1>2. << >> \in Seq(0..MaxOffered)
  OBVIOUS
<1>3. Counted' /\ Books'
  BY <1>1 DEF Inv, Counted, Books
<1>4. CASE /\ ring # << >> /\ UNCHANGED readPos
           /\ device' = [pc |-> "copy", requested |-> requested, from |-> readPos,
                         n |-> Available(requested), buffer |-> << >>]
  <2>1. PICK k \in 0..Capacity :
               /\ k <= Queued
               /\ device' = [pc |-> "copy", requested |-> requested, from |-> readPos,
                             n |-> k, buffer |-> << >>]
    <3>1. /\ Available(requested) \in {requested, Queued, Capacity}
          /\ Available(requested) <= Queued /\ Available(requested) <= Capacity
      BY <1>1, SmallestOfThree DEF Available
    <3>2. Available(requested) \in 0..Capacity
      BY <1>1, <3>1
    <3> QED
      BY <1>4, <3>1, <3>2
  <2>2. /\ device' \in DeviceType /\ device'.pc = "copy"
        /\ device'.from = readPos /\ device'.n = k
    BY <1>1, <1>2, <2>1 DEF DeviceType
  <2>3. TypeOK'
    BY <1>1, <1>4, <2>2 DEF Inv, TypeOK, DeviceType
  <2>4. Lifetime'
    BY <1>1, <1>4, <2>2 DEF Inv, Lifetime, Active, Copying
  <2>5. Reach'
    <3>1. readPos + k <= writePos
      BY <1>1, <2>1 DEF Queued
    <3> QED
      BY <1>1, <1>4, <2>2, <3>1 DEF Inv, Reach, CountersInOrder, Copying
  <2> QED
    BY <1>3, <2>3, <2>4, <2>5 DEF Inv
<1>5. CASE device' = [Resting EXCEPT !.pc = "finish", !.requested = requested] /\ UNCHANGED readPos
  <2>1. device' = [pc |-> "finish", requested |-> requested, from |-> 0, n |-> 0,
                   buffer |-> << >>]
    BY <1>5 DEF Resting
  <2>2. device' \in DeviceType /\ device'.pc = "finish"
    BY <1>1, <1>2, <2>1 DEF DeviceType
  <2>3. TypeOK'
    BY <1>1, <1>5, <2>2 DEF Inv, TypeOK, DeviceType
  <2>4. Lifetime' /\ Reach'
    BY <1>1, <1>5, <2>2 DEF Inv, Lifetime, Reach, CountersInOrder, Active, Copying
  <2> QED
    BY <1>3, <2>3, <2>4 DEF Inv
<1> QED
  BY <1>4, <1>5 DEF Fill, TakeFrom

LEMMA CopyOutStep ==
  ASSUME Inv, CopyOut
  PROVE  Inv'
<1>1. /\ device.pc = "copy" /\ device \in DeviceType
      /\ UNCHANGED <<ring, readPos, writePos, open, stopping, stream, producer,
                     offered, accepted, asked, dropped, heard, latest>>
  BY DEF CopyOut, counters, Inv, TypeOK, DeviceType
<1>2. ring \in [0..(Capacity - 1) -> 0..MaxOffered] /\ device.n \in Nat /\ device.from \in Nat
  BY <1>1, RingAssumption DEF Inv, TypeOK, Lifetime, Copying
<1>3. [i \in 1..device.n |-> ring[Slot(device.from + i - 1)]] \in Seq(0..MaxOffered)
  <2>1. ASSUME NEW i \in 1..device.n
        PROVE  ring[Slot(device.from + i - 1)] \in 0..MaxOffered
    <3>1. device.from + i - 1 \in Nat
      BY <1>2
    <3> QED
      BY <1>2, <3>1, SlotInRing
  <2>2. [i \in 1..device.n |-> ring[Slot(device.from + i - 1)]] \in [1..device.n -> 0..MaxOffered]
    BY <2>1
  <2> DEFINE out == [i \in 1..device.n |-> ring[Slot(device.from + i - 1)]]
             N == device.n
             S == 0..MaxOffered
  <2>3. N \in Nat /\ out \in [1..N -> S]
    BY <1>2, <2>2
  <2> HIDE DEF out, N, S
  <2>4. out \in Seq(S)
    BY <2>3, SeqDef
  <2> QED
    BY <2>4 DEF out, S
<1>4. /\ device' \in DeviceType /\ device'.pc = "release"
      /\ device'.from = device.from /\ device'.n = device.n
  <2> DEFINE out == [i \in 1..device.n |-> ring[Slot(device.from + i - 1)]]
  <2>1. device \in DeviceType /\ out \in Seq(0..MaxOffered)
    BY <1>1, <1>3
  <2>2. device' = [device EXCEPT !.pc = "release", !.buffer = out]
    BY DEF CopyOut
  <2> HIDE DEF out
  <2> QED
    BY <2>1, <2>2 DEF DeviceType
<1>5. TypeOK' /\ Counted'
  BY <1>1, <1>4 DEF Inv, TypeOK, Counted, DeviceType
<1>6. Lifetime' /\ Reach' /\ Books'
  BY <1>1, <1>4 DEF Inv, Lifetime, Reach, CountersInOrder, Books, Active, Copying
<1> QED
  BY <1>5, <1>6 DEF Inv

LEMMA ReleaseStep ==
  ASSUME Inv, Release
  PROVE  Inv'
<1>1. /\ device.pc = "release" /\ device \in DeviceType
      /\ readPos' = device.from + device.n
      /\ UNCHANGED <<ring, writePos, open, stopping, stream, producer,
                     offered, accepted, asked, dropped, latest>>
  BY DEF Release, counters, Inv, TypeOK, DeviceType
<1>2. /\ device.from = readPos /\ readPos + device.n <= writePos /\ device.n \in Nat
      /\ readPos \in Nat /\ writePos \in Nat /\ writePos <= readPos + Capacity
      /\ Capacity \in Nat
  BY <1>1, RingAssumption DEF Inv, TypeOK, Reach, CountersInOrder, Copying
<1>3. device' \in DeviceType /\ device'.pc = "finish"
  <2>1. device \in DeviceType /\ device' = [device EXCEPT !.pc = "finish"]
    BY <1>1 DEF Release
  <2> QED
    BY <2>1 DEF DeviceType
<1>4. readPos' \in Nat /\ readPos <= readPos' /\ readPos' <= writePos
  BY <1>1, <1>2
<1>5. TypeOK' /\ Counted'
  BY <1>1, <1>3, <1>4 DEF Inv, TypeOK, Counted, DeviceType
<1>6. Lifetime' /\ Books'
  BY <1>1, <1>3 DEF Inv, Lifetime, Books, Active, Copying
<1>7. Reach'
  <2>1. producer.pc \in {"copy", "publish"} =>
          producer.n <= producer.remaining /\ writePos + producer.n <= readPos' + Capacity
    <3>1. producer.n \in Nat
      BY RingAssumption DEF Inv, TypeOK
    <3> QED
      BY <1>2, <1>4, <3>1 DEF Inv, Reach
  <2>2. CountersInOrder'
    BY <1>1, <1>2, <1>4 DEF CountersInOrder
  <2> QED
    BY <1>1, <1>3, <2>1, <2>2 DEF Reach, Copying
<1> QED
  BY <1>5, <1>6, <1>7 DEF Inv

LEMMA FinishStep ==
  ASSUME Inv, Finish
  PROVE  Inv'
<1>1. /\ device.pc = "finish" /\ device' = Resting /\ producer \in ProducerType
      /\ producer' = IF producer.pc = "asleep" THEN [producer EXCEPT !.pc = "test"] ELSE producer
      /\ UNCHANGED <<ring, readPos, writePos, open, stopping, stream,
                     offered, accepted, asked, dropped, heard, latest>>
  BY DEF Finish, counters, Inv, TypeOK, ProducerType
<1>2. /\ producer' \in ProducerType
      /\ producer'.pc = producer.pc \/ (producer.pc = "asleep" /\ producer'.pc = "test")
      /\ producer'.remaining = producer.remaining /\ producer'.first = producer.first
      /\ producer'.n = producer.n
  <2>1. producer \in ProducerType
    BY <1>1
  <2> QED
    BY <1>1, <2>1 DEF ProducerType
<1>3. TypeOK' /\ Counted'
  BY <1>1, <1>2, RestingDevice DEF Inv, TypeOK, Counted, ProducerType, DeviceType
<1>4. Lifetime'
  BY <1>1, <1>2, RestingDevice DEF Inv, Lifetime, Active, Copying
<1>5. Reach' /\ Books'
  BY <1>1, <1>2, RestingDevice DEF Inv, Reach, CountersInOrder, Books, Active, Copying
<1> QED
  BY <1>3, <1>4, <1>5 DEF Inv

LEMMA StopStep ==
  ASSUME Inv, \E again \in BOOLEAN : BeginStop(again)
  PROVE  Inv'
<1>1. PICK again \in BOOLEAN :
             /\ producer' = [Idle EXCEPT !.pc = "pause", !.again = again]
             /\ producer.pc = "idle" /\ ~open' /\ stopping'
             /\ UNCHANGED <<ring, readPos, writePos, stream, device,
                            offered, accepted, asked, dropped, heard, latest>>
  BY DEF BeginStop, counters
<1>2. producer' \in ProducerType /\ producer'.pc = "pause"
  BY <1>1, StopRequested
<1>3. TypeOK' /\ Counted'
  BY <1>1, <1>2 DEF Inv, TypeOK, Counted, ProducerType, BeginStop
<1>4. Lifetime' /\ Reach' /\ Books'
  BY <1>1, <1>2 DEF Inv, Lifetime, Reach, CountersInOrder, Books, Active, Copying
<1> QED
  BY <1>3, <1>4 DEF Inv

LEMMA PauseStreamStep ==
  ASSUME Inv, PauseStream
  PROVE  Inv'
<1>1. /\ producer.pc = "pause" /\ producer \in ProducerType
      /\ producer' = [producer EXCEPT !.pc = "lock"]
      /\ stream' = IF stream = "none" THEN "none" ELSE "paused"
      /\ UNCHANGED <<ring, readPos, writePos, open, stopping, device,
                     offered, accepted, asked, dropped, heard, latest>>
  BY DEF PauseStream, counters, Inv, TypeOK, ProducerType
<1>2. producer' \in ProducerType /\ producer'.pc = "lock"
  <2>1. producer \in ProducerType /\ producer' = [producer EXCEPT !.pc = "lock"]
    BY <1>1
  <2> QED
    BY <2>1 DEF ProducerType
<1>3. TypeOK' /\ Counted'
  BY <1>1, <1>2 DEF Inv, TypeOK, Counted, ProducerType
<1>4. Lifetime' /\ Reach' /\ Books'
  BY <1>1, <1>2 DEF Inv, Lifetime, Reach, CountersInOrder, Books, Active, Copying
<1> QED
  BY <1>3, <1>4 DEF Inv

LEMMA EndStopStep ==
  ASSUME Inv, EndStop
  PROVE  Inv'
<1>1. /\ producer.pc = "lock" /\ producer \in ProducerType /\ device.pc = "idle" /\ ~open
      /\ stream' = "none" /\ ring' = << >> /\ readPos' = 0 /\ writePos' = 0
      /\ producer' = IF producer.again THEN [producer EXCEPT !.pc = "prepare"] ELSE Idle
      /\ UNCHANGED <<open, stopping, device, offered, accepted, asked, dropped, heard, latest>>
  BY DEF EndStop, StreamQuiet, counters, Inv, TypeOK, ProducerType, Lifetime
<1>2. producer' \in ProducerType /\ producer'.pc \in {"prepare", "idle"}
  <2>1. /\ producer \in ProducerType
        /\ producer' = [producer EXCEPT !.pc = "prepare"] \/ producer' = Idle
    BY <1>1
  <2> QED
    BY <2>1, IdleProducer DEF ProducerType
<1>3. TypeOK' /\ Counted'
  BY <1>1, <1>2 DEF Inv, TypeOK, Counted, ProducerType
<1>4. Lifetime'
  BY <1>1, <1>2 DEF Lifetime, Active, Copying
<1>5. Reach' /\ Books'
  BY <1>1, <1>2, RingAssumption DEF Reach, CountersInOrder, Books, Active, Copying
<1> QED
  BY <1>3, <1>4, <1>5 DEF Inv

LEMMA PrepareRingStep ==
  ASSUME Inv, PrepareRing
  PROVE  Inv'
<1>1. /\ producer.pc = "prepare" /\ producer \in ProducerType /\ device.pc = "idle" /\ ~open
      /\ ring' = [s \in 0..(Capacity - 1) |-> 0]
      /\ readPos' = 0 /\ writePos' = Capacity \div 2 /\ ~stopping' /\ stopping' \in BOOLEAN
      /\ accepted' = 0 /\ asked' = 0 /\ dropped' = 0
      /\ \/ stream' = "paused" /\ producer' = [producer EXCEPT !.pc = "open"]
         \/ stream' = "none" /\ producer' = Idle
      /\ UNCHANGED <<open, device, offered, heard, latest>>
  BY DEF PrepareRing, Inv, TypeOK, ProducerType, Lifetime
<1>2. /\ producer' \in ProducerType
      /\ (producer'.pc = "open" /\ stream' = "paused") \/ (producer'.pc = "idle" /\ stream' = "none")
  <2>1. CASE producer' = [producer EXCEPT !.pc = "open"]
    <3>1. producer \in ProducerType
      BY <1>1
    <3>2. producer' \in ProducerType /\ producer'.pc = "open"
      BY <3>1, <2>1 DEF ProducerType
    <3> QED
      BY <1>1, <3>2, IdleProducer
  <2>2. CASE producer' = Idle
    BY <1>1, <2>2, IdleProducer, <2>1
  <2> QED
    BY <1>1, <2>1, <2>2
<1>3. Capacity \div 2 \in Nat /\ Capacity \div 2 <= Capacity
  BY RingAssumption
<1>4. ring' \in [0..(Capacity - 1) -> 0..MaxOffered] /\ ring' # << >>
  <2>1. ring' \in [0..(Capacity - 1) -> 0..MaxOffered]
    BY <1>1, RingAssumption
  <2> QED
    BY <2>1, RingNotEmpty
<1>5. TypeOK' /\ Counted'
  BY <1>1, <1>2, <1>3, <1>4 DEF Inv, TypeOK, Counted, ProducerType
<1>6. Lifetime'
  BY <1>1, <1>2, <1>4 DEF Lifetime, Active, Copying
<1>7. Reach' /\ Books'
  BY <1>1, <1>2, <1>3, RingAssumption DEF Reach, CountersInOrder, Books, Active, Copying
<1> QED
  BY <1>5, <1>6, <1>7 DEF Inv

LEMMA OpenQueueStep ==
  ASSUME Inv, OpenQueue
  PROVE  Inv'
<1>1. /\ producer.pc = "open" /\ producer \in ProducerType /\ open' = TRUE
      /\ producer' = [producer EXCEPT !.pc = "resume"]
      /\ accepted = 0 /\ dropped = 0 /\ asked = 0
      /\ UNCHANGED <<ring, readPos, writePos, stopping, stream, device,
                     offered, accepted, asked, dropped, heard, latest>>
  BY DEF OpenQueue, counters, Inv, TypeOK, ProducerType, Books
<1>2. producer' \in ProducerType /\ producer'.pc = "resume"
  <2>1. producer \in ProducerType /\ producer' = [producer EXCEPT !.pc = "resume"]
    BY <1>1
  <2> QED
    BY <2>1 DEF ProducerType
<1>3. TypeOK' /\ Counted'
  BY <1>1, <1>2 DEF Inv, TypeOK, Counted, ProducerType
<1>4. Lifetime' /\ Reach' /\ Books'
  BY <1>1, <1>2 DEF Inv, Lifetime, Reach, CountersInOrder, Books, Active, Copying
<1> QED
  BY <1>3, <1>4 DEF Inv

LEMMA ResumeStep ==
  ASSUME Inv, Resume
  PROVE  Inv'
<1>1. /\ producer.pc = "resume" /\ open
      /\ UNCHANGED <<ring, readPos, writePos, device,
                     offered, accepted, asked, dropped, heard, latest>>
  BY DEF Resume, counters, Inv, Lifetime
<1>2. CASE stream' = "running" /\ producer' = Idle /\ UNCHANGED <<open, stopping>>
  <2>1. TypeOK' /\ Counted'
    BY <1>1, <1>2, IdleProducer DEF Inv, TypeOK, Counted, ProducerType
  <2>2. Lifetime'
    BY <1>1, <1>2, IdleProducer DEF Inv, Lifetime, Active, Copying
  <2>3. Reach' /\ Books'
    BY <1>1, <1>2, IdleProducer DEF Inv, Reach, CountersInOrder, Books, Active, Copying
  <2> QED
    BY <2>1, <2>2, <2>3 DEF Inv
<1>3. CASE stopping' = TRUE /\ open' = FALSE /\ producer' = [Idle EXCEPT !.pc = "pause"]
           /\ UNCHANGED stream
  <2>1. producer' \in ProducerType /\ producer'.pc = "pause"
    BY <1>3, StoppedAgain
  <2>2. TypeOK' /\ Counted'
    BY <1>1, <1>3, <2>1 DEF Inv, TypeOK, Counted, ProducerType
  <2>3. Lifetime' /\ Reach' /\ Books'
    BY <1>1, <1>3, <2>1 DEF Inv, Lifetime, Reach, CountersInOrder, Books, Active, Copying
  <2> QED
    BY <2>2, <2>3 DEF Inv
<1> QED
  BY <1>2, <1>3 DEF Resume

-----------------------------------------------------------------------------
(* The ring is a queue.                                                      *)

\* What the copies have copied, and that blocks come in the order of their numbers.
Faithful ==
  /\ ring = << >> => readPos = writePos
  /\ producer.pc = "prepare" => ring = << >>
  /\ latest \in Nat /\ latest <= offered
  /\ producer.pc \in Active => latest < producer.first
  /\ producer.pc \in {"copy", "publish"} => producer.n >= 1
  /\ producer.pc = "publish" =>
       \A i \in 1..producer.n : ring[Slot(writePos + i - 1)] = producer.first + i - 1
  /\ device.pc = "release" => device.buffer = Row(ring, device.from, device.n)

LEMMA QueueIsRow == Queue = Row(ring, readPos, Queued)
  BY DEF Queue, Row

\* What is queued can be read.
LEMMA QueueReadable ==
  ASSUME Inv, Faithful
  PROVE  Readable(ring, 0..MaxOffered, readPos, Queued)
<1>1. readPos \in Nat /\ writePos \in Nat /\ readPos <= writePos /\ Queued \in Nat
  BY DEF Inv, TypeOK, Reach, CountersInOrder, Queued
<1>2. ASSUME NEW q \in readPos..(readPos + Queued - 1) PROVE ring[Slot(q)] \in 0..MaxOffered
  <2>1. ring # << >> /\ q \in Nat
    BY <1>1 DEF Faithful, Queued
  <2>2. ring \in [0..(Capacity - 1) -> 0..MaxOffered]
    BY <2>1 DEF Inv, TypeOK
  <2> QED
    BY <2>1, <2>2, SlotInRing
<1> QED
  BY <1>1, <1>2 DEF Readable

LEMMA StaysQueued ==
  ASSUME UNCHANGED <<ring, readPos, writePos, heard, latest>>
  PROVE  UNCHANGED Fifo!fifoVars
  BY DEF Fifo!fifoVars, Queue, Queued

\* Steps that touch neither the ring nor its ends, and complete no copy.
LEMMA QuietStep ==
  ASSUME Inv, Faithful, UNCHANGED <<ring, readPos, writePos, heard, latest>>,
         offered' \in Nat, offered' >= offered,
         producer'.pc \in Active => latest < producer'.first,
         producer'.pc = "copy" => producer'.n >= 1,
         producer'.pc = "prepare" => producer.pc = "prepare",
         producer'.pc = "publish" => producer' = producer,
         device'.pc = "release" => device' = device
  PROVE  Faithful' /\ UNCHANGED Fifo!fifoVars
<1>1. offered \in Nat /\ latest \in Nat /\ latest' = latest /\ latest <= offered
  BY RingAssumption DEF Inv, Counted, Faithful
<1>2. latest' <= offered'
  BY <1>1
<1>3. ring' = << >> => readPos' = writePos'
  BY DEF Faithful
<1>4. producer'.pc = "prepare" => ring' = << >>
  BY DEF Faithful
<1>5. producer'.pc \in {"copy", "publish"} => producer'.n >= 1
  BY DEF Faithful
<1>6. producer'.pc = "publish" =>
        \A i \in 1..producer'.n : ring'[Slot(writePos' + i - 1)] = producer'.first + i - 1
  BY DEF Faithful
<1>7. device'.pc = "release" => device'.buffer = Row(ring', device'.from, device'.n)
  BY DEF Faithful
<1>8. Faithful'
  BY <1>1, <1>2, <1>3, <1>4, <1>5, <1>6, <1>7 DEF Faithful, Slot, Row
<1> QED
  BY <1>8, StaysQueued

\* A step that only moves the producer on.
LEMMA ProducerMoves ==
  ASSUME NEW r, r \in ProducerType, NEW to, NEW q, q = [r EXCEPT !.pc = to]
  PROVE  q.pc = to /\ q.first = r.first /\ q.n = r.n /\ q.remaining = r.remaining
  BY DEF ProducerType

LEMMA QuietProducer ==
  ASSUME Inv, Faithful,
         \/ \E count \in Chunks, sync \in BOOLEAN : Write(count, sync)
         \/ LoadCounters \/ TestSpace \/ FallAsleep \/ TimeOut
         \/ \E again \in BOOLEAN : BeginStop(again)
         \/ PauseStream \/ OpenQueue \/ Resume
  PROVE  Faithful' /\ UNCHANGED Fifo!fifoVars
<1>1. /\ producer \in ProducerType /\ offered \in Nat /\ latest \in Nat /\ latest <= offered
      /\ producer.pc \in Active => latest < producer.first
  BY RingAssumption DEF Inv, TypeOK, ProducerType, Counted, Faithful
<1>2. ASSUME NEW count \in Chunks, NEW sync \in BOOLEAN, Write(count, sync)
      PROVE  Faithful' /\ UNCHANGED Fifo!fifoVars
  <2> DEFINE kept == IF sync \/ count <= Capacity THEN count ELSE Capacity
  <2>1. count \in Nat \ {0} /\ kept \in Nat /\ kept <= count
    BY RingAssumption
  <2>2. /\ producer' = [Idle EXCEPT !.pc = "load", !.sync = sync, !.remaining = kept,
                                    !.first = offered + count - kept + 1]
        /\ offered' = offered + count
        /\ UNCHANGED <<ring, readPos, writePos, device, heard, latest>>
    BY <1>2 DEF Write
  <2> HIDE DEF kept
  <2>3. producer'.pc = "load" /\ producer'.first = offered + count - kept + 1
    BY <2>2 DEF Idle
  <2>4. latest < producer'.first /\ offered' \in Nat /\ offered' >= offered
    BY <1>1, <2>1, <2>2, <2>3
  <2> QED
    BY <2>2, <2>3, <2>4, QuietStep
<1>3. ASSUME UNCHANGED <<ring, readPos, writePos, heard, latest, offered, device>>,
             NEW to, producer' = [producer EXCEPT !.pc = to],
             \/ to \in {"load", "test", "drowsy", "asleep"} /\ producer.pc \in Active
             \/ to \in {"lock", "resume"}
      PROVE  Faithful' /\ UNCHANGED Fifo!fifoVars
  <2>1. producer'.pc = to /\ producer'.first = producer.first
    BY <1>1, <1>3, ProducerMoves
  <2> QED
    BY <1>1, <1>3, <2>1, QuietStep DEF Active
<1>4. ASSUME UNCHANGED <<ring, readPos, writePos, heard, latest, offered, device>>,
             producer'.pc \in {"idle", "pause"}
      PROVE  Faithful' /\ UNCHANGED Fifo!fifoVars
  BY <1>1, <1>4, QuietStep DEF Active
<1>5. CASE LoadCounters
  <2>1. /\ producer.pc = "load" /\ readPos \in Nat /\ writePos \in Nat /\ Room \in Nat
        /\ producer.remaining \in Nat /\ producer.remaining >= 1
        /\ UNCHANGED <<ring, readPos, writePos, device, offered, heard, latest>>
    BY <1>1, <1>5, RingAssumption
       DEF LoadCounters, Inv, TypeOK, ProducerType, Reach, CountersInOrder, Room, Queued,
           Books, Active
  <2>2. CASE /\ Room > 0
             /\ producer' = [producer EXCEPT !.pc = "copy",
                  !.n = Smallest({producer.remaining, Room, Capacity - Slot(writePos)})]
    <3>1. PICK n : n = Smallest({producer.remaining, Room, Capacity - Slot(writePos)})
      OBVIOUS
    <3>2. Capacity - Slot(writePos) \in Nat /\ Capacity - Slot(writePos) >= 1
      BY <2>1, SlotInRing, RingAssumption
    <3>3. n \in {producer.remaining, Room, Capacity - Slot(writePos)}
      BY <2>1, <3>1, <3>2, SmallestOfThree
    <3>4. n >= 1
      BY <2>1, <2>2, <3>2, <3>3
    <3>5. producer' = [producer EXCEPT !.pc = "copy", !.n = n]
      BY <2>2, <3>1
    <3>6. producer'.pc = "copy" /\ producer'.n = n /\ producer'.first = producer.first
      BY <1>1, <3>5 DEF ProducerType
    <3> QED
      BY <1>1, <2>1, <3>4, <3>6, QuietStep DEF Active
  <2>3. CASE producer' = [producer EXCEPT !.pc = "test"]
    BY <1>3, <2>1, <2>3 DEF Active
  <2>4. CASE producer' = Idle
    BY <1>4, <2>1, <2>4, IdleProducer
  <2> QED
    BY <1>5, <2>2, <2>3, <2>4 DEF LoadCounters
<1>6. CASE TestSpace
  BY <1>3, <1>6 DEF TestSpace, Active, counters
<1>7. CASE FallAsleep
  BY <1>3, <1>7 DEF FallAsleep, Active, counters
<1>8. CASE TimeOut
  <2>1. producer' = [producer EXCEPT !.pc = "load"] \/ producer' = Idle
    BY <1>8 DEF TimeOut
  <2> QED
    BY <1>3, <1>4, <1>8, <2>1, IdleProducer DEF TimeOut, Active
<1>9. ASSUME NEW again \in BOOLEAN, BeginStop(again)
      PROVE  Faithful' /\ UNCHANGED Fifo!fifoVars
  <2>1. producer'.pc = "pause"
    BY <1>9, StopRequested DEF BeginStop
  <2> QED
    BY <1>4, <1>9, <2>1 DEF BeginStop, counters
<1>10. CASE PauseStream
  BY <1>3, <1>10 DEF PauseStream, counters
<1>11. CASE OpenQueue
  BY <1>3, <1>11 DEF OpenQueue, counters
<1>12. CASE Resume
  <2>1. producer'.pc \in {"idle", "pause"}
    BY <1>12, IdleProducer, StoppedAgain DEF Resume
  <2> QED
    BY <1>4, <1>12, <2>1 DEF Resume, counters
<1> QED
  BY <1>2, <1>5, <1>6, <1>7, <1>8, <1>9, <1>10, <1>11, <1>12

LEMMA QuietDevice ==
  ASSUME Inv, Faithful, (\E requested \in Requests : Fill(requested)) \/ Finish
  PROVE  Faithful' /\ UNCHANGED Fifo!fifoVars
<1>1. offered \in Nat /\ UNCHANGED <<ring, readPos, writePos, offered, heard, latest>>
  <2>1. ASSUME NEW requested \in Requests, Fill(requested)
        PROVE  UNCHANGED <<ring, readPos, writePos, offered, heard, latest>>
    BY <2>1 DEF Fill, TakeFrom, counters
  <2>2. CASE Finish
    BY <2>2, RingAssumption DEF Inv, Counted, Finish, counters
  <2> QED
    BY <2>1, <2>2, RingAssumption DEF Inv, Counted
<1>2. device'.pc # "release"
  <2>1. ASSUME NEW requested \in Requests, Fill(requested) PROVE device'.pc # "release"
    <3>1. CASE device' = [pc |-> "copy", requested |-> requested, from |-> readPos,
                          n |-> Available(requested), buffer |-> << >>]
      <4>1. PICK n, r : n = Available(requested) /\ r = requested
        OBVIOUS
      <4>2. device' = [pc |-> "copy", requested |-> r, from |-> readPos, n |-> n,
                       buffer |-> << >>]
        BY <3>1, <4>1
      <4> QED
        BY <4>2
    <3>2. CASE device' = [Resting EXCEPT !.pc = "finish", !.requested = requested]
      <4>1. Resting = [pc |-> "idle", requested |-> 0, from |-> 0, n |-> 0, buffer |-> << >>]
        BY DEF Resting
      <4> QED
        BY <3>2, <4>1
    <3> QED
      BY <2>1, <3>1, <3>2 DEF Fill
  <2>2. CASE Finish
    BY <2>2, RestingDevice DEF Finish
  <2> QED
    BY <2>1, <2>2
<1>3. \/ producer' = producer
      \/ producer.pc = "asleep" /\ producer' = [producer EXCEPT !.pc = "test"]
  BY DEF Fill, Finish
<1>4. CASE producer' = producer
  BY <1>1, <1>2, <1>4, QuietStep DEF Faithful
<1>5. CASE producer.pc = "asleep" /\ producer' = [producer EXCEPT !.pc = "test"]
  <2>1. producer \in ProducerType
    BY DEF Inv, TypeOK, ProducerType
  <2>2. producer'.pc = "test" /\ producer'.first = producer.first
    BY <1>5, <2>1, ProducerMoves
  <2> QED
    BY <1>1, <1>2, <1>5, <2>2, QuietStep DEF Faithful, Active
<1> QED
  BY <1>3, <1>4, <1>5

\* The callback has its own copy of what it will hand over.
LEMMA CopyOutFaithful ==
  ASSUME Inv, Faithful, CopyOut
  PROVE  Faithful' /\ UNCHANGED Fifo!fifoVars
<1>1. /\ device \in DeviceType
      /\ UNCHANGED <<ring, readPos, writePos, producer, offered, heard, latest>>
  BY DEF CopyOut, counters, Inv, TypeOK, DeviceType
<1>2. PICK out : out = Row(ring, device.from, device.n)
  OBVIOUS
<1>3. device' = [device EXCEPT !.pc = "release", !.buffer = out]
  BY <1>2 DEF CopyOut, Row
<1>4. device'.buffer = out /\ device'.from = device.from /\ device'.n = device.n
  BY <1>1, <1>3 DEF DeviceType
<1>5. Faithful'
  BY <1>1, <1>2, <1>4 DEF Faithful, Slot, Row
<1> QED
  BY <1>1, <1>5, StaysQueued

\* The emulator copies into slots that are neither queued nor being played.
LEMMA CopyInFaithful ==
  ASSUME Inv, Faithful, CopyIn
  PROVE  Faithful' /\ UNCHANGED Fifo!fifoVars
<1>1. PICK w, n, first : w = writePos /\ n = producer.n /\ first = producer.first
  OBVIOUS
<1>2. /\ producer.pc = "copy" /\ producer \in ProducerType /\ open
      /\ UNCHANGED <<readPos, writePos, device, offered, heard, latest>>
      /\ producer' = [producer EXCEPT !.pc = "publish"]
  BY DEF CopyIn, Inv, TypeOK, ProducerType, Lifetime, Active, counters
<1>3. /\ readPos \in Nat /\ w \in Nat /\ n \in 1..Capacity /\ first \in Nat
      /\ readPos <= w /\ w + n <= readPos + Capacity /\ Capacity \in Nat \ {0}
      /\ ring # << >> /\ ring \in [0..(Capacity - 1) -> 0..MaxOffered]
  <2>1. n \in 0..Capacity /\ n >= 1 /\ Capacity \in Nat
    BY <1>1, <1>2, RingAssumption DEF ProducerType, Faithful
  <2>2. n \in 1..Capacity
    BY <2>1
  <2>3. ring # << >> /\ ring \in [0..(Capacity - 1) -> 0..MaxOffered]
    BY <1>2 DEF Inv, TypeOK, Lifetime
  <2>4. /\ readPos \in Nat /\ w \in Nat /\ first \in Nat
        /\ readPos <= w /\ w + n <= readPos + Capacity
    BY <1>1, <1>2 DEF Inv, TypeOK, ProducerType, Reach, CountersInOrder
  <2> QED
    BY <2>2, <2>3, <2>4, RingAssumption
<1> DEFINE copied(s) == \E i \in 0..(n - 1) : s = Slot(w + i)
           which(s) == CHOOSE i \in 0..(n - 1) : s = Slot(w + i)
<1>4. ring' = [s \in 0..(Capacity - 1) |-> IF copied(s) THEN first + which(s) ELSE ring[s]]
  <2>1. DOMAIN ring = 0..(Capacity - 1)
    BY <1>3
  <2>2. ring' = [s \in DOMAIN ring |-> IF copied(s) THEN first + which(s) ELSE ring[s]]
    BY <1>1 DEF CopyIn
  <2> HIDE DEF copied, which
  <2> QED
    BY <2>1, <2>2
\* A slot of the block holds its sample.
<1>5. ASSUME NEW i \in 0..(n - 1) PROVE ring'[Slot(w + i)] = first + i
  <2>1. Slot(w + i) \in 0..(Capacity - 1)
    <3>1. w + i \in Nat
      BY <1>3
    <3> QED
      BY <3>1, SlotInRing
  <2>2. copied(Slot(w + i))
    OBVIOUS
  <2>3. which(Slot(w + i)) \in 0..(n - 1) /\ Slot(w + i) = Slot(w + which(Slot(w + i)))
    BY <2>2
  <2>4. PICK j : j = which(Slot(w + i))
    OBVIOUS
  <2>5. j \in 0..(n - 1) /\ Slot(w + i) = Slot(w + j)
    BY <2>3, <2>4
  <2>6. CASE j < i
    <3>1. w + i \in Nat /\ w + j \in Nat /\ w + j < w + i /\ w + i < w + j + Capacity
      BY <1>3, <2>5, <2>6
    <3> QED
      BY <1>3, <2>5, <3>1, SlotsDiffer DEF Slot
  <2>7. CASE i < j
    <3>1. w + i \in Nat /\ w + j \in Nat /\ w + i < w + j /\ w + j < w + i + Capacity
      BY <1>3, <2>5, <2>7
    <3> QED
      BY <1>3, <2>5, <3>1, SlotsDiffer DEF Slot
  <2>8. CASE i = j
    <3> HIDE DEF copied, which
    <3> QED
      BY <1>4, <2>1, <2>2, <2>4, <2>8
  <2> QED
    BY <1>3, <2>5, <2>6, <2>7, <2>8
\* A slot before the block holds what it held.
<1>6. ASSUME NEW q \in readPos..(w - 1) PROVE ring'[Slot(q)] = ring[Slot(q)]
  <2>1. q \in Nat /\ Slot(q) \in 0..(Capacity - 1)
    <3>1. q \in Nat
      BY <1>3
    <3> QED
      BY <3>1, SlotInRing
  <2>2. ASSUME NEW i \in 0..(n - 1) PROVE Slot(q) # Slot(w + i)
    <3>1. w + i \in Nat /\ q < w + i /\ w + i < q + Capacity
      BY <1>3, <2>1
    <3> QED
      BY <1>3, <2>1, <3>1, SlotsDiffer DEF Slot
  <2>3. ~copied(Slot(q))
    BY <2>2
  <2> HIDE DEF copied, which
  <2> QED
    BY <1>4, <2>1, <2>3
<1> HIDE DEF copied, which
<1>7. Queue' = Queue
  <2>1. Queued \in Nat /\ readPos + Queued - 1 = w - 1 /\ Queued' = Queued
    BY <1>1, <1>2, <1>3 DEF Queued
  <2>2. \A q \in readPos..(readPos + Queued - 1) : ring'[Slot(q)] = ring[Slot(q)]
    BY <1>6, <2>1
  <2>3. Row(ring', readPos, Queued) = Row(ring, readPos, Queued)
    <3>1. readPos \in Nat /\ Queued \in Nat
      BY <1>3, <2>1
    <3> QED
      BY <2>2, <3>1, RowSame, Zenon
  <2>4. Queue' = Row(ring', readPos, Queued)
    BY <1>2, <2>1 DEF Queue, Row, Slot
  <2> QED
    BY <2>3, <2>4, QueueIsRow
<1>8. device.pc = "release" => device'.buffer = Row(ring', device'.from, device'.n)
  <2>1. SUFFICES ASSUME device.pc = "release"
                 PROVE  device.buffer = Row(ring', device.from, device.n)
    BY <1>2
  <2>2. device.from = readPos /\ readPos + device.n <= w /\ device.n \in Nat
    BY <1>1, <2>1, RingAssumption DEF Inv, TypeOK, Reach, Copying
  <2>3. \A q \in readPos..(readPos + device.n - 1) : q \in readPos..(w - 1)
    BY <1>3, <2>2
  <2>4. Row(ring', readPos, device.n) = Row(ring, readPos, device.n)
    <3>1. readPos \in Nat /\ device.n \in Nat
      BY <1>3, <2>2
    <3>2. \A q \in readPos..(readPos + device.n - 1) : ring'[Slot(q)] = ring[Slot(q)]
      BY <1>6, <2>3
    <3> QED
      BY <3>1, <3>2, RowSame, Zenon
  <2> QED
    BY <2>1, <2>2, <2>4 DEF Faithful
<1>9. producer'.pc = "publish" /\ producer'.first = first /\ producer'.n = n
  BY <1>1, <1>2, ProducerMoves
<1>10. \A i \in 1..n : ring'[Slot(writePos' + i - 1)] = first + i - 1
  <2>1. ASSUME NEW i \in 1..n PROVE ring'[Slot(w + i - 1)] = first + i - 1
    <3>1. i - 1 \in 0..(n - 1) /\ w + (i - 1) = w + i - 1 /\ first + (i - 1) = first + i - 1
      BY <1>3
    <3> QED
      BY <1>5, <3>1
  <2> QED
    BY <1>1, <1>2, <2>1
<1>11. ring' # << >>
  <2>1. DOMAIN ring' = 0..(Capacity - 1) /\ 0 \in 0..(Capacity - 1)
    BY <1>3, <1>4
  <2>2. DOMAIN << >> = {}
    OBVIOUS
  <2> QED
    BY <2>1, <2>2
<1>12. Faithful'
  <2>1. /\ latest' \in Nat /\ latest' <= offered' /\ latest' < producer'.first
        /\ producer'.n >= 1
    BY <1>1, <1>2, <1>3, <1>9 DEF Faithful, Active
  <2> QED
    BY <1>2, <1>8, <1>9, <1>10, <1>11, <2>1 DEF Faithful, Slot, Row
<1> QED
  BY <1>2, <1>7, <1>12 DEF Fifo!fifoVars

\* Publishing the block accepts it.
LEMMA PublishAccepts ==
  ASSUME Inv, Faithful, Publish
  PROVE  Faithful' /\ Fifo!Next
<1>1. PICK w, n, first, k : w = writePos /\ n = producer.n /\ first = producer.first /\ k = Queued
  OBVIOUS
<1>2. /\ producer.pc = "publish" /\ producer \in ProducerType /\ open
      /\ writePos' = w + n /\ latest' = first + n - 1
      /\ UNCHANGED <<ring, readPos, device, offered, heard>>
  BY <1>1 DEF Publish, Inv, TypeOK, ProducerType, Lifetime, Active
<1>3. /\ readPos \in Nat /\ w \in Nat /\ n \in Nat /\ first \in Nat /\ Capacity \in Nat \ {0}
      /\ k \in Nat /\ readPos + k = w /\ w + n <= readPos + Capacity
      /\ n >= 1 /\ n <= producer.remaining /\ producer.remaining \in Nat
      /\ first + producer.remaining = offered + 1 /\ offered \in 0..MaxOffered
      /\ latest \in Nat /\ latest < first /\ MaxOffered \in Nat
  BY <1>1, <1>2, RingAssumption
     DEF Inv, TypeOK, ProducerType, Counted, Reach, CountersInOrder, Books, Queued, Active, Faithful
<1>4. first \in 1..MaxOffered /\ n \in 1..Capacity /\ first + n - 1 \in Nat
      /\ first + n - 1 <= offered
  BY <1>3
<1>5. PICK block : block = [i \in 1..n |-> first + i - 1]
  OBVIOUS
<1>6. block \in Seq(0..MaxOffered) /\ Len(block) = n /\ \A i \in 1..n : block[i] = first + i - 1
  <2>1. \A i \in 1..n : first + i - 1 \in 0..MaxOffered
    BY <1>3, <1>4
  <2>2. block \in [1..n -> 0..MaxOffered]
    BY <1>5, <2>1
  <2>3. block \in Seq(0..MaxOffered)
    BY <1>3, <2>2, SeqDef
  <2>4. Len(block) \in Nat /\ 1..Len(block) = 1..n
    BY <2>2, <2>3, LenProperties
  <2>5. Len(block) = n
    BY <1>3, <2>4
  <2> QED
    BY <1>5, <2>3, <2>5
<1>7. \A i \in 1..Len(block) : ring[Slot(readPos + k + i - 1)] = block[i]
  <2>1. \A i \in 1..n : ring[Slot(w + i - 1)] = first + i - 1
    BY <1>1, <1>2 DEF Faithful
  <2> QED
    BY <1>3, <1>6, <2>1
<1>8. Readable(ring, 0..MaxOffered, readPos, k)
  BY <1>1, QueueReadable
<1>9. Row(ring, readPos, k + Len(block)) = Row(ring, readPos, k) \o block
  <2>1. PICK S : S = 0..MaxOffered
    OBVIOUS
  <2>2. block \in Seq(S) /\ Readable(ring, S, readPos, k)
    BY <1>6, <1>8, <2>1
  <2> QED
    BY <1>7, <2>2, RowGrows
<1>10. Queue' = Row(ring, readPos, k + n)
  <2>1. Queued' = k + n
    BY <1>2, <1>3 DEF Queued
  <2> QED
    BY <1>2, <2>1 DEF Queue, Row, Slot
<1>11. Queue' = Queue \o block /\ Len(Queue) = k
  <2>1. Queue = Row(ring, readPos, k)
    BY <1>1, QueueIsRow
  <2> QED
    BY <1>6, <1>8, <1>9, <1>10, <2>1, RowIs
<1>12. Fifo!Accept(first, n)
  <2>1. first > latest /\ Len(Queue) + n <= Capacity
    BY <1>3, <1>11
  <2> QED
    BY <1>2, <1>5, <1>11, <2>1 DEF Fifo!Accept
<1>13. Fifo!Next
  BY <1>4, <1>12 DEF Fifo!Next
<1>14. \/ producer' = Idle
       \/ producer' = [producer EXCEPT !.pc = "load", !.first = first + n,
                                      !.remaining = producer.remaining - n, !.n = 0]
  BY <1>1, <1>2 DEF Publish, ProducerType
<1>15. producer'.pc = "idle" \/ (producer'.pc = "load" /\ producer'.first = first + n)
  <2>1. CASE producer' = Idle
    BY <2>1, IdleProducer
  <2>2. CASE producer' = [producer EXCEPT !.pc = "load", !.first = first + n,
                                         !.remaining = producer.remaining - n, !.n = 0]
    BY <1>2, <2>2 DEF ProducerType
  <2> QED
    BY <1>14, <2>1, <2>2
<1>16. ring # << >>
  BY <1>2 DEF Inv, Lifetime
<1>17. Faithful'
  <2>1. latest' \in Nat /\ latest' <= offered' /\ latest' < first + n
    BY <1>2, <1>3, <1>4
  <2>2. producer'.pc \in Active => latest' < producer'.first
    BY <1>15, <2>1 DEF Active
  <2>3. device'.pc = "release" => device'.buffer = Row(ring', device'.from, device'.n)
    BY <1>2 DEF Faithful
  <2> QED
    BY <1>2, <1>15, <1>16, <2>1, <2>2, <2>3 DEF Faithful, Slot, Row
<1> QED
  BY <1>13, <1>17

\* Giving the slots back delivers what was in them.
LEMMA ReleaseDelivers ==
  ASSUME Inv, Faithful, Release
  PROVE  Faithful' /\ Fifo!Next
<1>1. PICK n, k : n = device.n /\ k = Queued
  OBVIOUS
<1>2. /\ device.pc = "release" /\ device \in DeviceType
      /\ UNCHANGED <<ring, writePos, producer, offered, latest>>
      /\ heard' = device.buffer /\ readPos' = device.from + n
      /\ device' = [device EXCEPT !.pc = "finish"]
  BY <1>1 DEF Release, counters, Inv, TypeOK, DeviceType
<1>3. /\ device.from = readPos /\ readPos + n <= writePos /\ n \in Nat
      /\ readPos \in Nat /\ writePos \in Nat /\ k \in Nat /\ readPos + k = writePos
  BY <1>1, <1>2, RingAssumption
     DEF Inv, TypeOK, DeviceType, Reach, CountersInOrder, Copying, Queued
<1>4. n \in 0..k /\ k - n \in Nat
  BY <1>3
<1>5. Readable(ring, 0..MaxOffered, readPos, k)
  BY <1>1, QueueReadable
<1>6. Queue = Row(ring, readPos, k) /\ Len(Queue) = k
  BY <1>1, <1>5, QueueIsRow, RowIs
<1>7. heard' = SubSeq(Queue, 1, n)
  <2>1. heard' = Row(ring, readPos, n)
    BY <1>1, <1>2, <1>3 DEF Faithful
  <2> QED
    BY <1>4, <1>5, <1>6, <2>1, RowTaken
<1>8. Queue' = SubSeq(Queue, n + 1, Len(Queue))
  <2>1. Queued' = k - n
    BY <1>2, <1>3 DEF Queued
  <2>2. Queue' = Row(ring, readPos + n, k - n)
    BY <1>2, <1>3, <2>1 DEF Queue, Row, Slot
  <2>3. SubSeq(Row(ring, readPos, k), n + 1, k) = Row(ring, readPos + n, k - n)
    BY <1>4, <1>5, RowTaken
  <2> QED
    BY <1>6, <2>2, <2>3
<1>9. Fifo!Deliver(n)
  BY <1>2, <1>7, <1>8 DEF Fifo!Deliver
<1>10. Fifo!Next
  BY <1>4, <1>6, <1>9 DEF Fifo!Next
<1>11. device'.pc = "finish"
  BY <1>2 DEF DeviceType
<1>12. ring # << >> /\ producer.pc # "prepare"
  BY <1>2 DEF Inv, Lifetime, Copying, Faithful
<1>13. Faithful'
  BY <1>2, <1>11, <1>12 DEF Faithful, Slot, Row
<1> QED
  BY <1>10, <1>13

\* An empty row is an empty sequence.
LEMMA EmptyRow ==
  ASSUME NEW r, NEW p
  PROVE  Row(r, p, 0) = << >>
<1>1. 1..0 = {}
  OBVIOUS
<1> QED
  BY <1>1 DEF Row

\* The end of Stop clears the queue.
LEMMA EndStopClears ==
  ASSUME Inv, Faithful, EndStop
  PROVE  Faithful' /\ Fifo!Next
<1>1. /\ producer.pc = "lock" /\ producer \in ProducerType /\ device.pc = "idle"
      /\ ring' = << >> /\ readPos' = 0 /\ writePos' = 0
      /\ producer' = IF producer.again THEN [producer EXCEPT !.pc = "prepare"] ELSE Idle
      /\ UNCHANGED <<device, offered, heard, latest>>
  BY DEF EndStop, StreamQuiet, counters, Inv, TypeOK, ProducerType, Lifetime
<1>2. producer'.pc \in {"prepare", "idle"}
  <2>1. producer' = [producer EXCEPT !.pc = "prepare"] \/ producer' = Idle
    BY <1>1
  <2>2. CASE producer' = [producer EXCEPT !.pc = "prepare"]
    <3>1. producer'.pc = "prepare"
      <4>1. producer \in ProducerType
        BY <1>1
      <4> QED
        BY <2>2, <4>1, ProducerMoves
    <3> QED
      BY <3>1
  <2> QED
    BY <2>1, <2>2, IdleProducer
<1>3. Queue' = << >>
  <2>1. Queued' = 0
    BY <1>1 DEF Queued
  <2>2. Queue' = Row(<< >>, 0, 0)
    BY <1>1, <2>1 DEF Queue, Row, Slot
  <2> QED
    BY <2>2, EmptyRow
<1>4. Fifo!Next
  BY <1>1, <1>3 DEF Fifo!Next, Fifo!Clear
<1>5. Faithful'
  BY <1>1, <1>2 DEF Faithful, Active, Slot, Row
<1> QED
  BY <1>4, <1>5

\* Start puts half a ring of silence into an empty queue.
LEMMA PreparePrimes ==
  ASSUME Inv, Faithful, PrepareRing
  PROVE  Faithful' /\ Fifo!Next
<1>1. PICK half : half = Capacity \div 2
  OBVIOUS
<1>2. /\ producer.pc = "prepare" /\ producer \in ProducerType /\ device.pc = "idle"
      /\ ring' = [s \in 0..(Capacity - 1) |-> 0]
      /\ readPos' = 0 /\ writePos' = half
      /\ producer' = [producer EXCEPT !.pc = "open"] \/ producer' = Idle
      /\ UNCHANGED <<device, offered, heard, latest>>
  BY <1>1 DEF PrepareRing, Inv, TypeOK, ProducerType, Lifetime
<1>3. half \in Nat /\ Capacity \in Nat \ {0}
  BY <1>1, RingAssumption
<1>4. producer'.pc \in {"open", "idle"}
  <2>1. producer' = [producer EXCEPT !.pc = "open"] => producer'.pc = "open"
    BY <1>2, ProducerMoves
  <2> QED
    BY <1>2, <2>1, IdleProducer
<1>5. Queue = << >>
  <2>1. Queued = 0
    <3>1. readPos = writePos /\ readPos \in Nat
      BY <1>2 DEF Faithful, Inv, TypeOK
    <3> QED
      BY <3>1 DEF Queued
  <2> QED
    BY <2>1, QueueIsRow, EmptyRow
<1>6. Queue' = [i \in 1..half |-> 0]
  <2>1. Queued' = half
    BY <1>2, <1>3 DEF Queued
  <2>2. Queue' = [i \in 1..half |-> ring'[Slot(0 + i - 1)]]
    BY <1>2, <2>1 DEF Queue, Slot
  <2>3. ASSUME NEW i \in 1..half PROVE ring'[Slot(0 + i - 1)] = 0
    <3>1. 0 + i - 1 \in Nat
      BY <1>3
    <3>2. Slot(0 + i - 1) \in 0..(Capacity - 1)
      BY <3>1, SlotInRing
    <3> QED
      BY <1>2, <3>2
  <2> QED
    BY <2>2, <2>3
<1>7. Fifo!Next
  BY <1>1, <1>2, <1>5, <1>6 DEF Fifo!Next, Fifo!Prime
<1>8. ring' # << >>
  <2>1. DOMAIN ring' = 0..(Capacity - 1) /\ 0 \in 0..(Capacity - 1)
    BY <1>2, <1>3
  <2>2. DOMAIN << >> = {}
    OBVIOUS
  <2> QED
    BY <2>1, <2>2
<1>9. Faithful'
  BY <1>2, <1>4, <1>8 DEF Faithful, Active, Slot, Row
<1> QED
  BY <1>7, <1>9

LEMMA FifoInit == Init => Faithful /\ Fifo!Init
<1> SUFFICES ASSUME Init PROVE Faithful /\ Fifo!Init
  OBVIOUS
<1>1. Faithful
  BY IdleProducer, RestingDevice DEF Init, Faithful, Active
<1>2. Queue = << >>
  <2>1. Queued = 0
    BY DEF Init, Queued
  <2> QED
    BY <2>1, QueueIsRow, EmptyRow
<1> QED
  BY <1>1, <1>2 DEF Init, Fifo!Init

LEMMA FifoStep == Inv /\ Faithful /\ [Next]_vars => Faithful' /\ [Fifo!Next]_(Fifo!fifoVars)
<1> SUFFICES ASSUME Inv, Faithful, [Next]_vars
             PROVE  Faithful' /\ (Fifo!Next \/ UNCHANGED Fifo!fifoVars)
  OBVIOUS
<1>1. CASE \/ \E count \in Chunks, sync \in BOOLEAN : Write(count, sync)
           \/ LoadCounters \/ TestSpace \/ FallAsleep \/ TimeOut
           \/ \E again \in BOOLEAN : BeginStop(again)
           \/ PauseStream \/ OpenQueue \/ Resume
  BY <1>1, QuietProducer
<1>2. CASE (\E requested \in Requests : Fill(requested)) \/ Finish
  BY <1>2, QuietDevice
<1>3. CASE CopyIn
  BY <1>3, CopyInFaithful
<1>4. CASE CopyOut
  BY <1>4, CopyOutFaithful
<1>5. CASE Publish
  BY <1>5, PublishAccepts
<1>6. CASE Release
  BY <1>6, ReleaseDelivers
<1>7. CASE EndStop
  BY <1>7, EndStopClears
<1>8. CASE PrepareRing
  BY <1>8, PreparePrimes
<1>9. CASE UNCHANGED vars
  <2>1. UNCHANGED <<ring, readPos, writePos, heard, latest, offered, producer, device>>
    BY <1>9 DEF vars, counters
  <2>2. offered \in Nat
    BY RingAssumption DEF Inv, Counted
  <2> QED
    BY <2>1, <2>2, QuietStep DEF Faithful
<1> QED
  BY <1>1, <1>2, <1>3, <1>4, <1>5, <1>6, <1>7, <1>8, <1>9 DEF Next, Producing, Filling, Switching

-----------------------------------------------------------------------------
(* The theorems.                                                             *)

LEMMA InvHolds == Spec => []Inv
<1>1. Inv /\ [Next]_vars => Inv'
  <2> SUFFICES ASSUME Inv, [Next]_vars
               PROVE  Inv'
    OBVIOUS
  <2>1. CASE \E count \in Chunks, sync \in BOOLEAN : Write(count, sync)
    BY <2>1, WriteStep
  <2>2. CASE Producing
    BY <2>2, LoadCountersStep, CopyInStep, PublishStep, WaitStep DEF Producing
  <2>3. CASE \E requested \in Requests : Fill(requested)
    BY <2>3, FillStep
  <2>4. CASE Filling
    BY <2>4, CopyOutStep, ReleaseStep, FinishStep DEF Filling
  <2>5. CASE \E again \in BOOLEAN : BeginStop(again)
    BY <2>5, StopStep
  <2>6. CASE Switching
    BY <2>6, PauseStreamStep, EndStopStep, PrepareRingStep, OpenQueueStep, ResumeStep
       DEF Switching
  <2>7. CASE UNCHANGED vars
    BY <2>7 DEF Inv, TypeOK, Counted, Lifetime, Reach, CountersInOrder, Books, vars, counters
  <2> QED
    BY <2>1, <2>2, <2>3, <2>4, <2>5, <2>6, <2>7 DEF Next
<1> QED
  BY <1>1, Initially, PTL DEF Spec

\* The state has its type: in particular no copy is longer than the ring and
\* none of the counters of SoundQueue goes below zero.
THEOREM TypeCorrect == Spec => []TypeOK
<1>1. Inv => TypeOK
  BY DEF Inv
<1> QED
  BY <1>1, InvHolds, PTL

\* m_ring_read never passes m_ring_write, nor falls further behind than the ring
\* is long, whatever the two threads do between their loads and their stores.
THEOREM CountersStayInOrder == Spec => []CountersInOrder
<1>1. Inv => CountersInOrder
  BY DEF Inv, Reach
<1> QED
  BY <1>1, InvHolds, PTL

\* The emulation thread and the callback never copy into and out of the same
\* slot of m_ring at the same time.
THEOREM CopiesNeverOverlap == Spec => []CopiesDisjoint
<1>1. Inv => CopiesDisjoint
  <2> SUFFICES ASSUME Inv, producer.pc = "copy", device.pc = "copy",
                      NEW i \in 0..(producer.n - 1), NEW j \in 0..(device.n - 1)
               PROVE  Slot(writePos + i) # Slot(device.from + j)
    BY DEF CopiesDisjoint
  <2>1. /\ readPos \in Nat /\ writePos \in Nat /\ producer.n \in Nat /\ device.n \in Nat
        /\ device.from = readPos /\ readPos + device.n <= writePos
        /\ writePos + producer.n <= readPos + Capacity /\ Capacity \in Nat \ {0}
    BY RingAssumption DEF Inv, TypeOK, Reach, Copying
  <2>2. /\ writePos + i \in Nat /\ device.from + j \in Nat
        /\ device.from + j < writePos + i /\ writePos + i < device.from + j + Capacity
    BY <2>1
  <2> QED
    BY <2>1, <2>2, SlotsDiffer DEF Slot
<1> QED
  BY <1>1, InvHolds, PTL

\* The ring is not released while the callback copies out of it.
THEOREM RingOutlivesEveryCallback == Spec => []RingOutlivesCallback
<1>1. Inv => RingOutlivesCallback
  BY DEF Inv, Lifetime, Copying, RingOutlivesCallback
<1> QED
  BY <1>1, InvHolds, PTL

\* Every sample given to Write was taken by the ring or counted as dropped.
THEOREM EverySampleAccounted == Spec => []SamplesAccounted
<1>1. Inv => SamplesAccounted
  BY DEF Inv, Counted, Books, Active, SamplesAccounted
<1> QED
  BY <1>1, InvHolds, PTL

\* The ring is a bounded queue with atomic ends: with two threads that load, copy and
\* store in steps of their own, what the device is handed is what was queued, in order,
\* nothing twice and nothing torn, for every capacity, block and request.
THEOREM RingImplementsFifo == Spec => ImplementsFifo
<1>1. Inv /\ Faithful /\ [Next]_vars => Faithful' /\ [Fifo!Next]_(Fifo!fifoVars)
  BY FifoStep
<1>2. Init => Faithful /\ Fifo!Init
  BY FifoInit
<1>3. Spec => Init /\ [][Next]_vars
  BY PTL DEF Spec
<1> QED
  BY <1>1, <1>2, <1>3, InvHolds, PTL DEF ImplementsFifo, Fifo!Spec

=============================================================================
