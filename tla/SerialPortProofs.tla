--------------------------- MODULE SerialPortProofs ---------------------------
(***************************************************************************)
(* Theorems about SerialPort, for every table of frame lengths, block length *)
(* and bound: the transmitter never gets stuck, and holding its clocks back  *)
(* cannot be seen; while no state is loaded, the receiver keeps the time of   *)
(* the line and takes one byte at a time.                                    *)
(*                                                                         *)
(* The first two rest on the fact that the transmitter adds up: two blocks    *)
(* of clocks do to it what their sum does.  The others rest on what is set    *)
(* aside holding no deadline (LineInv).                                      *)
(***************************************************************************)
EXTENDS SerialPort, TLAPS

-----------------------------------------------------------------------------
(* Numbers.                                                                  *)

LEMMA DivMod ==
  ASSUME NEW a \in Nat, NEW c \in Nat \ {0}
  PROVE  a \div c \in Nat /\ a % c \in Nat /\ a = c * (a \div c) + (a % c) /\ a % c < c
  BY SMTT(30)

LEMMA Product ==
  ASSUME NEW a \in Nat, NEW b \in Nat \ {0}
  PROVE  a * b \in Nat /\ (a > 0 => a * b > 0) /\ (a = 0 => a * b = 0)
  BY SMTT(30)

\* What is left of a frame stays something, when it is rounded up.
LEMMA RoundsUp ==
  ASSUME NEW a \in Nat, NEW f \in Nat \ {0}, NEW c \in Nat \ {0}
  PROVE  LET r == (a * f + c - 1) \div c IN r \in Nat /\ (r > 0 <=> a > 0)
<1>1. PICK p : p = a * f
  OBVIOUS
<1>2. p \in Nat /\ (a > 0 => p > 0) /\ (a = 0 => p = 0)
  BY <1>1, Product
<1>3. p + c - 1 \in Nat
  BY <1>2
<1>4. (p + c - 1) \div c \in Nat
  BY <1>3, DivMod
<1>5. p > 0 => (p + c - 1) \div c > 0
  BY <1>2, <1>3, <1>4, DivMod
<1>6. p = 0 => (p + c - 1) \div c = 0
  <2>1. HAVE p = 0
  <2>2. c - 1 \in Nat /\ c - 1 < c
    OBVIOUS
  <2>3. PICK q : q = (c - 1) \div c
    OBVIOUS
  <2>4. q \in Nat /\ c - 1 >= c * q
    BY <2>2, <2>3, DivMod
  <2>5. CASE q >= 1
    <3>1. c * q >= c
      BY <2>4, <2>5
    <3>2. QED
      BY <3>1, <2>4
  <2>6. QED
    BY <2>1, <2>3, <2>4, <2>5
<1>7. QED
  BY <1>1, <1>2, <1>4, <1>5, <1>6

LEMMA LeastOfTwo ==
  ASSUME NEW a \in Nat, NEW b \in Nat
  PROVE  Min({a, b}) \in Nat /\ Min({a, b}) <= a /\ Min({a, b}) <= b
<1>1. \E x \in {a, b} : \A y \in {a, b} : x =< y
  OBVIOUS
<1>2. Min({a, b}) \in {a, b} /\ \A y \in {a, b} : Min({a, b}) =< y
  BY <1>1 DEF Min
<1>3. QED
  BY <1>2

LEMMA OneOfTwo ==
  ASSUME NEW a \in Nat, NEW b \in Nat
  PROVE  Min({a, b}) \in {a, b}
<1>1. \E x \in {a, b} : \A y \in {a, b} : x =< y
  OBVIOUS
<1>2. QED
  BY <1>1 DEF Min

-----------------------------------------------------------------------------
(* A sound chip, and chips that are configured alike.                         *)

Sound(c) ==
  /\ c \in Chip
  /\ c.txPending <=> c.txClocksLeft > 0
  /\ c.txEnabled /\ ~c.txReady => c.txPending

Alike(c, d) ==
  c.initState = d.initState /\ c.format = d.format /\ c.speed = d.speed /\ c.frame = d.frame

LEMMA FramesAreNumbers ==
  ASSUME NEW f \in Formats, NEW s \in Speeds
  PROVE  FrameClocks[f][s] \in Nat \ {0}
  BY FrameAssumption

LEMMA ResetSound ==
  ASSUME NEW f \in Formats, NEW s \in Speeds
  PROVE  Sound(ResetChip(f, s))
  BY FramesAreNumbers DEF Sound, ResetChip, Chip

LEMMA TimingSound ==
  ASSUME NEW c, Sound(c), NEW f \in Formats, NEW s \in Speeds
  PROVE  Sound(UpdateTiming(c, f, s))
<1>1. PICK g : g = FrameClocks[f][s]
  OBVIOUS
<1>2. g \in Nat \ {0} /\ c.frame \in Nat \ {0} /\ c.rxPollAccum \in Nat /\ c.txClocksLeft \in Nat
  BY <1>1, FramesAreNumbers DEF Sound, Chip
<1>3. PICK a : a = (c.rxPollAccum * g) \div c.frame
  OBVIOUS
<1>4. a \in Nat
  BY <1>2, <1>3, Product, DivMod
<1>5. PICK r : r = (c.txClocksLeft * g + c.frame - 1) \div c.frame
  OBVIOUS
<1>6. r \in Nat /\ (r > 0 <=> c.txClocksLeft > 0)
  BY <1>2, <1>5, RoundsUp
<1>7. UpdateTiming(c, f, s) =
        [c EXCEPT !.format = f, !.speed = s, !.frame = g, !.rxPollAccum = a,
                  !.txClocksLeft = IF c.txPending THEN r ELSE c.txClocksLeft]
  BY <1>1, <1>3, <1>5 DEF UpdateTiming, Sound, Chip
<1>8. QED
  BY <1>2, <1>4, <1>6, <1>7 DEF Sound, Chip

LEMMA TimingAlike ==
  ASSUME NEW c, Sound(c), NEW d, Sound(d), Alike(c, d), Transmitter(c) = Transmitter(d),
         NEW f \in Formats, NEW s \in Speeds
  PROVE  /\ Alike(UpdateTiming(c, f, s), UpdateTiming(d, f, s))
         /\ Transmitter(UpdateTiming(c, f, s)) = Transmitter(UpdateTiming(d, f, s))
  BY DEF Sound, Chip, Alike, Transmitter, UpdateTiming

-----------------------------------------------------------------------------
(* Time.                                                                     *)

\* The three things that clocks can do to the transmitter.
Idles(c, n) == ~Sends(c)
Goes(c, n) == Sends(c) /\ n < c.txClocksLeft
Ends(c, n) == Sends(c) /\ n >= c.txClocksLeft

LEMMA TransmitIs ==
  ASSUME NEW c, Sound(c), NEW n \in Nat
  PROVE  /\ Idles(c, n) \/ Goes(c, n) \/ Ends(c, n)
         /\ Idles(c, n) => Transmit(c, n) = c
         /\ Goes(c, n) => Transmit(c, n) = [c EXCEPT !.txClocksLeft = c.txClocksLeft - n]
         /\ Ends(c, n) => Transmit(c, n) = FrameOver(c)
<1>1. c.txClocksLeft \in Nat
  BY DEF Sound, Chip
<1>2. Ends(c, n) => ~(n < c.txClocksLeft)
  BY <1>1 DEF Ends
<1>3. Idles(c, n) \/ Goes(c, n) \/ Ends(c, n)
  BY <1>1 DEF Idles, Goes, Ends
<1>4. QED
  BY <1>2, <1>3, Zenon DEF Idles, Goes, Ends, Transmit

\* A transmitter whose frame has ended, field by field.
LEMMA Over ==
  ASSUME NEW c, Sound(c)
  PROVE  LET t == FrameOver(c)
         IN /\ t.txClocksLeft = 0 /\ t.txPending = FALSE /\ t.txReady = c.txEnabled
            /\ t.txEmpty = TRUE /\ t.txEnabled = c.txEnabled
            /\ t \in Chip /\ Alike(t, c)
<1>1. PICK e : e = c.txEnabled
  OBVIOUS
<1>2. c \in Chip /\ e \in BOOLEAN
  BY <1>1 DEF Sound, Chip
<1>3. PICK t : t = FrameOver(c)
  OBVIOUS
<1>4. t = [c EXCEPT !.txClocksLeft = 0, !.txPending = FALSE, !.txReady = e, !.txEmpty = TRUE]
  BY <1>1, <1>3 DEF FrameOver
<1>5. t \in Chip /\ t.txClocksLeft = 0 /\ t.txReady = e
  BY <1>2, <1>4 DEF Chip
<1>6. t.txPending = FALSE /\ t.txEmpty = TRUE /\ t.txEnabled = e
  BY <1>1, <1>2, <1>4 DEF Chip
<1>7. Alike(t, c)
  BY <1>2, <1>4 DEF Chip, Alike
<1>8. QED
  BY <1>1, <1>3, <1>5, <1>6, <1>7

LEMMA TransmitSound ==
  ASSUME NEW c, Sound(c), NEW n \in Nat
  PROVE  Sound(Transmit(c, n)) /\ Alike(Transmit(c, n), c)
<1>1. CASE Idles(c, n)
  BY <1>1, TransmitIs DEF Alike
<1>2. CASE Goes(c, n)
  <2>1. PICK k : k = c.txClocksLeft - n
    OBVIOUS
  <2>2. k \in Nat /\ k > 0 /\ c.txPending
    BY <1>2, <2>1 DEF Goes, Sends, Sound, Chip
  <2>3. Transmit(c, n) = [c EXCEPT !.txClocksLeft = k]
    BY <1>2, <2>1, TransmitIs
  <2>4. QED
    BY <2>2, <2>3 DEF Sound, Chip, Alike
<1>3. CASE Ends(c, n)
  <2>1. Transmit(c, n) = FrameOver(c)
    BY <1>3, TransmitIs
  <2>2. PICK t : t = FrameOver(c)
    OBVIOUS
  <2>3. t.txClocksLeft = 0 /\ t.txPending = FALSE /\ t.txReady = t.txEnabled
        /\ t \in Chip /\ Alike(t, c)
    BY <2>2, Over
  <2>4. Sound(t)
    BY <2>3 DEF Sound
  <2>5. QED
    BY <2>1, <2>2, <2>3, <2>4
<1>4. QED
  BY <1>1, <1>2, <1>3, TransmitIs

LEMMA ReceiveSound ==
  ASSUME NEW c, Sound(c), NEW n \in Nat
  PROVE  /\ Sound(Receive(c, n)) /\ Alike(Receive(c, n), c)
         /\ Transmitter(Receive(c, n)) = Transmitter(c)
<1>1. CASE ~Receives(c)
  BY <1>1 DEF Sound, Chip, Alike, Transmitter, Receive
<1>2. CASE Receives(c)
  <2>1. PICK m : m = c.rxPollAccum + n
    OBVIOUS
  <2>2. m \in Nat /\ c.rxQueue \in Nat /\ c.frame \in Nat \ {0}
    BY <2>1 DEF Sound, Chip
  <2>3. m \div c.frame \in Nat /\ m % c.frame \in Nat
    BY <2>2, DivMod
  <2>4. PICK k : k = Min({m \div c.frame, c.rxQueue})
    OBVIOUS
  <2>5. k \in Nat /\ k <= c.rxQueue
    BY <2>2, <2>3, <2>4, LeastOfTwo
  <2>6. Receive(c, n) =
          [c EXCEPT !.rxQueue = c.rxQueue - k, !.rxReady = c.rxReady \/ k > 0,
                    !.oe = c.oe \/ k > 1 \/ (c.rxReady /\ k = 1),
                    !.rxPollAccum = IF k < c.rxQueue THEN m % c.frame ELSE 0]
    BY <1>2, <2>1, <2>4 DEF Receive, Sound, Chip
  <2>7. c.rxQueue - k \in Nat /\ (IF k < c.rxQueue THEN m % c.frame ELSE 0) \in Nat
    BY <2>2, <2>3, <2>5
  <2>8. QED
    BY <2>6, <2>7 DEF Sound, Chip, Alike, Transmitter
<1>3. QED
  BY <1>1, <1>2

LEMMA TickSound ==
  ASSUME NEW c, Sound(c), NEW n \in Nat
  PROVE  /\ Sound(Tick(c, n)) /\ Alike(Tick(c, n), c)
         /\ Transmitter(Tick(c, n)) = Transmitter(Transmit(c, n))
<1>1. PICK d : d = Transmit(c, n)
  OBVIOUS
<1>2. Sound(d) /\ Alike(d, c)
  BY <1>1, TransmitSound
<1>3. Sound(Receive(d, n)) /\ Alike(Receive(d, n), d) /\ Transmitter(Receive(d, n)) = Transmitter(d)
  BY <1>2, ReceiveSound
<1>4. QED
  BY <1>1, <1>2, <1>3 DEF Tick, Alike

\* What the clocks do to the transmitter depends on the transmitter alone.
LEMMA TransmitLike ==
  ASSUME NEW c, Sound(c), NEW d, Sound(d), Transmitter(c) = Transmitter(d), NEW n \in Nat
  PROVE  Transmitter(Transmit(c, n)) = Transmitter(Transmit(d, n))
<1>1. /\ c.txEnabled = d.txEnabled /\ c.txReady = d.txReady /\ c.txEmpty = d.txEmpty
      /\ c.txPending = d.txPending /\ c.txClocksLeft = d.txClocksLeft
  BY DEF Transmitter
<1>2. /\ Idles(c, n) <=> Idles(d, n)
      /\ Goes(c, n) <=> Goes(d, n)
      /\ Ends(c, n) <=> Ends(d, n)
  BY <1>1 DEF Idles, Goes, Ends, Sends
<1>3. CASE Idles(c, n)
  BY <1>2, <1>3, TransmitIs
<1>4. CASE Goes(c, n)
  <2>1. /\ Transmit(c, n) = [c EXCEPT !.txClocksLeft = c.txClocksLeft - n]
        /\ Transmit(d, n) = [d EXCEPT !.txClocksLeft = d.txClocksLeft - n]
    BY <1>2, <1>4, TransmitIs
  <2>2. QED
    BY <1>1, <2>1 DEF Sound, Chip, Transmitter
<1>5. CASE Ends(c, n)
  <2>1. Transmit(c, n) = FrameOver(c) /\ Transmit(d, n) = FrameOver(d)
    BY <1>2, <1>5, TransmitIs
  <2>2. Transmitter(FrameOver(c)) = Transmitter(FrameOver(d))
    BY <1>1, Over DEF Transmitter
  <2>3. QED
    BY <2>1, <2>2
<1>6. QED
  BY <1>3, <1>4, <1>5, TransmitIs

\* No clocks, no change.
LEMMA TransmitZero ==
  ASSUME NEW c, Sound(c)
  PROVE  Transmitter(Transmit(c, 0)) = Transmitter(c)
<1>1. ~Ends(c, 0)
  BY DEF Ends, Sends, Sound, Chip
<1>2. CASE Idles(c, 0)
  BY <1>2, TransmitIs
<1>3. CASE Goes(c, 0)
  <2>1. Transmit(c, 0) = [c EXCEPT !.txClocksLeft = c.txClocksLeft - 0]
    BY <1>3, TransmitIs
  <2>2. QED
    BY <2>1 DEF Sound, Chip, Transmitter
<1>4. QED
  BY <1>1, <1>2, <1>3, TransmitIs

\* The transmitter adds up.
LEMMA TransmitAdds ==
  ASSUME NEW c, Sound(c), NEW m \in Nat, NEW n \in Nat
  PROVE  Transmitter(Transmit(Transmit(c, m), n)) = Transmitter(Transmit(c, m + n))
<1>1. PICK d : d = Transmit(c, m)
  OBVIOUS
<1>2. Sound(d) /\ c.txClocksLeft \in Nat /\ m + n \in Nat
  <2>1. Sound(d)
    BY <1>1, TransmitSound
  <2>2. QED
    BY <2>1 DEF Sound, Chip
<1>3. CASE Idles(c, m)
  <2>1. d = c
    BY <1>1, <1>3, TransmitIs
  <2>2. Idles(c, m + n) /\ Idles(d, n)
    BY <1>3, <2>1 DEF Idles
  <2>3. Transmit(c, m + n) = c /\ Transmit(d, n) = d
    BY <1>2, <2>2, TransmitIs
  <2>4. QED
    BY <1>1, <2>1, <2>3
<1>4. CASE Goes(c, m)
  <2>1. d = [c EXCEPT !.txClocksLeft = c.txClocksLeft - m]
    BY <1>1, <1>4, TransmitIs
  <2>2. /\ d.txClocksLeft = c.txClocksLeft - m /\ d.txEnabled = c.txEnabled
        /\ d.txReady = c.txReady /\ d.txEmpty = c.txEmpty /\ d.txPending = c.txPending
    BY <2>1 DEF Sound, Chip
  <2>3. Sends(d) /\ Sends(c)
    BY <1>2, <1>4, <2>2 DEF Goes, Sends
  <2>4. CASE Goes(d, n)
    <3>1. Goes(c, m + n)
      BY <1>2, <2>2, <2>3, <2>4 DEF Goes
    <3>2. /\ Transmit(d, n) = [d EXCEPT !.txClocksLeft = d.txClocksLeft - n]
          /\ Transmit(c, m + n) = [c EXCEPT !.txClocksLeft = c.txClocksLeft - (m + n)]
      BY <1>2, <2>4, <3>1, TransmitIs
    <3>3. d.txClocksLeft - n = c.txClocksLeft - (m + n)
      BY <1>2, <2>2
    <3>4. QED
      BY <1>1, <1>2, <2>2, <3>2, <3>3 DEF Sound, Chip, Transmitter
  <2>5. CASE Ends(d, n)
    <3>1. Ends(c, m + n)
      BY <1>2, <2>2, <2>3, <2>5 DEF Ends
    <3>2. Transmit(d, n) = FrameOver(d) /\ Transmit(c, m + n) = FrameOver(c)
      BY <1>2, <2>5, <3>1, TransmitIs
    <3>3. Transmitter(FrameOver(d)) = Transmitter(FrameOver(c))
      BY <1>2, <2>2, Over DEF Transmitter
    <3>4. QED
      BY <1>1, <3>2, <3>3
  <2>6. QED
    BY <1>2, <2>3, <2>4, <2>5, TransmitIs DEF Idles
<1>5. CASE Ends(c, m)
  <2>1. d = FrameOver(c)
    BY <1>1, <1>5, TransmitIs
  <2>2. Idles(d, n)
    BY <2>1, Over DEF Idles, Sends
  <2>3. Ends(c, m + n)
    BY <1>2, <1>5 DEF Ends
  <2>4. Transmit(d, n) = d /\ Transmit(c, m + n) = d
    BY <1>2, <2>1, <2>2, <2>3, TransmitIs
  <2>5. QED
    BY <1>1, <2>4
<1>6. QED
  BY <1>3, <1>4, <1>5, TransmitIs

-----------------------------------------------------------------------------
(* The guest's accesses.                                                      *)

\* Both chips stay sound and alike, and their transmitters the same.
Twins(c, d) == Sound(c) /\ Sound(d) /\ Alike(c, d) /\ Transmitter(c) = Transmitter(d)

LEMMA ReadTwins ==
  ASSUME NEW c, NEW d, Twins(c, d)
  PROVE  Twins(ReadData(c), ReadData(d))
  BY DEF Twins, Sound, Chip, Alike, Transmitter, ReadData

LEMMA WriteSound ==
  ASSUME NEW c, Sound(c), c.txEnabled
  PROVE  Sound(WriteData(c))
<1>1. PICK k : k = c.frame
  OBVIOUS
<1>2. c \in Chip /\ k \in Nat /\ k > 0
  BY <1>1 DEF Sound, Chip
<1>3. PICK x : x = WriteData(c)
  OBVIOUS
<1>4. x = [c EXCEPT !.txPending = TRUE, !.txReady = FALSE, !.txEmpty = FALSE, !.txClocksLeft = k]
  BY <1>1, <1>3 DEF WriteData
<1>5. x \in Chip /\ x.txClocksLeft = k
  BY <1>2, <1>4 DEF Chip
<1>6. x.txPending = TRUE
  BY <1>2, <1>4 DEF Chip
<1>7. QED
  BY <1>2, <1>3, <1>5, <1>6 DEF Sound

LEMMA WriteTwins ==
  ASSUME NEW c, NEW d, Twins(c, d)
  PROVE  Twins(WriteData(c), WriteData(d))
<1>1. c.txEnabled = d.txEnabled
  BY DEF Twins, Transmitter
<1>2. CASE c.txEnabled
  <2>1. Sound(WriteData(c))
    BY <1>2, WriteSound DEF Twins
  <2>2. Sound(WriteData(d))
    BY <1>1, <1>2, WriteSound DEF Twins
  <2>3. Alike(WriteData(c), WriteData(d))
    BY <1>1, <1>2 DEF Twins, Sound, Chip, Alike, WriteData
  <2>4. Transmitter(WriteData(c)) = Transmitter(WriteData(d))
    BY <1>1, <1>2 DEF Twins, Sound, Chip, Alike, Transmitter, WriteData
  <2>5. QED
    BY <2>1, <2>2, <2>3, <2>4 DEF Twins
<1>3. CASE ~c.txEnabled
  BY <1>1, <1>3 DEF WriteData
<1>4. QED
  BY <1>2, <1>3

LEMMA ModeTwins ==
  ASSUME NEW c, NEW d, Twins(c, d), NEW f \in Formats
  PROVE  Twins(WriteMode(c, f), WriteMode(d, f))
<1>1. PICK x, y : x = UpdateTiming(c, f, c.speed) /\ y = UpdateTiming(d, f, c.speed)
  OBVIOUS
<1>2. c.speed \in Speeds /\ c.speed = d.speed
  BY DEF Twins, Sound, Chip, Alike
<1>3. Twins(x, y)
  BY <1>1, <1>2, TimingSound, TimingAlike DEF Twins
<1>4. /\ WriteMode(c, f) = [x EXCEPT !.initState = "command"]
      /\ WriteMode(d, f) = [y EXCEPT !.initState = "command"]
  BY <1>1, <1>2 DEF WriteMode
<1>5. QED
  BY <1>3, <1>4 DEF Twins, Sound, Chip, Alike, Transmitter

LEMMA InternalResetSound ==
  ASSUME NEW c, Sound(c)
  PROVE  Sound(InternalReset(c))
<1>1. PICK x : x = InternalReset(c)
  OBVIOUS
<1>2. c \in Chip
  BY DEF Sound
<1>3. x = [c EXCEPT !.initState = "mode", !.txEnabled = FALSE, !.rxEnabled = FALSE,
                    !.txReady = FALSE, !.txEmpty = TRUE, !.txPending = FALSE,
                    !.txClocksLeft = 0, !.rxPollAccum = 0, !.rxReady = FALSE, !.oe = FALSE]
  BY <1>1 DEF InternalReset
<1>4. x \in Chip
  BY <1>2, <1>3 DEF Chip
<1>5. x.txClocksLeft = 0
  BY <1>2, <1>3 DEF Chip
<1>6. x.txPending = FALSE
  BY <1>2, <1>3 DEF Chip
<1>7. x.txEnabled = FALSE
  BY <1>2, <1>3 DEF Chip
<1>8. QED
  BY <1>1, <1>4, <1>5, <1>6, <1>7 DEF Sound

LEMMA InternalResetTwins ==
  ASSUME NEW c, NEW d, Twins(c, d)
  PROVE  Twins(InternalReset(c), InternalReset(d))
<1>1. Sound(InternalReset(c))
  BY InternalResetSound DEF Twins
<1>2. Sound(InternalReset(d))
  BY InternalResetSound DEF Twins
<1>3. Alike(InternalReset(c), InternalReset(d))
  BY DEF Twins, Sound, Chip, Alike, InternalReset
<1>4. Transmitter(InternalReset(c)) = Transmitter(InternalReset(d))
  BY DEF Twins, Sound, Chip, Transmitter, InternalReset
<1>5. QED
  BY <1>1, <1>2, <1>3, <1>4 DEF Twins

\* A command word sets two enables and two status bits; a pair at a time.
LEMMA EnablesKept ==
  ASSUME NEW c \in Chip, NEW t \in BOOLEAN, NEW r \in BOOLEAN
  PROVE  [c EXCEPT !.txEnabled = t, !.rxEnabled = r] \in Chip
  BY DEF Chip

LEMMA StatusKept ==
  ASSUME NEW c \in Chip, NEW o \in BOOLEAN, NEW y \in BOOLEAN
  PROVE  [c EXCEPT !.oe = o, !.txReady = y] \in Chip
  BY DEF Chip

LEMMA CommandSound ==
  ASSUME NEW c, Sound(c), NEW word \in Commands, ~word.reset
  PROVE  Sound(WriteCommand(c, word))
<1>1. PICK x : x = WriteCommand(c, word)
  OBVIOUS
<1>2. x \in Chip
  <2>1. PICK t, r, o, y :
          /\ t = word.transmit /\ r = word.receive /\ o = (c.oe /\ ~word.clear)
          /\ y = (word.transmit /\ (c.txReady \/ (~c.txPending /\ c.txClocksLeft = 0)))
    OBVIOUS
  <2>2. t \in BOOLEAN /\ r \in BOOLEAN /\ o \in BOOLEAN /\ y \in BOOLEAN
    BY <2>1 DEF Commands
  <2>3. c \in Chip
    BY DEF Sound
  <2>4. x = [c EXCEPT !.txEnabled = t, !.rxEnabled = r, !.oe = o, !.txReady = y]
    BY <1>1, <2>1, Zenon DEF WriteCommand
  <2>5. PICK b : b = [c EXCEPT !.txEnabled = t, !.rxEnabled = r]
    OBVIOUS
  <2>6. b \in Chip
    BY <2>2, <2>3, <2>5, EnablesKept
  <2>7. [b EXCEPT !.oe = o, !.txReady = y] \in Chip
    BY <2>2, <2>6, StatusKept
  <2>8. x = [b EXCEPT !.oe = o, !.txReady = y]
    BY <2>3, <2>4, <2>5 DEF Chip
  <2>9. QED
    BY <2>7, <2>8
<1>3. x.txPending = c.txPending /\ x.txClocksLeft = c.txClocksLeft
  BY <1>1 DEF WriteCommand, Sound, Chip
<1>4. x.txEnabled /\ ~x.txReady => c.txPending
  BY <1>1 DEF WriteCommand, Sound, Chip, Commands
<1>5. QED
  BY <1>1, <1>2, <1>3, <1>4 DEF Sound

LEMMA CommandTwins ==
  ASSUME NEW c, NEW d, Twins(c, d), NEW word \in Commands
  PROVE  Twins(WriteCommand(c, word), WriteCommand(d, word))
<1>1. CASE word.reset
  BY <1>1, InternalResetTwins DEF WriteCommand
<1>2. CASE ~word.reset
  <2>1. Sound(WriteCommand(c, word)) /\ Sound(WriteCommand(d, word))
    BY <1>2, CommandSound DEF Twins
  <2>2. Alike(WriteCommand(c, word), WriteCommand(d, word))
    BY <1>2 DEF Twins, Sound, Chip, Alike, WriteCommand
  <2>3. Transmitter(WriteCommand(c, word)) = Transmitter(WriteCommand(d, word))
    BY <1>2 DEF Twins, Sound, Chip, Transmitter, WriteCommand
  <2>4. QED
    BY <2>1, <2>2, <2>3 DEF Twins
<1>3. QED
  BY <1>1, <1>2

-----------------------------------------------------------------------------
(* The invariant: the port, brought up to date, is the twin of the exact one.  *)

Kept == saved = Nothing \/ (saved.pending \in Nat /\ Sound(saved.chip))
Rest ==
  /\ pendingClocks \in Nat /\ clocks \in Nat
  /\ slot \in Speeds \cup {Nothing} /\ taken \in Speeds \cup {Nothing}
  /\ cpu = "apply" => pendingClocks = 0
Inv == Rest /\ Kept /\ Sound(chip) /\ Twins(Now, exact)

LEMMA NowSound ==
  ASSUME Sound(chip), pendingClocks \in Nat
  PROVE  /\ Sound(Now) /\ Alike(Now, chip)
         /\ Transmitter(Now) = Transmitter(Transmit(chip, pendingClocks))
<1>1. CASE pendingClocks = 0
  BY <1>1, TransmitZero DEF Now, Alike
<1>2. CASE pendingClocks # 0
  BY <1>2, TickSound DEF Now
<1>3. QED
  BY <1>1, <1>2

\* A step that leaves nothing pending leaves the port up to date.
LEMMA UpToDate ==
  ASSUME pendingClocks' = 0
  PROVE  Now' = chip'
  BY DEF Now

LEMMA AccessStep ==
  ASSUME Inv, NEW x, NEW y, Twins(x, y), Access(x, y)
  PROVE  Inv'
<1>1. chip' = x /\ exact' = y /\ pendingClocks' = 0 /\ cpu = "guest"
  BY DEF Access
<1>2. Now' = x
  BY <1>1, UpToDate
<1>3. Rest' /\ Kept'
  BY <1>1 DEF Inv, Rest, Kept, Access, call, mailbox
<1>4. QED
  BY <1>1, <1>2, <1>3 DEF Inv, Twins

LEMMA WriteControlStep ==
  ASSUME Inv, WriteControl
  PROVE  Inv'
<1>1. CASE \E f \in Formats : Access(WriteMode(Now, f), WriteMode(exact, f))
  BY <1>1, ModeTwins, AccessStep DEF Inv
<1>2. CASE \E word \in Commands : Access(WriteCommand(Now, word), WriteCommand(exact, word))
  BY <1>2, CommandTwins, AccessStep DEF Inv
<1>3. QED
  BY <1>1, <1>2 DEF WriteControl

LEMMA TickCpuStep ==
  ASSUME Inv, NEW n \in Blocks, TickCpu(n)
  PROVE  Inv'
<1>1. n \in Nat /\ clocks' = n /\ exact' = exact /\ saved' = saved
  BY PortAssumption DEF TickCpu
<1>2. CASE flag
  <2>1. chip' = Now /\ pendingClocks' = 0 /\ taken' = slot /\ slot' = Nothing
    BY <1>2 DEF TickCpu
  <2>2. Now' = Now
    BY <2>1, UpToDate
  <2>3. Rest' /\ Kept'
    BY <1>1, <2>1 DEF Inv, Rest, Kept
  <2>4. QED
    BY <1>1, <2>1, <2>2, <2>3 DEF Inv, Twins
<1>3. CASE ~flag
  <2>1. chip' = chip /\ pendingClocks' = pendingClocks /\ taken' = taken /\ slot' = slot
        /\ cpu' = "look"
    BY <1>3 DEF TickCpu, port
  <2>2. Now' = Now
    BY <2>1 DEF Now
  <2>3. Rest' /\ Kept'
    BY <1>1, <2>1 DEF Inv, Rest, Kept
  <2>4. QED
    BY <1>1, <2>1, <2>2, <2>3 DEF Inv
<1>4. QED
  BY <1>2, <1>3

LEMMA ApplyStep ==
  ASSUME Inv, ApplyRequest
  PROVE  Inv'
<1>1. pendingClocks = 0 /\ pendingClocks' = 0 /\ Now = chip /\ Twins(chip, exact)
  BY DEF Inv, Rest, Now, ApplyRequest
<1>2. Rest' /\ Kept'
  BY <1>1 DEF Inv, Rest, Kept, ApplyRequest
<1>3. Now' = chip'
  BY <1>1, UpToDate
<1>4. CASE taken = Nothing
  <2>1. chip' = chip /\ exact' = exact
    BY <1>4 DEF ApplyRequest
  <2>2. QED
    BY <1>1, <1>2, <1>3, <2>1 DEF Inv, Twins
<1>5. CASE taken # Nothing
  <2>1. taken \in Speeds /\ chip.format \in Formats /\ chip.format = exact.format
    BY <1>1, <1>5 DEF Inv, Rest, Twins, Sound, Chip, Alike
  <2>2. chip' = UpdateTiming(chip, chip.format, taken)
        /\ exact' = UpdateTiming(exact, chip.format, taken)
    BY <1>5, <2>1 DEF ApplyRequest, SetSpeed
  <2>3. Twins(chip', exact')
    BY <1>1, <2>1, <2>2, TimingSound, TimingAlike DEF Twins
  <2>4. QED
    BY <1>2, <1>3, <2>3 DEF Inv, Twins
<1>6. QED
  BY <1>4, <1>5

\* Clocks that are held back, or delivered with those held back before, or
\* dropped because nothing waits for them: the transmitter cannot tell.
LEMMA CountStep ==
  ASSUME Inv, Count
  PROVE  Inv'
<1> DEFINE held  == IF HasTimedWork(chip) THEN pendingClocks + clocks ELSE 0
           late  == Transmit(chip, pendingClocks)
<1>1. /\ pendingClocks \in Nat /\ clocks \in Nat /\ held \in Nat /\ Sound(chip) /\ Sound(exact)
      /\ Sound(late) /\ Transmitter(late) = Transmitter(exact) /\ Alike(chip, exact)
  <2>1. pendingClocks \in Nat /\ clocks \in Nat /\ Sound(chip) /\ Sound(exact)
    BY DEF Inv, Rest, Twins
  <2>2. held \in Nat
    BY <2>1
  <2>3. Sound(late)
    BY <2>1, TransmitSound
  <2>4. Transmitter(late) = Transmitter(exact) /\ Alike(chip, exact)
    BY <2>1, NowSound DEF Inv, Twins, Alike
  <2>5. QED
    BY <2>1, <2>2, <2>3, <2>4
<1>2. exact' = Tick(exact, clocks)
  BY DEF Count
<1>3. Sound(exact') /\ Alike(exact', exact) /\ Transmitter(exact') = Transmitter(Transmit(exact, clocks))
  BY <1>1, <1>2, TickSound
<1>4. Transmitter(exact') = Transmitter(Transmit(chip, held))
  <2>1. Transmitter(exact') = Transmitter(Transmit(late, clocks))
    BY <1>1, <1>3, TransmitLike
  <2>2. CASE HasTimedWork(chip)
    BY <1>1, <2>1, <2>2, TransmitAdds
  <2>3. CASE ~HasTimedWork(chip)
    <3>1. ~Sends(chip)
      BY <2>3 DEF HasTimedWork
    <3>2. late = chip
      BY <1>1, <3>1, TransmitIs DEF Idles
    <3>3. Transmit(late, clocks) = chip /\ Transmit(chip, 0) = chip
      BY <1>1, <3>1, <3>2, TransmitIs DEF Idles
    <3>4. QED
      BY <2>1, <2>3, <3>3
  <2>4. QED
    BY <2>2, <2>3
<1>5. \/ chip' = Tick(chip, held) /\ pendingClocks' = 0
      \/ chip' = chip /\ pendingClocks' = held
  BY <1>1 DEF Count
<1>6. Sound(chip') /\ Twins(Now', exact')
  <2>1. CASE chip' = Tick(chip, held) /\ pendingClocks' = 0
    <3>1. Sound(chip') /\ Alike(chip', chip) /\ Transmitter(chip') = Transmitter(Transmit(chip, held))
      BY <1>1, <2>1, TickSound
    <3>2. Now' = chip'
      BY <2>1, UpToDate
    <3>3. QED
      BY <1>1, <1>3, <1>4, <3>1, <3>2 DEF Twins, Alike
  <2>2. CASE chip' = chip /\ pendingClocks' = held
    <3>1. Now' = IF held = 0 THEN chip ELSE Tick(chip, held)
      BY <2>2 DEF Now
    <3>2. CASE held = 0
      BY <1>1, <1>3, <1>4, <2>2, <3>1, <3>2, TransmitZero DEF Twins, Alike
    <3>3. CASE held # 0
      <4>1. Now' = Tick(chip, held)
        BY <3>1, <3>3
      <4>2. Sound(Now') /\ Alike(Now', chip) /\ Transmitter(Now') = Transmitter(Transmit(chip, held))
        BY <1>1, <4>1, TickSound
      <4>3. QED
        BY <1>1, <1>3, <1>4, <2>2, <4>2 DEF Twins, Alike
    <3>4. QED
      BY <3>2, <3>3
  <2>3. QED
    BY <1>5, <2>1, <2>2
<1>7. Rest' /\ Kept'
  BY <1>1, <1>5 DEF Inv, Rest, Kept, Count, mailbox
<1>8. QED
  BY <1>6, <1>7 DEF Inv

LEMMA PushStep ==
  ASSUME Inv, PushRxByte
  PROVE  Inv'
<1>1. PICK p : p = pendingClocks
  OBVIOUS
<1>2. /\ p \in Nat /\ Sound(chip) /\ pendingClocks' = p /\ exact' = exact
      /\ chip' = [chip EXCEPT !.rxQueue = chip.rxQueue + 1]
  BY <1>1 DEF Inv, Rest, PushRxByte, Sound, Chip, books
<1>3. Sound(chip') /\ Alike(chip', chip) /\ Transmitter(chip') = Transmitter(chip)
  BY <1>2 DEF Sound, Chip, Alike, Transmitter
<1>4. Now' = IF p = 0 THEN chip' ELSE Tick(chip', p)
  BY <1>2 DEF Now
<1>5. Sound(Now') /\ Alike(Now', chip') /\ Transmitter(Now') = Transmitter(Now)
  <2>1. CASE p = 0
    BY <1>1, <1>3, <1>4, <2>1 DEF Now, Alike
  <2>2. CASE p # 0
    <3>1. Now' = Tick(chip', p) /\ Now = Tick(chip, p)
      BY <1>1, <1>4, <2>2 DEF Now
    <3>2. Transmitter(Transmit(chip', p)) = Transmitter(Transmit(chip, p))
      BY <1>2, <1>3, TransmitLike
    <3>3. /\ Sound(Tick(chip', p)) /\ Alike(Tick(chip', p), chip')
          /\ Transmitter(Tick(chip', p)) = Transmitter(Transmit(chip', p))
      BY <1>2, <1>3, TickSound
    <3>4. Transmitter(Tick(chip, p)) = Transmitter(Transmit(chip, p))
      BY <1>2, TickSound
    <3>5. QED
      BY <3>1, <3>2, <3>3, <3>4
  <2>3. QED
    BY <2>1, <2>2
<1>6. Alike(Now, chip)
  BY <1>1, <1>2, NowSound
<1>7. Twins(Now', exact')
  BY <1>2, <1>3, <1>5, <1>6 DEF Inv, Twins, Alike
<1>8. Rest' /\ Kept'
  BY <1>2 DEF Inv, Rest, Kept, PushRxByte, call, mailbox
<1>9. QED
  BY <1>3, <1>7, <1>8 DEF Inv

LEMMA ResetStep ==
  ASSUME Inv, ResetBoard
  PROVE  Inv'
<1>1. chip.speed \in Speeds /\ DefaultFormat \in Formats
  BY PortAssumption DEF Inv, Sound, Chip
<1>2. chip' = ResetChip(DefaultFormat, chip.speed) /\ exact' = chip' /\ pendingClocks' = 0
  BY DEF ResetBoard
<1>3. Sound(chip')
  BY <1>1, <1>2, ResetSound
<1>4. Now' = chip'
  BY <1>2, UpToDate
<1>5. Rest' /\ Kept'
  BY <1>2 DEF Inv, Rest, Kept, ResetBoard, call
<1>6. QED
  BY <1>2, <1>3, <1>4, <1>5 DEF Inv, Twins, Alike

LEMMA SaveStep ==
  ASSUME Inv, SaveState
  PROVE  Inv'
<1>1. chip' = Now /\ pendingClocks' = 0 /\ exact' = exact
      /\ saved' = [pending |-> pendingClocks, chip |-> Now]
  BY DEF SaveState
<1>2. Now' = Now
  BY <1>1, UpToDate
<1>3. Kept'
  BY <1>1 DEF Inv, Rest, Kept, Twins
<1>4. Rest'
  BY <1>1 DEF Inv, Rest, SaveState, call, mailbox
<1>5. QED
  BY <1>1, <1>2, <1>3, <1>4 DEF Inv, Twins

LEMMA LoadStep ==
  ASSUME Inv, LoadState
  PROVE  Inv'
<1>1. PICK p, s : p = saved.pending /\ s = saved.chip
  OBVIOUS
<1>2. p \in Nat /\ Sound(s)
  BY <1>1 DEF Inv, Kept, LoadState
<1>3. PICK c, d : c = [s EXCEPT !.rxPollAccum = 0] /\ d = [c EXCEPT !.rxQueue = 0]
  OBVIOUS
<1>4. chip' = c /\ pendingClocks' = p /\ exact' = Transmit(d, p) /\ saved' = saved
  BY <1>1, <1>3 DEF LoadState
<1>5. Sound(c)
  BY <1>2, <1>3 DEF Sound, Chip
<1>6. Sound(d) /\ Alike(d, c) /\ Transmitter(d) = Transmitter(c)
  BY <1>3, <1>5 DEF Sound, Chip, Alike, Transmitter
<1>7. Sound(Transmit(d, p)) /\ Alike(Transmit(d, p), d)
      /\ Transmitter(Transmit(d, p)) = Transmitter(Transmit(c, p))
  BY <1>2, <1>5, <1>6, TransmitSound, TransmitLike
<1>8. Sound(Tick(c, p)) /\ Alike(Tick(c, p), c)
      /\ Transmitter(Tick(c, p)) = Transmitter(Transmit(c, p))
  BY <1>2, <1>5, TickSound
<1>9. Now' = IF p = 0 THEN c ELSE Tick(c, p)
  BY <1>4 DEF Now
<1>10. p = 0 => Transmitter(Transmit(c, p)) = Transmitter(c)
  BY <1>5, TransmitZero
<1>11. Twins(Now', exact')
  <2>1. CASE p = 0
    BY <1>4, <1>5, <1>6, <1>7, <1>9, <1>10, <2>1 DEF Twins, Alike
  <2>2. CASE p # 0
    BY <1>4, <1>5, <1>6, <1>7, <1>8, <1>9, <2>2 DEF Twins, Alike
  <2>3. QED
    BY <2>1, <2>2
<1>12. Rest' /\ Kept'
  BY <1>2, <1>4 DEF Inv, Rest, Kept, LoadState, call, mailbox
<1>13. QED
  BY <1>4, <1>5, <1>11, <1>12 DEF Inv

LEMMA OtherSteps ==
  ASSUME Inv,
         \/ LookAhead \/ RaiseFlag \/ UNCHANGED vars
         \/ \E speed \in Speeds : RequestSpeed(speed)
  PROVE  Inv'
<1>1. chip' = chip /\ pendingClocks' = pendingClocks /\ exact' = exact /\ saved' = saved
  BY DEF LookAhead, RaiseFlag, RequestSpeed, vars, port, books
<1>2. Now' = Now
  BY <1>1 DEF Now
<1>3. Rest' /\ Kept'
  BY <1>1 DEF Inv, Rest, Kept, LookAhead, RaiseFlag, RequestSpeed, vars, call, mailbox
<1>4. QED
  BY <1>1, <1>2, <1>3 DEF Inv

LEMMA InvInit == Init => Inv
<1> SUFFICES ASSUME Init PROVE Inv
  OBVIOUS
<1>1. Sound(chip)
  BY PortAssumption, ResetSound DEF Init
<1>2. Now = chip /\ exact = chip
  BY DEF Init, Now
<1>3. QED
  BY <1>1, <1>2 DEF Init, Inv, Rest, Kept, Twins, Alike

LEMMA InvStep == Inv /\ [Next]_vars => Inv'
<1> SUFFICES ASSUME Inv, [Next]_vars PROVE Inv'
  OBVIOUS
<1> USE DEF Inv
<1>1. CASE ReadPort
  BY <1>1, ReadTwins, AccessStep DEF ReadPort
<1>2. CASE ReadStatus
  BY <1>2, AccessStep DEF ReadStatus
<1>3. CASE WritePort
  BY <1>3, WriteTwins, AccessStep DEF WritePort
<1>4. CASE WriteControl
  BY <1>4, WriteControlStep
<1>5. CASE \E n \in Blocks : TickCpu(n)
  BY <1>5, TickCpuStep
<1>6. CASE ApplyRequest
  BY <1>6, ApplyStep
<1>7. CASE Count
  BY <1>7, CountStep
<1>8. CASE PushRxByte
  BY <1>8, PushStep
<1>9. CASE ResetBoard
  BY <1>9, ResetStep
<1>10. CASE SaveState
  BY <1>10, SaveStep
<1>11. CASE LoadState
  BY <1>11, LoadStep
<1>12. CASE LookAhead \/ RaiseFlag \/ UNCHANGED vars \/ \E speed \in Speeds : RequestSpeed(speed)
  BY <1>12, OtherSteps
<1>13. QED
  BY <1>1, <1>2, <1>3, <1>4, <1>5, <1>6, <1>7, <1>8, <1>9, <1>10, <1>11, <1>12 DEF Next, Running

LEMMA InvHolds == Spec => []Inv
  BY InvInit, InvStep, PTL DEF Spec

-----------------------------------------------------------------------------
(* What is left of a frame, when its length changes.                          *)

\* A part that is smaller than the whole stays so.
LEMMA PartStaysPart ==
  ASSUME NEW a \in Nat, NEW f \in Nat \ {0}, NEW c \in Nat \ {0}, a < c
  PROVE  (a * f) \div c \in Nat /\ (a * f) \div c < f
<1>1. PICK p, m : p = a * f /\ m = c * f
  OBVIOUS
<1>2. p \in Nat /\ m \in Nat
  BY <1>1, Product
<1>3. p < m
  <2>1. PICK d : d = c - a
    OBVIOUS
  <2>2. d \in Nat /\ d > 0 /\ c = a + d
    BY <2>1
  <2>3. PICK q : q = d * f
    OBVIOUS
  <2>4. q \in Nat /\ q > 0
    BY <2>2, <2>3, Product
  <2>5. m = p + q
    BY <1>1, <2>2, <2>3
  <2>6. QED
    BY <1>2, <2>4, <2>5
<1>4. PICK q : q = p \div c
  OBVIOUS
<1>5. q \in Nat /\ c * q <= p
  BY <1>2, <1>4, DivMod
<1>6. CASE q >= f
  <2>1. PICK k : k = q - f
    OBVIOUS
  <2>2. k \in Nat /\ q = f + k
    BY <1>5, <1>6, <2>1
  <2>3. c * k \in Nat
    BY <2>2
  <2>4. c * q = m + c * k
    BY <1>1, <2>2
  <2>5. QED
    BY <1>2, <1>3, <1>5, <2>3, <2>4
<1>7. QED
  BY <1>1, <1>4, <1>5, <1>6

\* What is left, rounded up, is the whole at most.
LEMMA RestStaysRest ==
  ASSUME NEW a \in Nat, NEW f \in Nat \ {0}, NEW c \in Nat \ {0}, a <= c
  PROVE  LET r == (a * f + c - 1) \div c IN r \in Nat /\ r <= f
<1>1. PICK p, m : p = a * f /\ m = c * f
  OBVIOUS
<1>2. p \in Nat /\ m \in Nat /\ p + c - 1 \in Nat
  BY <1>1, Product
<1>3. p <= m
  <2>1. PICK d : d = c - a
    OBVIOUS
  <2>2. d \in Nat /\ c = a + d
    BY <2>1
  <2>3. PICK q : q = d * f
    OBVIOUS
  <2>4. q \in Nat
    BY <2>2, <2>3, Product
  <2>5. m = p + q
    BY <1>1, <2>2, <2>3
  <2>6. QED
    BY <1>2, <2>4, <2>5
<1>4. PICK q : q = (p + c - 1) \div c
  OBVIOUS
<1>5. q \in Nat /\ c * q <= p + c - 1
  BY <1>2, <1>4, DivMod
<1>6. CASE q > f
  <2>1. PICK k : k = q - f - 1
    OBVIOUS
  <2>2. k \in Nat /\ q = f + 1 + k
    BY <1>5, <1>6, <2>1
  <2>3. c * k \in Nat
    BY <2>2
  <2>4. c * q = m + c + c * k
    BY <1>1, <2>2
  <2>5. QED
    BY <1>2, <1>3, <1>5, <2>3, <2>4
<1>7. QED
  BY <1>1, <1>4, <1>5, <1>6

\* Clocks that are less than a frame hold none, and clocks that are less than two hold one.
LEMMA FramesIn ==
  ASSUME NEW t \in Nat, NEW c \in Nat \ {0}, t < c + c
  PROVE  /\ t < c => t \div c = 0 /\ t % c = t
         /\ t >= c => t \div c = 1 /\ t % c = t - c
<1>1. PICK q, r : q = t \div c /\ r = t % c
  OBVIOUS
<1>2. q \in Nat /\ r \in Nat /\ t = c * q + r /\ r < c
  BY <1>1, DivMod
<1>3. CASE q = 0
  BY <1>1, <1>2, <1>3
<1>4. CASE q = 1
  BY <1>1, <1>2, <1>4
<1>5. CASE q >= 2
  <2>1. PICK k : k = q - 2
    OBVIOUS
  <2>2. k \in Nat /\ q = 2 + k
    BY <1>2, <1>5, <2>1
  <2>3. c * k \in Nat
    BY <2>2
  <2>4. c * q = c + c + c * k
    BY <2>2
  <2>5. QED
    BY <1>2, <2>3, <2>4
<1>6. QED
  BY <1>2, <1>3, <1>4, <1>5

-----------------------------------------------------------------------------
(* The receiver's time.                                                       *)

\* Neither countdown holds more than a frame, which is longer than a block, and a
\* receiver that has nothing to take or waits for its mode does not count.
Timed(c) ==
  /\ Max(Blocks) < c.frame
  /\ c.rxPollAccum < c.frame /\ c.txClocksLeft <= c.frame
  /\ c.rxQueue = 0 => c.rxPollAccum = 0
  /\ c.initState = "mode" => ~c.rxEnabled

\* What n clocks do to a receiver that they bring one byte at most.
Received(c, d, n) ==
  /\ d.rxEnabled <=> c.rxEnabled
  /\ ~Receives(c) => d.rxQueue = c.rxQueue /\ d.rxPollAccum = 0
  /\ Receives(c) /\ c.rxPollAccum + n < c.frame =>
       d.rxQueue = c.rxQueue /\ d.rxPollAccum = c.rxPollAccum + n
  /\ Receives(c) /\ c.rxPollAccum + n >= c.frame =>
       d.rxQueue = c.rxQueue - 1 /\ d.rxPollAccum <= c.rxPollAccum + n - c.frame

SameReceiver(c, d) ==
  /\ d.rxEnabled <=> c.rxEnabled
  /\ d.rxQueue = c.rxQueue /\ d.rxPollAccum = c.rxPollAccum

LEMMA TransmitTimed ==
  ASSUME NEW c, Sound(c), Timed(c), NEW n \in Nat
  PROVE  Timed(Transmit(c, n)) /\ SameReceiver(c, Transmit(c, n))
<1>1. CASE Idles(c, n)
  BY <1>1, TransmitIs DEF SameReceiver
<1>2. CASE Goes(c, n)
  <2>1. PICK k : k = c.txClocksLeft - n
    OBVIOUS
  <2>2. c \in Chip /\ k \in Nat /\ k <= c.frame
    BY <1>2, <2>1 DEF Goes, Sound, Timed, Chip
  <2>3. Transmit(c, n) = [c EXCEPT !.txClocksLeft = k]
    BY <1>2, <2>1, TransmitIs
  <2>4. QED
    BY <2>2, <2>3 DEF Chip, Timed, SameReceiver
<1>3. CASE Ends(c, n)
  <2>1. PICK t, e : t = Transmit(c, n) /\ e = c.txEnabled
    OBVIOUS
  <2>2. t = [c EXCEPT !.txClocksLeft = 0, !.txPending = FALSE, !.txReady = e, !.txEmpty = TRUE]
    BY <1>3, <2>1, TransmitIs DEF FrameOver
  <2>3. c \in Chip
    BY DEF Sound
  <2>4. t.txClocksLeft = 0 /\ t.frame = c.frame /\ t.initState = c.initState
    BY <2>2, <2>3 DEF Chip
  <2>5. t.rxPollAccum = c.rxPollAccum /\ t.rxQueue = c.rxQueue
    BY <2>2, <2>3 DEF Chip
  <2>6. t.rxEnabled <=> c.rxEnabled
    BY <2>2, <2>3 DEF Chip
  <2>7. c.frame \in Nat
    BY <2>3 DEF Chip
  <2>8. Timed(t)
    BY <2>4, <2>5, <2>6, <2>7 DEF Timed
  <2>9. QED
    BY <2>1, <2>5, <2>6, <2>8 DEF SameReceiver
<1>4. QED
  BY <1>1, <1>2, <1>3, TransmitIs

LEMMA ReceiveTimed ==
  ASSUME NEW c, Sound(c), Timed(c), NEW n \in Nat,
         Receives(c) => c.rxPollAccum + n < c.frame + c.frame
  PROVE  Timed(Receive(c, n)) /\ Received(c, Receive(c, n), n)
<1>1. CASE ~Receives(c)
  <2>1. Receive(c, n) = [c EXCEPT !.rxPollAccum = 0]
    BY <1>1 DEF Receive
  <2>2. QED
    BY <1>1, <2>1 DEF Sound, Chip, Timed, Received
<1>2. CASE Receives(c)
  <2>1. PICK m, q, f : m = c.rxPollAccum + n /\ q = c.rxQueue /\ f = c.frame
    OBVIOUS
  <2>2. /\ c \in Chip /\ m \in Nat /\ q \in Nat \ {0} /\ f \in Nat \ {0} /\ m < f + f
        /\ c.rxPollAccum \in Nat
        /\ c.rxEnabled /\ c.initState # "mode" /\ c.txClocksLeft <= f
        /\ Max(Blocks) < f
    BY <1>2, <2>1 DEF Sound, Chip, Receives, Timed
  <2>3. PICK k : k = Min({m \div f, q})
    OBVIOUS
  <2>4. PICK a : a = IF k < q THEN m % f ELSE 0
    OBVIOUS
  <2>5. PICK d : d = Receive(c, n)
    OBVIOUS
  <2>6. d = [c EXCEPT !.rxQueue = q - k, !.rxReady = c.rxReady \/ k > 0,
                      !.oe = c.oe \/ k > 1 \/ (c.rxReady /\ k = 1), !.rxPollAccum = a]
    BY <1>2, <2>1, <2>2, <2>3, <2>4, <2>5 DEF Receive, Chip
  <2>7. /\ m < f => k = 0 /\ a = m
        /\ m >= f => k = 1 /\ a \in {0, m - f} /\ (q = 1 => a = 0)
    <3>1. CASE m < f
      <4>1. m \div f = 0 /\ m % f = m
        BY <2>2, <3>1, FramesIn
      <4>2. k \in Nat /\ k <= 0
        BY <2>2, <2>3, <4>1, LeastOfTwo
      <4>3. QED
        BY <2>2, <2>4, <3>1, <4>1, <4>2
    <3>2. CASE m >= f
      <4>1. m \div f = 1 /\ m % f = m - f
        BY <2>2, <3>2, FramesIn
      <4>2. k \in {1, q} /\ k <= 1
        BY <2>2, <2>3, <4>1, OneOfTwo, LeastOfTwo
      <4>3. k = 1
        BY <2>2, <4>2
      <4>4. QED
        BY <2>2, <2>4, <3>2, <4>1, <4>3
    <3>3. QED
      BY <2>2, <3>1, <3>2
  <2>8. d.rxQueue = q - k /\ d.rxPollAccum = a
    BY <2>2, <2>6 DEF Chip
  <2>9. d.frame = f /\ d.txClocksLeft = c.txClocksLeft /\ d.initState = c.initState
    BY <2>1, <2>2, <2>6 DEF Chip
  <2>10. d.rxEnabled <=> c.rxEnabled
    BY <2>2, <2>6 DEF Chip
  <2>11. Timed(d)
    <3>1. a < f /\ (q - k = 0 => a = 0)
      BY <2>2, <2>7
    <3>2. QED
      BY <2>2, <2>8, <2>9, <3>1 DEF Timed
  <2>12. Received(c, d, n)
    <3>1. m < f => d.rxQueue = q /\ d.rxPollAccum = m
      BY <2>2, <2>7, <2>8
    <3>2. m >= f => d.rxQueue = q - 1 /\ d.rxPollAccum <= m - f
      BY <2>2, <2>7, <2>8
    <3>3. c.rxPollAccum + n < c.frame =>
            d.rxQueue = c.rxQueue /\ d.rxPollAccum = c.rxPollAccum + n
      BY <2>1, <2>2, <3>1
    <3>4. c.rxPollAccum + n >= c.frame =>
            d.rxQueue = c.rxQueue - 1 /\ d.rxPollAccum <= c.rxPollAccum + n - c.frame
      BY <2>1, <2>2, <3>2
    <3>5. QED
      BY <1>2, <2>10, <3>3, <3>4 DEF Received
  <2>13. QED
    BY <2>5, <2>11, <2>12
<1>3. QED
  BY <1>1, <1>2

LEMMA TickTimed ==
  ASSUME NEW c, Sound(c), Timed(c), NEW n \in Nat,
         Receives(c) => c.rxPollAccum + n < c.frame + c.frame
  PROVE  Timed(Tick(c, n)) /\ Received(c, Tick(c, n), n)
<1>1. PICK d : d = Transmit(c, n)
  OBVIOUS
<1>2. Sound(d) /\ Timed(d) /\ SameReceiver(c, d) /\ d.frame = c.frame
  BY <1>1, TransmitSound, TransmitTimed DEF Alike
<1>3. Receives(d) <=> Receives(c)
  BY <1>2 DEF SameReceiver, Receives
<1>4. Timed(Receive(d, n)) /\ Received(d, Receive(d, n), n)
  BY <1>2, <1>3, ReceiveTimed DEF SameReceiver
<1>5. Received(c, Receive(d, n), n)
  BY <1>2, <1>3, <1>4 DEF Received, SameReceiver
<1>6. QED
  BY <1>1, <1>4, <1>5 DEF Tick

LEMMA TimingTimed ==
  ASSUME NEW c, Sound(c), Timed(c), NEW f \in Formats, NEW s \in Speeds
  PROVE  LET d == UpdateTiming(c, f, s)
         IN Timed(d) /\ (d.rxEnabled <=> c.rxEnabled) /\ d.rxQueue = c.rxQueue
<1>1. PICK g : g = FrameClocks[f][s]
  OBVIOUS
<1>2. /\ c \in Chip /\ g \in Nat \ {0} /\ c.frame \in Nat \ {0}
      /\ c.rxPollAccum \in Nat /\ c.txClocksLeft \in Nat
      /\ c.rxPollAccum < c.frame /\ c.txClocksLeft <= c.frame
      /\ Max(Blocks) < g
  BY <1>1, FramesAreNumbers, BlockAssumption DEF Sound, Chip, Timed
<1>3. PICK a : a = (c.rxPollAccum * g) \div c.frame
  OBVIOUS
<1>4. a \in Nat /\ a < g
  BY <1>2, <1>3, PartStaysPart
<1>5. PICK r : r = (c.txClocksLeft * g + c.frame - 1) \div c.frame
  OBVIOUS
<1>6. r \in Nat /\ r <= g
  BY <1>2, <1>5, RestStaysRest
<1>7. c.rxPollAccum = 0 => a = 0
  <2>1. SUFFICES ASSUME c.rxPollAccum = 0 PROVE a = 0
    OBVIOUS
  <2>2. c.rxPollAccum * g = 0
    BY <1>2, <2>1, Product
  <2>3. QED
    BY <1>2, <1>3, <2>2, FramesIn
<1>8. PICK l : l = IF c.txPending THEN r ELSE c.txClocksLeft
  OBVIOUS
<1>9. l \in Nat /\ l <= g
  BY <1>2, <1>6, <1>8 DEF Sound
<1>10. PICK d : d = UpdateTiming(c, f, s)
  OBVIOUS
<1>11. d = [c EXCEPT !.format = f, !.speed = s, !.frame = g, !.rxPollAccum = a, !.txClocksLeft = l]
  BY <1>1, <1>2, <1>3, <1>5, <1>8, <1>10 DEF UpdateTiming, Chip
<1>12. d.frame = g /\ d.rxPollAccum = a /\ d.txClocksLeft = l
  BY <1>2, <1>11 DEF Chip
<1>13. d.rxQueue = c.rxQueue /\ d.initState = c.initState /\ (d.rxEnabled <=> c.rxEnabled)
  BY <1>2, <1>11 DEF Chip
<1>14. Timed(d)
  BY <1>2, <1>4, <1>7, <1>9, <1>12, <1>13 DEF Timed
<1>15. QED
  BY <1>10, <1>13, <1>14

-----------------------------------------------------------------------------
(* The receiver's invariant: what is set aside holds no deadline, and the books *)
(* follow the counter.                                                       *)

\* The books of a chip for which p clocks are set aside.
Fits(c, p, owed, saidUp) ==
  /\ owed \in Nat /\ saidUp \in Nat
  /\ Receives(c) => owed <= c.rxPollAccum + p
  /\ ~Receives(c) => owed = 0
  /\ saidUp >= p
  /\ c.rxEnabled => saidUp >= c.rxPollAccum + p

\* Clocks that are set aside reach no deadline.
HeldBack(c, p) ==
  /\ Sends(c) => p < c.txClocksLeft
  /\ Receives(c) => c.rxPollAccum + p < c.frame
  /\ ~Sends(c) /\ ~Receives(c) => p = 0

\* The deadlines that were seen are those of now, but for a byte that has come since.
Seen(c, p, deadlines) ==
  /\ Sends(c) => c.txClocksLeft \in deadlines
  /\ Receives(c) =>
       \/ c.frame - c.rxPollAccum \in deadlines
       \/ c.rxPollAccum = 0 /\ (Sends(c) \/ p = 0)
  /\ \A d \in deadlines : d \in Nat /\ Min(deadlines) \in Nat /\ Min(deadlines) <= d

LineInv ==
  /\ Timed(chip) /\ HeldBack(chip, pendingClocks) /\ Fits(chip, pendingClocks, age, credit)
  /\ cpu = "count" => Seen(chip, pendingClocks, next)
  /\ cpu # "guest" => clocks \in Blocks

\* No more than one byte is taken from the queue.
OneByte == chip'.rxQueue >= chip.rxQueue - 1

LEMMA BlocksAreShort ==
  /\ Max(Blocks) \in Nat \ {0}
  /\ \A n \in Blocks : n \in Nat \ {0} /\ n <= Max(Blocks)
  BY PortAssumption, BlockAssumption

LEMMA GreatestOfTwo ==
  ASSUME NEW a \in Nat, NEW b \in Nat
  PROVE  Max({a, b}) \in Nat /\ Max({a, b}) >= a /\ Max({a, b}) >= b
<1>1. \E x \in {a, b} : \A y \in {a, b} : x >= y
  OBVIOUS
<1>2. Max({a, b}) \in {a, b} /\ \A y \in {a, b} : Max({a, b}) >= y
  BY <1>1 DEF Max
<1>3. QED
  BY <1>2

\* What the line saves up grows with the clocks, up to its limit.
LEMMA CreditGrows ==
  ASSUME NEW cr \in Nat, NEW n \in Nat, NEW limit \in Nat,
         NEW t \in Nat, t <= limit, t <= cr + n
  PROVE  LET v == Max({cr, Min({limit, cr + n})}) IN v \in Nat /\ v >= cr /\ v >= t
<1>1. PICK m : m = Min({limit, cr + n})
  OBVIOUS
<1>2. cr + n \in Nat
  OBVIOUS
<1>3. m \in {limit, cr + n}
  BY <1>1, <1>2, OneOfTwo
<1>4. m \in Nat /\ m >= t
  BY <1>2, <1>3
<1>5. QED
  BY <1>1, <1>4, GreatestOfTwo

\* A port with nothing set aside, between two calls or at their beginning.
LEMMA Settled ==
  ASSUME pendingClocks' = 0, cpu' # "count", cpu' # "guest" => clocks' \in Blocks,
         Sound(chip'), Timed(chip'), Fits(chip', 0, age', credit')
  PROVE  LineInv'
<1>1. chip'.rxPollAccum \in Nat /\ chip'.frame \in Nat /\ chip'.txClocksLeft \in Nat
  BY DEF Sound, Chip
<1>2. HeldBack(chip', 0)
  BY <1>1 DEF HeldBack, Timed, Sends
<1>3. QED
  BY <1>2 DEF LineInv

\* The port that is brought up to date has taken no byte: none was due.
LEMMA NowTimed ==
  ASSUME Inv, LineInv
  PROVE  /\ Sound(Now) /\ Timed(Now) /\ Now.rxQueue = chip.rxQueue
         /\ Now.rxEnabled <=> chip.rxEnabled
         /\ Now.initState = chip.initState
         /\ Fits(Now, 0, age, credit)
<1>1. PICK p : p = pendingClocks
  OBVIOUS
<1>2. /\ p \in Nat /\ Sound(chip) /\ Timed(chip) /\ HeldBack(chip, p)
      /\ Fits(chip, p, age, credit)
      /\ chip.rxPollAccum \in Nat /\ chip.rxQueue \in Nat /\ chip.frame \in Nat \ {0}
  BY <1>1 DEF Inv, Rest, LineInv, Sound, Chip
<1>3. Sound(Now) /\ Alike(Now, chip)
  BY <1>1, <1>2, NowSound
<1>4. CASE p = 0
  BY <1>1, <1>2, <1>4 DEF Now
<1>5. CASE p # 0
  <2>1. Now = Tick(chip, p)
    BY <1>1, <1>5 DEF Now
  <2>2. Receives(chip) => chip.rxPollAccum + p < chip.frame
    BY <1>2 DEF HeldBack
  <2>3. Receives(chip) => chip.rxPollAccum + p < chip.frame + chip.frame
    BY <1>2, <2>2
  <2>4. Timed(Now) /\ Received(chip, Now, p)
    BY <1>2, <2>1, <2>3, TickTimed
  <2>5. Now.rxQueue = chip.rxQueue /\ (Now.rxEnabled <=> chip.rxEnabled)
    BY <2>2, <2>4 DEF Received
  <2>6. Receives(Now) <=> Receives(chip)
    BY <2>5 DEF Receives
  <2>7. Fits(Now, 0, age, credit)
    <3>1. CASE Receives(chip)
      <4>1. Now.rxPollAccum = chip.rxPollAccum + p
        BY <2>2, <2>4, <3>1 DEF Received
      <4>2. QED
        BY <1>2, <2>5, <2>6, <3>1, <4>1 DEF Fits
    <3>2. CASE ~Receives(chip)
      <4>1. Now.rxPollAccum = 0
        BY <2>4, <3>2 DEF Received
      <4>2. QED
        BY <1>2, <2>6, <3>2, <4>1 DEF Fits
    <3>3. QED
      BY <3>1, <3>2
  <2>8. QED
    BY <1>3, <2>4, <2>5, <2>7 DEF Alike
<1>6. QED
  BY <1>4, <1>5

\* The books after clocks that took no byte.
LEMMA DeliveredFits ==
  ASSUME NEW c, Sound(c), NEW x, Sound(x), x.rxQueue = c.rxQueue,
         NEW y, Fits(y, 0, age, credit), y.rxEnabled <=> x.rxEnabled, y.rxQueue = x.rxQueue,
         x.rxEnabled => x.rxPollAccum = y.rxPollAccum,
         Delivered(c, x)
  PROVE  Fits(x, 0, age', credit')
<1>1. /\ c.frame \in Nat /\ c.rxQueue \in Nat /\ x.rxQueue \in Nat
      /\ x.rxPollAccum \in Nat /\ age \in Nat /\ credit \in Nat
  BY DEF Sound, Chip, Fits
<1>2. ~(x.rxQueue < c.rxQueue)
  BY <1>1
<1>3. Receives(x) => age' = age
  BY <1>2 DEF Delivered
<1>4. ~Receives(x) => age' = 0
  BY DEF Delivered
<1>5. credit' = credit
  <2>1. c.rxQueue - x.rxQueue = 0
    BY <1>1
  <2>2. c.frame * 0 = 0
    BY <1>1
  <2>3. QED
    BY <1>1, <2>1, <2>2 DEF Delivered
<1>6. Receives(x) <=> Receives(y)
  BY DEF Receives
<1>7. Receives(x) => x.rxEnabled
  BY DEF Receives
<1>8. QED
  BY <1>1, <1>3, <1>4, <1>5, <1>6, <1>7 DEF Fits

LEMMA AfreshFits ==
  ASSUME NEW x, Sound(x), Timed(x), Afresh(x)
  PROVE  Fits(x, 0, age', credit')
<1>1. x.frame \in Nat /\ x.rxPollAccum \in Nat /\ x.rxPollAccum < x.frame
  BY DEF Sound, Chip, Timed
<1>2. age' = 0 /\ credit' = x.frame + Max(Blocks)
  BY DEF Afresh, MostCredit
<1>3. QED
  BY <1>1, <1>2, BlocksAreShort DEF Fits

LEMMA AccessTimed ==
  ASSUME Inv, LineInv, Inv', NEW x, NEW y, Access(x, y), Timed(x),
         x.rxQueue = chip.rxQueue, x.rxEnabled => x.rxPollAccum = Now.rxPollAccum
  PROVE  LineInv' /\ OneByte
<1>1. chip' = x /\ pendingClocks' = 0 /\ cpu = "guest" /\ cpu' = "guest"
  BY DEF Access, call
<1>2. Sound(x) /\ Sound(chip)
  BY <1>1 DEF Inv
<1>3. /\ Fits(Now, 0, age, credit) /\ Now.rxQueue = chip.rxQueue
      /\ Now.rxEnabled <=> chip.rxEnabled
  BY NowTimed
<1>4. Fits(x, 0, age', credit')
  <2>1. CASE x.rxEnabled = chip.rxEnabled
    <3>1. Delivered(chip, x)
      BY <2>1 DEF Access
    <3>2. Now.rxEnabled <=> x.rxEnabled
      BY <1>3, <2>1
    <3>3. QED
      BY <1>2, <1>3, <3>1, <3>2, DeliveredFits
  <2>2. CASE x.rxEnabled # chip.rxEnabled
    <3>1. Afresh(x)
      BY <2>2 DEF Access
    <3>2. QED
      BY <1>2, <3>1, AfreshFits
  <2>3. QED
    BY <2>1, <2>2
<1>5. LineInv'
  BY <1>1, <1>2, <1>4, Settled
<1>6. OneByte
  BY <1>1, <1>2 DEF OneByte, Sound, Chip
<1>7. QED
  BY <1>5, <1>6

LEMMA WordTimed ==
  ASSUME NEW c, Sound(c), Timed(c), c.initState = "command", NEW word \in Commands
  PROVE  LET d == WriteCommand(c, word)
         IN Timed(d) /\ d.rxQueue = c.rxQueue /\ (d.rxEnabled => d.rxPollAccum = c.rxPollAccum)
<1>1. PICK d : d = WriteCommand(c, word)
  OBVIOUS
<1>2. c \in Chip /\ c.frame \in Nat \ {0}
  BY DEF Sound, Chip
<1>3. CASE word.reset
  <2>1. d = [c EXCEPT !.initState = "mode", !.txEnabled = FALSE, !.rxEnabled = FALSE,
                      !.txReady = FALSE, !.txEmpty = TRUE, !.txPending = FALSE,
                      !.txClocksLeft = 0, !.rxPollAccum = 0, !.rxReady = FALSE, !.oe = FALSE]
    BY <1>1, <1>3 DEF WriteCommand, InternalReset
  <2>2. d.rxEnabled = FALSE
    BY <1>2, <2>1 DEF Chip
  <2>3. d.txClocksLeft = 0 /\ d.rxPollAccum = 0
    BY <1>2, <2>1 DEF Chip
  <2>4. d.frame = c.frame /\ d.rxQueue = c.rxQueue
    BY <1>2, <2>1 DEF Chip
  <2>5. Timed(d)
    BY <1>2, <2>2, <2>3, <2>4 DEF Timed
  <2>6. QED
    BY <1>1, <2>2, <2>4, <2>5
<1>4. CASE ~word.reset
  <2>1. d.initState = "command" /\ d.txClocksLeft = c.txClocksLeft /\ d.frame = c.frame
    BY <1>1, <1>2, <1>4 DEF WriteCommand, Chip
  <2>2. d.rxPollAccum = c.rxPollAccum /\ d.rxQueue = c.rxQueue
    BY <1>1, <1>2, <1>4 DEF WriteCommand, Chip
  <2>3. Timed(d)
    BY <2>1, <2>2 DEF Timed
  <2>4. QED
    BY <1>1, <2>2, <2>3
<1>5. QED
  BY <1>3, <1>4

LEMMA ModeTimed ==
  ASSUME NEW c, Sound(c), Timed(c), c.initState = "mode", NEW f \in Formats
  PROVE  LET d == WriteMode(c, f)
         IN Timed(d) /\ d.rxQueue = c.rxQueue /\ ~d.rxEnabled
<1>1. PICK x : x = UpdateTiming(c, f, c.speed)
  OBVIOUS
<1>2. c.speed \in Speeds
  BY DEF Sound, Chip
<1>3. Timed(x) /\ (x.rxEnabled <=> c.rxEnabled) /\ x.rxQueue = c.rxQueue /\ Sound(x)
  BY <1>1, <1>2, TimingTimed, TimingSound
<1>4. PICK d : d = WriteMode(c, f)
  OBVIOUS
<1>5. d = [x EXCEPT !.initState = "command"]
  BY <1>1, <1>4 DEF WriteMode
<1>6. ~x.rxEnabled
  BY <1>3 DEF Timed
<1>7. /\ d.frame = x.frame /\ d.rxPollAccum = x.rxPollAccum /\ d.txClocksLeft = x.txClocksLeft
      /\ d.rxQueue = x.rxQueue /\ d.initState = "command"
  BY <1>3, <1>5 DEF Sound, Chip
<1>8. ~d.rxEnabled
  BY <1>3, <1>5, <1>6 DEF Sound, Chip
<1>9. Timed(d)
  BY <1>3, <1>7 DEF Timed
<1>10. QED
  BY <1>3, <1>4, <1>7, <1>8, <1>9

LEMMA DataTimed ==
  ASSUME NEW c, Sound(c), Timed(c)
  PROVE  /\ Timed(ReadData(c)) /\ ReadData(c).rxQueue = c.rxQueue
         /\ ReadData(c).rxPollAccum = c.rxPollAccum
         /\ Timed(WriteData(c)) /\ WriteData(c).rxQueue = c.rxQueue
         /\ WriteData(c).rxPollAccum = c.rxPollAccum
<1>1. PICK x, y, k : x = ReadData(c) /\ y = WriteData(c) /\ k = c.frame
  OBVIOUS
<1>2. c \in Chip /\ k \in Nat
  BY <1>1 DEF Sound, Chip
<1>3. x = [c EXCEPT !.rxReady = FALSE]
  BY <1>1 DEF ReadData
<1>4. Timed(x) /\ x.rxQueue = c.rxQueue /\ x.rxPollAccum = c.rxPollAccum
  BY <1>2, <1>3 DEF Chip, Timed
<1>5. Timed(y) /\ y.rxQueue = c.rxQueue /\ y.rxPollAccum = c.rxPollAccum
  <2>1. CASE c.txEnabled
    <3>1. y = [c EXCEPT !.txPending = TRUE, !.txReady = FALSE, !.txEmpty = FALSE,
                        !.txClocksLeft = k]
      BY <1>1, <2>1 DEF WriteData
    <3>2. y.txClocksLeft = k /\ y.frame = k /\ y.initState = c.initState
      BY <1>1, <1>2, <3>1 DEF Chip
    <3>3. y.rxQueue = c.rxQueue /\ y.rxPollAccum = c.rxPollAccum
      BY <1>2, <3>1 DEF Chip
    <3>4. y.rxEnabled <=> c.rxEnabled
      BY <1>2, <3>1 DEF Chip
    <3>5. QED
      BY <1>1, <1>2, <3>2, <3>3, <3>4 DEF Timed
  <2>2. CASE ~c.txEnabled
    BY <1>1, <2>2 DEF WriteData
  <2>3. QED
    BY <2>1, <2>2
<1>6. QED
  BY <1>1, <1>4, <1>5

LEMMA AccessesTimed ==
  ASSUME Inv, LineInv, Inv', ReadPort \/ ReadStatus \/ WritePort \/ WriteControl
  PROVE  LineInv' /\ OneByte
<1>1. Sound(Now) /\ Timed(Now) /\ Now.rxQueue = chip.rxQueue /\ Now.initState = chip.initState
  BY NowTimed
<1>2. CASE ReadPort
  BY <1>1, <1>2, DataTimed, AccessTimed DEF ReadPort
<1>3. CASE ReadStatus
  BY <1>1, <1>3, AccessTimed DEF ReadStatus
<1>4. CASE WritePort
  BY <1>1, <1>4, DataTimed, AccessTimed DEF WritePort
<1>5. ASSUME chip.initState = "mode",
             NEW f \in Formats, Access(WriteMode(Now, f), WriteMode(exact, f))
      PROVE  LineInv' /\ OneByte
  BY <1>1, <1>5, ModeTimed, AccessTimed
<1>6. ASSUME chip.initState = "command",
             NEW w \in Commands, Access(WriteCommand(Now, w), WriteCommand(exact, w))
      PROVE  LineInv' /\ OneByte
  BY <1>1, <1>6, WordTimed, AccessTimed
<1>7. QED
  BY <1>2, <1>3, <1>4, <1>5, <1>6 DEF WriteControl

LEMMA TickCpuTimed ==
  ASSUME Inv, LineInv, Inv', NEW n \in Blocks, TickCpu(n)
  PROVE  LineInv' /\ OneByte
<1>1. clocks' = n /\ Sound(chip')
  BY DEF TickCpu, Inv
<1>2. CASE flag
  <2>1. chip' = Now /\ pendingClocks' = 0 /\ cpu' = "apply" /\ Delivered(chip, Now)
    BY <1>2 DEF TickCpu
  <2>2. /\ Sound(Now) /\ Timed(Now) /\ Now.rxQueue = chip.rxQueue
        /\ Fits(Now, 0, age, credit) /\ Sound(chip)
    BY NowTimed DEF Inv
  <2>3. Fits(Now, 0, age', credit')
    BY <2>1, <2>2, DeliveredFits
  <2>4. LineInv'
    BY <1>1, <2>1, <2>2, <2>3, Settled
  <2>5. OneByte
    BY <2>1, <2>2 DEF OneByte, Sound, Chip
  <2>6. QED
    BY <2>4, <2>5
<1>3. CASE ~flag
  <2>1. /\ chip' = chip /\ pendingClocks' = pendingClocks /\ age' = age /\ credit' = credit
        /\ cpu' = "look"
    BY <1>3 DEF TickCpu, port
  <2>2. LineInv'
    BY <1>1, <2>1 DEF LineInv
  <2>3. OneByte
    BY <1>1, <2>1 DEF OneByte, Sound, Chip
  <2>4. QED
    BY <2>2, <2>3
<1>4. QED
  BY <1>2, <1>3

LEMMA ApplyTimed ==
  ASSUME Inv, LineInv, Inv', ApplyRequest
  PROVE  LineInv' /\ OneByte
<1>1. /\ pendingClocks = 0 /\ pendingClocks' = 0 /\ cpu' = "look" /\ clocks' = clocks
      /\ clocks \in Blocks /\ Sound(chip) /\ Timed(chip) /\ Sound(chip')
  BY DEF Inv, Rest, LineInv, ApplyRequest
<1>2. CASE taken = Nothing
  <2>1. chip' = chip /\ age' = age /\ credit' = credit
    BY <1>2 DEF ApplyRequest
  <2>2. LineInv'
    BY <1>1, <2>1 DEF LineInv
  <2>3. OneByte
    BY <1>1, <2>1 DEF OneByte, Sound, Chip
  <2>4. QED
    BY <2>2, <2>3
<1>3. CASE taken # Nothing
  <2>1. taken \in Speeds /\ chip.format \in Formats
    BY <1>1, <1>3 DEF Inv, Rest, Sound, Chip
  <2>2. chip' = UpdateTiming(chip, chip.format, taken) /\ Afresh(chip')
    BY <1>3 DEF ApplyRequest, SetSpeed
  <2>3. Timed(chip') /\ chip'.rxQueue = chip.rxQueue
    BY <1>1, <2>1, <2>2, TimingTimed
  <2>4. Fits(chip', 0, age', credit')
    BY <1>1, <2>2, <2>3, AfreshFits
  <2>5. LineInv'
    BY <1>1, <2>3, <2>4, Settled
  <2>6. OneByte
    BY <1>1, <2>3 DEF OneByte, Sound, Chip
  <2>7. QED
    BY <2>5, <2>6
<1>4. QED
  BY <1>2, <1>3

LEMMA LookTimed ==
  ASSUME Inv, LineInv, LookAhead
  PROVE  LineInv' /\ OneByte
<1>1. PICK p, c, s : p = pendingClocks /\ c = chip /\ s = Deadlines(chip)
  OBVIOUS
<1>2. /\ Sound(c) /\ Timed(c) /\ p \in Nat
      /\ chip' = c /\ pendingClocks' = p /\ age' = age /\ credit' = credit
      /\ clocks' = clocks /\ clocks \in Blocks /\ next' = s
  BY <1>1 DEF Inv, Rest, LineInv, LookAhead, port, books
<1>3. PICK a, b : a = c.txClocksLeft /\ b = c.frame - c.rxPollAccum
  OBVIOUS
<1>4. a \in Nat /\ b \in Nat
  BY <1>2, <1>3 DEF Sound, Chip, Timed
<1>5. s = (IF Sends(c) THEN {a} ELSE {}) \cup (IF Receives(c) THEN {b} ELSE {})
  BY <1>1, <1>3 DEF Deadlines
<1>6. (Sends(c) => a \in s) /\ (Receives(c) => b \in s)
  BY <1>5
<1>7. \A d \in s : d \in Nat /\ Min(s) \in Nat /\ Min(s) <= d
  <2>1. s \in {{}, {a}, {b}, {a, b}}
    BY <1>5
  <2>2. s = {} \/ s = {a, a} \/ s = {b, b} \/ s = {a, b}
    BY <2>1
  <2>3. QED
    BY <1>4, <2>2, LeastOfTwo
<1>8. Seen(c, p, s)
  BY <1>3, <1>6, <1>7 DEF Seen
<1>9. LineInv'
  BY <1>1, <1>2, <1>8 DEF LineInv
<1>10. OneByte
  BY <1>1, <1>2 DEF OneByte, Sound, Chip
<1>11. QED
  BY <1>9, <1>10

LEMMA PushTimed ==
  ASSUME Inv, LineInv, PushRxByte
  PROVE  LineInv' /\ OneByte
<1>1. PICK p, c, d : p = pendingClocks /\ c = chip /\ d = chip'
  OBVIOUS
<1>2. /\ Sound(c) /\ Timed(c) /\ HeldBack(c, p) /\ Fits(c, p, age, credit) /\ p \in Nat
      /\ d = [c EXCEPT !.rxQueue = c.rxQueue + 1]
      /\ pendingClocks' = p /\ age' = age /\ credit' = credit
      /\ clocks' = clocks /\ next' = next /\ cpu' = cpu
  BY <1>1 DEF Inv, Rest, LineInv, PushRxByte, Sound, Chip, call, books
<1>3. c \in Chip /\ c.rxQueue \in Nat /\ c.rxPollAccum \in Nat /\ c.frame \in Nat
      /\ c.txClocksLeft \in Nat
  BY <1>2 DEF Sound, Chip
<1>4. /\ d.rxQueue = c.rxQueue + 1 /\ d.rxPollAccum = c.rxPollAccum /\ d.frame = c.frame
      /\ d.txClocksLeft = c.txClocksLeft /\ d.initState = c.initState
  BY <1>2, <1>3 DEF Chip
<1>5. (d.rxEnabled <=> c.rxEnabled) /\ (d.txPending <=> c.txPending)
  BY <1>2, <1>3 DEF Chip
<1>6. Sends(d) <=> Sends(c)
  BY <1>4, <1>5 DEF Sends
<1>7. Receives(d) <=> c.rxEnabled
  BY <1>3, <1>4, <1>5 DEF Receives
<1>8. Receives(c) => Receives(d)
  BY <1>7 DEF Receives
\* A receiver that starts to wait has counted nothing.
<1>9. Receives(d) /\ ~Receives(c) => c.rxPollAccum = 0
  BY <1>2, <1>7 DEF Receives, Timed
<1>10. Timed(d)
  BY <1>2, <1>3, <1>4, <1>5 DEF Timed
<1>11. HeldBack(d, p)
  <2>1. Receives(d) => d.rxPollAccum + p < d.frame
    <3>1. CASE Receives(c)
      BY <1>2, <1>4, <3>1 DEF HeldBack
    <3>2. CASE ~Receives(c)
      BY <1>2, <1>3, <1>4, <1>9, <3>2 DEF HeldBack, Timed
    <3>3. QED
      BY <3>1, <3>2
  <2>2. QED
    BY <1>2, <1>4, <1>6, <1>8, <2>1 DEF HeldBack
<1>12. Fits(d, p, age, credit)
  <2>1. Receives(d) => age <= d.rxPollAccum + p
    BY <1>2, <1>3, <1>4 DEF Fits
  <2>2. ~Receives(d) => age = 0
    BY <1>2, <1>8 DEF Fits
  <2>3. QED
    BY <1>2, <1>4, <1>5, <2>1, <2>2 DEF Fits
<1>13. Seen(c, p, next) => Seen(d, p, next)
  <2>1. SUFFICES ASSUME Seen(c, p, next) PROVE Seen(d, p, next)
    OBVIOUS
  <2>2. Sends(d) => d.txClocksLeft \in next
    BY <1>4, <1>6, <2>1 DEF Seen
  <2>3. Receives(c) => \/ d.frame - d.rxPollAccum \in next
                       \/ d.rxPollAccum = 0 /\ (Sends(d) \/ p = 0)
    BY <1>4, <1>6, <2>1 DEF Seen
  <2>4. Receives(d) /\ ~Receives(c) => d.rxPollAccum = 0 /\ (Sends(d) \/ p = 0)
    BY <1>2, <1>4, <1>6, <1>9 DEF HeldBack
  <2>5. QED
    BY <2>1, <2>2, <2>3, <2>4 DEF Seen
<1>14. LineInv'
  BY <1>1, <1>2, <1>10, <1>11, <1>12, <1>13 DEF LineInv
<1>15. OneByte
  BY <1>1, <1>3, <1>4 DEF OneByte
<1>16. QED
  BY <1>14, <1>15

\* The clocks of a block go to the USART, or are set aside, or count for nothing.
LEMMA CountGoes ==
  ASSUME Inv, LineInv, Count
  PROVE  /\ clocks \in Nat \ {0} /\ clocks <= Max(Blocks)
         /\ \/ /\ Sends(chip) \/ Receives(chip)
               /\ chip' = Tick(chip, pendingClocks + clocks) /\ pendingClocks' = 0
            \/ /\ Sends(chip) \/ Receives(chip)
               /\ chip' = chip /\ pendingClocks' = pendingClocks + clocks
               /\ Sends(chip) => pendingClocks + clocks < chip.txClocksLeft
               /\ Receives(chip) => chip.rxPollAccum + pendingClocks + clocks < chip.frame
            \/ /\ ~Sends(chip) /\ ~Receives(chip)
               /\ chip' = chip /\ pendingClocks' = 0
<1>1. PICK p, n, c : p = pendingClocks /\ n = clocks /\ c = chip
  OBVIOUS
<1>2. PICK h : h = IF HasTimedWork(c) THEN p + n ELSE 0
  OBVIOUS
<1>3. /\ n \in Blocks /\ p \in Nat /\ Sound(c) /\ Timed(c) /\ HeldBack(c, p) /\ Seen(c, p, next)
  BY <1>1 DEF Inv, Rest, LineInv, Count
<1>4. n \in Nat \ {0} /\ n <= Max(Blocks) /\ Max(Blocks) \in Nat
  BY <1>3, BlocksAreShort
<1>5. /\ c.frame \in Nat /\ c.txClocksLeft \in Nat /\ c.rxPollAccum \in Nat
      /\ c.rxPollAccum < c.frame /\ c.txClocksLeft <= c.frame /\ Max(Blocks) < c.frame
  BY <1>3 DEF Sound, Chip, Timed
<1>6. \/ next # {} /\ h >= Min(next) /\ h > 0 /\ chip' = Tick(c, h) /\ pendingClocks' = 0
      \/ h = 0 /\ chip' = c /\ pendingClocks' = 0
      \/ ~(next # {} /\ h >= Min(next)) /\ chip' = c /\ pendingClocks' = h
  BY <1>1, <1>2, <1>3, <1>4 DEF Count
<1>7. CASE ~Sends(c) /\ ~Receives(c)
  <2>1. h = 0
    BY <1>2, <1>7 DEF HasTimedWork
  <2>2. chip' = c /\ pendingClocks' = 0
    BY <1>6, <2>1
  <2>3. QED
    BY <1>1, <1>4, <1>7, <2>2
<1>8. CASE Sends(c) \/ Receives(c)
  <2>1. h = p + n /\ h > 0
    BY <1>2, <1>3, <1>4, <1>8 DEF HasTimedWork
  <2>2. CASE next # {} /\ h >= Min(next) /\ chip' = Tick(c, h) /\ pendingClocks' = 0
    BY <1>1, <1>4, <1>8, <2>1, <2>2
  <2>3. CASE ~(next # {} /\ h >= Min(next)) /\ chip' = c /\ pendingClocks' = h
    <3>1. \A d \in next : d \in Nat /\ h < d
      BY <1>3, <1>4, <2>1, <2>3 DEF Seen
    <3>2. Sends(c) => h < c.txClocksLeft
      BY <1>3, <3>1 DEF Seen
    <3>3. Receives(c) => c.rxPollAccum + h < c.frame
      <4>1. SUFFICES ASSUME Receives(c) PROVE c.rxPollAccum + h < c.frame
        OBVIOUS
      <4>2. CASE c.frame - c.rxPollAccum \in next
        <5>1. h < c.frame - c.rxPollAccum
          BY <3>1, <4>2
        <5>2. QED
          BY <1>3, <1>4, <1>5, <2>1, <5>1
      <4>3. CASE c.rxPollAccum = 0 /\ Sends(c)
        BY <1>3, <1>4, <1>5, <2>1, <3>2, <4>3
      <4>4. CASE c.rxPollAccum = 0 /\ p = 0
        BY <1>4, <1>5, <2>1, <4>4
      <4>5. QED
        BY <1>3, <4>1, <4>2, <4>3, <4>4 DEF Seen
    <3>4. c.rxPollAccum + h = c.rxPollAccum + p + n
      BY <1>3, <1>4, <1>5, <2>1
    <3>5. QED
      BY <1>1, <1>4, <1>8, <2>1, <2>3, <3>2, <3>3, <3>4
  <2>4. QED
    BY <1>6, <2>1, <2>2, <2>3
<1>9. QED
  BY <1>7, <1>8

\* The books after a block: a byte that waits has waited longer, and the line has had
\* the clocks; a byte that was taken has cost it a frame.
LEMMA CountBooks ==
  ASSUME Inv, LineInv, Count, Sound(chip'),
         NEW k \in {0, 1}, chip'.rxQueue = chip.rxQueue - k,
         NEW t \in Nat, t <= chip.frame + Max(Blocks), t <= credit + clocks,
         t >= k * chip.frame
  PROVE  /\ Receives(chip) /\ k = 0 => age' = age + clocks
         /\ ~Receives(chip) \/ k = 1 => age' = 0
         /\ credit' \in Nat /\ credit' >= t - k * chip.frame /\ (k = 0 => credit' >= credit)
<1>1. PICK n, f, q : n = clocks /\ f = chip.frame /\ q = chip.rxQueue
  OBVIOUS
<1>2. /\ n \in Blocks /\ f \in Nat \ {0} /\ q \in Nat /\ age \in Nat /\ credit \in Nat
      /\ chip'.rxQueue \in Nat /\ chip'.rxQueue = q - k
  BY <1>1 DEF Inv, LineInv, Count, Sound, Chip, Fits
<1>3. n \in Nat /\ Max(Blocks) \in Nat
  BY <1>2, BlocksAreShort
<1>4. PICK v : v = Max({credit, Min({f + Max(Blocks), credit + n})})
  OBVIOUS
<1>5. v \in Nat /\ v >= credit /\ v >= t
  <2>1. PICK m : m = f + Max(Blocks)
    OBVIOUS
  <2>2. t <= credit + n
    BY <1>1
  <2>3. t <= f + Max(Blocks)
    BY <1>1
  <2>4. m \in Nat /\ t <= m
    BY <1>2, <1>3, <2>1, <2>3
  <2>5. QED
    BY <1>2, <1>3, <1>4, <2>1, <2>2, <2>4, CreditGrows
<1>6. PICK w : w = k * f
  OBVIOUS
<1>7. /\ age' = IF chip'.rxQueue < q \/ ~Receives(chip) THEN 0 ELSE age + n
      /\ credit' = v - f * (q - chip'.rxQueue)
  BY <1>1, <1>4 DEF Count, MostCredit
<1>8. q - chip'.rxQueue = k /\ (k = 1 <=> chip'.rxQueue < q)
  BY <1>2
<1>9. CASE k = 0
  <2>1. f * 0 = 0 /\ w = 0
    BY <1>2, <1>6, <1>9
  <2>2. credit' = v
    BY <1>5, <1>7, <1>8, <1>9, <2>1
  <2>3. credit' \in Nat /\ credit' >= t - w /\ credit' >= credit
    BY <1>5, <2>1, <2>2
  <2>4. QED
    BY <1>1, <1>6, <1>7, <1>8, <1>9, <2>3
<1>10. CASE k = 1
  <2>1. f * 1 = f /\ w = f
    BY <1>2, <1>6, <1>10
  <2>2. credit' = v - f
    BY <1>7, <1>8, <1>10, <2>1
  <2>3. f <= t
    BY <1>1, <1>6, <2>1
  <2>4. credit' \in Nat /\ credit' >= t - w
    BY <1>2, <1>5, <2>1, <2>2, <2>3
  <2>5. QED
    BY <1>1, <1>6, <1>7, <1>8, <1>10, <2>4
<1>11. QED
  BY <1>9, <1>10

LEMMA CountTimed ==
  ASSUME Inv, LineInv, Inv', Count
  PROVE  LineInv' /\ OneByte
<1>1. PICK p, n, c : p = pendingClocks /\ n = clocks /\ c = chip
  OBVIOUS
<1>2. /\ p \in Nat /\ Sound(c) /\ Timed(c) /\ HeldBack(c, p) /\ Fits(c, p, age, credit)
      /\ cpu' = "guest" /\ Sound(chip')
  BY <1>1 DEF Inv, Rest, LineInv, Count
<1>3. PICK a, f, q : a = c.rxPollAccum /\ f = c.frame /\ q = c.rxQueue
  OBVIOUS
<1>4. /\ a \in Nat /\ f \in Nat \ {0} /\ q \in Nat /\ a < f /\ Max(Blocks) < f
      /\ c.txClocksLeft \in Nat /\ c.txClocksLeft <= f
  BY <1>2, <1>3 DEF Sound, Chip, Timed
<1>5. n \in Nat \ {0} /\ n <= Max(Blocks) /\ Max(Blocks) \in Nat
  BY <1>1, CountGoes, BlocksAreShort
<1>6. age \in Nat /\ credit \in Nat /\ credit >= p /\ (c.rxEnabled => credit >= a + p)
      /\ (Receives(c) => age <= a + p)
  BY <1>2, <1>3 DEF Fits
<1>7. (Sends(c) => p < f) /\ (Receives(c) => a + p < f) /\ (~Sends(c) /\ ~Receives(c) => p = 0)
  BY <1>2, <1>3, <1>4 DEF HeldBack
<1>8. Receives(c) => c.rxEnabled /\ q > 0
  BY <1>3, <1>4 DEF Receives
\* The clocks go to the chip.
<1>9. CASE chip' = Tick(c, p + n) /\ pendingClocks' = 0
  <2>1. PICK d : d = chip'
    OBVIOUS
  <2>2. Receives(c) => a + (p + n) < f + f
    BY <1>2, <1>4, <1>5, <1>7
  <2>3. Timed(d) /\ Received(c, d, p + n)
    BY <1>2, <1>3, <1>5, <1>9, <2>1, <2>2, TickTimed
  <2>4. (d.rxEnabled <=> c.rxEnabled) /\ Sound(d) /\ d.rxPollAccum \in Nat /\ d.rxPollAccum < d.frame
    BY <1>2, <2>1, <2>3 DEF Received, Sound, Chip, Timed
  <2>5. CASE ~Receives(c)
    <3>1. d.rxQueue = q - 0 /\ d.rxPollAccum = 0 /\ ~Receives(d)
      BY <1>3, <1>4, <2>3, <2>4, <2>5 DEF Received, Receives
    <3>2. age' = 0 /\ credit' \in Nat /\ credit' >= credit
      BY <1>1, <1>2, <1>3, <1>4, <1>5, <1>6, <2>1, <2>5, <3>1, CountBooks
    <3>3. Fits(d, 0, age', credit')
      BY <1>6, <3>1, <3>2 DEF Fits
    <3>4. LineInv'
      BY <1>2, <1>9, <2>1, <2>3, <3>3, Settled
    <3>5. OneByte
      BY <1>1, <1>3, <1>4, <2>1, <3>1 DEF OneByte
    <3>6. QED
      BY <3>4, <3>5
  <2>6. CASE Receives(c) /\ a + (p + n) < f
    <3>1. d.rxQueue = q - 0 /\ d.rxPollAccum = a + (p + n) /\ Receives(d)
      BY <1>3, <1>4, <1>8, <2>3, <2>4, <2>6 DEF Received, Receives
    <3>2. PICK t : t = a + p + n
      OBVIOUS
    <3>3. t \in Nat /\ t <= f + Max(Blocks) /\ t <= credit + n /\ t >= 0 /\ t = a + (p + n)
      BY <1>2, <1>4, <1>5, <1>6, <1>8, <2>6, <3>2
    <3>4. PICK z : z = 0 * f
      OBVIOUS
    <3>5. z = 0
      BY <1>4, <3>4
    <3>6. age' = age + n /\ credit' \in Nat /\ credit' >= t - z
      BY <1>1, <1>2, <1>3, <2>1, <2>6, <3>1, <3>3, <3>4, <3>5, CountBooks
    <3>7. age' \in Nat /\ age' <= t /\ credit' >= t
      BY <1>2, <1>4, <1>5, <1>6, <2>6, <3>2, <3>3, <3>5, <3>6
    <3>8. Fits(d, 0, age', credit')
      BY <3>1, <3>3, <3>6, <3>7 DEF Fits
    <3>9. LineInv'
      BY <1>2, <1>9, <2>1, <2>3, <3>8, Settled
    <3>10. OneByte
      BY <1>1, <1>3, <1>4, <2>1, <3>1 DEF OneByte
    <3>11. QED
      BY <3>9, <3>10
  <2>7. CASE Receives(c) /\ a + (p + n) >= f
    <3>1. d.rxQueue = q - 1 /\ d.rxPollAccum <= a + (p + n) - f
      BY <1>3, <2>3, <2>7 DEF Received
    <3>2. PICK t : t = a + p + n
      OBVIOUS
    <3>3. t \in Nat /\ t <= f + Max(Blocks) /\ t <= credit + n /\ t >= f /\ t = a + (p + n)
      BY <1>2, <1>4, <1>5, <1>6, <1>7, <1>8, <2>7, <3>2
    <3>4. PICK z : z = 1 * f
      OBVIOUS
    <3>5. z = f
      BY <1>4, <3>4
    <3>6. age' = 0 /\ credit' \in Nat /\ credit' >= t - z
      BY <1>1, <1>2, <1>3, <2>1, <2>7, <3>1, <3>3, <3>4, <3>5, CountBooks
    <3>7. credit' >= d.rxPollAccum
      <4>1. d.rxPollAccum <= t - f
        BY <1>2, <1>4, <1>5, <2>4, <3>1, <3>3
      <4>2. credit' >= t - f
        BY <3>5, <3>6
      <4>3. QED
        BY <1>4, <2>4, <3>3, <3>6, <4>1, <4>2
    <3>8. Fits(d, 0, age', credit')
      BY <2>4, <3>6, <3>7 DEF Fits
    <3>9. LineInv'
      BY <1>2, <1>9, <2>1, <2>3, <3>8, Settled
    <3>10. OneByte
      BY <1>1, <1>3, <1>4, <2>1, <3>1 DEF OneByte
    <3>11. QED
      BY <3>9, <3>10
  <2>8. QED
    BY <1>2, <1>4, <1>5, <2>5, <2>6, <2>7
\* They are set aside, or count for nothing: the chip stays.
<1>10. ASSUME chip' = c,
              NEW r \in Nat, pendingClocks' = r,
              r <= p + n, r < f, Receives(c) => r = p + n, HeldBack(c, r),
              c.rxEnabled => a + r < f
       PROVE  LineInv' /\ OneByte
  <2>1. chip'.rxQueue = q - 0
    BY <1>3, <1>4, <1>10
  <2>2. PICK t : t = IF c.rxEnabled THEN a + r ELSE r
    OBVIOUS
  <2>3. t \in Nat /\ t <= f + Max(Blocks) /\ t <= credit + n /\ t >= 0 /\ t >= r
        /\ (c.rxEnabled => t = a + r)
    <3>1. CASE c.rxEnabled
      BY <1>2, <1>4, <1>5, <1>6, <1>10, <2>2, <3>1
    <3>2. CASE ~c.rxEnabled
      BY <1>2, <1>4, <1>5, <1>6, <1>10, <2>2, <3>2
    <3>3. QED
      BY <3>1, <3>2
  <2>4. PICK z : z = 0 * f
    OBVIOUS
  <2>5. z = 0
    BY <1>4, <2>4
  <2>6. /\ Receives(c) => age' = age + n
        /\ ~Receives(c) => age' = 0
        /\ credit' \in Nat /\ credit' >= t - z
    BY <1>1, <1>2, <1>3, <1>10, <2>1, <2>3, <2>4, <2>5, CountBooks
  <2>7. credit' >= t
    BY <2>3, <2>5, <2>6
  <2>8. age' \in Nat /\ (Receives(c) => age' <= a + r)
    BY <1>2, <1>4, <1>5, <1>6, <1>10, <2>6
  <2>9. Fits(c, r, age', credit')
    BY <1>3, <1>4, <1>10, <2>3, <2>6, <2>7, <2>8 DEF Fits
  <2>10. LineInv'
    BY <1>2, <1>10, <2>9 DEF LineInv
  <2>11. OneByte
    BY <1>1, <1>3, <1>4, <1>10, <2>1 DEF OneByte
  <2>12. QED
    BY <2>10, <2>11
<1>11. CASE /\ Sends(c) \/ Receives(c)
            /\ chip' = c /\ pendingClocks' = p + n
            /\ Sends(c) => p + n < c.txClocksLeft
            /\ Receives(c) => a + p + n < f
  <2>1. PICK r : r = p + n
    OBVIOUS
  <2>2. r \in Nat /\ r <= p + n /\ r < f /\ (Receives(c) => a + r < f)
    BY <1>2, <1>4, <1>5, <1>11, <2>1
  <2>3. HeldBack(c, r)
    BY <1>3, <1>11, <2>1, <2>2 DEF HeldBack
  <2>4. c.rxEnabled => a + r < f
    <3>1. c.rxEnabled /\ ~Receives(c) => a = 0
      BY <1>2, <1>3 DEF Timed, Receives
    <3>2. a = 0 => a + r = r
      BY <2>2
    <3>3. QED
      BY <2>2, <3>1, <3>2
  <2>5. QED
    BY <1>10, <1>11, <2>1, <2>2, <2>3, <2>4
<1>12. CASE ~Sends(c) /\ ~Receives(c) /\ chip' = c /\ pendingClocks' = 0
  <2>1. HeldBack(c, 0)
    BY <1>12 DEF HeldBack
  <2>2. a + 0 < f /\ 0 <= p + n /\ 0 < f
    BY <1>2, <1>4, <1>5
  <2>3. QED
    BY <1>10, <1>12, <2>1, <2>2
<1>13. \/ chip' = Tick(c, p + n) /\ pendingClocks' = 0
       \/ /\ Sends(c) \/ Receives(c)
          /\ chip' = c /\ pendingClocks' = p + n
          /\ Sends(c) => p + n < c.txClocksLeft
          /\ Receives(c) => a + p + n < f
       \/ ~Sends(c) /\ ~Receives(c) /\ chip' = c /\ pendingClocks' = 0
  BY <1>1, <1>3, CountGoes
<1>14. QED
  BY <1>9, <1>11, <1>12, <1>13

LEMMA ResetChipTimed ==
  ASSUME NEW f \in Formats, NEW s \in Speeds
  PROVE  Timed(ResetChip(f, s))
<1>1. PICK g, d : g = FrameClocks[f][s] /\ d = ResetChip(f, s)
  OBVIOUS
<1>2. g \in Nat \ {0} /\ Max(Blocks) < g
  BY <1>1, FramesAreNumbers, BlockAssumption
<1>3. /\ d.frame = g /\ d.rxPollAccum = 0 /\ d.txClocksLeft = 0 /\ d.rxEnabled = FALSE
  BY <1>1 DEF ResetChip
<1>4. QED
  BY <1>1, <1>2, <1>3 DEF Timed

LEMMA ResetTimed ==
  ASSUME Inv, LineInv, Inv', ResetBoard
  PROVE  LineInv'
<1>1. chip.speed \in Speeds /\ DefaultFormat \in Formats /\ Sound(chip')
  BY PortAssumption DEF Inv, Sound, Chip
<1>2. /\ chip' = ResetChip(DefaultFormat, chip.speed) /\ pendingClocks' = 0
      /\ Afresh(chip') /\ cpu' = "guest"
  BY DEF ResetBoard, call
<1>3. Timed(chip')
  BY <1>1, <1>2, ResetChipTimed
<1>4. Fits(chip', 0, age', credit')
  BY <1>1, <1>2, <1>3, AfreshFits
<1>5. QED
  BY <1>1, <1>2, <1>3, <1>4, Settled

LEMMA QuietTimed ==
  ASSUME Inv, LineInv,
         \/ RaiseFlag \/ UNCHANGED vars \/ \E speed \in Speeds : RequestSpeed(speed)
  PROVE  LineInv' /\ OneByte
<1>1. /\ chip' = chip /\ pendingClocks' = pendingClocks /\ age' = age /\ credit' = credit
      /\ cpu' = cpu /\ clocks' = clocks /\ next' = next
  BY DEF RaiseFlag, RequestSpeed, vars, port, books, call
<1>2. LineInv'
  BY <1>1 DEF LineInv
<1>3. OneByte
  BY <1>1 DEF OneByte, Inv, Sound, Chip
<1>4. QED
  BY <1>2, <1>3

LEMMA LineInit == Init => Inv /\ LineInv
<1> SUFFICES ASSUME Init PROVE Inv /\ LineInv
  OBVIOUS
<1>1. PICK c : c = chip
  OBVIOUS
<1>2. Inv /\ Sound(c)
  BY <1>1, InvInit DEF Inv
<1>3. /\ c = ResetChip(DefaultFormat, Jumper) /\ pendingClocks = 0 /\ cpu = "guest"
      /\ age = 0 /\ credit = c.frame + Max(Blocks)
  BY <1>1 DEF Init, MostCredit
<1>4. Timed(c)
  BY <1>3, PortAssumption, ResetChipTimed
<1>5. c.frame \in Nat /\ c.rxPollAccum \in Nat /\ c.rxPollAccum < c.frame /\ c.txClocksLeft \in Nat
  BY <1>2, <1>4 DEF Sound, Chip, Timed
<1>6. HeldBack(c, 0)
  BY <1>4, <1>5 DEF HeldBack, Sends
<1>7. Fits(c, 0, age, credit)
  BY <1>3, <1>5, BlocksAreShort DEF Fits
<1>8. QED
  BY <1>1, <1>2, <1>3, <1>4, <1>6, <1>7 DEF LineInv

LEMMA LineStep ==
  Inv /\ LineInv /\ [Running]_vars =>
    /\ Inv' /\ LineInv'
    /\ chip'.rxQueue >= chip.rxQueue - 1 \/ ResetBoard
<1> SUFFICES ASSUME Inv, LineInv, [Running]_vars
             PROVE  Inv' /\ LineInv' /\ (OneByte \/ ResetBoard)
  BY DEF OneByte
<1>1. Inv'
  BY InvStep DEF Next
<1>2. CASE ReadPort \/ ReadStatus \/ WritePort \/ WriteControl
  BY <1>1, <1>2, AccessesTimed
<1>3. CASE \E n \in Blocks : TickCpu(n)
  BY <1>1, <1>3, TickCpuTimed
<1>4. CASE ApplyRequest
  BY <1>1, <1>4, ApplyTimed
<1>5. CASE LookAhead
  BY <1>1, <1>5, LookTimed
<1>6. CASE Count
  BY <1>1, <1>6, CountTimed
<1>7. CASE PushRxByte
  BY <1>1, <1>7, PushTimed
<1>8. CASE ResetBoard
  BY <1>1, <1>8, ResetTimed
<1>9. CASE RaiseFlag \/ UNCHANGED vars \/ \E speed \in Speeds : RequestSpeed(speed)
  BY <1>1, <1>9, QuietTimed
<1>10. QED
  BY <1>2, <1>3, <1>4, <1>5, <1>6, <1>7, <1>8, <1>9 DEF Running

-----------------------------------------------------------------------------
(* The theorems.                                                             *)

\* No order of bytes, command words, changes of speed, resets and loads leaves the
\* transmitter enabled, not ready, and without a frame whose end makes it ready.
THEOREM TransmitterAlwaysReturns == Spec => []TransmitterNeverStuck
<1>1. Inv => TransmitterNeverStuck
  BY DEF Inv, TransmitterNeverStuck, Sound, Sends
<1>2. QED
  BY <1>1, InvHolds, PTL

\* Holding the clocks back is invisible: whenever somebody looks at the
\* transmitter, it is where it would be, had it got every clock at once.
THEOREM LazinessAlwaysInvisible == Spec => []LazinessInvisible
<1>1. Inv => LazinessInvisible
  BY DEF Inv, LazinessInvisible, Twins
<1>2. QED
  BY <1>1, InvHolds, PTL

\* While no state is loaded the receiver keeps the time of the line, although its clocks
\* are held back and its bytes come at any moment: a byte in the queue of an enabled
\* receiver reaches the guest within a frame, and the line has had a frame for it.
THEOREM ReceiverAlwaysKeepsTime == RunningSpec => []ReceiverKeepsTime
<1>1. Inv /\ LineInv => ReceiverKeepsTime
  <2>1. SUFFICES ASSUME Inv, LineInv PROVE ReceiverKeepsTime
    OBVIOUS
  <2>2. /\ chip.frame \in Nat \ {0} /\ chip.rxPollAccum \in Nat /\ pendingClocks \in Nat
        /\ age \in Nat /\ credit \in Nat
    BY <2>1 DEF Inv, Rest, LineInv, Sound, Chip, Fits
  <2>3. CASE Receives(chip)
    BY <2>1, <2>2, <2>3 DEF LineInv, HeldBack, Fits, ReceiverKeepsTime
  <2>4. CASE ~Receives(chip)
    BY <2>1, <2>2, <2>4 DEF LineInv, Fits, ReceiverKeepsTime
  <2>5. QED
    BY <2>3, <2>4
<1>2. QED
  BY <1>1, LineInit, LineStep, PTL DEF RunningSpec

\* No step but a reset takes more than one byte from the queue: the block of clocks that
\* completes a byte never holds the next one's frame.
THEOREM NeverTwoBytes == RunningSpec => OneByteAtATime
<1>1. Inv /\ LineInv /\ [Running]_vars =>
        [chip'.rxQueue >= chip.rxQueue - 1 \/ ResetBoard \/ LoadState]_vars
  BY LineStep
<1>2. Inv /\ LineInv /\ [Running]_vars => Inv' /\ LineInv'
  BY LineStep
<1>3. QED
  BY <1>1, <1>2, LineInit, PTL DEF RunningSpec, OneByteAtATime

=============================================================================
