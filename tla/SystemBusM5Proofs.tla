--------------------------- MODULE SystemBusM5Proofs ---------------------------
(* Theorems about SystemBusM5, for every prescaler, constant and program.    *)
EXTENDS SystemBusM5, WellFoundedInduction, TLAPS

-----------------------------------------------------------------------------
(* Numbers.                                                                  *)

\* A set of numbers that is not empty has a least one, and Min finds it.
LEMMA Least ==
  ASSUME NEW S \in SUBSET Nat, S # {}
  PROVE  Min(S) \in S /\ \A y \in S : Min(S) <= y
<1> DEFINE R == {ss \in Nat \X Nat : ss[1] < ss[2]}
<1>1. IsWellFoundedOn(R, Nat)
  BY NatLessThanWellFounded DEF OpToRel
<1>2. PICK x \in S : \A y \in S : <<y, x>> \notin R
  BY <1>1, WFMin
<1>3. \A y \in S : x =< y
  <2>1. TAKE y \in S
  <2>2. <<y, x>> \in Nat \X Nat /\ <<y, x>>[1] = y /\ <<y, x>>[2] = x
    OBVIOUS
  <2>3. ~(y < x)
    BY <2>2, <1>2
  <2>4. QED
    BY <2>3
<1>4. QED
  BY <1>3 DEF Min

LEMMA DivMod ==
  ASSUME NEW a \in Nat, NEW c \in Nat \ {0}
  PROVE  a \div c \in Nat /\ a % c \in 0..(c - 1) /\ a = c * (a \div c) + (a % c)
  BY SMTT(30)

\* A quotient is the one number that leaves a remainder below the divisor.
LEMMA DivUnique ==
  ASSUME NEW a \in Nat, NEW c \in Nat \ {0}, NEW q \in Int, NEW r \in 0..(c - 1), a = c * q + r
  PROVE  a \div c = q /\ a % c = r
<1>1. a \div c \in Int /\ a % c \in 0..(c - 1) /\ a = c * (a \div c) + (a % c)
  BY DivMod
<1> DEFINE d == a \div c
           s == a % c
<1>2. d \in Int /\ s \in 0..(c - 1) /\ c * (q - d) = s - r
  BY <1>1
<1>3. q = d
  <2>1. CASE q - d >= 1
    <3>1. c * (q - d) >= c
      BY <1>2, <2>1
    <3>2. QED
      BY <3>1, <1>2
  <2>2. CASE q - d <= 0 - 1
    <3>1. c * (q - d) <= 0 - c
      BY <1>2, <2>2
    <3>2. QED
      BY <3>1, <1>2
  <2>3. QED
    BY <2>1, <2>2, <1>2
<1>4. QED
  BY <1>3, <1>1

-----------------------------------------------------------------------------
(* Putting a channel back into the chip, and the pin.                        *)

Pinned(c) == c.interrupt = (Eligible(c) # {})

LEMMA WithChannelFacts ==
  ASSUME NEW x \in Chip, NEW i \in Channels, NEW c \in Channel
  PROVE  /\ WithChannel(x, i, c) \in Chip
         /\ WithChannel(x, i, c).interrupt = x.interrupt
         /\ WithChannel(x, i, c).channels[i] = c
         /\ \A j \in Channels \ {i} : WithChannel(x, i, c).channels[j] = x.channels[j]
<1> DEFINE f == [x.channels EXCEPT ![i] = c]
<1>1. x.channels \in [Channels -> Channel] /\ x.interrupt \in BOOLEAN
      /\ x = [channels |-> x.channels, interrupt |-> x.interrupt]
  BY DEF Chip
<1>2. WithChannel(x, i, c) = [channels |-> f, interrupt |-> x.interrupt]
  BY <1>1 DEF WithChannel
<1>3. f \in [Channels -> Channel] /\ f[i] = c /\ \A j \in Channels \ {i} : f[j] = x.channels[j]
  BY <1>1
<1>4. QED
  BY <1>1, <1>2, <1>3 DEF Chip

LEMMA UpdateInterruptFacts ==
  ASSUME NEW x \in Chip
  PROVE  /\ UpdateInterrupt(x) \in Chip /\ UpdateInterrupt(x).channels = x.channels
         /\ UpdateInterrupt(x).interrupt = (Eligible(x) # {})
         /\ Eligible(UpdateInterrupt(x)) = Eligible(x) /\ InService(UpdateInterrupt(x)) = InService(x)
         /\ Pinned(UpdateInterrupt(x))
<1> DEFINE b == Eligible(x) # {}
<1>1. x.channels \in [Channels -> Channel] /\ b \in BOOLEAN
      /\ UpdateInterrupt(x) = [channels |-> x.channels, interrupt |-> b]
  BY DEF Chip, UpdateInterrupt
<1>2. UpdateInterrupt(x).channels = x.channels /\ UpdateInterrupt(x).interrupt = b
  BY <1>1
<1>3. Eligible(UpdateInterrupt(x)) = Eligible(x) /\ InService(UpdateInterrupt(x)) = InService(x)
  BY <1>2 DEF Eligible, InService
<1>4. UpdateInterrupt(x) \in Chip
  BY <1>1 DEF Chip
<1>5. QED
  BY <1>2, <1>3, <1>4 DEF Pinned

\* Every channel is as LoadState wants it.
Good(x) == x \in Chip /\ \A i \in Channels : Loadable(x.channels[i], i)
\* Requests are only added, and no service begins or ends.
Grows(x, y) ==
  \A i \in Channels : /\ y.channels[i].inService = x.channels[i].inService
                      /\ x.channels[i].pending => y.channels[i].pending
SameServices(x, y) == \A i \in Channels : y.channels[i].inService = x.channels[i].inService
SameLevels(x, y) == \A i \in Channels : y.channels[i].triggerHigh = x.channels[i].triggerHigh

LEMMA GrowsKeeps ==
  ASSUME NEW x, NEW y, Grows(x, y)
  PROVE  /\ SameServices(x, y) /\ InService(y) = InService(x)
         /\ Eligible(x) # {} => Eligible(y) # {}
<1>1. SameServices(x, y) /\ InService(y) = InService(x)
  BY DEF Grows, SameServices, InService
<1>2. Eligible(x) \subseteq Eligible(y)
  BY DEF Grows, Eligible, Channels
<1>3. QED
  BY <1>1, <1>2

-----------------------------------------------------------------------------
(* One channel.                                                              *)

\* A channel with another counter, phase and pulse.
Made(c, k, p, z) ==
  [control |-> c.control, constant |-> c.constant, counter |-> k, prescalerPhase |-> p,
   loaded |-> c.loaded, running |-> c.running, waitingForTrigger |-> c.waitingForTrigger,
   triggerHigh |-> c.triggerHigh, pending |-> c.pending, inService |-> c.inService,
   zeroCountHigh |-> z]

LEMMA MadeFacts ==
  ASSUME NEW c \in Channel, NEW z
  PROVE  [c EXCEPT !.zeroCountHigh = z] = Made(c, c.counter, c.prescalerPhase, z)
  BY DEF Channel, Made

LEMMA MadePhase ==
  ASSUME NEW c, NEW p, NEW z
  PROVE  [Made(c, c.counter, c.prescalerPhase, z) EXCEPT !.prescalerPhase = p] = Made(c, c.counter, p, z)
  BY DEF Made

LEMMA MadeCounter ==
  ASSUME NEW c, NEW k, NEW p, NEW z
  PROVE  [Made(c, c.counter, p, z) EXCEPT !.counter = k] = Made(c, k, p, z)
  BY DEF Made

LEMMA MadeType ==
  ASSUME NEW c \in Channel, NEW k \in 1..MaxConstant, NEW p \in Nat, NEW z \in BOOLEAN
  PROVE  Made(c, k, p, z) \in Channel
  BY DEF Made, Channel

LEMMA PrescalerType ==
  ASSUME NEW c
  PROVE  Prescaler(c) \in Nat \ {0}
  BY PrescalerAssumption DEF Prescaler

\* Only its counter, its phase and its pulse may make such a channel illegal.
LEMMA MadeLoadable ==
  ASSUME NEW i \in Channels, NEW c \in Channel, Loadable(c, i), NEW k \in 1..MaxConstant,
         NEW p \in Nat, p < Prescaler(c), "counter" \in c.control => p = 0,
         NEW z \in BOOLEAN, i = 3 => ~z
  PROVE  Loadable(Made(c, k, p, z), i)
<1>1. Prescaler(Made(c, k, p, z)) = Prescaler(c)
  BY DEF Made, Prescaler
<1>2. QED
  BY <1>1 DEF Made, Loadable

LEMMA TerminalCountFacts ==
  ASSUME NEW i \in Channels, NEW c \in Channel, Loadable(c, i)
  PROVE  LET d == TerminalCount(c, i)
         IN /\ d \in Channel /\ Loadable(d, i)
            /\ d.triggerHigh = c.triggerHigh /\ d.inService = c.inService
            /\ c.pending => d.pending
<1> DEFINE d == TerminalCount(c, i)
           b == c.pending \/ "interrupt" \in c.control
           z == c.zeroCountHigh \/ i < 3
<1>1. b \in BOOLEAN /\ z \in BOOLEAN /\ c.constant \in 1..MaxConstant
      /\ (b => "interrupt" \in c.control) /\ (c.pending => b) /\ (i = 3 => ~z)
  BY DEF Channel, Loadable
<1>2. d = [[[c EXCEPT !.counter = c.constant] EXCEPT !.pending = b] EXCEPT !.zeroCountHigh = z]
  BY DEF TerminalCount, Channel
<1> HIDE DEF b, z, d
<1>3. d = [control |-> c.control, constant |-> c.constant, counter |-> c.constant,
           prescalerPhase |-> c.prescalerPhase, loaded |-> c.loaded, running |-> c.running,
           waitingForTrigger |-> c.waitingForTrigger, triggerHigh |-> c.triggerHigh,
           pending |-> b, inService |-> c.inService, zeroCountHigh |-> z]
  BY <1>2 DEF Channel
<1>4. d \in Channel
  BY <1>1, <1>3 DEF Channel
<1>5. Prescaler(d) = Prescaler(c)
  BY <1>3 DEF Prescaler
<1>6. Loadable(d, i)
  BY <1>1, <1>3, <1>5 DEF Loadable
<1>7. QED
  BY <1>1, <1>3, <1>4, <1>6 DEF d

\* The quotient and the remainder of the phase that a channel reaches m clocks later,
\* and the level of a pulse that ends, as names that the provers do not open.
Quotient(c, m) == (c.prescalerPhase + m) \div Prescaler(c)
Remainder(c, m) == (c.prescalerPhase + m) % Prescaler(c)
Low == FALSE

LEMMA QuotientFacts ==
  ASSUME NEW c \in Channel, NEW m \in Nat
  PROVE  /\ Quotient(c, m) \in Nat /\ Remainder(c, m) \in 0..(Prescaler(c) - 1)
         /\ c.prescalerPhase + m = Prescaler(c) * Quotient(c, m) + Remainder(c, m)
<1>1. PICK t \in Nat : t = c.prescalerPhase + m
  BY DEF Channel
<1>2. Prescaler(c) \in Nat \ {0}
  BY PrescalerType
<1>3. QED
  BY <1>1, <1>2, DivMod DEF Quotient, Remainder

LEMMA ExpiresForm ==
  ASSUME NEW c, NEW m
  PROVE  Expires(c, m) <=> TimerRuns(c) /\ Quotient(c, m) = c.counter
  BY DEF Expires, Quotient

\* What m clocks make of a channel.
LEMMA ClockedQuiet ==
  ASSUME NEW i, NEW c \in Channel, NEW m, ~TimerRuns(c)
  PROVE  Clocked(c, i, m) = Made(c, c.counter, c.prescalerPhase, Low)
<1>1. PICK z : z = FALSE
  OBVIOUS
<1>2. [c EXCEPT !.zeroCountHigh = z] = Made(c, c.counter, c.prescalerPhase, z)
  BY MadeFacts
<1>3. QED
  BY <1>1, <1>2 DEF Clocked, Low

LEMMA ClockedForm ==
  ASSUME NEW i, NEW c \in Channel, NEW m, TimerRuns(c)
  PROVE  Clocked(c, i, m) =
           IF Quotient(c, m) = c.counter
           THEN TerminalCount(Made(c, c.counter, Remainder(c, m), Low), i)
           ELSE Made(c, c.counter - Quotient(c, m), Remainder(c, m), Low)
<1>1. PICK z : z = FALSE
  OBVIOUS
<1>2. PICK q, r : q = Quotient(c, m) /\ r = Remainder(c, m)
  OBVIOUS
<1>3. PICK counted : counted = Made(c, c.counter, r, z)
  OBVIOUS
<1>4. [[c EXCEPT !.zeroCountHigh = z] EXCEPT !.prescalerPhase = r] = counted
  <2>1. PICK u : u = Made(c, c.counter, c.prescalerPhase, z)
    OBVIOUS
  <2>2. [u EXCEPT !.prescalerPhase = r] = counted
    BY <1>3, <2>1, MadePhase
  <2>3. [c EXCEPT !.zeroCountHigh = z] = u
    BY <2>1, MadeFacts
  <2>4. QED
    BY <2>2, <2>3
<1>5. PICK k : k = c.counter - q
  OBVIOUS
<1>6. [counted EXCEPT !.counter = k] = Made(c, k, r, z) /\ counted.counter = c.counter
  BY <1>3, MadeCounter DEF Made
<1>7. Clocked(c, i, m) = IF q = c.counter THEN TerminalCount(counted, i)
                         ELSE [counted EXCEPT !.counter = counted.counter - q]
  BY <1>1, <1>2, <1>4, ExpiresForm DEF Clocked, Quotient, Remainder
<1>8. QED
  BY <1>1, <1>2, <1>3, <1>5, <1>6, <1>7 DEF Low

\* While a channel is skipped no further than its expiry, its counter stays legal.
LEMMA ClockedFacts ==
  ASSUME NEW i \in Channels, NEW c \in Channel, Loadable(c, i), NEW m \in Nat,
         TimerRuns(c) => m <= ClocksToExpiry(c)
  PROVE  LET d == Clocked(c, i, m)
         IN /\ d \in Channel /\ Loadable(d, i)
            /\ d.triggerHigh = c.triggerHigh /\ d.inService = c.inService
            /\ c.pending => d.pending
            /\ ~Expires(c, m) => d.pending = c.pending
<1>1. PICK w \in Nat \ {0} : w = Prescaler(c)
  BY PrescalerType
<1>2. PICK q, r : q = Quotient(c, m) /\ r = Remainder(c, m)
  OBVIOUS
<1>3. c.prescalerPhase \in Nat /\ c.counter \in 1..MaxConstant /\ MaxConstant \in Nat \ {0}
  BY PrescalerAssumption DEF Channel
<1>4. q \in Nat /\ r \in 0..(w - 1) /\ c.prescalerPhase + m = w * q + r
  BY <1>1, <1>2, QuotientFacts
<1>5. r \in Nat /\ r < w
  BY <1>1, <1>4
<1>6. PICK z \in BOOLEAN : z = Low /\ ~z
  BY DEF Low
<1>7. /\ ~TimerRuns(c) => Clocked(c, i, m) = Made(c, c.counter, c.prescalerPhase, z)
      /\ TimerRuns(c) => (Expires(c, m) <=> q = c.counter)
      /\ TimerRuns(c) /\ q = c.counter => Clocked(c, i, m) = TerminalCount(Made(c, c.counter, r, z), i)
      /\ TimerRuns(c) /\ q # c.counter => Clocked(c, i, m) = Made(c, c.counter - q, r, z)
  BY <1>2, <1>6, ClockedQuiet, ClockedForm, ExpiresForm
<1>8. CASE ~TimerRuns(c)
  <2>1. Made(c, c.counter, c.prescalerPhase, z) \in Channel
    BY <1>3, <1>6, MadeType
  <2>2. c.prescalerPhase < Prescaler(c) /\ ("counter" \in c.control => c.prescalerPhase = 0)
    BY DEF Loadable
  <2>3. Loadable(Made(c, c.counter, c.prescalerPhase, z), i)
    BY <1>3, <1>6, <2>2, MadeLoadable
  <2>4. QED
    BY <1>7, <1>8, <2>1, <2>3 DEF Made
<1>9. CASE TimerRuns(c)
  <2>1. q <= c.counter
    <3>1. c.prescalerPhase + m <= w * c.counter
      BY <1>1, <1>3, <1>9 DEF ClocksToExpiry
    <3>2. w * q <= w * c.counter
      BY <3>1, <1>4, <1>3, <1>5
    <3>3. c.counter \in Nat
      BY <1>3
    <3>4. CASE q >= c.counter + 1
      <4>1. w * q >= w * (c.counter + 1)
        BY <3>3, <3>4, <1>1, <1>4
      <4>2. w * (c.counter + 1) = w * c.counter + w
        BY <3>3, <1>1
      <4>3. QED
        BY <4>1, <4>2, <3>2, <3>3, <1>1, <1>4
    <3>5. QED
      BY <3>3, <3>4, <1>4
  <2>2. "counter" \notin c.control
    BY <1>9 DEF TimerRuns
  <2>3. CASE q = c.counter
    <3>1. Made(c, c.counter, r, z) \in Channel
      BY <1>3, <1>5, <1>6, MadeType
    <3>2. Loadable(Made(c, c.counter, r, z), i)
      BY <1>1, <1>3, <1>5, <1>6, <2>2, MadeLoadable
    <3>3. Clocked(c, i, m) = TerminalCount(Made(c, c.counter, r, z), i) /\ Expires(c, m)
      BY <1>7, <1>9, <2>3
    <3>4. QED
      BY <3>1, <3>2, <3>3, TerminalCountFacts DEF Made
  <2>4. CASE q # c.counter
    <3>1. c.counter - q \in 1..MaxConstant
      BY <2>4, <2>1, <1>3, <1>4
    <3>2. Clocked(c, i, m) = Made(c, c.counter - q, r, z)
      BY <1>7, <1>9, <2>4
    <3>3. Made(c, c.counter - q, r, z) \in Channel
      BY <3>1, <1>5, <1>6, MadeType
    <3>4. Loadable(Made(c, c.counter - q, r, z), i)
      BY <3>1, <1>1, <1>5, <1>6, <2>2, MadeLoadable
    <3>5. QED
      BY <3>2, <3>3, <3>4 DEF Made
  <2>5. QED
    BY <2>3, <2>4
<1>10. QED
  BY <1>8, <1>9

-----------------------------------------------------------------------------
(* The chip.                                                                 *)

LEMMA UpdateKeeps ==
  ASSUME NEW x, NEW y, Good(y)
  PROVE  /\ Good(UpdateInterrupt(y)) /\ Pinned(UpdateInterrupt(y))
         /\ UpdateInterrupt(y).channels = y.channels
         /\ Grows(x, y) => Grows(x, UpdateInterrupt(y))
<1>1. y \in Chip
  BY DEF Good
<1>2. UpdateInterrupt(y) \in Chip /\ UpdateInterrupt(y).channels = y.channels /\ Pinned(UpdateInterrupt(y))
  BY <1>1, UpdateInterruptFacts
<1>3. QED
  BY <1>2 DEF Good, Grows

\* A channel is replaced by one that LoadState accepts as well.
LEMMA ReplaceFacts ==
  ASSUME NEW x, Good(x), NEW i \in Channels, NEW c \in Channel, Loadable(c, i)
  PROVE  LET y == WithChannel(x, i, c)
         IN /\ Good(y) /\ y.channels[i] = c
            /\ \A j \in Channels \ {i} : y.channels[j] = x.channels[j]
            /\ c.inService = x.channels[i].inService /\ (x.channels[i].pending => c.pending)
                 => Grows(x, y)
            /\ (Pinned(x) /\ c.inService = x.channels[i].inService
                 /\ c.pending = x.channels[i].pending) => Pinned(y)
<1> DEFINE y == WithChannel(x, i, c)
<1>1. x \in Chip
  BY DEF Good
<1>2. /\ y \in Chip /\ y.interrupt = x.interrupt /\ y.channels[i] = c
      /\ \A j \in Channels \ {i} : y.channels[j] = x.channels[j]
  BY <1>1, WithChannelFacts
<1> HIDE DEF y
<1>3. Good(y)
  BY <1>2 DEF Good
<1>4. c.inService = x.channels[i].inService /\ (x.channels[i].pending => c.pending) => Grows(x, y)
  BY <1>2 DEF Grows
<1>5. (Pinned(x) /\ c.inService = x.channels[i].inService
        /\ c.pending = x.channels[i].pending) => Pinned(y)
  <2> HAVE Pinned(x) /\ c.inService = x.channels[i].inService
            /\ c.pending = x.channels[i].pending
  <2>1. \A j \in Channels : /\ y.channels[j].pending = x.channels[j].pending
                            /\ y.channels[j].inService = x.channels[j].inService
    BY <1>2
  <2>2. Eligible(y) = Eligible(x)
    BY <2>1 DEF Eligible, Channels
  <2>3. QED
    BY <2>2, <1>2 DEF Pinned
<1>6. QED
  BY <1>2, <1>3, <1>4, <1>5 DEF y

LEMMA SkipFacts ==
  ASSUME NEW x, Good(x), Pinned(x), NEW m \in Nat,
         \A i \in Channels : TimerRuns(x.channels[i]) => m <= ClocksToExpiry(x.channels[i])
  PROVE  Good(Skip(x, m)) /\ Pinned(Skip(x, m)) /\ Grows(x, Skip(x, m)) /\ SameLevels(x, Skip(x, m))
<1> DEFINE f == [i \in Channels |-> Clocked(x.channels[i], i, m)]
           y == [x EXCEPT !.channels = f]
<1>1. x \in Chip /\ x.interrupt \in BOOLEAN /\ \A i \in Channels : x.channels[i] \in Channel
  BY DEF Good, Chip
<1>2. \A i \in Channels :
        /\ f[i] \in Channel /\ Loadable(f[i], i)
        /\ f[i].triggerHigh = x.channels[i].triggerHigh
        /\ f[i].inService = x.channels[i].inService
        /\ x.channels[i].pending => f[i].pending
        /\ ~Expires(x.channels[i], m) => f[i].pending = x.channels[i].pending
  <2>1. TAKE i \in Channels
  <2>2. x.channels[i] \in Channel /\ Loadable(x.channels[i], i) /\ f[i] = Clocked(x.channels[i], i, m)
    BY <1>1 DEF Good
  <2>3. QED
    BY <2>2, ClockedFacts
<1>3. f \in [Channels -> Channel]
  BY <1>2
<1> HIDE DEF f
<1>4. y.channels = f /\ y.interrupt = x.interrupt /\ y \in Chip
  <2>1. y = [channels |-> f, interrupt |-> x.interrupt]
    BY <1>1 DEF Chip
  <2>2. QED
    BY <1>1, <1>3, <2>1 DEF Chip
<1>5. Good(y) /\ Grows(x, y) /\ SameLevels(x, y)
  BY <1>2, <1>4 DEF Good, Grows, SameLevels
<1>6. Skip(x, m) = IF \E i \in Channels : Expires(x.channels[i], m) THEN UpdateInterrupt(y) ELSE y
  BY DEF Skip, f
<1> HIDE DEF y
<1>7. CASE \E i \in Channels : Expires(x.channels[i], m)
  <2>1. Skip(x, m) = UpdateInterrupt(y)
    BY <1>6, <1>7
  <2>2. QED
    BY <2>1, <1>5, UpdateKeeps DEF SameLevels
<1>8. CASE \A i \in Channels : ~Expires(x.channels[i], m)
  <2>1. Skip(x, m) = y
    BY <1>6, <1>8
  <2>2. Eligible(y) = Eligible(x)
    BY <1>2, <1>4, <1>8 DEF Eligible, Channels
  <2>3. Pinned(y)
    BY <2>2, <1>4 DEF Pinned
  <2>4. QED
    BY <2>1, <2>3, <1>5
<1>9. QED
  BY <1>7, <1>8

LEMMA SetTriggerFacts ==
  ASSUME NEW x, Good(x), Pinned(x), NEW i \in Channels, NEW h \in BOOLEAN
  PROVE  LET y == SetTrigger(x, i, h)
         IN /\ Good(y) /\ Pinned(y) /\ Grows(x, y)
            /\ y.channels[i].triggerHigh = h
            /\ \A j \in Channels \ {i} : y.channels[j].triggerHigh = x.channels[j].triggerHigh
<1> DEFINE old == x.channels[i]
           active == /\ h # old.triggerHigh /\ h = ("rising" \in old.control)
                     /\ old.loaded /\ "reset" \notin old.control
<1>1. PICK o \in Channel : o = old
  BY DEF Good, Chip
<1>2. Loadable(o, i)
  BY <1>1 DEF Good
<1>3. PICK c : c = [o EXCEPT !.triggerHigh = h]
  OBVIOUS
<1>4. c = [control |-> o.control, constant |-> o.constant, counter |-> o.counter,
           prescalerPhase |-> o.prescalerPhase, loaded |-> o.loaded, running |-> o.running,
           waitingForTrigger |-> o.waitingForTrigger, triggerHigh |-> h,
           pending |-> o.pending, inService |-> o.inService, zeroCountHigh |-> o.zeroCountHigh]
  BY <1>3 DEF Channel
<1>5. c \in Channel
  BY <1>4 DEF Channel
<1>6. Loadable(c, i)
  BY <1>2, <1>4 DEF Loadable, Prescaler
<1>7. ASSUME NEW d \in Channel, Loadable(d, i), d.triggerHigh = h, d.inService = o.inService,
             d.pending = o.pending
      PROVE  LET y == WithChannel(x, i, d)
             IN /\ Good(y) /\ Pinned(y) /\ Grows(x, y) /\ y.channels[i].triggerHigh = h
                /\ \A j \in Channels \ {i} : y.channels[j].triggerHigh = x.channels[j].triggerHigh
  BY <1>1, <1>7, ReplaceFacts
<1>8. CASE active /\ o.waitingForTrigger
  <2>1. PICK d : d = [c EXCEPT !.waitingForTrigger = FALSE, !.running = TRUE, !.prescalerPhase = 0]
    OBVIOUS
  <2>2. d = [control |-> o.control, constant |-> o.constant, counter |-> o.counter,
             prescalerPhase |-> 0, loaded |-> o.loaded, running |-> TRUE,
             waitingForTrigger |-> FALSE, triggerHigh |-> h,
             pending |-> o.pending, inService |-> o.inService, zeroCountHigh |-> o.zeroCountHigh]
    BY <2>1, <1>4
  <2>3. d \in Channel
    BY <2>2 DEF Channel
  <2>4. Prescaler(d) = Prescaler(o) /\ 0 < Prescaler(d)
    BY <2>2, PrescalerType DEF Prescaler
  <2>5. Loadable(d, i)
    BY <1>1, <1>2, <1>8, <2>2, <2>4 DEF Loadable
  <2>6. SetTrigger(x, i, h) = WithChannel(x, i, d)
    BY <1>1, <1>3, <1>8, <2>1 DEF SetTrigger
  <2>7. QED
    BY <1>7, <2>2, <2>3, <2>5, <2>6
<1>9. CASE active /\ ~o.waitingForTrigger /\ o.running /\ "counter" \in o.control
  <2>1. CASE o.counter > 1
    <3>1. PICK d : d = [c EXCEPT !.counter = o.counter - 1]
      OBVIOUS
    <3>2. PICK k \in 1..MaxConstant : k = o.counter - 1
      BY <2>1, PrescalerAssumption DEF Channel
    <3>3. d = [control |-> o.control, constant |-> o.constant, counter |-> k,
             prescalerPhase |-> o.prescalerPhase, loaded |-> o.loaded, running |-> o.running,
             waitingForTrigger |-> o.waitingForTrigger, triggerHigh |-> h,
             pending |-> o.pending, inService |-> o.inService, zeroCountHigh |-> o.zeroCountHigh]
      BY <3>1, <3>2, <1>4
    <3>4. d \in Channel
      BY <3>3 DEF Channel
    <3>5. Loadable(d, i)
      BY <1>2, <3>3 DEF Loadable, Prescaler
    <3>6. SetTrigger(x, i, h) = WithChannel(x, i, d)
      <4>1. d = [c EXCEPT !.counter = @ - 1]
        BY <3>1, <1>4
      <4>2. QED
        BY <1>1, <1>3, <1>9, <2>1, <4>1 DEF SetTrigger
    <3>7. QED
      BY <1>7, <3>3, <3>4, <3>5, <3>6
  <2>2. CASE ~(o.counter > 1)
    <3>1. PICK d : d = TerminalCount(c, i)
      OBVIOUS
    <3>2. /\ d \in Channel /\ Loadable(d, i) /\ d.triggerHigh = h /\ d.inService = o.inService
          /\ o.pending => d.pending
      BY <3>1, <1>4, <1>5, <1>6, TerminalCountFacts
    <3>3. SetTrigger(x, i, h) = UpdateInterrupt(WithChannel(x, i, d))
      BY <1>1, <1>3, <1>9, <2>2, <3>1 DEF SetTrigger
    <3>4. PICK y : y = WithChannel(x, i, d)
      OBVIOUS
    <3>5. /\ Good(y) /\ Grows(x, y) /\ y.channels[i] = d
          /\ \A j \in Channels \ {i} : y.channels[j] = x.channels[j]
      BY <1>1, <3>2, <3>4, ReplaceFacts
    <3>6. QED
      BY <3>2, <3>3, <3>4, <3>5, UpdateKeeps
  <2>3. QED
    BY <2>1, <2>2
<1>10. CASE /\ ~(active /\ o.waitingForTrigger)
            /\ ~(active /\ ~o.waitingForTrigger /\ o.running /\ "counter" \in o.control)
  <2>1. SetTrigger(x, i, h) = WithChannel(x, i, c)
    BY <1>1, <1>3, <1>10 DEF SetTrigger
  <2>2. QED
    BY <1>4, <1>5, <1>6, <1>7, <2>1
<1>11. QED
  BY <1>8, <1>9, <1>10

\* The writes may withdraw a request, but begin and end no service and move no pin.
LEMMA WriteConstantFacts ==
  ASSUME NEW x, Good(x), NEW i \in Channels, NEW k \in 1..MaxConstant
  PROVE  LET y == WriteConstant(x, i, k)
         IN Good(y) /\ Pinned(y) /\ SameServices(x, y) /\ SameLevels(x, y)
<1>1. PICK o \in Channel : o = x.channels[i]
  BY DEF Good, Chip
<1>2. Loadable(o, i)
  BY <1>1 DEF Good
<1>3. PICK c : c = [o EXCEPT !.constant = k, !.loaded = TRUE, !.control = @ \ {"follows", "reset"}]
  OBVIOUS
<1>4. PICK w : w = (o.control \ {"follows", "reset"})
  OBVIOUS
<1>5. c = [control |-> w, constant |-> k, counter |-> o.counter,
           prescalerPhase |-> o.prescalerPhase, loaded |-> TRUE, running |-> o.running,
           waitingForTrigger |-> o.waitingForTrigger, triggerHigh |-> o.triggerHigh,
           pending |-> o.pending, inService |-> o.inService, zeroCountHigh |-> o.zeroCountHigh]
  BY <1>3, <1>4 DEF Channel
<1>6. w \in SUBSET Flags /\ "reset" \notin w /\ \A f \in Flags \ {"follows", "reset"} : f \in w <=> f \in o.control
  BY <1>4 DEF Channel, Flags
<1>7. c \in Channel
  BY <1>5, <1>6 DEF Channel
<1>8. Prescaler(c) = Prescaler(o) /\ 0 < Prescaler(o)
  <2>1. Prescaler(c) = Prescaler(o)
    BY <1>5, <1>6 DEF Prescaler, Flags
  <2>2. QED
    BY <2>1, PrescalerType
<1> DEFINE waits == "counter" \notin c.control /\ "external" \in c.control
<1>9. PICK d : d = IF c.running THEN c
                   ELSE [c EXCEPT !.counter = k, !.prescalerPhase = 0,
                                  !.waitingForTrigger = waits, !.running = ~waits]
  OBVIOUS
<1>10. d \in Channel /\ Loadable(d, i) /\ d.inService = o.inService /\ d.triggerHigh = o.triggerHigh
  <2>1. CASE o.running
    <3>1. d = c
      BY <1>5, <1>9, <2>1
    <3>2. Loadable(c, i)
      BY <1>2, <1>5, <1>6, <1>8, <2>1 DEF Loadable, Flags
    <3>3. QED
      BY <1>5, <1>7, <3>1, <3>2
  <2>2. CASE ~o.running
    <3>1. PICK b \in BOOLEAN : b = waits
      OBVIOUS
    <3>2. d = [c EXCEPT !.counter = k, !.prescalerPhase = 0, !.waitingForTrigger = b, !.running = ~b]
      BY <1>5, <1>9, <2>2, <3>1
    <3>3. d = [control |-> w, constant |-> k, counter |-> k,
           prescalerPhase |-> 0, loaded |-> TRUE, running |-> ~b,
           waitingForTrigger |-> b, triggerHigh |-> o.triggerHigh,
           pending |-> o.pending, inService |-> o.inService, zeroCountHigh |-> o.zeroCountHigh]
      BY <1>5, <3>2
    <3>4. d \in Channel
      BY <3>3, <1>6 DEF Channel
    <3>5. Prescaler(d) = Prescaler(c)
      BY <1>5, <3>3 DEF Prescaler
    <3>6. b => "counter" \notin w /\ "external" \in w
      BY <3>1, <1>5
    <3>7. Loadable(d, i)
      BY <1>2, <1>6, <1>8, <3>3, <3>5, <3>6 DEF Loadable, Flags
    <3>8. QED
      BY <3>3, <3>4, <3>7
  <2>3. QED
    BY <2>1, <2>2
<1>11. PICK y : y = WithChannel(x, i, d)
  OBVIOUS
<1>12. WriteConstant(x, i, k) = UpdateInterrupt(y)
  BY <1>1, <1>3, <1>9, <1>11 DEF WriteConstant
<1>13. /\ Good(y) /\ y.channels[i] = d
       /\ \A j \in Channels \ {i} : y.channels[j] = x.channels[j]
  BY <1>10, <1>11, ReplaceFacts
<1>14. QED
  BY <1>1, <1>10, <1>12, <1>13, UpdateKeeps DEF SameServices, SameLevels

LEMMA WriteControlFacts ==
  ASSUME NEW x, Good(x), NEW i \in Channels, NEW word \in SUBSET Flags
  PROVE  LET y == WriteControl(x, i, word)
         IN Good(y) /\ Pinned(y) /\ SameServices(x, y) /\ SameLevels(x, y)
<1>1. PICK o \in Channel : o = x.channels[i]
  BY DEF Good, Chip
<1>2. Loadable(o, i)
  BY <1>1 DEF Good
<1> DEFINE resets  == "reset" \in word
           rephase == resets \/ \E f \in {"counter", "divide256"} : (f \in word) # (f \in o.control)
           waiting == o.waitingForTrigger /\ ~resets
           starts  == waiting /\ ("counter" \in word \/ "external" \notin word)
           loaded  == o.loaded /\ ~resets
<1>3. PICK run \in BOOLEAN : run = IF starts THEN loaded ELSE o.running /\ ~resets
  BY DEF Channel
<1>4. PICK wait \in BOOLEAN, ld \in BOOLEAN, ask \in BOOLEAN :
        wait = (waiting /\ ~starts) /\ ld = loaded /\ ask = (o.pending /\ "interrupt" \in word)
  OBVIOUS
<1>5. PICK t : t = IF rephase THEN 0 ELSE o.prescalerPhase
  OBVIOUS
<1>6. PICK d : d = [o EXCEPT !.control = word, !.loaded = ld, !.running = run,
                             !.waitingForTrigger = wait, !.prescalerPhase = t, !.pending = ask]
  OBVIOUS
<1>7. d = [control |-> word, constant |-> o.constant, counter |-> o.counter,
           prescalerPhase |-> t, loaded |-> ld, running |-> run,
           waitingForTrigger |-> wait, triggerHigh |-> o.triggerHigh,
           pending |-> ask, inService |-> o.inService, zeroCountHigh |-> o.zeroCountHigh]
  BY <1>6 DEF Channel
<1>8. t \in Nat /\ t < Prescaler(d) /\ ("counter" \in word => t = 0)
  <2>1. CASE rephase
    BY <1>5, <1>7, <2>1, PrescalerType
  <2>2. CASE ~rephase
    <3>1. Prescaler(d) = Prescaler(o)
      BY <1>7, <2>2 DEF Prescaler
    <3>2. t = o.prescalerPhase /\ ("counter" \in word => "counter" \in o.control)
      BY <1>5, <2>2
    <3>3. QED
      BY <1>2, <3>1, <3>2 DEF Loadable, Channel
  <2>3. QED
    BY <2>1, <2>2
<1>9. d \in Channel
  BY <1>7, <1>8 DEF Channel
<1>10. Loadable(d, i)
  BY <1>2, <1>3, <1>4, <1>7, <1>8 DEF Loadable
<1>11. PICK y : y = WithChannel(x, i, d)
  OBVIOUS
<1>12. WriteControl(x, i, word) = UpdateInterrupt(y)
  BY <1>1, <1>3, <1>4, <1>5, <1>6, <1>11 DEF WriteControl
<1>13. /\ Good(y) /\ y.channels[i] = d
       /\ \A j \in Channels \ {i} : y.channels[j] = x.channels[j]
  BY <1>9, <1>10, <1>11, ReplaceFacts
<1>14. QED
  BY <1>1, <1>7, <1>12, <1>13, UpdateKeeps DEF SameServices, SameLevels

LEMMA AcknowledgeFacts ==
  ASSUME NEW x, Good(x), Eligible(x) # {}
  PROVE  LET y == AcknowledgeInterrupt(x)
             first == Min(Eligible(x))
         IN /\ Good(y) /\ Pinned(y) /\ SameLevels(x, y)
            /\ first \in Channels /\ InService(y) = InService(x) \cup {first}
            /\ \A j \in InService(x) : first < j
<1>1. Eligible(x) \in SUBSET Nat
  BY DEF Eligible, Channels
<1>2. PICK i : i = Min(Eligible(x)) /\ i \in Eligible(x)
  BY <1>1, Least
<1>3. i \in Channels /\ \A j \in 0..i : ~x.channels[j].inService
  BY <1>2 DEF Eligible
<1>4. PICK o \in Channel : o = x.channels[i] /\ Loadable(o, i)
  BY <1>3 DEF Good, Chip
<1>5. PICK d : d = [o EXCEPT !.pending = FALSE, !.inService = TRUE]
  OBVIOUS
<1>6. d = [control |-> o.control, constant |-> o.constant, counter |-> o.counter,
           prescalerPhase |-> o.prescalerPhase, loaded |-> o.loaded, running |-> o.running,
           waitingForTrigger |-> o.waitingForTrigger, triggerHigh |-> o.triggerHigh,
           pending |-> FALSE, inService |-> TRUE, zeroCountHigh |-> o.zeroCountHigh]
  BY <1>5 DEF Channel
<1>7. d \in Channel
  BY <1>6 DEF Channel
<1>8. Loadable(d, i)
  BY <1>4, <1>6 DEF Loadable, Prescaler
<1>9. PICK y : y = WithChannel(x, i, d)
  OBVIOUS
<1>10. AcknowledgeInterrupt(x) = UpdateInterrupt(y)
  BY <1>2, <1>4, <1>5, <1>9 DEF AcknowledgeInterrupt
<1>11. /\ Good(y) /\ y.channels[i] = d
       /\ \A j \in Channels \ {i} : y.channels[j] = x.channels[j]
  BY <1>3, <1>7, <1>8, <1>9, ReplaceFacts
<1>12. UpdateInterrupt(y).channels = y.channels /\ Good(UpdateInterrupt(y)) /\ Pinned(UpdateInterrupt(y))
  BY <1>11, UpdateKeeps
<1>13. InService(UpdateInterrupt(y)) = InService(x) \cup {i}
  <2>1. \A j \in Channels : y.channels[j].inService <=> j \in InService(x) \cup {i}
    BY <1>11, <1>6 DEF InService
  <2>2. QED
    BY <2>1, <1>3, <1>12 DEF InService
<1>14. \A j \in InService(x) : i < j
  BY <1>3 DEF InService, Channels
<1>15. SameLevels(x, UpdateInterrupt(y))
  BY <1>4, <1>6, <1>11, <1>12 DEF SameLevels
<1>16. QED
  BY <1>2, <1>3, <1>10, <1>12, <1>13, <1>14, <1>15

LEMMA RetiFacts ==
  ASSUME NEW x, Good(x), InService(x) # {}
  PROVE  LET y == Reti(x)
             first == Min(InService(x))
         IN /\ Good(y) /\ Pinned(y) /\ SameLevels(x, y)
            /\ InService(y) = InService(x) \ {first}
            /\ first \in InService(x) /\ \A j \in InService(x) : first <= j
<1>1. InService(x) \in SUBSET Nat
  BY DEF InService, Channels
<1>2. PICK i : i = Min(InService(x)) /\ i \in InService(x) /\ \A j \in InService(x) : i <= j
  BY <1>1, Least
<1>3. i \in Channels
  BY <1>2 DEF InService
<1>4. PICK o \in Channel : o = x.channels[i] /\ Loadable(o, i)
  BY <1>3 DEF Good, Chip
<1>5. PICK d : d = [o EXCEPT !.inService = FALSE]
  OBVIOUS
<1>6. d = [control |-> o.control, constant |-> o.constant, counter |-> o.counter,
           prescalerPhase |-> o.prescalerPhase, loaded |-> o.loaded, running |-> o.running,
           waitingForTrigger |-> o.waitingForTrigger, triggerHigh |-> o.triggerHigh,
           pending |-> o.pending, inService |-> FALSE, zeroCountHigh |-> o.zeroCountHigh]
  BY <1>5 DEF Channel
<1>7. d \in Channel
  BY <1>6 DEF Channel
<1>8. Loadable(d, i)
  BY <1>4, <1>6 DEF Loadable, Prescaler
<1>9. PICK y : y = WithChannel(x, i, d)
  OBVIOUS
<1>10. Reti(x) = UpdateInterrupt(y)
  BY <1>2, <1>4, <1>5, <1>9 DEF Reti
<1>11. /\ Good(y) /\ y.channels[i] = d
       /\ \A j \in Channels \ {i} : y.channels[j] = x.channels[j]
  BY <1>3, <1>7, <1>8, <1>9, ReplaceFacts
<1>12. UpdateInterrupt(y).channels = y.channels /\ Good(UpdateInterrupt(y)) /\ Pinned(UpdateInterrupt(y))
  BY <1>11, UpdateKeeps
<1>13. InService(UpdateInterrupt(y)) = InService(x) \ {i}
  <2>1. \A j \in Channels : y.channels[j].inService <=> j \in InService(x) \ {i}
    BY <1>11, <1>6 DEF InService
  <2>2. QED
    BY <2>1, <1>3, <1>12 DEF InService
<1>14. SameLevels(x, UpdateInterrupt(y))
  BY <1>4, <1>6, <1>11, <1>12 DEF SameLevels
<1>15. QED
  BY <1>2, <1>10, <1>12, <1>13, <1>14

LEMMA ResetFacts ==
  LET y == SetTrigger(ResetChip, 3, TRUE)
  IN /\ Good(y) /\ Pinned(y) /\ Eligible(y) = {} /\ InService(y) = {} /\ y.interrupt = FALSE
     /\ y.channels[3].triggerHigh /\ \A j \in 0..2 : ~y.channels[j].triggerHigh
<1>1. Idle \in Channel
  BY PrescalerAssumption DEF Idle, Channel, Flags
<1>2. \A i \in Channels : Loadable(Idle, i)
  <2>1. 0 < Prescaler(Idle)
    BY PrescalerType
  <2>2. QED
    BY <2>1, PrescalerAssumption DEF Idle, Loadable
<1>3. /\ ResetChip \in Chip /\ ResetChip.interrupt = FALSE
      /\ \A i \in Channels : ResetChip.channels[i] = Idle
  BY <1>1 DEF ResetChip, Chip
<1>4. Good(ResetChip)
  BY <1>2, <1>3 DEF Good
<1>5. Eligible(ResetChip) = {}
  BY <1>3 DEF Eligible, Idle
<1>6. Pinned(ResetChip)
  BY <1>3, <1>5 DEF Pinned
<1>7. PICK d : d = [Idle EXCEPT !.triggerHigh = TRUE]
  OBVIOUS
<1>8. SetTrigger(ResetChip, 3, TRUE) = WithChannel(ResetChip, 3, d)
  <2>1. ResetChip.channels[3] = Idle
    BY <1>3 DEF Channels
  <2>2. ~Idle.loaded
    BY DEF Idle
  <2>3. QED
    BY <2>1, <2>2, <1>7 DEF SetTrigger
<1>9. /\ d \in Channel /\ Loadable(d, 3) /\ d.triggerHigh
      /\ d.inService = Idle.inService /\ d.pending = Idle.pending
  <2>1. d = [Idle EXCEPT !.triggerHigh = TRUE] /\ Loadable(Idle, 3)
    BY <1>2, <1>7 DEF Channels
  <2>2. d \in Channel
    BY <2>1, <1>1 DEF Channel
  <2>3. Prescaler(d) = Prescaler(Idle)
    BY <2>1 DEF Prescaler, Idle
  <2>4. QED
    BY <2>1, <2>2, <2>3 DEF Loadable, Idle
<1>10. PICK y : y = WithChannel(ResetChip, 3, d)
  OBVIOUS
<1>11. /\ Good(y) /\ Pinned(y) /\ y.channels[3] = d
       /\ \A j \in Channels \ {3} : y.channels[j] = Idle
  <2>1. 3 \in Channels
    BY DEF Channels
  <2>2. QED
    BY <2>1, <1>3, <1>4, <1>6, <1>9, <1>10, ReplaceFacts
<1>12. \A j \in Channels : ~y.channels[j].inService /\ ~y.channels[j].pending
  BY <1>9, <1>11 DEF Idle
<1>13. Eligible(y) = {} /\ InService(y) = {}
  BY <1>12 DEF Eligible, InService
<1>14. \A j \in 0..2 : ~y.channels[j].triggerHigh
  BY <1>11 DEF Idle, Channels
<1>15. QED
  BY <1>8, <1>9, <1>10, <1>11, <1>13, <1>14 DEF Pinned

-----------------------------------------------------------------------------
(* The stack of services, and the steps of time.                             *)

Span(q) == {q[k] : k \in DOMAIN q}
Climbs(q) == \A k, l \in DOMAIN q : k < l => q[k] < q[l]

LEMMA Push ==
  ASSUME NEW q \in Seq(Channels), Climbs(q), NEW v \in Channels, \A j \in Span(q) : v < j
  PROVE  LET p == <<v>> \o q
         IN p \in Seq(Channels) /\ Span(p) = Span(q) \cup {v} /\ Climbs(p)
<1> DEFINE p == <<v>> \o q
<1>1. <<v>> \in Seq(Channels) /\ Len(<<v>>) = 1 /\ <<v>>[1] = v
  OBVIOUS
<1>2. /\ p \in Seq(Channels) /\ Len(p) = Len(q) + 1 /\ p[1] = v
      /\ \A k \in 1..Len(q) : p[k + 1] = q[k]
  BY <1>1
<1>3. DOMAIN p = 1..(Len(q) + 1) /\ DOMAIN q = 1..Len(q) /\ Len(q) \in Nat
  BY <1>2
<1> HIDE DEF p
<1>4. Span(p) = Span(q) \cup {v}
  <2>1. ASSUME NEW e \in Span(p) PROVE e \in Span(q) \cup {v}
    <3>1. PICK k \in 1..(Len(q) + 1) : e = p[k]
      BY <1>3 DEF Span
    <3>2. CASE k = 1
      BY <3>1, <3>2, <1>2
    <3>3. CASE k # 1
      <4>1. k - 1 \in 1..Len(q) /\ p[(k - 1) + 1] = q[k - 1]
        BY <3>3, <1>2, <1>3
      <4>2. QED
        BY <4>1, <3>1, <1>3 DEF Span
    <3>4. QED
      BY <3>2, <3>3
  <2>2. v \in Span(p)
    BY <1>2, <1>3 DEF Span
  <2>3. ASSUME NEW e \in Span(q) PROVE e \in Span(p)
    <3>1. PICK k \in 1..Len(q) : e = q[k]
      BY <1>3 DEF Span
    <3>2. k + 1 \in DOMAIN p /\ p[k + 1] = e
      BY <3>1, <1>2, <1>3
    <3>3. QED
      BY <3>2 DEF Span
  <2>4. QED
    BY <2>1, <2>2, <2>3
<1>5. Climbs(p)
  <2>1. SUFFICES ASSUME NEW k \in DOMAIN p, NEW l \in DOMAIN p, k < l PROVE p[k] < p[l]
    BY DEF Climbs
  <2>2. l - 1 \in 1..Len(q) /\ p[(l - 1) + 1] = q[l - 1]
    BY <2>1, <1>2, <1>3
  <2>3. p[l] = q[l - 1] /\ p[l] \in Span(q)
    BY <2>2, <1>3 DEF Span
  <2>4. CASE k = 1
    BY <2>3, <2>4, <1>2
  <2>5. CASE k # 1
    <3>1. k - 1 \in 1..Len(q) /\ p[(k - 1) + 1] = q[k - 1] /\ k - 1 < l - 1
      BY <2>1, <2>5, <1>2, <1>3
    <3>2. q[k - 1] < q[l - 1]
      BY <3>1, <2>2, <1>3 DEF Climbs
    <3>3. p[k] = q[k - 1]
      BY <3>1, <1>3
    <3>4. QED
      BY <3>2, <3>3, <2>3
  <2>6. QED
    BY <2>4, <2>5
<1>6. QED
  BY <1>2, <1>4, <1>5 DEF p

LEMMA Pop ==
  ASSUME NEW q \in Seq(Channels), Climbs(q), q # << >>
  PROVE  /\ Tail(q) \in Seq(Channels) /\ Climbs(Tail(q))
         /\ Head(q) \in Span(q) /\ Span(Tail(q)) = Span(q) \ {Head(q)}
         /\ \A j \in Span(q) : Head(q) <= j
<1> DEFINE p == Tail(q)
<1>1. /\ p \in Seq(Channels) /\ Len(q) \in Nat \ {0} /\ Len(p) = Len(q) - 1 /\ Head(q) = q[1]
      /\ \A k \in 1..Len(p) : p[k] = q[k + 1]
  OBVIOUS
<1>2. DOMAIN q = 1..Len(q) /\ DOMAIN p = 1..(Len(q) - 1) /\ \A k \in DOMAIN q : q[k] \in Channels
  BY <1>1
<1> HIDE DEF p
<1>3. Climbs(p)
  <2>1. SUFFICES ASSUME NEW k \in DOMAIN p, NEW l \in DOMAIN p, k < l PROVE p[k] < p[l]
    BY DEF Climbs
  <2>2. k + 1 \in DOMAIN q /\ l + 1 \in DOMAIN q /\ k + 1 < l + 1
    BY <2>1, <1>2, <1>1
  <2>3. q[k + 1] < q[l + 1]
    BY <2>2 DEF Climbs
  <2>4. p[k] = q[k + 1] /\ p[l] = q[l + 1]
    BY <2>1, <1>1, <1>2
  <2>5. QED
    BY <2>3, <2>4
<1>4. 1 \in DOMAIN q /\ Head(q) \in Span(q)
  BY <1>1, <1>2 DEF Span
<1>5. \A k \in DOMAIN q : k # 1 => q[1] < q[k]
  BY <1>4, <1>2, <1>1 DEF Climbs
<1>6. \A j \in Span(q) : Head(q) <= j
  <2>1. TAKE j \in Span(q)
  <2>2. PICK k \in DOMAIN q : j = q[k]
    BY DEF Span
  <2>3. q[1] \in 0..3 /\ q[k] \in 0..3
    BY <1>2, <1>4 DEF Channels
  <2>4. QED
    BY <2>2, <2>3, <1>1, <1>5
<1>7. Span(p) = Span(q) \ {Head(q)}
  <2>1. ASSUME NEW e \in Span(p) PROVE e \in Span(q) \ {Head(q)}
    <3>1. PICK k \in 1..(Len(q) - 1) : e = p[k]
      BY <1>2 DEF Span
    <3>2. k + 1 \in DOMAIN q /\ k + 1 # 1 /\ e = q[k + 1]
      BY <3>1, <1>1, <1>2
    <3>3. q[1] < q[k + 1] /\ q[1] \in 0..3 /\ q[k + 1] \in 0..3
      BY <3>2, <1>2, <1>4, <1>5 DEF Channels
    <3>4. e # Head(q)
      BY <3>2, <3>3, <1>1
    <3>5. QED
      BY <3>2, <3>4 DEF Span
  <2>2. ASSUME NEW e \in Span(q) \ {Head(q)} PROVE e \in Span(p)
    <3>1. PICK k \in DOMAIN q : e = q[k]
      BY DEF Span
    <3>2. k # 1
      BY <3>1, <1>1
    <3>3. k - 1 \in 1..(Len(q) - 1) /\ p[k - 1] = q[(k - 1) + 1]
      BY <3>2, <1>1, <1>2
    <3>4. k - 1 \in DOMAIN p /\ p[k - 1] = e
      BY <3>3, <3>1, <1>2
    <3>5. QED
      BY <3>4 DEF Span
  <2>3. QED
    BY <2>1, <2>2
<1>8. QED
  BY <1>1, <1>3, <1>4, <1>6, <1>7 DEF p

\* A turn of the loop ends at the next edge of CK2 or keeps its level.
LEMMA CK2Steps ==
  ASSUME NEW t \in 0..(2 * CK2Half - 1), NEW m \in Nat, 0 < m, m <= CK2Half - (t % CK2Half)
  PROVE  LET now == (t + m) % (2 * CK2Half)
         IN /\ now \in 0..(2 * CK2Half - 1)
            /\ now % CK2Half # 0 => CK2(now) = CK2(t)
<1>1. PICK w \in Nat \ {0} : w = CK2Half
  BY BoardAssumption
<1>2. PICK q, r : q = t \div w /\ r = t % w
  OBVIOUS
<1>3. t \in Nat /\ t < 2 * w /\ 2 * w \in Nat \ {0}
  BY <1>1
<1>4. q \in Nat /\ r \in 0..(w - 1) /\ t = w * q + r
  BY <1>2, <1>3, DivMod
<1>5. t + m \in Nat /\ (t + m) % (2 * w) \in 0..(2 * w - 1)
  BY <1>3, DivMod
<1>6. CASE m = w - r
  <2>1. t + m = w * (q + 1)
    BY <1>4, <1>6, <1>1
  <2>2. q = 0 \/ q = 1
    <3>1. w * q < w * 2
      BY <1>3, <1>4, <1>1
    <3>2. CASE q >= 2
      <4>1. w * q >= w * 2
        BY <3>2, <1>4, <1>1
      <4>2. QED
        BY <4>1, <3>1, <1>4, <1>1
    <3>3. QED
      BY <3>2, <1>4
  <2>3. CASE q = 0
    <3>1. t + m = (2 * w) * 0 + w /\ w \in 0..(2 * w - 1)
      BY <2>1, <2>3, <1>1
    <3>2. (t + m) % (2 * w) = w
      BY <3>1, <1>3, <1>5, DivUnique
    <3>3. w = w * 1 + 0 /\ 0 \in 0..(w - 1)
      BY <1>1
    <3>4. w % w = 0
      BY <3>3, <1>1, DivUnique
    <3>5. QED
      BY <3>2, <3>4, <1>1, <1>5
  <2>4. CASE q = 1
    <3>1. t + m = (2 * w) * 1 + 0 /\ 0 \in 0..(2 * w - 1)
      BY <2>1, <2>4, <1>1
    <3>2. (t + m) % (2 * w) = 0
      BY <3>1, <1>3, <1>5, DivUnique
    <3>3. 0 = w * 0 + 0 /\ 0 \in 0..(w - 1)
      BY <1>1
    <3>4. 0 % w = 0
      BY <3>3, <1>1, DivUnique
    <3>5. QED
      BY <3>2, <3>4, <1>1, <1>5
  <2>5. QED
    BY <2>2, <2>3, <2>4
<1>7. CASE m < w - r
  <2>1. r + m \in 0..(w - 1) /\ t + m = w * q + (r + m)
    BY <1>4, <1>7, <1>1
  <2>2. (t + m) \div w = q
    BY <2>1, <1>4, <1>5, <1>1, DivUnique
  <2>3. q <= 1
    <3>1. w * q < w * 2
      BY <1>3, <1>4, <1>1
    <3>2. CASE q >= 2
      <4>1. w * q >= w * 2
        BY <3>2, <1>4, <1>1
      <4>2. QED
        BY <4>1, <3>1, <1>4, <1>1
    <3>3. QED
      BY <3>2, <1>4
  <2>4. t + m < 2 * w
    <3>1. w * q <= w
      <4>1. q = 0 \/ q = 1
        BY <2>3, <1>4
      <4>2. w * 0 = 0 /\ w * 1 = w
        BY <1>1
      <4>3. QED
        BY <4>1, <4>2, <1>1
    <3>2. QED
      BY <3>1, <2>1, <1>4, <1>1
  <2>5. t + m = (2 * w) * 0 + (t + m) /\ t + m \in 0..(2 * w - 1)
    BY <2>4, <1>5, <1>3
  <2>6. (t + m) % (2 * w) = t + m
    <3>1. PICK a \in Nat, c \in Nat \ {0} : a = t + m /\ c = 2 * w
      BY <1>3, <1>5
    <3>2. a = c * 0 + a /\ a \in 0..(c - 1)
      BY <2>5, <3>1
    <3>3. a % c = a
      BY <3>2, DivUnique
    <3>4. QED
      BY <3>1, <3>3
  <2>7. QED
    BY <2>2, <2>5, <2>6, <1>1, <1>2 DEF CK2
<1>8. QED
  BY <1>1, <1>2, <1>4, <1>6, <1>7

-----------------------------------------------------------------------------
(* The inductive invariant.                                                  *)

Levels(x, t, v) ==
  /\ ~x.channels[0].triggerHigh /\ ~x.channels[1].triggerHigh
  /\ x.channels[2].triggerHigh = CK2(t) /\ x.channels[3].triggerHigh = ~v

Lines ==
  /\ Good(chip) /\ Pinned(chip) /\ intLine = chip.interrupt
  /\ Levels(chip, clock, vdp)
Rest ==
  /\ clock \in 0..(2 * CK2Half - 1) /\ due \in Nat /\ half \in 0..1
  /\ edPrefix \in BOOLEAN /\ cpu \in {"run", "accept"} /\ vdp \in BOOLEAN
Services ==
  /\ serving \in Seq(Channels) /\ InService(chip) = Span(serving) /\ Climbs(serving)
  /\ cpu = "accept" => Eligible(chip) # {}
Inv == Lines /\ Rest /\ Services

LEMMA InvGivesAll ==
  ASSUME Inv
  PROVE  TypeOK /\ SavedStateLoads /\ WiresAgree /\ AcceptedHasSource /\ RetiEndsLatest
<1>1. chip \in Chip /\ intLine \in BOOLEAN
  BY DEF Inv, Lines, Good, Chip
<1>2. TypeOK
  BY <1>1 DEF Inv, Rest, Services, TypeOK, Snapshot, State
<1>3. SavedStateLoads
  BY DEF Inv, Lines, Good, Levels, SavedStateLoads, Acceptable, Snapshot
<1>4. WiresAgree
  BY DEF Inv, Lines, Pinned, Levels, WiresAgree, Wired, Snapshot
<1>5. AcceptedHasSource
  BY DEF Inv, Services, AcceptedHasSource, Sourced, Snapshot
<1>6. RetiEndsLatest
  BY DEF Inv, Services, Span, Climbs, RetiEndsLatest, Nested, Snapshot
<1>7. QED
  BY <1>2, <1>3, <1>4, <1>5, <1>6

LEMMA InvInit == Init => Inv
<1> SUFFICES ASSUME Init PROVE Inv
  OBVIOUS
<1>1. CK2(0) = FALSE /\ 0 \in 0..(2 * CK2Half - 1)
  <2>1. PICK w \in Nat \ {0} : w = CK2Half
    BY BoardAssumption
  <2>2. 0 = w * 0 + 0 /\ 0 \in 0..(w - 1)
    BY <2>1
  <2>3. 0 \div w = 0
    BY <2>2, DivUnique
  <2>4. QED
    BY <2>1, <2>3 DEF CK2
<1>2. Lines
  <2>1. PICK y : y = SetTrigger(ResetChip, 3, TRUE)
    OBVIOUS
  <2>2. /\ Good(y) /\ Pinned(y) /\ y.interrupt = FALSE
        /\ y.channels[3].triggerHigh = TRUE /\ \A j \in 0..2 : ~y.channels[j].triggerHigh
    <3>1. /\ Good(y) /\ Pinned(y) /\ y.interrupt = FALSE
          /\ y.channels[3].triggerHigh /\ \A j \in 0..2 : ~y.channels[j].triggerHigh
      BY <2>1, ResetFacts
    <3>2. y.channels[3].triggerHigh \in BOOLEAN
      BY <3>1 DEF Good, Chip, Channel, Channels
    <3>3. QED
      BY <3>1, <3>2
  <2>3. Levels(y, 0, FALSE)
    <3>1. ~y.channels[0].triggerHigh /\ ~y.channels[1].triggerHigh /\ ~y.channels[2].triggerHigh
      BY <2>2
    <3>2. y.channels[2].triggerHigh \in BOOLEAN
      BY <2>2 DEF Good, Chip, Channel, Channels
    <3>3. y.channels[2].triggerHigh = FALSE
      BY <3>1, <3>2
    <3>4. QED
      BY <2>2, <3>1, <3>3, <1>1 DEF Levels
  <2>4. chip = y /\ clock = 0 /\ intLine = FALSE /\ vdp = FALSE
    BY <2>1 DEF Init
  <2>5. QED
    BY <2>2, <2>3, <2>4 DEF Lines
<1>3. Rest
  <2>1. clock = 0 /\ due = 0 /\ half = 0 /\ edPrefix = FALSE /\ cpu = "run" /\ vdp = FALSE
    BY DEF Init
  <2>2. QED
    <3>1. edPrefix \in BOOLEAN /\ cpu \in {"run", "accept"} /\ vdp \in BOOLEAN
      BY <2>1
    <3>2. clock \in 0..(2 * CK2Half - 1)
      BY <1>1, <2>1
    <3>3. due \in Nat /\ half \in 0..1
      BY <2>1
    <3>4. QED
      BY <3>1, <3>2, <3>3 DEF Rest
<1>4. << >> \in Seq(Channels) /\ Span(<< >>) = {} /\ Climbs(<< >>)
  BY DEF Span, Climbs
<1>5. Services
  BY <1>4, ResetFacts DEF Init, Services
<1>6. QED
  BY <1>2, <1>3, <1>5 DEF Inv

\* The chip tells the CPU of every change of its pin, and so /INT follows it.
LEMMA Told ==
  ASSUME Lines, NEW y, Tell(y)
  PROVE  chip' = y /\ intLine' = y.interrupt
  BY DEF Lines, Tell

LEMMA AdvanceStep ==
  ASSUME Inv, NEW n \in Blocks, Advance(n)
  PROVE  Inv'
<1>1. PICK a \in Nat : a = half + n
  BY BoardAssumption DEF Inv, Rest
<1>2. a \div 2 \in Nat /\ a % 2 \in 0..1
  BY DivMod
<1>3. Rest'
  BY <1>1, <1>2 DEF Inv, Rest, Advance
<1>4. Lines' /\ Services'
  BY DEF Inv, Lines, Services, Advance, Good, Pinned, Levels
<1>5. QED
  BY <1>3, <1>4 DEF Inv

\* The stride reaches none of the limits from behind, and is not zero.
LEMMA StrideFacts ==
  ASSUME Inv, ~Quiet
  PROVE  /\ Stride \in Nat /\ 0 < Stride /\ Stride <= due /\ Stride <= CK2Half - (clock % CK2Half)
         /\ \A i \in Channels : TimerRuns(chip.channels[i]) => Stride <= ClocksToExpiry(chip.channels[i])
<1> DEFINE S == EventsAhead(chip) \cup {due, CK2Half - (clock % CK2Half)}
<1>1. ASSUME NEW i \in Channels PROVE ClocksToExpiry(chip.channels[i]) \in Nat \ {0}
  <2>1. PICK c \in Channel : c = chip.channels[i] /\ Loadable(c, i)
    BY DEF Inv, Lines, Good, Chip
  <2>2. PICK w \in Nat \ {0} : w = Prescaler(c)
    BY PrescalerType
  <2>3. c.counter \in Nat \ {0} /\ c.prescalerPhase \in Nat /\ c.prescalerPhase < w
    BY <2>1, <2>2, PrescalerAssumption DEF Loadable, Channel
  <2>4. c.counter * w >= w
    BY <2>3
  <2>5. c.counter * w \in Nat
    BY <2>3
  <2>6. QED
    BY <2>1, <2>2, <2>3, <2>4, <2>5 DEF ClocksToExpiry
<1>2. CK2Half - (clock % CK2Half) \in Nat \ {0}
  <2>1. clock \in Nat /\ CK2Half \in Nat \ {0}
    BY BoardAssumption DEF Inv, Rest
  <2>2. clock % CK2Half \in 0..(CK2Half - 1)
    BY <2>1, DivMod
  <2>3. QED
    BY <2>1, <2>2
<1>3. due \in Nat \ {0}
  BY DEF Inv, Rest, Quiet
<1>4. S \in SUBSET (Nat \ {0})
  BY <1>1, <1>2, <1>3 DEF EventsAhead
<1>5. Min(S) \in S /\ \A y \in S : Min(S) <= y
  <2>1. S \in SUBSET Nat /\ S # {}
    BY <1>4
  <2> HIDE DEF S
  <2>2. QED
    BY <2>1, Least
<1>6. \A i \in Channels : TimerRuns(chip.channels[i]) => ClocksToExpiry(chip.channels[i]) \in S
  BY DEF EventsAhead
<1>7. Stride = Min(S) /\ due \in S /\ CK2Half - (clock % CK2Half) \in S
  BY DEF Stride
<1>8. \A y \in S : y \in Nat /\ 0 < y
  BY <1>4
<1> HIDE DEF S
<1>9. Min(S) \in Nat /\ 0 < Min(S) /\ \A y \in S : Min(S) <= y
  BY <1>5, <1>8
<1>10. QED
  BY <1>6, <1>7, <1>9

LEMMA DeliverStep ==
  ASSUME Inv, Deliver
  PROVE  Inv'
<1>1. ~Quiet
  BY DEF Deliver
<1>2. PICK n : n = Stride
  OBVIOUS
<1>3. /\ n \in Nat /\ 0 < n /\ n <= due /\ n <= CK2Half - (clock % CK2Half)
      /\ \A i \in Channels : TimerRuns(chip.channels[i]) => n <= ClocksToExpiry(chip.channels[i])
  BY <1>1, <1>2, StrideFacts
<1>4. PICK now : now = (clock + n) % (2 * CK2Half)
  OBVIOUS
<1>5. now \in 0..(2 * CK2Half - 1) /\ (now % CK2Half # 0 => CK2(now) = CK2(clock))
  BY <1>3, <1>4, CK2Steps DEF Inv, Rest
<1>6. PICK later : later = Skip(chip, n)
  OBVIOUS
<1>7. Good(later) /\ Pinned(later) /\ Grows(chip, later) /\ SameLevels(chip, later)
  BY <1>3, <1>6, SkipFacts DEF Inv, Lines
<1>8. PICK y : y = IF now % CK2Half = 0 THEN SetTrigger(later, 2, CK2(now)) ELSE later
  OBVIOUS
<1>9. /\ clock' = now /\ Tell(y) /\ due' = due - n
      /\ UNCHANGED <<half, edPrefix, cpu, vdp, serving>>
  BY <1>2, <1>4, <1>6, <1>8 DEF Deliver
<1>10. Levels(later, clock, vdp)
  BY <1>7 DEF Inv, Lines, Levels, SameLevels, Channels
<1>11. Good(y) /\ Pinned(y) /\ Grows(chip, y) /\ Levels(y, now, vdp)
  <2>1. CASE now % CK2Half = 0
    <3>1. y = SetTrigger(later, 2, CK2(now)) /\ CK2(now) \in BOOLEAN /\ 2 \in Channels
      BY <1>8, <2>1 DEF CK2, Channels
    <3>2. /\ Good(y) /\ Pinned(y) /\ Grows(later, y) /\ y.channels[2].triggerHigh = CK2(now)
          /\ \A j \in Channels \ {2} : y.channels[j].triggerHigh = later.channels[j].triggerHigh
      BY <3>1, <1>7, SetTriggerFacts
    <3>3. Grows(chip, y)
      BY <3>2, <1>7 DEF Grows
    <3>4. Levels(y, now, vdp)
      BY <3>2, <1>10 DEF Levels, Channels
    <3>5. QED
      BY <3>2, <3>3, <3>4
  <2>2. CASE now % CK2Half # 0
    BY <2>2, <1>5, <1>7, <1>8, <1>10 DEF Levels
  <2>3. QED
    BY <2>1, <2>2
<1>12. chip' = y /\ intLine' = y.interrupt
  BY <1>9, Told DEF Inv
<1>13. Lines'
  BY <1>9, <1>11, <1>12 DEF Lines, Good, Pinned, Levels
<1>14. Rest'
  BY <1>3, <1>5, <1>9 DEF Inv, Rest
<1>15. Services'
  <2>1. InService(y) = InService(chip) /\ (Eligible(chip) # {} => Eligible(y) # {})
    BY <1>11, GrowsKeeps
  <2>2. QED
    BY <2>1, <1>9, <1>12 DEF Inv, Services
<1>16. QED
  BY <1>13, <1>14, <1>15 DEF Inv

LEMMA WriteStep ==
  ASSUME Inv, NEW i \in Channels, Write(i)
  PROVE  Inv'
<1>1. PICK y : /\ Tell(y) /\ Good(y) /\ Pinned(y) /\ SameServices(chip, y) /\ SameLevels(chip, y)
  <2>1. CASE "follows" \in chip.channels[i].control
    <3>1. PICK k \in TimeConstants : Tell(WriteConstant(chip, i, k))
      BY <2>1 DEF Write
    <3>2. k \in 1..MaxConstant
      BY <3>1, BoardAssumption
    <3>3. QED
      BY <3>1, <3>2, WriteConstantFacts DEF Inv, Lines
  <2>2. CASE "follows" \notin chip.channels[i].control
    <3>1. PICK word \in Words[i] : Tell(WriteControl(chip, i, word))
      BY <2>2 DEF Write
    <3>2. word \in SUBSET Flags
      BY <3>1, BoardAssumption
    <3>3. QED
      BY <3>1, <3>2, WriteControlFacts DEF Inv, Lines
  <2>3. QED
    BY <2>1, <2>2
<1>2. chip' = y /\ intLine' = y.interrupt
  BY <1>1, Told DEF Inv
<1>3. cpu = "run" /\ UNCHANGED <<clock, due, half, edPrefix, cpu, vdp, serving>>
  BY DEF Write
<1>4. Levels(y, clock, vdp)
  BY <1>1 DEF Inv, Lines, Levels, SameLevels, Channels
<1>5. InService(y) = InService(chip)
  BY <1>1 DEF SameServices, InService
<1>6. Lines'
  BY <1>1, <1>2, <1>3, <1>4 DEF Lines, Good, Pinned, Levels
<1>7. Rest'
  BY <1>3 DEF Inv, Rest
<1>8. Services'
  BY <1>2, <1>3, <1>5 DEF Inv, Services
<1>9. QED
  BY <1>6, <1>7, <1>8 DEF Inv

LEMMA VdpStep ==
  ASSUME Inv, NEW asserted \in BOOLEAN, VdpDrives(asserted)
  PROVE  Inv'
<1>1. PICK y : y = SetTrigger(chip, 3, ~asserted)
  OBVIOUS
<1>2. Tell(y) /\ vdp' = asserted /\ UNCHANGED <<clock, due, half, edPrefix, cpu, serving>>
  BY <1>1 DEF VdpDrives
<1>3. PICK h \in BOOLEAN : h = ~asserted
  OBVIOUS
<1>4. /\ Good(y) /\ Pinned(y) /\ Grows(chip, y) /\ y.channels[3].triggerHigh = h
      /\ \A j \in Channels \ {3} : y.channels[j].triggerHigh = chip.channels[j].triggerHigh
  <2>1. 3 \in Channels /\ y = SetTrigger(chip, 3, h)
    BY <1>1, <1>3 DEF Channels
  <2>2. QED
    BY <2>1, SetTriggerFacts DEF Inv, Lines
<1>5. Levels(y, clock, asserted)
  BY <1>3, <1>4 DEF Inv, Lines, Levels, Channels
<1>6. chip' = y /\ intLine' = y.interrupt
  BY <1>2, Told DEF Inv
<1>7. InService(y) = InService(chip) /\ (Eligible(chip) # {} => Eligible(y) # {})
  BY <1>4, GrowsKeeps
<1>8. Lines'
  BY <1>2, <1>4, <1>5, <1>6 DEF Lines, Good, Pinned, Levels
<1>9. Rest'
  BY <1>2 DEF Inv, Rest
<1>10. Services'
  BY <1>2, <1>6, <1>7 DEF Inv, Services
<1>11. QED
  BY <1>8, <1>9, <1>10 DEF Inv

LEMMA FetchStep ==
  ASSUME Inv, NEW opcode, Fetch(opcode)
  PROVE  Inv'
<1>1. edPrefix' \in BOOLEAN /\ cpu = "run" /\ UNCHANGED <<clock, due, half, cpu, vdp>>
  BY DEF Fetch
<1>2. Rest'
  BY <1>1 DEF Inv, Rest
<1>3. CASE edPrefix /\ opcode = "4D"
  <2>1. PICK y : y = Reti(chip)
    OBVIOUS
  <2>2. Tell(y) /\ serving' = IF serving = << >> THEN << >> ELSE Tail(serving)
    BY <1>3, <2>1 DEF Fetch
  <2>3. chip' = y /\ intLine' = y.interrupt
    BY <2>2, Told DEF Inv
  <2>4. CASE serving = << >>
    <3>1. InService(chip) = {}
      BY <2>4 DEF Inv, Services, Span
    <3>2. y = chip /\ serving' = serving
      BY <2>1, <2>2, <2>4, <3>1 DEF Reti
    <3>3. QED
      BY <1>1, <1>2, <2>3, <3>2 DEF Inv, Lines, Services, Good, Pinned, Levels
  <2>5. CASE serving # << >>
    <3>1. /\ serving' = Tail(serving) /\ serving' \in Seq(Channels) /\ Climbs(serving')
          /\ Head(serving) \in Span(serving) /\ Span(serving') = Span(serving) \ {Head(serving)}
          /\ \A j \in Span(serving) : Head(serving) <= j
      BY <2>2, <2>5, Pop DEF Inv, Services
    <3>2. InService(chip) = Span(serving) /\ InService(chip) # {}
      BY <3>1 DEF Inv, Services
    <3>3. PICK first : first = Min(InService(chip))
      OBVIOUS
    <3>4. /\ Good(y) /\ Pinned(y) /\ SameLevels(chip, y) /\ InService(y) = InService(chip) \ {first}
          /\ first \in InService(chip) /\ \A j \in InService(chip) : first <= j
      BY <2>1, <3>2, <3>3, RetiFacts DEF Inv, Lines
    <3>5. first = Head(serving)
      <4>1. first <= Head(serving) /\ Head(serving) <= first
        BY <3>1, <3>2, <3>4
      <4>2. InService(chip) \subseteq 0..3
        BY DEF InService, Channels
      <4>3. first \in Int /\ Head(serving) \in Int
        BY <4>2, <3>1, <3>2, <3>4
      <4>4. QED
        BY <4>1, <4>3
    <3>6. InService(y) = Span(serving')
      BY <3>1, <3>2, <3>4, <3>5
    <3>7. Levels(y, clock, vdp)
      BY <3>4 DEF Inv, Lines, Levels, SameLevels, Channels
    <3>8. Lines'
      BY <1>1, <2>3, <3>4, <3>7 DEF Lines, Good, Pinned, Levels
    <3>9. Services'
      BY <1>1, <2>3, <3>1, <3>6 DEF Services
    <3>10. QED
      BY <1>2, <3>8, <3>9 DEF Inv
  <2>6. QED
    BY <2>4, <2>5
<1>4. CASE ~(edPrefix /\ opcode = "4D")
  <2>1. UNCHANGED <<chip, intLine, serving>>
    BY <1>4 DEF Fetch
  <2>2. QED
    BY <1>1, <1>2, <2>1 DEF Inv, Lines, Services, Good, Pinned, Levels
<1>5. QED
  BY <1>3, <1>4

LEMMA AcceptStep ==
  ASSUME Inv, Accept
  PROVE  Inv'
<1>1. intLine /\ cpu' = "accept" /\ UNCHANGED <<chip, clock, due, half, edPrefix, intLine, vdp, serving>>
  BY DEF Accept
<1>2. Eligible(chip) # {}
  BY <1>1 DEF Inv, Lines, Pinned
<1>3. Lines'
  BY <1>1 DEF Inv, Lines, Good, Pinned, Levels
<1>4. Rest' /\ Services'
  BY <1>1, <1>2 DEF Inv, Rest, Services
<1>5. QED
  BY <1>3, <1>4 DEF Inv

LEMMA AcknowledgeStep ==
  ASSUME Inv, Acknowledge
  PROVE  Inv'
<1>1. PICK y, first : y = AcknowledgeInterrupt(chip) /\ first = Min(Eligible(chip))
  OBVIOUS
<1>2. /\ cpu = "accept" /\ cpu' = "run" /\ edPrefix' = FALSE /\ Tell(y)
      /\ UNCHANGED <<clock, due, half, vdp>>
  BY <1>1 DEF Acknowledge
<1>3. Eligible(chip) # {}
  BY <1>2 DEF Inv, Services
<1>4. serving' = <<first>> \o serving
  BY <1>1, <1>3 DEF Acknowledge
<1>5. /\ Good(y) /\ Pinned(y) /\ SameLevels(chip, y) /\ first \in Channels
      /\ InService(y) = InService(chip) \cup {first} /\ \A j \in InService(chip) : first < j
  BY <1>1, <1>3, AcknowledgeFacts DEF Inv, Lines
<1>6. serving' \in Seq(Channels) /\ Span(serving') = Span(serving) \cup {first} /\ Climbs(serving')
  BY <1>4, <1>5, Push DEF Inv, Services
<1>7. chip' = y /\ intLine' = y.interrupt
  BY <1>2, Told DEF Inv
<1>8. Levels(y, clock, vdp)
  BY <1>5 DEF Inv, Lines, Levels, SameLevels, Channels
<1>9. Lines'
  BY <1>2, <1>5, <1>7, <1>8 DEF Lines, Good, Pinned, Levels
<1>10. edPrefix' \in BOOLEAN /\ cpu' \in {"run", "accept"}
  BY <1>2
<1>11. Rest'
  BY <1>2, <1>10 DEF Inv, Rest
<1>12. Services'
  BY <1>2, <1>5, <1>6, <1>7 DEF Inv, Services
<1>13. QED
  BY <1>9, <1>11, <1>12 DEF Inv

LEMMA ResetStep ==
  ASSUME Inv, ResetMachine
  PROVE  Inv'
<1>1. Init'
  BY DEF ResetMachine, Quiet, Init
<1>2. QED
  BY <1>1, InvInit, PTL

LEMMA LoadStep ==
  ASSUME Inv, LoadState
  PROVE  Inv'
<1>1. PICK s \in Stored :
        /\ Acceptable(s)
        /\ chip' = LoadChip(s.chip) /\ intLine' = (Eligible(s.chip) # {})
        /\ clock' = s.clock /\ half' = s.half /\ edPrefix' = s.edPrefix
        /\ cpu' = s.cpu /\ vdp' = s.vdp /\ serving' = s.serving
  BY DEF LoadState
<1>2. s \in State /\ Wired(s) /\ Sourced(s) /\ Nested(s)
  BY <1>1, StoredAssumption
<1>3. PICK x : x = s.chip
  OBVIOUS
<1>4. x \in Chip /\ Good(x)
  BY <1>1, <1>2, <1>3 DEF State, Good, Acceptable
<1>5. PICK y : y = UpdateInterrupt(x)
  OBVIOUS
<1>6. /\ y.channels = x.channels /\ y.interrupt = (Eligible(x) # {})
      /\ Eligible(y) = Eligible(x) /\ InService(y) = InService(x) /\ Good(y) /\ Pinned(y)
  BY <1>4, <1>5, UpdateInterruptFacts, UpdateKeeps
<1>7. chip' = y /\ intLine' = y.interrupt
  BY <1>1, <1>3, <1>5, <1>6 DEF LoadChip
<1>8. Levels(y, s.clock, s.vdp)
  BY <1>1, <1>2, <1>3, <1>6 DEF Acceptable, Wired, Levels
<1>9. Lines'
  BY <1>1, <1>6, <1>7, <1>8 DEF Lines, Good, Pinned, Levels
<1>10. due' \in Nat
  BY DEF LoadState, Inv, Rest
<1>11. Rest'
  BY <1>1, <1>2, <1>10 DEF State, Rest
<1>12. Services'
  <2>1. s.serving \in Seq(Channels)
    BY <1>2 DEF State
  <2>2. InService(x) = Span(s.serving) /\ Climbs(s.serving)
    BY <1>2, <1>3 DEF Nested, Span, Climbs
  <2>3. s.cpu = "accept" => Eligible(x) # {}
    BY <1>2, <1>3 DEF Sourced
  <2>4. QED
    BY <1>1, <1>6, <1>7, <2>1, <2>2, <2>3 DEF Services
<1>13. QED
  BY <1>9, <1>11, <1>12 DEF Inv

LEMMA InvStep == Inv /\ [Next]_vars => Inv'
<1> SUFFICES ASSUME Inv, [Next]_vars PROVE Inv'
  OBVIOUS
<1>1. CASE \E n \in Blocks : Advance(n)
  BY <1>1, AdvanceStep
<1>2. CASE Deliver
  BY <1>2, DeliverStep
<1>3. CASE \E i \in Channels : Write(i)
  BY <1>3, WriteStep
<1>4. CASE \E asserted \in BOOLEAN : VdpDrives(asserted)
  BY <1>4, VdpStep
<1>5. CASE \E opcode \in {"ED", "4D", "other"} : Fetch(opcode)
  BY <1>5, FetchStep
<1>6. CASE Accept
  BY <1>6, AcceptStep
<1>7. CASE Acknowledge
  BY <1>7, AcknowledgeStep
<1>8. CASE ResetMachine
  BY <1>8, ResetStep
<1>9. CASE LoadState
  BY <1>9, LoadStep
<1>10. CASE UNCHANGED vars
  BY <1>10 DEF vars, Inv, Lines, Rest, Services, Good, Pinned, Levels
<1>11. QED
  BY <1>1, <1>2, <1>3, <1>4, <1>5, <1>6, <1>7, <1>8, <1>9, <1>10 DEF Next

LEMMA InvHolds == Spec => []Inv
  BY InvInit, InvStep, PTL DEF Spec

-----------------------------------------------------------------------------
(* Skipping.                                                                 *)

\* The terminal count forgets the counter that led to it.
LEMMA TerminalForgets ==
  ASSUME NEW i \in Channels, NEW c \in Channel, NEW a, NEW b, NEW p, NEW z
  PROVE  TerminalCount(Made(c, a, p, z), i) = TerminalCount(Made(c, b, p, z), i)
<1>1. PICK ask, high : ask = (c.pending \/ "interrupt" \in c.control) /\ high = (z \/ i < 3)
  OBVIOUS
<1>2. ASSUME NEW e
      PROVE  TerminalCount(Made(c, e, p, z), i)
             = [control |-> c.control, constant |-> c.constant, counter |-> c.constant,
                prescalerPhase |-> p, loaded |-> c.loaded, running |-> c.running,
                waitingForTrigger |-> c.waitingForTrigger, triggerHigh |-> c.triggerHigh,
                pending |-> ask, inService |-> c.inService, zeroCountHigh |-> high]
  <2>1. PICK d : d = Made(c, e, p, z)
    OBVIOUS
  <2>2. /\ d.constant = c.constant /\ (d.pending \/ "interrupt" \in d.control) = ask
        /\ (d.zeroCountHigh \/ i < 3) = high
    BY <1>1, <2>1 DEF Made
  <2>3. TerminalCount(d, i)
        = [[[d EXCEPT !.counter = c.constant] EXCEPT !.pending = ask] EXCEPT !.zeroCountHigh = high]
    BY <2>1, <2>2 DEF TerminalCount, Made
  <2>4. QED
    BY <2>1, <2>3 DEF Made
<1>3. QED
  BY <1>2

LEMMA MadeTwice ==
  ASSUME NEW c, NEW a, NEW b, NEW p, NEW r, NEW y, NEW z
  PROVE  Made(Made(c, a, p, y), b, r, z) = Made(c, b, r, z)
  BY DEF Made

\* One channel comes to the same, skipped in one stride or in two.
LEMMA ClockedInTwo ==
  ASSUME NEW i \in Channels, NEW c \in Channel, Loadable(c, i), ~c.zeroCountHigh,
         NEW m \in Nat, NEW k \in Nat, k < m, TimerRuns(c) => m <= ClocksToExpiry(c),
         NEW d, d = Clocked(c, i, k), NEW e \in Nat, e = m - k
  PROVE  ~Expires(c, k) /\ Clocked(d, i, e) = Clocked(c, i, m) /\ (Expires(d, e) <=> Expires(c, m))
<1>1. PICK w \in Nat \ {0} : w = Prescaler(c)
  BY PrescalerType
<1>2. PICK f \in Nat, n \in 1..MaxConstant : f = c.prescalerPhase /\ n = c.counter
  BY DEF Channel
<1>3. n \in Nat
  BY <1>2, PrescalerAssumption
<1>4. PICK z : z = Low
  OBVIOUS
<1>5. d \in Channel
  <2>1. TimerRuns(c) => k <= ClocksToExpiry(c)
    BY <1>1, <1>2, <1>3 DEF ClocksToExpiry
  <2>2. QED
    BY <2>1, ClockedFacts
<1>6. CASE ~TimerRuns(c)
  <2>1. d = Made(c, n, f, z) /\ Clocked(c, i, m) = Made(c, n, f, z)
    BY <1>2, <1>4, <1>6, ClockedQuiet
  <2>2. ~TimerRuns(d) /\ d.counter = n /\ d.prescalerPhase = f
    BY <1>6, <2>1 DEF TimerRuns, Made
  <2>3. Clocked(d, i, e) = Made(d, n, f, z)
    BY <1>4, <1>5, <2>2, ClockedQuiet
  <2>4. Made(d, n, f, z) = Made(c, n, f, z)
    BY <2>1, MadeTwice
  <2>5. QED
    BY <1>6, <2>1, <2>2, <2>3, <2>4, ExpiresForm
<1>7. CASE TimerRuns(c)
  <2>1. PICK q1, r1 : q1 = Quotient(c, k) /\ r1 = Remainder(c, k)
    OBVIOUS
  <2>2. PICK q2, r2 : q2 = Quotient(c, m) /\ r2 = Remainder(c, m)
    OBVIOUS
  <2>3. q1 \in Nat /\ r1 \in 0..(w - 1) /\ f + k = w * q1 + r1
    BY <1>1, <1>2, <2>1, QuotientFacts
  <2>4. q2 \in Nat /\ r2 \in 0..(w - 1) /\ f + m = w * q2 + r2
    BY <1>1, <1>2, <2>2, QuotientFacts
  <2>5. q1 < n
    <3>1. f + m <= w * n
      BY <1>1, <1>2, <1>3, <1>7 DEF ClocksToExpiry
    <3>2. w * q1 < w * n
      BY <3>1, <2>3, <1>1, <1>3
    <3>3. CASE q1 >= n
      <4>1. w * q1 >= w * n
        BY <3>3, <2>3, <1>1, <1>3
      <4>2. QED
        BY <4>1, <3>2, <2>3, <1>1, <1>3
    <3>4. QED
      BY <3>3, <2>3, <1>3
  <2>6. ~Expires(c, k) /\ d = Made(c, n - q1, r1, z)
    <3>1. q1 # n
      BY <2>5, <2>3, <1>3
    <3>2. QED
      BY <3>1, <1>2, <1>4, <1>7, <2>1, ClockedForm, ExpiresForm
  <2>7. d.counter = n - q1 /\ d.prescalerPhase = r1 /\ TimerRuns(d) /\ Prescaler(d) = w
    BY <2>6, <1>1, <1>7 DEF Made, TimerRuns, Prescaler
  <2>8. Quotient(d, e) = q2 - q1 /\ Remainder(d, e) = r2
    <3>1. PICK t \in Nat, v \in Int : t = r1 + e /\ v = q2 - q1
      BY <2>3, <2>4
    <3>2. w * v = w * q2 - w * q1
      BY <3>1, <2>3, <2>4, <1>1
    <3>3. t = w * v + r2
      <4>1. PICK g1 \in Int, g2 \in Int : g1 = w * q1 /\ g2 = w * q2
        BY <2>3, <2>4, <1>1
      <4>2. r1 + e = g2 - g1 + r2
        BY <4>1, <2>3, <2>4, <1>2
      <4>3. QED
        BY <4>1, <4>2, <3>1, <3>2
    <3>4. t \div w = v /\ t % w = r2
      BY <3>3, <2>4, <1>1, DivUnique
    <3>5. QED
      BY <3>1, <3>4, <2>7 DEF Quotient, Remainder
  <2>9. q2 - q1 = d.counter <=> q2 = n
    BY <2>7, <2>3, <2>4, <1>3
  <2>10. Expires(d, e) <=> Expires(c, m)
    BY <1>2, <1>7, <2>2, <2>7, <2>8, <2>9, ExpiresForm
  <2>11. CASE q2 = n
    <3>1. Clocked(c, i, m) = TerminalCount(Made(c, n, r2, z), i)
      BY <1>2, <1>4, <1>7, <2>2, <2>11, ClockedForm
    <3>2. Clocked(d, i, e) = TerminalCount(Made(d, d.counter, r2, z), i)
      BY <1>4, <1>5, <2>7, <2>8, <2>9, <2>11, ClockedForm
    <3>3. Made(d, d.counter, r2, z) = Made(c, n - q1, r2, z)
      BY <2>6, <2>7, MadeTwice
    <3>4. TerminalCount(Made(c, n - q1, r2, z), i) = TerminalCount(Made(c, n, r2, z), i)
      BY TerminalForgets
    <3>5. QED
      BY <3>1, <3>2, <3>3, <3>4, <2>6, <2>10
  <2>12. CASE q2 # n
    <3>1. Clocked(c, i, m) = Made(c, n - q2, r2, z)
      BY <1>2, <1>4, <1>7, <2>2, <2>12, ClockedForm
    <3>2. Clocked(d, i, e) = Made(d, d.counter - (q2 - q1), r2, z)
      BY <1>4, <1>5, <2>7, <2>8, <2>9, <2>12, ClockedForm
    <3>3. d.counter - (q2 - q1) = n - q2
      BY <2>7, <2>3, <2>4, <1>3
    <3>4. Made(d, n - q2, r2, z) = Made(c, n - q2, r2, z)
      BY <2>6, MadeTwice
    <3>5. QED
      BY <3>1, <3>2, <3>3, <3>4, <2>6, <2>10
  <2>13. QED
    BY <2>11, <2>12
<1>8. QED
  BY <1>6, <1>7

\* The skip of the whole chip, stopped on the way.  No pulse is on, or the
\* first event would be the next clock.
LEMMA SkipInTwo ==
  ASSUME NEW x, Good(x), NEW m \in Nat, NEW k \in Nat, 0 < k, k < m,
         \A y \in EventsAhead(x) : m <= y
  PROVE  Skip(Skip(x, k), m - k) = Skip(x, m)
<1>1. x.channels \in [Channels -> Channel] /\ x = [channels |-> x.channels, interrupt |-> x.interrupt]
  BY DEF Good, Chip
<1>2. PICK e \in Nat : e = m - k
  OBVIOUS
<1>3. ASSUME NEW i \in Channels
      PROVE  /\ ~x.channels[i].zeroCountHigh
             /\ TimerRuns(x.channels[i]) => m <= ClocksToExpiry(x.channels[i])
  BY DEF EventsAhead
<1>4. ASSUME NEW i \in Channels
      PROVE  LET c == x.channels[i]
                 d == Clocked(c, i, k)
             IN ~Expires(c, k) /\ Clocked(d, i, e) = Clocked(c, i, m) /\ (Expires(d, e) <=> Expires(c, m))
  <2>1. PICK c \in Channel : c = x.channels[i] /\ Loadable(c, i) /\ ~c.zeroCountHigh
                             /\ (TimerRuns(c) => m <= ClocksToExpiry(c))
    BY <1>1, <1>3 DEF Good
  <2>2. PICK d : d = Clocked(c, i, k)
    OBVIOUS
  <2>3. QED
    BY <1>2, <2>1, <2>2, ClockedInTwo
<1>5. PICK f, g, h : /\ f = [i \in Channels |-> Clocked(x.channels[i], i, k)]
                    /\ g = [i \in Channels |-> Clocked(f[i], i, e)]
                    /\ h = [i \in Channels |-> Clocked(x.channels[i], i, m)]
  OBVIOUS
<1>6. g = h
  BY <1>4, <1>5
<1>7. (\E i \in Channels : Expires(f[i], e)) <=> (\E i \in Channels : Expires(x.channels[i], m))
  BY <1>4, <1>5
<1>8. PICK y : y = [channels |-> f, interrupt |-> x.interrupt]
  OBVIOUS
<1>9. PICK v : v = [channels |-> h, interrupt |-> x.interrupt]
  OBVIOUS
<1>10. [x EXCEPT !.channels = f] = y /\ [x EXCEPT !.channels = h] = v /\ [y EXCEPT !.channels = g] = v
       /\ y.channels = f
  BY <1>1, <1>6, <1>8, <1>9
<1>11. Skip(x, k) = y
  BY <1>4, <1>5, <1>10 DEF Skip
<1>12. Skip(y, e) = Skip(x, m)
  BY <1>5, <1>7, <1>10 DEF Skip
<1>13. QED
  BY <1>2, <1>11, <1>12

LEMMA EventsAreNumbers ==
  ASSUME NEW x, Good(x)
  PROVE  EventsAhead(x) \subseteq Nat
<1>1. ASSUME NEW i \in Channels
      PROVE  ClocksToExpiry(x.channels[i]) \in Nat
  <2>1. PICK c \in Channel : c = x.channels[i] /\ Loadable(c, i)
    BY DEF Good, Chip
  <2>2. PICK w \in Nat \ {0} : w = Prescaler(c)
    BY PrescalerType
  <2>3. PICK f \in Nat, n \in Nat \ {0} : f = c.prescalerPhase /\ n = c.counter
    BY PrescalerAssumption DEF Channel
  <2>4. f < w
    BY <2>1, <2>2, <2>3 DEF Loadable
  <2>5. n * w \in Nat /\ n * w >= w
    <3>1. (n - 1) * w >= 0
      BY <2>2, <2>3
    <3>2. n * w = (n - 1) * w + w
      BY <2>2, <2>3
    <3>3. QED
      BY <3>1, <3>2, <2>2, <2>3
  <2>6. QED
    BY <2>1, <2>2, <2>3, <2>4, <2>5 DEF ClocksToExpiry
<1>2. QED
  BY <1>1 DEF EventsAhead

LEMMA InvGivesExact == Inv => SkippingIsExact
<1> SUFFICES ASSUME Inv
             PROVE  SkippingIsExact
  OBVIOUS
<1>1. Good(chip)
  BY DEF Inv, Lines
<1> DEFINE S == EventsAhead(chip) \cup {2 * CK2Half}
<1>2. S \in SUBSET Nat /\ S # {}
  BY <1>1, EventsAreNumbers, BoardAssumption
<1>3. Min(S) \in S /\ \A y \in S : Min(S) <= y
  BY <1>2, Least
<1>4. ASSUME NEW m \in 1..Min(S), NEW k \in 1..(m - 1)
      PROVE  Skip(Skip(chip, k), m - k) = Skip(chip, m)
  <2>1. Min(S) \in Nat
    BY <1>2, <1>3
  <2>2. m \in Nat /\ k \in Nat /\ 0 < k /\ k < m
    BY <2>1
  <2>3. \A y \in EventsAhead(chip) : m <= y
    BY <2>1, <1>2, <1>3
  <2>4. QED
    BY <1>1, <2>2, <2>3, SkipInTwo
<1>5. QED
  BY <1>4 DEF SkippingIsExact

-----------------------------------------------------------------------------
(* The theorems.                                                             *)

\* What the board keeps between two steps of its loop is always a legal state
\* of the chip, of the half-cycle and of the two levels (Z80CTC.h:38-59,
\* SystemBusM5.h).
THEOREM TypeCorrect == Spec => []TypeOK
  BY InvHolds, InvGivesAll, PTL

\* No sequence of register writes, edges, clocks, acknowledgements, resets and
\* loads leaves a channel in a state that LoadState rejects (Z80CTC.cpp:268-281).
THEOREM SavedStatesAlwaysLoad == Spec => []SavedStateLoads
  BY InvHolds, InvGivesAll, PTL

\* The request of the chip and /INT, the video pin and channel 3, CK2 and
\* channel 2 agree, although reset and load change the chip without a callback
\* (SystemBusM5.cpp:49-64, 242-266, GearSF7000Core.cpp:2733-2746).
THEOREM WiresAlwaysAgree == Spec => []WiresAgree
  BY InvHolds, InvGivesAll, PTL

\* Time that passes between accepting an interrupt and acknowledging it never
\* takes the request away (SystemBusM5.cpp:90-96).
THEOREM AcceptedAlwaysHasSource == Spec => []AcceptedHasSource
  BY InvHolds, InvGivesAll, PTL

\* RETI, which the chip gives to its first channel in service, ends the service
\* that the CPU began last (Z80CTC.cpp:214-241).
THEOREM RetiAlwaysEndsLatest == Spec => []RetiEndsLatest
  BY InvHolds, InvGivesAll, PTL

\* The loop of AdvanceTo skips no event, whatever the prescalers, the constants
\* and the phase at which a block of clocks ends (Z80CTC.cpp:46-79).
THEOREM SkippingIsAlwaysExact == Spec => []SkippingIsExact
  BY InvHolds, InvGivesExact, PTL

===============================================================================
