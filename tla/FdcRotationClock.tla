--------------------------- MODULE FdcRotationClock ---------------------------
(***************************************************************************)
(* The divider that turns controller clocks into raw bits under the head    *)
(* (src/src/FdcRotationClock.h), with its users in NEC765.cpp: nec765Tick    *)
(* advances it, nec765ClocksToNextEvent asks it how far a deadline is, and   *)
(* nec765RefreshRotationTiming changes the ratio when the drive selected or  *)
(* its medium changes.                                                      *)
(*                                                                         *)
(* NEC765 counts time in raw bits; this module is the reason it may.  The   *)
(* 64-bit products are computed modulo MaxUint + 1, as the code does.        *)
(***************************************************************************)
EXTENDS Integers

CONSTANTS
  ClocksPerRev,  \* clocksPerRevolution: fixed by the 300 RPM spindle
  Rates,         \* bitsPerRevolution of the media that may turn up
  Blocks,        \* clock blocks handed to nec765Tick
  MaxUint,       \* largest 64-bit value
  Horizon        \* bound on the time explored (sum of clocks times rate)

ASSUME RatioAssumption ==
  /\ ClocksPerRev \in Nat \ {0} /\ Rates \subseteq Nat \ {0} /\ Rates # {}
  /\ Blocks \subseteq Nat /\ MaxUint \in Nat /\ Horizon \in Nat
\* Two revolutions, the furthest deadline, fit a register with room to spare
\* (3 * 100 000 bits times 1 600 000 clocks against 2^64).
ASSUME WidthAssumption == \A b \in Rates : (3 * b + 1) * ClocksPerRev <= MaxUint

VARIABLES
  bitsPerRev,    \* fdc->bitsPerRevolution
  remainder,     \* numeratorRemainder, in units of 1/ClocksPerRev bit
  totalBits,     \* fdc->totalBits
  numerator      \* the exact position, in the same unit (not in the code)
clockVars == <<bitsPerRev, remainder, totalBits, numerator>>

Wrap(x) == x % (MaxUint + 1)

-----------------------------------------------------------------------------

Saturated == [bits |-> MaxUint, remainder |-> 0]

\* Mutants of Advance: no saturation, and a remainder that is thrown away.
AdvanceWraps(r, n, b) ==
  LET revolutions == n \div ClocksPerRev
      numer       == Wrap(r + Wrap((n % ClocksPerRev) * b))
  IN [bits |-> Wrap(Wrap(revolutions * b) + numer \div ClocksPerRev),
      remainder |-> numer % ClocksPerRev]
AdvanceRounds(r, n, b) == [bits |-> (n * b) \div ClocksPerRev, remainder |-> 0]

\* Whole revolutions are split off before the multiplication.
Advance(r, n, b) ==
  LET revolutions == n \div ClocksPerRev
      partial     == n % ClocksPerRev
      numer       == Wrap(r + Wrap(partial * b))
      bits        == numer \div ClocksPerRev
      whole       == Wrap(revolutions * b)
  IN IF revolutions > MaxUint \div b \/ partial > (MaxUint - r) \div b THEN Saturated
     ELSE [bits |-> IF bits > MaxUint - whole THEN MaxUint ELSE Wrap(whole + bits),
           remainder |-> numer % ClocksPerRev]

\* Mutant of ClocksUntilBits: rounds down.
ClocksUntilRoundedDown(r, k, b) ==
  IF k * ClocksPerRev <= r THEN 0 ELSE (k * ClocksPerRev - r) \div b

\* The least number of clocks that brings k more bits under the head.
ClocksUntilBits(r, k, b) ==
  LET missing == Wrap(k * ClocksPerRev) - r
  IN IF k = 0 THEN 0
     ELSE IF k > MaxUint \div ClocksPerRev THEN MaxUint
     ELSE IF missing <= 0 THEN 0
     ELSE missing \div b + (IF missing % b # 0 THEN 1 ELSE 0)

-----------------------------------------------------------------------------

Init == bitsPerRev \in Rates /\ remainder = 0 /\ totalBits = 0 /\ numerator = 0

\* nec765Tick with the medium turning.
Tick(n) ==
  /\ numerator + n * bitsPerRev <= Horizon
  /\ LET a == Advance(remainder, n, bitsPerRev)
     IN /\ totalBits' = Wrap(totalBits + a.bits)
        /\ remainder' = a.remainder
  /\ numerator' = numerator + n * bitsPerRev
  /\ UNCHANGED bitsPerRev

\* nec765Reset: the rate may change, the phase of the spindle does not.
Refresh(b) == bitsPerRev' = b /\ UNCHANGED <<remainder, totalBits, numerator>>

\* nec765DiskChanged and nec765ResetTimebase: the phase starts over.
Restart(b) ==
  bitsPerRev' = b /\ remainder' = 0 /\ totalBits' = 0 /\ numerator' = 0

Next ==
  \/ \E n \in Blocks : Tick(n)
  \/ \E b \in Rates : Refresh(b) \/ Restart(b)

Spec == Init /\ [][Next]_clockVars

-----------------------------------------------------------------------------

\* Type invariant: the remainder is always a proper fraction of a bit.
TypeOK ==
  /\ bitsPerRev \in Rates /\ remainder \in 0..(ClocksPerRev - 1)
  /\ totalBits \in Nat /\ numerator \in Nat

\* Advance: "keeping the fractional state independent of Tick() segmentation":
\* whatever the blocks time was delivered in, and whatever the rates of the
\* media were meanwhile, the bits counted and the fraction kept add up to the
\* exact position of the spindle, while the bit counter has room for it.
NoDrift ==
  numerator <= ClocksPerRev * MaxUint =>
    ClocksPerRev * totalBits + remainder = numerator

\* "This represents centuries of unconsumed emulated time ... report a saturated
\* distance instead of wrapping backwards": more clocks never mean fewer bits.
NeverBackwards ==
  \A m, n \in Blocks : m <= n =>
    Advance(remainder, m, bitsPerRev).bits <= Advance(remainder, n, bitsPerRev).bits

\* The deadline that the board waits for is exact: when it comes due the bits
\* have passed, and one clock earlier they had not.  No sector search and no
\* FORMAT ends early or late, whatever the ratio.
DeadlineExact ==
  \A k \in 0..(2 * bitsPerRev) :
    LET due == ClocksUntilBits(remainder, k, bitsPerRev)
    IN /\ Advance(remainder, due, bitsPerRev).bits >= k
       /\ due > 0 => Advance(remainder, due - 1, bitsPerRev).bits < k

=============================================================================
