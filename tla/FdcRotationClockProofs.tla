------------------------ MODULE FdcRotationClockProofs ------------------------
(***************************************************************************)
(* The rotation clock keeps exact time, for every ratio and every sequence  *)
(* of blocks: proofs of the properties of FdcRotationClock.                 *)
(*                                                                         *)
(* All of them rest on one fact, AdvanceExact: as long as the answer fits a *)
(* register, Advance divides exactly.  NoDrift is then an induction over    *)
(* the steps, and a deadline is a ceiling taken of the same division.       *)
(***************************************************************************)
EXTENDS FdcRotationClock, TLAPS

-----------------------------------------------------------------------------
(* Division.                                                                 *)

LEMMA DivMod ==
  ASSUME NEW a \in Nat, NEW c \in Nat \ {0}
  PROVE  a \div c \in Nat /\ a % c \in 0..(c - 1) /\ a = c * (a \div c) + (a % c)
  OBVIOUS

\* q fits into a/c exactly when c * q fits into a.
LEMMA DivAtLeast ==
  ASSUME NEW a \in Nat, NEW c \in Nat \ {0}, NEW q \in Nat
  PROVE  q <= a \div c <=> c * q <= a
  OBVIOUS

\* Comparing whole parts through their products.
LEMMA WholeAtLeast ==
  ASSUME NEW c \in Nat \ {0}, NEW q \in Nat, NEW r \in 0..(c - 1), NEW k \in Nat
  PROVE  k <= q <=> c * k <= c * q + r
  OBVIOUS

LEMMA WrapSmall ==
  ASSUME NEW x \in Nat, x <= MaxUint
  PROVE  Wrap(x) = x
  BY RatioAssumption DEF Wrap

\* The part of a block that is shorter than a revolution never saturates.
LEMMA PartialFits ==
  ASSUME NEW b \in Rates, NEW r \in 0..(ClocksPerRev - 1), NEW p \in 0..(ClocksPerRev - 1)
  PROVE  p * b \in Nat /\ r + p * b <= MaxUint
<1>1. b \in Nat \ {0} /\ ClocksPerRev \in Nat \ {0} /\ MaxUint \in Nat
  BY RatioAssumption
<1>2. p * b <= ClocksPerRev * b - b
  <2>1. (p + 1) * b <= ClocksPerRev * b
    BY <1>1
  <2> QED
    BY <2>1, <1>1
<1>3. ClocksPerRev * b + ClocksPerRev <= (3 * b + 1) * ClocksPerRev
  BY <1>1
<1> QED
  BY <1>1, <1>2, <1>3, WidthAssumption

-----------------------------------------------------------------------------
(* Advance.                                                                  *)

\* Whatever it is given, Advance leaves a proper fraction of a bit.
LEMMA AdvanceType ==
  ASSUME NEW b \in Rates, NEW r \in 0..(ClocksPerRev - 1), NEW n \in Nat
  PROVE  /\ Advance(r, n, b).bits \in Nat
         /\ Advance(r, n, b).remainder \in 0..(ClocksPerRev - 1)
<1> DEFINE numer == Wrap(r + Wrap((n % ClocksPerRev) * b))
           whole == Wrap((n \div ClocksPerRev) * b)
<1>1. b \in Nat \ {0} /\ ClocksPerRev \in Nat \ {0} /\ MaxUint \in Nat
  BY RatioAssumption
<1>2. n % ClocksPerRev \in 0..(ClocksPerRev - 1) /\ n \div ClocksPerRev \in Nat
  BY <1>1, DivMod
<1>3. numer \in Nat /\ whole \in Nat
  <2>1. \A x \in Nat : Wrap(x) \in Nat
    BY <1>1 DEF Wrap
  <2>2. (n % ClocksPerRev) * b \in Nat /\ (n \div ClocksPerRev) * b \in Nat
    BY <1>1, <1>2
  <2> QED
    BY <2>1, <2>2
<1>4. /\ numer \div ClocksPerRev \in Nat
      /\ numer % ClocksPerRev \in 0..(ClocksPerRev - 1)
  BY <1>1, <1>3, DivMod
<1>5. Wrap(whole + numer \div ClocksPerRev) \in Nat
  BY <1>1, <1>3, <1>4 DEF Wrap
<1> HIDE DEF numer, whole
<1> QED
  BY <1>1, <1>4, <1>5 DEF Advance, Saturated, numer, whole

\* As long as the answer fits a register, Advance is exact division.
LEMMA AdvanceExact ==
  ASSUME NEW b \in Rates, NEW r \in 0..(ClocksPerRev - 1), NEW n \in Nat,
         r + n * b <= ClocksPerRev * MaxUint
  PROVE  /\ Advance(r, n, b).bits <= MaxUint
         /\ ClocksPerRev * Advance(r, n, b).bits + Advance(r, n, b).remainder = r + n * b
<1> DEFINE q == n \div ClocksPerRev
           p == n % ClocksPerRev
           numer == r + p * b
           bits == numer \div ClocksPerRev
           rest == numer % ClocksPerRev
<1>1. b \in Nat \ {0} /\ ClocksPerRev \in Nat \ {0} /\ MaxUint \in Nat
  BY RatioAssumption
<1>2. q \in Nat /\ p \in 0..(ClocksPerRev - 1) /\ n = ClocksPerRev * q + p
  BY <1>1, DivMod
<1> HIDE DEF q, p
<1>3. p * b \in Nat /\ numer \in Nat /\ numer <= MaxUint
  BY <1>1, <1>2, PartialFits
<1>4. bits \in Nat /\ rest \in 0..(ClocksPerRev - 1) /\ numer = ClocksPerRev * bits + rest
  BY <1>1, <1>3, DivMod
<1> HIDE DEF bits, rest
<1>5. n * b = ClocksPerRev * (q * b) + p * b
  BY <1>1, <1>2
<1>6. ClocksPerRev * (q * b + bits) + rest = r + n * b
  <2>1. q * b \in Nat
    BY <1>1, <1>2
  <2>2. ClocksPerRev * (q * b + bits) = ClocksPerRev * (q * b) + ClocksPerRev * bits
    BY <1>1, <1>4, <2>1
  <2> QED
    BY <1>1, <1>3, <1>4, <1>5, <2>1, <2>2
<1>7. q * b \in Nat /\ q * b + bits <= MaxUint
  <2>1. q * b \in Nat
    BY <1>1, <1>2
  <2>2. ClocksPerRev * (q * b + bits) <= ClocksPerRev * MaxUint
    BY <1>1, <1>4, <1>6, <2>1
  <2> QED
    BY <1>1, <1>4, <2>1, <2>2
<1>8. ~(q > MaxUint \div b) /\ ~(p > (MaxUint - r) \div b)
  <2>1. q <= MaxUint \div b
    BY <1>1, <1>2, <1>4, <1>7, DivAtLeast
  <2>2. MaxUint - r \in Nat /\ b * p <= MaxUint - r
    BY <1>1, <1>2, <1>3
  <2>3. p <= (MaxUint - r) \div b
    BY <1>1, <1>2, <2>2, DivAtLeast
  <2>4. MaxUint \div b \in Nat /\ (MaxUint - r) \div b \in Nat
    BY <1>1, <2>2, DivMod
  <2> QED
    BY <1>2, <2>1, <2>3, <2>4
<1>9. /\ Wrap(p * b) = p * b /\ Wrap(numer) = numer
      /\ Wrap(q * b) = q * b /\ Wrap(q * b + bits) = q * b + bits
  <2>1. p * b <= MaxUint /\ q * b <= MaxUint
    BY <1>1, <1>3, <1>4, <1>7
  <2> QED
    BY <1>3, <1>4, <1>7, <2>1, WrapSmall
<1>10. Advance(r, n, b) = [bits |-> q * b + bits, remainder |-> rest]
  <2>1. ~(bits > MaxUint - q * b)
    BY <1>1, <1>4, <1>7
  <2>2. /\ Wrap(r + Wrap(p * b)) = numer
        /\ numer \div ClocksPerRev = bits /\ numer % ClocksPerRev = rest
    BY <1>9 DEF bits, rest
  <2> HIDE DEF numer
  <2> QED
    BY <1>8, <1>9, <2>1, <2>2 DEF Advance, q, p
<1> QED
  BY <1>6, <1>7, <1>10

\* When the answer does not fit, Advance reports the largest one that does.
LEMMA AdvanceSaturates ==
  ASSUME NEW b \in Rates, NEW r \in 0..(ClocksPerRev - 1), NEW n \in Nat,
         r + n * b > ClocksPerRev * MaxUint
  PROVE  Advance(r, n, b).bits = MaxUint
<1> DEFINE q == n \div ClocksPerRev
           p == n % ClocksPerRev
           numer == r + p * b
           bits == numer \div ClocksPerRev
           rest == numer % ClocksPerRev
<1>1. b \in Nat \ {0} /\ ClocksPerRev \in Nat \ {0} /\ MaxUint \in Nat
  BY RatioAssumption
<1>2. q \in Nat /\ p \in 0..(ClocksPerRev - 1) /\ n = ClocksPerRev * q + p
  BY <1>1, DivMod
<1>3. CASE q > MaxUint \div b
  BY <1>3 DEF Advance, Saturated
<1>4. CASE ~(q > MaxUint \div b)
  <2> HIDE DEF q, p
  <2>1. p * b \in Nat /\ q * b \in Nat /\ numer \in Nat /\ numer <= MaxUint
    BY <1>1, <1>2, PartialFits
  <2>2. bits \in Nat /\ rest \in 0..(ClocksPerRev - 1) /\ numer = ClocksPerRev * bits + rest
    BY <1>1, <2>1, DivMod
  <2>3. q * b <= MaxUint
    <3>1. MaxUint \div b \in Nat
      BY <1>1, DivMod
    <3>2. b * q <= MaxUint
      BY <1>1, <1>2, <1>4, <3>1, DivAtLeast
    <3> QED
      BY <1>1, <1>2, <3>2
  <2>4. /\ Wrap(r + Wrap(p * b)) = numer
        /\ numer \div ClocksPerRev = bits /\ Wrap(q * b) = q * b
    <3>1. p * b <= MaxUint
      BY <1>1, <2>1
    <3> QED
      BY <2>1, <2>3, <3>1, WrapSmall DEF bits
  <2> HIDE DEF bits, rest
  <2>5. MaxUint <= q * b + bits
    <3>1. n * b = ClocksPerRev * (q * b) + p * b
      BY <1>1, <1>2
    <3>2. ClocksPerRev * (q * b + bits) = ClocksPerRev * (q * b) + ClocksPerRev * bits
      BY <1>1, <2>1, <2>2
    <3>3. ClocksPerRev * MaxUint <= ClocksPerRev * (q * b + bits) + rest
      BY <1>1, <2>1, <2>2, <3>1, <3>2
    <3>4. q * b + bits \in Nat
      BY <2>1, <2>2
    <3> QED
      BY <1>1, <2>2, <3>3, <3>4, WholeAtLeast
  <2> HIDE DEF numer
  <2>6. CASE bits > MaxUint - q * b \/ p > (MaxUint - r) \div b
    BY <2>4, <2>6 DEF Advance, Saturated, q, p
  <2>7. CASE ~(bits > MaxUint - q * b) /\ ~(p > (MaxUint - r) \div b)
    <3>1. Wrap(q * b + bits) = MaxUint
      <4>1. q * b + bits = MaxUint
        BY <1>1, <2>1, <2>2, <2>5, <2>7
      <4> QED
        BY <1>1, <4>1, WrapSmall
    <3> QED
      BY <1>4, <2>4, <2>7, <3>1 DEF Advance, q, p
  <2> QED
    BY <2>6, <2>7
<1> QED
  BY <1>3, <1>4

\* More clocks never yield fewer bits, on either side of the saturation.
LEMMA AdvanceMonotonic ==
  ASSUME NEW b \in Rates, NEW r \in 0..(ClocksPerRev - 1),
         NEW m \in Nat, NEW n \in Nat, m <= n
  PROVE  Advance(r, m, b).bits <= Advance(r, n, b).bits
<1>1. b \in Nat \ {0} /\ ClocksPerRev \in Nat \ {0} /\ MaxUint \in Nat
  BY RatioAssumption
<1>2. m * b \in Nat /\ n * b \in Nat /\ m * b <= n * b
  <2>1. n * b = m * b + (n - m) * b /\ (n - m) * b \in Nat /\ m * b \in Nat
    BY <1>1
  <2> QED
    BY <2>1
<1> DEFINE few == Advance(r, m, b)
           many == Advance(r, n, b)
           full == ClocksPerRev * MaxUint
<1>3. /\ few.bits \in Nat /\ few.remainder \in 0..(ClocksPerRev - 1)
      /\ many.bits \in Nat /\ many.remainder \in 0..(ClocksPerRev - 1)
  BY AdvanceType
<1>4. full \in Nat
  BY <1>1
<1>5. CASE r + n * b <= full
  <2>1. r + m * b <= full
    BY <1>1, <1>2, <1>4, <1>5
  <2>2. /\ ClocksPerRev * few.bits + few.remainder = r + m * b
        /\ ClocksPerRev * many.bits + many.remainder = r + n * b
    BY <1>5, <2>1, AdvanceExact
  <2> HIDE DEF few, many
  <2>3. ClocksPerRev * few.bits <= ClocksPerRev * many.bits + many.remainder
    <3>1. ClocksPerRev * few.bits \in Nat
      BY <1>1, <1>3
    <3> QED
      BY <1>2, <1>3, <2>2, <3>1
  <2>4. few.bits <= many.bits
    BY <1>1, <1>3, <2>3, WholeAtLeast
  <2> QED
    BY <2>4 DEF few, many
<1>6. CASE ~(r + n * b <= full)
  <2>1. many.bits = MaxUint
    BY <1>2, <1>4, <1>6, AdvanceSaturates
  <2>2. few.bits <= MaxUint
    <3>1. CASE r + m * b <= full
      BY <3>1, AdvanceExact
    <3>2. CASE ~(r + m * b <= full)
      <4>1. few.bits = MaxUint
        BY <1>2, <1>4, <3>2, AdvanceSaturates
      <4> QED
        BY <1>1, <4>1
    <3> QED
      BY <3>1, <3>2
  <2> QED
    BY <2>1, <2>2
<1> QED
  BY <1>5, <1>6

-----------------------------------------------------------------------------
(* Deadlines.                                                                *)

\* ClocksUntilBits is a ceiling: due blocks suffice, one less does not.
LEMMA CeilingOfDeadline ==
  ASSUME NEW b \in Rates, NEW r \in 0..(ClocksPerRev - 1), NEW k \in 1..(2 * b)
  PROVE  /\ ClocksUntilBits(r, k, b) \in Nat \ {0}
         /\ k * ClocksPerRev <= r + ClocksUntilBits(r, k, b) * b
         /\ r + (ClocksUntilBits(r, k, b) - 1) * b < k * ClocksPerRev
<1> DEFINE missing == k * ClocksPerRev - r
           up == missing \div b + (IF missing % b # 0 THEN 1 ELSE 0)
<1>1. b \in Nat \ {0} /\ ClocksPerRev \in Nat \ {0} /\ MaxUint \in Nat
  BY RatioAssumption
<1>2. k * ClocksPerRev \in Nat /\ k * ClocksPerRev <= MaxUint
  <2>1. k * ClocksPerRev <= (3 * b + 1) * ClocksPerRev
    BY <1>1
  <2> QED
    BY <1>1, <2>1, WidthAssumption
<1>3. missing \in Nat \ {0}
  BY <1>1, <1>2
<1>4. ~(k > MaxUint \div ClocksPerRev)
  BY <1>1, <1>2, DivAtLeast, DivMod
<1>5. ClocksUntilBits(r, k, b) = up
  <2>1. Wrap(k * ClocksPerRev) = k * ClocksPerRev
    BY <1>2, WrapSmall
  <2> QED
    BY <1>1, <1>3, <1>4, <2>1 DEF ClocksUntilBits
<1>6. /\ missing \div b \in Nat /\ missing % b \in 0..(b - 1)
      /\ missing = b * (missing \div b) + (missing % b)
  BY <1>1, <1>3, DivMod
<1>7. up \in Nat \ {0} /\ missing <= up * b /\ (up - 1) * b < missing
  <2> DEFINE d == missing \div b
             m == missing % b
  <2>1. d \in Nat /\ m \in 0..(b - 1) /\ missing = b * d + m
    BY <1>6
  <2> HIDE DEF d, m, missing
  <2>2. CASE m = 0
    <3>1. d # 0 /\ (d - 1) * b = d * b - b /\ b * d = d * b
      BY <1>1, <1>3, <2>1, <2>2
    <3> QED
      BY <1>1, <1>3, <2>1, <2>2, <3>1 DEF d, m
  <2>3. CASE m # 0
    <3>1. (d + 1) * b = d * b + b /\ (d + 1) - 1 = d /\ b * d = d * b
      BY <1>1, <2>1
    <3> QED
      BY <1>1, <1>3, <2>1, <2>3, <3>1 DEF d, m
  <2> QED
    BY <2>2, <2>3
<1> HIDE DEF up
<1> QED
  BY <1>1, <1>2, <1>5, <1>7

LEMMA DeadlineHolds ==
  ASSUME NEW b \in Rates, NEW r \in 0..(ClocksPerRev - 1), NEW k \in 0..(2 * b)
  PROVE  LET due == ClocksUntilBits(r, k, b)
         IN /\ Advance(r, due, b).bits >= k
            /\ due > 0 => Advance(r, due - 1, b).bits < k
<1>1. b \in Nat \ {0} /\ ClocksPerRev \in Nat \ {0} /\ MaxUint \in Nat
  BY RatioAssumption
<1>2. CASE k = 0
  <2>1. ClocksUntilBits(r, 0, b) = 0
    BY DEF ClocksUntilBits
  <2>2. Advance(r, 0, b).bits \in Nat
    BY AdvanceType
  <2> QED
    BY <1>2, <2>1, <2>2
<1>3. CASE k # 0
  <2> DEFINE due == ClocksUntilBits(r, k, b)
  <2>1. k \in 1..(2 * b)
    BY <1>1, <1>3
  <2>2. /\ due \in Nat \ {0}
        /\ k * ClocksPerRev <= r + due * b
        /\ r + (due - 1) * b < k * ClocksPerRev
    BY <2>1, CeilingOfDeadline
  <2> HIDE DEF due
  <2>3. (due - 1) * b = due * b - b /\ due * b \in Nat /\ (due - 1) * b \in Nat
    BY <1>1, <2>2
  <2>4. k * ClocksPerRev + b <= ClocksPerRev * MaxUint
    <3>1. k * ClocksPerRev <= 2 * b * ClocksPerRev /\ b <= b * ClocksPerRev
      BY <1>1, <2>1
    <3>2. 2 * b * ClocksPerRev + b * ClocksPerRev <= (3 * b + 1) * ClocksPerRev
      BY <1>1
    <3>3. (3 * b + 1) * ClocksPerRev <= MaxUint
      BY WidthAssumption
    <3>4. MaxUint <= ClocksPerRev * MaxUint
      BY <1>1
    <3> QED
      BY <1>1, <2>1, <3>1, <3>2, <3>3, <3>4
  <2>5. r + due * b <= ClocksPerRev * MaxUint /\ r + (due - 1) * b <= ClocksPerRev * MaxUint
    <3>1. r + due * b < k * ClocksPerRev + b
      BY <1>1, <2>1, <2>2, <2>3
    <3> QED
      BY <1>1, <2>1, <2>2, <2>3, <2>4, <3>1
  <2>6. ASSUME NEW n \in {due, due - 1}
        PROVE  /\ Advance(r, n, b).bits \in Nat
               /\ Advance(r, n, b).remainder \in 0..(ClocksPerRev - 1)
               /\ ClocksPerRev * Advance(r, n, b).bits + Advance(r, n, b).remainder = r + n * b
    <3>1. n \in Nat /\ r + n * b <= ClocksPerRev * MaxUint
      BY <2>2, <2>5
    <3> QED
      BY <3>1, AdvanceType, AdvanceExact
  <2>7. ASSUME NEW n \in {due, due - 1}
        PROVE  k <= Advance(r, n, b).bits <=> ClocksPerRev * k <= r + n * b
    <3> DEFINE whole == Advance(r, n, b).bits
               rest == Advance(r, n, b).remainder
    <3>1. /\ whole \in Nat /\ rest \in 0..(ClocksPerRev - 1) /\ k \in Nat
          /\ ClocksPerRev * whole + rest = r + n * b
      BY <2>6
    <3> HIDE DEF whole, rest
    <3>2. k <= whole <=> ClocksPerRev * k <= ClocksPerRev * whole + rest
      BY <1>1, <3>1, WholeAtLeast
    <3> QED
      BY <3>1, <3>2 DEF whole
  <2>8. ClocksPerRev * k = k * ClocksPerRev
    BY <1>1
  <2>9. Advance(r, due, b).bits >= k
    BY <1>1, <2>2, <2>6, <2>7, <2>8
  <2>10. Advance(r, due - 1, b).bits < k
    <3>1. ~(ClocksPerRev * k <= r + (due - 1) * b)
      BY <1>1, <2>2, <2>3, <2>8
    <3> QED
      BY <2>6, <2>7, <3>1
  <2> QED
    BY <2>9, <2>10 DEF due
<1> QED
  BY <1>2, <1>3

-----------------------------------------------------------------------------
(* The theorems.                                                             *)

\* The remainder stays a proper fraction of a bit, whatever the blocks and the
\* changes of rate (FdcRotationClock::Advance, nec765RefreshRotationTiming).
THEOREM RotationTypeCorrect == Spec => []TypeOK
<1>1. Init => TypeOK
  BY RatioAssumption DEF Init, TypeOK
<1>2. TypeOK /\ [Next]_clockVars => TypeOK'
  <2> SUFFICES ASSUME TypeOK, [Next]_clockVars PROVE TypeOK'
    OBVIOUS
  <2> USE DEF TypeOK
  <2>1. ASSUME NEW n \in Blocks, Tick(n) PROVE TypeOK'
    <3> DEFINE a == Advance(remainder, n, bitsPerRev)
    <3>1. n \in Nat /\ bitsPerRev \in Nat /\ MaxUint \in Nat
      BY RatioAssumption
    <3>2. a.bits \in Nat /\ a.remainder \in 0..(ClocksPerRev - 1)
      BY <3>1, AdvanceType
    <3>3. Wrap(totalBits + a.bits) \in Nat
      BY <3>1, <3>2 DEF Wrap
    <3>4. numerator + n * bitsPerRev \in Nat
      BY <3>1
    <3> HIDE DEF a
    <3>5. totalBits' = Wrap(totalBits + a.bits) /\ remainder' = a.remainder
      BY <2>1 DEF Tick, a
    <3> QED
      BY <2>1, <3>2, <3>3, <3>4, <3>5 DEF Tick
  <2>2. ASSUME NEW b \in Rates, Refresh(b) PROVE TypeOK'
    BY <2>2 DEF Refresh
  <2>3. ASSUME NEW b \in Rates, Restart(b) PROVE TypeOK'
    BY <2>3, RatioAssumption DEF Restart
  <2>4. CASE UNCHANGED clockVars
    BY <2>4 DEF clockVars
  <2> QED
    BY <2>1, <2>2, <2>3, <2>4 DEF Next
<1> QED
  BY <1>1, <1>2, PTL DEF Spec

\* However time is cut into blocks, the bits counted and the fraction kept are
\* the exact position of the spindle, until the bit counter overflows.
THEOREM RotationNeverDrifts == Spec => []NoDrift
<1>1. Init => NoDrift
  BY RatioAssumption DEF Init, NoDrift
<1>2. TypeOK /\ NoDrift /\ [Next]_clockVars => NoDrift'
  <2> SUFFICES ASSUME TypeOK, NoDrift, [Next]_clockVars,
                      numerator' <= ClocksPerRev * MaxUint
               PROVE  ClocksPerRev * totalBits' + remainder' = numerator'
    BY DEF NoDrift
  <2>1. ASSUME NEW n \in Blocks, Tick(n)
        PROVE  ClocksPerRev * totalBits' + remainder' = numerator'
    <3> DEFINE a == Advance(remainder, n, bitsPerRev)
    <3>1. /\ n \in Nat /\ bitsPerRev \in Nat \ {0} /\ MaxUint \in Nat
          /\ ClocksPerRev \in Nat \ {0} /\ totalBits \in Nat /\ numerator \in Nat
          /\ remainder \in 0..(ClocksPerRev - 1) /\ n * bitsPerRev \in Nat
      BY RatioAssumption DEF TypeOK
    <3>2. numerator' = numerator + n * bitsPerRev
      BY <2>1 DEF Tick
    <3>3. ClocksPerRev * totalBits + remainder = numerator
      BY <3>1, <3>2 DEF NoDrift
    <3>4. remainder + n * bitsPerRev <= ClocksPerRev * MaxUint
      <4>1. ClocksPerRev * totalBits \in Nat
        BY <3>1
      <4> QED
        BY <3>1, <3>2, <3>3, <4>1
    <3>5. /\ a.bits \in Nat /\ a.remainder \in 0..(ClocksPerRev - 1)
          /\ ClocksPerRev * a.bits + a.remainder = remainder + n * bitsPerRev
      BY <3>1, <3>4, AdvanceType, AdvanceExact DEF TypeOK
    <3> HIDE DEF a
    <3>6. ClocksPerRev * (totalBits + a.bits) = ClocksPerRev * totalBits + ClocksPerRev * a.bits
      BY <3>1, <3>5
    <3>7. totalBits + a.bits <= MaxUint
      <4>1. ClocksPerRev * (totalBits + a.bits) <= ClocksPerRev * MaxUint
        BY <3>1, <3>2, <3>3, <3>5, <3>6
      <4> QED
        BY <3>1, <3>5, <4>1
    <3>8. totalBits' = totalBits + a.bits /\ remainder' = a.remainder
      BY <2>1, <3>1, <3>5, <3>7, WrapSmall DEF Tick, a
    <3> QED
      BY <3>1, <3>2, <3>3, <3>5, <3>6, <3>8
  <2>2. ASSUME NEW b \in Rates, Refresh(b)
        PROVE  ClocksPerRev * totalBits' + remainder' = numerator'
    BY <2>2 DEF Refresh, NoDrift
  <2>3. ASSUME NEW b \in Rates, Restart(b)
        PROVE  ClocksPerRev * totalBits' + remainder' = numerator'
    BY <2>3, RatioAssumption DEF Restart
  <2>4. CASE UNCHANGED clockVars
    BY <2>4 DEF clockVars, NoDrift
  <2> QED
    BY <2>1, <2>2, <2>3, <2>4 DEF Next
<1> QED
  BY <1>1, <1>2, RotationTypeCorrect, PTL DEF Spec

\* A deadline that nec765ClocksToNextEvent computes is neither early nor late.
THEOREM DeadlinesAreExact == Spec => []DeadlineExact
<1>1. TypeOK => DeadlineExact
  BY DeadlineHolds DEF TypeOK, DeadlineExact
<1> QED
  BY <1>1, RotationTypeCorrect, PTL

\* Saturation instead of wrapping: whatever the blocks and the changes of rate
\* were, a longer block never brings fewer bits under the head
\* (FdcRotationClock::Advance).
THEOREM RotationNeverRunsBackwards == Spec => []NeverBackwards
<1>1. TypeOK => NeverBackwards
  <2> SUFFICES ASSUME TypeOK, NEW m \in Blocks, NEW n \in Blocks, m <= n
               PROVE  Advance(remainder, m, bitsPerRev).bits
                        <= Advance(remainder, n, bitsPerRev).bits
    BY DEF NeverBackwards
  <2>1. m \in Nat /\ n \in Nat
    BY RatioAssumption
  <2> QED
    BY <2>1, AdvanceMonotonic DEF TypeOK
<1> QED
  BY <1>1, RotationTypeCorrect, PTL

=============================================================================
