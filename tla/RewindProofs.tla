----------------------------- MODULE RewindProofs -----------------------------
(***************************************************************************)
(* Theorems about Rewind, for any group size, window, memory limit and       *)
(* number of boots.                                                         *)
(*                                                                         *)
(* Sums of bytes and the decoding of a chain are functions defined by         *)
(* recursion; they are reasoned about by induction over sets of indices.      *)
(* Then each operation of the recorder is shown to keep Kept: the accounts    *)
(* agree with the groups (Accounted), every difference continues the capture  *)
(* before it and the ring ends in previous_raw (Linked, Chained), all are of  *)
(* one shape (Shaped), and the ring fits the window (InWindow); and what it    *)
(* does to Line, the captures that come out.  Last, every step of the         *)
(* program is one of seven moves, from which the theorems follow.             *)
(***************************************************************************)
EXTENDS Rewind, SequenceTheorems, WellFoundedInduction, TLAPS

-----------------------------------------------------------------------------
(* Numbers, and functions defined by recursion over them.                    *)

\* Every non-empty set of naturals has a least element.
LEMMA LeastNatural ==
  ASSUME NEW T \in SUBSET Nat, T # {}
  PROVE  \E x \in T : \A y \in T : x <= y
<1>1. PICK x \in T : \A y \in T : ~(<<y, x>> \in OpToRel(<, Nat))
  BY NatLessThanWellFounded, WFMin
<1>2. ASSUME NEW y \in T PROVE x <= y
  <2>1. <<y, x>> \in Nat \X Nat /\ <<y, x>>[1] = y /\ <<y, x>>[2] = x
    OBVIOUS
  <2>2. ~(y < x)
    BY <1>1, <2>1 DEF OpToRel
  <2> QED
    BY <2>2
<1> QED
  BY <1>2

LEMMA MinIsLeast ==
  ASSUME NEW T \in SUBSET Nat, T # {}
  PROVE  Min(T) \in T /\ \A y \in T : Min(T) <= y
<1>1. \E x \in T : \A y \in T : x <= y
  BY LeastNatural
<1> QED
  BY <1>1 DEF Min

LEMMA Induction ==
  ASSUME NEW n \in Nat, NEW T, 0 \in T, \A i \in 1..n : i - 1 \in T => i \in T
  PROVE  \A i \in 0..n : i \in T
<1> DEFINE F == (0..n) \ T
<1>1. SUFFICES ASSUME F # {} PROVE FALSE
  OBVIOUS
<1>2. PICK x \in F : \A y \in F : x <= y
  <2>1. F \in SUBSET Nat
    OBVIOUS
  <2> QED
    BY <1>1, <2>1, LeastNatural
<1>3. x \in 1..n /\ x - 1 \in 0..n /\ ~(x <= x - 1)
  BY <1>2
<1>4. x - 1 \in T
  BY <1>2, <1>3
<1> QED
  BY <1>2, <1>3, <1>4

\* A first value and a step determine a function on 0..n.
Follows(f, n, V, v, step) ==
  /\ f \in [0..n -> V] /\ f[0] = v
  /\ \A i \in 1..n : f[i] = step[<<i, f[i - 1]>>]

LEMMA RecursionExists ==
  ASSUME NEW n \in Nat, NEW V, NEW v \in V, NEW step \in [(1..n) \X V -> V]
  PROVE  \E f : Follows(f, n, V, v, step)
<1> DEFINE T == {m \in 0..n : \E f : Follows(f, m, V, v, step)}
<1>1. 0 \in T
  <2>1. Follows([i \in 0..0 |-> v], 0, V, v, step)
    BY DEF Follows
  <2> QED
    BY <2>1
<1>2. ASSUME NEW m \in 1..n, m - 1 \in T
      PROVE  m \in T
  <2>1. PICK f : Follows(f, m - 1, V, v, step)
    BY <1>2
  <2>2. /\ f \in [0..(m - 1) -> V] /\ f[0] = v
        /\ \A i \in 1..(m - 1) : f[i] = step[<<i, f[i - 1]>>]
    BY <2>1 DEF Follows
  <2>3. m - 1 \in 0..(m - 1) /\ f[m - 1] \in V
    BY <2>2
  <2>4. PICK w \in V : w = step[<<m, f[m - 1]>>]
    BY <2>3
  <2> DEFINE h == [i \in 0..m |-> IF i = m THEN w ELSE f[i]]
  <2>5. h \in [0..m -> V] /\ h[0] = v /\ h[m] = w
    BY <2>2, <2>4
  <2>6. \A i \in 0..(m - 1) : h[i] = f[i]
    OBVIOUS
  <2>7. ASSUME NEW i \in 1..m
        PROVE  h[i] = step[<<i, h[i - 1]>>]
    <3>1. i - 1 \in 0..(m - 1) /\ h[i - 1] = f[i - 1]
      BY <2>6
    <3>2. CASE i = m
      BY <2>4, <2>5, <3>1, <3>2
    <3>3. CASE i # m
      <4>1. i \in 1..(m - 1) /\ i \in 0..(m - 1)
        BY <3>3
      <4> QED
        BY <2>2, <2>6, <3>1, <4>1
    <3> QED
      BY <3>2, <3>3
  <2>8. Follows(h, m, V, v, step)
    <3> HIDE DEF h
    <3> QED
      BY <2>5, <2>7 DEF Follows
  <2> HIDE DEF h
  <2> QED
    BY <2>8
<1>3. \A i \in 0..n : i \in T
  <2> HIDE DEF T
  <2> QED
    BY <1>1, <1>2, Induction
<1> QED
  BY <1>3

\* Two functions with the same first value and the same step are one.
LEMMA RecursionUnique ==
  ASSUME NEW n \in Nat, NEW f, NEW h, f[0] = h[0],
         \A i \in 1..n : f[i - 1] = h[i - 1] => f[i] = h[i]
  PROVE  \A i \in 0..n : f[i] = h[i]
<1> DEFINE T == {i \in 0..n : f[i] = h[i]}
<1>1. 0 \in T /\ \A i \in 1..n : i - 1 \in T => i \in T
  OBVIOUS
<1>2. \A i \in 0..n : i \in T
  <2> HIDE DEF T
  <2> QED
    BY <1>1, Induction
<1> QED
  BY <1>2

-----------------------------------------------------------------------------
(* Sums.                                                                     *)

\* f adds up the amounts one by one.
Adds(f, a) ==
  /\ f \in [0..Len(a) -> Nat] /\ f[0] = 0
  /\ \A j \in 1..Len(a) : f[j] = f[j - 1] + a[j]

LEMMA SumsExist ==
  ASSUME NEW a \in Seq(Nat)
  PROVE  \E f : Adds(f, a) /\ Total(a) = f[Len(a)]
<1> DEFINE step == [x \in (1..Len(a)) \X Nat |-> x[2] + a[x[1]]]
<1>1. Len(a) \in Nat /\ \A j \in 1..Len(a) : a[j] \in Nat
  OBVIOUS
<1>2. step \in [(1..Len(a)) \X Nat -> Nat]
  BY <1>1
<1>3. PICK f : Follows(f, Len(a), Nat, 0, step)
  <2> HIDE DEF step
  <2> QED
    BY <1>1, <1>2, RecursionExists
<1>4. f \in [0..Len(a) -> Nat] /\ f[0] = 0 /\ \A i \in 1..Len(a) : f[i] = step[<<i, f[i - 1]>>]
  <2> HIDE DEF step
  <2> QED
    BY <1>3 DEF Follows
<1>5. ASSUME NEW i \in 1..Len(a)
      PROVE  f[i] = f[i - 1] + a[i]
  <2>1. i - 1 \in 0..Len(a) /\ f[i - 1] \in Nat
    <3>1. i - 1 \in 0..Len(a)
      BY <1>1
    <3> HIDE DEF step
    <3> QED
      BY <1>4, <3>1
  <2>2. <<i, f[i - 1]>> \in (1..Len(a)) \X Nat
    BY <2>1
  <2>3. step[<<i, f[i - 1]>>] = f[i - 1] + a[i]
    BY <2>2
  <2> QED
    BY <1>4, <2>3
<1> HIDE DEF step
<1>6. Adds(f, a)
  BY <1>4, <1>5 DEF Adds
<1>7. f = [j \in 0..Len(a) |-> IF j = 0 THEN 0 ELSE f[j - 1] + a[j]]
  <2>1. \A j \in 0..Len(a) : j # 0 => j \in 1..Len(a)
    BY <1>1
  <2> QED
    BY <1>4, <1>5, <2>1
<1> DEFINE Recursive(u) == u = [j \in 0..Len(a) |-> IF j = 0 THEN 0 ELSE u[j - 1] + a[j]]
<1> DEFINE u == CHOOSE u : Recursive(u)
<1>8. Recursive(u)
  BY <1>7
<1>9. Total(a) = u[Len(a)]
  BY DEF Total
<1>10. u[0] = f[0] /\ \A i \in 1..Len(a) : u[i - 1] = f[i - 1] => u[i] = f[i]
  <2>1. Len(a) \in Nat
    BY <1>1
  <2>2. \A j \in 0..Len(a) : u[j] = IF j = 0 THEN 0 ELSE u[j - 1] + a[j]
    <3> HIDE DEF u
    <3> QED
      BY <1>8
  <2>3. \A i \in 1..Len(a) : i \in 0..Len(a) /\ i # 0
    BY <2>1
  <2> HIDE DEF u
  <2>4. u[0] = f[0]
    BY <1>4, <2>1, <2>2
  <2>5. ASSUME NEW i \in 1..Len(a), u[i - 1] = f[i - 1] PROVE u[i] = f[i]
    <3>1. u[i] = u[i - 1] + a[i]
      BY <2>2, <2>3
    <3> QED
      BY <1>5, <2>5, <3>1
  <2> QED
    BY <2>4, <2>5
<1> HIDE DEF u
<1>11. u[Len(a)] = f[Len(a)]
  <2>1. \A i \in 0..Len(a) : u[i] = f[i]
    BY <1>1, <1>10, RecursionUnique
  <2> QED
    BY <1>1, <2>1
<1> QED
  BY <1>6, <1>9, <1>11

LEMMA SumsUnique ==
  ASSUME NEW a \in Seq(Nat), NEW f, Adds(f, a)
  PROVE  Total(a) = f[Len(a)] /\ Total(a) \in Nat
<1>1. PICK h : Adds(h, a) /\ Total(a) = h[Len(a)]
  BY SumsExist
<1>2. /\ Len(a) \in Nat /\ f[0] = h[0] /\ f \in [0..Len(a) -> Nat]
      /\ \A i \in 1..Len(a) : f[i - 1] = h[i - 1] => f[i] = h[i]
  <2>1. Len(a) \in Nat /\ f[0] = h[0] /\ f \in [0..Len(a) -> Nat]
    BY <1>1 DEF Adds
  <2>2. ASSUME NEW i \in 1..Len(a), f[i - 1] = h[i - 1] PROVE f[i] = h[i]
    <3>1. f[i] = f[i - 1] + a[i] /\ h[i] = h[i - 1] + a[i]
      BY <1>1 DEF Adds
    <3> QED
      BY <2>2, <3>1
  <2> QED
    BY <2>1, <2>2
<1>3. \A i \in 0..Len(a) : f[i] = h[i]
  BY <1>2, RecursionUnique
<1>4. Len(a) \in 0..Len(a)
  BY <1>2
<1> QED
  BY <1>1, <1>2, <1>3, <1>4

LEMMA TotalNothing == Total(<< >>) = 0
<1>1. << >> \in Seq(Nat) /\ Len(<< >>) = 0
  OBVIOUS
<1>2. Adds([i \in 0..0 |-> 0], << >>)
  BY <1>1 DEF Adds
<1> QED
  BY <1>1, <1>2, SumsUnique

\* One amount more.
LEMMA TotalAppend ==
  ASSUME NEW a \in Seq(Nat), NEW x \in Nat
  PROVE  Total(Append(a, x)) = Total(a) + x
<1>1. PICK f : Adds(f, a) /\ Total(a) = f[Len(a)]
  BY SumsExist
<1> DEFINE n == Len(a)
<1> DEFINE b == Append(a, x)
<1>2. /\ n \in Nat /\ b \in Seq(Nat) /\ Len(b) = n + 1 /\ b[n + 1] = x
      /\ \A j \in 1..n : b[j] = a[j]
  BY AppendProperties
<1>3. f \in [0..n -> Nat] /\ f[0] = 0 /\ \A j \in 1..n : f[j] = f[j - 1] + a[j]
  BY <1>1 DEF Adds
<1> HIDE DEF n, b
<1>4. n \in 0..n /\ f[n] \in Nat
  BY <1>2, <1>3
<1> DEFINE h == [j \in 0..(n + 1) |-> IF j = n + 1 THEN f[n] + x ELSE f[j]]
<1>5. h \in [0..(n + 1) -> Nat] /\ h[0] = 0 /\ h[n + 1] = f[n] + x
  BY <1>2, <1>3, <1>4
<1>6. \A j \in 0..n : h[j] = f[j]
  BY <1>2
<1> HIDE DEF h
<1>7. ASSUME NEW j \in 1..(n + 1)
      PROVE  h[j] = h[j - 1] + b[j]
  <2>1. j - 1 \in 0..n /\ h[j - 1] = f[j - 1]
    BY <1>2, <1>6
  <2>2. CASE j = n + 1
    BY <1>2, <1>5, <2>1, <2>2
  <2>3. CASE j # n + 1
    <3>1. j \in 1..n /\ j \in 0..n
      BY <1>2, <2>3
    <3> QED
      BY <1>2, <1>3, <1>6, <2>1, <3>1
  <2> QED
    BY <2>2, <2>3
<1>8. Adds(h, b)
  BY <1>2, <1>5, <1>7 DEF Adds
<1>9. Total(b) = h[n + 1]
  BY <1>2, <1>8, SumsUnique
<1> QED
  BY <1>1, <1>5, <1>9 DEF n, b

LEMMA SumsGrow ==
  ASSUME NEW a \in Seq(Nat), NEW f, Adds(f, a), NEW n \in 0..Len(a), NEW m \in 0..Len(a), n <= m
  PROVE  f[n] \in Nat /\ f[m] \in Nat /\ f[n] <= f[m]
<1>1. /\ Len(a) \in Nat /\ f \in [0..Len(a) -> Nat]
      /\ \A j \in 1..Len(a) : f[j] = f[j - 1] + a[j] /\ a[j] \in Nat
  BY DEF Adds
<1> DEFINE T == {i \in 0..(m - n) : f[n] <= f[n + i]}
<1>2. n \in Nat /\ m \in Nat /\ m - n \in Nat /\ f[n] \in Nat
  <2>1. n \in Nat /\ m \in Nat
    BY <1>1
  <2>2. m - n \in Nat
    BY <2>1
  <2>3. f[n] \in Nat
    BY <1>1
  <2> QED
    BY <2>1, <2>2, <2>3
<1>3. ASSUME NEW i \in 0..(m - n)
      PROVE  n + i \in 0..Len(a) /\ f[n + i] \in Nat
  <2>1. n + i \in 0..Len(a)
    BY <1>1, <1>2
  <2> QED
    BY <1>1, <2>1
<1>4. 0 \in T
  BY <1>2
<1>5. ASSUME NEW i \in 1..(m - n), i - 1 \in T
      PROVE  i \in T
  <2>1. n + i \in 1..Len(a) /\ n + i - 1 = n + (i - 1) /\ i \in 0..(m - n) /\ i - 1 \in 0..(m - n)
    BY <1>1, <1>2
  <2>2. f[n + i] = f[n + (i - 1)] + a[n + i] /\ a[n + i] \in Nat
    BY <1>1, <2>1
  <2>3. f[n + (i - 1)] \in Nat /\ f[n + i] \in Nat /\ f[n] <= f[n + (i - 1)]
    BY <1>3, <1>5, <2>1
  <2> QED
    BY <1>2, <2>1, <2>2, <2>3
<1>6. \A i \in 0..(m - n) : i \in T
  <2> HIDE DEF T
  <2> QED
    BY <1>2, <1>4, <1>5, Induction
<1>7. m - n \in 0..(m - n) /\ n + (m - n) = m
  BY <1>2
<1> QED
  BY <1>2, <1>3, <1>6, <1>7

\* The first of them, the others, and the next.
LEMMA TotalSplit ==
  ASSUME NEW a \in Seq(Nat), NEW f, Adds(f, a), NEW n \in 0..Len(a)
  PROVE  /\ Total(SubSeq(a, 1, n)) = f[n]
         /\ Total(SubSeq(a, n + 1, Len(a))) = f[Len(a)] - f[n]
         /\ f[n] \in Nat /\ f[n] <= f[Len(a)]
<1> DEFINE m == Len(a)
<1>1. /\ m \in Nat /\ f \in [0..m -> Nat] /\ f[0] = 0
      /\ \A j \in 1..m : f[j] = f[j - 1] + a[j] /\ a[j] \in Nat
  BY DEF Adds
<1>2. n \in 0..m
  OBVIOUS
<1> DEFINE p == SubSeq(a, 1, n)
<1> DEFINE q == SubSeq(a, n + 1, m)
<1>3. p \in Seq(Nat) /\ Len(p) = n /\ \A j \in 1..n : p[j] = a[j]
  BY <1>1
<1>4. q \in Seq(Nat) /\ Len(q) = m - n /\ \A j \in 1..(m - n) : q[j] = a[n + j]
  BY <1>1
<1> HIDE DEF m, p, q
<1>5. Total(p) = f[n]
  <2> DEFINE h == [j \in 0..n |-> f[j]]
  <2>1. h \in [0..n -> Nat] /\ h[0] = 0 /\ h[n] = f[n]
    BY <1>1, <1>2
  <2>2. \A j \in 1..n : h[j] = h[j - 1] + p[j]
    <3>1. \A j \in 1..n : j \in 1..m /\ j \in 0..n /\ j - 1 \in 0..n
      BY <1>1, <1>2
    <3>2. \A j \in 0..n : h[j] = f[j]
      OBVIOUS
    <3> HIDE DEF h
    <3> QED
      BY <1>1, <1>3, <3>1, <3>2
  <2> HIDE DEF h
  <2>3. Adds(h, p)
    BY <1>3, <2>1, <2>2 DEF Adds
  <2> QED
    BY <1>3, <2>1, <2>3, SumsUnique
<1>6. \A i \in 0..(m - n) : f[n + i] \in Nat /\ f[n] <= f[n + i]
  <2>1. \A i \in 0..(m - n) : n + i \in 0..Len(a) /\ n <= n + i
    BY <1>1, <1>2 DEF m
  <2> QED
    BY <2>1, SumsGrow
<1>7. Total(q) = f[m] - f[n]
  <2> DEFINE h == [j \in 0..(m - n) |-> f[n + j] - f[n]]
  <2>1. n \in Nat /\ f[n] \in Nat /\ m - n \in 0..(m - n) /\ n + (m - n) = m
    BY <1>1, <1>2
  <2>2. \A j \in 0..(m - n) : h[j] = f[n + j] - f[n] /\ h[j] \in Nat
    BY <1>6, <2>1
  <2>3. h \in [0..(m - n) -> Nat] /\ h[0] = 0 /\ h[m - n] = f[m] - f[n]
    BY <2>1, <2>2
  <2>4. ASSUME NEW j \in 1..(m - n)
        PROVE  h[j] = h[j - 1] + q[j]
    <3>1. /\ n + j \in 1..m /\ (n + j) - 1 = n + (j - 1)
          /\ j \in 0..(m - n) /\ j - 1 \in 0..(m - n)
      BY <1>1, <1>2
    <3>2. f[n + j] = f[n + (j - 1)] + a[n + j] /\ q[j] = a[n + j] /\ a[n + j] \in Nat
      BY <1>1, <1>4, <3>1
    <3>3. h[j] = f[n + j] - f[n] /\ h[j - 1] = f[n + (j - 1)] - f[n]
      BY <2>2, <3>1
    <3>4. f[n + (j - 1)] \in Nat
      BY <1>6, <3>1
    <3> HIDE DEF h
    <3> QED
      BY <2>1, <3>2, <3>3, <3>4
  <2> HIDE DEF h
  <2>5. Adds(h, q)
    BY <1>4, <2>3, <2>4 DEF Adds
  <2> QED
    BY <1>4, <2>3, <2>5, SumsUnique
<1>8. f[n] \in Nat /\ f[n] <= f[m]
  <2>1. m - n \in 0..(m - n) /\ n + (m - n) = m
    BY <1>1, <1>2
  <2> QED
    BY <1>1, <1>2, <1>6, <2>1
<1> QED
  BY <1>5, <1>7, <1>8 DEF m, p, q

\* Amounts no greater add up to no more, nor do fewer of them.
LEMMA TotalSmaller ==
  ASSUME NEW a \in Seq(Nat), NEW b \in Seq(Nat), Len(b) <= Len(a),
         \A j \in 1..Len(b) : b[j] <= a[j]
  PROVE  Total(b) <= Total(a)
<1>1. PICK f : Adds(f, a) /\ Total(a) = f[Len(a)]
  BY SumsExist
<1>2. PICK h : Adds(h, b) /\ Total(b) = h[Len(b)]
  BY SumsExist
<1> DEFINE n == Len(b)
<1>3. /\ n \in Nat /\ Len(a) \in Nat /\ n <= Len(a)
      /\ \A j \in 1..n : b[j] \in Nat /\ a[j] \in Nat /\ b[j] <= a[j]
  <2>1. n \in Nat /\ Len(a) \in Nat
    OBVIOUS
  <2>2. ASSUME NEW j \in 1..n PROVE b[j] \in Nat /\ a[j] \in Nat /\ b[j] <= a[j]
    <3>1. j \in 1..Len(a) /\ j \in 1..Len(b)
      BY <2>1
    <3> QED
      BY <3>1
  <2> QED
    BY <2>1, <2>2
<1>4. /\ f \in [0..Len(a) -> Nat] /\ f[0] = 0 /\ h \in [0..n -> Nat] /\ h[0] = 0
      /\ \A j \in 1..n : h[j] = h[j - 1] + b[j]
      /\ \A j \in 1..Len(a) : f[j] = f[j - 1] + a[j]
  BY <1>1, <1>2 DEF Adds
<1> HIDE DEF n
<1> DEFINE T == {j \in 0..n : h[j] <= f[j]}
<1>5. 0 \in T
  BY <1>3, <1>4
<1>6. ASSUME NEW j \in 1..n, j - 1 \in T
      PROVE  j \in T
  <2>1. j \in 0..n /\ j - 1 \in 0..n /\ j \in 1..Len(a) /\ j - 1 \in 0..Len(a)
    BY <1>3
  <2>2. h[j] = h[j - 1] + b[j] /\ f[j] = f[j - 1] + a[j] /\ h[j - 1] \in Nat /\ f[j - 1] \in Nat
    BY <1>4, <2>1
  <2>3. b[j] \in Nat /\ a[j] \in Nat /\ b[j] <= a[j] /\ h[j - 1] <= f[j - 1]
    BY <1>3, <1>6
  <2>4. PICK hj \in Nat, fj \in Nat, bj \in Nat, aj \in Nat :
          hj = h[j - 1] /\ fj = f[j - 1] /\ bj = b[j] /\ aj = a[j]
    BY <2>2, <2>3
  <2>5. hj <= fj /\ bj <= aj /\ h[j] = hj + bj /\ f[j] = fj + aj
    BY <2>2, <2>3, <2>4
  <2>6. h[j] <= f[j]
    BY <2>5
  <2> QED
    BY <2>1, <2>6
<1>7. \A j \in 0..n : j \in T
  <2> HIDE DEF T
  <2> QED
    BY <1>3, <1>5, <1>6, Induction
<1>8. h[n] <= f[n] /\ n \in 0..Len(a)
  BY <1>3, <1>7
<1>9. f[n] <= f[Len(a)] /\ f[n] \in Nat
  BY <1>1, <1>8, TotalSplit
<1>10. h[n] \in Nat /\ f[Len(a)] \in Nat
  <2>1. n \in 0..n /\ Len(a) \in 0..Len(a)
    BY <1>3
  <2> QED
    BY <1>4, <2>1
<1> QED
  BY <1>1, <1>2, <1>8, <1>9, <1>10 DEF n

-----------------------------------------------------------------------------
(* The ring.                                                                 *)

Media == {"rom", "sf7000"}
Modes == Media \cup {"none"}
Captures == [mode : Modes, device : Nat, past : Seq(Inputs)]
\* What a capture can hold: a machine that has run a frame.
Moments == {c \in Captures : c.mode \in Media /\ c.past # << >>}
Frame == [keyframe : BOOLEAN, from : Captures, to : Moments]
Group == [frames : Seq(Frame), bytes : Nat]
Recorders ==
  [enabled : BOOLEAN, seconds : Seconds, frames_per_snapshot : Strides,
   memory_limit : MemoryLimits, groups : Seq(Group), bytes : Nat, count : Nat,
   frame_accum : Nat, seek_position : Int, previous_raw : Captures, raw_size : Modes,
   device : Nat, missed : BOOLEAN, memory_limited : BOOLEAN, gap : BOOLEAN]

Sizes(frames) == [i \in DOMAIN frames |-> Size(frames[i])]
Lengths(groups) == [j \in DOMAIN groups |-> Len(groups[j].frames)]
Weights(groups) == [j \in DOMAIN groups |-> groups[j].bytes]

LEMMA SumsNamed ==
  ASSUME NEW q
  PROVE  BytesOf(q) = Total(Sizes(q)) /\ FramesIn(q) = Total(Lengths(q)) /\ BytesIn(q) = Total(Weights(q))
BY DEF BytesOf, FramesIn, BytesIn, Sizes, Lengths, Weights

LEMMA SizesType ==
  ASSUME NEW q \in Seq(Frame)
  PROVE  Sizes(q) \in Seq(Nat) /\ Len(Sizes(q)) = Len(q)
<1>1. DOMAIN q = 1..Len(q) /\ Len(q) \in Nat
  OBVIOUS
<1>2. \A i \in 1..Len(q) : Size(q[i]) \in Nat
  BY RewindAssumption DEF Size
<1> QED
  BY <1>1, <1>2 DEF Sizes

LEMMA AmountsType ==
  ASSUME NEW gs \in Seq(Group)
  PROVE  /\ Lengths(gs) \in Seq(Nat) /\ Len(Lengths(gs)) = Len(gs)
         /\ Weights(gs) \in Seq(Nat) /\ Len(Weights(gs)) = Len(gs)
<1>1. DOMAIN gs = 1..Len(gs) /\ Len(gs) \in Nat
  OBVIOUS
<1>2. \A j \in 1..Len(gs) : gs[j].frames \in Seq(Frame) /\ gs[j].bytes \in Nat
  <2>1. \A j \in 1..Len(gs) : gs[j] \in Group
    OBVIOUS
  <2> QED
    BY <2>1 DEF Group
<1>3. \A j \in 1..Len(gs) : Len(gs[j].frames) \in Nat
  BY <1>2
<1>4. Lengths(gs) \in Seq(Nat) /\ Len(Lengths(gs)) = Len(gs)
  BY <1>1, <1>3 DEF Lengths
<1>5. Weights(gs) \in Seq(Nat) /\ Len(Weights(gs)) = Len(gs)
  BY <1>1, <1>2 DEF Weights
<1> QED
  BY <1>4, <1>5

LEMMA SizesAppend ==
  ASSUME NEW q \in Seq(Frame), NEW f \in Frame
  PROVE  BytesOf(Append(q, f)) = BytesOf(q) + Size(f) /\ Size(f) \in Nat
<1> DEFINE b == Append(q, f)
<1>1. /\ b \in Seq(Frame) /\ Len(b) = Len(q) + 1 /\ b[Len(q) + 1] = f /\ Len(q) \in Nat
      /\ \A i \in 1..Len(q) : b[i] = q[i]
  BY AppendProperties
<1>2. Size(f) \in Nat
  BY RewindAssumption DEF Size
<1> HIDE DEF b
<1> DEFINE c == Append(Sizes(q), Size(f))
<1>3. /\ Sizes(q) \in Seq(Nat) /\ Len(Sizes(q)) = Len(q)
      /\ \A i \in 1..Len(q) : Sizes(q)[i] = Size(q[i])
  BY SizesType DEF Sizes
<1>4. /\ c \in Seq(Nat) /\ Len(c) = Len(q) + 1 /\ c[Len(q) + 1] = Size(f)
      /\ \A i \in 1..Len(q) : c[i] = Size(q[i])
  BY <1>2, <1>3, AppendProperties
<1>5. /\ Sizes(b) \in Seq(Nat) /\ Len(Sizes(b)) = Len(q) + 1
      /\ \A i \in 1..(Len(q) + 1) : Sizes(b)[i] = Size(b[i])
  <2>1. Sizes(b) \in Seq(Nat) /\ Len(Sizes(b)) = Len(q) + 1
    BY <1>1, SizesType
  <2>2. DOMAIN b = 1..(Len(q) + 1)
    BY <1>1
  <2> QED
    BY <2>1, <2>2 DEF Sizes
<1>6. Sizes(b) = c
  <2>1. ASSUME NEW i \in 1..(Len(q) + 1)
        PROVE  Sizes(b)[i] = c[i]
    <3>1. CASE i = Len(q) + 1
      BY <1>1, <1>4, <1>5, <3>1
    <3>2. CASE i # Len(q) + 1
      <4>1. i \in 1..Len(q)
        BY <1>1, <3>2
      <4> QED
        BY <1>1, <1>4, <1>5, <4>1
    <3> QED
      BY <3>1, <3>2
  <2> HIDE DEF c
  <2> QED
    BY <1>4, <1>5, <2>1
<1>7. Total(c) = Total(Sizes(q)) + Size(f)
  BY <1>2, <1>3, TotalAppend
<1> QED
  BY <1>2, <1>6, <1>7, SumsNamed DEF b

LEMMA AmountsAppend ==
  ASSUME NEW gs \in Seq(Group), NEW x \in Group
  PROVE  /\ FramesIn(Append(gs, x)) = FramesIn(gs) + Len(x.frames)
         /\ BytesIn(Append(gs, x)) = BytesIn(gs) + x.bytes
<1> DEFINE n == Len(gs)
<1> DEFINE b == Append(gs, x)
<1>1. /\ b \in Seq(Group) /\ Len(b) = n + 1 /\ b[n + 1] = x /\ n \in Nat
      /\ \A i \in 1..n : b[i] = gs[i]
  BY AppendProperties
<1>2. Len(x.frames) \in Nat /\ x.bytes \in Nat
  <2>1. x.frames \in Seq(Frame) /\ x.bytes \in Nat
    BY DEF Group
  <2> QED
    BY <2>1
<1>3. /\ Lengths(gs) \in Seq(Nat) /\ Weights(gs) \in Seq(Nat)
      /\ Len(Lengths(gs)) = n /\ Len(Weights(gs)) = n
      /\ Lengths(b) \in Seq(Nat) /\ Weights(b) \in Seq(Nat)
      /\ Len(Lengths(b)) = n + 1 /\ Len(Weights(b)) = n + 1
  BY <1>1, AmountsType
<1>4. /\ \A i \in 1..n : Lengths(gs)[i] = Len(gs[i].frames) /\ Weights(gs)[i] = gs[i].bytes
      /\ \A i \in 1..(n + 1) : Lengths(b)[i] = Len(b[i].frames) /\ Weights(b)[i] = b[i].bytes
  BY <1>1 DEF Lengths, Weights
<1> HIDE DEF n, b
<1> DEFINE c == Append(Lengths(gs), Len(x.frames))
<1> DEFINE d == Append(Weights(gs), x.bytes)
<1>5. /\ c \in Seq(Nat) /\ Len(c) = n + 1 /\ c[n + 1] = Len(x.frames)
      /\ \A i \in 1..n : c[i] = Lengths(gs)[i]
  BY <1>2, <1>3, AppendProperties
<1>6. /\ d \in Seq(Nat) /\ Len(d) = n + 1 /\ d[n + 1] = x.bytes
      /\ \A i \in 1..n : d[i] = Weights(gs)[i]
  BY <1>2, <1>3, AppendProperties
<1>7. Total(c) = Total(Lengths(gs)) + Len(x.frames) /\ Total(d) = Total(Weights(gs)) + x.bytes
  BY <1>2, <1>3, TotalAppend
<1> HIDE DEF c, d
<1>8. ASSUME NEW i \in 1..(n + 1)
      PROVE  Lengths(b)[i] = c[i] /\ Weights(b)[i] = d[i]
  <2>1. CASE i = n + 1
    BY <1>1, <1>4, <1>5, <1>6, <2>1
  <2>2. CASE i # n + 1
    <3>1. i \in 1..n
      BY <1>1, <2>2
    <3>2. Lengths(b)[i] = Len(gs[i].frames) /\ Weights(b)[i] = gs[i].bytes
      BY <1>1, <1>4, <3>1
    <3>3. c[i] = Len(gs[i].frames)
      BY <1>4, <1>5, <3>1
    <3>4. d[i] = gs[i].bytes
      BY <1>4, <1>6, <3>1
    <3> QED
      BY <3>2, <3>3, <3>4
  <2> QED
    BY <2>1, <2>2
<1>9. Lengths(b) = c
  BY <1>3, <1>5, <1>8
<1>10. Weights(b) = d
  BY <1>3, <1>6, <1>8
<1> QED
  BY <1>7, <1>9, <1>10, SumsNamed DEF b

LEMMA PartOf ==
  ASSUME NEW S, NEW q \in Seq(S), NEW a \in 1..(Len(q) + 1), NEW b \in 0..Len(q), a <= b + 1
  PROVE  /\ SubSeq(q, a, b) \in Seq(S) /\ Len(SubSeq(q, a, b)) = b - a + 1
         /\ \A i \in 1..(b - a + 1) : SubSeq(q, a, b)[i] = q[a + i - 1] /\ a + i - 1 \in 1..Len(q)
         /\ Len(q) \in Nat
OBVIOUS

LEMMA AmountsPart ==
  ASSUME NEW gs \in Seq(Group), NEW a \in 1..(Len(gs) + 1), NEW b \in 0..Len(gs), a <= b + 1
  PROVE  /\ Lengths(SubSeq(gs, a, b)) = SubSeq(Lengths(gs), a, b)
         /\ Weights(SubSeq(gs, a, b)) = SubSeq(Weights(gs), a, b)
<1> DEFINE p == SubSeq(gs, a, b)
<1> DEFINE n == b - a + 1
<1>1. /\ p \in Seq(Group) /\ Len(p) = n /\ n \in Nat
      /\ \A i \in 1..n : p[i] = gs[a + i - 1] /\ a + i - 1 \in 1..Len(gs)
  BY PartOf
<1>2. /\ Lengths(gs) \in Seq(Nat) /\ Len(Lengths(gs)) = Len(gs)
      /\ Weights(gs) \in Seq(Nat) /\ Len(Weights(gs)) = Len(gs)
  BY AmountsType
<1> DEFINE c == SubSeq(Lengths(gs), a, b)
<1> DEFINE d == SubSeq(Weights(gs), a, b)
<1>3. c \in Seq(Nat) /\ Len(c) = n /\ \A i \in 1..n : c[i] = Lengths(gs)[a + i - 1]
  BY <1>2, PartOf
<1>4. d \in Seq(Nat) /\ Len(d) = n /\ \A i \in 1..n : d[i] = Weights(gs)[a + i - 1]
  BY <1>2, PartOf
<1> HIDE DEF p, n, c, d
<1>5. /\ Lengths(p) \in Seq(Nat) /\ Len(Lengths(p)) = n
      /\ Weights(p) \in Seq(Nat) /\ Len(Weights(p)) = n
  BY <1>1, AmountsType
<1>6. /\ \A i \in 1..n : Lengths(p)[i] = Len(p[i].frames) /\ Weights(p)[i] = p[i].bytes
      /\ \A i \in 1..Len(gs) : Lengths(gs)[i] = Len(gs[i].frames) /\ Weights(gs)[i] = gs[i].bytes
  <2>1. DOMAIN p = 1..n /\ DOMAIN gs = 1..Len(gs)
    BY <1>1
  <2> QED
    BY <2>1 DEF Lengths, Weights
<1>7. ASSUME NEW i \in 1..n
      PROVE  Lengths(p)[i] = c[i] /\ Weights(p)[i] = d[i]
  <2>1. p[i] = gs[a + i - 1] /\ a + i - 1 \in 1..Len(gs)
    BY <1>1
  <2>2. Lengths(p)[i] = Len(gs[a + i - 1].frames) /\ Weights(p)[i] = gs[a + i - 1].bytes
    BY <1>6, <2>1
  <2>3. c[i] = Len(gs[a + i - 1].frames)
    BY <1>3, <1>6, <2>1
  <2>4. d[i] = gs[a + i - 1].bytes
    BY <1>4, <1>6, <2>1
  <2> QED
    BY <2>2, <2>3, <2>4
<1>8. Lengths(p) = c
  BY <1>3, <1>5, <1>7
<1>9. Weights(p) = d
  BY <1>4, <1>5, <1>7
<1> QED
  BY <1>8, <1>9 DEF p, c, d

LEMMA SizesPart ==
  ASSUME NEW q \in Seq(Frame), NEW b \in 0..Len(q)
  PROVE  Sizes(SubSeq(q, 1, b)) = SubSeq(Sizes(q), 1, b)
<1> DEFINE p == SubSeq(q, 1, b)
<1> DEFINE c == SubSeq(Sizes(q), 1, b)
<1>1. p \in Seq(Frame) /\ Len(p) = b /\ b \in Nat /\ \A i \in 1..b : p[i] = q[i] /\ i \in 1..Len(q)
  BY PartOf
<1>2. Sizes(q) \in Seq(Nat) /\ Len(Sizes(q)) = Len(q)
  BY SizesType
<1>3. c \in Seq(Nat) /\ Len(c) = b /\ \A i \in 1..b : c[i] = Sizes(q)[i]
  BY <1>2, PartOf
<1> HIDE DEF p, c
<1>4. Sizes(p) \in Seq(Nat) /\ Len(Sizes(p)) = b
  BY <1>1, SizesType
<1>5. /\ \A i \in 1..b : Sizes(p)[i] = Size(p[i])
      /\ \A i \in 1..Len(q) : Sizes(q)[i] = Size(q[i])
  <2>1. DOMAIN p = 1..b /\ DOMAIN q = 1..Len(q)
    BY <1>1
  <2> QED
    BY <2>1 DEF Sizes
<1>6. Sizes(p) = c
  BY <1>1, <1>3, <1>4, <1>5
<1> QED
  BY <1>6 DEF p, c

\* What the oldest groups hold, and what is left without them.
LEMMA OldestOut ==
  ASSUME NEW gs \in Seq(Group), NEW n \in 0..Len(gs)
  PROVE  /\ FramesIn(gs) \in Nat /\ FramesIn(FirstGroups(gs, n)) \in Nat
         /\ FramesIn(SubSeq(gs, n + 1, Len(gs))) \in Nat
         /\ FramesIn(SubSeq(gs, n + 1, Len(gs))) = FramesIn(gs) - FramesIn(FirstGroups(gs, n))
         /\ BytesIn(gs) \in Nat /\ BytesIn(FirstGroups(gs, n)) \in Nat
         /\ BytesIn(SubSeq(gs, n + 1, Len(gs))) \in Nat
         /\ BytesIn(SubSeq(gs, n + 1, Len(gs))) = BytesIn(gs) - BytesIn(FirstGroups(gs, n))
<1> DEFINE m == Len(gs)
<1> DEFINE rest == SubSeq(gs, n + 1, m)
<1> DEFINE first == SubSeq(gs, 1, n)
<1>1. m \in Nat /\ n \in 0..m /\ n + 1 \in 1..(m + 1) /\ 1 \in 1..(m + 1) /\ m \in 0..m
  OBVIOUS
<1>2. /\ Lengths(gs) \in Seq(Nat) /\ Len(Lengths(gs)) = m
      /\ Weights(gs) \in Seq(Nat) /\ Len(Weights(gs)) = m
  BY AmountsType
<1>3. /\ Lengths(rest) = SubSeq(Lengths(gs), n + 1, m) /\ Weights(rest) = SubSeq(Weights(gs), n + 1, m)
      /\ Lengths(first) = SubSeq(Lengths(gs), 1, n) /\ Weights(first) = SubSeq(Weights(gs), 1, n)
  <2>1. n + 1 \in 1..(Len(gs) + 1) /\ Len(gs) \in 0..Len(gs) /\ n + 1 <= Len(gs) + 1
    BY <1>1
  <2>2. 1 \in 1..(Len(gs) + 1) /\ n \in 0..Len(gs) /\ 1 <= n + 1
    BY <1>1
  <2>3. Lengths(rest) = SubSeq(Lengths(gs), n + 1, m) /\ Weights(rest) = SubSeq(Weights(gs), n + 1, m)
    BY <2>1, AmountsPart
  <2>4. Lengths(first) = SubSeq(Lengths(gs), 1, n) /\ Weights(first) = SubSeq(Weights(gs), 1, n)
    BY <2>2, AmountsPart
  <2> QED
    BY <2>3, <2>4
<1> HIDE DEF m, rest, first
<1>4. PICK f : Adds(f, Lengths(gs)) /\ Total(Lengths(gs)) = f[m]
  BY <1>2, SumsExist
<1>5. PICK h : Adds(h, Weights(gs)) /\ Total(Weights(gs)) = h[m]
  BY <1>2, SumsExist
<1>6. /\ Total(Lengths(first)) = f[n] /\ Total(Lengths(rest)) = f[m] - f[n]
      /\ f[n] \in Nat /\ f[n] <= f[m]
  BY <1>1, <1>2, <1>3, <1>4, TotalSplit
<1>7. /\ Total(Weights(first)) = h[n] /\ Total(Weights(rest)) = h[m] - h[n]
      /\ h[n] \in Nat /\ h[n] <= h[m]
  BY <1>1, <1>2, <1>3, <1>5, TotalSplit
<1>8. f[m] \in Nat /\ h[m] \in Nat
  BY <1>2, <1>4, <1>5, SumsUnique
<1> QED
  BY <1>4, <1>5, <1>6, <1>7, <1>8, SumsNamed DEF m, rest, first, FirstGroups

\* The groups are whole and their bytes counted.
Ring(groups) ==
  /\ groups \in Seq(Group)
  /\ \A j \in 1..Len(groups) :
       /\ Len(groups[j].frames) \in 1..FramesPerGroup
       /\ groups[j].bytes = BytesOf(groups[j].frames)

\* The counters say what the groups hold.
Accounted(r) ==
  /\ r \in Recorders /\ Ring(r.groups)
  /\ r.count = FramesIn(r.groups) /\ r.bytes = BytesIn(r.groups)

LEMMA WithoutOldestAccounted ==
  ASSUME NEW r, Accounted(r), NEW n \in 0..Len(r.groups)
  PROVE  LET x == WithoutOldest(r, n) IN
         /\ Accounted(x) /\ x.groups = SubSeq(r.groups, n + 1, Len(r.groups))
         /\ Len(x.groups) = Len(r.groups) - n
         /\ x.count <= r.count /\ x.bytes <= r.bytes
         /\ x = [r EXCEPT !.groups = x.groups, !.bytes = x.bytes, !.count = x.count]
<1> DEFINE gs == r.groups
<1> DEFINE rest == SubSeq(gs, n + 1, Len(gs))
<1>1. r \in Recorders /\ gs \in Seq(Group) /\ Ring(gs) /\ r.count = FramesIn(gs) /\ r.bytes = BytesIn(gs)
  BY DEF Accounted, Ring
<1>2. n + 1 \in 1..(Len(gs) + 1) /\ Len(gs) \in 0..Len(gs) /\ n + 1 <= Len(gs) + 1 /\ n \in 0..Len(gs)
  BY <1>1
<1>3. /\ rest \in Seq(Group) /\ Len(rest) = Len(gs) - n
      /\ \A i \in 1..(Len(gs) - n) : rest[i] = gs[n + i] /\ n + i \in 1..Len(gs)
  <2>1. /\ rest \in Seq(Group) /\ Len(rest) = Len(gs) - (n + 1) + 1
        /\ \A i \in 1..(Len(gs) - (n + 1) + 1) : rest[i] = gs[(n + 1) + i - 1] /\ (n + 1) + i - 1 \in 1..Len(gs)
    BY <1>1, <1>2, PartOf
  <2>2. Len(gs) \in Nat /\ Len(gs) - (n + 1) + 1 = Len(gs) - n /\ \A i \in Int : (n + 1) + i - 1 = n + i
    BY <1>1, <1>2
  <2> QED
    BY <2>1, <2>2
<1>4. Ring(rest)
  BY <1>1, <1>3 DEF Ring
<1> DEFINE first == FirstGroups(gs, n)
<1>5. /\ FramesIn(gs) \in Nat /\ FramesIn(first) \in Nat /\ FramesIn(rest) \in Nat
      /\ FramesIn(rest) = FramesIn(gs) - FramesIn(first)
      /\ BytesIn(gs) \in Nat /\ BytesIn(first) \in Nat /\ BytesIn(rest) \in Nat
      /\ BytesIn(rest) = BytesIn(gs) - BytesIn(first)
  BY <1>1, <1>2, OldestOut
<1> HIDE DEF first, rest, gs
<1>6. PICK c \in Nat : c = FramesIn(rest) /\ c = r.count - FramesIn(first) /\ c <= r.count
  BY <1>1, <1>5
<1>7. PICK b \in Nat : b = BytesIn(rest) /\ b = r.bytes - BytesIn(first) /\ b <= r.bytes
  BY <1>1, <1>5
<1> DEFINE x == WithoutOldest(r, n)
<1>8. x = [r EXCEPT !.groups = rest, !.bytes = b, !.count = c]
  BY <1>6, <1>7 DEF WithoutOldest, gs, rest, first
<1> HIDE DEF x
<1>9. x \in Recorders /\ x.groups = rest /\ x.count = c /\ x.bytes = b
  BY <1>1, <1>3, <1>8 DEF Recorders
<1> QED
  BY <1>3, <1>4, <1>6, <1>7, <1>8, <1>9 DEF Accounted, gs, rest, x

\* What Trim may drop for the window, and then for the memory limit.
Windows(r) ==
  {n \in 0..Len(r.groups) :
    LET left == WithoutOldest(r, n)
    IN Len(left.groups) <= 1 \/ left.count - Len(left.groups[1].frames) < TargetCapacity(left) + 1}
Fits(r) ==
  {n \in 0..Len(r.groups) :
    LET left == WithoutOldest(r, n) IN Len(left.groups) <= 1 \/ left.bytes <= left.memory_limit}

LEMMA TrimSteps ==
  ASSUME NEW r
  PROVE  LET windowed == WithoutOldest(r, Min(Windows(r)))
             fitted == WithoutOldest(windowed, Min(Fits(windowed)))
         IN Trim(r) = [fitted EXCEPT !.memory_limited = @ \/ fitted.groups # windowed.groups]
BY DEF Trim, DropUntil, Windows, Fits

LEMMA TargetType ==
  ASSUME NEW r \in Recorders
  PROVE  TargetCapacity(r) \in Nat \ {0}
<1>1. r.seconds \in Nat \ {0} /\ r.frames_per_snapshot \in Nat \ {0} /\ Fps \in Nat \ {0}
  BY RewindAssumption DEF Recorders
<1>2. PICK a \in Nat : a = r.seconds * Fps
  BY <1>1
<1>3. (a + r.frames_per_snapshot - 1) \div r.frames_per_snapshot \in Nat
  BY <1>1
<1> QED
  BY <1>2, <1>3 DEF TargetCapacity, CeilDiv

\* A ring of at most one group is no larger than a group.
LEMMA LastGroupOnly ==
  ASSUME NEW groups, Ring(groups), Len(groups) <= 1
  PROVE  /\ FramesIn(groups) <= FramesPerGroup
         /\ Len(groups) = 0 => FramesIn(groups) = 0 /\ BytesIn(groups) = 0
<1>1. groups \in Seq(Group) /\ FramesPerGroup \in Nat
  BY RewindAssumption DEF Ring
<1>2. FramesIn(<< >>) = 0 /\ BytesIn(<< >>) = 0
  <2>1. Lengths(<< >>) = << >> /\ Weights(<< >>) = << >>
    BY DEF Lengths, Weights
  <2> QED
    BY <2>1, TotalNothing, SumsNamed
<1>3. CASE Len(groups) = 0
  <2>1. groups = << >>
    BY <1>1, <1>3
  <2> QED
    BY <1>1, <1>2, <2>1
<1>4. CASE Len(groups) = 1
  <2>1. groups = Append(<< >>, groups[1]) /\ groups[1] \in Group /\ << >> \in Seq(Group)
    BY <1>1, <1>4
  <2>2. FramesIn(groups) = 0 + Len(groups[1].frames)
    BY <1>2, <2>1, AmountsAppend
  <2>3. Len(groups[1].frames) \in 1..FramesPerGroup
    BY <1>4 DEF Ring
  <2> QED
    BY <1>1, <1>4, <2>2, <2>3
<1>5. Len(groups) = 0 \/ Len(groups) = 1
  <2>1. PICK n \in Nat : n = Len(groups)
    BY <1>1
  <2>2. n <= 1
    BY <2>1
  <2>3. n = 0 \/ n = 1
    BY <2>2
  <2> QED
    BY <2>1, <2>3
<1> QED
  BY <1>3, <1>4, <1>5

\* What a trimmed recorder is: the same without some of the oldest groups, the
\* newest kept.
Newer(x, r) ==
  /\ Accounted(x)
  /\ \E n \in 0..Len(r.groups) :
       /\ r.groups # << >> => n < Len(r.groups)
       /\ x.groups = SubSeq(r.groups, n + 1, Len(r.groups))
  /\ x.count <= r.count /\ x.bytes <= r.bytes
  /\ x = [r EXCEPT !.groups = x.groups, !.bytes = x.bytes, !.count = x.count,
                    !.memory_limited = x.memory_limited]

LEMMA WindowsDropped ==
  ASSUME NEW r, Accounted(r)
  PROVE  LET x == WithoutOldest(r, Min(Windows(r))) IN
         Newer(x, r) /\ x.count <= TargetCapacity(r) + FramesPerGroup
<1> DEFINE T == Windows(r)
<1>1. r \in Recorders /\ r.groups \in Seq(Group)
  BY DEF Accounted, Ring
<1> DEFINE one == IF r.groups = << >> THEN 0 ELSE Len(r.groups) - 1
<1>2. one \in 0..Len(r.groups) /\ Len(r.groups) - one <= 1 /\ (r.groups # << >> => one < Len(r.groups))
  BY <1>1
<1> HIDE DEF one
<1>3. one \in T
  <2>1. Len(WithoutOldest(r, one).groups) = Len(r.groups) - one
    BY <1>2, WithoutOldestAccounted
  <2> QED
    BY <1>2, <2>1 DEF Windows
<1>4. T \in SUBSET Nat
  BY DEF Windows
<1> HIDE DEF T
<1>5. PICK n \in T : n = Min(T) /\ n <= one
  BY <1>3, <1>4, MinIsLeast
<1>6. n \in 0..Len(r.groups) /\ (r.groups # << >> => n < Len(r.groups))
  <2>1. n \in 0..Len(r.groups)
    BY <1>5 DEF T, Windows
  <2> QED
    BY <1>1, <1>2, <1>5, <2>1
<1> DEFINE x == WithoutOldest(r, n)
<1>7. Len(x.groups) <= 1 \/ x.count - Len(x.groups[1].frames) < TargetCapacity(x) + 1
  BY <1>5 DEF T, Windows
<1>8. /\ Accounted(x) /\ x.groups = SubSeq(r.groups, n + 1, Len(r.groups))
      /\ x.count <= r.count /\ x.bytes <= r.bytes
      /\ x = [r EXCEPT !.groups = x.groups, !.bytes = x.bytes, !.count = x.count]
  BY <1>6, WithoutOldestAccounted
<1> HIDE DEF x
<1>9. x.seconds = r.seconds /\ x.frames_per_snapshot = r.frames_per_snapshot /\ x.memory_limited = r.memory_limited
  BY <1>1, <1>8 DEF Recorders
<1>10. TargetCapacity(x) = TargetCapacity(r) /\ TargetCapacity(r) \in Nat
  BY <1>1, <1>9, TargetType DEF TargetCapacity
<1>11. x.count <= TargetCapacity(r) + FramesPerGroup
  <2>1. x \in Recorders /\ Ring(x.groups) /\ x.count = FramesIn(x.groups) /\ x.count \in Nat
    BY <1>8 DEF Accounted, Recorders
  <2>2. FramesPerGroup \in Nat
    BY RewindAssumption
  <2>3. CASE Len(x.groups) <= 1
    BY <1>10, <2>1, <2>2, <2>3, LastGroupOnly
  <2>4. CASE ~(Len(x.groups) <= 1)
    <3>1. 1 \in 1..Len(x.groups)
      BY <2>1, <2>4 DEF Ring
    <3>2. Len(x.groups[1].frames) \in 1..FramesPerGroup
      BY <2>1, <3>1 DEF Ring
    <3> QED
      BY <1>7, <1>10, <2>1, <2>2, <2>4, <3>2
  <2> QED
    BY <2>3, <2>4
<1>12. x = [r EXCEPT !.groups = x.groups, !.bytes = x.bytes, !.count = x.count,
                     !.memory_limited = x.memory_limited]
  BY <1>1, <1>8, <1>9 DEF Recorders
<1>13. Newer(x, r)
  BY <1>6, <1>8, <1>12 DEF Newer
<1> QED
  BY <1>5, <1>11, <1>13 DEF T, x

LEMMA FitsDropped ==
  ASSUME NEW r, Accounted(r)
  PROVE  LET x == WithoutOldest(r, Min(Fits(r))) IN
         Newer(x, r) /\ (x.bytes <= x.memory_limit \/ Len(x.groups) = 1)
<1> DEFINE T == Fits(r)
<1>1. r \in Recorders /\ r.groups \in Seq(Group)
  BY DEF Accounted, Ring
<1> DEFINE one == IF r.groups = << >> THEN 0 ELSE Len(r.groups) - 1
<1>2. one \in 0..Len(r.groups) /\ Len(r.groups) - one <= 1 /\ (r.groups # << >> => one < Len(r.groups))
  BY <1>1
<1> HIDE DEF one
<1>3. one \in T
  <2>1. Len(WithoutOldest(r, one).groups) = Len(r.groups) - one
    BY <1>2, WithoutOldestAccounted
  <2> QED
    BY <1>2, <2>1 DEF Fits
<1>4. T \in SUBSET Nat
  BY DEF Fits
<1> HIDE DEF T
<1>5. PICK n \in T : n = Min(T) /\ n <= one
  BY <1>3, <1>4, MinIsLeast
<1>6. n \in 0..Len(r.groups) /\ (r.groups # << >> => n < Len(r.groups))
  <2>1. n \in 0..Len(r.groups)
    BY <1>5 DEF T, Fits
  <2> QED
    BY <1>1, <1>2, <1>5, <2>1
<1> DEFINE x == WithoutOldest(r, n)
<1>7. Len(x.groups) <= 1 \/ x.bytes <= x.memory_limit
  BY <1>5 DEF T, Fits
<1>8. /\ Accounted(x) /\ x.groups = SubSeq(r.groups, n + 1, Len(r.groups))
      /\ x.count <= r.count /\ x.bytes <= r.bytes
      /\ x = [r EXCEPT !.groups = x.groups, !.bytes = x.bytes, !.count = x.count]
  BY <1>6, WithoutOldestAccounted
<1> HIDE DEF x
<1>9. x.memory_limited = r.memory_limited
  BY <1>1, <1>8 DEF Recorders
<1>10. x.bytes <= x.memory_limit \/ Len(x.groups) = 1
  <2>1. x \in Recorders /\ Ring(x.groups) /\ x.bytes = BytesIn(x.groups) /\ Len(x.groups) \in Nat
    BY <1>8 DEF Accounted, Ring
  <2>2. x.memory_limit \in Nat
    BY <2>1, RewindAssumption DEF Recorders
  <2>3. CASE Len(x.groups) = 0
    BY <2>1, <2>2, <2>3, LastGroupOnly
  <2> QED
    BY <1>7, <2>1, <2>3
<1>12. x = [r EXCEPT !.groups = x.groups, !.bytes = x.bytes, !.count = x.count,
                     !.memory_limited = x.memory_limited]
  BY <1>1, <1>8, <1>9 DEF Recorders
<1>13. Newer(x, r)
  BY <1>6, <1>8, <1>12 DEF Newer
<1> QED
  BY <1>5, <1>10, <1>13 DEF T, x

LEMMA NewerTwice ==
  ASSUME NEW r, NEW x, NEW y, Newer(x, r), Newer(y, x), r \in Recorders, r.groups \in Seq(Group)
  PROVE  Newer(y, r)
<1> DEFINE gs == r.groups
<1>1. PICK n \in 0..Len(gs) : (gs # << >> => n < Len(gs)) /\ x.groups = SubSeq(gs, n + 1, Len(gs))
  BY DEF Newer
<1>2. PICK m \in 0..Len(x.groups) :
        (x.groups # << >> => m < Len(x.groups)) /\ y.groups = SubSeq(x.groups, m + 1, Len(x.groups))
  BY DEF Newer
<1>3. gs \in Seq(Group) /\ Len(gs) \in Nat
  OBVIOUS
<1> HIDE DEF gs
<1>4. x.groups \in Seq(Group) /\ Len(x.groups) = Len(gs) - n
  BY <1>1, <1>3
<1>5. n + m \in 0..Len(gs) /\ (gs # << >> => n + m < Len(gs))
  <2>1. n \in Nat /\ m \in Nat /\ m <= Len(gs) - n
    BY <1>3, <1>4
  <2>2. ASSUME gs # << >> PROVE n + m < Len(gs)
    <3>1. n < Len(gs)
      BY <1>1, <2>2
    <3>2. Len(x.groups) # 0
      BY <1>3, <1>4, <2>1, <3>1
    <3>3. m < Len(x.groups)
      BY <1>2, <1>4, <3>2
    <3> QED
      BY <1>3, <1>4, <2>1, <3>3
  <2> QED
    BY <1>3, <2>1, <2>2
<1>6. y.groups = SubSeq(gs, n + m + 1, Len(gs))
  BY <1>1, <1>2, <1>3, <1>4, <1>5
<1>7. /\ x.count <= r.count /\ x.bytes <= r.bytes /\ y.count <= x.count /\ y.bytes <= x.bytes
      /\ x \in Recorders /\ y \in Recorders /\ Accounted(y)
      /\ x = [r EXCEPT !.groups = x.groups, !.bytes = x.bytes, !.count = x.count,
                        !.memory_limited = x.memory_limited]
      /\ y = [x EXCEPT !.groups = y.groups, !.bytes = y.bytes, !.count = y.count,
                        !.memory_limited = y.memory_limited]
  BY DEF Newer, Accounted
<1>8. y.count <= r.count /\ y.bytes <= r.bytes
  <2>1. {r.count, x.count, y.count, r.bytes, x.bytes, y.bytes} \subseteq Nat
    BY <1>7 DEF Recorders
  <2> QED
    BY <1>7, <2>1
<1>9. y = [r EXCEPT !.groups = y.groups, !.bytes = y.bytes, !.count = y.count,
                    !.memory_limited = y.memory_limited]
  BY <1>7 DEF Recorders
<1> QED
  BY <1>5, <1>6, <1>7, <1>8, <1>9 DEF Newer, gs

\* Trimming keeps the accounts, and leaves the window and the memory limit kept.
LEMMA TrimFits ==
  ASSUME NEW r, Accounted(r)
  PROVE  /\ Newer(Trim(r), r)
         /\ Trim(r).count <= TargetCapacity(r) + FramesPerGroup
         /\ Trim(r).bytes <= r.memory_limit \/ Len(Trim(r).groups) = 1
<1> DEFINE w == WithoutOldest(r, Min(Windows(r)))
<1> DEFINE f == WithoutOldest(w, Min(Fits(w)))
<1> DEFINE t == Trim(r)
<1>1. Newer(w, r) /\ w.count <= TargetCapacity(r) + FramesPerGroup
  BY WindowsDropped
<1>2. Accounted(w)
  BY <1>1 DEF Newer
<1>3. Newer(f, w) /\ (f.bytes <= f.memory_limit \/ Len(f.groups) = 1)
  BY <1>2, FitsDropped
<1> DEFINE cut == f.memory_limited \/ f.groups # w.groups
<1>4. t = [f EXCEPT !.memory_limited = cut]
  BY TrimSteps
<1>5. r \in Recorders /\ r.groups \in Seq(Group)
  BY DEF Accounted, Ring
<1> HIDE DEF w, f, t
<1>6. Newer(f, r)
  BY <1>1, <1>3, <1>5, NewerTwice
<1>7. /\ f \in Recorders /\ Ring(f.groups) /\ f.count = FramesIn(f.groups) /\ f.bytes = BytesIn(f.groups)
      /\ f.count <= w.count /\ w \in Recorders
  BY <1>2, <1>3, <1>6 DEF Newer, Accounted
<1>8. cut \in BOOLEAN
  BY <1>7 DEF Recorders
<1> HIDE DEF cut
<1>9. /\ t \in Recorders /\ t.groups = f.groups /\ t.count = f.count /\ t.bytes = f.bytes
      /\ t = [f EXCEPT !.memory_limited = t.memory_limited]
  BY <1>4, <1>7, <1>8 DEF Recorders
<1>10. Newer(t, r)
  <2>1. f = [r EXCEPT !.groups = f.groups, !.bytes = f.bytes, !.count = f.count,
                      !.memory_limited = f.memory_limited]
    BY <1>6 DEF Newer
  <2>2. t = [r EXCEPT !.groups = t.groups, !.bytes = t.bytes, !.count = t.count,
                      !.memory_limited = t.memory_limited]
    BY <1>5, <1>9, <2>1 DEF Recorders
  <2>3. Accounted(t)
    BY <1>7, <1>9 DEF Accounted
  <2> QED
    BY <1>6, <1>9, <2>2, <2>3 DEF Newer
<1>11. t.count <= TargetCapacity(r) + FramesPerGroup
  <2>1. TargetCapacity(r) \in Nat /\ FramesPerGroup \in Nat
    BY <1>5, TargetType, RewindAssumption
  <2>2. t.count \in Nat /\ w.count \in Nat
    BY <1>7, <1>9 DEF Recorders
  <2> QED
    BY <1>1, <1>7, <1>9, <2>1, <2>2
<1>12. f.memory_limit = r.memory_limit
  <2>1. f = [r EXCEPT !.groups = f.groups, !.bytes = f.bytes, !.count = f.count,
                      !.memory_limited = f.memory_limited]
    BY <1>6 DEF Newer
  <2> QED
    BY <1>5, <2>1 DEF Recorders
<1> QED
  BY <1>3, <1>9, <1>10, <1>11, <1>12 DEF t

\* What CommitSeek keeps of group j.
Allowed(r, j) == r.count - r.seek_position - FramesIn(FirstGroups(r.groups, j - 1))
Remains(r, j) ==
  SubSeq(r.groups[j].frames, 1, Min({Len(r.groups[j].frames), Allowed(r, j)}))

LEMMA WholeGroups ==
  ASSUME NEW gs \in Seq(Group), NEW keep \in Int
  PROVE  \E k \in 0..Len(gs) :
           {j \in DOMAIN gs : FramesIn(FirstGroups(gs, j - 1)) < keep} = 1..k
<1> DEFINE m == Len(gs)
<1> DEFINE whole == {j \in DOMAIN gs : FramesIn(FirstGroups(gs, j - 1)) < keep}
<1>1. m \in Nat /\ DOMAIN gs = 1..m /\ Lengths(gs) \in Seq(Nat) /\ Len(Lengths(gs)) = m
  BY AmountsType
<1>2. PICK f : Adds(f, Lengths(gs))
  BY <1>1, SumsExist
<1>3. ASSUME NEW n \in 0..m
      PROVE  FramesIn(FirstGroups(gs, n)) = f[n] /\ f[n] \in Nat
  <2>1. 1 \in 1..(Len(gs) + 1) /\ n \in 0..Len(gs) /\ 1 <= n + 1
    BY <1>1
  <2>2. Lengths(SubSeq(gs, 1, n)) = SubSeq(Lengths(gs), 1, n)
    BY <2>1, AmountsPart
  <2>3. Total(SubSeq(Lengths(gs), 1, n)) = f[n] /\ f[n] \in Nat
    BY <1>1, <1>2, TotalSplit
  <2> QED
    BY <2>2, <2>3, SumsNamed DEF FirstGroups
<1>4. whole = {j \in 1..m : f[j - 1] < keep}
  <2>1. \A j \in 1..m : j - 1 \in 0..m
    BY <1>1
  <2>2. \A j \in 1..m : FramesIn(FirstGroups(gs, j - 1)) = f[j - 1]
    BY <1>3, <2>1
  <2> QED
    BY <1>1, <2>2
<1> HIDE DEF whole
<1> DEFINE T == {n \in 0..m : n + 1 \notin whole}
<1>5. T \in SUBSET Nat /\ m \in T
  BY <1>1, <1>4
<1>6. PICK k \in T : \A y \in T : k <= y
  BY <1>5, LeastNatural
<1>7. k \in 0..m /\ k + 1 \notin whole
  BY <1>6
<1>8. ASSUME NEW j \in 1..k PROVE j \in whole
  <2>1. j - 1 \in 0..m /\ ~(k <= j - 1) /\ (j - 1) + 1 = j
    BY <1>1, <1>7
  <2> QED
    BY <1>6, <2>1
<1>9. ASSUME NEW j \in whole PROVE j \in 1..k
  <2>1. j \in 1..m /\ f[j - 1] < keep
    BY <1>4
  <2>2. CASE j > k
    <3>1. k + 1 \in 1..m /\ k \in 0..m /\ j - 1 \in 0..m /\ k <= j - 1 /\ (k + 1) - 1 = k
      BY <1>1, <1>7, <2>1, <2>2
    <3>2. f[k] <= f[j - 1] /\ f[k] \in Nat /\ f[j - 1] \in Nat
      BY <1>1, <1>2, <3>1, SumsGrow
    <3>3. f[k] < keep
      BY <2>1, <3>2
    <3> QED
      BY <1>4, <1>7, <3>1, <3>3
  <2>3. CASE ~(j > k)
    BY <1>7, <2>1, <2>3
  <2> QED
    BY <2>2, <2>3
<1>10. whole = 1..k
  BY <1>8, <1>9
<1> QED
  BY <1>7, <1>10 DEF whole

\* A group cut short.
LEMMA CutShort ==
  ASSUME NEW q \in Seq(Frame), Len(q) \in 1..FramesPerGroup, NEW c \in Nat \ {0}
  PROVE  LET cut == SubSeq(q, 1, Min({Len(q), c})) IN
         /\ cut \in Seq(Frame) /\ Len(cut) \in 1..Len(q) /\ cut = SubSeq(q, 1, Len(cut))
         /\ Len(cut) = Len(q) \/ (Len(cut) = c /\ Len(cut) <= c)
         /\ BytesOf(cut) \in Nat /\ BytesOf(q) \in Nat /\ BytesOf(cut) <= BytesOf(q)
<1> DEFINE b == Min({Len(q), c})
<1> DEFINE cut == SubSeq(q, 1, b)
<1>1. Len(q) \in Nat \ {0}
  BY RewindAssumption
<1>2. b \in {Len(q), c} /\ b <= Len(q) /\ b <= c
  <2>1. {Len(q), c} \in SUBSET Nat /\ {Len(q), c} # {}
    BY <1>1
  <2> QED
    BY <2>1, MinIsLeast
<1> HIDE DEF b
<1>3. b \in 1..Len(q) /\ b \in 0..Len(q)
  BY <1>1, <1>2
<1>4. cut \in Seq(Frame) /\ Len(cut) = b
  BY <1>1, <1>3
<1>5. Sizes(cut) = SubSeq(Sizes(q), 1, b)
  BY <1>3, SizesPart
<1>6. Sizes(q) \in Seq(Nat) /\ Len(Sizes(q)) = Len(q)
  BY SizesType
<1>7. PICK f : Adds(f, Sizes(q)) /\ Total(Sizes(q)) = f[Len(q)]
  BY <1>6, SumsExist
<1>8. /\ Total(SubSeq(Sizes(q), 1, b)) = f[b] /\ f[b] \in Nat /\ f[b] <= f[Len(q)]
      /\ Total(Sizes(q)) \in Nat
  BY <1>3, <1>6, <1>7, TotalSplit, SumsUnique
<1>9. BytesOf(cut) \in Nat /\ BytesOf(q) \in Nat /\ BytesOf(cut) <= BytesOf(q)
  BY <1>5, <1>7, <1>8, SumsNamed
<1>10. cut = SubSeq(q, 1, Len(cut)) /\ Len(cut) \in 1..Len(q)
  BY <1>3, <1>4
<1>11. Len(cut) = Len(q) \/ (Len(cut) = c /\ Len(cut) <= c)
  BY <1>2, <1>4
<1> QED
  BY <1>4, <1>9, <1>10, <1>11 DEF b

KeptGroups(r) ==
  [j \in {j \in DOMAIN r.groups : FramesIn(FirstGroups(r.groups, j - 1)) < r.count - r.seek_position} |->
     [frames |-> Remains(r, j),
      bytes |-> r.groups[j].bytes - BytesOf(r.groups[j].frames) + BytesOf(Remains(r, j))]]

LEMMA CommitSeekSteps ==
  ASSUME NEW r
  PROVE  CommitSeek(r) =
           IF r.seek_position <= 0 THEN [r EXCEPT !.seek_position = -1]
           ELSE [r EXCEPT !.groups = KeptGroups(r),
                          !.bytes = @ - (BytesIn(r.groups) - BytesIn(KeptGroups(r))),
                          !.count = FramesIn(KeptGroups(r)),
                          !.previous_raw = NoCapture, !.seek_position = -1]
BY DEF CommitSeek, KeptGroups, Remains, Allowed

\* The first groups of the ring, the frames of each cut short.
Older(groups, r) ==
  /\ Ring(groups) /\ Len(groups) <= Len(r.groups)
  /\ \A j \in 1..Len(groups) :
       \E c \in 1..Len(r.groups[j].frames) : groups[j].frames = SubSeq(r.groups[j].frames, 1, c)

LEMMA KeptGroupsOlder ==
  ASSUME NEW r, Accounted(r)
  PROVE  /\ Older(KeptGroups(r), r)
         /\ FramesIn(KeptGroups(r)) \in Nat /\ FramesIn(KeptGroups(r)) <= r.count
         /\ BytesIn(KeptGroups(r)) \in Nat /\ BytesIn(KeptGroups(r)) <= r.bytes
<1> DEFINE gs == r.groups
<1> DEFINE keep == r.count - r.seek_position
<1> DEFINE K == KeptGroups(r)
<1>1. /\ r \in Recorders /\ gs \in Seq(Group) /\ Ring(gs) /\ keep \in Int
      /\ r.count = FramesIn(gs) /\ r.bytes = BytesIn(gs)
  BY DEF Accounted, Ring, Recorders
<1>2. PICK k \in 0..Len(gs) :
        {j \in DOMAIN gs : FramesIn(FirstGroups(gs, j - 1)) < keep} = 1..k
  <2> HIDE DEF gs, keep
  <2> QED
    BY <1>1, WholeGroups
<1>3. K = [j \in 1..k |->
             [frames |-> Remains(r, j),
              bytes |-> gs[j].bytes - BytesOf(gs[j].frames) + BytesOf(Remains(r, j))]]
  BY <1>2 DEF KeptGroups
<1>4. Len(gs) \in Nat /\ k \in Nat /\ k <= Len(gs)
  BY <1>1, <1>2
<1> HIDE DEF gs, keep, K
<1>5. ASSUME NEW j \in 1..k
      PROVE  /\ K[j] \in Group /\ K[j].frames = Remains(r, j)
             /\ Len(K[j].frames) \in 1..FramesPerGroup
             /\ K[j].bytes = BytesOf(K[j].frames)
             /\ Len(K[j].frames) <= Len(gs[j].frames) /\ K[j].bytes <= gs[j].bytes
             /\ \E c \in 1..Len(gs[j].frames) : K[j].frames = SubSeq(gs[j].frames, 1, c)
  <2>1. j \in 1..Len(gs) /\ j \in DOMAIN gs
    BY <1>1, <1>4
  <2> DEFINE q == gs[j].frames
  <2>2. q \in Seq(Frame) /\ gs[j].bytes \in Nat /\ Len(q) \in 1..FramesPerGroup /\ gs[j].bytes = BytesOf(q)
    <3>1. gs[j] \in Group
      BY <1>1, <2>1
    <3> QED
      BY <1>1, <2>1, <3>1 DEF Ring, Group
  <2>3. FramesIn(FirstGroups(gs, j - 1)) \in Nat
    <3>1. j - 1 \in 0..Len(gs)
      BY <1>4, <2>1
    <3> QED
      BY <1>1, <3>1, OldestOut
  <2>4. FramesIn(FirstGroups(gs, j - 1)) < keep
    BY <1>2, <2>1
  <2> DEFINE c == Allowed(r, j)
  <2>5. c \in Nat \ {0}
    <3>1. c = keep - FramesIn(FirstGroups(gs, j - 1))
      BY DEF Allowed, keep, gs
    <3> HIDE DEF c
    <3> QED
      BY <1>1, <2>3, <2>4, <3>1
  <2> DEFINE cut == SubSeq(q, 1, Min({Len(q), c}))
  <2>6. Remains(r, j) = cut
    BY DEF Remains, gs
  <2> HIDE DEF c, q
  <2>7. /\ cut \in Seq(Frame) /\ Len(cut) \in 1..Len(q) /\ cut = SubSeq(q, 1, Len(cut))
        /\ BytesOf(cut) \in Nat /\ BytesOf(q) \in Nat /\ BytesOf(cut) <= BytesOf(q)
    BY <2>2, <2>5, CutShort
  <2> HIDE DEF cut
  <2>8. K[j] = [frames |-> cut, bytes |-> BytesOf(cut)]
    <3>1. gs[j].bytes - BytesOf(gs[j].frames) + BytesOf(cut) = BytesOf(cut)
      BY <2>2, <2>7 DEF q
    <3> QED
      BY <1>3, <2>6, <3>1
  <2>9. FramesPerGroup \in Nat
    BY RewindAssumption
  <2>10. K[j].frames = cut /\ K[j].bytes = BytesOf(cut) /\ K[j] \in Group
    BY <2>7, <2>8 DEF Group
  <2>11. Len(cut) \in 1..FramesPerGroup /\ Len(cut) <= Len(q)
    BY <2>2, <2>7, <2>9
  <2>12. BytesOf(cut) <= gs[j].bytes
    BY <2>2, <2>7
  <2> QED
    BY <2>6, <2>7, <2>10, <2>11, <2>12 DEF q
<1>6. K \in Seq(Group) /\ Len(K) = k
  <2>1. K = [j \in 1..k |-> K[j]]
    BY <1>3
  <2>2. \A j \in 1..k : K[j] \in Group
    BY <1>5
  <2> QED
    BY <1>4, <2>1, <2>2
<1>7. Older(K, r)
  <2>1. Ring(K)
    BY <1>5, <1>6 DEF Ring
  <2> QED
    BY <1>4, <1>5, <1>6, <2>1 DEF Older, gs
<1>8. /\ Lengths(gs) \in Seq(Nat) /\ Len(Lengths(gs)) = Len(gs)
      /\ Weights(gs) \in Seq(Nat) /\ Len(Weights(gs)) = Len(gs)
      /\ Lengths(K) \in Seq(Nat) /\ Len(Lengths(K)) = k
      /\ Weights(K) \in Seq(Nat) /\ Len(Weights(K)) = k
  BY <1>1, <1>6, AmountsType
<1>9. \A j \in 1..k : Lengths(K)[j] <= Lengths(gs)[j] /\ Weights(K)[j] <= Weights(gs)[j]
  <2>1. DOMAIN K = 1..k /\ \A j \in 1..k : j \in DOMAIN gs
    BY <1>1, <1>4, <1>6
  <2>2. \A j \in 1..k : /\ Lengths(K)[j] = Len(K[j].frames) /\ Lengths(gs)[j] = Len(gs[j].frames)
                         /\ Weights(K)[j] = K[j].bytes /\ Weights(gs)[j] = gs[j].bytes
    BY <2>1 DEF Lengths, Weights
  <2> QED
    BY <1>5, <2>2
<1>10. FramesIn(K) <= FramesIn(gs) /\ BytesIn(K) <= BytesIn(gs)
  BY <1>4, <1>8, <1>9, TotalSmaller, SumsNamed
<1>11. FramesIn(K) \in Nat /\ BytesIn(K) \in Nat
  <2>1. 0 \in 0..Len(K)
    BY <1>4, <1>6
  <2> QED
    BY <1>6, <2>1, OldestOut
<1> QED
  BY <1>1, <1>7, <1>10, <1>11 DEF K, gs

LEMMA CommitSeekCuts ==
  ASSUME NEW r, Accounted(r)
  PROVE  LET x == CommitSeek(r) IN
         /\ Accounted(x) /\ Older(x.groups, r) /\ x.count <= r.count /\ x.bytes <= r.bytes
         /\ x.seek_position = -1
         /\ x = [r EXCEPT !.groups = x.groups, !.bytes = x.bytes, !.count = x.count,
                           !.previous_raw = x.previous_raw, !.seek_position = -1]
         /\ \/ r.seek_position <= 0 /\ x.groups = r.groups /\ x.previous_raw = r.previous_raw
            \/ r.seek_position > 0 /\ x.groups = KeptGroups(r) /\ x.previous_raw = NoCapture
<1> DEFINE x == CommitSeek(r)
<1>1. r \in Recorders /\ Ring(r.groups) /\ r.count = FramesIn(r.groups) /\ r.bytes = BytesIn(r.groups)
  BY DEF Accounted
<1>2. CASE r.seek_position <= 0
  <2>1. x = [r EXCEPT !.seek_position = -1]
    BY <1>2, CommitSeekSteps
  <2>2. /\ x \in Recorders /\ x.groups = r.groups /\ x.bytes = r.bytes /\ x.count = r.count
        /\ x.previous_raw = r.previous_raw /\ x.seek_position = -1
    BY <1>1, <2>1 DEF Recorders
  <2> HIDE DEF x
  <2>3. x = [r EXCEPT !.groups = x.groups, !.bytes = x.bytes, !.count = x.count,
                      !.previous_raw = x.previous_raw, !.seek_position = -1]
    BY <1>1, <2>1, <2>2 DEF Recorders
  <2>4. Older(x.groups, r)
    <3>1. r.groups \in Seq(Group) /\ Len(r.groups) \in Nat
      BY <1>1 DEF Ring
    <3>2. ASSUME NEW j \in 1..Len(r.groups)
          PROVE  \E c \in 1..Len(r.groups[j].frames) :
                   r.groups[j].frames = SubSeq(r.groups[j].frames, 1, c)
      <4> DEFINE q == r.groups[j].frames
      <4>1. Len(q) \in 1..FramesPerGroup /\ q \in Seq(Frame)
        <5>1. r.groups[j] \in Group
          BY <3>1
        <5> QED
          BY <1>1, <5>1 DEF Ring, Group
      <4>2. FramesPerGroup \in Nat
        BY RewindAssumption
      <4>3. Len(q) \in 1..Len(q) /\ q = SubSeq(q, 1, Len(q))
        <5> HIDE DEF q
        <5> QED
          BY <4>1, <4>2
      <4> QED
        BY <4>3
    <3> QED
      BY <1>1, <2>2, <3>1, <3>2 DEF Older
  <2>5. r.count \in Nat /\ r.bytes \in Nat
    BY <1>1 DEF Recorders
  <2> QED
    BY <1>1, <1>2, <2>2, <2>3, <2>4, <2>5 DEF x, Accounted
<1>3. CASE ~(r.seek_position <= 0)
  <2> DEFINE K == KeptGroups(r)
  <2>1. /\ Older(K, r) /\ FramesIn(K) \in Nat /\ FramesIn(K) <= r.count
        /\ BytesIn(K) \in Nat /\ BytesIn(K) <= r.bytes
    BY KeptGroupsOlder
  <2>2. Ring(K) /\ K \in Seq(Group)
    BY <2>1 DEF Older, Ring
  <2>3. r.bytes \in Nat /\ r.seek_position \in Int
    BY <1>1 DEF Recorders
  <2> HIDE DEF K
  <2>4. r.bytes - (BytesIn(r.groups) - BytesIn(K)) = BytesIn(K)
    BY <1>1, <2>1, <2>3
  <2>5. PICK b \in Nat : b = BytesIn(K)
    BY <2>1
  <2>6. PICK c \in Nat : c = FramesIn(K)
    BY <2>1
  <2>7. x = [r EXCEPT !.groups = K, !.bytes = b, !.count = c, !.previous_raw = NoCapture, !.seek_position = -1]
    BY <1>1, <1>3, <2>4, <2>5, <2>6, CommitSeekSteps DEF K
  <2>8. NoCapture \in Captures
    BY DEF NoCapture, Boot, Captures, Modes
  <2> HIDE DEF x
  <2>9. /\ x \in Recorders /\ x.groups = K /\ x.bytes = b /\ x.count = c
        /\ x.previous_raw = NoCapture /\ x.seek_position = -1
    <3>1. PICK none \in Captures : none = NoCapture
      BY <2>8
    <3>2. x = [r EXCEPT !.groups = K, !.bytes = b, !.count = c, !.previous_raw = none, !.seek_position = -1]
      BY <2>7, <3>1
    <3>3. /\ x.groups = K /\ x.bytes = b /\ x.count = c
          /\ x.previous_raw = none /\ x.seek_position = -1
      BY <1>1, <3>2 DEF Recorders
    <3>4. x \in Recorders
      <4>1. PICK away \in Int : away = -1
        OBVIOUS
      <4>2. x = [r EXCEPT !.groups = K, !.bytes = b, !.count = c, !.previous_raw = none, !.seek_position = away]
        BY <3>2, <4>1
      <4>3. K \in Seq(Group) /\ b \in Nat /\ c \in Nat /\ none \in Captures
        BY <2>2
      <4> QED
        BY <1>1, <4>2, <4>3 DEF Recorders
    <3> QED
      BY <3>1, <3>3, <3>4
  <2>10. x = [r EXCEPT !.groups = x.groups, !.bytes = x.bytes, !.count = x.count,
                       !.previous_raw = x.previous_raw, !.seek_position = -1]
    BY <1>1, <2>7, <2>9 DEF Recorders
  <2>11. Accounted(x)
    BY <2>2, <2>5, <2>6, <2>9 DEF Accounted
  <2>12. r.seek_position > 0
    BY <1>3, <2>3
  <2> QED
    BY <2>1, <2>5, <2>6, <2>9, <2>10, <2>11, <2>12 DEF x, K
<1> QED
  BY <1>2, <1>3

-----------------------------------------------------------------------------
(* The line of captures.                                                     *)

Tos(frames) == [i \in DOMAIN frames |-> frames[i].to]

\* A group starts with a keyframe, and every other frame is the difference from the
\* capture before it.
Chain(frames) ==
  /\ frames[1].keyframe
  /\ \A i \in 2..Len(frames) : frames[i].from = frames[i - 1].to

LEMMA TosType ==
  ASSUME NEW q \in Seq(Frame)
  PROVE  /\ Tos(q) \in Seq(Moments) /\ Len(Tos(q)) = Len(q)
         /\ \A i \in 1..Len(q) : Tos(q)[i] = q[i].to
<1>1. DOMAIN q = 1..Len(q) /\ Len(q) \in Nat
  OBVIOUS
<1>2. \A i \in 1..Len(q) : q[i].to \in Moments
  <2>1. \A i \in 1..Len(q) : q[i] \in Frame
    OBVIOUS
  <2> QED
    BY <2>1 DEF Frame
<1>3. Tos(q) = [i \in 1..Len(q) |-> q[i].to]
  BY <1>1 DEF Tos
<1> QED
  BY <1>1, <1>2, <1>3

\* In a chain the differences give back the captures they were made from.
LEMMA DecodedChain ==
  ASSUME NEW q \in Seq(Frame), Chain(q)
  PROVE  Decoded(q) = Tos(q)
<1> DEFINE Recursive(u) ==
      u = [i \in DOMAIN q |-> IF i = 1 THEN IF q[1].keyframe THEN q[1].to ELSE Garbled
                               ELSE Xor(q[i], u[i - 1])]
<1>1. DOMAIN q = 1..Len(q) /\ Len(q) \in Nat
  OBVIOUS
<1>2. q[1].keyframe /\ \A i \in 2..Len(q) : q[i].from = q[i - 1].to
  BY DEF Chain
<1>3. Tos(q) = [i \in 1..Len(q) |-> q[i].to]
  BY <1>1 DEF Tos
<1>4. Recursive(Tos(q))
  <2>1. ASSUME NEW i \in 1..Len(q), i # 1
        PROVE  Xor(q[i], Tos(q)[i - 1]) = q[i].to
    <3>1. i \in 2..Len(q) /\ i - 1 \in 1..Len(q)
      BY <1>1, <2>1
    <3>2. Tos(q)[i - 1] = q[i].from
      BY <1>2, <1>3, <3>1
    <3> QED
      BY <3>2 DEF Xor
  <2> QED
    BY <1>1, <1>2, <1>3, <2>1
<1> DEFINE u == CHOOSE u : Recursive(u)
<1>5. Recursive(u)
  BY <1>4
<1>6. Decoded(q) = u
  BY DEF Decoded
<1>7. /\ u = [i \in 1..Len(q) |-> u[i]]
      /\ \A i \in 1..Len(q) : u[i] = IF i = 1 THEN q[1].to ELSE Xor(q[i], u[i - 1])
  <2> HIDE DEF u
  <2> QED
    BY <1>1, <1>2, <1>5
<1> HIDE DEF u
<1> DEFINE T == {i \in 0..Len(q) : i = 0 \/ u[i] = q[i].to}
<1>8. 0 \in T
  BY <1>1
<1>9. ASSUME NEW i \in 1..Len(q), i - 1 \in T
      PROVE  i \in T
  <2>1. i \in 0..Len(q)
    BY <1>1
  <2>2. CASE i = 1
    <3>1. u[i] = q[i].to
      BY <1>7, <2>2
    <3> QED
      BY <2>1, <3>1
  <2>3. CASE i # 1
    <3>1. i \in 2..Len(q) /\ i - 1 \in 1..Len(q) /\ i - 1 # 0
      BY <1>1, <2>3
    <3>2. u[i - 1] = q[i - 1].to
      BY <1>9, <3>1
    <3>3. u[i] = Xor(q[i], q[i - 1].to) /\ q[i].from = q[i - 1].to
      BY <1>2, <1>7, <2>3, <3>1, <3>2
    <3> QED
      BY <3>3 DEF Xor
  <2> QED
    BY <2>2, <2>3
<1>10. \A i \in 0..Len(q) : i \in T
  <2> HIDE DEF T
  <2> QED
    BY <1>1, <1>8, <1>9, Induction
<1>11. \A i \in 1..Len(q) : u[i] = q[i].to
  <2>1. \A i \in 1..Len(q) : i \in 0..Len(q) /\ i # 0
    BY <1>1
  <2> QED
    BY <1>10, <2>1
<1>12. u = Tos(q)
  BY <1>3, <1>7, <1>11
<1> QED
  BY <1>6, <1>12

\* Every group is a chain of its own.
Chained(groups) ==
  /\ groups \in Seq(Group)
  /\ \A j \in 1..Len(groups) : Chain(groups[j].frames)

\* f puts the groups one after the other.
Opens(f, groups) ==
  /\ f \in [0..Len(groups) -> Seq(Moments)] /\ f[0] = << >>
  /\ \A j \in 1..Len(groups) : f[j] = f[j - 1] \o Tos(groups[j].frames)

LEMMA GroupDecoded ==
  ASSUME NEW gs, Chained(gs), NEW j \in 1..Len(gs)
  PROVE  /\ gs[j] \in Group /\ gs[j].frames \in Seq(Frame)
         /\ Decoded(gs[j].frames) = Tos(gs[j].frames) /\ Tos(gs[j].frames) \in Seq(Moments)
<1>1. gs[j] \in Group
  BY DEF Chained
<1>2. gs[j].frames \in Seq(Frame)
  BY <1>1 DEF Group
<1>3. Chain(gs[j].frames)
  BY DEF Chained
<1> QED
  BY <1>1, <1>2, <1>3, DecodedChain, TosType

LEMMA LineExists ==
  ASSUME NEW gs, Chained(gs)
  PROVE  \E f : Opens(f, gs) /\ Decompressed(gs) = f[Len(gs)]
<1> DEFINE n == Len(gs)
<1> DEFINE step == [x \in (1..n) \X Seq(Moments) |-> x[2] \o Tos(gs[x[1]].frames)]
<1>1. n \in Nat /\ << >> \in Seq(Moments)
  BY DEF Chained
<1>2. \A j \in 1..n : Tos(gs[j].frames) \in Seq(Moments) /\ Decoded(gs[j].frames) = Tos(gs[j].frames)
  BY GroupDecoded
<1>3. step \in [(1..n) \X Seq(Moments) -> Seq(Moments)]
  <2>1. ASSUME NEW x \in (1..n) \X Seq(Moments)
        PROVE  x[2] \o Tos(gs[x[1]].frames) \in Seq(Moments)
    <3>1. x[1] \in 1..n /\ x[2] \in Seq(Moments)
      OBVIOUS
    <3>2. Tos(gs[x[1]].frames) \in Seq(Moments)
      BY <1>2, <3>1
    <3> QED
      BY <3>1, <3>2, ConcatProperties
  <2> QED
    BY <2>1
<1> HIDE DEF n
<1>4. PICK f : Follows(f, n, Seq(Moments), << >>, step)
  <2> HIDE DEF step
  <2> QED
    BY <1>1, <1>3, RecursionExists
<1>5. /\ f \in [0..n -> Seq(Moments)] /\ f[0] = << >>
      /\ \A i \in 1..n : f[i] = step[<<i, f[i - 1]>>]
  <2> HIDE DEF step
  <2> QED
    BY <1>4 DEF Follows
<1>6. ASSUME NEW i \in 1..n
      PROVE  f[i] = f[i - 1] \o Tos(gs[i].frames)
  <2>1. i - 1 \in 0..n
    BY <1>1
  <2>2. f[i - 1] \in Seq(Moments)
    <3> HIDE DEF step
    <3> QED
      BY <1>5, <2>1
  <2>3. <<i, f[i - 1]>> \in (1..n) \X Seq(Moments)
    BY <2>2
  <2>4. step[<<i, f[i - 1]>>] = f[i - 1] \o Tos(gs[i].frames)
    BY <2>3
  <2> QED
    BY <1>5, <2>4
<1> HIDE DEF step
<1>7. Opens(f, gs)
  BY <1>5, <1>6 DEF Opens, n
<1> DEFINE Recursive(u) ==
      u = [j \in 0..n |-> IF j = 0 THEN << >> ELSE u[j - 1] \o Decoded(gs[j].frames)]
<1>8. Recursive(f)
  <2>1. \A j \in 0..n : j # 0 => j \in 1..n
    BY <1>1
  <2>2. \A j \in 0..n : f[j] = IF j = 0 THEN << >> ELSE f[j - 1] \o Decoded(gs[j].frames)
    BY <1>2, <1>5, <1>6, <2>1
  <2>3. f = [j \in 0..n |-> f[j]]
    BY <1>5
  <2> QED
    BY <2>2, <2>3
<1> DEFINE u == CHOOSE u : Recursive(u)
<1>9. Recursive(u)
  BY <1>8
<1>10. Decompressed(gs) = u[n]
  BY DEF Decompressed, n
<1>11. \A j \in 0..n : u[j] = IF j = 0 THEN << >> ELSE u[j - 1] \o Decoded(gs[j].frames)
  <2> HIDE DEF u
  <2> QED
    BY <1>9
<1>12. u[0] = f[0] /\ \A i \in 1..n : u[i - 1] = f[i - 1] => u[i] = f[i]
  <2>1. \A i \in 1..n : i \in 0..n /\ i # 0
    BY <1>1
  <2>2. 0 \in 0..n
    BY <1>1
  <2> HIDE DEF u
  <2>3. u[0] = f[0]
    BY <1>5, <1>11, <2>2
  <2>4. ASSUME NEW i \in 1..n, u[i - 1] = f[i - 1] PROVE u[i] = f[i]
    <3>1. u[i] = u[i - 1] \o Decoded(gs[i].frames)
      BY <1>11, <2>1
    <3> QED
      BY <1>2, <1>6, <2>4, <3>1
  <2> QED
    BY <2>3, <2>4
<1> HIDE DEF u
<1>13. u[n] = f[n]
  <2>1. \A i \in 0..n : u[i] = f[i]
    BY <1>1, <1>12, RecursionUnique
  <2> QED
    BY <1>1, <2>1
<1> QED
  BY <1>7, <1>10, <1>13 DEF n

LEMMA LineUnique ==
  ASSUME NEW gs, Chained(gs), NEW f, Opens(f, gs)
  PROVE  Decompressed(gs) = f[Len(gs)] /\ Decompressed(gs) \in Seq(Moments)
<1>1. PICK h : Opens(h, gs) /\ Decompressed(gs) = h[Len(gs)]
  BY LineExists
<1>2. Len(gs) \in Nat
  BY DEF Chained
<1>3. /\ f[0] = h[0] /\ f \in [0..Len(gs) -> Seq(Moments)]
      /\ \A i \in 1..Len(gs) : f[i - 1] = h[i - 1] => f[i] = h[i]
  <2>1. /\ f[0] = h[0] /\ f \in [0..Len(gs) -> Seq(Moments)]
        /\ \A i \in 1..Len(gs) : f[i] = f[i - 1] \o Tos(gs[i].frames)
    BY <1>1 DEF Opens
  <2>2. \A i \in 1..Len(gs) : h[i] = h[i - 1] \o Tos(gs[i].frames)
    BY <1>1 DEF Opens
  <2>3. ASSUME NEW i \in 1..Len(gs), f[i - 1] = h[i - 1] PROVE f[i] = h[i]
    <3>1. f[i] = f[i - 1] \o Tos(gs[i].frames) /\ h[i] = h[i - 1] \o Tos(gs[i].frames)
      BY <2>1, <2>2
    <3> QED
      BY <2>3, <3>1
  <2> QED
    BY <2>1, <2>3
<1>4. \A i \in 0..Len(gs) : f[i] = h[i]
  BY <1>2, <1>3, RecursionUnique
<1>5. Len(gs) \in 0..Len(gs)
  BY <1>2
<1> QED
  BY <1>1, <1>3, <1>4, <1>5

LEMMA LineNothing == Decompressed(<< >>) = << >>
<1>1. Chained(<< >>) /\ Len(<< >>) = 0
  BY DEF Chained
<1>2. Opens([i \in 0..0 |-> << >>], << >>)
  BY <1>1 DEF Opens
<1> QED
  BY <1>1, <1>2, LineUnique

\* One group more.
LEMMA LineAppend ==
  ASSUME NEW gs, Chained(gs), NEW x \in Group, Chain(x.frames)
  PROVE  /\ Chained(Append(gs, x))
         /\ Decompressed(Append(gs, x)) = Decompressed(gs) \o Tos(x.frames)
         /\ Decompressed(gs) \in Seq(Moments) /\ Tos(x.frames) \in Seq(Moments)
<1> DEFINE n == Len(gs)
<1> DEFINE b == Append(gs, x)
<1>1. gs \in Seq(Group) /\ n \in Nat /\ \A j \in 1..n : Chain(gs[j].frames)
  BY DEF Chained
<1>2. /\ b \in Seq(Group) /\ Len(b) = n + 1 /\ b[n + 1] = x
      /\ \A j \in 1..n : b[j] = gs[j]
  BY <1>1, AppendProperties
<1>3. PICK f : Opens(f, gs) /\ Decompressed(gs) = f[n]
  BY LineExists
<1>4. /\ f \in [0..n -> Seq(Moments)] /\ f[0] = << >>
      /\ \A j \in 1..n : f[j] = f[j - 1] \o Tos(gs[j].frames)
  BY <1>3 DEF Opens
<1>5. Tos(x.frames) \in Seq(Moments)
  <2>1. x.frames \in Seq(Frame)
    BY DEF Group
  <2> QED
    BY <2>1, TosType
<1> HIDE DEF n, b
<1>6. n \in 0..n /\ f[n] \in Seq(Moments)
  <2>1. n \in 0..n
    BY <1>1
  <2> QED
    BY <1>4, <2>1
<1>7. PICK w \in Seq(Moments) : w = f[n] \o Tos(x.frames)
  BY <1>5, <1>6, ConcatProperties
<1> DEFINE h == [j \in 0..(n + 1) |-> IF j = n + 1 THEN w ELSE f[j]]
<1>8. h \in [0..(n + 1) -> Seq(Moments)] /\ h[0] = << >> /\ h[n + 1] = w
  <2>1. \A j \in 0..(n + 1) : j # n + 1 => j \in 0..n
    BY <1>1
  <2>2. 0 \in 0..(n + 1) /\ 0 # n + 1 /\ n + 1 \in 0..(n + 1)
    BY <1>1
  <2> QED
    BY <1>4, <2>1, <2>2
<1>9. \A j \in 0..n : h[j] = f[j]
  BY <1>1
<1> HIDE DEF h
<1>10. Chained(b)
  <2>1. ASSUME NEW j \in 1..(n + 1) PROVE Chain(b[j].frames)
    <3>1. CASE j = n + 1
      BY <1>2, <3>1
    <3>2. CASE j # n + 1
      <4>1. j \in 1..n
        BY <1>1, <3>2
      <4> QED
        BY <1>1, <1>2, <4>1
    <3> QED
      BY <3>1, <3>2
  <2> QED
    BY <1>2, <2>1 DEF Chained
<1>11. ASSUME NEW j \in 1..(n + 1)
       PROVE  h[j] = h[j - 1] \o Tos(b[j].frames)
  <2>1. j - 1 \in 0..n /\ h[j - 1] = f[j - 1]
    BY <1>1, <1>9
  <2>2. CASE j = n + 1
    <3>1. j - 1 = n
      BY <1>1, <2>2
    <3> QED
      BY <1>2, <1>7, <1>8, <2>1, <2>2, <3>1
  <2>3. CASE j # n + 1
    <3>1. j \in 1..n /\ j \in 0..n
      BY <1>1, <2>3
    <3> QED
      BY <1>2, <1>4, <1>9, <2>1, <3>1
  <2> QED
    BY <2>2, <2>3
<1>12. Opens(h, b)
  BY <1>2, <1>8, <1>11 DEF Opens
<1>13. Decompressed(b) = w
  BY <1>2, <1>8, <1>10, <1>12, LineUnique
<1> QED
  BY <1>3, <1>5, <1>6, <1>7, <1>10, <1>13 DEF b

LEMMA FirstGroupsGrow ==
  ASSUME NEW gs \in Seq(Group), NEW n \in 1..Len(gs)
  PROVE  /\ FirstGroups(gs, n) = Append(FirstGroups(gs, n - 1), gs[n])
         /\ FirstGroups(gs, n - 1) \in Seq(Group) /\ gs[n] \in Group
         /\ FirstGroups(gs, n) \in Seq(Group)
BY DEF FirstGroups

LEMMA ChainedPart ==
  ASSUME NEW gs, Chained(gs), NEW a \in 1..(Len(gs) + 1), NEW b \in 0..Len(gs), a <= b + 1
  PROVE  Chained(SubSeq(gs, a, b))
<1>1. gs \in Seq(Group) /\ \A j \in 1..Len(gs) : Chain(gs[j].frames)
  BY DEF Chained
<1> DEFINE p == SubSeq(gs, a, b)
<1>2. /\ p \in Seq(Group) /\ Len(p) = b - a + 1
      /\ \A i \in 1..(b - a + 1) : p[i] = gs[a + i - 1] /\ a + i - 1 \in 1..Len(gs)
  BY <1>1, PartOf
<1> HIDE DEF p
<1>3. Chained(p)
  BY <1>1, <1>2 DEF Chained
<1> QED
  BY <1>3 DEF p

LEMMA LineLength ==
  ASSUME NEW gs, Chained(gs)
  PROVE  /\ Decompressed(gs) \in Seq(Moments) /\ FramesIn(gs) \in Nat
         /\ Len(Decompressed(gs)) = FramesIn(gs)
<1> DEFINE m == Len(gs)
<1> DEFINE T == {n \in 0..m : /\ Decompressed(FirstGroups(gs, n)) \in Seq(Moments)
                              /\ Len(Decompressed(FirstGroups(gs, n))) = FramesIn(FirstGroups(gs, n))}
<1>1. gs \in Seq(Group) /\ m \in Nat /\ \A j \in 1..m : Chain(gs[j].frames)
  BY DEF Chained
<1>2. ASSUME NEW n \in 0..m
      PROVE  FramesIn(FirstGroups(gs, n)) \in Nat /\ Chained(FirstGroups(gs, n))
  <2>1. FramesIn(FirstGroups(gs, n)) \in Nat
    BY <1>1, OldestOut
  <2>2. 1 \in 1..(Len(gs) + 1) /\ n \in 0..Len(gs) /\ 1 <= n + 1
    BY <1>1
  <2>3. Chained(SubSeq(gs, 1, n))
    BY <2>2, ChainedPart
  <2> QED
    BY <2>1, <2>3 DEF FirstGroups
<1>3. 0 \in T
  <2>1. FirstGroups(gs, 0) = << >> /\ 0 \in 0..m
    BY <1>1 DEF FirstGroups
  <2>2. FramesIn(<< >>) = 0
    <3>1. Lengths(<< >>) = << >>
      BY DEF Lengths
    <3> QED
      BY <3>1, TotalNothing, SumsNamed
  <2>3. Decompressed(<< >>) \in Seq(Moments) /\ Len(Decompressed(<< >>)) = 0
    <3>1. << >> \in Seq(Moments) /\ Len(<< >>) = 0
      OBVIOUS
    <3> QED
      BY <3>1, LineNothing
  <2> QED
    BY <2>1, <2>2, <2>3
<1>4. ASSUME NEW n \in 1..m, n - 1 \in T
      PROVE  n \in T
  <2> DEFINE p == FirstGroups(gs, n - 1)
  <2>1. n - 1 \in 0..m /\ n \in 0..m
    BY <1>1
  <2>2. FirstGroups(gs, n) = Append(p, gs[n]) /\ p \in Seq(Group) /\ gs[n] \in Group
    BY <1>1, FirstGroupsGrow
  <2>3. Chained(p) /\ FramesIn(p) \in Nat
    BY <1>2, <2>1
  <2>4. Decompressed(p) \in Seq(Moments) /\ Len(Decompressed(p)) = FramesIn(p)
    BY <1>4
  <2> HIDE DEF p
  <2>5. /\ Decompressed(Append(p, gs[n])) = Decompressed(p) \o Tos(gs[n].frames)
        /\ Tos(gs[n].frames) \in Seq(Moments)
    BY <1>1, <2>2, <2>3, LineAppend
  <2>6. FramesIn(Append(p, gs[n])) = FramesIn(p) + Len(gs[n].frames)
    BY <2>2, AmountsAppend
  <2>7. Len(Tos(gs[n].frames)) = Len(gs[n].frames)
    <3>1. gs[n].frames \in Seq(Frame)
      BY <2>2 DEF Group
    <3> QED
      BY <3>1, TosType
  <2>8. /\ Decompressed(p) \o Tos(gs[n].frames) \in Seq(Moments)
        /\ Len(Decompressed(p) \o Tos(gs[n].frames)) = FramesIn(p) + Len(gs[n].frames)
    <3> DEFINE d == Decompressed(p)
    <3> DEFINE t == Tos(gs[n].frames)
    <3>1. d \in Seq(Moments) /\ t \in Seq(Moments) /\ Len(d) = FramesIn(p) /\ Len(t) = Len(gs[n].frames)
      BY <2>4, <2>5, <2>7
    <3> HIDE DEF d, t
    <3>2. d \o t \in Seq(Moments) /\ Len(d \o t) = Len(d) + Len(t)
      BY <3>1, ConcatProperties
    <3>3. Len(d \o t) = FramesIn(p) + Len(gs[n].frames)
      BY <3>1, <3>2
    <3> QED
      BY <3>2, <3>3 DEF d, t
  <2> QED
    BY <2>1, <2>2, <2>5, <2>6, <2>8
<1>5. \A n \in 0..m : n \in T
  <2> HIDE DEF T
  <2> QED
    BY <1>1, <1>3, <1>4, Induction
<1>6. m \in T
  BY <1>1, <1>5
<1>7. FirstGroups(gs, m) = gs
  BY <1>1 DEF FirstGroups
<1> QED
  BY <1>1, <1>2, <1>6, <1>7

\* The line of the first groups, then the line of the others.
LEMMA LineSplit ==
  ASSUME NEW gs, Chained(gs), NEW n \in 0..Len(gs)
  PROVE  /\ Chained(FirstGroups(gs, n)) /\ Chained(SubSeq(gs, n + 1, Len(gs)))
         /\ Decompressed(FirstGroups(gs, n)) \in Seq(Moments)
         /\ Decompressed(SubSeq(gs, n + 1, Len(gs))) \in Seq(Moments)
         /\ Decompressed(gs) =
              Decompressed(FirstGroups(gs, n)) \o Decompressed(SubSeq(gs, n + 1, Len(gs)))
<1> DEFINE m == Len(gs)
<1>1. gs \in Seq(Group) /\ m \in Nat /\ \A j \in 1..m : Chain(gs[j].frames)
  BY DEF Chained
<1> DEFINE First(k) == SubSeq(gs, 1, k)
<1> DEFINE Rest(k) == SubSeq(gs, n + 1, k)
<1>2. ASSUME NEW k \in n..m
      PROVE  /\ Chained(First(k)) /\ Decompressed(First(k)) \in Seq(Moments)
             /\ Chained(Rest(k)) /\ Decompressed(Rest(k)) \in Seq(Moments)
  <2>1. 1 \in 1..(Len(gs) + 1) /\ k \in 0..Len(gs) /\ 1 <= k + 1
    BY <1>1
  <2>2. n + 1 \in 1..(Len(gs) + 1) /\ k \in 0..Len(gs) /\ n + 1 <= k + 1
    BY <1>1
  <2>3. Chained(SubSeq(gs, 1, k))
    BY <2>1, ChainedPart
  <2>4. Chained(SubSeq(gs, n + 1, k))
    BY <2>2, ChainedPart
  <2> QED
    BY <2>3, <2>4, LineLength
<1> DEFINE T == {i \in 0..(m - n) :
                  Decompressed(First(n + i)) = Decompressed(First(n)) \o Decompressed(Rest(n + i))}
<1>3. n \in Nat /\ n \in n..m /\ m \in n..m /\ m - n \in Nat
  BY <1>1
<1>4. 0 \in T
  <2>1. Rest(n + 0) = << >> /\ n + 0 = n
    BY <1>1, <1>3
  <2>2. Decompressed(First(n)) \o << >> = Decompressed(First(n))
    BY <1>2, <1>3, ConcatEmptySeq
  <2> HIDE DEF First, Rest
  <2>3. Decompressed(First(n + 0)) = Decompressed(First(n)) \o Decompressed(Rest(n + 0))
    BY <2>1, <2>2, LineNothing
  <2> QED
    BY <1>3, <2>3
<1>5. ASSUME NEW i \in 1..(m - n), i - 1 \in T
      PROVE  i \in T
  <2> DEFINE k == n + i
  <2>1. /\ k \in n..m /\ k - 1 \in n..m /\ n + (i - 1) = k - 1 /\ k \in 1..m
        /\ i \in 0..(m - n)
    BY <1>1, <1>3
  <2>2. First(k) = Append(First(k - 1), gs[k])
    BY <1>1, <2>1
  <2>3. Rest(k) = Append(Rest(k - 1), gs[k])
    BY <1>1, <1>3, <2>1
  <2>4. gs[k] \in Group /\ Chain(gs[k].frames)
    BY <1>1, <2>1
  <2>5. Decompressed(First(k - 1)) = Decompressed(First(n)) \o Decompressed(Rest(k - 1))
    BY <1>5, <2>1
  <2>6. /\ Chained(First(k - 1)) /\ Chained(Rest(k - 1))
        /\ Decompressed(First(n)) \in Seq(Moments) /\ Decompressed(Rest(k - 1)) \in Seq(Moments)
    BY <1>2, <1>3, <2>1
  <2> HIDE DEF First, Rest, k
  <2> DEFINE t == Tos(gs[k].frames)
  <2>7. Decompressed(First(k)) = Decompressed(First(k - 1)) \o t /\ t \in Seq(Moments)
    BY <2>2, <2>4, <2>6, LineAppend
  <2>8. Decompressed(Rest(k)) = Decompressed(Rest(k - 1)) \o t
    BY <2>3, <2>4, <2>6, LineAppend
  <2> HIDE DEF t
  <2>9. Decompressed(First(k)) = Decompressed(First(n)) \o Decompressed(Rest(k))
    <3> DEFINE a == Decompressed(First(n))
    <3> DEFINE b == Decompressed(Rest(k - 1))
    <3>1. a \in Seq(Moments) /\ b \in Seq(Moments) /\ t \in Seq(Moments)
      BY <2>6, <2>7
    <3>2. Decompressed(First(k)) = (a \o b) \o t /\ Decompressed(Rest(k)) = b \o t
      BY <2>5, <2>7, <2>8
    <3> HIDE DEF a, b, T, m
    <3>3. (a \o b) \o t = a \o (b \o t)
      BY <3>1, ConcatAssociative
    <3> QED
      BY <3>2, <3>3 DEF a
  <2> QED
    BY <2>1, <2>9 DEF k
<1>6. m - n \in T
  <2>1. \A i \in 0..(m - n) : i \in T
    <3> HIDE DEF T
    <3> QED
      BY <1>3, <1>4, <1>5, Induction
  <2>2. m - n \in 0..(m - n)
    BY <1>3
  <2> QED
    BY <2>1, <2>2
<1>7. n + (m - n) = m /\ First(m) = gs
  BY <1>1, <1>3
<1>8. Decompressed(gs) = Decompressed(First(n)) \o Decompressed(Rest(m))
  <2> HIDE DEF First, Rest
  <2> QED
    BY <1>6, <1>7
<1> QED
  BY <1>2, <1>3, <1>8 DEF FirstGroups

LEMMA TosAppend ==
  ASSUME NEW q \in Seq(Frame), NEW f \in Frame
  PROVE  Tos(Append(q, f)) = Append(Tos(q), f.to)
<1> DEFINE b == Append(q, f)
<1> DEFINE c == Append(Tos(q), f.to)
<1>1. /\ b \in Seq(Frame) /\ Len(b) = Len(q) + 1 /\ b[Len(q) + 1] = f /\ Len(q) \in Nat
      /\ \A i \in 1..Len(q) : b[i] = q[i]
  BY AppendProperties
<1>2. f.to \in Moments
  BY DEF Frame
<1>3. Tos(q) \in Seq(Moments) /\ Len(Tos(q)) = Len(q) /\ \A i \in 1..Len(q) : Tos(q)[i] = q[i].to
  BY TosType
<1>4. /\ c \in Seq(Moments) /\ Len(c) = Len(q) + 1 /\ c[Len(q) + 1] = f.to
      /\ \A i \in 1..Len(q) : c[i] = q[i].to
  BY <1>2, <1>3, AppendProperties
<1> HIDE DEF b, c
<1>5. /\ Tos(b) \in Seq(Moments) /\ Len(Tos(b)) = Len(q) + 1
      /\ \A i \in 1..(Len(q) + 1) : Tos(b)[i] = b[i].to
  BY <1>1, TosType
<1>6. ASSUME NEW i \in 1..(Len(q) + 1)
      PROVE  Tos(b)[i] = c[i]
  <2>1. CASE i = Len(q) + 1
    BY <1>1, <1>4, <1>5, <2>1
  <2>2. CASE i # Len(q) + 1
    <3>1. i \in 1..Len(q)
      BY <1>1, <2>2
    <3> QED
      BY <1>1, <1>4, <1>5, <3>1
  <2> QED
    BY <2>1, <2>2
<1>7. Tos(b) = c
  BY <1>4, <1>5, <1>6
<1> QED
  BY <1>7 DEF b, c

Newest(groups) == groups[Len(groups)]
Last(frames) == frames[Len(frames)]

\* A capture that went on from the newest one knows it.
Linked(r) ==
  \/ r.previous_raw = NoCapture
  \/ r.groups # << >> /\ r.previous_raw = Last(Newest(r.groups).frames).to

\* What the recorder keeps true of itself.
Sound(r) == Accounted(r) /\ Chained(r.groups) /\ Linked(r)

\* A keyframe opens a group.
LEMMA OpensGroup ==
  ASSUME NEW r, Sound(r), NEW raw \in Moments
  PROVE  LET frame == [keyframe |-> TRUE, from |-> NoCapture, to |-> raw]
             groups == Append(r.groups, [frames |-> << frame >>, bytes |-> Size(frame)])
         IN /\ Ring(groups) /\ Chained(groups) /\ Size(frame) \in Nat
            /\ FramesIn(groups) = r.count + 1 /\ BytesIn(groups) = r.bytes + Size(frame)
            /\ Decompressed(groups) = Append(Decompressed(r.groups), raw)
            /\ Len(groups) = Len(r.groups) + 1
            /\ Last(Newest(groups).frames) = frame /\ groups # << >>
<1> DEFINE frame == [keyframe |-> TRUE, from |-> NoCapture, to |-> raw]
<1> DEFINE q == << frame >>
<1> DEFINE y == [frames |-> q, bytes |-> Size(frame)]
<1> DEFINE gs == r.groups
<1> DEFINE b == Append(gs, y)
<1>1. /\ gs \in Seq(Group) /\ Chained(gs) /\ Ring(gs) /\ r.count = FramesIn(gs) /\ r.bytes = BytesIn(gs)
  BY DEF Sound, Accounted, Chained
<1>2. frame \in Frame
  <2>1. NoCapture \in Captures
    BY DEF NoCapture, Boot, Captures, Modes
  <2> HIDE DEF frame
  <2> QED
    BY <2>1 DEF Frame, frame
<1>3. frame.to = raw /\ frame.keyframe
  OBVIOUS
<1> HIDE DEF frame
<1>4. BytesOf(q) = Size(frame) /\ Size(frame) \in Nat
  <2>1. BytesOf(Append(<< >>, frame)) = BytesOf(<< >>) + Size(frame) /\ Size(frame) \in Nat
    <3>1. << >> \in Seq(Frame)
      OBVIOUS
    <3> QED
      BY <1>2, <3>1, SizesAppend
  <2>2. BytesOf(<< >>) = 0
    <3>1. Sizes(<< >>) = << >>
      BY DEF Sizes
    <3> QED
      BY <3>1, TotalNothing, SumsNamed
  <2>3. Append(<< >>, frame) = q
    OBVIOUS
  <2> QED
    BY <2>1, <2>2, <2>3
<1>5. q \in Seq(Frame) /\ Len(q) = 1 /\ q[1] = frame
  BY <1>2
<1>6. y \in Group /\ y.frames = q /\ y.bytes = Size(frame)
  BY <1>4, <1>5 DEF Group
<1>7. Chain(q)
  BY <1>3, <1>5 DEF Chain
<1>8. FramesPerGroup \in Nat \ {0}
  BY RewindAssumption
<1> HIDE DEF q, y, gs
<1>9. /\ b \in Seq(Group) /\ Len(b) = Len(gs) + 1 /\ b[Len(gs) + 1] = y /\ Len(gs) \in Nat
      /\ \A i \in 1..Len(gs) : b[i] = gs[i]
  BY <1>1, <1>6, AppendProperties
<1> HIDE DEF b
<1>10. Ring(b)
  <2>1. ASSUME NEW j \in 1..(Len(gs) + 1)
        PROVE  Len(b[j].frames) \in 1..FramesPerGroup /\ b[j].bytes = BytesOf(b[j].frames)
    <3>1. CASE j = Len(gs) + 1
      <4>1. b[j] = y /\ y.frames = q /\ y.bytes = BytesOf(q)
        BY <1>4, <1>6, <1>9, <3>1
      <4>2. Len(q) \in 1..FramesPerGroup
        BY <1>5, <1>8
      <4> QED
        BY <4>1, <4>2
    <3>2. CASE j # Len(gs) + 1
      <4>1. j \in 1..Len(gs)
        BY <1>9, <3>2
      <4> QED
        BY <1>1, <1>9, <4>1 DEF Ring
    <3> QED
      BY <3>1, <3>2
  <2> QED
    BY <1>9, <2>1 DEF Ring
<1>11. Chained(b) /\ Decompressed(b) = Decompressed(gs) \o Tos(q) /\ Decompressed(gs) \in Seq(Moments)
  BY <1>1, <1>6, <1>7, LineAppend DEF b
<1>12. Tos(q) = << raw >>
  <2>1. DOMAIN q = {1}
    BY <1>5
  <2>2. Tos(q) = [i \in {1} |-> raw]
    BY <1>3, <1>5, <2>1 DEF Tos
  <2> QED
    BY <2>2
<1>13. Decompressed(b) = Append(Decompressed(gs), raw)
  BY <1>11, <1>12, AppendIsConcat
<1>14. FramesIn(b) = r.count + 1 /\ BytesIn(b) = r.bytes + Size(frame)
  BY <1>1, <1>5, <1>6, AmountsAppend DEF b
<1>15. Last(Newest(b).frames) = frame /\ b # << >>
  <2>1. Newest(b) = y
    BY <1>9 DEF Newest
  <2>2. Last(q) = frame
    BY <1>5 DEF Last
  <2> QED
    BY <1>6, <1>9, <2>1, <2>2
<1> QED
  BY <1>4, <1>9, <1>10, <1>11, <1>13, <1>14, <1>15 DEF b, y, q, frame, gs

\* A difference joins the newest group.
LEMMA JoinsGroup ==
  ASSUME NEW r, Sound(r), NEW raw \in Moments, r.groups # << >>,
         Len(Newest(r.groups).frames) < FramesPerGroup,
         r.previous_raw = Last(Newest(r.groups).frames).to
  PROVE  LET frame == [keyframe |-> FALSE, from |-> r.previous_raw, to |-> raw]
             newest == Newest(r.groups)
             groups == [r.groups EXCEPT ![Len(r.groups)] =
                          [frames |-> Append(newest.frames, frame), bytes |-> newest.bytes + Size(frame)]]
         IN /\ Ring(groups) /\ Chained(groups) /\ Size(frame) \in Nat
            /\ FramesIn(groups) = r.count + 1 /\ BytesIn(groups) = r.bytes + Size(frame)
            /\ Decompressed(groups) = Append(Decompressed(r.groups), raw)
            /\ Len(groups) = Len(r.groups)
            /\ Last(Newest(groups).frames) = frame /\ groups # << >>
<1> DEFINE frame == [keyframe |-> FALSE, from |-> r.previous_raw, to |-> raw]
<1> DEFINE newest == Newest(r.groups)
<1> DEFINE gs == r.groups
<1> DEFINE n == Len(gs)
<1> DEFINE q == newest.frames
<1> DEFINE y == [frames |-> Append(q, frame), bytes |-> newest.bytes + Size(frame)]
<1> DEFINE b == [gs EXCEPT ![n] = y]
<1>1. /\ r \in Recorders /\ gs \in Seq(Group) /\ Chained(gs) /\ Ring(gs)
      /\ r.count = FramesIn(gs) /\ r.bytes = BytesIn(gs)
  BY DEF Sound, Accounted, Chained
<1>2. n \in Nat \ {0} /\ n \in 1..n
  BY <1>1
<1>3. newest = gs[n] /\ newest \in Group
  BY <1>1, <1>2 DEF Newest
<1>4. q \in Seq(Frame) /\ newest.bytes \in Nat /\ Len(q) \in 1..FramesPerGroup /\ newest.bytes = BytesOf(q)
  BY <1>1, <1>2, <1>3 DEF Ring, Group
<1>5. Chain(q)
  BY <1>1, <1>2, <1>3 DEF Chained
<1>6. frame \in Frame /\ frame.to = raw /\ frame.from = q[Len(q)].to
  <2>1. r.previous_raw \in Captures
    BY <1>1 DEF Recorders
  <2>2. r.previous_raw = q[Len(q)].to
    BY DEF Last
  <2> QED
    BY <2>1, <2>2 DEF Frame
<1>7. FramesPerGroup \in Nat \ {0} /\ Len(q) < FramesPerGroup
  BY RewindAssumption
<1> HIDE DEF frame, newest, gs, n, q
<1>8. BytesOf(Append(q, frame)) = BytesOf(q) + Size(frame) /\ Size(frame) \in Nat
  BY <1>4, <1>6, SizesAppend
<1>9. /\ Append(q, frame) \in Seq(Frame) /\ Len(Append(q, frame)) = Len(q) + 1
      /\ Append(q, frame)[Len(q) + 1] = frame /\ \A i \in 1..Len(q) : Append(q, frame)[i] = q[i]
  BY <1>4, <1>6, AppendProperties
<1>10. y \in Group /\ y.frames = Append(q, frame) /\ y.bytes = newest.bytes + Size(frame)
  BY <1>4, <1>8, <1>9 DEF Group
<1> HIDE DEF y
<1>11. Chain(y.frames)
  <2>1. Len(q) \in Nat /\ 1 \in 1..Len(q)
    BY <1>4
  <2>2. y.frames[1].keyframe
    BY <1>5, <1>9, <1>10, <2>1 DEF Chain
  <2>3. ASSUME NEW i \in 2..(Len(q) + 1)
        PROVE  y.frames[i].from = y.frames[i - 1].to
    <3>1. CASE i = Len(q) + 1
      <4>1. i - 1 = Len(q) /\ i - 1 \in 1..Len(q)
        BY <2>1, <3>1
      <4> QED
        BY <1>6, <1>9, <1>10, <3>1, <4>1
    <3>2. CASE i # Len(q) + 1
      <4>1. i \in 2..Len(q) /\ i \in 1..Len(q) /\ i - 1 \in 1..Len(q)
        BY <2>1, <3>2
      <4> QED
        BY <1>5, <1>9, <1>10, <4>1 DEF Chain
    <3> QED
      BY <3>1, <3>2
  <2> QED
    BY <1>9, <1>10, <2>2, <2>3 DEF Chain
<1> DEFINE p == FirstGroups(gs, n - 1)
<1>12. gs = Append(p, newest) /\ p \in Seq(Group)
  <2>1. FirstGroups(gs, n) = gs
    BY <1>1 DEF FirstGroups, n
  <2>2. FirstGroups(gs, n) = Append(p, gs[n]) /\ p \in Seq(Group)
    BY <1>1, <1>2, FirstGroupsGrow DEF n
  <2> QED
    BY <1>3, <2>1, <2>2
<1>13. Chained(p)
  <2>1. 1 \in 1..(Len(gs) + 1) /\ n - 1 \in 0..Len(gs) /\ 1 <= (n - 1) + 1
    BY <1>2 DEF n
  <2> QED
    BY <1>1, <2>1, ChainedPart DEF FirstGroups
<1>14. /\ b \in Seq(Group) /\ Len(b) = n /\ b[n] = y /\ \A j \in 1..n : j # n => b[j] = gs[j]
  BY <1>1, <1>2, <1>10 DEF n
<1>15. b = Append(p, y)
  <2>1. /\ Len(p) = n - 1 /\ \A j \in 1..(n - 1) : p[j] = gs[j]
    <3>1. 1 \in 1..(Len(gs) + 1) /\ n - 1 \in 0..Len(gs) /\ 1 <= (n - 1) + 1
      BY <1>2 DEF n
    <3>2. /\ Len(SubSeq(gs, 1, n - 1)) = (n - 1) - 1 + 1
          /\ \A i \in 1..((n - 1) - 1 + 1) : SubSeq(gs, 1, n - 1)[i] = gs[1 + i - 1]
      BY <1>1, <3>1, PartOf
    <3>3. (n - 1) - 1 + 1 = n - 1
      BY <1>2
    <3>4. ASSUME NEW i \in 1..(n - 1) PROVE SubSeq(gs, 1, n - 1)[i] = gs[i]
      <4>1. i \in 1..((n - 1) - 1 + 1) /\ 1 + i - 1 = i
        BY <3>3
      <4> QED
        BY <3>2, <4>1
    <3> QED
      BY <3>2, <3>3, <3>4 DEF FirstGroups
  <2> HIDE DEF b, p
  <2>2. /\ Append(p, y) \in Seq(Group) /\ Len(Append(p, y)) = n /\ Append(p, y)[n] = y
        /\ \A j \in 1..(n - 1) : Append(p, y)[j] = gs[j]
    <3>1. (n - 1) + 1 = n
      BY <1>2
    <3> QED
      BY <1>10, <1>12, <2>1, <3>1, AppendProperties
  <2>3. ASSUME NEW j \in 1..n PROVE b[j] = Append(p, y)[j]
    <3>1. CASE j = n
      BY <1>14, <2>2, <3>1
    <3>2. CASE j # n
      <4>1. j \in 1..(n - 1)
        BY <1>2, <3>2
      <4> QED
        BY <1>14, <2>2, <3>2, <4>1
    <3> QED
      BY <3>1, <3>2
  <2> QED
    BY <1>14, <2>2, <2>3
<1> HIDE DEF b, p
<1>16. Ring(b)
  <2>1. ASSUME NEW j \in 1..n
        PROVE  Len(b[j].frames) \in 1..FramesPerGroup /\ b[j].bytes = BytesOf(b[j].frames)
    <3>1. CASE j = n
      <4>1. Len(y.frames) \in 1..FramesPerGroup
        BY <1>4, <1>7, <1>9, <1>10
      <4>2. y.bytes = BytesOf(y.frames)
        BY <1>4, <1>8, <1>10
      <4> QED
        BY <1>14, <3>1, <4>1, <4>2
    <3>2. CASE j # n
      BY <1>1, <1>14, <3>2 DEF Ring, n
    <3> QED
      BY <3>1, <3>2
  <2> QED
    BY <1>14, <2>1 DEF Ring
<1> DEFINE d == Decompressed(p)
<1>17. /\ Chained(b) /\ Decompressed(b) = d \o Tos(y.frames) /\ d \in Seq(Moments)
  BY <1>10, <1>11, <1>13, <1>15, LineAppend
<1>18. Decompressed(gs) = d \o Tos(q)
  BY <1>3, <1>5, <1>12, <1>13, LineAppend DEF q
<1>19. Tos(y.frames) = Append(Tos(q), raw) /\ Tos(q) \in Seq(Moments)
  BY <1>4, <1>6, <1>10, TosAppend, TosType
<1>20. Decompressed(b) = Append(Decompressed(gs), raw)
  <2> DEFINE t == Tos(q)
  <2> HIDE DEF d, t
  <2>1. d \in Seq(Moments) /\ t \in Seq(Moments)
    BY <1>17, <1>19 DEF t
  <2>2. d \o Append(t, raw) = Append(d \o t, raw)
    BY <2>1
  <2> QED
    BY <1>17, <1>18, <1>19, <2>2 DEF t
<1>21. FramesIn(b) = r.count + 1 /\ BytesIn(b) = r.bytes + Size(frame)
  <2>1. FramesIn(b) = FramesIn(p) + Len(y.frames) /\ BytesIn(b) = BytesIn(p) + y.bytes
    BY <1>10, <1>12, <1>15, AmountsAppend
  <2>2. FramesIn(gs) = FramesIn(p) + Len(q) /\ BytesIn(gs) = BytesIn(p) + newest.bytes
    BY <1>3, <1>12, AmountsAppend DEF q
  <2>3. FramesIn(p) \in Nat /\ BytesIn(p) \in Nat
    <3>1. 0 \in 0..Len(p)
      BY <1>12
    <3> QED
      BY <1>12, <3>1, OldestOut
  <2>4. Len(y.frames) = Len(q) + 1 /\ Len(q) \in Nat /\ y.bytes = newest.bytes + Size(frame)
    BY <1>4, <1>9, <1>10
  <2> QED
    BY <1>1, <1>4, <1>8, <2>1, <2>2, <2>3, <2>4
<1>22. Last(Newest(b).frames) = frame /\ b # << >>
  <2>1. Len(y.frames) = Len(q) + 1 /\ y.frames[Len(q) + 1] = frame
    BY <1>9, <1>10
  <2> QED
    BY <1>2, <1>14, <2>1 DEF Last, Newest
<1> QED
  BY <1>8, <1>14, <1>16, <1>17, <1>20, <1>21, <1>22 DEF b, y, q, newest, frame, n, gs

StoredFrame(r, raw) ==
  [keyframe |-> NeedKeyframe(r, raw),
   from |-> IF NeedKeyframe(r, raw) THEN NoCapture ELSE r.previous_raw, to |-> raw]
StoredGroups(r, raw) ==
  LET frame == StoredFrame(r, raw)
      open == IF NeedKeyframe(r, raw) THEN Append(r.groups, [frames |-> << >>, bytes |-> 0]) ELSE r.groups
  IN [open EXCEPT ![Len(open)] = [frames |-> Append(@.frames, frame), bytes |-> @.bytes + Size(frame)]]

LEMMA StoredSteps ==
  ASSUME NEW r, NEW raw
  PROVE  Stored(r, raw) = [r EXCEPT !.groups = StoredGroups(r, raw),
                                    !.bytes = @ + Size(StoredFrame(r, raw)), !.count = @ + 1,
                                    !.previous_raw = raw]
BY DEF Stored, StoredGroups, StoredFrame

LEMMA StoredGroupsGrow ==
  ASSUME NEW r, Sound(r), NEW raw \in Moments
  PROVE  LET groups == StoredGroups(r, raw)
             frame == StoredFrame(r, raw)
         IN /\ Ring(groups) /\ Chained(groups) /\ Size(frame) \in Nat
            /\ FramesIn(groups) = r.count + 1 /\ BytesIn(groups) = r.bytes + Size(frame)
            /\ Decompressed(groups) = Append(Decompressed(r.groups), raw)
            /\ Last(Newest(groups).frames) = frame /\ groups # << >>
<1>1. r \in Recorders /\ r.groups \in Seq(Group) /\ Len(r.groups) \in Nat
  BY DEF Sound, Accounted, Chained
<1>2. CASE NeedKeyframe(r, raw)
  <2> DEFINE frame == [keyframe |-> TRUE, from |-> NoCapture, to |-> raw]
  <2>1. StoredFrame(r, raw) = frame
    BY <1>2 DEF StoredFrame
  <2> DEFINE empty == [frames |-> << >>, bytes |-> 0]
  <2> DEFINE open == Append(r.groups, empty)
  <2> DEFINE y == [frames |-> << frame >>, bytes |-> Size(frame)]
  <2> DEFINE groups == Append(r.groups, y)
  <2>2. /\ Ring(groups) /\ Chained(groups) /\ Size(frame) \in Nat
        /\ FramesIn(groups) = r.count + 1 /\ BytesIn(groups) = r.bytes + Size(frame)
        /\ Decompressed(groups) = Append(Decompressed(r.groups), raw)
        /\ Last(Newest(groups).frames) = frame /\ groups # << >>
    BY OpensGroup
  <2> HIDE DEF frame
  <2>3. empty \in Group
    <3>1. << >> \in Seq(Frame)
      OBVIOUS
    <3> QED
      BY <3>1 DEF Group
  <2>4. y \in Group
    <3>1. groups \in Seq(Group) /\ Len(groups) = Len(r.groups) + 1 /\ groups[Len(r.groups) + 1] = y
      BY <1>1, <2>2 DEF Ring
    <3> QED
      BY <1>1, <3>1
  <2>5. StoredGroups(r, raw) =
          [open EXCEPT ![Len(open)] =
             [frames |-> Append(open[Len(open)].frames, frame),
              bytes |-> open[Len(open)].bytes + Size(frame)]]
    BY <1>2, <2>1 DEF StoredGroups
  <2> DEFINE n == Len(r.groups)
  <2>6. /\ open \in Seq(Group) /\ Len(open) = n + 1 /\ open[n + 1] = empty
        /\ \A j \in 1..n : open[j] = r.groups[j]
    BY <1>1, <2>3, AppendProperties
  <2>7. Append(empty.frames, frame) = << frame >> /\ empty.bytes + Size(frame) = Size(frame)
    BY <2>2
  <2>8. StoredGroups(r, raw) = [open EXCEPT ![n + 1] = y]
    <3> HIDE DEF open, empty
    <3> QED
      BY <2>5, <2>6, <2>7
  <2>9. /\ groups \in Seq(Group) /\ Len(groups) = n + 1 /\ groups[n + 1] = y
        /\ \A j \in 1..n : groups[j] = r.groups[j]
    BY <1>1, <2>4, AppendProperties
  <2> HIDE DEF open, groups, y, empty
  <2>10. [open EXCEPT ![n + 1] = y] = groups
    <3> DEFINE e == [open EXCEPT ![n + 1] = y]
    <3>1. n + 1 \in 1..(n + 1)
      BY <1>1
    <3>2. /\ e \in Seq(Group) /\ Len(e) = n + 1 /\ e[n + 1] = y
          /\ \A j \in 1..(n + 1) : j # n + 1 => e[j] = open[j]
      BY <2>4, <2>6, <3>1
    <3> HIDE DEF e
    <3>3. ASSUME NEW j \in 1..(n + 1) PROVE e[j] = groups[j]
      <4>1. CASE j = n + 1
        BY <2>9, <3>2, <4>1
      <4>2. CASE j # n + 1
        <5>1. j \in 1..n
          BY <1>1, <4>2
        <5> QED
          BY <2>6, <2>9, <3>2, <4>2, <5>1
      <4> QED
        BY <4>1, <4>2
    <3> QED
      BY <2>9, <3>2, <3>3 DEF e
  <2> QED
    BY <2>1, <2>2, <2>8, <2>10
<1>3. CASE ~NeedKeyframe(r, raw)
  <2> DEFINE frame == [keyframe |-> FALSE, from |-> r.previous_raw, to |-> raw]
  <2>1. StoredFrame(r, raw) = frame
    BY <1>3 DEF StoredFrame, NeedKeyframe
  <2>2. /\ r.groups # << >> /\ ~(Len(Newest(r.groups).frames) >= FramesPerGroup)
        /\ r.previous_raw.mode = raw.mode
    BY <1>3 DEF NeedKeyframe, Newest
  <2>3. r.previous_raw = Last(Newest(r.groups).frames).to
    <3>1. raw.mode # "none" /\ NoCapture.mode = "none"
      BY DEF Moments, Media, NoCapture, Boot
    <3> QED
      BY <2>2, <3>1 DEF Sound, Linked
  <2>4. Len(Newest(r.groups).frames) < FramesPerGroup
    <3>1. Len(r.groups) \in 1..Len(r.groups)
      BY <1>1, <2>2
    <3>2. Len(Newest(r.groups).frames) \in 1..FramesPerGroup
      BY <3>1 DEF Sound, Accounted, Ring, Newest
    <3>3. FramesPerGroup \in Nat
      BY RewindAssumption
    <3> QED
      BY <2>2, <3>2, <3>3
  <2> DEFINE newest == Newest(r.groups)
  <2> DEFINE groups == [r.groups EXCEPT ![Len(r.groups)] =
                [frames |-> Append(newest.frames, frame), bytes |-> newest.bytes + Size(frame)]]
  <2>5. /\ Ring(groups) /\ Chained(groups) /\ Size(frame) \in Nat
        /\ FramesIn(groups) = r.count + 1 /\ BytesIn(groups) = r.bytes + Size(frame)
        /\ Decompressed(groups) = Append(Decompressed(r.groups), raw)
        /\ Last(Newest(groups).frames) = frame /\ groups # << >>
    BY <2>2, <2>3, <2>4, JoinsGroup
  <2>6. StoredGroups(r, raw) = groups
    BY <1>3, <2>1 DEF StoredGroups, Newest
  <2> HIDE DEF groups, frame
  <2> QED
    BY <2>1, <2>5, <2>6
<1> QED
  BY <1>2, <1>3

LEMMA StoredKeeps ==
  ASSUME NEW r, Sound(r), NEW raw \in Moments
  PROVE  LET x == Stored(r, raw) IN
         /\ Sound(x) /\ x.count = r.count + 1 /\ x.groups # << >>
         /\ Decompressed(x.groups) = Append(Decompressed(r.groups), raw)
         /\ x = [r EXCEPT !.groups = x.groups, !.bytes = x.bytes, !.count = x.count, !.previous_raw = raw]
<1> DEFINE x == Stored(r, raw)
<1> DEFINE groups == StoredGroups(r, raw)
<1> DEFINE frame == StoredFrame(r, raw)
<1>1. r \in Recorders /\ r.count \in Nat /\ r.bytes \in Nat
  BY DEF Sound, Accounted, Recorders
<1>2. /\ Ring(groups) /\ Chained(groups) /\ Size(frame) \in Nat
      /\ FramesIn(groups) = r.count + 1 /\ BytesIn(groups) = r.bytes + Size(frame)
      /\ Decompressed(groups) = Append(Decompressed(r.groups), raw)
      /\ Last(Newest(groups).frames) = frame /\ groups # << >>
  BY StoredGroupsGrow
<1>3. frame.to = raw
  BY DEF StoredFrame
<1> HIDE DEF groups, frame
<1>4. PICK b \in Nat : b = r.bytes + Size(frame)
  BY <1>1, <1>2
<1>5. PICK c \in Nat : c = r.count + 1
  BY <1>1
<1>6. x = [r EXCEPT !.groups = groups, !.bytes = b, !.count = c, !.previous_raw = raw]
  BY <1>1, <1>4, <1>5, StoredSteps DEF groups, frame
<1> HIDE DEF x
<1>7. groups \in Seq(Group) /\ raw \in Captures
  BY <1>2 DEF Ring, Moments
<1>8. x \in Recorders /\ x.groups = groups /\ x.bytes = b /\ x.count = c /\ x.previous_raw = raw
  BY <1>1, <1>6, <1>7 DEF Recorders
<1>9. Accounted(x)
  BY <1>2, <1>4, <1>5, <1>8 DEF Accounted
<1>10. Linked(x)
  BY <1>2, <1>3, <1>8 DEF Linked
<1> QED
  BY <1>2, <1>5, <1>6, <1>8, <1>9, <1>10 DEF Sound, x

LEMMA TosPart ==
  ASSUME NEW q \in Seq(Frame), NEW c \in 0..Len(q)
  PROVE  Tos(SubSeq(q, 1, c)) = SubSeq(Tos(q), 1, c)
<1> DEFINE p == SubSeq(q, 1, c)
<1> DEFINE d == SubSeq(Tos(q), 1, c)
<1>1. p \in Seq(Frame) /\ Len(p) = c /\ c \in Nat /\ \A i \in 1..c : p[i] = q[i] /\ i \in 1..Len(q)
  BY PartOf
<1>2. Tos(q) \in Seq(Moments) /\ Len(Tos(q)) = Len(q) /\ \A i \in 1..Len(q) : Tos(q)[i] = q[i].to
  BY TosType
<1>3. d \in Seq(Moments) /\ Len(d) = c /\ \A i \in 1..c : d[i] = Tos(q)[i]
  BY <1>2, PartOf
<1> HIDE DEF p, d
<1>4. Tos(p) \in Seq(Moments) /\ Len(Tos(p)) = c /\ \A i \in 1..c : Tos(p)[i] = p[i].to
  BY <1>1, TosType
<1>5. Tos(p) = d
  BY <1>1, <1>2, <1>3, <1>4
<1> QED
  BY <1>5 DEF p, d

LEMMA OlderChained ==
  ASSUME NEW r, Sound(r), NEW groups, Older(groups, r)
  PROVE  Chained(groups)
<1>1. groups \in Seq(Group) /\ Len(groups) \in Nat /\ Len(r.groups) \in Nat /\ Len(groups) <= Len(r.groups)
  BY DEF Older, Ring, Sound, Chained
<1>2. ASSUME NEW j \in 1..Len(groups)
      PROVE  Chain(groups[j].frames)
  <2>1. PICK c \in 1..Len(r.groups[j].frames) : groups[j].frames = SubSeq(r.groups[j].frames, 1, c)
    BY DEF Older
  <2>2. j \in 1..Len(r.groups)
    BY <1>1
  <2> DEFINE q == r.groups[j].frames
  <2>3. q \in Seq(Frame) /\ Chain(q) /\ Len(q) \in Nat
    <3>1. r.groups[j] \in Group
      BY <2>2 DEF Sound, Chained
    <3>2. q \in Seq(Frame)
      BY <3>1 DEF Group
    <3> QED
      BY <2>2, <3>2 DEF Sound, Chained
  <2> HIDE DEF q
  <2>4. c \in 0..Len(q) /\ c \in 1..Len(q)
    BY <2>1, <2>3 DEF q
  <2> DEFINE p == SubSeq(q, 1, c)
  <2>5. Len(p) = c /\ \A i \in 1..c : p[i] = q[i] /\ i \in 1..Len(q)
    BY <2>3, <2>4, PartOf
  <2> HIDE DEF p
  <2>6. ASSUME NEW i \in 2..c PROVE p[i].from = p[i - 1].to
    <3>1. i \in 1..c /\ i - 1 \in 1..c /\ i \in 2..Len(q)
      BY <2>3, <2>4
    <3> QED
      BY <2>3, <2>5, <3>1 DEF Chain
  <2>7. p[1].keyframe
    <3>1. 1 \in 1..c
      BY <2>3, <2>4
    <3> QED
      BY <2>3, <2>5, <3>1 DEF Chain
  <2>8. Chain(p)
    BY <2>5, <2>6, <2>7 DEF Chain
  <2> QED
    BY <2>1, <2>8 DEF p, q
<1> QED
  BY <1>1, <1>2 DEF Chained

LEMMA PrefixOfThree ==
  ASSUME NEW S, NEW a \in Seq(S), NEW t \in Seq(S), NEW u \in Seq(S), NEW c \in 1..Len(t)
  PROVE  SubSeq((a \o t) \o u, 1, Len(a) + c) = a \o SubSeq(t, 1, c)
<1> DEFINE w == (a \o t) \o u
<1> DEFINE p == SubSeq(t, 1, c)
<1> DEFINE x == SubSeq(w, 1, Len(a) + c)
<1> DEFINE y == a \o p
<1>1. Len(a) \in Nat /\ Len(t) \in Nat /\ Len(u) \in Nat /\ c \in Nat \ {0} /\ c <= Len(t)
  OBVIOUS
<1>2. w \in Seq(S) /\ Len(w) = Len(a) + Len(t) + Len(u)
  OBVIOUS
<1>3. p \in Seq(S) /\ Len(p) = c /\ \A i \in 1..c : p[i] = t[i]
  BY <1>1
<1>4. \A i \in 1..Len(a) : w[i] = a[i]
  BY <1>1
<1>5. \A i \in 1..c : w[Len(a) + i] = t[i]
  BY <1>1
<1> HIDE DEF w, p
<1>6. x \in Seq(S) /\ Len(x) = Len(a) + c /\ \A i \in 1..(Len(a) + c) : x[i] = w[i]
  BY <1>1, <1>2
<1>7. /\ y \in Seq(S) /\ Len(y) = Len(a) + c
      /\ \A i \in 1..Len(a) : y[i] = a[i]
      /\ \A i \in 1..c : y[Len(a) + i] = p[i]
  <2>1. y \in Seq(S) /\ Len(y) = Len(a) + c
    BY <1>3, ConcatProperties
  <2>2. \A i \in 1..(Len(a) + Len(p)) : y[i] = IF i <= Len(a) THEN a[i] ELSE p[i - Len(a)]
    BY <1>3, ConcatProperties
  <2>3. \A i \in 1..Len(a) : i \in 1..(Len(a) + Len(p)) /\ i <= Len(a)
    BY <1>1, <1>3
  <2>4. \A i \in 1..c : /\ Len(a) + i \in 1..(Len(a) + Len(p)) /\ ~(Len(a) + i <= Len(a))
                        /\ (Len(a) + i) - Len(a) = i
    BY <1>1, <1>3
  <2> HIDE DEF y
  <2> QED
    BY <2>1, <2>2, <2>3, <2>4
<1> HIDE DEF x, y
<1>8. ASSUME NEW i \in 1..(Len(a) + c) PROVE x[i] = y[i]
  <2>1. CASE i <= Len(a)
    <3>1. i \in 1..Len(a)
      BY <1>1, <2>1
    <3> QED
      BY <1>4, <1>6, <1>7, <3>1
  <2>2. CASE ~(i <= Len(a))
    <3>1. PICK k \in 1..c : Len(a) + k = i
      <4>1. i - Len(a) \in 1..c /\ Len(a) + (i - Len(a)) = i
        BY <1>1, <2>2
      <4> QED
        BY <4>1
    <3>2. w[Len(a) + k] = t[k] /\ y[Len(a) + k] = p[k] /\ p[k] = t[k]
      BY <1>3, <1>5, <1>7
    <3> QED
      BY <1>6, <3>1, <3>2
  <2> QED
    BY <2>1, <2>2
<1>9. x = y
  BY <1>6, <1>7, <1>8
<1> QED
  BY <1>9 DEF x, y, w, p

\* Cutting the history back keeps its oldest captures, down to the one sought.
LEMMA KeptLine ==
  ASSUME NEW r, Sound(r), r.seek_position > 0
  PROVE  Decompressed(KeptGroups(r)) = SubSeq(Decompressed(r.groups), 1, r.count - r.seek_position)
<1> DEFINE gs == r.groups
<1> DEFINE m == Len(gs)
<1> DEFINE keep == r.count - r.seek_position
<1> DEFINE K == KeptGroups(r)
<1> DEFINE L == Decompressed(gs)
<1>1. /\ r \in Recorders /\ gs \in Seq(Group) /\ Ring(gs) /\ Chained(gs) /\ m \in Nat
      /\ r.count = FramesIn(gs) /\ r.count \in Nat /\ r.seek_position \in Int
      /\ keep \in Int /\ keep < r.count
  <2>1. r \in Recorders /\ Ring(gs) /\ Chained(gs) /\ r.count = FramesIn(gs) /\ gs \in Seq(Group)
    BY DEF Sound, Accounted, Ring
  <2>2. r.count \in Nat /\ r.seek_position \in Int
    BY <2>1 DEF Recorders
  <2> QED
    BY <2>1, <2>2
<1>2. PICK k \in 0..m : {j \in DOMAIN gs : FramesIn(FirstGroups(gs, j - 1)) < keep} = 1..k
  <2> HIDE DEF gs, keep, m
  <2> QED
    BY <1>1, WholeGroups DEF m
<1>3. K = [j \in 1..k |->
             [frames |-> Remains(r, j),
              bytes |-> gs[j].bytes - BytesOf(gs[j].frames) + BytesOf(Remains(r, j))]]
  BY <1>2 DEF KeptGroups
<1>4. Older(K, r) /\ K \in Seq(Group) /\ Chained(K)
  <2>1. Older(K, r)
    BY KeptGroupsOlder DEF Sound
  <2> HIDE DEF K
  <2> QED
    BY <2>1, OlderChained DEF Older, Ring
<1>5. L \in Seq(Moments) /\ Len(L) = r.count
  BY <1>1, LineLength
<1> HIDE DEF gs, keep, K, m, L
<1>6. k \in Nat /\ k <= m /\ DOMAIN gs = 1..m
  BY <1>1, <1>2 DEF m
<1>7. Len(K) = k
  <2>1. DOMAIN K = 1..k
    BY <1>3
  <2> QED
    BY <1>4, <1>6, <2>1
<1>8. ASSUME NEW j \in 1..m
      PROVE  /\ FramesIn(FirstGroups(gs, j)) = FramesIn(FirstGroups(gs, j - 1)) + Len(gs[j].frames)
             /\ FramesIn(FirstGroups(gs, j - 1)) \in Nat
             /\ gs[j].frames \in Seq(Frame) /\ gs[j] \in Group
             /\ Len(gs[j].frames) \in Nat \ {0} /\ gs[j].bytes = BytesOf(gs[j].frames)
             /\ BytesOf(gs[j].frames) \in Nat
  <2>1. /\ FirstGroups(gs, j) = Append(FirstGroups(gs, j - 1), gs[j])
        /\ FirstGroups(gs, j - 1) \in Seq(Group) /\ gs[j] \in Group
    BY <1>1, FirstGroupsGrow DEF m
  <2>2. FramesIn(Append(FirstGroups(gs, j - 1), gs[j])) = FramesIn(FirstGroups(gs, j - 1)) + Len(gs[j].frames)
    BY <2>1, AmountsAppend
  <2>3. FramesIn(FirstGroups(gs, j - 1)) \in Nat
    <3>1. j - 1 \in 0..Len(gs)
      BY <1>1 DEF m
    <3> QED
      BY <1>1, <3>1, OldestOut
  <2>4. gs[j].frames \in Seq(Frame) /\ gs[j].bytes \in Nat
    BY <2>1 DEF Group
  <2>5. Len(gs[j].frames) \in 1..FramesPerGroup /\ gs[j].bytes = BytesOf(gs[j].frames)
    BY <1>1 DEF Ring, m
  <2>6. FramesPerGroup \in Nat
    BY RewindAssumption
  <2> QED
    BY <2>1, <2>2, <2>3, <2>4, <2>5, <2>6
<1>9. CASE k = 0
  <2>1. K = << >>
    BY <1>4, <1>7, <1>9
  <2>2. keep <= 0
    <3>1. CASE m = 0
      <4>1. FramesIn(gs) = 0
        BY <1>1, <3>1, LastGroupOnly DEF m
      <4> QED
        BY <1>1, <4>1
    <3>2. CASE m # 0
      <4>1. 1 \in 1..m /\ 1 \notin 1..k
        BY <1>1, <1>9, <3>2
      <4>2. ~(FramesIn(FirstGroups(gs, 1 - 1)) < keep)
        BY <1>2, <1>6, <4>1
      <4>3. FirstGroups(gs, 1 - 1) = << >>
        BY <1>1 DEF FirstGroups
      <4>4. FramesIn(<< >>) = 0
        <5>1. Ring(<< >>) /\ Len(<< >>) = 0
          BY DEF Ring
        <5> QED
          BY <5>1, LastGroupOnly
      <4> QED
        BY <1>1, <4>2, <4>3, <4>4
    <3> QED
      BY <3>1, <3>2
  <2>3. SubSeq(L, 1, keep) = << >>
    BY <1>1, <1>5, <2>2, SubSeqEmpty
  <2> QED
    BY <2>1, <2>3, LineNothing DEF K, L, gs, keep
<1>10. CASE k # 0
  <2>1. k \in 1..m /\ k \in 1..k /\ k - 1 \in 0..m
    BY <1>1, <1>6, <1>10
  <2> DEFINE before == FramesIn(FirstGroups(gs, k - 1))
  <2> DEFINE q == gs[k].frames
  <2> DEFINE c == Min({Len(q), keep - before})
  <2>2. before \in Nat /\ before < keep
    BY <1>2, <1>8, <2>1
  <2>3. q \in Seq(Frame) /\ Len(q) \in Nat \ {0} /\ FramesIn(FirstGroups(gs, k)) = before + Len(q)
    BY <1>8, <2>1
  <2>4. K[k].frames = SubSeq(q, 1, c)
    <3>1. K[k].frames = Remains(r, k)
      BY <1>3, <2>1
    <3>2. Allowed(r, k) = keep - before
      BY DEF Allowed, keep, gs
    <3> QED
      BY <3>1, <3>2 DEF Remains, gs
  <2> HIDE DEF before, q, c
  <2>5. c \in {Len(q), keep - before} /\ c <= Len(q) /\ c <= keep - before
    <3>1. {Len(q), keep - before} \in SUBSET Nat /\ {Len(q), keep - before} # {}
      BY <1>1, <2>2, <2>3
    <3> QED
      BY <3>1, MinIsLeast DEF c
  <2>6. c \in 1..Len(q) /\ c \in 0..Len(q)
    BY <1>1, <2>2, <2>3, <2>5
  <2>7. before + c = keep
    <3>1. CASE c = keep - before
      BY <1>1, <2>2, <3>1
    <3>2. CASE c # keep - before
      <4>1. c = Len(q) /\ before + Len(q) < keep
        BY <1>1, <2>2, <2>3, <2>5, <3>2
      <4>2. CASE k = m
        <5>1. FirstGroups(gs, m) = gs
          BY <1>1 DEF FirstGroups, m
        <5>2. FramesIn(gs) = before + Len(q)
          BY <2>3, <4>2, <5>1
        <5> QED
          BY <1>1, <2>2, <2>3, <4>1, <5>2
      <4>3. CASE k # m
        <5>1. k + 1 \in 1..m /\ k + 1 \notin 1..k /\ (k + 1) - 1 = k
          BY <1>1, <1>6, <4>3
        <5>2. FramesIn(FirstGroups(gs, (k + 1) - 1)) < keep
          BY <2>3, <4>1, <5>1
        <5> QED
          BY <1>2, <1>6, <5>1, <5>2
      <4> QED
        BY <4>2, <4>3
    <3> QED
      BY <3>1, <3>2
  <2> DEFINE p == FirstGroups(gs, k - 1)
  <2>8. FirstGroups(gs, k) = Append(p, gs[k]) /\ p \in Seq(Group) /\ gs[k] \in Group
    BY <1>1, <2>1, FirstGroupsGrow DEF m
  <2>9. Len(p) = k - 1 /\ \A j \in 1..(k - 1) : p[j] = gs[j]
    <3>1. 1 \in 1..(Len(gs) + 1) /\ k - 1 \in 0..Len(gs) /\ 1 <= (k - 1) + 1
      BY <1>6, <2>1 DEF m
    <3>2. /\ Len(SubSeq(gs, 1, k - 1)) = (k - 1) - 1 + 1
          /\ \A i \in 1..((k - 1) - 1 + 1) : SubSeq(gs, 1, k - 1)[i] = gs[1 + i - 1]
      BY <1>1, <3>1, PartOf
    <3>3. (k - 1) - 1 + 1 = k - 1
      BY <1>6
    <3>4. ASSUME NEW i \in 1..(k - 1) PROVE SubSeq(gs, 1, k - 1)[i] = gs[i]
      <4>1. i \in 1..((k - 1) - 1 + 1) /\ 1 + i - 1 = i
        BY <3>3
      <4> QED
        BY <3>2, <4>1
    <3> QED
      BY <3>2, <3>3, <3>4 DEF FirstGroups
  <2> HIDE DEF p
  <2>10. ASSUME NEW j \in 1..(k - 1) PROVE K[j] = gs[j]
    <3>1. j \in 1..m /\ j \in 1..k /\ j + 1 \in 1..k /\ j + 1 \in 1..m /\ (j + 1) - 1 = j
      BY <1>1, <1>6, <2>1
    <3> DEFINE b == FramesIn(FirstGroups(gs, j - 1))
    <3> DEFINE s == gs[j].frames
    <3>2. FramesIn(FirstGroups(gs, (j + 1) - 1)) < keep
      BY <1>2, <3>1
    <3>3. /\ FramesIn(FirstGroups(gs, j)) = b + Len(s) /\ b \in Nat /\ s \in Seq(Frame)
          /\ gs[j] \in Group /\ Len(s) \in Nat \ {0} /\ gs[j].bytes = BytesOf(s) /\ BytesOf(s) \in Nat
      BY <1>8, <3>1
    <3> HIDE DEF b, s
    <3>4. keep - b \in Nat /\ Len(s) < keep - b
      BY <1>1, <3>1, <3>2, <3>3
    <3>5. Min({Len(s), keep - b}) = Len(s)
      <4>1. {Len(s), keep - b} \in SUBSET Nat /\ {Len(s), keep - b} # {}
        BY <3>3, <3>4
      <4>2. /\ Min({Len(s), keep - b}) \in {Len(s), keep - b}
            /\ Min({Len(s), keep - b}) <= Len(s)
        BY <4>1, MinIsLeast
      <4> QED
        BY <3>3, <3>4, <4>2
    <3>6. Remains(r, j) = s
      <4>1. Allowed(r, j) = keep - b
        BY DEF Allowed, keep, gs, b
      <4>2. SubSeq(s, 1, Len(s)) = s
        BY <3>3
      <4> QED
        BY <3>5, <4>1, <4>2 DEF Remains, gs, s
    <3>7. K[j] = [frames |-> s, bytes |-> gs[j].bytes - BytesOf(s) + BytesOf(s)]
      BY <1>3, <3>1, <3>6 DEF s
    <3>8. gs[j].bytes - BytesOf(s) + BytesOf(s) = gs[j].bytes
      BY <3>3
    <3>9. gs[j] = [frames |-> s, bytes |-> gs[j].bytes]
      BY <3>3 DEF Group, s
    <3> QED
      BY <3>7, <3>8, <3>9
  <2>11. K = Append(p, K[k]) /\ K[k] \in Group
    <3>1. K[k] \in Group
      BY <1>4, <1>7, <2>1
    <3> DEFINE e == Append(p, K[k])
    <3>2. /\ e \in Seq(Group) /\ Len(e) = (k - 1) + 1 /\ e[(k - 1) + 1] = K[k]
          /\ \A j \in 1..(k - 1) : e[j] = p[j]
      BY <2>8, <2>9, <3>1, AppendProperties
    <3>3. (k - 1) + 1 = k
      BY <1>6
    <3> HIDE DEF e
    <3>4. ASSUME NEW j \in 1..k PROVE K[j] = e[j]
      <4>1. CASE j = k
        BY <3>2, <3>3, <4>1
      <4>2. CASE j # k
        <5>1. j \in 1..(k - 1)
          BY <1>6, <4>2
        <5> QED
          BY <2>9, <2>10, <3>2, <5>1
      <4> QED
        BY <4>1, <4>2
    <3>5. K = e
      BY <1>4, <1>7, <3>2, <3>3, <3>4
    <3> QED
      BY <3>1, <3>5 DEF e
  <2> DEFINE a == Decompressed(p)
  <2> DEFINE t == Tos(q)
  <2> DEFINE u == Decompressed(SubSeq(gs, k + 1, Len(gs)))
  <2>12. Chained(p)
    <3>1. k - 1 \in 0..Len(gs)
      BY <2>1 DEF m
    <3> QED
      BY <1>1, <3>1, LineSplit DEF p
  <2>13. Chain(K[k].frames) /\ Chain(q)
    BY <1>1, <1>4, <1>7, <2>1 DEF Chained, m, q
  <2>14. Decompressed(K) = a \o Tos(K[k].frames)
    BY <2>11, <2>12, <2>13, LineAppend
  <2>15. Decompressed(FirstGroups(gs, k)) = a \o t /\ a \in Seq(Moments) /\ t \in Seq(Moments)
    BY <2>8, <2>12, <2>13, LineAppend DEF q
  <2>16. L = Decompressed(FirstGroups(gs, k)) \o u /\ u \in Seq(Moments)
    <3>1. k \in 0..Len(gs)
      BY <1>6, <2>1 DEF m
    <3> QED
      BY <1>1, <3>1, LineSplit DEF L
  <2>17. Tos(K[k].frames) = SubSeq(t, 1, c) /\ Len(t) = Len(q)
    BY <2>3, <2>4, <2>6, TosPart, TosType
  <2>18. Len(a) = before
    BY <2>12, LineLength DEF before, p
  <2> HIDE DEF a, t, u
  <2>19. SubSeq((a \o t) \o u, 1, Len(a) + c) = a \o SubSeq(t, 1, c)
    <3>1. c \in 1..Len(t)
      BY <2>6, <2>17
    <3> QED
      BY <2>15, <2>16, <3>1, PrefixOfThree
  <2>20. Decompressed(K) = SubSeq(L, 1, keep)
    <3>1. Decompressed(K) = a \o SubSeq(t, 1, c)
      BY <2>14, <2>17
    <3>2. L = (a \o t) \o u /\ Len(a) + c = keep
      BY <2>7, <2>15, <2>16, <2>18
    <3> QED
      BY <2>19, <3>1, <3>2
  <2> QED
    BY <2>20 DEF K, L, gs, keep
<1> QED
  BY <1>9, <1>10

-----------------------------------------------------------------------------
(* What each operation of the recorder leaves.                               *)

Line(r) == Decompressed(r.groups)

\* The line without the future that the cursor has left behind.
Past(r) == SubSeq(Line(r), 1, IF r.seek_position > 0 THEN r.count - r.seek_position ELSE r.count)

\* All captures are of the shape the ring was opened for.
Shaped(r) == \A i \in 1..r.count : Line(r)[i].mode = r.raw_size

InWindow(r) ==
  /\ r.count <= TargetCapacity(r) + FramesPerGroup
  /\ r.bytes <= r.memory_limit \/ Len(r.groups) = 1
  /\ r.seek_position \in -1..TargetCapacity(r) - 1

Kept(r) ==
  /\ Sound(r) /\ Shaped(r) /\ InWindow(r)
  /\ r.enabled \/ r.groups = << >>

Options(r) == <<r.enabled, r.seconds, r.frames_per_snapshot, r.memory_limit>>

LEMMA SameTarget ==
  ASSUME NEW r, NEW x, Options(x) = Options(r)
  PROVE  /\ TargetCapacity(x) = TargetCapacity(r) /\ x.memory_limit = r.memory_limit
         /\ x.enabled = r.enabled /\ x.seconds = r.seconds
         /\ x.frames_per_snapshot = r.frames_per_snapshot
BY DEF Options, TargetCapacity

LEMMA LineType ==
  ASSUME NEW r, Sound(r)
  PROVE  /\ Line(r) \in Seq(Moments) /\ Len(Line(r)) = r.count /\ r.count \in Nat
         /\ r \in Recorders /\ r.groups \in Seq(Group) /\ Chained(r.groups)
         /\ r.groups = << >> => r.count = 0 /\ Line(r) = << >>
<1>1. /\ r \in Recorders /\ r.groups \in Seq(Group) /\ Chained(r.groups) /\ Ring(r.groups)
      /\ r.count = FramesIn(r.groups)
  BY DEF Sound, Accounted, Ring
<1>2. Line(r) \in Seq(Moments) /\ Len(Line(r)) = r.count
  BY <1>1, LineLength DEF Line
<1>3. r.groups = << >> => r.count = 0 /\ Line(r) = << >>
  <2>1. r.groups = << >> => Line(r) = << >>
    BY LineNothing DEF Line
  <2>2. Len(<< >>) = 0
    OBVIOUS
  <2> QED
    BY <1>2, <2>1, <2>2
<1>4. r.count \in Nat
  BY <1>1 DEF Recorders
<1> QED
  BY <1>1, <1>2, <1>3, <1>4

LEMMA ForgottenKeeps ==
  ASSUME NEW r \in Recorders
  PROVE  LET x == Forgotten(r) IN
         /\ Kept(x) /\ x.groups = << >> /\ x.count = 0 /\ Line(x) = << >> /\ x.seek_position = -1
         /\ x.missed = FALSE /\ x.gap = FALSE /\ x.raw_size = "none" /\ x.device = 0
         /\ x.memory_limited = FALSE /\ x.frame_accum = 0 /\ Options(x) = Options(r)
<1> DEFINE x == Forgotten(r)
<1>1. << >> \in Seq(Group) /\ NoCapture \in Captures /\ "none" \in Modes
  BY DEF NoCapture, Boot, Captures, Modes
<1>2. PICK none \in Captures, no \in Seq(Group), nothing \in Modes, away \in Int :
        none = NoCapture /\ no = << >> /\ nothing = "none" /\ away = -1
  <2>1. \E away \in Int : away = -1
    OBVIOUS
  <2> QED
    BY <1>1, <2>1
<1>3. x = [r EXCEPT !.groups = no, !.bytes = 0, !.count = 0, !.frame_accum = 0,
                    !.seek_position = away, !.previous_raw = none, !.raw_size = nothing,
                    !.device = 0, !.missed = FALSE, !.memory_limited = FALSE, !.gap = FALSE]
  BY <1>2 DEF Forgotten
<1> HIDE DEF x
<1>4. x \in Recorders
  BY <1>3 DEF Recorders
<1>5. /\ x.groups = << >> /\ x.bytes = 0 /\ x.count = 0 /\ x.seek_position = -1
      /\ x.missed = FALSE /\ x.gap = FALSE /\ x.raw_size = "none" /\ x.device = 0
      /\ x.memory_limited = FALSE /\ x.frame_accum = 0 /\ x.previous_raw = NoCapture
      /\ Options(x) = Options(r)
  BY <1>2, <1>3 DEF Recorders, Options
<1>6. Ring(<< >>) /\ FramesIn(<< >>) = 0 /\ BytesIn(<< >>) = 0 /\ Chained(<< >>)
  <2>1. Ring(<< >>) /\ Len(<< >>) = 0 /\ Chained(<< >>)
    BY DEF Ring, Chained
  <2> QED
    BY <2>1, LastGroupOnly
<1>7. Sound(x)
  <2>1. Accounted(x)
    BY <1>4, <1>5, <1>6 DEF Accounted
  <2>2. Linked(x)
    BY <1>5 DEF Linked
  <2>3. Chained(x.groups)
    <3>1. x.groups = << >>
      BY <1>5
    <3> QED
      BY <1>6, <3>1, Zenon
  <2> QED
    BY <2>1, <2>2, <2>3 DEF Sound
<1>8. Line(x) = << >>
  BY <1>5, LineNothing DEF Line
<1>9. Shaped(x)
  BY <1>5 DEF Shaped
<1>10. InWindow(x)
  <2>1. TargetCapacity(x) \in Nat \ {0} /\ FramesPerGroup \in Nat
    BY <1>4, TargetType, RewindAssumption
  <2>2. x.memory_limit \in Nat
    BY <1>4, RewindAssumption DEF Recorders
  <2> QED
    BY <1>5, <2>1, <2>2 DEF InWindow
<1> QED
  BY <1>5, <1>7, <1>8, <1>9, <1>10 DEF Kept, x

\* The newest captures of a line.
NewestOf(s, n) == SubSeq(s, Len(s) - n + 1, Len(s))

LEMMA SecondPart ==
  ASSUME NEW S, NEW a \in Seq(S), NEW b \in Seq(S)
  PROVE  /\ Len(b) \in 0..Len(a \o b) /\ b = NewestOf(a \o b, Len(b))
         /\ \A i \in 1..Len(b) : b[i] = (a \o b)[Len(a \o b) - Len(b) + i]
         /\ Len(a \o b) = Len(a) + Len(b)
<1> DEFINE w == a \o b
<1>1. Len(a) \in Nat /\ Len(b) \in Nat /\ w \in Seq(S) /\ Len(w) = Len(a) + Len(b)
  OBVIOUS
<1>2. \A i \in 1..Len(b) : w[Len(a) + i] = b[i]
  <2>1. \A i \in 1..(Len(a) + Len(b)) : w[i] = IF i <= Len(a) THEN a[i] ELSE b[i - Len(a)]
    BY ConcatProperties
  <2>2. \A i \in 1..Len(b) : /\ Len(a) + i \in 1..(Len(a) + Len(b)) /\ ~(Len(a) + i <= Len(a))
                             /\ (Len(a) + i) - Len(a) = i
    BY <1>1
  <2> HIDE DEF w
  <2> QED
    BY <2>1, <2>2
<1> HIDE DEF w
<1> DEFINE v == SubSeq(w, Len(a) + 1, Len(w))
<1>3. v \in Seq(S) /\ Len(v) = Len(b) /\ \A i \in 1..Len(b) : v[i] = b[i]
  <2>1. Len(a) + 1 \in 1..(Len(w) + 1) /\ Len(w) \in 0..Len(w) /\ Len(a) + 1 <= Len(w) + 1
    BY <1>1
  <2>2. /\ v \in Seq(S) /\ Len(v) = Len(w) - (Len(a) + 1) + 1
        /\ \A i \in 1..(Len(w) - (Len(a) + 1) + 1) : v[i] = w[(Len(a) + 1) + i - 1]
    BY <1>1, <2>1, PartOf
  <2>3. Len(w) - (Len(a) + 1) + 1 = Len(b)
    BY <1>1
  <2>4. ASSUME NEW i \in 1..Len(b) PROVE v[i] = b[i]
    <3>1. (Len(a) + 1) + i - 1 = Len(a) + i
      BY <1>1
    <3> QED
      BY <1>2, <2>2, <2>3, <3>1
  <2> QED
    BY <2>2, <2>3, <2>4
<1>4. v = b
  <2> HIDE DEF v
  <2> QED
    BY <1>3, SeqEqual
<1>5. Len(w) - Len(b) + 1 = Len(a) + 1 /\ Len(b) \in 0..Len(w)
  BY <1>1
<1>6. \A i \in 1..Len(b) : Len(w) - Len(b) + i = Len(a) + i
  BY <1>1
<1> QED
  BY <1>1, <1>2, <1>4, <1>5, <1>6 DEF NewestOf, v, w

\* Without its oldest groups a line is what was newest of it.
LEMMA NewerLine ==
  ASSUME NEW r, Sound(r), NEW x, Newer(x, r)
  PROVE  /\ Sound(x) /\ Len(Line(x)) \in 0..Len(Line(r)) /\ Line(x) = NewestOf(Line(r), Len(Line(x)))
         /\ \A i \in 1..x.count : Line(x)[i] = Line(r)[r.count - x.count + i]
         /\ r.groups # << >> => x.groups # << >>
<1> DEFINE gs == r.groups
<1>1. PICK n \in 0..Len(gs) : (gs # << >> => n < Len(gs)) /\ x.groups = SubSeq(gs, n + 1, Len(gs))
  BY DEF Newer
<1>2. /\ r \in Recorders /\ gs \in Seq(Group) /\ Chained(gs) /\ Len(gs) \in Nat
      /\ Accounted(x) /\ Linked(r) /\ x.previous_raw = r.previous_raw
  <2>1. r \in Recorders /\ gs \in Seq(Group) /\ Chained(gs) /\ Linked(r) /\ Accounted(x)
    BY DEF Sound, Accounted, Chained, Newer
  <2>2. x.previous_raw = r.previous_raw
    BY <2>1 DEF Newer, Recorders
  <2> QED
    BY <2>1, <2>2
<1> DEFINE a == Decompressed(FirstGroups(gs, n))
<1> DEFINE b == Decompressed(SubSeq(gs, n + 1, Len(gs)))
<1>3. a \in Seq(Moments) /\ b \in Seq(Moments) /\ Line(r) = a \o b /\ Chained(SubSeq(gs, n + 1, Len(gs)))
  BY <1>2, LineSplit DEF Line
<1>4. Line(x) = b /\ Chained(x.groups)
  BY <1>1, <1>3 DEF Line
<1> HIDE DEF a, b, gs
<1>5. /\ Len(b) \in 0..Len(Line(r)) /\ b = NewestOf(Line(r), Len(b))
      /\ \A i \in 1..Len(b) : b[i] = Line(r)[Len(Line(r)) - Len(b) + i]
  BY <1>3, SecondPart
<1>6. ASSUME gs # << >>
      PROVE  x.groups # << >> /\ Newest(x.groups) = Newest(gs)
  <2>1. n + 1 \in 1..(Len(gs) + 1) /\ Len(gs) \in 0..Len(gs) /\ n + 1 <= Len(gs) + 1 /\ n < Len(gs)
    BY <1>1, <1>2, <1>6
  <2>2. /\ Len(x.groups) = Len(gs) - (n + 1) + 1
        /\ \A i \in 1..(Len(gs) - (n + 1) + 1) : x.groups[i] = gs[(n + 1) + i - 1]
    BY <1>1, <1>2, <2>1, PartOf
  <2> DEFINE k == Len(gs) - (n + 1) + 1
  <2>3. k \in 1..k /\ (n + 1) + k - 1 = Len(gs) /\ k # 0
    BY <1>2, <2>1
  <2>4. x.groups[k] = gs[Len(gs)]
    BY <2>2, <2>3
  <2> QED
    BY <2>2, <2>3, <2>4 DEF Newest
<1>7. Linked(x)
  <2>1. CASE r.previous_raw = NoCapture
    BY <1>2, <2>1 DEF Linked
  <2>2. CASE r.previous_raw # NoCapture
    <3>1. gs # << >> /\ r.previous_raw = Last(Newest(gs).frames).to
      BY <1>2, <2>2 DEF Linked, gs
    <3>2. x.groups # << >> /\ Newest(x.groups) = Newest(gs)
      BY <1>6, <3>1
    <3> QED
      BY <1>2, <3>1, <3>2 DEF Linked
  <2> QED
    BY <2>1, <2>2
<1>8. Sound(x)
  BY <1>2, <1>4, <1>7 DEF Sound
<1>9. Len(Line(x)) = x.count /\ Len(Line(r)) = r.count
  BY <1>8, LineType
<1> QED
  BY <1>4, <1>5, <1>6, <1>8, <1>9 DEF gs

LEMMA TrimKeeps ==
  ASSUME NEW r, Sound(r), Shaped(r), r.seek_position \in -1..TargetCapacity(r) - 1,
         r.enabled \/ r.groups = << >>
  PROVE  LET x == Trim(r) IN
         /\ Kept(x) /\ Len(Line(x)) \in 0..Len(Line(r)) /\ Line(x) = NewestOf(Line(r), Len(Line(x)))
         /\ \A i \in 1..x.count : Line(x)[i] = Line(r)[r.count - x.count + i]
         /\ r.groups # << >> => x.groups # << >>
         /\ x.count <= r.count /\ Options(x) = Options(r)
         /\ x = [r EXCEPT !.groups = x.groups, !.bytes = x.bytes, !.count = x.count,
                           !.memory_limited = x.memory_limited]
<1> DEFINE x == Trim(r)
<1>1. /\ Newer(x, r) /\ x.count <= TargetCapacity(r) + FramesPerGroup
      /\ x.bytes <= r.memory_limit \/ Len(x.groups) = 1
  BY TrimFits DEF Sound
<1>2. r \in Recorders
  BY DEF Sound, Accounted
<1> HIDE DEF x
<1>3. /\ Sound(x) /\ Len(Line(x)) \in 0..Len(Line(r)) /\ Line(x) = NewestOf(Line(r), Len(Line(x)))
      /\ \A i \in 1..x.count : Line(x)[i] = Line(r)[r.count - x.count + i]
      /\ r.groups # << >> => x.groups # << >>
  BY <1>1, NewerLine
<1>4. /\ x.count <= r.count
      /\ x = [r EXCEPT !.groups = x.groups, !.bytes = x.bytes, !.count = x.count,
                        !.memory_limited = x.memory_limited]
  BY <1>1 DEF Newer
<1>5. Options(x) = Options(r) /\ x.seek_position = r.seek_position /\ x.raw_size = r.raw_size
  BY <1>2, <1>4 DEF Options, Recorders
<1>6. /\ TargetCapacity(x) = TargetCapacity(r) /\ x.memory_limit = r.memory_limit /\ x.enabled = r.enabled
  BY <1>5, SameTarget
<1>7. InWindow(x)
  BY <1>1, <1>5, <1>6 DEF InWindow
<1>8. x.count \in Nat /\ r.count \in Nat /\ Len(Line(x)) = x.count /\ (x.count = 0 \/ x.groups # << >>)
  BY <1>3, LineType
<1>9. Shaped(x)
  <2>1. \A i \in 1..x.count : r.count - x.count + i \in 1..r.count
    BY <1>4, <1>8
  <2> QED
    BY <1>3, <1>5, <2>1 DEF Shaped
<1>10. x.enabled \/ x.groups = << >>
  <2>1. CASE r.enabled
    BY <1>6, <2>1
  <2>2. CASE ~r.enabled
    <3>1. r.groups = << >>
      BY <2>2
    <3>2. \E n \in 0..Len(r.groups) : x.groups = SubSeq(r.groups, n + 1, Len(r.groups))
      BY <1>1 DEF Newer
    <3>3. x.groups = << >>
      BY <3>1, <3>2
    <3> QED
      BY <3>3
  <2> QED
    BY <2>1, <2>2
<1> QED
  BY <1>3, <1>4, <1>5, <1>7, <1>9, <1>10 DEF Kept, x

LEMMA CommitSeekKeeps ==
  ASSUME NEW r, Kept(r)
  PROVE  LET x == CommitSeek(r) IN
         /\ Kept(x) /\ Line(x) = Past(r) /\ x.count <= r.count
         /\ \A i \in 1..x.count : Line(x)[i] = Line(r)[i]
         /\ r.seek_position > 0 /\ x.count > 0 => x.count = r.count - r.seek_position
         /\ r.seek_position <= 0 => x.count = r.count
         /\ x.seek_position = -1 /\ Options(x) = Options(r)
         /\ x = [r EXCEPT !.groups = x.groups, !.bytes = x.bytes, !.count = x.count,
                           !.previous_raw = x.previous_raw, !.seek_position = -1]
<1> DEFINE x == CommitSeek(r)
<1>1. /\ Sound(r) /\ Accounted(r) /\ Shaped(r) /\ InWindow(r) /\ r \in Recorders
      /\ r.enabled \/ r.groups = << >>
  BY DEF Kept, Sound, Accounted
<1>2. /\ Accounted(x) /\ Older(x.groups, r) /\ x.count <= r.count /\ x.bytes <= r.bytes
      /\ x.seek_position = -1
      /\ x = [r EXCEPT !.groups = x.groups, !.bytes = x.bytes, !.count = x.count,
                        !.previous_raw = x.previous_raw, !.seek_position = -1]
      /\ \/ r.seek_position <= 0 /\ x.groups = r.groups /\ x.previous_raw = r.previous_raw
         \/ r.seek_position > 0 /\ x.groups = KeptGroups(r) /\ x.previous_raw = NoCapture
  BY <1>1, CommitSeekCuts
<1> HIDE DEF x
<1>3. Sound(x)
  <2>1. Chained(x.groups)
    BY <1>1, <1>2, OlderChained
  <2>2. Linked(x)
    BY <1>1, <1>2 DEF Linked, Sound
  <2> QED
    BY <1>2, <2>1, <2>2 DEF Sound
<1>4. /\ Options(x) = Options(r) /\ x.raw_size = r.raw_size
  BY <1>1, <1>2 DEF Options, Recorders
<1>5. /\ TargetCapacity(x) = TargetCapacity(r) /\ x.memory_limit = r.memory_limit /\ x.enabled = r.enabled
  BY <1>4, SameTarget
<1>6. /\ Line(r) \in Seq(Moments) /\ Len(Line(r)) = r.count /\ r.count \in Nat
      /\ Line(x) \in Seq(Moments) /\ Len(Line(x)) = x.count /\ x.count \in Nat
      /\ r.seek_position \in Int
  BY <1>1, <1>3, LineType DEF Recorders
<1>7. CASE r.seek_position <= 0
  <2>1. Line(x) = Line(r) /\ Past(r) = Line(r) /\ x.count = r.count
    <3>1. Line(x) = Line(r)
      BY <1>2, <1>6, <1>7 DEF Line
    <3>2. SubSeq(Line(r), 1, r.count) = Line(r)
      BY <1>6
    <3>3. ~(r.seek_position > 0)
      BY <1>6, <1>7
    <3> QED
      BY <1>6, <3>1, <3>2, <3>3 DEF Past
  <2>2. Shaped(x)
    BY <1>1, <1>4, <2>1 DEF Shaped
  <2>3. x.groups = r.groups
    BY <1>2, <1>6, <1>7
  <2>4. InWindow(x)
    <3>1. TargetCapacity(r) \in Nat \ {0}
      BY <1>1, TargetType
    <3>2. x.bytes = r.bytes
      BY <1>1, <1>2, <2>3 DEF Accounted
    <3> QED
      BY <1>1, <1>2, <1>5, <2>1, <2>3, <3>1, <3>2 DEF InWindow
  <2>5. ~(r.seek_position > 0)
    BY <1>6, <1>7
  <2> QED
    BY <1>1, <1>2, <1>3, <1>4, <1>5, <1>7, <2>1, <2>2, <2>3, <2>4, <2>5 DEF Kept, x
<1>8. CASE r.seek_position > 0
  <2> DEFINE keep == r.count - r.seek_position
  <2>1. Line(x) = SubSeq(Line(r), 1, keep) /\ Past(r) = SubSeq(Line(r), 1, keep)
    <3>1. x.groups = KeptGroups(r)
      BY <1>2, <1>6, <1>8
    <3> QED
      BY <1>1, <1>8, <3>1, KeptLine DEF Line, Past
  <2>2. keep \in Int /\ keep < r.count
    BY <1>6, <1>8
  <2> HIDE DEF keep
  <2>3. /\ x.count = IF keep > 0 THEN keep ELSE 0
        /\ \A i \in 1..x.count : Line(x)[i] = Line(r)[i]
    <3>1. CASE keep > 0
      <4>1. 1 \in 1..(Len(Line(r)) + 1) /\ keep \in 0..Len(Line(r)) /\ 1 <= keep + 1
        BY <1>6, <2>2, <3>1
      <4>2. /\ Len(SubSeq(Line(r), 1, keep)) = keep - 1 + 1
            /\ \A i \in 1..(keep - 1 + 1) : SubSeq(Line(r), 1, keep)[i] = Line(r)[1 + i - 1]
        BY <1>6, <4>1, PartOf
      <4>3. keep - 1 + 1 = keep
        BY <2>2
      <4>4. \A i \in 1..keep : 1 + i - 1 = i
        OBVIOUS
      <4> QED
        BY <1>6, <2>1, <3>1, <4>2, <4>3, <4>4
    <3>2. CASE ~(keep > 0)
      <4>1. Line(x) = << >>
        BY <1>6, <2>1, <2>2, <3>2, SubSeqEmpty
      <4>2. x.count = 0
        BY <1>6, <4>1
      <4> QED
        BY <3>2, <4>2
    <3> QED
      BY <3>1, <3>2
  <2>4. Shaped(x)
    <3>1. \A i \in 1..x.count : i \in 1..r.count
      BY <1>2, <1>6
    <3> QED
      BY <1>1, <1>4, <2>3, <3>1 DEF Shaped
  <2>5. InWindow(x)
    <3>1. /\ TargetCapacity(r) \in Nat \ {0} /\ FramesPerGroup \in Nat /\ r.memory_limit \in Nat
          /\ r.bytes \in Nat /\ x.bytes \in Nat
      <4>1. r.memory_limit \in Nat /\ r.bytes \in Nat
        BY <1>1, RewindAssumption DEF Recorders
      <4>2. x.bytes \in Nat
        BY <1>2 DEF Accounted, Recorders
      <4> QED
        BY <1>1, <4>1, <4>2, TargetType, RewindAssumption
    <3>2. x.count <= TargetCapacity(r) + FramesPerGroup
      BY <1>1, <1>2, <1>6, <3>1 DEF InWindow
    <3>3. x.bytes <= r.memory_limit \/ Len(x.groups) = 1
      <4>1. CASE r.bytes <= r.memory_limit
        BY <1>2, <3>1, <4>1
      <4>2. CASE Len(r.groups) = 1
        <5>1. Len(x.groups) \in Nat /\ Len(x.groups) <= 1 /\ Ring(x.groups) /\ x.bytes = BytesIn(x.groups)
          BY <1>2, <4>2 DEF Older, Ring, Accounted
        <5>2. CASE Len(x.groups) = 0
          <6>1. BytesIn(x.groups) = 0
            BY <5>1, <5>2, LastGroupOnly
          <6> QED
            BY <3>1, <5>1, <6>1
        <5>3. CASE Len(x.groups) # 0
          <6>1. PICK n \in Nat : n = Len(x.groups)
            BY <5>1
          <6>2. n <= 1 /\ n # 0
            BY <5>1, <5>3, <6>1
          <6>3. n = 1
            BY <6>2
          <6> QED
            BY <6>1, <6>3
        <5> QED
          BY <5>2, <5>3
      <4> QED
        BY <1>1, <4>1, <4>2 DEF InWindow
    <3>4. x.seek_position \in -1..TargetCapacity(r) - 1
      BY <1>2, <3>1
    <3> QED
      BY <1>5, <3>2, <3>3, <3>4 DEF InWindow
  <2>6. x.enabled \/ x.groups = << >>
    <3>1. CASE r.enabled
      BY <1>5, <3>1
    <3>2. CASE ~r.enabled
      <4>1. Len(x.groups) <= Len(r.groups) /\ r.groups = << >> /\ x.groups \in Seq(Group)
        BY <1>1, <1>2, <3>2 DEF Older, Ring
      <4>2. x.groups = << >>
        BY <4>1
      <4> QED
        BY <4>2
    <3> QED
      BY <3>1, <3>2
  <2>7. Kept(x)
    BY <1>3, <2>4, <2>5, <2>6 DEF Kept
  <2>8. ~(r.seek_position <= 0) /\ (x.count > 0 => x.count = r.count - r.seek_position)
    <3>1. x.count > 0 => x.count = keep
      BY <2>2, <2>3
    <3> QED
      BY <1>6, <1>8, <3>1 DEF keep
  <2> QED
    BY <1>2, <1>4, <2>1, <2>3, <2>7, <2>8 DEF x
<1> QED
  BY <1>6, <1>7, <1>8

\* Nothing but the ring itself is behind the accounts.
LEMMA Untouched ==
  ASSUME NEW r, Kept(r), NEW x \in Recorders,
         x.groups = r.groups, x.bytes = r.bytes, x.count = r.count, x.previous_raw = r.previous_raw,
         Options(x) = Options(r), x.seek_position \in -1..TargetCapacity(r) - 1,
         x.raw_size = r.raw_size \/ r.count = 0
  PROVE  Kept(x) /\ Line(x) = Line(r)
<1>1. /\ TargetCapacity(x) = TargetCapacity(r) /\ x.memory_limit = r.memory_limit /\ x.enabled = r.enabled
  BY SameTarget
<1>2. Sound(r) /\ Shaped(r) /\ InWindow(r) /\ (r.enabled \/ r.groups = << >>)
  BY DEF Kept
<1>3. Accounted(x)
  BY <1>2 DEF Sound, Accounted
<1>4. Linked(x) /\ Chained(x.groups)
  BY <1>2 DEF Sound, Linked
<1>5. Line(x) = Line(r)
  BY DEF Line
<1>6. Shaped(x)
  <2>1. CASE r.count = 0
    BY <2>1 DEF Shaped
  <2>2. CASE r.count # 0
    BY <1>2, <1>5, <2>2 DEF Shaped
  <2> QED
    BY <2>1, <2>2
<1>7. InWindow(x)
  BY <1>1, <1>2 DEF InWindow
<1> QED
  BY <1>1, <1>2, <1>3, <1>4, <1>5, <1>6, <1>7 DEF Kept, Sound

LEMMA KeptTypes ==
  ASSUME NEW r, Kept(r)
  PROVE  /\ r \in Recorders /\ Sound(r) /\ Shaped(r) /\ r.seek_position \in -1..TargetCapacity(r) - 1
         /\ TargetCapacity(r) \in Nat \ {0} /\ r.seek_position \in Int
         /\ Line(r) \in Seq(Moments) /\ Len(Line(r)) = r.count /\ r.count \in Nat
         /\ r.enabled \in BOOLEAN /\ r.gap \in BOOLEAN /\ r.missed \in BOOLEAN /\ r.memory_limited \in BOOLEAN
         /\ r.raw_size \in Modes /\ r.device \in Nat /\ r.frame_accum \in Nat
         /\ r.enabled \/ r.groups = << >>
<1>1. r \in Recorders /\ Sound(r) /\ Shaped(r) /\ InWindow(r) /\ (r.enabled \/ r.groups = << >>)
  BY DEF Kept, Sound, Accounted
<1>2. /\ r.seek_position \in Int /\ r.enabled \in BOOLEAN /\ r.gap \in BOOLEAN /\ r.missed \in BOOLEAN
      /\ r.memory_limited \in BOOLEAN /\ r.raw_size \in Modes /\ r.device \in Nat /\ r.frame_accum \in Nat
  BY <1>1 DEF Recorders
<1> QED
  BY <1>1, <1>2, TargetType, LineType DEF InWindow

\* What the recorder is before the capture that ends a frame.
LEMMA OneBranchKeeps ==
  ASSUME NEW r, Kept(r)
  PROVE  LET x == OneBranch(r) IN
         /\ Kept(x) /\ Options(x) = Options(r) /\ ~x.gap
         /\ x.seek_position <= 0
         /\ \/ /\ r.gap /\ Line(x) = << >> /\ x.count = 0 /\ x.seek_position = -1
               /\ ~x.missed /\ ~x.memory_limited
            \/ /\ ~r.gap /\ Line(x) = Past(r) /\ x.missed = r.missed /\ x.raw_size = r.raw_size
               /\ x.memory_limited = r.memory_limited
               /\ r.seek_position > 0 => x.seek_position = -1
               /\ r.seek_position <= 0 => x = r
               /\ \A i \in 1..x.count : Line(x)[i] = Line(r)[i]
               /\ x.count > 0 => x.count = IF r.seek_position > 0 THEN r.count - r.seek_position ELSE r.count
<1> DEFINE x == OneBranch(r)
<1>1. /\ r \in Recorders /\ r.seek_position \in Int /\ r.gap \in BOOLEAN /\ r.count \in Nat
      /\ Line(r) \in Seq(Moments) /\ Len(Line(r)) = r.count
  BY KeptTypes
<1>2. CASE r.gap
  <2> DEFINE f == Forgotten(r)
  <2>1. /\ Kept(f) /\ f.count = 0 /\ Line(f) = << >> /\ f.seek_position = -1
        /\ f.missed = FALSE /\ f.gap = FALSE /\ f.memory_limited = FALSE /\ Options(f) = Options(r)
    BY <1>1, ForgottenKeeps
  <2> HIDE DEF f
  <2>2. x = f
    <3>1. ~(f.seek_position > 0)
      BY <2>1
    <3> QED
      BY <1>2, <3>1 DEF OneBranch, f
  <2> HIDE DEF x
  <2> QED
    BY <1>2, <2>1, <2>2 DEF x
<1>3. CASE ~r.gap /\ r.seek_position > 0
  <2>1. x = CommitSeek(r)
    BY <1>3 DEF OneBranch
  <2> DEFINE c == CommitSeek(r)
  <2>2. /\ Kept(c) /\ Line(c) = Past(r) /\ c.count <= r.count
        /\ \A i \in 1..c.count : Line(c)[i] = Line(r)[i]
        /\ c.count > 0 => c.count = r.count - r.seek_position
        /\ c.seek_position = -1 /\ Options(c) = Options(r)
        /\ c = [r EXCEPT !.groups = c.groups, !.bytes = c.bytes, !.count = c.count,
                          !.previous_raw = c.previous_raw, !.seek_position = -1]
    BY <1>3, CommitSeekKeeps
  <2> HIDE DEF c
  <2>3. c.gap = r.gap /\ c.missed = r.missed /\ c.raw_size = r.raw_size /\ c.memory_limited = r.memory_limited
    BY <1>1, <2>2 DEF Recorders
  <2>4. ~(r.seek_position <= 0)
    BY <1>1, <1>3
  <2> QED
    BY <1>3, <2>1, <2>2, <2>3, <2>4 DEF c, x
<1>4. CASE ~r.gap /\ ~(r.seek_position > 0)
  <2>1. x = r
    BY <1>4 DEF OneBranch
  <2>2. Past(r) = Line(r) /\ r.seek_position <= 0
    <3>1. SubSeq(Line(r), 1, r.count) = Line(r)
      BY <1>1
    <3> QED
      BY <1>1, <1>4, <3>1 DEF Past
  <2> QED
    BY <1>4, <2>1, <2>2
<1> QED
  BY <1>1, <1>2, <1>3, <1>4

LEMMA FittedKeeps ==
  ASSUME NEW r, Kept(r), NEW raw \in Moments
  PROVE  LET x == Fitted(r, raw) IN
         /\ Kept(x) /\ Options(x) = Options(r) /\ x.raw_size = raw.mode /\ (~r.gap => ~x.gap)
         /\ \/ /\ Line(x) = << >> /\ x.count = 0 /\ x.seek_position = -1 /\ ~x.missed /\ ~x.memory_limited
            \/ /\ Line(x) = Line(r) /\ x.missed = r.missed /\ x.seek_position = r.seek_position
               /\ x.memory_limited = r.memory_limited /\ x.count = r.count
               /\ r.count > 0 => r.raw_size = raw.mode
<1> DEFINE first == IF r.device # 0 /\ raw.device # r.device THEN Forgotten(r) ELSE r
<1> DEFINE learned == IF first.device = 0 THEN [first EXCEPT !.device = raw.device] ELSE first
<1> DEFINE fits == IF learned.raw_size \notin {"none", raw.mode} THEN Forgotten(learned) ELSE learned
<1> DEFINE x == [fits EXCEPT !.raw_size = raw.mode]
<1> DEFINE Emptied(y) == /\ Line(y) = << >> /\ y.count = 0 /\ y.seek_position = -1
                         /\ ~y.missed /\ ~y.memory_limited /\ ~y.gap /\ y.raw_size = "none"
<1> DEFINE Same(y, z) == /\ Line(y) = Line(z) /\ y.missed = z.missed /\ y.seek_position = z.seek_position
                         /\ y.memory_limited = z.memory_limited /\ y.count = z.count /\ y.gap = z.gap
                         /\ y.raw_size = z.raw_size
<1>1. Fitted(r, raw) = x
  BY DEF Fitted
<1>2. raw.device \in Nat /\ raw.mode \in Modes /\ raw.mode # "none"
  BY DEF Moments, Captures, Media
<1>3. Kept(first) /\ Options(first) = Options(r) /\ (Emptied(first) \/ Same(first, r))
  <2>1. r \in Recorders
    BY KeptTypes
  <2> DEFINE f == Forgotten(r)
  <2>2. Kept(f) /\ Options(f) = Options(r) /\ Emptied(f)
    BY <2>1, ForgottenKeeps
  <2> HIDE DEF f
  <2>3. CASE r.device # 0 /\ raw.device # r.device
    BY <2>2, <2>3 DEF f
  <2>4. CASE ~(r.device # 0 /\ raw.device # r.device)
    BY <2>4
  <2> QED
    BY <2>3, <2>4
<1> HIDE DEF first
<1>4. Kept(learned) /\ Options(learned) = Options(r) /\ (Emptied(learned) \/ Same(learned, r))
  <2>1. CASE first.device = 0
    <3>1. learned = [first EXCEPT !.device = raw.device]
      BY <2>1
    <3>2. first \in Recorders /\ first.seek_position \in -1..TargetCapacity(first) - 1
      BY <1>3, KeptTypes
    <3> HIDE DEF learned
    <3>3. learned \in Recorders
      BY <1>2, <3>1, <3>2 DEF Recorders
    <3>4. /\ learned.groups = first.groups /\ learned.bytes = first.bytes /\ learned.count = first.count
          /\ learned.previous_raw = first.previous_raw /\ learned.seek_position = first.seek_position
          /\ learned.raw_size = first.raw_size /\ learned.missed = first.missed /\ learned.gap = first.gap
          /\ learned.memory_limited = first.memory_limited
          /\ Options(learned) = Options(first)
      BY <3>1, <3>2 DEF Recorders, Options
    <3>5. Kept(learned) /\ Line(learned) = Line(first)
      BY <1>3, <3>2, <3>3, <3>4, Untouched
    <3> QED
      BY <1>3, <3>4, <3>5
  <2>2. CASE first.device # 0
    BY <1>3, <2>2
  <2> QED
    BY <2>1, <2>2
<1> HIDE DEF learned
<1>5. /\ Kept(fits) /\ Options(fits) = Options(r) /\ (Emptied(fits) \/ Same(fits, r))
      /\ fits.raw_size \in {"none", raw.mode}
  <2>1. CASE learned.raw_size \notin {"none", raw.mode}
    <3>1. learned \in Recorders
      BY <1>4, KeptTypes
    <3> DEFINE f == Forgotten(learned)
    <3>2. Kept(f) /\ Options(f) = Options(learned) /\ Emptied(f)
      BY <3>1, ForgottenKeeps
    <3> HIDE DEF f
    <3>3. fits = f
      BY <2>1 DEF f
    <3> QED
      BY <1>4, <3>2, <3>3
  <2>2. CASE learned.raw_size \in {"none", raw.mode}
    BY <1>4, <2>2
  <2> QED
    BY <2>1, <2>2
<1> HIDE DEF fits
<1>6. fits.count > 0 => fits.raw_size = raw.mode
  <2>1. SUFFICES ASSUME fits.count > 0 PROVE fits.raw_size # "none"
    BY <1>5
  <2>2. /\ Line(fits) \in Seq(Moments) /\ Len(Line(fits)) = fits.count /\ fits.count \in Nat /\ Shaped(fits)
    BY <1>5, KeptTypes
  <2>3. 1 \in 1..fits.count /\ Line(fits)[1] \in Moments
    BY <2>1, <2>2
  <2>4. Line(fits)[1].mode = fits.raw_size /\ Line(fits)[1].mode # "none"
    BY <2>2, <2>3 DEF Shaped, Moments, Media
  <2> QED
    BY <2>4
<1>7. /\ x \in Recorders /\ x.raw_size = raw.mode
      /\ x.groups = fits.groups /\ x.bytes = fits.bytes /\ x.count = fits.count
      /\ x.previous_raw = fits.previous_raw /\ x.seek_position = fits.seek_position
      /\ x.missed = fits.missed /\ x.gap = fits.gap /\ x.memory_limited = fits.memory_limited
      /\ Options(x) = Options(fits)
  <2>1. fits \in Recorders
    BY <1>5, KeptTypes
  <2>2. PICK mode \in Modes : mode = raw.mode
    BY <1>2
  <2>3. x = [fits EXCEPT !.raw_size = mode]
    BY <2>2
  <2> HIDE DEF x
  <2>4. x \in Recorders
    BY <2>1, <2>3 DEF Recorders
  <2> QED
    BY <2>1, <2>2, <2>3, <2>4 DEF Recorders, Options
<1> HIDE DEF x
<1>8. Kept(x) /\ Line(x) = Line(fits)
  <2>1. fits.seek_position \in -1..TargetCapacity(fits) - 1 /\ fits.count \in Nat
    BY <1>5, KeptTypes
  <2>2. x.raw_size = fits.raw_size \/ fits.count = 0
    BY <1>6, <1>7, <2>1
  <2> QED
    BY <1>5, <1>7, <2>1, <2>2, Untouched
<1>9. r.gap \in BOOLEAN /\ fits.gap \in BOOLEAN
  BY <1>5, KeptTypes
<1> QED
  BY <1>1, <1>5, <1>6, <1>7, <1>8, <1>9

\* Trimming for the window leaves the window whole.
LEMMA WindowsKept ==
  ASSUME NEW r, Accounted(r)
  PROVE  LET x == WithoutOldest(r, Min(Windows(r))) IN
         x.count = r.count \/ x.count >= TargetCapacity(r) + 1
<1> DEFINE gs == r.groups
<1> DEFINE T == Windows(r)
<1>1. /\ r \in Recorders /\ gs \in Seq(Group) /\ Ring(gs) /\ Len(gs) \in Nat
      /\ r.count \in Nat /\ r.count = FramesIn(gs)
  BY DEF Accounted, Ring, Recorders
<1>2. PICK n \in T : n = Min(T) /\ \A y \in T : n <= y
  <2>1. T \in SUBSET Nat
    BY DEF Windows
  <2>2. T # {}
    <3> DEFINE one == IF gs = << >> THEN 0 ELSE Len(gs) - 1
    <3>1. one \in 0..Len(gs) /\ Len(gs) - one <= 1
      BY <1>1
    <3> HIDE DEF one
    <3>2. Len(WithoutOldest(r, one).groups) = Len(gs) - one
      BY <3>1, WithoutOldestAccounted
    <3>3. one \in T
      BY <3>1, <3>2 DEF Windows
    <3> QED
      BY <3>3
  <2> HIDE DEF T
  <2> QED
    BY <2>1, <2>2, MinIsLeast
<1>3. n \in 0..Len(gs)
  BY <1>2 DEF Windows
<1> DEFINE held(k) == FramesIn(FirstGroups(gs, k))
<1>4. ASSUME NEW k \in 0..Len(gs)
      PROVE  /\ WithoutOldest(r, k).count = r.count - held(k) /\ held(k) \in Nat
             /\ TargetCapacity(WithoutOldest(r, k)) = TargetCapacity(r)
             /\ WithoutOldest(r, k).groups = SubSeq(gs, k + 1, Len(gs))
  <2> DEFINE x == WithoutOldest(r, k)
  <2>1. held(k) \in Nat
    BY <1>1, OldestOut
  <2>2. /\ Accounted(x) /\ x.groups = SubSeq(gs, k + 1, Len(gs))
        /\ x = [r EXCEPT !.groups = x.groups, !.bytes = x.bytes, !.count = x.count]
    BY <1>1, WithoutOldestAccounted
  <2>3. x.count = r.count - held(k)
    <3> HIDE DEF held
    <3> QED
      BY <1>1 DEF WithoutOldest, Recorders, held
  <2> HIDE DEF x
  <2>4. x.seconds = r.seconds /\ x.frames_per_snapshot = r.frames_per_snapshot
    BY <1>1, <2>2 DEF Recorders
  <2>5. TargetCapacity(x) = TargetCapacity(r)
    BY <2>4 DEF TargetCapacity
  <2> QED
    BY <2>1, <2>2, <2>3, <2>5 DEF x
<1>5. CASE n = 0
  <2>1. held(0) = 0
    <3>1. FirstGroups(gs, 0) = << >>
      BY <1>1 DEF FirstGroups
    <3>2. Ring(<< >>) /\ Len(<< >>) = 0
      BY DEF Ring
    <3> QED
      BY <3>1, <3>2, LastGroupOnly
  <2>2. WithoutOldest(r, 0).count = r.count - held(0)
    BY <1>1, <1>4
  <2> QED
    BY <1>1, <1>2, <1>5, <2>1, <2>2
<1>6. CASE n # 0
  <2>1. n \in 1..Len(gs) /\ n - 1 \in 0..Len(gs) /\ ~(n <= n - 1) /\ n - 1 < Len(gs)
    BY <1>1, <1>3, <1>6
  <2> DEFINE left == WithoutOldest(r, n - 1)
  <2>2. left.groups = SubSeq(gs, n, Len(gs)) /\ left.count = r.count - held(n - 1) /\ held(n - 1) \in Nat
    <3>1. (n - 1) + 1 = n
      BY <2>1
    <3> QED
      BY <1>4, <2>1, <3>1
  <2>3. left.groups[1] = gs[n]
    <3>1. /\ SubSeq(gs, n, Len(gs))[1] = gs[n]
      BY <1>1, <2>1
    <3> QED
      BY <2>2, <3>1
  <2>4. ~(left.count - Len(left.groups[1].frames) < TargetCapacity(left) + 1)
    <3>1. n - 1 \notin T
      BY <1>2, <2>1
    <3> QED
      BY <2>1, <3>1 DEF Windows
  <2>5. TargetCapacity(left) = TargetCapacity(r) /\ TargetCapacity(r) \in Nat
    BY <1>1, <1>4, <2>1, TargetType
  <2>6. held(n) = held(n - 1) + Len(gs[n].frames) /\ Len(gs[n].frames) \in Nat
    <3>1. FirstGroups(gs, n) = Append(FirstGroups(gs, n - 1), gs[n]) /\ FirstGroups(gs, n - 1) \in Seq(Group) /\ gs[n] \in Group
      BY <1>1, <2>1, FirstGroupsGrow
    <3>2. FramesIn(Append(FirstGroups(gs, n - 1), gs[n])) = FramesIn(FirstGroups(gs, n - 1)) + Len(gs[n].frames)
      BY <3>1, AmountsAppend
    <3>3. gs[n].frames \in Seq(Frame)
      BY <3>1 DEF Group
    <3> QED
      BY <3>1, <3>2, <3>3
  <2>7. WithoutOldest(r, n).count = r.count - held(n)
    BY <1>3, <1>4
  <2> HIDE DEF left, held
  <2>8. PICK h \in Nat, s \in Nat, target \in Nat, c \in Nat :
          h = held(n - 1) /\ s = Len(gs[n].frames) /\ target = TargetCapacity(r) /\ c = r.count
    BY <1>1, <2>2, <2>5, <2>6
  <2>9. left.count = c - h /\ ~(left.count - s < target + 1)
    BY <2>2, <2>3, <2>4, <2>5, <2>8
  <2>10. (c - h) - s >= target + 1
    BY <2>9
  <2>11. WithoutOldest(r, n).count = c - (h + s)
    BY <2>6, <2>7, <2>8
  <2>12. WithoutOldest(r, n).count >= target + 1
    BY <2>10, <2>11
  <2> QED
    BY <1>2, <2>8, <2>12
<1> QED
  BY <1>5, <1>6

LEMMA TrimWindow ==
  ASSUME NEW r, Accounted(r), ~Trim(r).memory_limited
  PROVE  Trim(r).count = r.count \/ Trim(r).count >= TargetCapacity(r) + 1
<1> DEFINE w == WithoutOldest(r, Min(Windows(r)))
<1> DEFINE f == WithoutOldest(w, Min(Fits(w)))
<1> DEFINE t == Trim(r)
<1>1. w.count = r.count \/ w.count >= TargetCapacity(r) + 1
  BY WindowsKept
<1>2. Newer(w, r)
  BY WindowsDropped
<1>3. Accounted(w)
  BY <1>2 DEF Newer
<1>4. Newer(f, w)
  BY <1>3, FitsDropped
<1>5. t = [f EXCEPT !.memory_limited = f.memory_limited \/ f.groups # w.groups]
  BY TrimSteps
<1>6. Accounted(f) /\ f \in Recorders
  BY <1>4 DEF Newer, Accounted
<1> HIDE DEF w, f
<1> DEFINE cut == f.memory_limited \/ f.groups # w.groups
<1>7. t = [f EXCEPT !.memory_limited = cut]
  BY <1>5
<1> HIDE DEF cut, t
<1>8. t.memory_limited = cut /\ t.count = f.count
  BY <1>6, <1>7 DEF Recorders
<1>9. f.groups = w.groups
  BY <1>8 DEF cut, t
<1>10. f.count = w.count
  BY <1>3, <1>6, <1>9 DEF Accounted
<1> QED
  BY <1>1, <1>8, <1>10 DEF t

\* What the end of a frame leaves of the captures taken before it.
Based(x, r) ==
  \/ Line(x) = << >> /\ x.count = 0 /\ x.seek_position = -1
  \/ /\ ~r.gap /\ Line(x) = Past(r) /\ x.memory_limited = r.memory_limited
     /\ r.seek_position > 0 => x.seek_position = -1
     /\ r.seek_position <= 0 => x.seek_position = r.seek_position /\ x.count = r.count
     /\ \A i \in 1..x.count : Line(x)[i] = Line(r)[i]
     /\ x.count > 0 => x.count = IF r.seek_position > 0 THEN r.count - r.seek_position ELSE r.count

\* The recorder when raw is about to be stored.
Expects(b, r, raw) ==
  /\ Kept(b) /\ Based(b, r) /\ Options(b) = Options(r) /\ ~b.gap /\ b.raw_size = raw.mode
  /\ b.count > 0 => b.missed = r.missed /\ r.raw_size = raw.mode
  /\ (b.count = 0 /\ b.missed) => r.missed

\* The k captures of w are the last k of the first n of q.
EndOf(w, k, q, n) == \A i \in 1..k : w[i] = q[n - k + i]

Took(b, raw) == [Trim(Stored(b, raw)) EXCEPT !.seek_position = -1]

LEMMA BranchAndFit ==
  ASSUME NEW r, Kept(r), NEW raw \in Moments
  PROVE  LET ready == OneBranch(r)
             due == [ready EXCEPT !.frame_accum = 0]
         IN /\ Kept(ready) /\ Options(ready) = Options(r) /\ Based(ready, r) /\ ready \in Recorders
            /\ Kept(due) /\ Options(due) = Options(r) /\ Based(due, r)
            /\ Expects(Fitted(due, raw), r, raw)
<1> DEFINE ready == OneBranch(r)
<1> DEFINE due == [ready EXCEPT !.frame_accum = 0]
<1> DEFINE f == Fitted(due, raw)
<1>1. /\ Kept(ready) /\ Options(ready) = Options(r) /\ ~ready.gap
      /\ ready.seek_position <= 0
      /\ \/ /\ r.gap /\ Line(ready) = << >> /\ ready.count = 0 /\ ready.seek_position = -1
            /\ ~ready.missed /\ ~ready.memory_limited
         \/ /\ ~r.gap /\ Line(ready) = Past(r) /\ ready.missed = r.missed /\ ready.raw_size = r.raw_size
            /\ ready.memory_limited = r.memory_limited
            /\ r.seek_position > 0 => ready.seek_position = -1
            /\ r.seek_position <= 0 => ready = r
            /\ \A i \in 1..ready.count : Line(ready)[i] = Line(r)[i]
            /\ ready.count > 0 => ready.count = IF r.seek_position > 0 THEN r.count - r.seek_position ELSE r.count
  BY OneBranchKeeps
<1> HIDE DEF ready
<1>2. ready \in Recorders /\ ready.seek_position \in -1..TargetCapacity(ready) - 1
  BY <1>1, KeptTypes
<1>3. Based(ready, r)
  BY <1>1 DEF Based
<1>4. /\ due \in Recorders
      /\ due.groups = ready.groups /\ due.bytes = ready.bytes /\ due.count = ready.count
      /\ due.previous_raw = ready.previous_raw /\ due.seek_position = ready.seek_position
      /\ due.missed = ready.missed /\ due.gap = ready.gap /\ due.memory_limited = ready.memory_limited
      /\ due.raw_size = ready.raw_size /\ Options(due) = Options(ready)
  <2>1. due \in Recorders
    BY <1>2 DEF Recorders
  <2> QED
    BY <1>2, <2>1 DEF Recorders, Options
<1> HIDE DEF due
<1>5. Kept(due) /\ Line(due) = Line(ready)
  BY <1>1, <1>2, <1>4, Untouched
<1>6. Based(due, r)
  BY <1>3, <1>4, <1>5 DEF Based
<1>7. /\ Kept(f) /\ Options(f) = Options(due) /\ f.raw_size = raw.mode /\ (~due.gap => ~f.gap)
      /\ \/ /\ Line(f) = << >> /\ f.count = 0 /\ f.seek_position = -1 /\ ~f.missed /\ ~f.memory_limited
         \/ /\ Line(f) = Line(due) /\ f.missed = due.missed /\ f.seek_position = due.seek_position
            /\ f.memory_limited = due.memory_limited /\ f.count = due.count
            /\ due.count > 0 => due.raw_size = raw.mode
  BY <1>5, FittedKeeps
<1> HIDE DEF f
<1>8. Based(f, r)
  <2>1. CASE Line(f) = << >> /\ f.count = 0 /\ f.seek_position = -1
    BY <2>1 DEF Based
  <2>2. CASE /\ Line(f) = Line(due) /\ f.seek_position = due.seek_position
             /\ f.memory_limited = due.memory_limited /\ f.count = due.count
    BY <1>6, <2>2 DEF Based
  <2> QED
    BY <1>7, <2>1, <2>2
<1>9. due.count \in Nat /\ f.count \in Nat
  BY <1>5, <1>7, KeptTypes
<1>10. f.count > 0 => f.missed = r.missed /\ r.raw_size = raw.mode
  BY <1>1, <1>4, <1>7, <1>9
<1>11. f.missed => r.missed
  BY <1>1, <1>4, <1>7
<1>12. Expects(f, r, raw)
  BY <1>1, <1>4, <1>7, <1>8, <1>10, <1>11 DEF Expects
<1> QED
  BY <1>1, <1>2, <1>3, <1>4, <1>5, <1>6, <1>12 DEF ready, due, f

LEMMA TookKeeps ==
  ASSUME NEW r, r.enabled, NEW raw \in Moments, NEW b, Expects(b, r, raw)
  PROVE  LET x == Took(b, raw) IN
         /\ Kept(x) /\ Options(x) = Options(r) /\ ~x.gap /\ x.raw_size = raw.mode
         /\ x.seek_position = -1 /\ x.missed = b.missed
         /\ x.count \in 1..(b.count + 1) /\ Line(x) = NewestOf(Append(Line(b), raw), x.count)
         /\ EndOf(Line(x), x.count, Append(Line(b), raw), b.count + 1)
         /\ ~x.memory_limited => /\ ~b.memory_limited
                                 /\ x.count = b.count + 1 \/ x.count >= TargetCapacity(r) + 1
<1> DEFINE st == Stored(b, raw)
<1> DEFINE t == Trim(st)
<1> DEFINE x == Took(b, raw)
<1>1. Kept(b) /\ Options(b) = Options(r) /\ ~b.gap /\ b.raw_size = raw.mode
  BY DEF Expects
<1>2. /\ b \in Recorders /\ Sound(b) /\ Shaped(b) /\ b.seek_position \in -1..TargetCapacity(b) - 1
      /\ Line(b) \in Seq(Moments) /\ Len(Line(b)) = b.count /\ b.count \in Nat
      /\ b.memory_limited \in BOOLEAN /\ (b.enabled \/ b.groups = << >>)
  BY <1>1, KeptTypes
<1>3. /\ Sound(st) /\ st.count = b.count + 1 /\ st.groups # << >>
      /\ Line(st) = Append(Line(b), raw)
      /\ st = [b EXCEPT !.groups = st.groups, !.bytes = st.bytes, !.count = st.count, !.previous_raw = raw]
  BY <1>2, StoredKeeps DEF Line
<1> HIDE DEF st
<1>4. /\ Options(st) = Options(b) /\ st.seek_position = b.seek_position /\ st.raw_size = b.raw_size
      /\ st.missed = b.missed /\ st.gap = b.gap /\ st.memory_limited = b.memory_limited
  BY <1>2, <1>3 DEF Options, Recorders
<1>5. TargetCapacity(st) = TargetCapacity(b) /\ TargetCapacity(b) = TargetCapacity(r)
  BY <1>1, <1>4, SameTarget
<1>6. Shaped(st)
  <2>1. ASSUME NEW i \in 1..(b.count + 1) PROVE Append(Line(b), raw)[i].mode = b.raw_size
    <3>1. CASE i = b.count + 1
      <4>1. Append(Line(b), raw)[i] = raw
        BY <1>2, <3>1
      <4> QED
        BY <1>1, <4>1
    <3>2. CASE i # b.count + 1
      <4>1. i \in 1..b.count
        BY <1>2, <3>2
      <4>2. Append(Line(b), raw)[i] = Line(b)[i]
        BY <1>2, <4>1
      <4> QED
        BY <1>2, <4>1, <4>2 DEF Shaped
    <3> QED
      BY <3>1, <3>2
  <2> QED
    BY <1>3, <1>4, <2>1 DEF Shaped
<1>7. CASE b.enabled
  <2>1. st.enabled \/ st.groups = << >>
    BY <1>4, <1>7, SameTarget
  <2>2. /\ Kept(t) /\ Len(Line(t)) \in 0..Len(Line(st)) /\ Line(t) = NewestOf(Line(st), Len(Line(t)))
        /\ \A i \in 1..t.count : Line(t)[i] = Line(st)[st.count - t.count + i]
        /\ t.groups # << >>
        /\ t.count <= st.count /\ Options(t) = Options(st)
        /\ t = [st EXCEPT !.groups = t.groups, !.bytes = t.bytes, !.count = t.count,
                          !.memory_limited = t.memory_limited]
    BY <1>2, <1>3, <1>4, <1>5, <1>6, <2>1, TrimKeeps
  <2>3. ~t.memory_limited => t.count = st.count \/ t.count >= TargetCapacity(st) + 1
    BY <1>3, TrimWindow DEF Sound
  <2>4. ~t.memory_limited => ~st.memory_limited
    <3>1. Newer(t, st)
      BY <1>3, TrimFits DEF Sound
    <3> DEFINE w == WithoutOldest(st, Min(Windows(st)))
    <3> DEFINE f == WithoutOldest(w, Min(Fits(w)))
    <3>2. t = [f EXCEPT !.memory_limited = f.memory_limited \/ f.groups # w.groups]
      BY TrimSteps
    <3>3. Newer(w, st)
      BY <1>3, WindowsDropped DEF Sound
    <3>4. Accounted(w)
      BY <3>3 DEF Newer
    <3>5. Newer(f, w)
      BY <3>4, FitsDropped
    <3>6. f \in Recorders /\ w \in Recorders /\ st \in Recorders
      BY <1>3, <3>3, <3>5 DEF Newer, Accounted, Sound
    <3>7. f.memory_limited = w.memory_limited /\ w.memory_limited = st.memory_limited
      <4>1. w.memory_limited = st.memory_limited
        BY <3>6 DEF WithoutOldest, Recorders
      <4> HIDE DEF w
      <4>2. f.memory_limited = w.memory_limited
        BY <3>6 DEF WithoutOldest, Recorders
      <4> QED
        BY <4>1, <4>2
    <3> HIDE DEF f, w, t
    <3> DEFINE cut == f.memory_limited \/ f.groups # w.groups
    <3>8. t = [f EXCEPT !.memory_limited = cut]
      BY <3>2
    <3> HIDE DEF cut
    <3>9. t.memory_limited = cut
      BY <3>6, <3>8 DEF Recorders
    <3> QED
      BY <3>7, <3>9 DEF cut
  <2>5. x = [t EXCEPT !.seek_position = -1]
    BY DEF Took, t, st, x
  <2> HIDE DEF t
  <2>6. t \in Recorders /\ Len(Line(t)) = t.count /\ t.count \in Nat /\ t.seek_position \in -1..TargetCapacity(t) - 1
        /\ TargetCapacity(t) \in Nat \ {0} /\ t.memory_limited \in BOOLEAN
    BY <2>2, KeptTypes
  <2>7. /\ t.raw_size = st.raw_size /\ t.missed = st.missed /\ t.gap = st.gap
    <3>1. st \in Recorders
      BY <1>3 DEF Sound, Accounted
    <3> QED
      BY <2>2, <3>1 DEF Recorders
  <2>8. /\ x \in Recorders /\ x.groups = t.groups /\ x.bytes = t.bytes /\ x.count = t.count
        /\ x.previous_raw = t.previous_raw /\ x.seek_position = -1 /\ x.raw_size = t.raw_size
        /\ x.missed = t.missed /\ x.gap = t.gap /\ x.memory_limited = t.memory_limited
        /\ Options(x) = Options(t)
    <3>1. PICK away \in Int : away = -1
      OBVIOUS
    <3>2. x = [t EXCEPT !.seek_position = away]
      BY <2>5, <3>1
    <3> HIDE DEF x
    <3>3. x \in Recorders
      BY <2>6, <3>2 DEF Recorders
    <3> QED
      BY <2>6, <3>1, <3>2, <3>3 DEF Recorders, Options
  <2> HIDE DEF x
  <2>9. Kept(x) /\ Line(x) = Line(t)
    <3>1. -1 \in -1..TargetCapacity(t) - 1
      BY <2>6
    <3> QED
      BY <2>2, <2>8, <3>1, Untouched
  <2>10. t.count # 0
    <3>1. t.groups \in Seq(Group) /\ Ring(t.groups) /\ t.count = FramesIn(t.groups) /\ Len(t.groups) \in Nat
      BY <2>2 DEF Kept, Sound, Accounted, Ring
    <3>2. Len(t.groups) # 0 /\ 1 \in 1..Len(t.groups) /\ 1 \in 0..Len(t.groups)
      BY <2>2, <3>1
    <3>3. FirstGroups(t.groups, 1) = Append(FirstGroups(t.groups, 1 - 1), t.groups[1])
          /\ FirstGroups(t.groups, 1 - 1) \in Seq(Group) /\ t.groups[1] \in Group
      BY <3>1, <3>2, FirstGroupsGrow
    <3>4. FramesIn(FirstGroups(t.groups, 1)) = FramesIn(FirstGroups(t.groups, 1 - 1)) + Len(t.groups[1].frames)
      BY <3>3, AmountsAppend
    <3>5. /\ FramesIn(FirstGroups(t.groups, 1 - 1)) \in Nat
      <4>1. 1 - 1 \in 0..Len(t.groups)
        BY <3>1
      <4> QED
        BY <3>1, <4>1, OldestOut
    <3>6. /\ FramesIn(SubSeq(t.groups, 1 + 1, Len(t.groups))) = FramesIn(t.groups) - FramesIn(FirstGroups(t.groups, 1))
          /\ FramesIn(SubSeq(t.groups, 1 + 1, Len(t.groups))) \in Nat
      BY <3>1, <3>2, OldestOut
    <3>7. Len(t.groups[1].frames) \in 1..FramesPerGroup /\ FramesPerGroup \in Nat
      BY <3>1, <3>2, RewindAssumption DEF Ring
    <3>8. FramesIn(FirstGroups(t.groups, 1)) >= 1
      BY <3>4, <3>5, <3>7
    <3>9. FramesIn(FirstGroups(t.groups, 1)) \in Nat
      BY <3>4, <3>5, <3>7
    <3> QED
      BY <2>6, <3>1, <3>6, <3>8, <3>9
  <2>11. x.count \in 1..(b.count + 1)
    BY <1>2, <1>3, <2>2, <2>6, <2>8, <2>10
  <2>12. Line(x) = NewestOf(Append(Line(b), raw), x.count)
    BY <1>3, <2>2, <2>6, <2>8, <2>9
  <2>13. EndOf(Line(x), x.count, Append(Line(b), raw), b.count + 1)
    <3>1. ASSUME NEW i \in 1..x.count
          PROVE  Line(x)[i] = Append(Line(b), raw)[(b.count + 1) - x.count + i]
      <4>1. i \in 1..t.count
        BY <2>8
      <4>2. Line(t)[i] = Line(st)[st.count - t.count + i]
        BY <2>2, <4>1
      <4>3. st.count - t.count + i = (b.count + 1) - x.count + i
        <5>1. st.count = b.count + 1 /\ x.count = t.count
          BY <1>3, <2>8
        <5>2. PICK held \in Nat, left \in Nat : held = b.count /\ left = t.count
          BY <1>2, <2>6
        <5>3. st.count = held + 1 /\ x.count = left /\ i \in Nat
          BY <5>1, <5>2
        <5>4. st.count - t.count + i = (held + 1) - left + i
          BY <5>2, <5>3
        <5> QED
          BY <5>2, <5>3, <5>4
      <4> QED
        BY <1>3, <2>9, <4>2, <4>3
    <3> QED
      BY <3>1 DEF EndOf
  <2>14. ~x.memory_limited => /\ ~b.memory_limited
                              /\ x.count = b.count + 1 \/ x.count >= TargetCapacity(r) + 1
    BY <1>3, <1>4, <1>5, <2>3, <2>4, <2>8
  <2>15. /\ Options(x) = Options(r) /\ ~x.gap /\ x.raw_size = raw.mode /\ x.missed = b.missed
    BY <1>1, <1>4, <2>2, <2>7, <2>8
  <2> QED
    BY <2>8, <2>9, <2>11, <2>12, <2>13, <2>14, <2>15 DEF x
<1> QED
  BY <1>1, <1>7, SameTarget

\* The end of a frame: nothing is captured, a capture is not due or is missed, or
\* the capture is stored and the ring trimmed.
LEMMA PushedKeeps ==
  ASSUME NEW r, Kept(r), NEW raw \in Moments, NEW outcome \in Outcomes, active \in BOOLEAN
  PROVE  LET x == Pushed(r, raw, outcome) IN
         /\ Kept(x) /\ Options(x) = Options(r)
         /\ \/ /\ Line(x) = Line(r) /\ x.count = r.count /\ x.seek_position = r.seek_position
               /\ x.missed = r.missed /\ x.raw_size = r.raw_size /\ x.memory_limited = r.memory_limited
               /\ ~r.enabled \/ x.gap
            \/ Based(x, r) /\ (x.missed \/ r.frames_per_snapshot > 1)
            \/ r.enabled /\ \E b : Expects(b, r, raw) /\ x = Took(b, raw)
<1> DEFINE x == Pushed(r, raw, outcome)
<1> DEFINE ready == OneBranch(r)
<1> DEFINE due == [ready EXCEPT !.frame_accum = 0]
<1> DEFINE f == Fitted(due, raw)
<1>1. /\ Kept(ready) /\ Options(ready) = Options(r) /\ Based(ready, r) /\ ready \in Recorders
      /\ Kept(due) /\ Options(due) = Options(r) /\ Based(due, r)
      /\ Expects(f, r, raw)
  BY BranchAndFit
<1>2. /\ r \in Recorders /\ r.enabled \in BOOLEAN /\ r.seek_position \in -1..TargetCapacity(r) - 1
      /\ r.frames_per_snapshot \in Nat \ {0}
  BY KeptTypes, RewindAssumption DEF Recorders
<1>3. CASE ~r.enabled
  <2>1. x = r
    BY <1>3 DEF Pushed
  <2> QED
    BY <1>3, <2>1
<1>4. CASE r.enabled /\ ~active
  <2>1. x = [r EXCEPT !.gap = TRUE]
    BY <1>4 DEF Pushed
  <2> HIDE DEF x
  <2>2. x \in Recorders
    BY <1>2, <2>1 DEF Recorders
  <2>3. /\ x.groups = r.groups /\ x.bytes = r.bytes /\ x.count = r.count /\ x.previous_raw = r.previous_raw
        /\ Options(x) = Options(r) /\ x.seek_position = r.seek_position /\ x.raw_size = r.raw_size
        /\ x.missed = r.missed /\ x.memory_limited = r.memory_limited /\ x.gap
    BY <1>2, <2>1 DEF Recorders, Options
  <2>4. Kept(x) /\ Line(x) = Line(r)
    BY <1>2, <2>2, <2>3, Untouched
  <2> QED
    BY <2>3, <2>4 DEF x
<1>5. CASE r.enabled /\ active /\ ready.frame_accum + 1 < r.frames_per_snapshot
  <2>1. x = [ready EXCEPT !.frame_accum = ready.frame_accum + 1]
    BY <1>5 DEF Pushed
  <2> HIDE DEF x, ready
  <2>2. PICK n \in Nat : n = ready.frame_accum + 1
    BY <1>1 DEF Recorders
  <2>3. x = [ready EXCEPT !.frame_accum = n]
    BY <2>1, <2>2
  <2>4. x \in Recorders
    BY <1>1, <2>3 DEF Recorders
  <2>5. /\ x.groups = ready.groups /\ x.bytes = ready.bytes /\ x.count = ready.count
        /\ x.previous_raw = ready.previous_raw
        /\ Options(x) = Options(ready) /\ x.seek_position = ready.seek_position /\ x.raw_size = ready.raw_size
        /\ x.memory_limited = ready.memory_limited
    BY <1>1, <2>3, <2>4 DEF Recorders, Options
  <2>6. ready.seek_position \in -1..TargetCapacity(ready) - 1
    BY <1>1, KeptTypes
  <2>7. Kept(x) /\ Line(x) = Line(ready)
    BY <1>1, <2>4, <2>5, <2>6, Untouched
  <2>8. Based(x, r)
    BY <1>1, <2>5, <2>7 DEF Based
  <2>9. r.frames_per_snapshot > 1
    <3>1. ready.frame_accum \in Nat
      BY <1>1 DEF Recorders
    <3> QED
      BY <1>2, <1>5, <3>1
  <2> QED
    BY <1>1, <2>5, <2>7, <2>8, <2>9 DEF x
<1>6. CASE r.enabled /\ active /\ ~(ready.frame_accum + 1 < r.frames_per_snapshot)
  <2>1. CASE outcome = "unsaved"
    <3>1. x = [due EXCEPT !.missed = TRUE]
      BY <1>6, <2>1 DEF Pushed
    <3> HIDE DEF x, due
    <3>2. due \in Recorders /\ due.seek_position \in -1..TargetCapacity(due) - 1
      BY <1>1, KeptTypes
    <3>3. x \in Recorders
      BY <3>1, <3>2 DEF Recorders
    <3>4. /\ x.groups = due.groups /\ x.bytes = due.bytes /\ x.count = due.count
          /\ x.previous_raw = due.previous_raw
          /\ Options(x) = Options(due) /\ x.seek_position = due.seek_position /\ x.raw_size = due.raw_size
          /\ x.memory_limited = due.memory_limited /\ x.missed
      BY <3>1, <3>2 DEF Recorders, Options
    <3>5. Kept(x) /\ Line(x) = Line(due)
      BY <1>1, <3>2, <3>3, <3>4, Untouched
    <3>6. Based(x, r)
      BY <1>1, <3>4, <3>5 DEF Based
    <3> QED
      BY <1>1, <3>4, <3>5, <3>6 DEF x
  <2>2. CASE outcome = "undeflated"
    <3>1. x = [f EXCEPT !.missed = TRUE]
      BY <1>6, <2>2 DEF Pushed
    <3> HIDE DEF x, f
    <3>2. Kept(f) /\ Based(f, r) /\ Options(f) = Options(r)
      BY <1>1 DEF Expects
    <3>3. f \in Recorders /\ f.seek_position \in -1..TargetCapacity(f) - 1
      BY <3>2, KeptTypes
    <3>4. x \in Recorders
      BY <3>1, <3>3 DEF Recorders
    <3>5. /\ x.groups = f.groups /\ x.bytes = f.bytes /\ x.count = f.count
          /\ x.previous_raw = f.previous_raw
          /\ Options(x) = Options(f) /\ x.seek_position = f.seek_position /\ x.raw_size = f.raw_size
          /\ x.memory_limited = f.memory_limited /\ x.missed
      BY <3>1, <3>3 DEF Recorders, Options
    <3>6. Kept(x) /\ Line(x) = Line(f)
      BY <3>2, <3>3, <3>4, <3>5, Untouched
    <3>7. Based(x, r)
      BY <3>2, <3>5, <3>6 DEF Based
    <3> QED
      BY <3>2, <3>5, <3>6, <3>7 DEF x
  <2>3. CASE outcome = "ok"
    <3>1. x = Took(f, raw)
      BY <1>6, <2>3 DEF Pushed, Took
    <3>2. Kept(x) /\ Options(x) = Options(r)
      BY <1>1, <1>6, <3>1, TookKeeps
    <3> HIDE DEF x, f
    <3>3. \E b : Expects(b, r, raw) /\ x = Took(b, raw)
      BY <1>1, <3>1
    <3> QED
      BY <1>6, <3>2, <3>3 DEF x
  <2> QED
    BY <2>1, <2>2, <2>3 DEF Outcomes
<1> QED
  BY <1>2, <1>3, <1>4, <1>5, <1>6

-----------------------------------------------------------------------------
(* What a step of the program does to the machine and the recorder.          *)

LEMMA RanOn ==
  ASSUME NEW m \in Captures, m.mode # "none", NEW input \in Inputs
  PROVE  LET x == Ran(m, input) IN
         /\ x \in Moments /\ x.mode = m.mode /\ x.device = m.device
         /\ Len(x.past) = Len(m.past) + 1 /\ SubSeq(x.past, 1, Len(m.past)) = m.past
<1> DEFINE x == Ran(m, input)
<1> DEFINE past == Append(m.past, input)
<1>1. m.past \in Seq(Inputs) /\ m.mode \in Media /\ m.device \in Nat
  BY DEF Captures, Modes
<1>2. x = [m EXCEPT !.past = past]
  BY DEF Ran
<1>3. past \in Seq(Inputs) /\ Len(past) = Len(m.past) + 1 /\ Len(m.past) \in Nat
  BY <1>1
<1>4. SubSeq(past, 1, Len(m.past)) = m.past
  BY <1>1
<1> HIDE DEF x, past
<1>5. x \in Captures /\ x.mode = m.mode /\ x.device = m.device /\ x.past = past
  BY <1>2, <1>3 DEF Captures
<1>6. past # << >>
  BY <1>3
<1>7. x \in Moments
  BY <1>1, <1>5, <1>6 DEF Moments
<1> QED
  BY <1>3, <1>4, <1>5, <1>7 DEF x

LEMMA ReplayedOn ==
  ASSUME NEW raw \in Moments
  PROVE  LET x == Replayed(raw) IN
         /\ x \in Moments /\ x.mode = raw.mode /\ x.device = raw.device
         /\ Len(x.past) = Len(raw.past) + 1 /\ SubSeq(x.past, 1, Len(raw.past)) = raw.past
<1>1. raw \in Captures /\ raw.mode # "none" /\ raw.past \in Seq(Inputs) /\ raw.past # << >>
  BY DEF Moments, Captures, Media
<1>2. Len(raw.past) \in 1..Len(raw.past)
  BY <1>1
<1>3. raw.past[Len(raw.past)] \in Inputs
  BY <1>1, <1>2
<1> QED
  BY <1>1, <1>3, RanOn DEF Replayed

LEMMA Seekable ==
  ASSUME NEW r, Kept(r), NEW age \in Nat, age < ExposedCount(r)
  PROVE  /\ r.count - (age + 1) \in 1..(r.count - 1)
         /\ r.count - age = (r.count - (age + 1)) + 1 /\ r.count - age \in 1..r.count
         /\ age \in -1..TargetCapacity(r) - 1
         /\ ReconstructRaw(r, age + 1) = Line(r)[r.count - (age + 1)]
         /\ ReconstructRaw(r, age) = Line(r)[r.count - age]
         /\ ReconstructRaw(r, age + 1) \in Moments
<1>1. /\ r.count \in Nat /\ TargetCapacity(r) \in Nat \ {0}
      /\ Line(r) \in Seq(Moments) /\ Len(Line(r)) = r.count
  BY KeptTypes
<1>2. r.count > 1
  BY <1>1 DEF ExposedCount
<1>3. age < r.count - 1 /\ age < TargetCapacity(r)
  <2>1. {r.count - 1, TargetCapacity(r)} \in SUBSET Nat /\ {r.count - 1, TargetCapacity(r)} # {}
    BY <1>1, <1>2
  <2>2. PICK e \in Nat : e = Min({r.count - 1, TargetCapacity(r)}) /\ e <= r.count - 1 /\ e <= TargetCapacity(r)
    BY <2>1, MinIsLeast
  <2>3. age < e
    BY <1>1, <1>2, <2>2 DEF ExposedCount
  <2> QED
    BY <1>1, <2>2, <2>3
<1>4. r.count - (age + 1) \in 1..(r.count - 1) /\ r.count - (age + 1) \in 1..r.count
  BY <1>1, <1>3
<1>5. r.count - age = (r.count - (age + 1)) + 1 /\ r.count - age \in 1..r.count
  BY <1>1, <1>3
<1>6. age \in -1..TargetCapacity(r) - 1
  BY <1>1, <1>3
<1>7. ReconstructRaw(r, age + 1) = Line(r)[r.count - (age + 1)] /\ ReconstructRaw(r, age) = Line(r)[r.count - age]
  BY DEF ReconstructRaw, Line
<1>8. Line(r)[r.count - (age + 1)] \in Moments
  BY <1>1, <1>4
<1> QED
  BY <1>4, <1>5, <1>6, <1>7, <1>8

Inv == machine \in Captures /\ active \in BOOLEAN /\ Kept(g)

Ends == \E input \in Inputs, outcome \in Outcomes :
  Ready /\ machine' = Ran(machine, input) /\ g' = Pushed(g, Ran(machine, input), outcome)
Stays == machine' = machine /\ g' = g
Seeks == \E age \in Nat :
  /\ age < ExposedCount(g) /\ g' = [g EXCEPT !.seek_position = age]
  /\ machine' = Replayed(ReconstructRaw(g, age + 1))
Branches == g.seek_position > 0 /\ machine' = machine /\ g' = CommitSeek(g)
Forgets == machine' \in Captures /\ \E s \in Recorders : g' = Forgotten(s)
\* s is the recorder under another memory limit.
Limited(s) ==
  /\ s \in Recorders /\ s.enabled /\ s.seconds = g.seconds /\ s.frames_per_snapshot = g.frames_per_snapshot
  /\ s.groups = g.groups /\ s.bytes = g.bytes /\ s.count = g.count /\ s.previous_raw = g.previous_raw
  /\ s.seek_position = g.seek_position /\ s.raw_size = g.raw_size /\ s.missed = g.missed /\ s.gap = g.gap
  /\ s.memory_limited = g.memory_limited
Trims == machine' = machine /\ \E s : Limited(s) /\ g' = Trim(s)
Boots ==
  /\ machine' \in Captures /\ machine'.past = << >> /\ g' = g
  /\ \/ machine.mode \in StartFrom /\ machine'.mode = "sf7000"
     \/ ~g.enabled /\ machine'.mode = machine.mode

Moves == Ends \/ Stays \/ Seeks \/ Branches \/ Forgets \/ Trims \/ Boots

LEMMA ContinueMoves ==
  ASSUME NEW m, NEW stopped, Continue(g, m, stopped)
  PROVE  (machine' = m /\ g' = g) \/ Seeks
<1>1. CASE CanSeek(g, 0, m) /\ machine' = Replayed(ReconstructRaw(g, 1)) /\ g' = [g EXCEPT !.seek_position = 0]
  <2>1. 0 < ExposedCount(g) /\ 0 \in Nat /\ 0 + 1 = 1
    BY <1>1 DEF CanSeek
  <2> QED
    BY <1>1, <2>1 DEF Seeks
<1> QED
  BY <1>1 DEF Continue

LEMMA ConfigureMoves ==
  ASSUME Inv, NEW enabled \in BOOLEAN, NEW seconds \in Seconds, NEW stride \in Strides,
         NEW limit \in MemoryLimits, Configure(enabled, seconds, stride, limit)
  PROVE  Forgets \/ Trims
<1> DEFINE shapeChanged == seconds # g.seconds \/ stride # g.frames_per_snapshot
<1> DEFINE s == [g EXCEPT !.seconds = seconds, !.frames_per_snapshot = stride,
                          !.memory_limit = limit, !.enabled = enabled]
<1>1. g \in Recorders /\ machine \in Captures
  BY KeptTypes DEF Inv
<1>2. /\ g' = IF enabled /\ ~shapeChanged THEN Trim(s) ELSE Forgotten(s)
      /\ machine' = machine
  BY DEF Configure
<1>3. s \in Recorders
  BY <1>1 DEF Recorders
<1>4. CASE enabled /\ ~shapeChanged
  <2>1. Limited(s)
    BY <1>1, <1>3, <1>4 DEF Recorders, Limited
  <2> HIDE DEF s
  <2> QED
    BY <1>2, <1>4, <2>1 DEF Trims
<1>5. CASE ~(enabled /\ ~shapeChanged)
  <2> HIDE DEF s
  <2> QED
    BY <1>1, <1>2, <1>3, <1>5 DEF Forgets
<1> QED
  BY <1>4, <1>5

LEMMA Booted ==
  ASSUME NEW mode \in Modes, NEW device \in Nat
  PROVE  /\ Boot(mode, device) \in Captures /\ Boot(mode, device).mode = mode
         /\ Boot(mode, device).past = << >>
<1>1. << >> \in Seq(Inputs)
  OBVIOUS
<1> QED
  BY <1>1 DEF Boot, Captures

LEMMA DevicesType ==
  ASSUME machine \in Captures
  PROVE  Devices \subseteq Nat
<1>1. machine.device \in Nat /\ MaxDevice \in Nat
  BY RewindAssumption DEF Captures
<1>2. {machine.device + 1, MaxDevice} \in SUBSET Nat /\ {machine.device + 1, MaxDevice} # {}
  BY <1>1
<1>3. Min({machine.device + 1, MaxDevice}) \in Nat
  BY <1>2, MinIsLeast
<1> QED
  BY <1>1, <1>3 DEF Devices

\* Every operation is one of seven moves.
LEMMA OperationsMove ==
  ASSUME Inv, [Next]_vars
  PROVE  Moves /\ active' \in BOOLEAN
<1>1. g \in Recorders /\ machine \in Captures /\ active \in BOOLEAN /\ machine.mode \in Modes /\ machine.device \in Nat
  BY KeptTypes DEF Inv, Captures
<1>2. ASSUME FrameEnds PROVE Ends
  BY <1>2 DEF FrameEnds, Ends
<1>3. CASE RunFrame
  BY <1>1, <1>2, <1>3 DEF RunFrame, Moves
<1>4. CASE StepFrameNow
  BY <1>1, <1>2, <1>4 DEF StepFrameNow, Moves
<1>5. CASE StepFrame \/ Break \/ Pause
  BY <1>1, <1>5 DEF StepFrame, Break, Pause, Moves, Stays
<1>6. CASE Scrub
  <2>1. PICK age \in 0..g.count : RewindSeek(age)
    BY <1>6 DEF Scrub
  <2>2. age \in Nat
    BY <1>1 DEF Recorders
  <2>3. Seeks
    BY <2>1, <2>2 DEF RewindSeek, CanSeek, Seeks
  <2> QED
    BY <1>1, <1>6, <2>3 DEF Scrub, Moves
<1>7. CASE Play
  <2>1. Continue(g, machine, run) /\ active' = active
    BY <1>7 DEF Play
  <2> QED
    BY <1>1, <2>1, ContinueMoves DEF Moves, Stays
<1>8. CASE PlayFromHere
  <2>1. g.seek_position > 0 /\ Continue(CommitSeek(g), machine, run) /\ active' = active
    BY <1>8 DEF PlayFromHere
  <2>2. CommitSeek(g).seek_position = -1
    BY CommitSeekKeeps DEF Inv
  <2>3. CommitSeek(g).seek_position <= 0
    BY <2>2
  <2>4. Branches
    BY <2>1, <2>3 DEF Continue, Branches
  <2> QED
    BY <1>1, <2>1, <2>4 DEF Moves
<1>9. CASE SuspendRuntime
  <2>1. (Continue(g, machine, run) \/ UNCHANGED <<machine, run, g>>) /\ active' = FALSE
    BY <1>9 DEF SuspendRuntime
  <2> QED
    BY <2>1, ContinueMoves DEF Moves, Stays
<1>10. CASE ResumeRuntime
  BY <1>10 DEF ResumeRuntime, Moves, Stays
<1>11. CASE \E enabled \in BOOLEAN, seconds \in Seconds, stride \in Strides, limit \in MemoryLimits :
              Configure(enabled, seconds, stride, limit)
  <2>1. PICK enabled \in BOOLEAN, seconds \in Seconds, stride \in Strides, limit \in MemoryLimits :
          Configure(enabled, seconds, stride, limit)
    BY <1>11
  <2>2. active' = active
    BY <2>1 DEF Configure
  <2> QED
    BY <1>1, <2>1, <2>2, ConfigureMoves DEF Moves
<1>12. CASE RewindReset
  BY <1>1, <1>12 DEF RewindReset, Moves, Forgets
<1>13. CASE \E mode \in {"rom", machine.mode} \ {"none"}, paused \in BOOLEAN : ResetMachine(mode, paused)
  <2>1. PICK mode \in {"rom", machine.mode} \ {"none"}, paused \in BOOLEAN : ResetMachine(mode, paused)
    BY <1>13
  <2>2. mode \in Modes
    BY <1>1 DEF Modes, Media
  <2>3. PICK device \in Devices : machine' = Boot(mode, device)
    BY <2>1 DEF ResetMachine
  <2>4. device \in Nat
    BY <1>1, <2>3, DevicesType
  <2>5. machine' \in Captures
    BY <2>2, <2>3, <2>4, Booted
  <2> QED
    BY <1>1, <2>1, <2>5 DEF ResetMachine, Moves, Forgets
<1>14. CASE EjectRom
  <2>1. "none" \in Modes
    BY DEF Modes
  <2>2. machine' \in Captures
    BY <1>1, <1>14, <2>1, Booted DEF EjectRom
  <2> QED
    BY <1>1, <1>14, <2>2 DEF EjectRom, Moves, Forgets
<1>15. CASE LoadState
  <2>1. machine' \in Captures /\ machine'.past = << >> /\ machine'.mode = machine.mode
    BY <1>1, <1>15, Booted DEF LoadState
  <2>2. CASE g.enabled
    BY <1>1, <1>15, <2>1, <2>2 DEF LoadState, Moves, Forgets
  <2>3. CASE ~g.enabled
    BY <1>1, <1>15, <2>1, <2>3 DEF LoadState, Moves, Boots
  <2> QED
    BY <2>2, <2>3
<1>16. CASE \E paused \in BOOLEAN : StartSF7000(paused)
  <2>1. PICK paused \in BOOLEAN : StartSF7000(paused)
    BY <1>16
  <2>2. PICK device \in Devices :
          LET fresh == Boot("sf7000", device)
              held == [run EXCEPT !.paused = paused]
          IN IF paused THEN machine' = fresh /\ run' = held /\ g' = g
             ELSE Continue(g, fresh, held)
    BY <2>1 DEF StartSF7000
  <2> DEFINE fresh == Boot("sf7000", device)
  <2> DEFINE held == [run EXCEPT !.paused = paused]
  <2>3. (machine' = fresh /\ g' = g) \/ Continue(g, fresh, held)
    BY <2>2
  <2>4. device \in Nat /\ "sf7000" \in Modes
    BY <1>1, <2>2, DevicesType DEF Modes, Media
  <2>5. fresh \in Captures /\ fresh.mode = "sf7000" /\ fresh.past = << >>
    BY <2>4, Booted
  <2> HIDE DEF fresh, held
  <2>6. (machine' = fresh /\ g' = g) \/ Seeks
    BY <2>3, ContinueMoves
  <2>7. machine.mode \in StartFrom /\ active' = active
    BY <2>1 DEF StartSF7000
  <2> QED
    BY <1>1, <2>5, <2>6, <2>7 DEF Moves, Boots
<1>17. CASE UNCHANGED vars
  BY <1>1, <1>17 DEF vars, Moves, Stays
<1> QED
  BY <1>3, <1>4, <1>5, <1>6, <1>7, <1>8, <1>9, <1>10, <1>11, <1>12, <1>13, <1>14, <1>15, <1>16, <1>17
     DEF Next, Operate

-----------------------------------------------------------------------------
(* The ring is accounted for.                                                *)

\* Only the cursor moves.
LEMMA SoughtKeeps ==
  ASSUME NEW r, Kept(r), NEW age \in Nat, age < ExposedCount(r)
  PROVE  LET x == [r EXCEPT !.seek_position = age] IN
         /\ Kept(x) /\ Line(x) = Line(r) /\ x.count = r.count /\ x.seek_position = age
         /\ x.missed = r.missed /\ x.gap = r.gap /\ x.raw_size = r.raw_size /\ Options(x) = Options(r)
         /\ x.memory_limited = r.memory_limited
<1> DEFINE x == [r EXCEPT !.seek_position = age]
<1>1. r \in Recorders
  BY KeptTypes
<1>2. PICK n \in Int : n = age
  OBVIOUS
<1>3. x = [r EXCEPT !.seek_position = n]
  BY <1>2
<1> HIDE DEF x
<1>4. x \in Recorders
  BY <1>1, <1>3 DEF Recorders
<1>5. /\ x.groups = r.groups /\ x.bytes = r.bytes /\ x.count = r.count /\ x.previous_raw = r.previous_raw
      /\ Options(x) = Options(r) /\ x.seek_position = age /\ x.raw_size = r.raw_size
      /\ x.missed = r.missed /\ x.gap = r.gap /\ x.memory_limited = r.memory_limited
  BY <1>1, <1>2, <1>3, <1>4 DEF Recorders, Options
<1>6. x.seek_position \in -1..TargetCapacity(r) - 1
  BY <1>5, Seekable
<1>7. Kept(x) /\ Line(x) = Line(r)
  BY <1>4, <1>5, <1>6, Untouched
<1> QED
  BY <1>5, <1>7 DEF x

\* Under another memory limit the ring is trimmed again, and holds the newest of
\* what it held.
LEMMA LimitedKeeps ==
  ASSUME Kept(g), NEW s, Limited(s)
  PROVE  LET x == Trim(s) IN
         /\ Kept(x) /\ Len(Line(x)) \in 0..Len(Line(g)) /\ Line(x) = NewestOf(Line(g), Len(Line(x)))
         /\ \A i \in 1..x.count : Line(x)[i] = Line(g)[g.count - x.count + i]
         /\ x.count <= g.count /\ x.seek_position = g.seek_position
         /\ x.missed = g.missed /\ x.gap = g.gap /\ x.raw_size = g.raw_size
         /\ TargetCapacity(x) = TargetCapacity(g)
         /\ ~x.memory_limited => x.count = g.count \/ x.count >= TargetCapacity(g) + 1
<1> DEFINE x == Trim(s)
<1>1. /\ s \in Recorders /\ s.enabled /\ s.seconds = g.seconds /\ s.frames_per_snapshot = g.frames_per_snapshot
      /\ s.groups = g.groups /\ s.bytes = g.bytes /\ s.count = g.count /\ s.previous_raw = g.previous_raw
      /\ s.seek_position = g.seek_position /\ s.raw_size = g.raw_size /\ s.missed = g.missed /\ s.gap = g.gap
      /\ s.memory_limited = g.memory_limited
  BY DEF Limited
<1>2. Sound(g) /\ Shaped(g) /\ g.seek_position \in -1..TargetCapacity(g) - 1
  BY KeptTypes
<1>3. TargetCapacity(s) = TargetCapacity(g) /\ Line(s) = Line(g)
  BY <1>1 DEF TargetCapacity, Line
<1>4. Accounted(s)
  BY <1>1, <1>2 DEF Sound, Accounted
<1>5. Sound(s)
  BY <1>1, <1>2, <1>4 DEF Sound, Linked
<1>6. Shaped(s)
  BY <1>1, <1>2, <1>3 DEF Shaped
<1>7. /\ Kept(x) /\ Len(Line(x)) \in 0..Len(Line(s)) /\ Line(x) = NewestOf(Line(s), Len(Line(x)))
      /\ \A i \in 1..x.count : Line(x)[i] = Line(s)[s.count - x.count + i]
      /\ x.count <= s.count /\ Options(x) = Options(s)
      /\ x = [s EXCEPT !.groups = x.groups, !.bytes = x.bytes, !.count = x.count,
                        !.memory_limited = x.memory_limited]
  BY <1>1, <1>2, <1>3, <1>5, <1>6, TrimKeeps
<1>8. ~x.memory_limited => x.count = s.count \/ x.count >= TargetCapacity(s) + 1
  BY <1>4, TrimWindow
<1> HIDE DEF x
<1>9. x.seek_position = s.seek_position /\ x.missed = s.missed /\ x.gap = s.gap /\ x.raw_size = s.raw_size
  BY <1>1, <1>7 DEF Recorders
<1>10. TargetCapacity(x) = TargetCapacity(s)
  BY <1>7, SameTarget
<1> QED
  BY <1>1, <1>3, <1>7, <1>8, <1>9, <1>10 DEF x

LEMMA InvInit == Init => Inv
<1>1. SUFFICES ASSUME Init PROVE Inv
  OBVIOUS
<1>2. PICK seconds \in Seconds, stride \in Strides, limit \in MemoryLimits :
       g = [enabled |-> TRUE, seconds |-> seconds, frames_per_snapshot |-> stride,
            memory_limit |-> limit, groups |-> << >>, bytes |-> 0, count |-> 0,
            frame_accum |-> 0, seek_position |-> -1, previous_raw |-> NoCapture,
            raw_size |-> "none", device |-> 0, missed |-> FALSE,
            memory_limited |-> FALSE, gap |-> FALSE]
  BY <1>1 DEF Init
<1>3. machine \in Captures /\ active \in BOOLEAN
  <2>1. "rom" \in Modes /\ 1 \in Nat
    BY DEF Modes, Media
  <2> QED
    BY <1>1, <2>1, Booted DEF Init
<1>4. NoCapture \in Captures /\ "none" \in Modes /\ << >> \in Seq(Group)
  <2>1. "none" \in Modes /\ 0 \in Nat
    BY DEF Modes
  <2> QED
    BY <2>1, Booted DEF NoCapture
<1>5. PICK none \in Captures, nothing \in Modes, no \in Seq(Group), away \in Int :
        none = NoCapture /\ nothing = "none" /\ no = << >> /\ away = -1
  <2>1. \E away \in Int : away = -1
    OBVIOUS
  <2> QED
    BY <1>4, <2>1
<1>6. g = [enabled |-> TRUE, seconds |-> seconds, frames_per_snapshot |-> stride,
            memory_limit |-> limit, groups |-> no, bytes |-> 0, count |-> 0,
            frame_accum |-> 0, seek_position |-> away, previous_raw |-> none,
            raw_size |-> nothing, device |-> 0, missed |-> FALSE,
            memory_limited |-> FALSE, gap |-> FALSE]
  BY <1>2, <1>5
<1>7. g \in Recorders
  BY <1>6 DEF Recorders
<1>8. Kept(g)
  <2> DEFINE f == Forgotten(g)
  <2>1. f = [g EXCEPT !.groups = no, !.bytes = 0, !.count = 0, !.frame_accum = 0,
                      !.seek_position = away, !.previous_raw = none, !.raw_size = nothing,
                      !.device = 0, !.missed = FALSE, !.memory_limited = FALSE, !.gap = FALSE]
    BY <1>5 DEF Forgotten
  <2>2. Kept(f) /\ f.count = 0 /\ Options(f) = Options(g)
    BY <1>7, ForgottenKeeps
  <2> HIDE DEF f
  <2>3. /\ f.groups = no /\ f.bytes = 0 /\ f.count = 0 /\ f.previous_raw = none
        /\ f.seek_position = away /\ f.raw_size = nothing
    BY <1>7, <2>1 DEF Recorders
  <2>4. /\ g.groups = no /\ g.bytes = 0 /\ g.count = 0 /\ g.previous_raw = none
        /\ g.seek_position = away /\ g.raw_size = nothing
    BY <1>6
  <2>5. f.seek_position \in -1..TargetCapacity(f) - 1
    BY <2>2, KeptTypes
  <2> QED
    BY <1>7, <2>2, <2>3, <2>4, <2>5, Untouched
<1> QED
  BY <1>3, <1>8 DEF Inv

LEMMA InvStep == Inv /\ [Next]_vars => Inv'
<1>1. SUFFICES ASSUME Inv, [Next]_vars PROVE machine' \in Captures /\ active' \in BOOLEAN /\ Kept(g')
  BY DEF Inv
<1>2. Moves /\ active' \in BOOLEAN
  BY <1>1, OperationsMove
<1>3. machine \in Captures /\ Kept(g) /\ active \in BOOLEAN
  BY <1>1 DEF Inv
<1>4. CASE Ends
  <2>1. PICK input \in Inputs, outcome \in Outcomes :
          Ready /\ machine' = Ran(machine, input) /\ g' = Pushed(g, Ran(machine, input), outcome)
    BY <1>4 DEF Ends
  <2>2. Ran(machine, input) \in Moments
    BY <1>3, <2>1, RanOn DEF Ready
  <2>3. Kept(Pushed(g, Ran(machine, input), outcome))
    BY <1>3, <2>2, PushedKeeps
  <2>4. Ran(machine, input) \in Captures
    BY <2>2 DEF Moments
  <2> QED
    BY <1>2, <2>1, <2>3, <2>4
<1>5. CASE Stays
  BY <1>2, <1>3, <1>5 DEF Stays
<1>6. CASE Seeks
  <2>1. PICK age \in Nat : age < ExposedCount(g) /\ g' = [g EXCEPT !.seek_position = age]
                           /\ machine' = Replayed(ReconstructRaw(g, age + 1))
    BY <1>6 DEF Seeks
  <2>2. ReconstructRaw(g, age + 1) \in Moments
    BY <1>3, <2>1, Seekable
  <2>3. Replayed(ReconstructRaw(g, age + 1)) \in Captures
    BY <2>2, ReplayedOn DEF Moments
  <2>4. Kept([g EXCEPT !.seek_position = age])
    BY <1>3, <2>1, SoughtKeeps
  <2> QED
    BY <1>2, <2>1, <2>3, <2>4
<1>7. CASE Branches
  <2>1. Kept(CommitSeek(g))
    BY <1>3, CommitSeekKeeps
  <2> QED
    BY <1>2, <1>3, <1>7, <2>1 DEF Branches
<1>8. CASE Forgets
  <2>1. PICK s \in Recorders : g' = Forgotten(s)
    BY <1>8 DEF Forgets
  <2>2. Kept(Forgotten(s))
    BY ForgottenKeeps
  <2> QED
    BY <1>2, <1>8, <2>1, <2>2 DEF Forgets
<1>9. CASE Trims
  <2>1. PICK s : Limited(s) /\ g' = Trim(s)
    BY <1>9 DEF Trims
  <2>2. Kept(Trim(s))
    BY <1>3, <2>1, LimitedKeeps
  <2> QED
    BY <1>2, <1>3, <1>9, <2>1, <2>2 DEF Trims
<1>10. CASE Boots
  BY <1>2, <1>3, <1>10 DEF Boots
<1> QED
  BY <1>2, <1>4, <1>5, <1>6, <1>7, <1>8, <1>9, <1>10 DEF Moves

LEMMA InvHolds == Spec => []Inv
BY InvInit, InvStep, PTL DEF Spec

LEMMA KeptIsAccounted == Inv => RingAccounted
<1>1. SUFFICES ASSUME Inv PROVE RingAccounted
  OBVIOUS
<1>2. Sound(g) /\ InWindow(g)
  BY <1>1 DEF Inv, Kept
<1>3. Ring(g.groups) /\ g.count = FramesIn(g.groups) /\ g.bytes = BytesIn(g.groups) /\ g.groups \in Seq(Group)
  BY <1>2 DEF Sound, Accounted, Ring
<1>4. DOMAIN g.groups = 1..Len(g.groups)
  BY <1>3
<1> QED
  BY <1>2, <1>3, <1>4 DEF RingAccounted, Ring, InWindow

\* Whatever is captured, cut back, evicted, forgotten and reconfigured, and in
\* whatever order, the counters kept by hand say what the groups hold, the ring
\* stays within the window and one group, and the cursor within the window.
THEOREM AlwaysAccounted == Spec => []RingAccounted
BY InvHolds, KeptIsAccounted, PTL

-----------------------------------------------------------------------------
(* The stretch that can be sought.                                           *)

LEMMA ExposedGrows ==
  ASSUME NEW r \in Recorders, NEW x \in Recorders, TargetCapacity(x) = TargetCapacity(r),
         x.count >= r.count \/ x.count >= TargetCapacity(r) + 1
  PROVE  ExposedCount(x) >= ExposedCount(r)
<1>1. r.count \in Nat /\ x.count \in Nat /\ TargetCapacity(r) \in Nat \ {0}
  BY TargetType DEF Recorders
<1>2. PICK a \in Nat, b \in Nat, t \in Nat \ {0} : a = r.count /\ b = x.count /\ t = TargetCapacity(r)
  BY <1>1
<1>3. b >= a \/ b >= t + 1
  BY <1>2
<1>4. CASE a <= 1
  <2>1. ExposedCount(r) = 0
    BY <1>2, <1>4 DEF ExposedCount
  <2>2. ExposedCount(x) \in Nat
    <3>1. CASE b <= 1
      BY <1>2, <3>1 DEF ExposedCount
    <3>2. CASE ~(b <= 1)
      <4>1. {b - 1, t} \in SUBSET Nat /\ {b - 1, t} # {}
        BY <1>2, <3>2
      <4>2. Min({b - 1, t}) \in Nat
        BY <4>1, MinIsLeast
      <4> QED
        BY <1>2, <3>2, <4>2 DEF ExposedCount
    <3> QED
      BY <3>1, <3>2
  <2> QED
    BY <2>1, <2>2
<1>5. CASE ~(a <= 1)
  <2>1. ~(b <= 1)
    BY <1>2, <1>3, <1>5
  <2>2. {a - 1, t} \in SUBSET Nat /\ {a - 1, t} # {}
    BY <1>2, <1>5
  <2>3. {b - 1, t} \in SUBSET Nat /\ {b - 1, t} # {}
    BY <1>2, <2>1
  <2>4. PICK c \in Nat : c = Min({a - 1, t}) /\ c <= a - 1 /\ c <= t
    BY <2>2, MinIsLeast
  <2>5. PICK d \in Nat : d = Min({b - 1, t}) /\ (d = b - 1 \/ d = t)
    BY <2>3, MinIsLeast
  <2>6. d >= c
    BY <1>2, <1>3, <2>4, <2>5
  <2>7. ExposedCount(r) = c /\ ExposedCount(x) = d
    BY <1>2, <1>5, <2>1, <2>4, <2>5 DEF ExposedCount
  <2> QED
    BY <2>6, <2>7
<1> QED
  BY <1>4, <1>5

LEMMA WindowStep ==
  ASSUME Inv, [Next]_vars, g.seek_position <= 0, g'.count > 1, ~g'.memory_limited
  PROVE  ExposedCount(g') >= ExposedCount(g)
<1>1. Moves /\ Inv'
  BY OperationsMove, InvStep
<1>2. machine \in Captures /\ Kept(g) /\ active \in BOOLEAN /\ Kept(g')
  BY <1>1 DEF Inv
<1>3. /\ g \in Recorders /\ g' \in Recorders /\ g.count \in Nat /\ g'.count \in Nat
      /\ TargetCapacity(g) \in Nat
  BY <1>2, KeptTypes
<1>4. SUFFICES /\ TargetCapacity(g') = TargetCapacity(g)
               /\ g'.count >= g.count \/ g'.count >= TargetCapacity(g) + 1
  BY <1>3, ExposedGrows
<1>5. ASSUME g'.count = g.count PROVE g'.count >= g.count
  BY <1>3, <1>5
<1>6. CASE Ends
  <2>1. PICK input \in Inputs, outcome \in Outcomes :
          Ready /\ machine' = Ran(machine, input) /\ g' = Pushed(g, Ran(machine, input), outcome)
    BY <1>6 DEF Ends
  <2> DEFINE raw == Ran(machine, input)
  <2>2. raw \in Moments
    BY <1>2, <2>1, RanOn DEF Ready
  <2> HIDE DEF raw
  <2>3. /\ Options(g') = Options(g)
        /\ \/ g'.count = g.count
           \/ Based(g', g)
           \/ g.enabled /\ \E b : Expects(b, g, raw) /\ g' = Took(b, raw)
    <3>1. /\ Options(Pushed(g, raw, outcome)) = Options(g)
          /\ \/ Pushed(g, raw, outcome).count = g.count
             \/ Based(Pushed(g, raw, outcome), g)
             \/ g.enabled /\ \E b : Expects(b, g, raw) /\ Pushed(g, raw, outcome) = Took(b, raw)
      BY <1>2, <2>2, PushedKeeps
    <3>2. g' = Pushed(g, raw, outcome)
      BY <2>1 DEF raw
    <3> QED
      BY <3>1, <3>2
  <2>4. TargetCapacity(g') = TargetCapacity(g)
    BY <2>3, SameTarget
  <2>5. ASSUME NEW b, Based(b, g), b.count # 0 PROVE b.count = g.count
    BY <2>5 DEF Based
  <2>6. CASE g'.count = g.count
    BY <1>5, <2>4, <2>6
  <2>7. CASE Based(g', g)
    <3>1. g'.count # 0
      BY <1>3
    <3> QED
      BY <1>5, <2>4, <2>5, <2>7, <3>1
  <2>8. CASE g.enabled /\ \E b : Expects(b, g, raw) /\ g' = Took(b, raw)
    <3>1. PICK b : Expects(b, g, raw) /\ g' = Took(b, raw)
      BY <2>8
    <3>2. Kept(b) /\ Based(b, g)
      BY <3>1 DEF Expects
    <3>3. b.count \in Nat
      BY <3>2, KeptTypes
    <3>4. g'.count = b.count + 1 \/ g'.count >= TargetCapacity(g) + 1
      <4>1. ~Took(b, raw).memory_limited =>
              Took(b, raw).count = b.count + 1 \/ Took(b, raw).count >= TargetCapacity(g) + 1
        BY <2>2, <2>8, <3>1, TookKeeps
      <4> QED
        BY <3>1, <4>1
    <3>5. CASE b.count = 0
      <4>1. ~(g'.count = b.count + 1)
        BY <1>3, <3>5
      <4> QED
        BY <2>4, <3>4, <4>1
    <3>6. CASE b.count # 0
      <4>1. b.count = g.count
        BY <2>5, <3>2, <3>6
      <4>2. g'.count = b.count + 1 => g'.count >= g.count
        BY <1>3, <4>1
      <4> QED
        BY <2>4, <3>4, <4>2
    <3> QED
      BY <3>5, <3>6
  <2> QED
    BY <2>3, <2>6, <2>7, <2>8
<1>7. CASE Stays
  BY <1>5, <1>7 DEF Stays
<1>8. CASE Seeks
  <2>1. PICK age \in Nat : age < ExposedCount(g) /\ g' = [g EXCEPT !.seek_position = age]
    BY <1>8 DEF Seeks
  <2> DEFINE x == [g EXCEPT !.seek_position = age]
  <2>2. x.count = g.count /\ Options(x) = Options(g)
    BY <1>2, <2>1, SoughtKeeps
  <2>3. g' = x
    BY <2>1
  <2> HIDE DEF x
  <2>4. TargetCapacity(x) = TargetCapacity(g)
    BY <2>2, SameTarget
  <2> QED
    BY <1>5, <2>2, <2>3, <2>4
<1>9. CASE Branches
  <2>1. ~(g.seek_position > 0)
    BY <1>2, KeptTypes
  <2> QED
    BY <1>9, <2>1 DEF Branches
<1>10. CASE Forgets
  <2>1. PICK s \in Recorders : g' = Forgotten(s)
    BY <1>10 DEF Forgets
  <2>2. g'.count = 0
    BY <2>1, ForgottenKeeps
  <2> QED
    BY <2>2
<1>11. CASE Trims
  <2>1. PICK s : Limited(s) /\ g' = Trim(s)
    BY <1>11 DEF Trims
  <2>2. /\ TargetCapacity(Trim(s)) = TargetCapacity(g)
        /\ ~Trim(s).memory_limited => Trim(s).count = g.count \/ Trim(s).count >= TargetCapacity(g) + 1
    BY <1>2, <2>1, LimitedKeeps
  <2> QED
    BY <1>5, <2>1, <2>2
<1>12. CASE Boots
  BY <1>5, <1>12 DEF Boots
<1> QED
  BY <1>1, <1>6, <1>7, <1>8, <1>9, <1>10, <1>11, <1>12 DEF Moves

\* While the newest capture is on the screen, a capture never shortens the stretch
\* that can be sought, though whole groups are evicted for it: only a new history or
\* the memory limit does.
THEOREM WindowStays == Spec => WindowKept
<1>1. Inv /\ [Next]_vars =>
        [g.seek_position <= 0 /\ g'.count > 1 /\ ~g'.memory_limited
           => ExposedCount(g') >= ExposedCount(g)]_vars
  BY WindowStep
<1> QED
  BY <1>1, InvHolds, PTL DEF Spec, WindowKept

-----------------------------------------------------------------------------
(* The captures that come out of the chains are the history promised.        *)

LEMMA NewestAppend ==
  ASSUME NEW S, NEW s \in Seq(S), NEW e \in S, NEW n \in 1..(Len(s) + 1)
  PROVE  NewestOf(Append(s, e), n) = Append(NewestOf(s, n - 1), e)
<1> DEFINE w == Append(s, e)
<1>1. /\ w \in Seq(S) /\ Len(w) = Len(s) + 1 /\ w[Len(s) + 1] = e
      /\ \A i \in 1..Len(s) : w[i] = s[i]
  BY AppendProperties
<1>2. PICK l \in Nat : l = Len(s)
  OBVIOUS
<1>3. PICK p \in 1..(l + 1) : p = l - (n - 1) + 1 /\ p = (l + 1) - n + 1
  <2>1. n \in 1..(l + 1)
    BY <1>2
  <2>2. PICK j \in 1..(l + 1) : j = (l + 1) - n + 1
    BY <2>1
  <2>3. j = l - (n - 1) + 1
    BY <2>1, <2>2
  <2> QED
    BY <2>2, <2>3
<1>4. n - 1 \in 0..l /\ n \in Nat /\ (l + 1) - p + 1 = n /\ l - p + 1 = n - 1
  BY <1>2, <1>3
<1> HIDE DEF w
<1> DEFINE a == SubSeq(w, p, l + 1)
<1> DEFINE b == SubSeq(s, p, l)
<1>5. a = NewestOf(w, n) /\ b = NewestOf(s, n - 1)
  BY <1>1, <1>2, <1>3 DEF NewestOf
<1>6. a \in Seq(S) /\ Len(a) = n /\ \A i \in 1..n : a[i] = w[p + i - 1]
  <2>1. p \in 1..(Len(w) + 1) /\ l + 1 \in 0..Len(w) /\ p <= (l + 1) + 1
    BY <1>1, <1>2
  <2>2. /\ a \in Seq(S) /\ Len(a) = (l + 1) - p + 1
        /\ \A i \in 1..((l + 1) - p + 1) : a[i] = w[p + i - 1]
    BY <1>1, <2>1, PartOf
  <2> HIDE DEF a
  <2> QED
    BY <1>4, <2>2
<1>7. b \in Seq(S) /\ Len(b) = n - 1 /\ \A i \in 1..(n - 1) : b[i] = s[p + i - 1]
  <2>1. p \in 1..(Len(s) + 1) /\ l \in 0..Len(s) /\ p <= l + 1
    BY <1>2
  <2>2. /\ b \in Seq(S) /\ Len(b) = l - p + 1
        /\ \A i \in 1..(l - p + 1) : b[i] = s[p + i - 1]
    BY <2>1, PartOf
  <2> HIDE DEF b
  <2> QED
    BY <1>4, <2>2
<1> HIDE DEF a, b
<1> DEFINE c == Append(b, e)
<1>8. /\ c \in Seq(S) /\ Len(c) = n /\ c[n] = e
      /\ \A i \in 1..(n - 1) : c[i] = b[i]
  <2>1. /\ c \in Seq(S) /\ Len(c) = (n - 1) + 1 /\ c[(n - 1) + 1] = e
        /\ \A i \in 1..(n - 1) : c[i] = b[i]
    BY <1>7, AppendProperties
  <2>2. (n - 1) + 1 = n
    BY <1>4
  <2> HIDE DEF c
  <2> QED
    BY <2>1, <2>2
<1> HIDE DEF c
<1>9. ASSUME NEW i \in 1..n PROVE a[i] = c[i]
  <2>1. CASE i = n
    <3>1. p + i - 1 = l + 1
      BY <1>3, <1>4, <2>1
    <3>2. a[i] = w[l + 1]
      BY <1>6, <3>1
    <3> QED
      BY <1>1, <1>2, <1>8, <2>1, <3>2
  <2>2. CASE i # n
    <3>1. i \in 1..(n - 1) /\ p + i - 1 \in 1..l
      BY <1>3, <1>4, <2>2
    <3>2. a[i] = w[p + i - 1] /\ c[i] = b[i] /\ b[i] = s[p + i - 1]
      BY <1>6, <1>7, <1>8, <3>1
    <3>3. w[p + i - 1] = s[p + i - 1]
      BY <1>1, <1>2, <3>1
    <3> QED
      BY <3>2, <3>3
  <2> QED
    BY <2>1, <2>2
<1>10. a = c
  BY <1>6, <1>8, <1>9
<1> QED
  BY <1>5, <1>10 DEF c, w

LEMMA LiveStep ==
  ASSUME Inv, Ends
  PROVE  History!Live
<1>1. machine \in Captures /\ Kept(g) /\ active \in BOOLEAN
  BY DEF Inv
<1>2. PICK input \in Inputs, outcome \in Outcomes :
        Ready /\ machine' = Ran(machine, input) /\ g' = Pushed(g, Ran(machine, input), outcome)
  BY DEF Ends
<1> DEFINE raw == Ran(machine, input)
<1>3. /\ raw \in Moments /\ raw.mode = machine.mode
      /\ Len(raw.past) = Len(machine.past) + 1 /\ SubSeq(raw.past, 1, Len(machine.past)) = machine.past
  BY <1>1, <1>2, RanOn DEF Ready
<1>4. machine' = raw /\ g' = Pushed(g, raw, outcome)
  BY <1>2
<1> HIDE DEF raw
<1>5. History!RunsOneFrame(machine, machine')
  BY <1>3, <1>4 DEF History!RunsOneFrame
<1>6. /\ Line(g) \in Seq(Moments) /\ Len(Line(g)) = g.count /\ g.count \in Nat
      /\ g.seek_position \in Int /\ g.seek_position \in -1..TargetCapacity(g) - 1
  BY <1>1, KeptTypes
<1>7. line = Line(g) /\ line' = Line(g')
  BY DEF line, Line
<1>8. History!Kept = Past(g)
  BY <1>6, <1>7 DEF History!Kept, Past
<1>9. \/ Line(g') = Line(g) /\ g'.seek_position = g.seek_position
      \/ Based(g', g)
      \/ g.enabled /\ \E b : Expects(b, g, raw) /\ g' = Took(b, raw)
  <2>1. \/ /\ Line(Pushed(g, raw, outcome)) = Line(g)
           /\ Pushed(g, raw, outcome).seek_position = g.seek_position
        \/ Based(Pushed(g, raw, outcome), g)
        \/ g.enabled /\ \E b : Expects(b, g, raw) /\ Pushed(g, raw, outcome) = Took(b, raw)
    BY <1>1, <1>3, PushedKeeps
  <2> QED
    BY <1>4, <2>1
<1>10. CASE Line(g') = Line(g) /\ g'.seek_position = g.seek_position
  BY <1>5, <1>7, <1>10 DEF History!Live
<1>11. CASE Based(g', g)
  <2>1. CASE Line(g') = << >> /\ g'.seek_position = -1
    BY <1>5, <1>7, <2>1 DEF History!Live
  <2>2. CASE /\ Line(g') = Past(g)
             /\ g.seek_position > 0 => g'.seek_position = -1
             /\ g.seek_position <= 0 => g'.seek_position = g.seek_position
    <3>1. CASE g.seek_position > 0
      BY <1>5, <1>7, <1>8, <2>2, <3>1 DEF History!Live
    <3>2. CASE ~(g.seek_position > 0)
      <4>1. Past(g) = Line(g) /\ g.seek_position <= 0
        <5>1. SubSeq(Line(g), 1, g.count) = Line(g)
          BY <1>6
        <5> QED
          BY <1>6, <3>2, <5>1 DEF Past
      <4> QED
        BY <1>5, <1>7, <2>2, <4>1 DEF History!Live
    <3> QED
      BY <3>1, <3>2
  <2> QED
    BY <1>11, <2>1, <2>2 DEF Based
<1>12. CASE g.enabled /\ \E b : Expects(b, g, raw) /\ g' = Took(b, raw)
  <2>1. PICK b : Expects(b, g, raw) /\ g' = Took(b, raw)
    BY <1>12
  <2>2. Kept(b) /\ Based(b, g)
    BY <2>1 DEF Expects
  <2>3. Line(b) \in Seq(Moments) /\ Len(Line(b)) = b.count /\ b.count \in Nat
    BY <2>2, KeptTypes
  <2>4. /\ Kept(g') /\ g'.seek_position = -1 /\ g'.count \in 1..(b.count + 1)
        /\ Line(g') = NewestOf(Append(Line(b), raw), g'.count)
    <3>1. LET x == Took(b, raw) IN
          /\ Kept(x) /\ x.seek_position = -1 /\ x.count \in 1..(b.count + 1)
          /\ Line(x) = NewestOf(Append(Line(b), raw), x.count)
      BY <1>3, <1>12, <2>1, TookKeeps
    <3> QED
      BY <2>1, <3>1
  <2>5. Len(Line(g')) = g'.count
    BY <2>4, KeptTypes
  <2>6. Line(g') = Append(NewestOf(Line(b), g'.count - 1), raw)
    <3>1. g'.count \in 1..(Len(Line(b)) + 1)
      BY <2>3, <2>4
    <3> QED
      BY <1>3, <2>3, <2>4, <3>1, NewestAppend
  <2>7. Past(g) \in Seq(Moments) /\ Len(Past(g)) \in Nat
    <3> DEFINE upto == IF g.seek_position > 0 THEN g.count - g.seek_position ELSE g.count
    <3>1. upto \in Int /\ upto <= Len(Line(g))
      BY <1>6
    <3> HIDE DEF upto
    <3>2. SubSeq(Line(g), 1, upto) \in Seq(Moments)
      BY <1>6, <3>1
    <3> QED
      BY <3>2 DEF Past, upto
  <2>8. CASE Line(b) = << >> /\ b.count = 0
    <3>1. g'.count = 1
      BY <2>4, <2>8
    <3>2. NewestOf(<< >>, 1 - 1) = << >>
      BY DEF NewestOf
    <3>3. NewestOf(Past(g), 1 - 1) = << >>
      <4>1. PICK l \in Nat : l = Len(Past(g))
        BY <2>7
      <4>2. SubSeq(Past(g), l + 1, l) = << >>
        BY <2>7, <4>1, SubSeqEmpty
      <4>3. l - (1 - 1) + 1 = l + 1
        BY <4>1
      <4> QED
        BY <4>1, <4>2, <4>3 DEF NewestOf
    <3>4. Line(g') = Append(NewestOf(Past(g), g'.count - 1), raw)
      BY <2>6, <2>8, <3>1, <3>2, <3>3
    <3>5. Len(Line(g')) \in 1..Len(Past(g)) + 1
      BY <2>5, <2>7, <3>1
    <3> QED
      BY <1>4, <1>5, <1>7, <1>8, <2>4, <2>5, <3>4, <3>5 DEF History!Live, History!Newest, NewestOf
  <2>9. CASE Line(b) = Past(g)
    <3>1. Len(Line(g')) \in 1..Len(Past(g)) + 1
      BY <2>3, <2>4, <2>5, <2>9
    <3>2. Line(g') = Append(NewestOf(Past(g), g'.count - 1), raw)
      BY <2>6, <2>9
    <3> QED
      BY <1>4, <1>5, <1>7, <1>8, <2>4, <2>5, <3>1, <3>2 DEF History!Live, History!Newest, NewestOf
  <2> QED
    BY <2>2, <2>8, <2>9 DEF Based
<1> QED
  BY <1>9, <1>10, <1>11, <1>12

LEMMA HistoryStep ==
  ASSUME Inv, [Next]_vars
  PROVE  [History!HistoryNext]_<<line, g.seek_position, machine>>
<1>1. Moves /\ Inv'
  BY OperationsMove, InvStep
<1>2. machine \in Captures /\ Kept(g) /\ active \in BOOLEAN /\ Kept(g')
  BY <1>1 DEF Inv
<1>3. /\ Line(g) \in Seq(Moments) /\ Len(Line(g)) = g.count /\ g.count \in Nat
      /\ g.seek_position \in Int
  BY <1>2, KeptTypes
<1>4. line = Line(g) /\ line' = Line(g')
  BY DEF line, Line
<1>5. CASE Ends
  BY <1>5, LiveStep DEF History!HistoryNext
<1>6. CASE Stays
  BY <1>6 DEF Stays, line
<1>7. CASE Seeks
  <2>1. PICK age \in Nat : age < ExposedCount(g) /\ g' = [g EXCEPT !.seek_position = age]
                           /\ machine' = Replayed(ReconstructRaw(g, age + 1))
    BY <1>7 DEF Seeks
  <2>2. Line(g') = Line(g) /\ g'.seek_position = age
    BY <1>2, <2>1, SoughtKeeps
  <2>3. /\ g.count - (age + 1) \in 1..(g.count - 1)
        /\ ReconstructRaw(g, age + 1) = Line(g)[g.count - (age + 1)]
        /\ ReconstructRaw(g, age + 1) \in Moments
    BY <1>2, <2>1, Seekable
  <2>4. PICK raw \in Moments : raw = ReconstructRaw(g, age + 1)
    BY <2>3
  <2>5. History!RunsOneFrame(raw, machine')
    BY <2>1, <2>4, ReplayedOn DEF History!RunsOneFrame
  <2>6. g.count - age - 1 = g.count - (age + 1) /\ g.count - age - 1 \in 1..g.count
    BY <1>3, <2>3
  <2>7. DOMAIN Line(g) = 1..g.count
    BY <1>3
  <2>8. Len(line) - g'.seek_position - 1 \in DOMAIN line
        /\ line[Len(line) - g'.seek_position - 1] = raw
    BY <1>3, <1>4, <2>2, <2>3, <2>4, <2>6, <2>7
  <2>9. g'.seek_position >= 0
    BY <2>2
  <2>10. line' = line
    BY <1>4, <2>2
  <2>11. History!Visit
    BY <2>5, <2>8, <2>9, <2>10 DEF History!Visit
  <2> QED
    BY <2>11 DEF History!HistoryNext
<1>8. CASE Branches
  <2>1. Line(CommitSeek(g)) = Past(g) /\ CommitSeek(g).seek_position = -1
    BY <1>2, CommitSeekKeeps
  <2>2. History!Kept = Past(g)
    BY <1>3, <1>4 DEF History!Kept, Past
  <2>3. History!Branch
    BY <1>4, <1>8, <2>1, <2>2 DEF Branches, History!Branch
  <2> QED
    BY <2>3 DEF History!HistoryNext
<1>9. CASE Forgets
  <2>1. PICK s \in Recorders : g' = Forgotten(s)
    BY <1>9 DEF Forgets
  <2>2. Line(g') = << >> /\ g'.seek_position = -1
    BY <2>1, ForgottenKeeps
  <2> QED
    BY <1>4, <2>2 DEF History!Forget, History!HistoryNext
<1>10. CASE Trims
  <2>1. PICK s : Limited(s) /\ g' = Trim(s)
    BY <1>10 DEF Trims
  <2>2. /\ Len(Line(g')) \in 0..Len(Line(g)) /\ Line(g') = NewestOf(Line(g), Len(Line(g')))
        /\ g'.seek_position = g.seek_position
    <3>1. LET x == Trim(s) IN
          /\ Len(Line(x)) \in 0..Len(Line(g)) /\ Line(x) = NewestOf(Line(g), Len(Line(x)))
          /\ x.seek_position = g.seek_position
      BY <1>2, <2>1, LimitedKeeps
    <3> QED
      BY <2>1, <3>1
  <2>3. machine' = machine
    BY <1>10 DEF Trims
  <2>4. CASE Len(Line(g')) = Len(Line(g))
    <3>1. Line(g') = Line(g)
      <4>1. Len(Line(g)) - Len(Line(g)) + 1 = 1
        BY <1>3
      <4>2. SubSeq(Line(g), 1, Len(Line(g))) = Line(g)
        BY <1>3
      <4> QED
        BY <2>2, <2>4, <4>1, <4>2 DEF NewestOf
    <3> QED
      BY <1>4, <2>2, <2>3, <3>1
  <2>5. CASE Len(Line(g')) # Len(Line(g))
    <3>1. Len(Line(g')) < Len(Line(g))
      BY <1>3, <2>2, <2>5
    <3>2. History!Evict
      BY <1>4, <2>2, <2>3, <3>1 DEF History!Evict, History!Newest, NewestOf
    <3> QED
      BY <3>2 DEF History!HistoryNext
  <2> QED
    BY <2>4, <2>5
<1>11. CASE Boots
  <2>1. History!Replace
    BY <1>4, <1>11 DEF Boots, History!Replace
  <2> QED
    BY <2>1 DEF History!HistoryNext
<1> QED
  BY <1>1, <1>5, <1>6, <1>7, <1>8, <1>9, <1>10, <1>11 DEF Moves

LEMMA HistoryStarts == Init => History!HistoryInit
<1>1. SUFFICES ASSUME Init PROVE g.groups = << >> /\ g.seek_position = -1
  BY LineNothing DEF History!HistoryInit, line
<1> QED
  BY <1>1 DEF Init

\* Differences, groups, trimming and cutting back do not show: what comes out of the
\* ring is one line of captures that grows by the frame just run, loses only its
\* oldest, and is cut only at the cursor.
THEOREM RingImplementsHistory == Spec => ImplementsHistory
<1>1. Inv /\ [Next]_vars => [History!HistoryNext]_<<line, g.seek_position, machine>>
  BY HistoryStep
<1>2. Init => History!HistoryInit
  BY HistoryStarts
<1> QED
  BY <1>1, <1>2, InvHolds, PTL DEF Spec, ImplementsHistory, History!HistorySpec

-----------------------------------------------------------------------------
(* When every frame is captured, and the SF-7000 is started only from the ROM  *)
(* mode, what is held is one stretch of one machine's life.                  *)

Joins(a, b) == Loads(a, b) /\ Len(b.past) = Len(a.past) + 1
SameMoment(a, m) == Loads(a, m) /\ Len(m.past) = Len(a.past)

\* The place in the line of the capture on the screen.
Shown(r) == r.count - (IF r.seek_position > 0 THEN r.seek_position ELSE 0)

\* Every capture follows the one before it, and the machine is at the capture on the
\* screen unless it has run on unrecorded or is of another shape.
Tracks(r, m) ==
  \/ r.missed
  \/ /\ \A i \in 1..r.count - 1 : Joins(Line(r)[i], Line(r)[i + 1])
     /\ m.mode = "rom" => r.raw_size # "sf7000"
     /\ \/ r.gap \/ Shown(r) < 1 \/ m.mode # r.raw_size
        \/ SameMoment(Line(r)[Shown(r)], m)

\* The newest captures of an unbroken line are unbroken.
LEMMA PartUnbroken ==
  ASSUME NEW q, NEW n \in Nat, NEW w, NEW k \in 0..n,
         \A i \in 1..n - 1 : Joins(q[i], q[i + 1]),
         \A i \in 1..k : w[i] = q[n - k + i]
  PROVE  \A i \in 1..k - 1 : Joins(w[i], w[i + 1])
<1>1. SUFFICES ASSUME NEW i \in 1..k - 1 PROVE Joins(w[i], w[i + 1])
  OBVIOUS
<1>2. i \in 1..k /\ i + 1 \in 1..k /\ n - k + i \in 1..n - 1 /\ n - k + (i + 1) = (n - k + i) + 1
  OBVIOUS
<1>3. w[i] = q[n - k + i] /\ w[i + 1] = q[n - k + (i + 1)]
  BY <1>2
<1>4. PICK j \in 1..n - 1 : j = n - k + i
  BY <1>2
<1>5. Joins(q[j], q[j + 1])
  OBVIOUS
<1> QED
  BY <1>2, <1>3, <1>4, <1>5

\* A capture that is taken joins the line.
LEMMA TookTracks ==
  ASSUME NEW r, Kept(r), NEW m \in Captures, Tracks(r, m), r.enabled,
         NEW raw \in Moments, Joins(m, raw), NEW b, Expects(b, r, raw)
  PROVE  Tracks(Took(b, raw), raw)
<1> DEFINE x == Took(b, raw)
<1> DEFINE w == Append(Line(b), raw)
<1>1. /\ Kept(x) /\ x.seek_position = -1 /\ x.missed = b.missed /\ x.count \in 1..(b.count + 1)
      /\ x.raw_size = raw.mode
      /\ \A i \in 1..x.count : Line(x)[i] = w[(b.count + 1) - x.count + i]
  <2>1. /\ Kept(Took(b, raw)) /\ Took(b, raw).seek_position = -1 /\ Took(b, raw).missed = b.missed
        /\ Took(b, raw).count \in 1..(b.count + 1) /\ Took(b, raw).raw_size = raw.mode
    BY TookKeeps
  <2>2. EndOf(Line(Took(b, raw)), Took(b, raw).count, w, b.count + 1)
    BY TookKeeps
  <2>3. EndOf(Line(x), x.count, w, b.count + 1)
    BY <2>2
  <2> HIDE DEF x, w
  <2>4. \A i \in 1..x.count : Line(x)[i] = w[(b.count + 1) - x.count + i]
    BY <2>3 DEF EndOf
  <2> QED
    BY <2>1, <2>4 DEF x
<1>2. /\ Kept(b) /\ Based(b, r)
      /\ b.count > 0 => b.missed = r.missed /\ r.raw_size = raw.mode
      /\ (b.count = 0 /\ b.missed) => r.missed
  BY DEF Expects
<1>3. Line(b) \in Seq(Moments) /\ Len(Line(b)) = b.count /\ b.count \in Nat
  BY <1>2, KeptTypes
<1>4. r.count \in Nat /\ r.seek_position \in Int
  BY KeptTypes
<1>5. /\ w[b.count + 1] = raw
      /\ \A i \in 1..b.count : w[i] = Line(b)[i]
  BY <1>3, AppendProperties
<1>6. raw.mode = m.mode /\ raw.device = m.device
  BY DEF Joins, Loads
<1> HIDE DEF x, w
<1>7. SUFFICES ASSUME ~b.missed PROVE Tracks(x, raw)
  BY <1>1 DEF Tracks, x
<1>8. ASSUME NEW i \in 1..b.count PROVE Joins(w[i], w[i + 1])
  <2>1. b.count > 0 /\ b.count # 0
    BY <1>3
  <2>2. ~r.missed /\ r.raw_size = raw.mode
    BY <1>2, <1>7, <2>1
  <2>3. /\ \A j \in 1..r.count - 1 : Joins(Line(r)[j], Line(r)[j + 1])
        /\ r.gap \/ Shown(r) < 1 \/ SameMoment(Line(r)[Shown(r)], m)
    BY <1>6, <2>2 DEF Tracks
  <2>4. /\ ~r.gap /\ \A j \in 1..b.count : Line(b)[j] = Line(r)[j]
        /\ b.count = IF r.seek_position > 0 THEN r.count - r.seek_position ELSE r.count
    BY <1>2, <2>1 DEF Based
  <2>5. b.count = Shown(r) /\ b.count <= r.count
    BY <1>3, <1>4, <2>4 DEF Shown
  <2>6. CASE i = b.count
    <3>1. SameMoment(Line(r)[b.count], m)
      <4>1. ~(Shown(r) < 1)
        BY <1>3, <2>1, <2>5
      <4>2. SameMoment(Line(r)[Shown(r)], m)
        BY <2>3, <2>4, <4>1
      <4> QED
        BY <2>5, <4>2
    <3>2. w[b.count] = Line(r)[b.count] /\ w[b.count + 1] = raw
      BY <1>3, <1>5, <2>4, <2>6
    <3>3. Joins(Line(r)[b.count], raw)
      BY <3>1 DEF SameMoment, Joins, Loads
    <3> QED
      BY <2>6, <3>2, <3>3
  <2>7. CASE i # b.count
    <3>1. i \in 1..r.count - 1 /\ i \in 1..b.count /\ i + 1 \in 1..b.count
      BY <1>3, <1>4, <2>5, <2>7
    <3>2. w[i] = Line(r)[i] /\ w[i + 1] = Line(r)[i + 1]
      BY <1>5, <2>4, <3>1
    <3> QED
      BY <2>3, <3>1, <3>2
  <2> QED
    BY <2>6, <2>7
<1>9. \A i \in 1..x.count - 1 : Joins(Line(x)[i], Line(x)[i + 1])
  <2>1. PICK n \in Nat : n = b.count + 1
    BY <1>3
  <2>2. \A i \in 1..n - 1 : Joins(w[i], w[i + 1])
    <3>1. n - 1 = b.count
      BY <1>3, <2>1
    <3> QED
      BY <1>8, <3>1
  <2>3. x.count \in 0..n /\ \A i \in 1..x.count : Line(x)[i] = w[n - x.count + i]
    <3>1. x.count \in 0..n
      BY <1>1, <2>1
    <3>2. ASSUME NEW i \in 1..x.count PROVE Line(x)[i] = w[n - x.count + i]
      <4>1. Line(x)[i] = w[(b.count + 1) - x.count + i]
        BY <1>1
      <4>2. (b.count + 1) - x.count + i = n - x.count + i
        <5>1. PICK held \in Nat, left \in Nat : held = b.count /\ left = x.count
          BY <1>1, <1>3
        <5> QED
          BY <2>1, <5>1
      <4> QED
        BY <4>1, <4>2
    <3> QED
      BY <3>1, <3>2
  <2> QED
    BY <2>2, <2>3, PartUnbroken
<1>10. SameMoment(Line(x)[Shown(x)], raw)
  <2>1. x.count \in Nat /\ x.count \in 1..x.count
    BY <1>1, <1>3
  <2>2. Shown(x) = x.count
    BY <1>1, <2>1 DEF Shown
  <2>3. (b.count + 1) - x.count + x.count = b.count + 1
    BY <1>3, <2>1
  <2>4. Line(x)[x.count] = raw
    BY <1>1, <1>5, <2>1, <2>3
  <2> QED
    BY <2>2, <2>4 DEF SameMoment, Loads
<1>11. raw.mode = "rom" => x.raw_size # "sf7000"
  BY <1>1
<1> QED
  BY <1>9, <1>10, <1>11 DEF Tracks

LEMMA EndsTracks ==
  ASSUME Strides = {1}, Inv, Tracks(g, machine), Ends
  PROVE  Tracks(g', machine')
<1>1. machine \in Captures /\ Kept(g) /\ active \in BOOLEAN
  BY DEF Inv
<1>2. PICK input \in Inputs, outcome \in Outcomes :
        Ready /\ machine' = Ran(machine, input) /\ g' = Pushed(g, Ran(machine, input), outcome)
  BY DEF Ends
<1> DEFINE raw == Ran(machine, input)
<1>3. /\ raw \in Moments /\ raw.mode = machine.mode /\ raw.device = machine.device
      /\ Len(raw.past) = Len(machine.past) + 1
  BY <1>1, <1>2, RanOn DEF Ready
<1>4. machine' = raw /\ g' = Pushed(g, raw, outcome)
  BY <1>2
<1> HIDE DEF raw
<1>5. g \in Recorders /\ g.count \in Nat /\ g.seek_position \in Int /\ (g.enabled \/ g.groups = << >>)
  BY <1>1, KeptTypes
<1>6. ~(g.frames_per_snapshot > 1)
  <2>1. g.frames_per_snapshot = 1
    BY <1>5 DEF Recorders
  <2> QED
    BY <2>1
<1>7. \/ /\ Line(g') = Line(g) /\ g'.count = g.count /\ g'.seek_position = g.seek_position
         /\ g'.missed = g.missed /\ g'.raw_size = g.raw_size
         /\ ~g.enabled \/ g'.gap
      \/ g'.missed
      \/ g.enabled /\ \E b : Expects(b, g, raw) /\ g' = Took(b, raw)
  <2>1. LET x == Pushed(g, raw, outcome) IN
         \/ /\ Line(x) = Line(g) /\ x.count = g.count /\ x.seek_position = g.seek_position
            /\ x.missed = g.missed /\ x.raw_size = g.raw_size
            /\ ~g.enabled \/ x.gap
         \/ x.missed \/ g.frames_per_snapshot > 1
         \/ g.enabled /\ \E b : Expects(b, g, raw) /\ x = Took(b, raw)
    BY <1>1, <1>3, PushedKeeps
  <2> QED
    BY <1>4, <1>6, <2>1
<1>8. CASE /\ Line(g') = Line(g) /\ g'.count = g.count /\ g'.seek_position = g.seek_position
           /\ g'.missed = g.missed /\ g'.raw_size = g.raw_size
           /\ ~g.enabled \/ g'.gap
  <2>1. g'.gap \/ Shown(g') < 1
    <3>1. CASE ~g.enabled
      <4>1. g.groups = << >> /\ Sound(g)
        BY <1>1, <1>5, <3>1 DEF Kept
      <4>2. Line(g) = << >> /\ Len(Line(g)) = g.count
        BY <1>1, <4>1, LineNothing, KeptTypes DEF Line
      <4>3. g.count = 0
        BY <4>2
      <4>4. Shown(g') < 1
        BY <1>5, <1>8, <4>3 DEF Shown
      <4> QED
        BY <4>4
    <3> QED
      BY <1>8, <3>1
  <2> QED
    BY <1>3, <1>4, <1>8, <2>1 DEF Tracks
<1>9. CASE g'.missed
  BY <1>9 DEF Tracks
<1>10. CASE g.enabled /\ \E b : Expects(b, g, raw) /\ g' = Took(b, raw)
  <2>1. PICK b : Expects(b, g, raw) /\ g' = Took(b, raw)
    BY <1>10
  <2>2. Joins(machine, raw)
    BY <1>3 DEF Joins, Loads
  <2>3. Tracks(Took(b, raw), raw)
    BY <1>1, <1>3, <1>10, <2>1, <2>2, TookTracks
  <2> QED
    BY <1>4, <2>1, <2>3
<1> QED
  BY <1>7, <1>8, <1>9, <1>10

\* A machine put back to a capture is at the one after it.
LEMMA SeeksTrack ==
  ASSUME Inv, Tracks(g, machine), ~g.missed,
         NEW age \in Nat, age < ExposedCount(g)
  PROVE  LET x == [g EXCEPT !.seek_position = age]
             m == Replayed(ReconstructRaw(g, age + 1))
         IN Tracks(x, m) /\ SameMoment(ReconstructRaw(g, age), m)
<1> DEFINE x == [g EXCEPT !.seek_position = age]
<1> DEFINE m == Replayed(ReconstructRaw(g, age + 1))
<1> DEFINE k == g.count - (age + 1)
<1>1. Kept(g) /\ Shaped(g) /\ g.count \in Nat
  BY KeptTypes DEF Inv
<1>2. /\ k \in 1..(g.count - 1) /\ g.count - age = k + 1 /\ k + 1 \in 1..g.count /\ k \in 1..g.count
      /\ ReconstructRaw(g, age + 1) = Line(g)[k] /\ ReconstructRaw(g, age) = Line(g)[k + 1]
      /\ Line(g)[k] \in Moments
  BY <1>1, Seekable
<1>3. /\ Line(x) = Line(g) /\ x.count = g.count /\ x.seek_position = age
      /\ x.missed = g.missed /\ x.raw_size = g.raw_size
  BY <1>1, SoughtKeeps
<1> HIDE DEF k
<1>4. m.mode = Line(g)[k].mode /\ m.device = Line(g)[k].device /\ Len(m.past) = Len(Line(g)[k].past) + 1
  BY <1>2, ReplayedOn
<1> HIDE DEF m, x
<1>5. \A i \in 1..g.count - 1 : Joins(Line(g)[i], Line(g)[i + 1])
  BY DEF Tracks
<1>6. SameMoment(Line(g)[k + 1], m)
  <2>1. Joins(Line(g)[k], Line(g)[k + 1])
    BY <1>2, <1>5
  <2> QED
    BY <1>4, <2>1 DEF Joins, SameMoment, Loads
<1>7. m.mode = g.raw_size
  BY <1>1, <1>2, <1>4 DEF Shaped
<1>8. Shown(x) = k + 1
  <2>1. CASE age > 0
    BY <1>2, <1>3, <2>1 DEF Shown
  <2>2. CASE ~(age > 0)
    BY <1>1, <1>2, <1>3, <2>2 DEF Shown
  <2> QED
    BY <2>1, <2>2
<1>9. Tracks(x, m)
  <2>1. \A i \in 1..x.count - 1 : Joins(Line(x)[i], Line(x)[i + 1])
    BY <1>3, <1>5
  <2>2. m.mode = "rom" => x.raw_size # "sf7000"
    BY <1>3, <1>7
  <2>3. SameMoment(Line(x)[Shown(x)], m)
    BY <1>3, <1>6, <1>8
  <2> QED
    BY <2>1, <2>2, <2>3 DEF Tracks
<1> QED
  BY <1>2, <1>6, <1>9 DEF x, m

LEMMA TracksStep ==
  ASSUME Strides = {1}, StartFrom \subseteq {"rom"}, Inv, Tracks(g, machine), [Next]_vars
  PROVE  Tracks(g', machine')
<1>1. Moves /\ Inv'
  BY OperationsMove, InvStep
<1>2. machine \in Captures /\ Kept(g) /\ active \in BOOLEAN /\ Kept(g')
  BY <1>1 DEF Inv
<1>3. /\ g \in Recorders /\ Line(g) \in Seq(Moments) /\ Len(Line(g)) = g.count /\ g.count \in Nat
      /\ g.seek_position \in Int /\ (g.enabled \/ g.groups = << >>)
  BY <1>2, KeptTypes
<1>4. CASE Ends
  BY <1>4, EndsTracks
<1>5. CASE Stays
  BY <1>5 DEF Stays
<1>6. CASE Seeks
  <2>1. PICK age \in Nat : age < ExposedCount(g) /\ g' = [g EXCEPT !.seek_position = age]
                           /\ machine' = Replayed(ReconstructRaw(g, age + 1))
    BY <1>6 DEF Seeks
  <2>2. CASE g.missed
    <3>1. g'.missed
      BY <1>2, <2>1, <2>2, SoughtKeeps
    <3> QED
      BY <3>1 DEF Tracks
  <2>3. CASE ~g.missed
    <3>1. Tracks([g EXCEPT !.seek_position = age], Replayed(ReconstructRaw(g, age + 1)))
      BY <2>1, <2>3, SeeksTrack
    <3> QED
      BY <2>1, <3>1
  <2> QED
    BY <2>2, <2>3
<1>7. CASE Branches
  <2> DEFINE x == CommitSeek(g)
  <2>1. /\ Kept(x) /\ x.count <= g.count /\ \A i \in 1..x.count : Line(x)[i] = Line(g)[i]
        /\ g.seek_position > 0 /\ x.count > 0 => x.count = g.count - g.seek_position
        /\ x.seek_position = -1
        /\ x = [g EXCEPT !.groups = x.groups, !.bytes = x.bytes, !.count = x.count,
                          !.previous_raw = x.previous_raw, !.seek_position = -1]
    BY <1>2, CommitSeekKeeps
  <2> HIDE DEF x
  <2>2. x.missed = g.missed /\ x.gap = g.gap /\ x.raw_size = g.raw_size
    BY <1>3, <2>1 DEF Recorders
  <2>3. g' = x /\ machine' = machine /\ g.seek_position > 0
    BY <1>7 DEF Branches, x
  <2>4. x.count \in Nat
    BY <2>1, KeptTypes
  <2>5. Shown(x) = x.count
    BY <2>1, <2>4 DEF Shown
  <2>6. CASE g.missed
    BY <2>2, <2>3, <2>6 DEF Tracks
  <2>7. CASE ~g.missed
    <3>1. /\ \A i \in 1..g.count - 1 : Joins(Line(g)[i], Line(g)[i + 1])
          /\ machine.mode = "rom" => g.raw_size # "sf7000"
          /\ \/ g.gap \/ Shown(g) < 1 \/ machine.mode # g.raw_size
             \/ SameMoment(Line(g)[Shown(g)], machine)
      BY <2>7 DEF Tracks
    <3>2. ASSUME NEW i \in 1..x.count - 1 PROVE Joins(Line(x)[i], Line(x)[i + 1])
      <4>1. i \in 1..g.count - 1 /\ i \in 1..x.count /\ i + 1 \in 1..x.count
        BY <1>3, <2>1, <2>4
      <4> QED
        BY <2>1, <3>1, <4>1
    <3>3. \/ x.gap \/ Shown(x) < 1 \/ machine.mode # x.raw_size
          \/ SameMoment(Line(x)[Shown(x)], machine)
      <4>1. CASE x.count = 0
        BY <2>5, <4>1
      <4>2. CASE x.count # 0
        <5>1. x.count > 0 /\ x.count \in 1..x.count
          BY <2>4, <4>2
        <5>2. x.count = Shown(g)
          BY <2>1, <2>3, <5>1 DEF Shown
        <5>3. Line(x)[x.count] = Line(g)[x.count]
          BY <2>1, <5>1
        <5>4. ~(Shown(g) < 1)
          BY <2>4, <5>1, <5>2
        <5> QED
          BY <2>2, <2>5, <3>1, <5>2, <5>3, <5>4
      <4> QED
        BY <4>1, <4>2
    <3> QED
      BY <2>2, <2>3, <3>1, <3>2, <3>3 DEF Tracks
  <2> QED
    BY <2>6, <2>7
<1>8. CASE Forgets
  <2>1. PICK s \in Recorders : g' = Forgotten(s)
    BY <1>8 DEF Forgets
  <2>2. g'.count = 0 /\ g'.seek_position = -1 /\ g'.raw_size = "none"
    BY <2>1, ForgottenKeeps
  <2>3. Shown(g') < 1
    BY <2>2 DEF Shown
  <2>4. \A i \in 1..g'.count - 1 : Joins(Line(g')[i], Line(g')[i + 1])
    BY <2>2
  <2> QED
    BY <2>2, <2>3, <2>4 DEF Tracks
<1>9. CASE Trims
  <2>1. PICK s : Limited(s) /\ g' = Trim(s)
    BY <1>9 DEF Trims
  <2> DEFINE x == Trim(s)
  <2>2. /\ Kept(x) /\ \A i \in 1..x.count : Line(x)[i] = Line(g)[g.count - x.count + i]
        /\ x.count <= g.count /\ x.seek_position = g.seek_position
        /\ x.missed = g.missed /\ x.gap = g.gap /\ x.raw_size = g.raw_size
    BY <1>2, <2>1, LimitedKeeps
  <2>3. g' = x /\ machine' = machine
    BY <1>9, <2>1 DEF Trims
  <2> HIDE DEF x
  <2>4. x.count \in Nat /\ x.count \in 0..g.count
    <3>1. x.count \in Nat
      BY <2>2, KeptTypes
    <3> QED
      BY <1>3, <2>2, <3>1
  <2>5. CASE g.missed
    BY <2>2, <2>3, <2>5 DEF Tracks
  <2>6. CASE ~g.missed
    <3>1. /\ \A i \in 1..g.count - 1 : Joins(Line(g)[i], Line(g)[i + 1])
          /\ machine.mode = "rom" => g.raw_size # "sf7000"
          /\ \/ g.gap \/ Shown(g) < 1 \/ machine.mode # g.raw_size
             \/ SameMoment(Line(g)[Shown(g)], machine)
      BY <2>6 DEF Tracks
    <3>2. \A i \in 1..x.count - 1 : Joins(Line(x)[i], Line(x)[i + 1])
      BY <1>3, <2>2, <2>4, <3>1, PartUnbroken
    <3>3. \/ x.gap \/ Shown(x) < 1 \/ machine.mode # x.raw_size
          \/ SameMoment(Line(x)[Shown(x)], machine)
      <4>1. CASE Shown(x) < 1
        BY <4>1
      <4>2. CASE ~(Shown(x) < 1)
        <5> DEFINE seek == IF g.seek_position > 0 THEN g.seek_position ELSE 0
        <5>1. seek \in Nat
          BY <1>3
        <5>2. Shown(x) = x.count - seek /\ Shown(g) = g.count - seek
          BY <2>2 DEF Shown
        <5> HIDE DEF seek
        <5>3. Shown(x) \in 1..x.count /\ g.count - x.count + Shown(x) = Shown(g) /\ ~(Shown(g) < 1)
          BY <1>3, <2>4, <4>2, <5>1, <5>2
        <5>4. Line(x)[Shown(x)] = Line(g)[Shown(g)]
          BY <2>2, <5>3
        <5> QED
          BY <2>2, <3>1, <5>3, <5>4
      <4> QED
        BY <4>1, <4>2
    <3> QED
      BY <2>2, <2>3, <3>1, <3>2, <3>3 DEF Tracks
  <2> QED
    BY <2>5, <2>6
<1>10. CASE Boots
  <2>1. CASE machine.mode \in StartFrom /\ machine'.mode = "sf7000"
    <3>1. machine.mode = "rom" /\ g' = g
      BY <1>10, <2>1 DEF Boots
    <3>2. g.missed \/ machine'.mode # g'.raw_size
      BY <2>1, <3>1 DEF Tracks
    <3> QED
      BY <2>1, <3>1, <3>2 DEF Tracks
  <2>2. CASE ~g.enabled /\ machine'.mode = machine.mode
    <3>1. g' = g
      BY <1>10 DEF Boots
    <3>2. Line(g) = << >>
      BY <1>3, <2>2, LineNothing DEF Line
    <3>3. g.count = 0
      BY <1>3, <3>2
    <3>4. Shown(g) < 1
      BY <1>3, <3>3 DEF Shown
    <3> QED
      BY <2>2, <3>1, <3>4 DEF Tracks
  <2> QED
    BY <1>10, <2>1, <2>2 DEF Boots
<1> QED
  BY <1>1, <1>4, <1>5, <1>6, <1>7, <1>8, <1>9, <1>10 DEF Moves

LEMMA TracksStarts ==
  ASSUME Init PROVE Tracks(g, machine)
<1>1. g.count = 0 /\ g.seek_position = -1 /\ g.raw_size = "none"
  BY DEF Init
<1>2. Shown(g) < 1
  BY <1>1 DEF Shown
<1>3. \A i \in 1..g.count - 1 : Joins(Line(g)[i], Line(g)[i + 1])
  BY <1>1
<1> QED
  BY <1>1, <1>2, <1>3 DEF Tracks

LEMMA TracksHolds ==
  ASSUME Strides = {1}, StartFrom \subseteq {"rom"}
  PROVE  Spec => [](Inv /\ Tracks(g, machine))
<1>1. Init => Inv /\ Tracks(g, machine)
  BY InvInit, TracksStarts
<1>2. Inv /\ Tracks(g, machine) /\ [Next]_vars => (Inv /\ Tracks(g, machine))'
  <2>1. SUFFICES ASSUME Inv, Tracks(g, machine), [Next]_vars PROVE Inv' /\ Tracks(g', machine')
    OBVIOUS
  <2> QED
    BY <2>1, InvStep, TracksStep
<1> QED
  BY <1>1, <1>2, PTL DEF Spec

\* With a capture every frame, and with no second start of the SF-7000, what is held
\* is one stretch of one machine's life, unless a capture was missed.
THEOREM HistoryHasNoHoles ==
  ASSUME Strides = {1}, StartFrom \subseteq {"rom"}
  PROVE  Spec => []NoHoles
<1>1. Inv /\ Tracks(g, machine) => NoHoles
  <2>1. SUFFICES ASSUME Inv, Tracks(g, machine), ~g.missed, NEW i \in 1..g.count - 1
                 PROVE  /\ Loads(line[i], line[i + 1])
                        /\ Len(line[i + 1].past) = Len(line[i].past) + g.frames_per_snapshot
    BY DEF NoHoles
  <2>2. Joins(Line(g)[i], Line(g)[i + 1])
    BY <2>1 DEF Tracks
  <2>3. g \in Recorders
    BY <2>1, KeptTypes DEF Inv
  <2>4. g.frames_per_snapshot = 1
    BY <2>3 DEF Recorders
  <2> QED
    BY <2>2, <2>4 DEF Joins, Line, line
<1> QED
  BY <1>1, TracksHolds, PTL

\* Under the same conditions a seek puts the machine at the very frame of the capture
\* sought, though it gets there by running from the one before it.
THEOREM SeeksLand ==
  ASSUME Strides = {1}, StartFrom \subseteq {"rom"}
  PROVE  Spec => SeekLandsOnAge
<1>1. Inv /\ Tracks(g, machine) /\ [Next]_vars =>
        [Scrub /\ ~g.missed =>
           Len(machine'.past) = Len(ReconstructRaw(g, g'.seek_position).past)]_vars
  <2>1. SUFFICES ASSUME Inv, Tracks(g, machine), Scrub, ~g.missed
                 PROVE  Len(machine'.past) = Len(ReconstructRaw(g, g'.seek_position).past)
    OBVIOUS
  <2>2. Kept(g) /\ g.count \in Nat
    BY <2>1, KeptTypes DEF Inv
  <2>3. PICK age \in 0..g.count : RewindSeek(age)
    BY <2>1 DEF Scrub
  <2>4. /\ age \in Nat /\ age < ExposedCount(g) /\ g' = [g EXCEPT !.seek_position = age]
        /\ machine' = Replayed(ReconstructRaw(g, age + 1))
    BY <2>2, <2>3 DEF RewindSeek, CanSeek
  <2>5. SameMoment(ReconstructRaw(g, age), Replayed(ReconstructRaw(g, age + 1)))
    BY <2>1, <2>4, SeeksTrack
  <2>6. g'.seek_position = age
    BY <2>2, <2>4, SoughtKeeps
  <2> QED
    BY <2>4, <2>5, <2>6 DEF SameMoment
<1> QED
  BY <1>1, TracksHolds, PTL DEF Spec, SeekLandsOnAge

=============================================================================
