---------------------------- MODULE HistoryProofs ----------------------------
(***************************************************************************)
(* Proofs about History.  Its searches and its ring come first: an index   *)
(* in time order and a slot determine each other (PhysicalLogical, ...),   *)
(* the bisection ends at the one index between the two times, and an       *)
(* insertion leaves the ring the queue that SampleQueue keeps.  RingInv is *)
(* inductive by those, and with it the ring implements the queue.  The     *)
(* second half is about what is delivered: RingInv /\ LogInv relates the   *)
(* samples of the ring to the log of everything that the present run has   *)
(* fed, so that a delayed read is the read of an unbounded history.        *)
(***************************************************************************)
EXTENDS HistoryInv, FiniteSetTheorems, SequenceTheorems, WellFoundedInduction, TLAPS

LEMMA LeastNatural ==
  ASSUME NEW T \in SUBSET Nat, T # {}
  PROVE  \E x \in T : \A y \in T : x <= y
<1> DEFINE R == OpToRel(<, Nat)
<1>1. IsWellFoundedOn(R, Nat)
  BY NatLessThanWellFounded
<1> HIDE DEF R
<1>2. PICK x \in T : \A y \in T : ~ (<<y, x>> \in R)
  BY <1>1, WFMin, T # {}
<1>3. \A y \in T : y < x => <<y, x>> \in R
  BY DEF R, OpToRel
<1>4. \A y \in T : ~ (y < x)
  BY <1>2, <1>3, Zenon
<1> QED
  BY <1>4

\* The remainder of a number that is less than twice the divisor.
LEMMA Remainder ==
  ASSUME NEW m \in Nat, m > 0, NEW a \in Int, 0 <= a + m, a < m + m
  PROVE  a % m = IF a < 0 THEN a + m ELSE IF a < m THEN a ELSE a - m
<1>1. a = m * (a \div m) + (a % m) /\ a \div m \in Int /\ a % m \in 0..m - 1
  OBVIOUS
<1> DEFINE d == a \div m  r == a % m
<1> HIDE DEF d, r
<1>2. a = m * d + r /\ d \in Int /\ r \in 0..m - 1
  BY <1>1 DEF d, r
<1>3. d \in -1..1
  <2>1. CASE d >= 2
    <3>1. m * d >= m * 2
      BY <1>2, <2>1
    <3> QED
      BY <1>2, <3>1
  <2>2. CASE d <= -2
    <3>1. m * d <= m * (-2)
      BY <1>2, <2>2
    <3> QED
      BY <1>2, <3>1
  <2> QED
    BY <1>2, <2>1, <2>2
<1>4. CASE d = -1
  BY <1>2, <1>4 DEF r
<1>5. CASE d = 0
  BY <1>2, <1>5 DEF r
<1>6. CASE d = 1
  BY <1>2, <1>6 DEF r
<1> QED
  BY <1>3, <1>4, <1>5, <1>6

LEMMA Wrap ==
  ASSUME NEW m \in Nat, m > 0, NEW c \in 0..m - 1, NEW k \in 0..m - 1
  PROVE  /\ (c + 1 + k) % m = IF c + 1 + k < m THEN c + 1 + k ELSE c + 1 + k - m
         /\ (k - c - 1) % m = IF k > c THEN k - c - 1 ELSE k - c - 1 + m
         /\ (c + 1) % m = IF c + 1 < m THEN c + 1 ELSE 0
<1>1. (c + 1 + k) % m = IF c + 1 + k < m THEN c + 1 + k ELSE c + 1 + k - m
  <2> DEFINE a == c + 1 + k
  <2>1. a \in Int /\ 0 <= a + m /\ a < m + m /\ 0 <= a
    OBVIOUS
  <2> HIDE DEF a
  <2>2. a % m = IF a < m THEN a ELSE a - m
    BY <2>1, Remainder
  <2> QED
    BY <2>2 DEF a
<1>2. (k - c - 1) % m = IF k > c THEN k - c - 1 ELSE k - c - 1 + m
  <2> DEFINE a == k - c - 1
  <2>1. a \in Int /\ 0 <= a + m /\ a < m + m /\ a < m /\ (0 <= a <=> k > c)
    OBVIOUS
  <2> HIDE DEF a
  <2>2. a % m = IF k > c THEN a ELSE a + m
    BY <2>1, Remainder
  <2> QED
    BY <2>2 DEF a
<1>3. (c + 1) % m = IF c + 1 < m THEN c + 1 ELSE 0
  <2> DEFINE a == c + 1
  <2>1. a \in Int /\ 0 <= a + m /\ a < m + m /\ 0 <= a /\ (a < m \/ a = m)
    OBVIOUS
  <2> HIDE DEF a
  <2>2. a % m = IF a < m THEN a ELSE 0
    BY <2>1, Remainder
  <2> QED
    BY <2>2 DEF a
<1> QED
  BY <1>1, <1>2, <1>3

RingOK ==
  /\ n \in Nat /\ n > 0 /\ cursor \in Slots
  /\ DOMAIN times = Slots /\ DOMAIN values = Slots
  /\ times = [p \in Slots |-> times[p]] /\ values = [p \in Slots |-> values[p]]
  /\ \A p \in Slots : times[p] \in Int

\* An element's place, and the element at a place.
LEMMA RingIndex ==
  ASSUME RingOK
  PROVE  /\ \A k \in Slots :
              /\ Physical(k) = IF cursor + 1 + k < n THEN cursor + 1 + k ELSE cursor + 1 + k - n
              /\ Logical(k) = IF k > cursor THEN k - cursor - 1 ELSE k - cursor - 1 + n
              /\ Physical(k) \in Slots /\ Logical(k) \in Slots
              /\ Logical(Physical(k)) = k /\ Physical(Logical(k)) = k
              /\ Time(k) \in Int
         /\ Following = IF cursor + 1 < n THEN cursor + 1 ELSE 0
         /\ Following \in Slots
         /\ 0 \in Slots /\ n - 1 \in Slots
<1>1. n \in Nat /\ n > 0 /\ cursor \in 0..n - 1 /\ Slots = 0..n - 1
  BY DEF RingOK, Slots
<1>2. ASSUME NEW k \in Slots
      PROVE  /\ Physical(k) = IF cursor + 1 + k < n THEN cursor + 1 + k ELSE cursor + 1 + k - n
             /\ Logical(k) = IF k > cursor THEN k - cursor - 1 ELSE k - cursor - 1 + n
             /\ Following = IF cursor + 1 < n THEN cursor + 1 ELSE 0
  BY <1>1, Wrap DEF Physical, Logical, Following
<1>3. \A k \in Slots : Physical(k) \in Slots /\ Logical(k) \in Slots
  BY <1>1, <1>2, SMTT(30)
<1>4. ASSUME NEW k \in Slots PROVE Logical(Physical(k)) = k /\ Physical(Logical(k)) = k
  <2> DEFINE p == Physical(k)  l == Logical(k)
  <2>1. p \in Slots /\ l \in Slots
    BY <1>3
  <2>2. /\ p = IF cursor + 1 + k < n THEN cursor + 1 + k ELSE cursor + 1 + k - n
        /\ l = IF k > cursor THEN k - cursor - 1 ELSE k - cursor - 1 + n
    BY <1>2
  <2> HIDE DEF p, l
  <2>3. Logical(p) = IF p > cursor THEN p - cursor - 1 ELSE p - cursor - 1 + n
    BY <1>2, <2>1
  <2>4. Physical(l) = IF cursor + 1 + l < n THEN cursor + 1 + l ELSE cursor + 1 + l - n
    BY <1>2, <2>1
  <2>5. Logical(p) = k
    BY <1>1, <2>1, <2>2, <2>3
  <2>6. Physical(l) = k
    BY <1>1, <2>1, <2>2, <2>4
  <2> QED
    BY <2>5, <2>6 DEF p, l
<1>5. \A k \in Slots : Time(k) \in Int
  BY <1>3 DEF Time, RingOK
<1>6. 0 \in Slots /\ n - 1 \in Slots
  BY <1>1
<1>7. Following = (IF cursor + 1 < n THEN cursor + 1 ELSE 0) /\ Following \in Slots
  BY <1>1, <1>2, <1>6
<1>8. ASSUME NEW k \in Slots
      PROVE  /\ Physical(k) = IF cursor + 1 + k < n THEN cursor + 1 + k ELSE cursor + 1 + k - n
             /\ Logical(k) = IF k > cursor THEN k - cursor - 1 ELSE k - cursor - 1 + n
  BY <1>2
<1> QED
  BY <1>3, <1>4, <1>5, <1>6, <1>7, <1>8

-----------------------------------------------------------------------------
(* The bisection.                                                          *)

Bounds == Slots \X Slots
Mid(b) == (b[1] + b[2]) \div 2

\* One turn of the loop, if f is what it ends with from the next bounds.
Halve(f, t, b) ==
  IF b[2] - b[1] <= 1 THEN b[2]
  ELSE IF Time(Mid(b)) < t THEN f[<<Mid(b), b[2]>>] ELSE f[<<b[1], Mid(b)>>]

\* What the loop ends with from bounds that are at most k apart.
Bisects(f, t, k) == \A b \in Bounds : b[2] - b[1] <= k => f[b] = Halve(f, t, b)

LEMMA Middle ==
  ASSUME n \in Nat \ {0}, NEW b \in Bounds, b[2] - b[1] > 1
  PROVE  /\ Mid(b) \in Slots /\ b[1] < Mid(b) /\ Mid(b) < b[2] /\ b[1] \in Slots /\ b[2] \in Slots
         /\ <<Mid(b), b[2]>> \in Bounds /\ <<b[1], Mid(b)>> \in Bounds
         /\ b[2] - Mid(b) < b[2] - b[1] /\ Mid(b) - b[1] < b[2] - b[1]
<1>1. b[1] \in Slots /\ b[2] \in Slots
  BY DEF Bounds
<1>2. /\ Mid(b) \in Slots /\ b[1] < Mid(b) /\ Mid(b) < b[2]
      /\ b[2] - Mid(b) < b[2] - b[1] /\ Mid(b) - b[1] < b[2] - b[1]
  BY <1>1 DEF Slots, Mid
<1> QED
  BY <1>1, <1>2 DEF Bounds

\* The loop ends, so its recursive definition defines a function.
LEMMA BisectionEnds ==
  ASSUME n \in Nat \ {0}, NEW t
  PROVE  \E f : f = [b \in Bounds |-> Halve(f, t, b)]
<1> DEFINE F == [Bounds -> Slots]
           P(k) == \E f \in F : Bisects(f, t, k)
           Bad == {k \in Nat : ~ P(k)}
<1>0. \A b \in Bounds : b[1] \in Int /\ b[2] \in Int /\ b[2] \in Slots
  BY DEF Bounds, Slots
<1>1. P(0)
  <2> DEFINE f == [b \in Bounds |-> b[2]]
  <2>1. f \in F /\ \A b \in Bounds : f[b] = b[2]
    BY DEF Bounds
  <2> HIDE DEF f
  <2>2. Bisects(f, t, 0)
    BY <1>0, <2>1 DEF Bisects, Halve
  <2> QED
    BY <2>1, <2>2
<1>2. ASSUME NEW k \in Nat, P(k) PROVE P(k + 1)
  <2>1. PICK f \in F : Bisects(f, t, k)
    BY <1>2
  <2> DEFINE g == [b \in Bounds |-> IF b[2] - b[1] <= k THEN f[b] ELSE Halve(f, t, b)]
  <2>2. ASSUME NEW b \in Bounds PROVE f[b] \in Slots /\ Halve(f, t, b) \in Slots
    <3>1. CASE b[2] - b[1] <= 1
      BY <1>0, <2>1, <3>1 DEF Halve
    <3>2. CASE b[2] - b[1] > 1
      BY <2>1, <3>2, Middle DEF Halve
    <3> QED
      BY <1>0, <3>1, <3>2
  <2>3. g \in F /\ \A b \in Bounds : g[b] = IF b[2] - b[1] <= k THEN f[b] ELSE Halve(f, t, b)
    BY <2>2
  <2> HIDE DEF g
  <2>5. ASSUME NEW b \in Bounds, b[2] - b[1] <= k + 1
        PROVE  Halve(g, t, b) = Halve(f, t, b)
    <3>1. CASE b[2] - b[1] <= 1
      BY <3>1 DEF Halve
    <3>2. CASE b[2] - b[1] > 1
      <4> DEFINE upper == <<Mid(b), b[2]>>  lower == <<b[1], Mid(b)>>
      <4>1. upper \in Bounds /\ lower \in Bounds /\ upper[2] - upper[1] <= k /\ lower[2] - lower[1] <= k
        BY <1>0, <2>5, <3>2, Middle DEF Slots
      <4> HIDE DEF upper, lower
      <4>2. g[upper] = f[upper] /\ g[lower] = f[lower]
        BY <2>3, <4>1
      <4> QED
        BY <4>2 DEF Halve, upper, lower
    <3> QED
      BY <1>0, <3>1, <3>2
  <2>6. Bisects(g, t, k + 1)
    <3> SUFFICES ASSUME NEW b \in Bounds, b[2] - b[1] <= k + 1
                 PROVE  g[b] = Halve(g, t, b)
      BY DEF Bisects
    <3>1. CASE b[2] - b[1] <= k
      BY <2>1, <2>3, <2>5, <3>1 DEF Bisects
    <3>2. CASE ~ (b[2] - b[1] <= k)
      BY <2>3, <2>5, <3>2
    <3> QED
      BY <3>1, <3>2
  <2> QED
    BY <2>3, <2>6
<1> HIDE DEF P
<1>3. Bad = {}
  <2> SUFFICES ASSUME Bad # {} PROVE FALSE
    OBVIOUS
  <2>1. Bad \in SUBSET Nat
    OBVIOUS
  <2>2. PICK k \in Bad : \A j \in Bad : k <= j
    BY <2>1, LeastNatural
  <2>3. k # 0 /\ k \in Nat
    BY <1>1
  <2>4. k - 1 \in Nat /\ k - 1 \notin Bad /\ (k - 1) + 1 = k
    BY <2>2, <2>3
  <2>5. P(k - 1)
    BY <2>4
  <2> QED
    BY <1>2, <2>4, <2>5
<1>4. PICK f \in F : Bisects(f, t, n)
  BY <1>3 DEF P
<1>5. \A b \in Bounds : f[b] = Halve(f, t, b)
  <2>1. \A b \in Bounds : b[2] - b[1] <= n
    BY DEF Bounds, Slots
  <2> QED
    BY <1>4, <2>1 DEF Bisects
<1>6. f = [b \in Bounds |-> f[b]]
  BY <1>4
<1>7. f = [b \in Bounds |-> Halve(f, t, b)]
  <2> DEFINE g == [b \in Bounds |-> Halve(f, t, b)]
  <2>1. f = g
    BY <1>5, <1>6
  <2> QED
    BY <2>1
<1> QED
  BY <1>7

LEMMA BisectionFunction ==
  ASSUME n \in Nat \ {0}, NEW t
  PROVE  \E f : Bisect(t) = f[<<0, n - 1>>] /\ \A b \in Bounds : f[b] = Halve(f, t, b)
<1> DEFINE f == CHOOSE f : f = [b \in Bounds |-> Halve(f, t, b)]
<1>1. Bisect(t) = f[<<0, n - 1>>]
  BY DEF Bisect, Halve, Bounds, Mid
<1>2. f = [b \in Bounds |-> Halve(f, t, b)]
  BY BisectionEnds
<1> HIDE DEF f
<1>3. \A b \in Bounds : f[b] = Halve(f, t, b)
  BY <1>2
<1> QED
  BY <1>1, <1>3

\* What the loop keeps: the lower bound is older than t, the upper one is not.
LEMMA BisectionKeeps ==
  ASSUME RingOK, NEW t \in Int, NEW f, \A b \in Bounds : f[b] = Halve(f, t, b)
  PROVE  \A b \in Bounds : b[1] < b[2] /\ Time(b[1]) < t /\ t <= Time(b[2]) =>
           f[b] \in 1..n - 1 /\ Time(f[b] - 1) < t /\ t <= Time(f[b])
<1> DEFINE Good(b) == f[b] \in 1..n - 1 /\ Time(f[b] - 1) < t /\ t <= Time(f[b])
           Kept(b) == b[1] < b[2] /\ Time(b[1]) < t /\ t <= Time(b[2])
           Bad == {k \in Nat : \E b \in Bounds : Kept(b) /\ b[2] - b[1] = k /\ ~ Good(b)}
<1>1. n \in Nat \ {0} /\ \A k \in Slots : Time(k) \in Int
  BY RingIndex DEF RingOK
<1>2. \A b \in Bounds : b[1] \in Slots /\ b[2] \in Slots
  BY DEF Bounds
<1>3. ASSUME Bad # {} PROVE FALSE
  <2>1. Bad \in SUBSET Nat
    OBVIOUS
  <2>2. PICK k \in Bad : \A j \in Bad : k <= j
    BY <1>3, <2>1, LeastNatural
  <2>3. PICK b \in Bounds : Kept(b) /\ b[2] - b[1] = k /\ ~ Good(b)
    BY <2>2
  <2>4. CASE b[2] - b[1] <= 1
    <3>1. f[b] = b[2]
      BY <2>4 DEF Halve
    <3>2. b[1] = b[2] - 1 /\ b[2] \in 1..n - 1
      BY <1>1, <1>2, <2>3, <2>4 DEF Slots
    <3> QED
      BY <2>3, <3>1, <3>2
  <2>5. CASE b[2] - b[1] > 1
    <3> DEFINE upper == <<Mid(b), b[2]>>  lower == <<b[1], Mid(b)>>
    <3>1. /\ Mid(b) \in Slots /\ b[1] < Mid(b) /\ Mid(b) < b[2]
          /\ upper \in Bounds /\ lower \in Bounds
          /\ upper[1] = Mid(b) /\ upper[2] = b[2] /\ lower[1] = b[1] /\ lower[2] = Mid(b)
      BY <1>1, <2>5, Middle
    <3>2. f[b] = IF Time(Mid(b)) < t THEN f[upper] ELSE f[lower]
      BY <2>5, <1>2 DEF Halve, Slots
    <3> HIDE DEF upper, lower
    <3>3. Time(Mid(b)) \in Int
      BY <1>1, <3>1
    <3>4. CASE Time(Mid(b)) < t
      <4>1. Kept(upper) /\ f[b] = f[upper] /\ upper[2] - upper[1] \in Nat /\ upper[2] - upper[1] < k
        BY <1>1, <1>2, <2>3, <3>1, <3>2, <3>4 DEF Slots
      <4>2. ~ Good(upper)
        BY <2>3, <4>1
      <4>3. upper[2] - upper[1] \in Bad
        BY <3>1, <4>1, <4>2
      <4> QED
        BY <2>2, <4>1, <4>3
    <3>5. CASE ~ (Time(Mid(b)) < t)
      <4>1. Kept(lower) /\ f[b] = f[lower] /\ lower[2] - lower[1] \in Nat /\ lower[2] - lower[1] < k
        BY <1>1, <1>2, <2>3, <3>1, <3>2, <3>3, <3>5 DEF Slots
      <4>2. ~ Good(lower)
        BY <2>3, <4>1
      <4>3. lower[2] - lower[1] \in Bad
        BY <3>1, <4>1, <4>2
      <4> QED
        BY <2>2, <4>1, <4>3
    <3> QED
      BY <3>4, <3>5
  <2> QED
    BY <1>2, <2>4, <2>5 DEF Slots
<1>4. ASSUME NEW b \in Bounds, Kept(b) PROVE Good(b)
  <2>1. b[2] - b[1] \in Nat
    BY <1>2, <1>4 DEF Slots
  <2>2. b[2] - b[1] \notin Bad
    BY <1>3
  <2> QED
    BY <1>4, <2>1, <2>2
<1> QED
  BY <1>4

LEMMA BisectPlace ==
  ASSUME RingOK, NEW t \in Int, Time(0) < t, t <= Time(n - 1)
  PROVE  Bisect(t) \in 1..n - 1 /\ Time(Bisect(t) - 1) < t /\ t <= Time(Bisect(t))
<1>1. PICK f : Bisect(t) = f[<<0, n - 1>>] /\ \A b \in Bounds : f[b] = Halve(f, t, b)
  BY BisectionFunction DEF RingOK
<1>2. n > 1 /\ n \in Nat
  <2>1. n # 1
    BY RingIndex
  <2> QED
    BY <2>1 DEF RingOK
<1> DEFINE b == <<0, n - 1>>
<1>3. b \in Bounds /\ b[1] = 0 /\ b[2] = n - 1 /\ b[1] < b[2]
  BY <1>2 DEF Bounds, Slots
<1> HIDE DEF b
<1>4. f[b] \in 1..n - 1 /\ Time(f[b] - 1) < t /\ t <= Time(f[b])
  BY <1>1, <1>3, BisectionKeeps
<1> QED
  BY <1>1, <1>4 DEF b

LEMMA FindPlace ==
  ASSUME RingOK, NEW t \in Int
  PROVE  /\ FindIndex(t) \in 0..n
         /\ FindIndex(t) = 0 => t <= Time(0)
         /\ FindIndex(t) # 0 => Time(FindIndex(t) - 1) < t
         /\ FindIndex(t) # n => t <= Time(FindIndex(t))
<1>1. n \in Nat /\ n > 0 /\ Time(0) \in Int /\ Time(n - 1) \in Int
  BY RingIndex DEF RingOK
<1>2. CASE t <= Time(0)
  BY <1>1, <1>2 DEF FindIndex
<1>3. CASE ~ (t <= Time(0)) /\ t > Time(n - 1)
  BY <1>1, <1>3 DEF FindIndex
<1>4. CASE ~ (t <= Time(0)) /\ ~ (t > Time(n - 1))
  <2>1. Time(0) < t /\ t <= Time(n - 1) /\ FindIndex(t) = Bisect(t)
    BY <1>1, <1>4 DEF FindIndex
  <2> QED
    BY <1>1, <2>1, BisectPlace
<1> QED
  BY <1>2, <1>3, <1>4

-----------------------------------------------------------------------------
(* An insertion, seen in logical order.                                    *)

\* The element i gets another value.
Replaced(i, t, v) ==
  /\ Time(i) = t
  /\ i > 0 => Time(i - 1) < t
  /\ \A k \in Slots : Time(k)' = Time(k) /\ Value(k)' = IF k = i THEN v ELSE Value(k)

\* The oldest is lost, the next j move up and the new one follows them.
Entered(j, t, v) ==
  /\ j > 0 => Time(j) < t
  /\ j = 0 => Time(0) # t
  /\ j < n - 1 => t < Time(j + 1)
  /\ \A k \in Slots :
       /\ Time(k)' = IF k < j THEN Time(k + 1) ELSE IF k = j THEN t ELSE Time(k)
       /\ Value(k)' = IF k < j THEN Value(k + 1) ELSE IF k = j THEN v ELSE Value(k)

\* Nothing but t and v enters the buffer.
Keeps(t, v) ==
  /\ \A S : t \in S /\ (\A p \in Slots : times[p] \in S) => \A p \in Slots : times'[p] \in S
  /\ \A S : v \in S /\ (\A p \in Slots : values[p] \in S) => \A p \in Slots : values'[p] \in S

LEMMA SameCursor ==
  ASSUME RingOK, channel' = channel, cursor' = cursor,
         DOMAIN times' = Slots, times' = [p \in Slots |-> times'[p]], \A p \in Slots : times'[p] \in Int,
         DOMAIN values' = Slots, values' = [p \in Slots |-> values'[p]]
  PROVE  /\ RingOK'
         /\ \A k : Time(k)' = times'[Physical(k)] /\ Value(k)' = values'[Physical(k)]
<1>1. n' = n /\ Slots' = Slots
  BY DEF n, Slots
<1>2. RingOK'
  BY <1>1 DEF RingOK
<1>3. \A k : Physical(k)' = Physical(k)
  BY <1>1 DEF Physical
<1> QED
  BY <1>2, <1>3 DEF Time, Value

LEMMA PutSame ==
  ASSUME RingOK, channel' = channel, cursor' = cursor, NEW t \in Int, NEW v, NEW i \in Slots,
         Put(Physical(i), t, v)
  PROVE  /\ RingOK' /\ Keeps(t, v)
         /\ \A k \in Slots : /\ Time(k)' = IF k = i THEN t ELSE Time(k)
                             /\ Value(k)' = IF k = i THEN v ELSE Value(k)
<1> DEFINE p == Physical(i)
<1>1. p \in Slots /\ \A k \in Slots : Physical(k) \in Slots /\ (Physical(k) = p => k = i)
  BY RingIndex
<1>2. times' = [times EXCEPT ![p] = t] /\ values' = [values EXCEPT ![p] = v]
  BY DEF Put
<1>3. /\ DOMAIN times = Slots /\ DOMAIN values = Slots /\ \A q \in Slots : times[q] \in Int
  BY DEF RingOK
<1>4. p = Physical(i)
  OBVIOUS
<1> HIDE DEF p
<1>5. /\ DOMAIN times' = Slots /\ times' = [q \in Slots |-> times'[q]]
      /\ DOMAIN values' = Slots /\ values' = [q \in Slots |-> values'[q]]
      /\ \A q \in Slots : times'[q] = (IF q = p THEN t ELSE times[q]) /\ values'[q] = IF q = p THEN v ELSE values[q]
  BY <1>1, <1>2, <1>3
<1>6. \A q \in Slots : times'[q] \in Int
  BY <1>3, <1>5
<1>7. RingOK' /\ \A k : Time(k)' = times'[Physical(k)] /\ Value(k)' = values'[Physical(k)]
  BY <1>5, <1>6, SameCursor
<1>8. Keeps(t, v)
  BY <1>5 DEF Keeps
<1> QED
  BY <1>1, <1>4, <1>5, <1>7, <1>8 DEF Time, Value

LEMMA PutNext ==
  ASSUME RingOK, channel' = channel, cursor' = Following, NEW t \in Int, NEW v, Put(Following, t, v)
  PROVE  /\ RingOK' /\ Keeps(t, v)
         /\ \A k \in Slots : /\ Time(k)' = IF k < n - 1 THEN Time(k + 1) ELSE t
                             /\ Value(k)' = IF k < n - 1 THEN Value(k + 1) ELSE v
<1> DEFINE p == Following
<1>1. n' = n /\ Slots' = Slots /\ n \in Nat /\ n > 0 /\ Slots = 0..n - 1 /\ cursor \in Slots
  BY DEF n, Slots, RingOK
<1>2. p = (IF cursor + 1 < n THEN cursor + 1 ELSE 0) /\ p \in Slots /\ cursor' = p
  BY RingIndex
<1>3. times' = [times EXCEPT ![p] = t] /\ values' = [values EXCEPT ![p] = v]
  BY DEF Put
<1>4. /\ DOMAIN times = Slots /\ DOMAIN values = Slots /\ \A q \in Slots : times[q] \in Int
  BY DEF RingOK
<1> HIDE DEF p
<1>5. /\ DOMAIN times' = Slots /\ times' = [q \in Slots |-> times'[q]]
      /\ DOMAIN values' = Slots /\ values' = [q \in Slots |-> values'[q]]
      /\ \A q \in Slots : times'[q] = (IF q = p THEN t ELSE times[q]) /\ values'[q] = IF q = p THEN v ELSE values[q]
  BY <1>2, <1>3, <1>4
<1>6. RingOK'
  BY <1>1, <1>2, <1>4, <1>5 DEF RingOK
<1>7. \A k \in Slots : Physical(k)' = IF cursor' + 1 + k < n THEN cursor' + 1 + k ELSE cursor' + 1 + k - n
  BY <1>1, <1>2, Wrap DEF Physical
<1>8. ASSUME NEW k \in Slots
      PROVE  /\ k < n - 1 => Physical(k)' = Physical(k + 1) /\ k + 1 \in Slots /\ Physical(k + 1) # p
             /\ k = n - 1 => Physical(k)' = p
  <2>1. CASE k < n - 1
    <3>1. k + 1 \in Slots
      BY <1>1, <2>1
    <3> DEFINE q == Physical(k + 1)
    <3>2. q = IF cursor + 1 + (k + 1) < n THEN cursor + 1 + (k + 1) ELSE cursor + 1 + (k + 1) - n
      BY <3>1, RingIndex
    <3> HIDE DEF q
    <3>3. Physical(k)' = q /\ q # p
      BY <1>1, <1>2, <1>7, <2>1, <3>2
    <3> QED
      BY <1>1, <2>1, <3>1, <3>3 DEF q
  <2>2. CASE k = n - 1
    BY <1>1, <1>2, <1>7, <2>2
  <2> QED
    BY <1>1, <2>1, <2>2
<1>9. \A k \in Slots : k < n - 1 \/ k = n - 1
  BY <1>1
<1>10. \A k \in Slots : Physical(k) \in Slots
  BY RingIndex
<1>11. Keeps(t, v)
  BY <1>5 DEF Keeps
<1> QED
  BY <1>2, <1>5, <1>6, <1>8, <1>9, <1>10, <1>11 DEF Time, Value

LEMMA ShiftPlaces ==
  ASSUME RingOK, channel' = channel, cursor' = cursor, NEW t \in Int, NEW v, NEW i \in 1..n - 1,
         times' = [Moved(times, i) EXCEPT ![Physical(i - 1)] = t],
         values' = [Moved(values, i) EXCEPT ![Physical(i - 1)] = v]
  PROVE  /\ RingOK' /\ Keeps(t, v)
         /\ \A k \in Slots :
              /\ Time(k)' = IF k < i - 1 THEN Time(k + 1) ELSE IF k = i - 1 THEN t ELSE Time(k)
              /\ Value(k)' = IF k < i - 1 THEN Value(k + 1) ELSE IF k = i - 1 THEN v ELSE Value(k)
<1> DEFINE p == Physical(i - 1)
<1>1. n \in Nat /\ n > 0 /\ Slots = 0..n - 1 /\ i - 1 \in Slots
  BY DEF Slots, RingOK
<1>2. p \in Slots /\ \A k \in Slots : /\ Physical(k) \in Slots /\ (Physical(k) = p => k = i - 1)
                                      /\ Logical(Physical(k)) = k /\ Logical(k) \in Slots
  <2>1. \A k \in Slots : Physical(k) \in Slots /\ Logical(Physical(k)) = k /\ Logical(k) \in Slots
    BY RingIndex
  <2> QED
    BY <1>1, <2>1
<1>3. p = Physical(i - 1)
  OBVIOUS
<1>4. times' = [Moved(times, i) EXCEPT ![p] = t] /\ values' = [Moved(values, i) EXCEPT ![p] = v]
  OBVIOUS
<1>5. /\ DOMAIN times = Slots /\ DOMAIN values = Slots /\ \A q \in Slots : times[q] \in Int
  BY DEF RingOK
<1> DEFINE From(q) == IF Logical(q) \in 0..i - 2 THEN Physical(Logical(q) + 1) ELSE q
<1> HIDE DEF p
<1>6. \A q \in Slots : From(q) \in Slots
  <2> SUFFICES ASSUME NEW q \in Slots, Logical(q) \in 0..i - 2 PROVE Physical(Logical(q) + 1) \in Slots
    OBVIOUS
  <2>1. Logical(q) + 1 \in Slots
    BY <1>1
  <2> QED
    BY <1>2, <2>1
<1>7. \A f : Moved(f, i) = [q \in Slots |-> f[From(q)]]
  BY DEF Moved
<1> HIDE DEF From
<1>8. /\ DOMAIN times' = Slots /\ times' = [q \in Slots |-> times'[q]]
      /\ DOMAIN values' = Slots /\ values' = [q \in Slots |-> values'[q]]
      /\ \A q \in Slots : /\ times'[q] = (IF q = p THEN t ELSE times[From(q)])
                          /\ values'[q] = IF q = p THEN v ELSE values[From(q)]
  <2> DEFINE T == Moved(times, i)  V == Moved(values, i)
  <2>1. T = [q \in Slots |-> times[From(q)]] /\ V = [q \in Slots |-> values[From(q)]]
    BY <1>7
  <2>2. times' = [T EXCEPT ![p] = t] /\ values' = [V EXCEPT ![p] = v]
    BY <1>4
  <2> HIDE DEF T, V
  <2> QED
    BY <1>2, <2>1, <2>2
<1>9. \A q \in Slots : times'[q] \in Int
  BY <1>5, <1>6, <1>8
<1>10. RingOK' /\ \A k : Time(k)' = times'[Physical(k)] /\ Value(k)' = values'[Physical(k)]
  BY <1>8, <1>9, SameCursor
<1>11. ASSUME NEW k \in Slots
       PROVE  From(Physical(k)) = IF k < i - 1 THEN Physical(k + 1) ELSE Physical(k)
  <2>1. Logical(Physical(k)) = k
    BY <1>2
  <2>2. k \in 0..i - 2 <=> k < i - 1
    BY <1>1
  <2> QED
    BY <2>1, <2>2 DEF From
<1>12. ASSUME NEW k \in Slots
       PROVE  /\ times'[Physical(k)] = IF k = i - 1 THEN t ELSE times[From(Physical(k))]
              /\ values'[Physical(k)] = IF k = i - 1 THEN v ELSE values[From(Physical(k))]
  BY <1>2, <1>3, <1>8
<1>13. \A k \in Slots : /\ Time(k)' = IF k = i - 1 THEN t ELSE times[From(Physical(k))]
                        /\ Value(k)' = IF k = i - 1 THEN v ELSE values[From(Physical(k))]
  BY <1>10, <1>12
<1>14. \A k \in Slots : ~ (k < i - 1 /\ k = i - 1)
  BY <1>1
<1> HIDE DEF From
<1>15. ASSUME NEW k \in Slots
       PROVE  /\ Time(k)' = IF k < i - 1 THEN Time(k + 1) ELSE IF k = i - 1 THEN t ELSE Time(k)
              /\ Value(k)' = IF k < i - 1 THEN Value(k + 1) ELSE IF k = i - 1 THEN v ELSE Value(k)
  BY <1>11, <1>13, <1>14 DEF Time, Value
<1>16. Keeps(t, v)
  BY <1>6, <1>8 DEF Keeps
<1> QED
  BY <1>10, <1>15, <1>16

LEMMA InsertPlaces ==
  ASSUME RingOK, channel' = channel, NEW t \in Int, NEW v, Insert(t, v),
         TimesInOrder
  PROVE  /\ RingOK' /\ Keeps(t, v)
         /\ (\E i \in Slots : Replaced(i, t, v)) \/ (\E j \in Slots : Entered(j, t, v))
<1> DEFINE i == FindIndex(t)
<1>1. /\ i \in 0..n /\ (i = 0 => t <= Time(0)) /\ (i # 0 => Time(i - 1) < t) /\ (i # n => t <= Time(i))
  BY FindPlace
<1>2. n \in Nat /\ n > 0 /\ Slots = 0..n - 1 /\ \A k \in Slots : Time(k) \in Int
  BY RingIndex DEF Slots, RingOK
<1>3. \/ Found(i, t) /\ Put(Physical(i), t, v) /\ cursor' = cursor
      \/ ~ Found(i, t) /\ i = 0 /\ Put(Physical(0), t, v) /\ cursor' = cursor
      \/ ~ Found(i, t) /\ i = n /\ cursor' = Following /\ Put(Following, t, v)
      \/ /\ ~ Found(i, t) /\ i \in 1..n - 1 /\ cursor' = cursor
         /\ times' = [Moved(times, i) EXCEPT ![Physical(i - 1)] = t]
         /\ values' = [Moved(values, i) EXCEPT ![Physical(i - 1)] = v]
  BY DEF Insert
<1> HIDE DEF i
<1>4. CASE Found(i, t) /\ Put(Physical(i), t, v) /\ cursor' = cursor
  <2>1. i \in Slots /\ Time(i) = t
    BY <1>1, <1>2, <1>4 DEF Found
  <2>2. RingOK' /\ Keeps(t, v) /\ \A k \in Slots : /\ Time(k)' = IF k = i THEN t ELSE Time(k)
                                    /\ Value(k)' = IF k = i THEN v ELSE Value(k)
    BY <1>4, <2>1, PutSame
  <2>3. Replaced(i, t, v)
    BY <1>1, <1>2, <2>1, <2>2 DEF Replaced
  <2> QED
    BY <2>1, <2>2, <2>3
<1>5. CASE ~ Found(i, t) /\ i = 0 /\ Put(Physical(0), t, v) /\ cursor' = cursor
  <2>1. 0 \in Slots /\ Time(0) # t /\ t < Time(0) /\ (0 < n - 1 => 1 \in Slots)
    BY <1>1, <1>2, <1>5 DEF Found
  <2>2. RingOK' /\ Keeps(t, v) /\ \A k \in Slots : /\ Time(k)' = IF k = 0 THEN t ELSE Time(k)
                                    /\ Value(k)' = IF k = 0 THEN v ELSE Value(k)
    BY <1>5, <2>1, PutSame
  <2>3. 0 < n - 1 => t < Time(0 + 1)
    <3> SUFFICES ASSUME 0 < n - 1 PROVE t < Time(1)
      OBVIOUS
    <3>1. Time(0) <= Time(1) /\ Time(0) \in Int /\ Time(1) \in Int
      BY <1>2, <2>1 DEF TimesInOrder
    <3> QED
      BY <2>1, <3>1
  <2>4. \A k \in Slots : ~ (k < 0)
    BY <1>2
  <2>5. Entered(0, t, v)
    BY <2>1, <2>2, <2>3, <2>4 DEF Entered
  <2> QED
    BY <2>1, <2>2, <2>5
<1>6. CASE ~ Found(i, t) /\ i = n /\ cursor' = Following /\ Put(Following, t, v)
  <2>1. n - 1 \in Slots /\ Time(n - 1) < t
    BY <1>1, <1>2, <1>6
  <2>2. RingOK' /\ Keeps(t, v) /\ \A k \in Slots : /\ Time(k)' = IF k < n - 1 THEN Time(k + 1) ELSE t
                                    /\ Value(k)' = IF k < n - 1 THEN Value(k + 1) ELSE v
    BY <1>6, PutNext
  <2>3. Entered(n - 1, t, v)
    BY <1>2, <2>1, <2>2 DEF Entered
  <2> QED
    BY <2>1, <2>2, <2>3
<1>7. CASE /\ ~ Found(i, t) /\ i \in 1..n - 1 /\ cursor' = cursor
           /\ times' = [Moved(times, i) EXCEPT ![Physical(i - 1)] = t]
           /\ values' = [Moved(values, i) EXCEPT ![Physical(i - 1)] = v]
  <2>1. i - 1 \in Slots /\ i \in Slots /\ Time(i - 1) < t /\ Time(i) # t /\ t < Time(i)
    BY <1>1, <1>2, <1>7 DEF Found
  <2>2. RingOK' /\ Keeps(t, v) /\ \A k \in Slots :
              /\ Time(k)' = IF k < i - 1 THEN Time(k + 1) ELSE IF k = i - 1 THEN t ELSE Time(k)
              /\ Value(k)' = IF k < i - 1 THEN Value(k + 1) ELSE IF k = i - 1 THEN v ELSE Value(k)
    BY <1>7, ShiftPlaces
  <2>3. Entered(i - 1, t, v)
    BY <1>2, <2>1, <2>2 DEF Entered
  <2> QED
    BY <2>1, <2>2, <2>3
<1> QED
  BY <1>3, <1>4, <1>5, <1>6, <1>7

-----------------------------------------------------------------------------
(* Types.                                                                  *)

LEMMA Constants ==
  /\ AnyTime \subseteq Int /\ Never \in AnyTime /\ Times \subseteq AnyTime
  /\ \A s \in LoadedTimes : s \subseteq AnyTime
  /\ \A c \in Channels : /\ c.n \in Nat /\ c.n > 0 /\ c.delay \in Nat /\ c.period \in Nat /\ c.interp \in 0..2
                         /\ c.sensor \in BOOLEAN /\ c.evals \in {1, 4} /\ c.lists \in {1, 2}
  /\ MaxTime \in Nat /\ MaxExtra \in Nat /\ MaxRuns \in Nat /\ MaxRuns > 0
  /\ \A r \in 0..MaxRuns, t \in AnyTime, e \in 0..5 + MaxExtra : <<r, t, e>> \in AnyValue
<1>1. \A s \in LoadedTimes : s \subseteq Int
  BY TimesAssumption
<1>2. AnyTime \subseteq Int /\ Never \in AnyTime /\ Times \subseteq AnyTime /\ \A s \in LoadedTimes : s \subseteq AnyTime
  BY <1>1, TimesAssumption DEF AnyTime, Times
<1>3. \A c \in Channels : /\ c.n \in Nat /\ c.n > 0 /\ c.delay \in Nat /\ c.period \in Nat /\ c.interp \in 0..2
                          /\ c.sensor \in BOOLEAN /\ c.evals \in {1, 4} /\ c.lists \in {1, 2}
  BY ChannelsAssumption DEF Channel, ZeroOrderHold, Cubic
<1>4. MaxTime \in Nat /\ MaxExtra \in Nat /\ MaxRuns \in Nat /\ MaxRuns > 0
  BY TimesAssumption
<1>5. \A r \in 0..MaxRuns, t \in AnyTime, e \in 0..5 + MaxExtra : <<r, t, e>> \in AnyValue
  BY DEF AnyValue, Echo
<1> QED
  BY <1>2, <1>3, <1>4, <1>5

LEMMA TypedRing ==
  ASSUME TypeOK
  PROVE  /\ RingOK /\ \A k \in Slots : Time(k) \in AnyTime /\ Value(k) \in AnyValue
         /\ time \in Int /\ time \in AnyTime /\ (evals < channel.evals + MaxExtra => Fresh \in AnyValue /\ Stores \in AnyValue)
<1>1. n \in Nat /\ n > 0
  BY Constants DEF TypeOK, n
<1>2. RingOK
  BY <1>1, Constants DEF RingOK, TypeOK
<1>3. \A k \in Slots : Time(k) \in AnyTime /\ Value(k) \in AnyValue
  BY <1>2, RingIndex DEF Time, Value, TypeOK
<1>4. time \in Int /\ time \in AnyTime
  BY Constants DEF TypeOK
<1>5. evals < channel.evals + MaxExtra => Fresh \in AnyValue
  BY <1>4, Constants, SMTT(30) DEF TypeOK, Fresh
<1>6. <<run, time, Echo>> \in AnyValue
  <2>1. run \in 0..MaxRuns /\ Echo \in 0..5 + MaxExtra
    BY Constants DEF TypeOK, Echo
  <2> QED
    BY <1>4, <2>1, Constants
<1> QED
  BY <1>2, <1>3, <1>4, <1>5, <1>6 DEF Stores

Readings == {q \in Seq(AnyValue) : Len(q) <= 4}

LEMMA ShortTuples ==
  /\ <<>> \in Readings
  /\ \A a \in AnyValue : <<a>> \in Readings
  /\ \A a, b \in AnyValue : <<a, b>> \in Readings
  /\ \A a, b, c \in AnyValue : <<a, b, c>> \in Readings
  /\ \A a, b, c, d \in AnyValue : <<a, b, c, d>> \in Readings
BY DEF Readings

LEMMA Joined ==
  ASSUME NEW A \in Seq(AnyValue), NEW B \in Seq(AnyValue), NEW C \in Seq(AnyValue)
  PROVE  A \o B \o C \in Seq(AnyValue) /\ Len(A \o B \o C) = Len(A) + Len(B) + Len(C)
<1>1. A \o B \in Seq(AnyValue) /\ Len(A \o B) = Len(A) + Len(B)
  OBVIOUS
<1> DEFINE D == A \o B
<1>2. D \in Seq(AnyValue)
  BY <1>1
<1> HIDE DEF D
<1>3. D \o C \in Seq(AnyValue) /\ Len(D \o C) = Len(D) + Len(C)
  BY <1>2
<1> QED
  BY <1>1, <1>3 DEF D

RingTyped == channel \in Channels /\ RingOK /\ values \in [Slots -> AnyValue]

AnyRead == \A t \in Int : Read(t) \in Readings

LEMMA ReadTyped == RingTyped => AnyRead
<1> SUFFICES ASSUME RingTyped, NEW t \in Int PROVE Read(t) \in Readings
  BY DEF AnyRead
<1> DEFINE i == FindIndex(t)
<1>1. /\ RingOK /\ \A k \in Slots : Time(k) \in Int /\ Value(k) \in AnyValue
      /\ n \in Nat /\ n > 0 /\ Slots = 0..n - 1
  BY RingIndex DEF RingTyped, RingOK, Slots, Time, Value
<1>2. /\ i \in 0..n /\ (i = 0 => t <= Time(0)) /\ (i # 0 => Time(i - 1) < t) /\ (i # n => t <= Time(i))
  BY <1>1, FindPlace
<1>3. CASE t <= Time(0) \/ t >= Time(n - 1)
  BY <1>1, <1>3, ShortTuples DEF Read
<1>4. CASE ~ (t <= Time(0)) /\ ~ (t >= Time(n - 1))
  <2>1. i \in 1..n - 1
    BY <1>1, <1>2, <1>4
  <2>2. Read(t) = IF Time(i) = t THEN <<Value(i)>> ELSE Between(i)
    BY <1>4 DEF Read
  <2> HIDE DEF i
  <2>3. i \in Slots /\ i - 1 \in Slots /\ (i > 1 => i - 2 \in Slots) /\ (i < n - 1 => i + 1 \in Slots)
    BY <1>1, <2>1
  <2>4. Spline(i) \in Readings
    <3> DEFINE A == IF i > 1 THEN <<Value(i - 2)>> ELSE <<>>
               B == <<Value(i - 1), Value(i)>>
               C == IF i < n - 1 THEN <<Value(i + 1)>> ELSE <<>>
    <3>1. A \in Seq(AnyValue) /\ Len(A) \in 0..1
      BY <1>1, <2>3
    <3>2. B \in Seq(AnyValue) /\ Len(B) = 2
      BY <1>1, <2>3
    <3>3. C \in Seq(AnyValue) /\ Len(C) \in 0..1
      BY <1>1, <2>3
    <3>4. Spline(i) = A \o B \o C
      BY DEF Spline
    <3> HIDE DEF A, B, C
    <3>5. A \o B \o C \in Seq(AnyValue) /\ Len(A \o B \o C) = Len(A) + Len(B) + Len(C)
      BY <3>1, <3>2, <3>3, Joined
    <3> QED
      BY <3>1, <3>2, <3>3, <3>4, <3>5 DEF Readings
  <2>5. channel.interp \in {0, 1, 2}
    BY Constants DEF RingTyped
  <2>6. Between(i) \in Readings
    BY <1>1, <2>3, <2>4, <2>5, ShortTuples DEF Between, ZeroOrderHold, Linear, Cubic
  <2> QED
    BY <1>1, <2>2, <2>3, <2>6, ShortTuples
<1> QED
  BY <1>3, <1>4

LEMMA OrderKept ==
  ASSUME RingOK, RingOK', channel' = channel, TimesInOrder, NEW t \in Int, NEW v,
         (\E i \in Slots : Replaced(i, t, v)) \/ (\E j \in Slots : Entered(j, t, v))
  PROVE  TimesInOrder'
<1>1. Slots' = Slots /\ n \in Nat /\ Slots = 0..n - 1 /\ \A k \in Slots : Time(k) \in Int
  BY RingIndex DEF Slots, n, RingOK
<1>2. SUFFICES ASSUME NEW a \in Slots, NEW b \in Slots, a < b PROVE Time(a)' <= Time(b)'
  BY <1>1 DEF TimesInOrder
<1>3. CASE \E i \in Slots : Replaced(i, t, v)
  BY <1>2, <1>3 DEF Replaced, TimesInOrder
<1>4. ASSUME NEW j \in Slots, Entered(j, t, v) PROVE Time(a)' <= Time(b)'
  <2>1. \A k \in Slots : Time(k)' = IF k < j THEN Time(k + 1) ELSE IF k = j THEN t ELSE Time(k)
    BY <1>4 DEF Entered
  <2>2. (j > 0 => Time(j) < t) /\ (j < n - 1 => t < Time(j + 1))
    BY <1>4 DEF Entered
  <2>3. CASE b < j
    <3>1. a + 1 \in Slots /\ b + 1 \in Slots /\ a + 1 < b + 1
      BY <1>1, <1>2, <2>3
    <3>2. Time(a)' = Time(a + 1) /\ Time(b)' = Time(b + 1)
      BY <1>1, <1>2, <2>1, <2>3
    <3> QED
      BY <3>1, <3>2 DEF TimesInOrder
  <2>4. CASE b = j
    <3>1. a + 1 \in Slots /\ (a + 1 < j \/ a + 1 = j) /\ j > 0
      BY <1>1, <1>2, <2>4
    <3>2. Time(a)' = Time(a + 1) /\ Time(b)' = t /\ ~ (j < j)
      BY <1>1, <1>2, <2>1, <2>4
    <3>3. Time(a + 1) \in Int /\ Time(j) \in Int /\ Time(j) < t
      BY <1>1, <2>2, <3>1
    <3>4. Time(a + 1) <= Time(j)
      <4>1. CASE a + 1 = j
        BY <3>3, <4>1
      <4>2. CASE a + 1 < j
        BY <3>1, <4>2 DEF TimesInOrder
      <4> QED
        BY <3>1, <4>1, <4>2
    <3> QED
      BY <3>2, <3>3, <3>4
  <2>5. CASE b > j
    <3>1. Time(b)' = Time(b) /\ j + 1 \in Slots /\ j < n - 1
      BY <1>1, <2>1, <2>5
    <3>2. t < Time(b)
      <4>1. j + 1 = b \/ j + 1 < b
        BY <1>1, <2>5
      <4>2. Time(j + 1) <= Time(b)
        BY <1>1, <3>1, <4>1 DEF TimesInOrder
      <4> QED
        BY <1>1, <2>2, <3>1, <4>2
    <3>3. CASE a < j
      <4>1. a + 1 \in Slots /\ Time(a)' = Time(a + 1) /\ a + 1 < b
        BY <1>1, <1>2, <2>1, <2>5, <3>3
      <4> QED
        BY <3>1, <4>1 DEF TimesInOrder
    <3>4. CASE a = j
      BY <1>1, <2>1, <3>1, <3>2, <3>4
    <3>5. CASE a > j
      BY <1>1, <1>2, <2>1, <3>1, <3>5 DEF TimesInOrder
    <3> QED
      BY <1>1, <3>3, <3>4, <3>5
  <2> QED
    BY <1>1, <2>3, <2>4, <2>5
<1> QED
  BY <1>3, <1>4

LEMMA InsertTyped ==
  ASSUME TypeOK, TimesInOrder, channel' = channel, NEW v \in AnyValue, Insert(time, v)
  PROVE  /\ RingOK' /\ TimesInOrder' /\ cursor' \in Slots'
         /\ times' \in [Slots' -> AnyTime] /\ values' \in [Slots' -> AnyValue]
<1>1. RingOK /\ time \in Int /\ time \in AnyTime
  BY TypedRing
<1>2. /\ RingOK' /\ Keeps(time, v)
      /\ (\E i \in Slots : Replaced(i, time, v)) \/ (\E j \in Slots : Entered(j, time, v))
  BY <1>1, InsertPlaces
<1>3. TimesInOrder'
  BY <1>1, <1>2, OrderKept
<1>4. Slots' = Slots
  BY DEF Slots, n
<1>5. /\ \A p \in Slots : times[p] \in AnyTime
      /\ \A p \in Slots : values[p] \in AnyValue
  BY DEF TypeOK
<1>6. \A p \in Slots : times'[p] \in AnyTime
  BY <1>1, <1>2, <1>5 DEF Keeps
<1>7. \A p \in Slots : values'[p] \in AnyValue
  BY <1>2, <1>5 DEF Keeps
<1>8. times' = [p \in Slots |-> times'[p]] /\ values' = [p \in Slots |-> values'[p]] /\ cursor' \in Slots
  BY <1>2, <1>4 DEF RingOK
<1>9. times' \in [Slots -> AnyTime]
  BY <1>6, <1>8
<1>10. values' \in [Slots -> AnyValue]
  BY <1>7, <1>8
<1> QED
  BY <1>2, <1>3, <1>4, <1>8, <1>9, <1>10

LEMMA LoggedTyped ==
  ASSUME log \subseteq [t : AnyTime, v : AnyValue], IsFiniteSet(log), NEW t \in AnyTime, NEW v \in AnyValue
  PROVE  Logged(t, v) \subseteq [t : AnyTime, v : AnyValue] /\ IsFiniteSet(Logged(t, v))
<1> DEFINE older == {s \in log : s.t # t}  new == [t |-> t, v |-> v]
<1>1. IsFiniteSet(older) /\ older \subseteq [t : AnyTime, v : AnyValue]
  BY FS_Subset
<1>2. new \in [t : AnyTime, v : AnyValue]
  OBVIOUS
<1>3. Logged(t, v) = older \cup {new}
  BY DEF Logged
<1> HIDE DEF older, new
<1>4. IsFiniteSet(older \cup {new})
  BY <1>1, FS_AddElement
<1> QED
  BY <1>1, <1>2, <1>3, <1>4

\* The last element of a new ring is the newest.
LEMMA LoadedRing ==
  ASSUME NEW m \in Nat, m > 0, NEW k \in 0..m - 1
  PROVE  ((m - 1) + 1 + k) % m = k
<1>1. m - 1 \in 0..m - 1
  OBVIOUS
<1> DEFINE c == m - 1
<1>2. c \in 0..m - 1
  BY <1>1
<1> HIDE DEF c
<1>3. (c + 1 + k) % m = IF c + 1 + k < m THEN c + 1 + k ELSE c + 1 + k - m
  BY <1>2, Wrap
<1> QED
  BY <1>3 DEF c

LEMMA InitRing == Init => RingInv
<1> SUFFICES ASSUME Init PROVE RingInv
  OBVIOUS
<1>1. n \in Nat /\ n > 0 /\ channel \in Channels
  BY Constants DEF Init, n
<1>2. 0 \in Times /\ 0 \in AnyTime /\ <<0, 0, 0>> \in AnyValue
  <2>1. 0 \in Times /\ 0 \in AnyTime
    BY Constants DEF Times
  <2> QED
    BY <2>1, Constants
<1>3. evals \in 0..channel.evals + MaxExtra /\ run \in 1..MaxRuns
  BY <1>1, Constants DEF Init
<1>4. times \in [Slots -> AnyTime] /\ values \in [Slots -> AnyValue] /\ cursor \in Slots
  BY <1>1, <1>2 DEF Init, Slots
<1>5. reading \in Seq(AnyValue) /\ Len(reading) <= 4
  BY DEF Init
<1>6. log \subseteq [t : AnyTime, v : AnyValue]
  BY <1>2 DEF Init
<1>7. TypeOK
  BY <1>1, <1>2, <1>3, <1>4, <1>5, <1>6 DEF TypeOK, Init
<1>8. \A k \in Slots : Time(k) = 0
  <2>1. RingOK
    BY <1>7, TypedRing
  <2> QED
    BY <2>1, RingIndex DEF Time, Init
<1>9. IsFiniteSet(log)
  BY FS_Singleton DEF Init
<1> QED
  BY <1>7, <1>8, <1>9 DEF RingInv, TimesInOrder

LEMMA InitHistoryRing ==
  ASSUME RingInv, InitHistory
  PROVE  /\ RingInv' /\ \A k \in Slots : Physical(k)' = k /\ Time(k)' = times'[k] /\ Value(k)' = <<run, times'[k], 0>>
         /\ \A j, k \in Slots : j < k => (times'[j] < times'[k] \/ (times'[j] = Never /\ times'[k] = Never))
         /\ Slots' = Slots /\ RingOK
<1>1. /\ TypeOK /\ channel' = channel /\ n' = n /\ Slots' = Slots /\ RingOK
      /\ n \in Nat /\ n > 0 /\ Slots = 0..n - 1
  BY TypedRing DEF RingInv, InitHistory, n, Slots, RingOK
<1>2. times' \in [Slots -> AnyTime]
  <2>1. CASE times' = [p \in Slots |-> Never]
    BY <2>1, Constants
  <2>2. ASSUME NEW s \in LoadedTimes, times' \in [Slots -> s] PROVE times' \in [Slots -> AnyTime]
    BY <2>2, Constants
  <2> QED
    BY <2>1, <2>2 DEF InitHistory
<1>3. \A j, k \in Slots : j < k => (times'[j] < times'[k] \/ (times'[j] = Never /\ times'[k] = Never))
  BY DEF InitHistory
<1>4. values' = [p \in Slots |-> <<run, times'[p], 0>>]
  BY DEF InitHistory
<1>5. values' \in [Slots -> AnyValue]
  <2>1. ASSUME NEW p \in Slots PROVE <<run, times'[p], 0>> \in AnyValue
    <3>1. run \in 0..MaxRuns /\ times'[p] \in AnyTime /\ 0 \in 0..5 + MaxExtra
      BY <1>1, <1>2, Constants DEF TypeOK
    <3> QED
      BY <3>1, Constants
  <2> QED
    BY <1>4, <2>1
<1>6. cursor' = n - 1 /\ cursor' \in Slots
  BY <1>1 DEF InitHistory
<1>7. \A k \in Slots : Physical(k)' = k
  BY <1>1, <1>6, LoadedRing DEF Physical
<1>8. \A k \in Slots : Time(k)' = times'[k] /\ Value(k)' = values'[k]
  BY <1>7 DEF Time, Value
<1>9. user' \in Int
  BY <1>1, TimesAssumption, Constants DEF InitHistory, TypeOK
<1>10. log' = {[t |-> times'[p], v |-> values'[p]] : p \in Slots}
  BY DEF InitHistory
<1>11. log' \subseteq [t : AnyTime, v : AnyValue]
  BY <1>2, <1>5, <1>10
<1>12. IsFiniteSet(log')
  <2>1. IsFiniteSet(Slots)
    BY <1>1, FS_Interval
  <2> DEFINE f == [p \in Slots |-> [t |-> times'[p], v |-> values'[p]]]
  <2>2. f \in Surjection(Slots, log')
    BY <1>10 DEF Surjection
  <2> QED
    BY <2>1, <2>2, FS_Surjection
<1>13. TypeOK'
  BY <1>1, <1>2, <1>5, <1>6, <1>9, <1>11 DEF TypeOK, InitHistory
<1>14. TimesInOrder'
  <2>1. \A k \in Slots : times'[k] \in Int
    BY <1>2, Constants
  <2>2. \A j, k \in Slots : j < k => times'[j] <= times'[k]
    BY <1>3, <2>1
  <2> QED
    BY <1>1, <1>8, <2>2 DEF TimesInOrder
<1> QED
  BY <1>1, <1>3, <1>4, <1>7, <1>8, <1>12, <1>13, <1>14 DEF RingInv

LEMMA ForwardRing ==
  ASSUME RingInv, Forward
  PROVE  RingInv'
<1>1. /\ TypeOK /\ channel' = channel /\ n' = n /\ Slots' = Slots /\ RingOK /\ time' = time /\ run' = run
      /\ origin' = origin /\ phase' = phase /\ time \in Int /\ time \in AnyTime
      /\ evals \in Nat /\ evals < channel.evals + MaxExtra /\ evals' = evals + 1
      /\ channel \in Channels /\ channel.evals \in {1, 4} /\ MaxExtra \in Nat
  BY TypedRing, Constants DEF RingInv, Forward, n, Slots, TypeOK
<1>2. evals' \in 0..channel.evals + MaxExtra
  BY <1>1
<1>3. Fresh \in AnyValue /\ Stores \in AnyValue /\ channel.delay \in Nat
  BY <1>1, TypedRing, Constants
<1>4. \/ UNCHANGED <<user, buffer, log>>
      \/ /\ user' \in {user, FollowingUser(user), FollowingUser(FollowingUser(user))}
         /\ Insert(time, Stores) /\ log' = Logged(time, Stores)
  BY DEF Forward, ReadCtrl, ApplySensorDelay
<1>5. reading' \in Seq(AnyValue) /\ Len(reading') <= 4
  <2>1. AnyRead
    BY <1>1, ReadTyped DEF RingTyped, TypeOK
  <2>2. AnyRead'
    <3>1. RingOK' /\ values' \in [Slots' -> AnyValue]
      <4>1. CASE Insert(time, Stores)
        BY <1>1, <1>3, <4>1, InsertTyped DEF RingInv
      <4>2. CASE UNCHANGED <<user, buffer, log>>
        BY <1>1, <4>2 DEF RingOK, TypeOK, buffer
      <4> QED
        BY <1>4, <4>1, <4>2
    <3>2. RingTyped'
      BY <1>1, <3>1 DEF RingTyped
    <3>3. RingTyped' => AnyRead'
      BY ReadTyped, PTL
    <3> QED
      BY <3>2, <3>3
  <2>3. time - channel.delay \in Int
    BY <1>1, <1>3
  <2>4. Read(time - channel.delay) \in Readings /\ Read(time) \in Readings /\ <<Fresh>> \in Readings
    BY <1>1, <1>3, <2>1, <2>3, ShortTuples DEF AnyRead
  <2>5. Read(time - channel.delay)' \in Readings
    BY <1>1, <2>2, <2>3 DEF AnyRead
  <2>6. ASSUME NEW q \in Readings PROVE Before(q) \in Readings
    <3>1. q \in Seq(AnyValue) /\ Len(q) <= 4 /\ DOMAIN q = 1..Len(q) /\ Len(q) \in Nat
      BY <2>6 DEF Readings
    <3>2. Before(q) = [k \in 1..Len(q) |-> IF q[k] = <<run, time, Echo>> THEN Fresh ELSE q[k]]
      BY <3>1 DEF Before
    <3>3. \A k \in 1..Len(q) : (IF q[k] = <<run, time, Echo>> THEN Fresh ELSE q[k]) \in AnyValue
      BY <1>3, <3>1
    <3>4. Before(q) \in Seq(AnyValue) /\ Len(Before(q)) = Len(q)
      BY <3>1, <3>2, <3>3
    <3> QED
      BY <3>1, <3>4 DEF Readings
  <2>7. reading' \in Readings
    <3>1. Before(Read(time - channel.delay)') \in Readings
      BY <2>5, <2>6
    <3>2. Delivered \in Readings
      BY <2>4 DEF Delivered
    <3>3. CASE ReadCtrl
      BY <2>4, <3>3 DEF ReadCtrl
    <3>4. CASE ApplySensorDelay
      BY <3>1, <3>2, <3>4 DEF ApplySensorDelay
    <3> QED
      BY <3>3, <3>4 DEF Forward
  <2> QED
    BY <2>7 DEF Readings
<1>6. CASE UNCHANGED <<user, buffer, log>>
  <2>1. TimesInOrder'
    <3>1. \A k : Time(k)' = Time(k)
      BY <1>1, <1>6 DEF Time, Physical, buffer
    <3> QED
      BY <1>1, <3>1 DEF RingInv, TimesInOrder
  <2>2. /\ user' = user /\ cursor' = cursor /\ times' = times /\ values' = values /\ log' = log
    BY <1>6 DEF buffer
  <2>3. TypeOK' /\ IsFiniteSet(log')
    BY <1>1, <1>2, <1>5, <2>2 DEF TypeOK, RingInv
  <2> QED
    BY <2>1, <2>3 DEF RingInv
<1>7. CASE /\ user' \in {user, FollowingUser(user), FollowingUser(FollowingUser(user))}
           /\ Insert(time, Stores) /\ log' = Logged(time, Stores)
  <2>1. /\ RingOK' /\ TimesInOrder' /\ cursor' \in Slots'
        /\ times' \in [Slots' -> AnyTime] /\ values' \in [Slots' -> AnyValue]
    BY <1>1, <1>3, <1>7, InsertTyped DEF RingInv
  <2>2. log' \subseteq [t : AnyTime, v : AnyValue] /\ IsFiniteSet(log')
    BY <1>1, <1>3, <1>7, LoggedTyped DEF TypeOK, RingInv
  <2>3. user' \in Int
    BY <1>1, <1>7, Constants DEF FollowingUser, TypeOK
  <2>4. TypeOK'
    BY <1>1, <1>2, <1>5, <2>1, <2>2, <2>3 DEF TypeOK
  <2> QED
    BY <2>1, <2>2, <2>4 DEF RingInv
<1> QED
  BY <1>4, <1>6, <1>7

LEMMA AdvanceRing ==
  ASSUME RingInv, Advance
  PROVE  RingInv'
<1>1. /\ TypeOK /\ channel' = channel /\ n' = n /\ Slots' = Slots /\ RingOK /\ run' = run
      /\ origin' = origin /\ phase' = phase /\ time \in Int /\ time \in AnyTime /\ evals' = 0 /\ reading' = reading /\ user' = user
      /\ channel \in Channels /\ channel.evals \in {1, 4} /\ MaxExtra \in Nat
  BY TypedRing, Constants DEF RingInv, Advance, n, Slots, TypeOK
<1>2. time' \in Times /\ evals' \in 0..channel.evals + MaxExtra
  BY <1>1, Constants DEF Advance, Step, Times, TypeOK
<1>3. <<run, time, 1>> \in AnyValue
  <2>1. run \in 0..MaxRuns /\ 1 \in 0..5 + MaxExtra
    BY <1>1, Constants DEF TypeOK
  <2> QED
    BY <1>1, <2>1, Constants
<1>4. CASE UNCHANGED <<buffer, log>>
  <2>1. TimesInOrder'
    <3>1. \A k : Time(k)' = Time(k)
      BY <1>1, <1>4 DEF Time, Physical, buffer
    <3> QED
      BY <1>1, <3>1 DEF RingInv, TimesInOrder
  <2>2. /\ cursor' = cursor /\ times' = times /\ values' = values /\ log' = log
    BY <1>4 DEF buffer
  <2>3. TypeOK' /\ IsFiniteSet(log')
    BY <1>1, <1>2, <2>2 DEF TypeOK, RingInv
  <2> QED
    BY <2>1, <2>3 DEF RingInv
<1>5. CASE Insert(time, <<run, time, 1>>) /\ log' = Logged(time, <<run, time, 1>>)
  <2>1. /\ RingOK' /\ TimesInOrder' /\ cursor' \in Slots'
        /\ times' \in [Slots' -> AnyTime] /\ values' \in [Slots' -> AnyValue]
    BY <1>1, <1>3, <1>5, InsertTyped DEF RingInv
  <2>2. log' \subseteq [t : AnyTime, v : AnyValue] /\ IsFiniteSet(log')
    BY <1>1, <1>3, <1>5, LoggedTyped DEF TypeOK, RingInv
  <2>4. TypeOK'
    BY <1>1, <1>2, <2>1, <2>2 DEF TypeOK
  <2> QED
    BY <2>1, <2>2, <2>4 DEF RingInv
<1> QED
  BY <1>4, <1>5 DEF Advance

LEMMA ResetRing ==
  ASSUME RingInv, Reset
  PROVE  RingInv'
<1>1. /\ channel' = channel /\ Slots' = Slots /\ user' = user /\ cursor' = cursor /\ times' = times
      /\ values' = values /\ reading' = reading /\ origin' = origin /\ phase' = phase /\ evals' = 0 /\ time' = 0
  BY DEF Reset, buffer, Slots, n
<1>2. time' \in Times /\ run' \in 1..MaxRuns /\ evals' \in 0..channel.evals + MaxExtra
  <2>1. channel \in Channels /\ channel.evals \in {1, 4} /\ MaxExtra \in Nat /\ MaxTime \in Nat /\ MaxRuns \in Nat
    BY Constants DEF RingInv, TypeOK
  <2>2. run \in 1..MaxRuns /\ run < MaxRuns /\ run' = run + 1
    BY DEF RingInv, TypeOK, Reset
  <2> QED
    BY <1>1, <2>1, <2>2 DEF Times
<1>3. log' \subseteq log /\ IsFiniteSet(log')
  BY FS_Subset DEF Reset, RingInv
<1>4. TypeOK'
  BY <1>1, <1>2, <1>3 DEF RingInv, TypeOK
<1>5. TimesInOrder'
  BY <1>1 DEF RingInv, TimesInOrder, Time, Physical, n
<1> QED
  BY <1>3, <1>4, <1>5 DEF RingInv

LEMMA StutterRing ==
  ASSUME RingInv, UNCHANGED vars
  PROVE  RingInv'
BY DEF RingInv, TypeOK, TimesInOrder, Time, Physical, Slots, n, vars, buffer

LEMMA RingStep == RingInv /\ [Next]_vars => RingInv'
BY InitHistoryRing, ForwardRing, AdvanceRing, ResetRing, StutterRing DEF Next

THEOREM RingInductive == Spec => []RingInv
BY InitRing, RingStep, PTL DEF Spec

THEOREM HistoryTyping == Spec => []TypeOK
<1>1. RingInv => TypeOK
  BY DEF RingInv
<1> QED
  BY <1>1, RingInductive, PTL

THEOREM SearchExact == Spec => []BisectionExact
<1>1. RingInv => BisectionExact
  <2> SUFFICES ASSUME RingInv, NEW t \in Never..MaxTime, t > Time(0), t <= Time(n - 1)
               PROVE  Bisect(t) \in 1..n - 1 /\ Time(Bisect(t) - 1) < t /\ t <= Time(Bisect(t))
    BY DEF BisectionExact
  <2>1. RingOK /\ t \in Int /\ Time(0) \in Int /\ Time(n - 1) \in Int
    BY TypedRing, RingIndex DEF RingInv
  <2>2. Time(0) < t
    BY <2>1
  <2> QED
    BY <2>1, <2>2, BisectPlace
<1> QED
  BY <1>1, RingInductive, PTL

-----------------------------------------------------------------------------
(* The ring is a queue.                                                    *)

LEMMA PlacedSeq ==
  ASSUME NEW S, NEW w \in Seq(S), w # <<>>, NEW j \in 0..Len(w) - 1, NEW s \in S,
         NEW u \in Seq(S), Len(u) = Len(w),
         \A k \in 1..Len(w) : u[k] = IF k <= j THEN w[k + 1] ELSE IF k = j + 1 THEN s ELSE w[k]
  PROVE  /\ Len(Tail(w)) = Len(w) - 1 /\ \A k \in 1..Len(w) - 1 : Tail(w)[k] = w[k + 1]
         /\ u = SubSeq(Tail(w), 1, j) \o <<s>> \o SubSeq(Tail(w), j + 1, Len(Tail(w)))
<1> DEFINE m == Len(w)  x == Tail(w)  A == SubSeq(x, 1, j)  B == <<s>>  C == SubSeq(x, j + 1, Len(x))
           D == A \o B  E == D \o C
<1>1. m \in Nat /\ m > 0 /\ j \in 0..m - 1
  BY EmptySeq
<1>2. x \in Seq(S) /\ Len(x) = m - 1 /\ \A k \in 1..m - 1 : x[k] = w[k + 1]
  BY HeadTailProperties
<1>3. \A k \in 1..m - 1 : x[k] \in S
  BY <1>1, <1>2, ElementOfSeq
<1> HIDE DEF m, x
<1>4. A \in Seq(S) /\ Len(A) = j /\ \A k \in 1..j : A[k] = x[k]
  <2>1. \A k \in 1..j : x[k] \in S
    BY <1>1, <1>3
  <2>2. /\ A \in Seq(S) /\ Len(A) = IF 1 <= j THEN j - 1 + 1 ELSE 0
        /\ \A i \in 1..j - 1 + 1 : A[i] = x[1 + i - 1]
    BY <1>1, <2>1, SubSeqProperties
  <2> HIDE DEF A
  <2> QED
    BY <1>1, <2>2
<1>5. C \in Seq(S) /\ Len(C) = m - 1 - j /\ \A k \in 1..m - 1 - j : C[k] = x[j + k]
  <2>1. \A k \in j + 1..Len(x) : x[k] \in S
    BY <1>1, <1>2, <1>3
  <2>2. j + 1 \in Int /\ Len(x) \in Int
    BY <1>1, <1>2
  <2>3. /\ C \in Seq(S) /\ Len(C) = IF j + 1 <= Len(x) THEN Len(x) - (j + 1) + 1 ELSE 0
        /\ \A i \in 1..Len(x) - (j + 1) + 1 : C[i] = x[(j + 1) + i - 1]
    BY <2>1, <2>2, SubSeqProperties
  <2> HIDE DEF C
  <2> QED
    BY <1>1, <1>2, <2>3
<1>6. B \in Seq(S) /\ Len(B) = 1 /\ B[1] = s
  OBVIOUS
<1> HIDE DEF A, B, C
<1>7. D \in Seq(S) /\ Len(D) = j + 1 /\ \A k \in 1..j + 1 : D[k] = IF k <= j THEN x[k] ELSE s
  <2>0. A \in Seq(S) /\ B \in Seq(S)
    BY <1>4, <1>6
  <2>1. /\ D \in Seq(S) /\ Len(D) = Len(A) + Len(B)
        /\ \A i \in 1..Len(A) + Len(B) : D[i] = IF i <= Len(A) THEN A[i] ELSE B[i - Len(A)]
    BY <2>0, ConcatProperties
  <2> HIDE DEF D
  <2> QED
    BY <1>1, <1>4, <1>6, <2>1
<1> HIDE DEF D
<1>8. E \in Seq(S) /\ Len(E) = m /\ \A k \in 1..m : E[k] = IF k <= j + 1 THEN D[k] ELSE x[k - 1]
  <2>0. D \in Seq(S) /\ C \in Seq(S)
    BY <1>5, <1>7
  <2>1. /\ E \in Seq(S) /\ Len(E) = Len(D) + Len(C)
        /\ \A i \in 1..Len(D) + Len(C) : E[i] = IF i <= Len(D) THEN D[i] ELSE C[i - Len(D)]
    BY <2>0, ConcatProperties
  <2> HIDE DEF E
  <2>2. Len(E) = m
    BY <1>1, <1>5, <1>7, <2>1
  <2>3. ASSUME NEW k \in 1..m, ~ (k <= j + 1) PROVE E[k] = x[k - 1]
    <3>1. k - (j + 1) \in 1..m - 1 - j /\ j + (k - (j + 1)) = k - 1
      BY <1>1, <2>3
    <3>2. E[k] = C[k - (j + 1)]
      BY <1>1, <1>5, <1>7, <2>1, <2>3
    <3>3. C[k - (j + 1)] = x[j + (k - (j + 1))]
      BY <1>5, <3>1
    <3> QED
      BY <3>1, <3>2, <3>3
  <2>4. ASSUME NEW k \in 1..m, k <= j + 1 PROVE E[k] = D[k]
    BY <1>1, <1>5, <1>7, <2>1, <2>4, SMTT(30)
  <2> QED
    BY <2>1, <2>2, <2>3, <2>4
<1>9. \A k \in 1..m : u[k] = E[k]
  <2> SUFFICES ASSUME NEW k \in 1..m PROVE u[k] = E[k]
    OBVIOUS
  <2>1. u[k] = IF k <= j THEN w[k + 1] ELSE IF k = j + 1 THEN s ELSE w[k]
    BY DEF m
  <2> HIDE DEF E
  <2>2. CASE k <= j
    <3>1. k \in 1..m - 1 /\ k \in 1..j + 1 /\ k <= j + 1
      BY <1>1, <2>2
    <3> QED
      BY <1>2, <1>7, <1>8, <2>1, <2>2, <3>1
  <2>3. CASE k = j + 1
    <3>1. k \in 1..j + 1 /\ ~ (k <= j) /\ k <= j + 1
      BY <1>1, <2>3
    <3> QED
      BY <1>7, <1>8, <2>1, <2>3, <3>1
  <2>4. CASE k > j + 1
    <3>1. k - 1 \in 1..m - 1 /\ ~ (k <= j) /\ k # j + 1 /\ ~ (k <= j + 1) /\ (k - 1) + 1 = k
      BY <1>1, <2>4
    <3>2. x[k - 1] = w[k]
      BY <1>2, <3>1
    <3> QED
      BY <1>8, <2>1, <3>1, <3>2
  <2> QED
    BY <1>1, <2>2, <2>3, <2>4
<1>10. u = E
  <2> HIDE DEF E
  <2>1. Len(u) = Len(E)
    BY <1>8 DEF m
  <2>2. \A k \in 1..Len(u) : u[k] = E[k]
    BY <1>9 DEF m
  <2> QED
    BY <1>8, <2>1, <2>2, SeqEqual
<1> QED
  BY <1>2, <1>10 DEF A, B, C, D, m, x

Sample == [t : AnyTime, v : AnyValue]

LEMMA WindowSeq ==
  ASSUME TypeOK
  PROVE  /\ Window \in [1..n -> Sample] /\ Window \in Seq(Sample) /\ Len(Window) = n /\ Window # <<>>
         /\ \A k \in 1..n : k - 1 \in Slots /\ Window[k].t = Time(k - 1) /\ Window[k].v = Value(k - 1)
                            /\ Window[k] = [t |-> Time(k - 1), v |-> Value(k - 1)]
<1>1. /\ n \in Nat /\ n > 0 /\ Slots = 0..n - 1
      /\ \A k \in Slots : Time(k) \in AnyTime /\ Value(k) \in AnyValue
  BY TypedRing DEF RingOK, Slots
<1>2. \A k \in 1..n : k - 1 \in Slots
  BY <1>1
<1>3. \A k \in 1..n : Window[k] = [t |-> Time(k - 1), v |-> Value(k - 1)]
  BY DEF Window
<1>4. Window \in [1..n -> Sample]
  BY <1>1, <1>2 DEF Window, Sample
<1>5. Window \in Seq(Sample) /\ Len(Window) = n
  BY <1>1, <1>4
<1> QED
  BY <1>1, <1>2, <1>3, <1>4, <1>5

WindowOK ==
  /\ Window \in Seq(Sample) /\ Len(Window) = n /\ Window \in [1..n -> Sample]
  /\ \A k \in 1..n : Window[k] = [t |-> Time(k - 1), v |-> Value(k - 1)]

LEMMA NextWindow == TypeOK' => WindowOK'
<1>1. TypeOK => WindowOK
  BY WindowSeq DEF WindowOK
<1> QED
  BY <1>1, PTL

\* An insertion is a step of the queue.
LEMMA InsertRecords ==
  ASSUME RingInv, TypeOK', channel' = channel, origin' = origin, NEW v \in AnyValue, Insert(time, v)
  PROVE  Queue!Record /\ n' = n
<1>1. /\ TypeOK /\ TimesInOrder /\ RingOK /\ time \in Int /\ time \in AnyTime
      /\ n \in Nat /\ n > 0 /\ Slots = 0..n - 1 /\ n' = n /\ Slots' = Slots /\ Loaded' = Loaded
  BY TypedRing DEF RingInv, RingOK, Slots, n, Loaded
<1>2. (\E i \in Slots : Replaced(i, time, v)) \/ (\E j \in Slots : Entered(j, time, v))
  BY <1>1, InsertPlaces
<1> DEFINE s == [t |-> time, v |-> v]
<1>3. s \in Sample
  BY <1>1 DEF Sample
<1>4. /\ Window \in [1..n -> Sample] /\ Window \in Seq(Sample) /\ Len(Window) = n /\ Window # <<>>
      /\ \A k \in 1..n : k - 1 \in Slots /\ Window[k].t = Time(k - 1)
                         /\ Window[k] = [t |-> Time(k - 1), v |-> Value(k - 1)]
  BY <1>1, WindowSeq
<1>5. /\ Window' \in Seq(Sample) /\ Len(Window') = n /\ Window' \in [1..n -> Sample]
      /\ \A k \in 1..n : Window'[k] = [t |-> Time(k - 1)', v |-> Value(k - 1)']
  BY <1>1, NextWindow DEF WindowOK
<1>6. \A k \in Slots : Time(k) \in Int
  BY <1>1, RingIndex
<1>7. ASSUME NEW i \in Slots, Replaced(i, time, v)
      PROVE  \E k \in 1..n : Window'[k] \in Sample /\ Queue!Replace(Window'[k])
  <2>1. i + 1 \in 1..n /\ (i + 1) - 1 = i
    BY <1>1
  <2>2. \A k \in 1..n : Window'[k] = IF k = i + 1 THEN s ELSE Window[k]
    BY <1>1, <1>4, <1>5, <1>7 DEF Replaced
  <2>3. Window' = [Window EXCEPT ![i + 1] = s]
    BY <1>4, <1>5, <2>1, <2>2
  <2>4. Window[i + 1].t = s.t
    BY <1>4, <1>7, <2>1 DEF Replaced
  <2>5. \A j \in 1..(i + 1) - 1 : Window[j].t # s.t
    <3> SUFFICES ASSUME NEW j \in 1..i PROVE Window[j].t # time
      BY <1>1
    <3>1. i > 0 /\ i - 1 \in Slots /\ j - 1 \in Slots /\ j \in 1..n /\ (j - 1 < i - 1 \/ j - 1 = i - 1)
      BY <1>1
    <3>2. Time(i - 1) < time /\ Time(j - 1) <= Time(i - 1)
      BY <1>1, <1>6, <1>7, <3>1 DEF Replaced, TimesInOrder
    <3> QED
      BY <1>1, <1>4, <1>6, <3>1, <3>2
  <2>6. Queue!Replace(s)
    BY <2>1, <2>3, <2>4, <2>5 DEF Queue!Replace
  <2> QED
    BY <1>3, <2>1, <2>2, <2>6
<1>8. ASSUME NEW j \in Slots, Entered(j, time, v)
      PROVE  \E k \in 1..n : Window'[k] \in Sample /\ Queue!Enter(Window'[k])
  <2>1. j + 1 \in 1..n /\ j \in 0..n - 1
    BY <1>1
  <2>2. ASSUME NEW k \in 1..n
        PROVE  Window'[k] = IF k <= j THEN Window[k + 1] ELSE IF k = j + 1 THEN s ELSE Window[k]
    <3>1. k - 1 \in Slots /\ (k <= j <=> k - 1 < j) /\ (k = j + 1 <=> k - 1 = j)
      BY <1>1
    <3>2. k <= j => k + 1 \in 1..n /\ (k + 1) - 1 = (k - 1) + 1
      BY <1>1
    <3> QED
      BY <1>4, <1>5, <1>8, <3>1, <3>2 DEF Entered
  <2>3. Window'[j + 1] = s
    BY <1>1, <2>1, <2>2
  <2>4. /\ Len(Tail(Window)) = n - 1 /\ \A k \in 1..n - 1 : Tail(Window)[k] = Window[k + 1]
        /\ Window' = SubSeq(Tail(Window), 1, j) \o <<s>> \o SubSeq(Tail(Window), j + 1, Len(Tail(Window)))
    <3> DEFINE w == Window  u == Window'
    <3>1. w \in Seq(Sample) /\ u \in Seq(Sample) /\ w # <<>> /\ Len(w) = n /\ Len(u) = Len(w)
      BY <1>4, <1>5
    <3>2. \A k \in 1..n : u[k] = IF k <= j THEN w[k + 1] ELSE IF k = j + 1 THEN s ELSE w[k]
      BY <2>2
    <3> HIDE DEF w, u, s
    <3>3. j \in 0..Len(w) - 1
      BY <2>1, <3>1
    <3>4. \A k \in 1..Len(w) : u[k] = IF k <= j THEN w[k + 1] ELSE IF k = j + 1 THEN s ELSE w[k]
      BY <3>1, <3>2
    <3>5. /\ Len(Tail(w)) = Len(w) - 1 /\ \A k \in 1..Len(w) - 1 : Tail(w)[k] = w[k + 1]
          /\ u = SubSeq(Tail(w), 1, j) \o <<s>> \o SubSeq(Tail(w), j + 1, Len(Tail(w)))
      BY <1>3, <3>1, <3>3, <3>4, PlacedSeq
    <3> QED
      BY <3>1, <3>5 DEF w, u
  <2>5. \A k \in Slots : /\ 0 < k /\ k <= j => Time(k) < time
                         /\ k > j => time < Time(k)
                         /\ Time(k) # time
    <3> SUFFICES ASSUME NEW k \in Slots
                 PROVE  (0 < k /\ k <= j => Time(k) < time) /\ (k > j => time < Time(k)) /\ Time(k) # time
      OBVIOUS
    <3>1. (j > 0 => Time(j) < time) /\ (j = 0 => Time(0) # time) /\ (j < n - 1 => time < Time(j + 1))
      BY <1>8 DEF Entered
    <3>2. CASE k > j
      <4>1. j < n - 1 /\ j + 1 \in Slots /\ (j + 1 < k \/ j + 1 = k)
        BY <1>1, <3>2
      <4>2. Time(j + 1) <= Time(k)
        BY <1>6, <4>1, <1>1 DEF TimesInOrder
      <4> QED
        BY <1>1, <1>6, <3>1, <3>2, <4>1, <4>2
    <3>3. CASE k <= j /\ j > 0
      <4>1. Time(k) <= Time(j)
        <5>1. k < j \/ k = j
          BY <1>1, <3>3
        <5> QED
          BY <1>1, <1>6, <5>1 DEF TimesInOrder
      <4> QED
        BY <1>1, <1>6, <3>1, <3>3, <4>1
    <3>4. CASE k <= j /\ ~ (j > 0)
      <4>1. k = 0 /\ j = 0
        BY <1>1, <3>4
      <4> QED
        BY <3>1, <4>1
    <3> QED
      BY <1>1, <3>2, <3>3, <3>4
  <2>6. \A k \in 1..n : Window[k].t # s.t
    BY <1>4, <2>5
  <2>7. \A k \in 1..Len(Tail(Window)) : Tail(Window)[k].t < s.t <=> k <= j
    <3> SUFFICES ASSUME NEW k \in 1..n - 1 PROVE Tail(Window)[k].t < time <=> k <= j
      BY <2>4
    <3>1. k \in Slots /\ 0 < k /\ k + 1 \in 1..n /\ (k + 1) - 1 = k /\ (k <= j \/ k > j)
      BY <1>1
    <3>2. Tail(Window)[k].t = Time(k)
      BY <1>4, <2>4, <3>1
    <3>3. CASE k <= j
      BY <2>5, <3>1, <3>2, <3>3
    <3>4. CASE k > j
      <4>1. time < Time(k) /\ Time(k) \in Int /\ ~ (k <= j)
        BY <1>1, <1>6, <2>5, <3>1, <3>4
      <4>2. ~ (Time(k) < time)
        BY <1>1, <4>1
      <4>3. ~ (Tail(Window)[k].t < time)
        BY <3>2, <4>2
      <4> QED
        BY <4>1, <4>3
    <3> QED
      BY <3>1, <3>3, <3>4
  <2>8. Queue!Placed(Tail(Window), s, Window')
    <3>1. j \in 0..Len(Tail(Window))
      BY <2>1, <2>4
    <3> QED
      BY <2>4, <2>7, <3>1 DEF Queue!Placed
  <2>9. Queue!Enter(s)
    BY <2>6, <2>8 DEF Queue!Enter
  <2> QED
    BY <1>3, <2>1, <2>3, <2>9
<1>9. \E k \in 1..n : Window'[k] \in Sample /\ (Queue!Replace(Window'[k]) \/ Queue!Enter(Window'[k]))
  BY <1>2, <1>7, <1>8
<1> QED
  BY <1>1, <1>9 DEF Queue!Record, Sample

LEMMA QueueInit == Init => Queue!Init
<1> SUFFICES ASSUME Init PROVE Queue!Init
  OBVIOUS
<1>1. RingInv
  BY InitRing
<1>2. /\ TypeOK /\ n \in Nat \ {0} /\ n > 0 /\ Slots = 0..n - 1 /\ \A k \in Slots : Time(k) \in Int
  <2>1. TypeOK /\ RingOK
    BY <1>1, TypedRing DEF RingInv
  <2>2. \A k \in Slots : Time(k) \in Int
    BY <2>1, RingIndex
  <2> QED
    BY <2>1, <2>2 DEF RingOK, Slots
<1>3. /\ Window \in [1..n -> Sample] /\ \A k \in 1..n : k - 1 \in Slots /\ Window[k].t = Time(k - 1)
  BY <1>2, WindowSeq
<1>4. Queue!InOrder(Window)
  BY <1>1, <1>2, <1>3 DEF Queue!InOrder, RingInv, TimesInOrder
<1>5. Loaded = FALSE
  BY DEF Loaded, Init
<1> QED
  BY <1>2, <1>3, <1>4, <1>5 DEF Queue!Init, Sample

\* Loading a history is what the queue allows once.
LEMMA InitHistoryLoads ==
  ASSUME RingInv, InitHistory
  PROVE  Queue!Load /\ n' = n
<1>1. /\ RingInv' /\ Slots' = Slots /\ RingOK /\ n' = n /\ n \in Nat /\ n > 0 /\ Slots = 0..n - 1
      /\ \A k \in Slots : Time(k)' = times'[k]
      /\ \A j, k \in Slots : j < k => (times'[j] < times'[k] \/ (times'[j] = Never /\ times'[k] = Never))
  BY InitHistoryRing DEF n, InitHistory, RingOK, Slots
<1>2. /\ Window' \in [1..n -> Sample] /\ \A k \in 1..n : Window'[k] = [t |-> Time(k - 1)', v |-> Value(k - 1)']
  BY <1>1, NextWindow DEF WindowOK, RingInv
<1>3. \A j, k \in Slots : j < k => Time(j)' <= Time(k)'
  BY <1>1 DEF RingInv, TimesInOrder
<1>4. \A j, k \in 1..n : j < k => Window'[j].t <= Window'[k].t
  <2> SUFFICES ASSUME NEW j \in 1..n, NEW k \in 1..n, j < k PROVE Window'[j].t <= Window'[k].t
    OBVIOUS
  <2>1. j - 1 \in Slots /\ k - 1 \in Slots /\ j - 1 < k - 1
    BY <1>1
  <2>2. Window'[j].t = Time(j - 1)' /\ Window'[k].t = Time(k - 1)'
    BY <1>2
  <2> QED
    BY <1>3, <2>1, <2>2
<1>5. ~ Loaded /\ Loaded' = TRUE
  BY DEF Loaded, InitHistory
<1> QED
  BY <1>1, <1>2, <1>4, <1>5 DEF Queue!Load, Queue!InOrder, Sample

LEMMA QueueStep == RingInv /\ RingInv' /\ [Next]_vars => [Queue!Next]_<<n, Window, Loaded>>
<1> SUFFICES ASSUME RingInv, RingInv', [Next]_vars PROVE [Queue!Next]_<<n, Window, Loaded>>
  OBVIOUS
<1>1. TypeOK /\ TypeOK'
  BY DEF RingInv
<1>2. ASSUME channel' = channel, origin' = origin, UNCHANGED buffer
      PROVE  UNCHANGED <<n, Window, Loaded>>
  <2>1. n' = n /\ Loaded' = Loaded
    BY <1>2 DEF n, Loaded
  <2>2. \A k : Time(k)' = Time(k) /\ Value(k)' = Value(k)
    BY <1>2, <2>1 DEF Time, Value, Physical, buffer
  <2>3. Window' = Window
    BY <2>1, <2>2 DEF Window
  <2> QED
    BY <2>1, <2>3
<1>3. ASSUME channel' = channel, origin' = origin, NEW v \in AnyValue, Insert(time, v)
      PROVE  Queue!Next
  BY <1>1, <1>3, InsertRecords DEF Queue!Next
<1>4. CASE InitHistory
  BY <1>4, InitHistoryLoads DEF Queue!Next
<1>5. CASE Forward
  <2>1. channel' = channel /\ origin' = origin
    BY <1>5 DEF Forward
  <2>2. Stores \in AnyValue
    BY <1>1, <1>5, TypedRing DEF Forward
  <2> QED
    BY <1>2, <1>3, <1>5, <2>1, <2>2 DEF Forward, ReadCtrl, ApplySensorDelay
<1>6. CASE Advance
  <2>1. channel' = channel /\ origin' = origin
    BY <1>6 DEF Advance
  <2>2. <<run, time, 1>> \in AnyValue
    <3>1. run \in 0..MaxRuns /\ 1 \in 0..5 + MaxExtra /\ time \in AnyTime
      BY <1>1, Constants DEF TypeOK
    <3> QED
      BY <3>1, Constants
  <2> QED
    BY <1>2, <1>3, <1>6, <2>1, <2>2 DEF Advance
<1>7. CASE Reset
  BY <1>2, <1>7 DEF Reset
<1>8. CASE UNCHANGED vars
  BY <1>2, <1>8 DEF vars
<1> QED
  BY <1>4, <1>5, <1>6, <1>7, <1>8 DEF Next

THEOREM RingIsQueue == Spec => IsQueue
BY QueueInit, QueueStep, RingInductive, PTL DEF Spec, IsQueue, Queue!Spec


-----------------------------------------------------------------------------
(* The ring and the log.                                                   *)

LEMMA LogTypes ==
  ASSUME TypeOK
  PROVE  /\ \A s \in log : /\ s.t \in Int /\ s.v \in AnyValue /\ s.v[1] \in Nat /\ s.v[3] \in Nat
                           /\ s = [t |-> s.t, v |-> s.v]
         /\ \A k \in Slots : /\ Time(k) \in Int /\ Never <= Time(k) /\ Value(k) \in AnyValue /\ Value(k)[1] \in Nat
         /\ RingOK /\ n \in Nat /\ n > 0 /\ Slots = 0..n - 1 /\ 0 \in Slots /\ n - 1 \in Slots
         /\ time \in Nat /\ run \in Nat /\ run >= 1 /\ evals \in Nat
<1>1. \A t \in AnyTime : t \in Int /\ Never <= t
  BY TimesAssumption DEF AnyTime, Times
<1>2. \A v \in AnyValue : v[1] \in Nat /\ v[3] \in Nat
  BY Constants DEF AnyValue
<1>3. RingOK /\ \A k \in Slots : Time(k) \in AnyTime /\ Value(k) \in AnyValue
  BY TypedRing
<1>4. n \in Nat /\ n > 0 /\ Slots = 0..n - 1 /\ 0 \in Slots /\ n - 1 \in Slots
  BY <1>3 DEF RingOK, Slots
<1>5. time \in Nat /\ run \in Nat /\ run >= 1
  BY Constants DEF TypeOK, Times
<1>6. evals \in Nat
  BY Constants DEF TypeOK
<1>7. \A s \in log : s \in [t : AnyTime, v : AnyValue]
  BY DEF TypeOK
<1>8. \A s \in log : s.t \in AnyTime /\ s.v \in AnyValue /\ s = [t |-> s.t, v |-> s.v]
  BY <1>7
<1> QED
  BY <1>1, <1>2, <1>3, <1>4, <1>5, <1>6, <1>8

LEMMA LogInit == Init => LogInv
<1> SUFFICES ASSUME Init PROVE LogInv
  OBVIOUS
<1>1. TypeOK
  BY InitRing DEF RingInv
<1>2. \A k \in Slots : Time(k) = 0 /\ Value(k) = <<0, 0, 0>>
  <2>1. RingOK
    BY <1>1, TypedRing
  <2> QED
    BY <2>1, RingIndex DEF Time, Value, Init
<1>3. run = 1 /\ time = 0 /\ \A s \in log : s.t = 0 /\ s.v = <<0, 0, 0>> /\ s = [t |-> 0, v |-> <<0, 0, 0>>]
  BY DEF Init
<1>4. 0 \in Slots
  BY <1>1, LogTypes
<1> QED
  BY <1>2, <1>3, <1>4
  DEF LogInv, NoTwins, RunsPast, LogOnce, Stored, FedInTime, Begun, LostAreOld, Ours, Fed

LEMMA LogInitHistory ==
  ASSUME RingInv, InitHistory
  PROVE  LogInv'
<1>1. /\ Slots' = Slots /\ run' = run /\ RingInv'
      /\ \A k \in Slots : Time(k)' = times'[k] /\ Value(k)' = <<run, times'[k], 0>>
      /\ \A j, k \in Slots : j < k => (times'[j] < times'[k] \/ (times'[j] = Never /\ times'[k] = Never))
  BY InitHistoryRing DEF InitHistory
<1>2. \A k \in Slots : times'[k] \in Int /\ Element(k)' = [t |-> times'[k], v |-> <<run, times'[k], 0>>]
  <2>1. \A k \in Slots : times'[k] \in AnyTime
    BY <1>1 DEF RingInv, TypeOK
  <2> QED
    BY <1>1, <2>1, Constants DEF Element
<1>3. log' = {[t |-> times'[k], v |-> <<run, times'[k], 0>>] : k \in Slots}
  <2>1. \A k \in Slots : values'[k] = <<run, times'[k], 0>>
    BY DEF InitHistory
  <2> QED
    BY <2>1 DEF InitHistory
<1>4. NoTwins'
  BY <1>1, <1>2 DEF NoTwins
<1>5. RunsPast'
  <2>1. run \in Int
    BY LogTypes DEF RingInv
  <2> QED
    BY <1>1, <2>1 DEF RunsPast
<1>6. LogOnce'
  BY <1>3 DEF LogOnce
<1>7. \A k \in Slots : Element(k)' \in log'
  BY <1>2, <1>3
<1>8. \A s \in log' : InRing(s)'
  BY <1>1, <1>2, <1>3 DEF InRing
<1>9. \A s \in log' : s.v[3] = 0
  BY <1>3
<1> QED
  BY <1>1, <1>4, <1>5, <1>6, <1>7, <1>8, <1>9
  DEF LogInv, Stored, FedInTime, Begun, LostAreOld, Fed

\* Replaced and Entered, with what the order of the elements says of the others.
Same(i, t, v) ==
  /\ Time(i) = t /\ Time(i)' = t /\ Value(i)' = v
  /\ \A k \in Slots : k < i => Time(k) < t
  /\ \A k \in Slots : Time(k)' = Time(k) /\ (k # i => Value(k)' = Value(k))

Shifted(j, t, v) ==
  /\ Time(j)' = t /\ Value(j)' = v
  /\ \A k \in Slots : k < j => /\ k + 1 \in Slots /\ Time(k + 1) < t
                               /\ Time(k)' = Time(k + 1) /\ Value(k)' = Value(k + 1)
  /\ \A k \in Slots : k > j => t < Time(k) /\ Time(k)' = Time(k) /\ Value(k)' = Value(k)
  /\ j = 0 => Time(0) # t

LEMMA InsertElements ==
  ASSUME TypeOK, TimesInOrder, NEW t \in Int, NEW v,
         (\E i \in Slots : Replaced(i, t, v)) \/ (\E j \in Slots : Entered(j, t, v))
  PROVE  (\E i \in Slots : Same(i, t, v)) \/ (\E j \in Slots : Shifted(j, t, v))
<1>1. n \in Nat /\ Slots = 0..n - 1 /\ \A k \in Slots : Time(k) \in Int
  BY LogTypes
<1>2. ASSUME NEW i \in Slots, Replaced(i, t, v)
      PROVE  Same(i, t, v)
  <2>1. ASSUME NEW k \in Slots, k < i PROVE Time(k) < t
    <3>1. i > 0 /\ i - 1 \in Slots /\ (k < i - 1 \/ k = i - 1)
      BY <1>1, <2>1
    <3>2. Time(k) <= Time(i - 1)
      BY <1>1, <3>1 DEF TimesInOrder
    <3>3. Time(i - 1) < t
      BY <1>2, <3>1 DEF Replaced
    <3> QED
      BY <1>1, <3>1, <3>2, <3>3
  <2> QED
    BY <1>2, <2>1 DEF Replaced, Same
<1>3. ASSUME NEW j \in Slots, Entered(j, t, v)
      PROVE  Shifted(j, t, v)
  <2>1. ASSUME NEW k \in Slots, k < j
        PROVE  k + 1 \in Slots /\ Time(k + 1) < t /\ Time(k)' = Time(k + 1) /\ Value(k)' = Value(k + 1)
    <3>1. j > 0 /\ k + 1 \in Slots /\ (k + 1 < j \/ k + 1 = j)
      BY <1>1, <2>1
    <3>2. Time(k + 1) <= Time(j)
      BY <1>1, <3>1 DEF TimesInOrder
    <3>3. Time(j) < t
      BY <1>3, <3>1 DEF Entered
    <3>4. Time(k + 1) \in Int /\ Time(j) \in Int
      BY <1>1, <3>1
    <3> QED
      BY <1>3, <2>1, <3>1, <3>2, <3>3, <3>4 DEF Entered
  <2>2. ASSUME NEW k \in Slots, k > j
        PROVE  t < Time(k) /\ Time(k)' = Time(k) /\ Value(k)' = Value(k)
    <3>1. j < n - 1 /\ j + 1 \in Slots /\ (j + 1 < k \/ j + 1 = k) /\ ~ (k < j) /\ k # j
      BY <1>1, <2>2
    <3>2. Time(j + 1) <= Time(k)
      BY <1>1, <3>1 DEF TimesInOrder
    <3>3. t < Time(j + 1)
      BY <1>3, <3>1 DEF Entered
    <3>4. Time(k) \in Int /\ Time(j + 1) \in Int
      BY <1>1, <3>1
    <3> QED
      BY <1>3, <3>1, <3>2, <3>3, <3>4 DEF Entered
  <2>3. ~ (j < j)
    BY <1>1
  <2> QED
    BY <1>3, <2>1, <2>2, <2>3 DEF Entered, Shifted
<1> QED
  BY <1>2, <1>3

\* The sample that is fed belongs to this run; time has come to it.
LEMMA InsertLog ==
  ASSUME RingInv, LogInv, channel' = channel, run' = run, NEW v \in AnyValue, v[1] = run, v[3] > 0,
         Insert(time, v), log' = Logged(time, v),
         time' \in Int, time <= time', time < time' \/ evals' # 0
  PROVE  LogInv'
<1> DEFINE new == [t |-> time, v |-> v]
<1>1. /\ TypeOK /\ TimesInOrder /\ Slots' = Slots
      /\ NoTwins /\ RunsPast /\ LogOnce /\ Stored /\ FedInTime /\ Begun /\ LostAreOld
  BY DEF RingInv, LogInv, Slots, n
<1>2. /\ n \in Nat /\ n > 0 /\ Slots = 0..n - 1 /\ 0 \in Slots /\ RingOK
      /\ \A k \in Slots : Time(k) \in Int /\ Never <= Time(k) /\ Value(k)[1] \in Nat
      /\ \A s \in log : s.t \in Int /\ s.v[3] \in Nat /\ s = [t |-> s.t, v |-> s.v]
      /\ time \in Nat /\ run \in Nat /\ run >= 1 /\ Never \in Int /\ Never < 0
  BY <1>1, LogTypes, TimesAssumption
<1>3. (\E i \in Slots : Same(i, time, v)) \/ (\E j \in Slots : Shifted(j, time, v))
  <2>1. (\E i \in Slots : Replaced(i, time, v)) \/ (\E j \in Slots : Entered(j, time, v))
    BY <1>1, <1>2, InsertPlaces
  <2>2. time \in Int
    BY <1>2
  <2> QED
    BY <1>1, <2>1, <2>2, InsertElements, Zenon
<1>4. new.t = time /\ new.v = v /\ \A s : s \in log' <=> (s \in log /\ s.t # time) \/ s = new
  BY DEF Logged
<1> HIDE DEF new
<1>5. Time(0)' <= time /\ (\A k \in Slots : Time(k)' \in Int)
  <2>1. ASSUME NEW i \in Slots, Same(i, time, v) PROVE Time(0)' <= time
    <3>1. Time(0)' = Time(0)
      BY <1>2, <2>1 DEF Same
    <3>2. CASE i = 0
      BY <1>2, <2>1, <3>1, <3>2 DEF Same
    <3>3. CASE i > 0
      BY <1>2, <2>1, <3>1, <3>3 DEF Same
    <3> QED
      BY <1>2, <3>2, <3>3
  <2>2. ASSUME NEW j \in Slots, Shifted(j, time, v) PROVE Time(0)' <= time
    <3>1. CASE j = 0
      BY <1>2, <2>2, <3>1 DEF Shifted
    <3>2. CASE j > 0
      BY <1>2, <2>2, <3>2 DEF Shifted
    <3> QED
      BY <1>2, <3>1, <3>2
  <2>3. RingOK'
    BY <1>1, <1>2, InsertPlaces
  <2>4. \A k \in Slots : Time(k)' \in Int
    <3>1. ASSUME NEW i \in Slots, Same(i, time, v) PROVE \A k \in Slots : Time(k)' \in Int
      BY <1>2, <3>1 DEF Same
    <3>2. ASSUME NEW j \in Slots, Shifted(j, time, v) PROVE \A k \in Slots : Time(k)' \in Int
      <4>1. \A k \in Slots : k < j \/ k = j \/ k > j
        BY <1>2
      <4> QED
        BY <1>2, <3>2, <4>1 DEF Shifted
    <3> QED
      BY <1>3, <3>1, <3>2
  <2> QED
    BY <1>3, <2>1, <2>2, <2>4
<1>6. NoTwins'
  <2> SUFFICES ASSUME NEW a \in Slots, NEW b \in Slots, a < b, Time(a)' = Time(b)'
               PROVE  (Value(b)'[1] = 0 /\ Time(b)' = 0) \/ (Time(b)' = Never /\ Value(a)' = Value(b)')
    BY <1>1 DEF NoTwins
  <2>1. ASSUME NEW i \in Slots, Same(i, time, v)
        PROVE  (Value(b)'[1] = 0 /\ Time(b)' = 0) \/ (Time(b)' = Never /\ Value(a)' = Value(b)')
    <3>1. Time(a) = Time(b) /\ Time(a)' = Time(a) /\ Time(b)' = Time(b)
      BY <2>1 DEF Same
    <3>2. b # i
      BY <1>2, <2>1, <3>1 DEF Same
    <3>3. Value(b)' = Value(b) /\ (a = i => Time(b) = time) /\ (a # i => Value(a)' = Value(a))
      BY <2>1, <3>1, <3>2 DEF Same
    <3>4. (Value(b)[1] = 0 /\ Time(b) = 0) \/ (Time(b) = Never /\ Value(a) = Value(b))
      BY <1>1, <3>1 DEF NoTwins
    <3> QED
      BY <1>2, <3>1, <3>3, <3>4
  <2>2. ASSUME NEW j \in Slots, Shifted(j, time, v)
        PROVE  (Value(b)'[1] = 0 /\ Time(b)' = 0) \/ (Time(b)' = Never /\ Value(a)' = Value(b)')
    <3>1. CASE b < j
      <4>1. /\ a + 1 \in Slots /\ b + 1 \in Slots /\ a + 1 < b + 1
            /\ Time(a)' = Time(a + 1) /\ Value(a)' = Value(a + 1)
            /\ Time(b)' = Time(b + 1) /\ Value(b)' = Value(b + 1)
        <5>1. a < j /\ a + 1 < b + 1
          <6>1. a \in Int /\ b \in Int /\ j \in Int
            BY <1>2
          <6> QED
            BY <3>1, <6>1
        <5>2. a + 1 \in Slots /\ Time(a)' = Time(a + 1) /\ Value(a)' = Value(a + 1)
          BY <2>2, <5>1 DEF Shifted
        <5>3. b + 1 \in Slots /\ Time(b)' = Time(b + 1) /\ Value(b)' = Value(b + 1)
          BY <2>2, <3>1 DEF Shifted
        <5> QED
          BY <5>1, <5>2, <5>3
      <4> QED
        BY <1>1, <4>1 DEF NoTwins
    <3>2. CASE a > j
      <4>1. Time(a)' = Time(a) /\ Value(a)' = Value(a) /\ Time(b)' = Time(b) /\ Value(b)' = Value(b)
        BY <1>2, <2>2, <3>2 DEF Shifted
      <4> QED
        BY <1>1, <4>1 DEF NoTwins
    <3>3. CASE a <= j /\ j <= b
      <4>1. a = j => Time(a)' = time
        BY <2>2 DEF Shifted
      <4>2. b = j => Time(b)' = time
        BY <2>2 DEF Shifted
      <4>3. a < j => Time(a)' < time
        BY <2>2 DEF Shifted
      <4>4. b > j => time < Time(b)'
        BY <2>2 DEF Shifted
      <4>5. Time(a)' \in Int /\ Time(b)' \in Int
        BY <1>5
      <4> QED
        BY <1>2, <3>3, <4>1, <4>2, <4>3, <4>4, <4>5
    <3> QED
      BY <1>2, <3>1, <3>2, <3>3
  <2> QED
    BY <1>3, <2>1, <2>2
<1>7. RunsPast'
  <2>1. ASSUME NEW i \in Slots, Same(i, time, v) PROVE \A k \in Slots : Value(k)'[1] <= run
    BY <1>1, <1>2, <2>1 DEF Same, RunsPast
  <2>2. ASSUME NEW j \in Slots, Shifted(j, time, v) PROVE \A k \in Slots : Value(k)'[1] <= run
    <3> SUFFICES ASSUME NEW k \in Slots PROVE Value(k)'[1] <= run
      OBVIOUS
    <3>1. CASE k < j
      <4>1. k + 1 \in Slots /\ Value(k)' = Value(k + 1)
        BY <2>2, <3>1 DEF Shifted
      <4> QED
        BY <1>1, <4>1 DEF RunsPast
    <3>2. CASE k = j
      <4>1. Value(k)' = v
        BY <2>2, <3>2 DEF Shifted
      <4> QED
        BY <1>2, <4>1
    <3>3. CASE k > j
      <4>1. Value(k)' = Value(k)
        BY <2>2, <3>3 DEF Shifted
      <4> QED
        BY <1>1, <4>1 DEF RunsPast
    <3> QED
      BY <1>2, <3>1, <3>2, <3>3
  <2> QED
    BY <1>1, <1>3, <2>1, <2>2 DEF RunsPast
<1>8. LogOnce'
  BY <1>1, <1>4 DEF LogOnce
<1>9. Stored'
  <2> SUFFICES ASSUME NEW k \in Slots, Value(k)'[1] = run \/ Time(k)' < 0
               PROVE  [t |-> Time(k)', v |-> Value(k)'] \in log'
    BY <1>1 DEF Stored, Ours, Element
  <2>1. ASSUME NEW i \in Slots, Same(i, time, v) PROVE [t |-> Time(k)', v |-> Value(k)'] \in log'
    <3>1. CASE k = i
      <4>1. Time(k)' = time /\ Value(k)' = v
        BY <2>1, <3>1 DEF Same
      <4> QED
        BY <1>4, <4>1 DEF new
    <3>2. CASE k # i
      <4>1. Time(k)' = Time(k) /\ Value(k)' = Value(k)
        BY <2>1, <3>2 DEF Same
      <4>2. Element(k) \in log /\ Element(k).t = Time(k)
        BY <1>1, <4>1 DEF Stored, Ours, Element
      <4>3. Time(k) # time
        <5> SUFFICES ASSUME Time(k) = time PROVE FALSE
          OBVIOUS
        <5>1. i < k /\ Time(i) = Time(k)
          BY <1>2, <2>1, <3>2 DEF Same
        <5>2. (Value(k)[1] = 0 /\ Time(k) = 0) \/ (Time(k) = Never /\ Value(i) = Value(k))
          BY <1>1, <5>1 DEF NoTwins
        <5> QED
          BY <1>2, <4>1, <5>2
      <4> QED
        BY <1>4, <4>1, <4>2, <4>3 DEF Element
    <3> QED
      BY <3>1, <3>2
  <2>2. ASSUME NEW j \in Slots, Shifted(j, time, v) PROVE [t |-> Time(k)', v |-> Value(k)'] \in log'
    <3>1. CASE k = j
      <4>1. Time(k)' = time /\ Value(k)' = v
        BY <2>2, <3>1 DEF Shifted
      <4> QED
        BY <1>4, <4>1 DEF new
    <3>2. ASSUME NEW m \in Slots, Time(k)' = Time(m), Value(k)' = Value(m), Time(m) # time
          PROVE  [t |-> Time(k)', v |-> Value(k)'] \in log'
      <4>1. Element(m) \in log /\ Element(m).t = Time(m)
        BY <1>1, <3>2 DEF Stored, Ours, Element
      <4> QED
        BY <1>4, <3>2, <4>1 DEF Element
    <3>3. CASE k < j
      <4>1. k + 1 \in Slots /\ Time(k)' = Time(k + 1) /\ Value(k)' = Value(k + 1) /\ Time(k + 1) < time
        BY <2>2, <3>3 DEF Shifted
      <4>2. Time(k + 1) # time
        BY <1>2, <4>1
      <4> QED
        BY <3>2, <4>1, <4>2
    <3>4. CASE k > j
      <4>1. Time(k)' = Time(k) /\ Value(k)' = Value(k) /\ time < Time(k)
        BY <2>2, <3>4 DEF Shifted
      <4>2. Time(k) # time
        BY <1>2, <4>1
      <4> QED
        BY <3>2, <4>1, <4>2
    <3> QED
      BY <1>2, <3>1, <3>3, <3>4
  <2> QED
    BY <1>3, <2>1, <2>2
<1>10. FedInTime'
  <2> SUFFICES ASSUME NEW s \in log', s.v[3] > 0
               PROVE  0 <= s.t /\ s.t <= time' /\ (evals' = 0 => s.t < time')
    BY DEF FedInTime, Fed
  <2>1. 0 <= s.t /\ s.t <= time /\ s.t \in Int
    BY <1>1, <1>2, <1>4 DEF FedInTime, Fed
  <2> QED
    BY <1>2, <2>1
<1>11. Begun'
  <2>1. Time(0)' \in Int
    BY <1>2, <1>5
  <2> QED
    BY <1>2, <1>5, <2>1 DEF Begun
<1>12. LostAreOld'
  <2> SUFFICES ASSUME NEW s \in log' PROVE InRing(s)' \/ s.t <= Time(0)' \/ Displaced(s)'
    BY DEF LostAreOld
  <2>1. CASE s = new
    <3>1. ASSUME NEW k \in Slots, Time(k)' = time, Value(k)' = v PROVE InRing(s)'
      BY <1>1, <2>1, <3>1 DEF new, InRing, Element
    <3> QED
      BY <1>3, <3>1 DEF Same, Shifted
  <2>2. CASE s \in log /\ s.t # time
    <3>1. ASSUME ~ Fed(s), time < s.t, s.t <= Time(0) PROVE Displaced(s)'
      <4>1. \A x \in log : ~ Fed(x) => time < x.t
        <5> SUFFICES ASSUME NEW x \in log PROVE time < x.t
          OBVIOUS
        <5>1. \A y \in log : InRing(y)
          BY <1>1, <1>2, <2>2, <3>1 DEF Begun
        <5>2. PICK k \in Slots : Element(k) = x
          BY <5>1 DEF InRing
        <5>3. Time(0) <= Time(k) /\ x.t = Time(k)
          <6>1. k = 0 \/ 0 < k
            BY <1>2
          <6> QED
            BY <1>1, <1>2, <5>2, <6>1 DEF TimesInOrder, Element
        <5> QED
          BY <1>2, <2>2, <3>1, <5>3
      <4>2. new \in log' /\ new.v[3] > 0 /\ new.t = time
        BY <1>4
      <4>3. \A x \in log' : ~ (x.v[3] > 0) => new.t < x.t
        BY <1>4, <4>1, <4>2 DEF Fed
      <4> QED
        BY <3>1, <4>2, <4>3 DEF Displaced, Fed
    <3>2. s.t \in Int /\ (Fed(s) => s.t <= time)
      BY <1>1, <1>2, <2>2 DEF FedInTime
    <3>3. CASE Displaced(s)
      <4>1. PICK y \in log : Fed(y) /\ \A x \in log : ~ Fed(x) => y.t < x.t
        BY <3>3 DEF Displaced
      <4>2. PICK z \in log' : z.v[3] > 0 /\ z.t = y.t
        <5>1. CASE y.t = time
          BY <1>4, <5>1
        <5>2. CASE y.t # time
          BY <1>4, <4>1, <5>2 DEF Fed
        <5> QED
          BY <5>1, <5>2
      <4>3. \A x \in log' : ~ (x.v[3] > 0) => z.t < x.t
        BY <1>4, <4>1, <4>2 DEF Fed
      <4> QED
        BY <3>3, <4>2, <4>3 DEF Displaced, Fed
    <3>4. CASE s.t <= Time(0)
      <4>1. ASSUME NEW i \in Slots, Same(i, time, v) PROVE s.t <= Time(0)'
        BY <1>2, <3>4, <4>1 DEF Same
      <4>2. ASSUME NEW j \in Slots, Shifted(j, time, v), j > 0 PROVE s.t <= Time(0)'
        <5>1. 1 \in Slots /\ Time(0)' = Time(0 + 1)
          BY <1>2, <4>2 DEF Shifted
        <5>2. Time(0) <= Time(1) /\ Time(1) \in Int
          BY <1>1, <1>2, <5>1, SMTT(30) DEF TimesInOrder
        <5> QED
          BY <1>2, <3>2, <3>4, <5>1, <5>2
      <4>3. ASSUME Shifted(0, time, v) PROVE s.t <= Time(0)' \/ Displaced(s)'
        <5>1. Time(0)' = time
          BY <4>3 DEF Shifted
        <5>2. CASE s.t <= time
          BY <5>1, <5>2
        <5>3. CASE time < s.t
          BY <1>2, <3>1, <3>2, <3>4, <5>3
        <5> QED
          BY <1>2, <3>2, <5>2, <5>3
      <4>4. \A j \in Slots : j = 0 \/ j > 0
        BY <1>2
      <4> QED
        BY <1>3, <4>1, <4>2, <4>3, <4>4
    <3>5. CASE InRing(s)
      <4>1. PICK m \in Slots : s = Element(m) /\ s.t = Time(m)
        BY <3>5 DEF InRing, Element
      <4>2. ASSUME NEW k \in Slots, Time(k)' = Time(m), Value(k)' = Value(m) PROVE InRing(s)'
        BY <1>1, <4>1, <4>2 DEF InRing, Element
      <4>3. ASSUME NEW i \in Slots, Same(i, time, v) PROVE InRing(s)'
        BY <2>2, <4>1, <4>2, <4>3 DEF Same
      <4>4. ASSUME NEW j \in Slots, Shifted(j, time, v), m # 0 PROVE InRing(s)'
        <5>1. CASE m > j
          BY <4>2, <4>4, <5>1 DEF Shifted
        <5>2. CASE m <= j
          <6>1. m - 1 \in Slots /\ m - 1 < j /\ (m - 1) + 1 = m
            BY <1>2, <4>4, <5>2
          <6>2. Time(m - 1)' = Time((m - 1) + 1) /\ Value(m - 1)' = Value((m - 1) + 1)
            BY <4>4, <6>1 DEF Shifted
          <6> QED
            BY <4>2, <6>1, <6>2
        <5> QED
          BY <1>2, <5>1, <5>2
      <4>5. m = 0 => s.t <= Time(0)
        BY <1>2, <4>1
      <4> QED
        BY <1>3, <3>4, <4>3, <4>4, <4>5
    <3> QED
      BY <1>1, <2>2, <3>3, <3>4, <3>5 DEF LostAreOld
  <2> QED
    BY <1>4, <2>1, <2>2
<1> QED
  BY <1>6, <1>7, <1>8, <1>9, <1>10, <1>11, <1>12 DEF LogInv

LEMMA IdleLog ==
  ASSUME RingInv, LogInv, channel' = channel, run' = run, UNCHANGED <<buffer, log>>,
         time' \in Int, time <= time', time < time' \/ evals' # 0 \/ UNCHANGED <<time, evals>>
  PROVE  LogInv'
<1>1. /\ Slots' = Slots /\ log' = log
      /\ \A k : Time(k)' = Time(k) /\ Value(k)' = Value(k)
  BY DEF Slots, n, buffer, Time, Value, Physical
<1>2. /\ \A s \in log : s.t \in Int
      /\ \A k \in Slots : Time(k) \in Int
      /\ time \in Nat /\ 0 \in Slots
  BY LogTypes DEF RingInv
<1>3. \A k \in Slots : Element(k)' = Element(k)
  BY <1>1 DEF Element
<1>4. FedInTime' /\ Begun'
  <2>1. FedInTime /\ Begun
    BY DEF LogInv
  <2>2. FedInTime'
    <3> SUFFICES ASSUME NEW s \in log, Fed(s) PROVE 0 <= s.t /\ s.t <= time' /\ (evals' = 0 => s.t < time')
      BY <1>1 DEF FedInTime, Fed
    <3>1. 0 <= s.t /\ s.t <= time /\ (evals = 0 => s.t < time)
      BY <2>1 DEF FedInTime
    <3> QED
      BY <1>2, <3>1
  <2>3. Begun'
    <3>1. CASE Time(0) <= time
      <4>1. Time(0) <= time'
        BY <1>2, <3>1
      <4> QED
        BY <1>1, <4>1 DEF Begun
    <3>2. CASE \A s \in log : InRing(s)
      BY <1>1, <1>3, <3>2 DEF Begun, InRing
    <3>3. CASE \A s \in log : s.t < 0
      BY <1>1, <3>3 DEF Begun
    <3> QED
      BY <2>1, <3>1, <3>2, <3>3 DEF Begun
  <2> QED
    BY <2>2, <2>3
<1>5. NoTwins' /\ RunsPast' /\ LogOnce'
  BY <1>1 DEF LogInv, NoTwins, RunsPast, LogOnce
<1>6. Stored' /\ LostAreOld'
  BY <1>1, <1>3 DEF LogInv, Stored, LostAreOld, Ours, InRing, Displaced, Fed
<1> QED
  BY <1>4, <1>5, <1>6 DEF LogInv

LEMMA ResetLog ==
  ASSUME RingInv, LogInv, Reset
  PROVE  LogInv'
<1>1. /\ Slots' = Slots /\ log' = {s \in log : s.t < 0} /\ run' = run + 1
      /\ \A k : Time(k)' = Time(k) /\ Value(k)' = Value(k)
  BY DEF Slots, n, buffer, Time, Value, Physical, Reset
<1>2. /\ \A s \in log : s.t \in Int /\ s.v[3] \in Nat
      /\ \A k \in Slots : Time(k) \in Int /\ Value(k)[1] \in Nat
      /\ run \in Nat
  BY LogTypes DEF RingInv
<1>3. \A k \in Slots : Element(k)' = Element(k)
  BY <1>1 DEF Element
<1>4. NoTwins' /\ LogOnce' /\ Begun'
  BY <1>1 DEF LogInv, NoTwins, LogOnce, Begun
<1>5. RunsPast'
  BY <1>1, <1>2 DEF LogInv, RunsPast
<1>6. Stored'
  <2> SUFFICES ASSUME NEW k \in Slots, Value(k)[1] = run + 1 \/ Time(k) < 0 PROVE Element(k) \in log'
    BY <1>1, <1>3 DEF Stored, Ours
  <2>1. Value(k)[1] <= run
    BY DEF LogInv, RunsPast
  <2>2. Time(k) < 0
    BY <1>2, <2>1
  <2>3. Element(k) \in log /\ Element(k).t = Time(k)
    BY <2>2 DEF LogInv, Stored, Ours, Element
  <2> QED
    BY <1>1, <2>2, <2>3
<1>7. \A s \in log' : ~ Fed(s)
  BY <1>1, <1>2 DEF LogInv, FedInTime
<1>8. FedInTime'
  BY <1>7 DEF FedInTime, Fed
<1>9. LostAreOld'
  <2> SUFFICES ASSUME NEW s \in log' PROVE InRing(s) \/ s.t <= Time(0)
    BY <1>1, <1>3 DEF LostAreOld, InRing
  <2>1. ~ Displaced(s)
    <3> SUFFICES ASSUME NEW y \in log, Fed(y), \A x \in log : ~ Fed(x) => y.t < x.t PROVE FALSE
      BY DEF Displaced
    <3>1. 0 <= y.t /\ y.t < s.t /\ s.t < 0 /\ s \in log
      BY <1>1, <1>7 DEF LogInv, FedInTime
    <3> QED
      BY <1>2, <3>1
  <2> QED
    BY <1>1, <2>1 DEF LogInv, LostAreOld
<1> QED
  BY <1>4, <1>5, <1>6, <1>8, <1>9 DEF LogInv

LEMMA Marked ==
  ASSUME evals \in Nat
  PROVE  Stores[1] = run /\ Stores[2] = time /\ Stores[3] > 0
<1>1. Fresh[1] = run /\ Fresh[2] = time /\ Fresh[3] > 0
  BY DEF Fresh
<1>2. Echo > 0
  BY TimesAssumption DEF Echo
<1> DEFINE e == <<run, time, Echo>>
<1>3. e[1] = run /\ e[2] = time /\ e[3] > 0
  BY <1>2
<1> HIDE DEF e
<1>4. Stores = e \/ Stores = Fresh
  BY DEF Stores, e
<1> QED
  BY <1>1, <1>3, <1>4

LEMMA LogStep == RingInv /\ LogInv /\ [Next]_vars => LogInv'
<1> SUFFICES ASSUME RingInv, LogInv, [Next]_vars PROVE LogInv'
  OBVIOUS
<1>1. time \in Int /\ evals \in Nat /\ time <= time /\ TypeOK
  BY LogTypes DEF RingInv
<1>2. ASSUME Forward PROVE LogInv'
  <2>1. channel' = channel /\ run' = run /\ time' = time /\ evals' # 0
    BY <1>1, <1>2 DEF Forward
  <2>2. CASE UNCHANGED <<buffer, log>>
    BY <1>1, <2>1, <2>2, IdleLog
  <2>3. CASE Insert(time, Stores) /\ log' = Logged(time, Stores)
    <3>1. Stores \in AnyValue
      BY <1>1, <1>2, TypedRing DEF Forward
    <3>2. Stores[1] = run /\ Stores[3] > 0
      BY <1>1, Marked
    <3> QED
      BY <1>1, <2>1, <2>3, <3>1, <3>2, InsertLog
  <2> QED
    BY <1>2, <2>2, <2>3 DEF Forward, ReadCtrl, ApplySensorDelay
<1>3. ASSUME Advance PROVE LogInv'
  <2>1. channel' = channel /\ run' = run /\ time' = time + 2
    BY <1>3 DEF Advance, Step
  <2>2. CASE UNCHANGED <<buffer, log>>
    BY <1>1, <2>1, <2>2, IdleLog
  <2>3. CASE Insert(time, <<run, time, 1>>) /\ log' = Logged(time, <<run, time, 1>>)
    <3> DEFINE v == <<run, time, 1>>
    <3>1. v \in AnyValue
      <4>1. run \in 0..MaxRuns /\ 1 \in 0..5 + MaxExtra /\ time \in AnyTime
        BY <1>1, TypedRing, Constants DEF TypeOK
      <4> QED
        BY <4>1, Constants
    <3>2. v[1] = run /\ v[3] > 0
      OBVIOUS
    <3>3. Insert(time, v) /\ log' = Logged(time, v)
      BY <2>3
    <3> HIDE DEF v
    <3> QED
      BY <1>1, <2>1, <3>1, <3>2, <3>3, InsertLog
  <2> QED
    BY <1>3, <2>2, <2>3 DEF Advance
<1>4. CASE UNCHANGED vars
  BY <1>1, <1>4, IdleLog DEF vars
<1> QED
  BY <1>2, <1>3, <1>4, LogInitHistory, ResetLog DEF Next

\* What is stored of this run is in the log, and what is in the log is stored
\* or older than all that is, unless a first sample older than all that were
\* loaded displaced it ("older than oldest: replace oldest").
THEOREM LogInductive == Spec => [](RingInv /\ LogInv)
<1>1. Spec => []LogInv
  BY LogInit, LogStep, RingInductive, PTL DEF Spec
<1> QED
  BY <1>1, RingInductive, PTL

-----------------------------------------------------------------------------
(* What a read returns, by where its time lies among the elements.         *)

LEMMA OrderStrict ==
  ASSUME TypeOK, TimesInOrder, NEW j \in Slots, NEW k \in Slots
  PROVE  /\ j <= k => Time(j) <= Time(k)
         /\ Time(j) < Time(k) => j < k
<1>1. n \in Nat /\ Slots = 0..n - 1 /\ Time(j) \in Int /\ Time(k) \in Int
  BY LogTypes
<1>2. ASSUME NEW a \in Slots, NEW b \in Slots, a <= b PROVE Time(a) <= Time(b)
  <2>1. a < b \/ a = b
    BY <1>1, <1>2
  <2>2. Time(b) \in Int
    BY LogTypes
  <2> QED
    BY <2>1, <2>2 DEF TimesInOrder
<1> QED
  BY <1>1, <1>2

\* The elements of a time all have the same value.
Unambiguous(t) == \A j, k \in Slots : Time(j) = t /\ Time(k) = t => Value(j) = Value(k)

Inside(i, t) == i \in 1..n - 1 /\ Time(i - 1) < t /\ t < Time(i)

LEMMA ReadAt ==
  ASSUME TypeOK, TimesInOrder, NEW t \in Int, Unambiguous(t), NEW k \in Slots, Time(k) = t
  PROVE  Read(t) = <<Value(k)>>
<1>1. /\ n \in Nat /\ n > 0 /\ Slots = 0..n - 1 /\ 0 \in Slots /\ n - 1 \in Slots /\ RingOK
      /\ \A m \in Slots : Time(m) \in Int
  BY LogTypes
<1> DEFINE i == FindIndex(t)
<1>2. /\ i \in 0..n /\ (i = 0 => t <= Time(0)) /\ (i # 0 => Time(i - 1) < t) /\ (i # n => t <= Time(i))
  BY <1>1, FindPlace
<1>3. Time(0) <= t /\ t <= Time(n - 1)
  BY <1>1, OrderStrict
<1>4. Read(t) = IF t <= Time(0) THEN <<Value(0)>>
                ELSE IF t >= Time(n - 1) THEN <<Value(n - 1)>>
                ELSE IF Time(i) = t THEN <<Value(i)>>
                ELSE Between(i)
  BY DEF Read
<1> HIDE DEF i
<1>5. CASE t <= Time(0)
  <2>1. Time(0) = t
    BY <1>1, <1>3, <1>5
  <2>2. Value(0) = Value(k)
    BY <1>1, <2>1 DEF Unambiguous
  <2> QED
    BY <1>4, <1>5, <2>2
<1>6. CASE ~ (t <= Time(0)) /\ t >= Time(n - 1)
  <2>1. Time(n - 1) = t
    BY <1>1, <1>3, <1>6
  <2>2. Value(n - 1) = Value(k)
    BY <1>1, <2>1 DEF Unambiguous
  <2> QED
    BY <1>4, <1>6, <2>2
<1>7. CASE ~ (t <= Time(0)) /\ ~ (t >= Time(n - 1))
  <2>1. i \in Slots /\ i - 1 \in Slots /\ Time(i - 1) < t /\ t <= Time(i)
    BY <1>1, <1>2, <1>3, <1>7
  <2>2. i - 1 < k
    BY <2>1, OrderStrict
  <2>3. Time(i) <= Time(k)
    BY <1>1, <2>1, <2>2, OrderStrict
  <2>4. Time(i) = t
    BY <1>1, <2>1, <2>3
  <2>5. Value(i) = Value(k)
    BY <2>1, <2>4 DEF Unambiguous
  <2> QED
    BY <1>4, <1>7, <2>4, <2>5
<1> QED
  BY <1>5, <1>6, <1>7

LEMMA ReadInside ==
  ASSUME TypeOK, TimesInOrder, NEW t \in Int, NEW j, Inside(j, t)
  PROVE  Read(t) = Between(j)
<1>1. /\ n \in Nat /\ n > 0 /\ Slots = 0..n - 1 /\ 0 \in Slots /\ n - 1 \in Slots /\ RingOK
      /\ \A m \in Slots : Time(m) \in Int
  BY LogTypes
<1>2. j \in Slots /\ j - 1 \in Slots /\ Time(j - 1) < t /\ t < Time(j) /\ j \in Int
  BY <1>1 DEF Inside
<1> DEFINE i == FindIndex(t)
<1>3. /\ i \in 0..n /\ (i = 0 => t <= Time(0)) /\ (i # 0 => Time(i - 1) < t) /\ (i # n => t <= Time(i))
  BY <1>1, FindPlace
<1>4. Read(t) = IF t <= Time(0) THEN <<Value(0)>>
                ELSE IF t >= Time(n - 1) THEN <<Value(n - 1)>>
                ELSE IF Time(i) = t THEN <<Value(i)>>
                ELSE Between(i)
  BY DEF Read
<1> HIDE DEF i
<1>5. Time(0) < t /\ t < Time(n - 1)
  <2>1. Time(0) <= Time(j - 1) /\ Time(j) <= Time(n - 1)
    BY <1>1, <1>2, OrderStrict
  <2> QED
    BY <1>1, <1>2, <2>1
<1>6. i \in Slots /\ i - 1 \in Slots /\ Time(i - 1) < t /\ t <= Time(i)
  BY <1>1, <1>3, <1>5
<1>7. i - 1 < j /\ j - 1 < i
  <2>1. Time(i - 1) < Time(j) /\ Time(j - 1) < Time(i)
    BY <1>1, <1>2, <1>6
  <2> QED
    BY <1>2, <1>6, <2>1, OrderStrict
<1>8. i = j
  BY <1>1, <1>2, <1>6, <1>7
<1>9. ~ (t <= Time(0)) /\ ~ (t >= Time(n - 1)) /\ Time(j) # t
  BY <1>1, <1>2, <1>5
<1> QED
  BY <1>4, <1>8, <1>9

LEMMA ReadPast ==
  ASSUME TypeOK, TimesInOrder, NEW t \in Int, Time(n - 1) < t
  PROVE  Read(t) = <<Value(n - 1)>>
<1>1. n - 1 \in Slots /\ 0 \in Slots /\ n \in Nat /\ n > 0 /\ \A m \in Slots : Time(m) \in Int
  BY LogTypes
<1>2. Time(0) <= Time(n - 1)
  BY <1>1, OrderStrict
<1>3. ~ (t <= Time(0)) /\ t >= Time(n - 1)
  BY <1>1, <1>2
<1> QED
  BY <1>3 DEF Read

LEMMA Somewhere ==
  ASSUME TypeOK, TimesInOrder, NEW t \in Int, Time(0) <= t
  PROVE  (\E k \in Slots : Time(k) = t) \/ (\E i \in 1..n - 1 : Inside(i, t)) \/ Time(n - 1) < t
<1>1. /\ n \in Nat /\ n > 0 /\ Slots = 0..n - 1 /\ 0 \in Slots /\ n - 1 \in Slots /\ RingOK
      /\ \A m \in Slots : Time(m) \in Int
  BY LogTypes
<1> DEFINE i == FindIndex(t)
<1>2. /\ i \in 0..n /\ (i = 0 => t <= Time(0)) /\ (i # 0 => Time(i - 1) < t) /\ (i # n => t <= Time(i))
  BY <1>1, FindPlace
<1> HIDE DEF i
<1>3. CASE i = 0
  BY <1>1, <1>2, <1>3
<1>4. CASE i = n
  BY <1>1, <1>2, <1>4
<1>5. CASE i \in 1..n - 1
  <2>1. Time(i - 1) < t /\ t <= Time(i) /\ i \in Slots
    BY <1>1, <1>2, <1>5
  <2> QED
    BY <1>1, <1>5, <2>1 DEF Inside
<1> QED
  BY <1>1, <1>2, <1>3, <1>4, <1>5

-----------------------------------------------------------------------------
(* What the log says of the ring while all that it holds is of this run.   *)

LEMMA RunElements ==
  ASSUME RingInv, LogInv, InRun
  PROVE  /\ \A t : Unambiguous(t)
         /\ \A k \in Slots : Element(k) \in log /\ Element(k).t = Time(k) /\ Element(k).v = Value(k)
         /\ \A j, k \in Slots : Time(j) = Time(k) => Element(j) = Element(k)
         /\ \A j, k \in Slots : Time(j) = Time(k) => j = k \/ Time(j) = Never
<1>1. /\ n \in Nat /\ Slots = 0..n - 1 /\ run \in Nat /\ run >= 1 /\ \A k \in Slots : Time(k) \in Int
  BY LogTypes DEF RingInv
<1>2. \A k \in Slots : Value(k)[1] = run \/ Time(k) < 0
  BY DEF InRun
<1>3. \A j, k \in Slots : j < k /\ Time(j) = Time(k) => Time(k) = Never /\ Value(j) = Value(k)
  BY <1>1, <1>2 DEF LogInv, NoTwins
<1>4. \A j, k \in Slots : Time(j) = Time(k) => Value(j) = Value(k) /\ (j = k \/ Time(j) = Never)
  BY <1>1, <1>3
<1>5. \A k \in Slots : Element(k) \in log /\ Element(k).t = Time(k) /\ Element(k).v = Value(k)
  BY <1>2 DEF LogInv, Stored, Ours, Element
<1>6. \A j, k \in Slots : Time(j) = Time(k) => Element(j) = Element(k)
  BY <1>4 DEF Element
<1>7. \A t : Unambiguous(t)
  BY <1>4 DEF Unambiguous
<1> QED
  BY <1>4, <1>5, <1>6, <1>7

\* nsample samples reach back to t: so do the elements of the ring.
LEMMA CoversOldest ==
  ASSUME RingInv, LogInv, InRun, NEW t \in Int, Covers(t)
  PROVE  Time(0) <= t
<1> SUFFICES ASSUME ~ (Time(0) <= t) PROVE FALSE
  OBVIOUS
<1>1. /\ n \in Nat /\ n > 0 /\ Slots = 0..n - 1 /\ 0 \in Slots /\ TypeOK /\ TimesInOrder
      /\ \A k \in Slots : Time(k) \in Int
      /\ \A s \in log : s.t \in Int /\ s.t \in AnyTime
      /\ \A x \in AnyTime : Never <= x /\ x \in Int
      /\ IsFiniteSet(log)
  <2>1. \A s \in log : s.t \in AnyTime
    BY DEF RingInv, TypeOK
  <2>2. \A x \in AnyTime : Never <= x /\ x \in Int
    BY TimesAssumption DEF AnyTime, Times
  <2> QED
    BY <2>1, <2>2, LogTypes DEF RingInv
<1>2. PICK s \in log : s.t <= t /\ Cardinality({x \in log : x.t > s.t}) < n
  BY DEF Covers
<1> DEFINE Y == {x \in log : x.t > s.t}
<1>3. IsFiniteSet(Y) /\ Cardinality(Y) < n /\ Cardinality(Y) \in Nat
  BY <1>1, <1>2, FS_Subset, FS_CardinalityType
<1>4. \A k \in Slots : Element(k) \in log /\ Element(k).t = Time(k)
  BY RunElements
<1>5. \A k \in Slots : Time(k) > s.t /\ Time(k) # Never
  <2> SUFFICES ASSUME NEW k \in Slots PROVE Time(k) > s.t /\ Time(k) # Never
    OBVIOUS
  <2>1. Time(0) <= Time(k)
    BY <1>1, OrderStrict
  <2>2. Never <= s.t
    BY <1>1
  <2>3. Time(k) \in Int /\ s.t \in Int /\ Time(0) \in Int /\ Never \in Int
    BY <1>1, TimesAssumption
  <2> QED
    BY <1>2, <2>1, <2>2, <2>3
<1>6. \A k \in Slots : Element(k) \in Y
  BY <1>4, <1>5
<1>7. \A j, k \in Slots : Element(j) = Element(k) => j = k
  <2>1. \A j, k \in Slots : Time(j) = Time(k) => j = k \/ Time(j) = Never
    BY RunElements
  <2> QED
    BY <1>4, <1>5, <2>1
<1> HIDE DEF Y
<1> DEFINE f == [k \in Slots |-> Element(k)]
<1>8. f \in Injection(Slots, Y)
  BY <1>6, <1>7 DEF Injection, IsInjective
<1>9. IsFiniteSet(Slots) /\ Cardinality(Slots) = n
  <2>1. 0 \in Int /\ n - 1 \in Int
    BY <1>1
  <2>2. IsFiniteSet(0..n - 1) /\ Cardinality(0..n - 1) = IF 0 > n - 1 THEN 0 ELSE (n - 1) - 0 + 1
    BY <2>1, FS_Interval
  <2> QED
    BY <1>1, <2>2
<1>10. Cardinality(Slots) <= Cardinality(Y)
  BY <1>3, <1>8, FS_Injection
<1> QED
  BY <1>1, <1>3, <1>9, <1>10

\* A loaded sample that is left is proof that none was displaced.
LEMMA RingTop ==
  ASSUME RingInv, LogInv, InRun, NEW s \in log
  PROVE  InRing(s) \/ s.t <= Time(0)
<1>1. \A x \in log : x.t \in Int /\ x.v[3] \in Nat
  BY LogTypes DEF RingInv
<1> SUFFICES ASSUME Displaced(s) PROVE FALSE
  BY DEF LogInv, LostAreOld
<1>2. PICK y \in log : Fed(y) /\ \A x \in log : ~ Fed(x) => y.t < x.t
  BY DEF Displaced
<1>3. s.v[3] = 0
  BY <1>1 DEF Displaced, Fed
<1>4. PICK x \in log : x.v[3] = 0 /\ \A z \in log : z.v[3] # 0 => x.t <= z.t
  BY <1>3 DEF InRun, Rooted
<1>5. x.t <= y.t /\ y.t < x.t
  BY <1>1, <1>2, <1>4 DEF Fed
<1> QED
  BY <1>1, <1>5

-----------------------------------------------------------------------------
(* The ideal history.                                                      *)

LEMMA IdealFound ==
  ASSUME NEW S, \A s \in S : s.t \in Int, \A s, x \in S : s.t = x.t => s = x,
         NEW t \in Int, NEW b \in S, b.t <= t, \A x \in S : x.t <= t => x.t <= b.t
  PROVE  /\ b.t = t => IdealRead(S, t) = <<b.v>>
         /\ (\A x \in S : x.t < t) => IdealRead(S, t) = <<b.v>>
         /\ \A a \in S : b.t < t /\ t < a.t /\ (\A x \in S : t <= x.t => a.t <= x.t) =>
              IdealRead(S, t) = IF channel.interp = ZeroOrderHold THEN <<b.v>> ELSE <<b.v, a.v>>
<1> DEFINE older == {s \in S : s.t <= t}
           younger == {s \in S : s.t >= t}
           before == CHOOSE s \in older : \A x \in older : x.t <= s.t
           after == CHOOSE s \in younger : \A x \in younger : s.t <= x.t
<1>1. IdealRead(S, t) = IF older = {} THEN <<after.v>>
                        ELSE IF younger = {} \/ channel.interp = ZeroOrderHold THEN <<before.v>>
                        ELSE IF before = after THEN <<before.v>>
                        ELSE <<before.v, after.v>>
  BY DEF IdealRead
<1>2. b \in older /\ older # {}
  OBVIOUS
<1>3. before = b
  <2>1. \E s \in older : \A x \in older : x.t <= s.t
    BY <1>2
  <2>2. before \in older /\ \A x \in older : x.t <= before.t
    BY <2>1, Zenon
  <2> HIDE DEF before
  <2>3. before \in S /\ before.t <= b.t /\ b.t <= before.t
    BY <1>2, <2>2
  <2> QED
    BY <2>3
<1>4. ASSUME NEW a \in S, a.t >= t, \A x \in S : t <= x.t => a.t <= x.t
      PROVE  after = a /\ younger # {}
  <2>1. a \in younger /\ \A x \in younger : a.t <= x.t
    BY <1>4
  <2>2. \E s \in younger : \A x \in younger : s.t <= x.t
    BY <2>1
  <2>3. after \in younger /\ \A x \in younger : after.t <= x.t
    BY <2>2, Zenon
  <2> HIDE DEF after
  <2>4. after \in S /\ after.t <= a.t /\ a.t <= after.t
    BY <2>1, <2>3
  <2> QED
    BY <2>1, <2>4
<1>5. ASSUME b.t = t PROVE IdealRead(S, t) = <<b.v>>
  <2>1. after = b /\ younger # {}
    BY <1>4, <1>5
  <2> HIDE DEF before, after, older, younger
  <2> QED
    BY <1>1, <1>2, <1>3, <2>1
<1>6. ASSUME \A x \in S : x.t < t PROVE IdealRead(S, t) = <<b.v>>
  <2>1. younger = {}
    BY <1>6
  <2> HIDE DEF before, after, older, younger
  <2> QED
    BY <1>1, <1>2, <1>3, <2>1
<1>7. ASSUME NEW a \in S, b.t < t, t < a.t, \A x \in S : t <= x.t => a.t <= x.t
      PROVE  IdealRead(S, t) = IF channel.interp = ZeroOrderHold THEN <<b.v>> ELSE <<b.v, a.v>>
  <2>1. after = a /\ younger # {}
    BY <1>4, <1>7
  <2>2. a # b
    BY <1>7
  <2> HIDE DEF before, after, older, younger
  <2> QED
    BY <1>1, <1>2, <1>3, <2>1, <2>2
<1> QED
  BY <1>5, <1>6, <1>7

\* What the elements say that an ideal history would return.
LEMMA IdealElements ==
  ASSUME RingInv, LogInv, InRun, NEW t \in Int, Time(0) <= t
  PROVE  /\ \A k \in Slots : Time(k) = t => IdealRead(log, t) = <<Value(k)>>
         /\ Time(n - 1) < t => IdealRead(log, t) = <<Value(n - 1)>>
         /\ \A i \in 1..n - 1 : Inside(i, t) =>
              IdealRead(log, t) = IF channel.interp = ZeroOrderHold THEN <<Value(i - 1)>>
                                  ELSE <<Value(i - 1), Value(i)>>
<1>1. /\ n \in Nat /\ n > 0 /\ Slots = 0..n - 1 /\ 0 \in Slots /\ n - 1 \in Slots /\ TypeOK /\ TimesInOrder
      /\ \A k \in Slots : Time(k) \in Int
      /\ \A s \in log : s.t \in Int
      /\ \A s, x \in log : s.t = x.t => s = x
  BY LogTypes DEF RingInv, LogInv, LogOnce
<1>2. \A k \in Slots : Element(k) \in log /\ Element(k).t = Time(k) /\ Element(k).v = Value(k)
  BY RunElements
<1>3. \A s \in log : (\E k \in Slots : s.t = Time(k)) \/ s.t <= Time(0)
  <2> SUFFICES ASSUME NEW s \in log PROVE (\E k \in Slots : s.t = Time(k)) \/ s.t <= Time(0)
    OBVIOUS
  <2>1. InRing(s) \/ s.t <= Time(0)
    BY RingTop
  <2> QED
    BY <1>2, <2>1 DEF InRing
<1>4. ASSUME NEW k \in Slots, Time(k) = t PROVE IdealRead(log, t) = <<Value(k)>>
  <2> DEFINE b == Element(k)
  <2>1. b \in log /\ b.t = t /\ b.v = Value(k)
    BY <1>2, <1>4
  <2> HIDE DEF b
  <2>2. b.t <= t /\ \A x \in log : x.t <= t => x.t <= b.t
    BY <2>1
  <2>3. IdealRead(log, t) = <<b.v>>
    BY <1>1, <2>1, <2>2, IdealFound
  <2> QED
    BY <2>1, <2>3
<1>5. ASSUME Time(n - 1) < t PROVE IdealRead(log, t) = <<Value(n - 1)>>
  <2> DEFINE b == Element(n - 1)
  <2>1. b \in log /\ b.t = Time(n - 1) /\ b.v = Value(n - 1)
    BY <1>1, <1>2
  <2>2. \A k \in Slots : Time(k) <= Time(n - 1)
    BY <1>1, OrderStrict
  <2>3. \A x \in log : x.t <= Time(n - 1)
    <3> SUFFICES ASSUME NEW x \in log PROVE x.t <= Time(n - 1)
      OBVIOUS
    <3>1. CASE \E k \in Slots : x.t = Time(k)
      BY <2>2, <3>1
    <3>2. CASE x.t <= Time(0)
      <4>1. Time(0) <= Time(n - 1) /\ Time(0) \in Int /\ Time(n - 1) \in Int /\ x.t \in Int
        BY <1>1, <2>2
      <4> QED
        BY <3>2, <4>1
    <3> QED
      BY <1>3, <3>1, <3>2
  <2> HIDE DEF b
  <2>4. /\ b.t <= t
        /\ \A x \in log : x.t < t
        /\ \A x \in log : x.t <= t => x.t <= b.t
    <3>1. Time(n - 1) \in Int
      BY <1>1
    <3> QED
      BY <1>1, <1>5, <2>1, <2>3, <3>1
  <2>5. IdealRead(log, t) = <<b.v>>
    BY <1>1, <2>1, <2>4, IdealFound
  <2> QED
    BY <2>1, <2>5
<1>6. ASSUME NEW i \in 1..n - 1, Inside(i, t)
      PROVE  IdealRead(log, t) = IF channel.interp = ZeroOrderHold THEN <<Value(i - 1)>>
                                 ELSE <<Value(i - 1), Value(i)>>
  <2>1. i - 1 \in Slots /\ i \in Slots /\ Time(i - 1) < t /\ t < Time(i) /\ i \in Int
    BY <1>1, <1>6 DEF Inside
  <2> DEFINE b == Element(i - 1)  a == Element(i)
  <2>2. b \in log /\ b.t = Time(i - 1) /\ b.v = Value(i - 1) /\ a \in log /\ a.t = Time(i) /\ a.v = Value(i)
    BY <1>2, <2>1
  <2> HIDE DEF a, b
  <2>3. \A k \in Slots : Time(k) <= Time(i - 1) \/ Time(i) <= Time(k)
    <3> SUFFICES ASSUME NEW k \in Slots PROVE Time(k) <= Time(i - 1) \/ Time(i) <= Time(k)
      OBVIOUS
    <3>1. k <= i - 1 \/ i <= k
      BY <1>1, <2>1
    <3> QED
      BY <1>1, <2>1, <3>1, OrderStrict
  <2>4. \A x \in log : x.t <= Time(i - 1) \/ Time(i) <= x.t
    <3> SUFFICES ASSUME NEW x \in log PROVE x.t <= Time(i - 1) \/ Time(i) <= x.t
      OBVIOUS
    <3>1. CASE \E k \in Slots : x.t = Time(k)
      BY <2>3, <3>1
    <3>2. CASE x.t <= Time(0)
      <4>1. 0 <= i - 1
        BY <1>6
      <4>2. Time(0) <= Time(i - 1) /\ Time(0) \in Int /\ Time(i - 1) \in Int /\ x.t \in Int
        BY <1>1, <2>1, <4>1, OrderStrict
      <4> QED
        BY <3>2, <4>2
    <3> QED
      BY <1>3, <3>1, <3>2
  <2>5. /\ b.t <= t /\ b.t < t /\ t < a.t
        /\ \A x \in log : x.t <= t => x.t <= b.t
        /\ \A x \in log : t <= x.t => a.t <= x.t
    <3>1. Time(i - 1) \in Int /\ Time(i) \in Int
      BY <1>1, <2>1
    <3> QED
      BY <1>1, <2>1, <2>2, <2>4, <3>1
  <2>6. IdealRead(log, t) = IF channel.interp = ZeroOrderHold THEN <<b.v>> ELSE <<b.v, a.v>>
    BY <1>1, <2>2, <2>5, IdealFound
  <2> QED
    BY <2>2, <2>6
<1> QED
  BY <1>4, <1>5, <1>6

\* The values r are those of the ideal history, with others around them when
\* exact is not asked for.
Contains(r, ideal, exact) ==
  \E k \in 1..Len(r) - Len(ideal) + 1 :
    SubSeq(r, k, k + Len(ideal) - 1) = ideal /\ (exact => Len(r) = Len(ideal))

LEMMA ContainsItself ==
  ASSUME NEW S, NEW r \in Seq(S), NEW exact
  PROVE  Contains(r, r, exact)
<1>1. Len(r) \in Nat /\ 1 \in 1..Len(r) - Len(r) + 1
  OBVIOUS
<1>2. SubSeq(r, 1, 1 + Len(r) - 1) = r
  <2>1. 1 + Len(r) - 1 = Len(r)
    BY <1>1
  <2>2. SubSeq(r, 1, Len(r)) = r
    OBVIOUS
  <2> QED
    BY <2>1, <2>2
<1> QED
  BY <1>1, <1>2 DEF Contains

LEMMA ContainsPart ==
  ASSUME NEW S, NEW A \in Seq(S), NEW B \in Seq(S), NEW C \in Seq(S)
  PROVE  Contains(A \o B \o C, B, FALSE)
<1> DEFINE D == A \o B  r == D \o C  a == Len(A)  b == Len(B)
<1>1. D \in Seq(S) /\ Len(D) = a + b /\ \A i \in 1..a + b : D[i] = IF i <= a THEN A[i] ELSE B[i - a]
  BY ConcatProperties
<1>2. a \in Nat /\ b \in Nat /\ Len(C) \in Nat
  OBVIOUS
<1> HIDE DEF D
<1>D. D \in Seq(S)
  BY <1>1
<1>3. /\ r \in Seq(S) /\ Len(r) = Len(D) + Len(C)
      /\ \A i \in 1..Len(D) + Len(C) : r[i] = IF i <= Len(D) THEN D[i] ELSE C[i - Len(D)]
  BY <1>D, ConcatProperties
<1> HIDE DEF r, a, b
<1>4. \A i \in 1..b : r[a + i] = B[i]
  <2> SUFFICES ASSUME NEW i \in 1..b PROVE r[a + i] = B[i]
    OBVIOUS
  <2>1. a + i \in 1..a + b /\ ~ (a + i <= a) /\ (a + i) - a = i
    BY <1>2
  <2>2. D[a + i] = B[i]
    BY <1>1, <2>1
  <2>3. a + i \in 1..Len(D) + Len(C) /\ a + i <= Len(D)
    BY <1>1, <1>2, <2>1
  <2> QED
    BY <1>3, <2>2, <2>3
<1> DEFINE p == SubSeq(r, a + 1, a + b)
<1>5. \A i \in a + 1..a + b : r[i] \in S
  BY <1>1, <1>2, <1>3
<1>6. a + 1 \in Int /\ a + b \in Int
  BY <1>2
<1>7. /\ p \in Seq(S) /\ Len(p) = (IF a + 1 <= a + b THEN (a + b) - (a + 1) + 1 ELSE 0)
      /\ \A i \in 1..(a + b) - (a + 1) + 1 : p[i] = r[(a + 1) + i - 1]
  BY <1>5, <1>6, SubSeqProperties
<1> HIDE DEF p
<1>8. Len(p) = b /\ \A i \in 1..b : p[i] = B[i]
  <2>1. Len(p) = b
    BY <1>2, <1>7
  <2>2. \A i \in 1..b : i \in 1..(a + b) - (a + 1) + 1 /\ (a + 1) + i - 1 = a + i
    BY <1>2
  <2>3. \A i \in 1..b : p[i] = r[(a + 1) + i - 1] /\ (a + 1) + i - 1 = a + i
    BY <1>7, <2>2
  <2> QED
    BY <1>4, <2>1, <2>3
<1>9. p = B
  <2>1. Len(B) = b
    BY DEF b
  <2> QED
    BY <1>7, <1>8, <2>1, SeqEqual
<1>10. SubSeq(r, a + 1, (a + 1) + Len(B) - 1) = B
  <2>1. (a + 1) + Len(B) - 1 = a + b
    BY <1>2 DEF b
  <2> QED
    BY <1>9, <2>1 DEF p
<1>11. a + 1 \in 1..Len(r) - Len(B) + 1
  BY <1>1, <1>2, <1>3 DEF b
<1>12. Contains(r, B, FALSE)
  BY <1>10, <1>11 DEF Contains
<1> QED
  BY <1>12 DEF r, D

LEMMA SplinePairs ==
  ASSUME NEW i
  PROVE  Contains(Spline(i), <<Value(i - 1), Value(i)>>, FALSE)
<1> DEFINE S == {Value(i - 2), Value(i - 1), Value(i), Value(i + 1)}
           A == IF i > 1 THEN <<Value(i - 2)>> ELSE <<>>
           B == <<Value(i - 1), Value(i)>>
           C == IF i < n - 1 THEN <<Value(i + 1)>> ELSE <<>>
<1>1. A \in Seq(S) /\ B \in Seq(S) /\ C \in Seq(S)
  <2>1. A \in Seq(S)
    <3>1. <<Value(i - 2)>> \in Seq(S) /\ <<>> \in Seq(S)
      OBVIOUS
    <3> HIDE DEF S
    <3> QED
      BY <3>1, Zenon
  <2>2. B \in Seq(S)
    OBVIOUS
  <2>3. C \in Seq(S)
    <3>1. <<Value(i + 1)>> \in Seq(S) /\ <<>> \in Seq(S)
      OBVIOUS
    <3> HIDE DEF S
    <3> QED
      BY <3>1, Zenon
  <2> QED
    BY <2>1, <2>2, <2>3
<1>2. Spline(i) = A \o B \o C
  BY DEF Spline
<1> HIDE DEF A, B, C, S
<1>3. Contains(A \o B \o C, B, FALSE)
  BY <1>1, ContainsPart
<1> QED
  BY <1>2, <1>3 DEF B

LEMMA DelayedRead ==
  ASSUME RingInv, LogInv, InRun, NEW t \in Int, Covers(t)
  PROVE  Contains(Read(t), IdealRead(log, t), channel.interp # Cubic)
<1>1. /\ n \in Nat /\ n > 0 /\ Slots = 0..n - 1 /\ n - 1 \in Slots /\ TypeOK /\ TimesInOrder
      /\ \A k \in Slots : Value(k) \in AnyValue
  BY LogTypes DEF RingInv
<1>2. Time(0) <= t
  BY CoversOldest
<1>3. \A v \in AnyValue : Contains(<<v>>, <<v>>, channel.interp # Cubic)
  <2> SUFFICES ASSUME NEW v \in AnyValue PROVE Contains(<<v>>, <<v>>, channel.interp # Cubic)
    OBVIOUS
  <2>1. <<v>> \in Seq(AnyValue)
    OBVIOUS
  <2> QED
    BY <2>1, ContainsItself
<1>4. ASSUME NEW k \in Slots, Time(k) = t PROVE Contains(Read(t), IdealRead(log, t), channel.interp # Cubic)
  <2>1. Unambiguous(t)
    BY RunElements
  <2>2. Read(t) = <<Value(k)>>
    BY <1>1, <1>4, <2>1, ReadAt
  <2>3. IdealRead(log, t) = <<Value(k)>>
    BY <1>2, <1>4, IdealElements
  <2> QED
    BY <1>1, <1>3, <2>2, <2>3
<1>5. CASE Time(n - 1) < t
  <2>1. Read(t) = <<Value(n - 1)>>
    BY <1>1, <1>5, ReadPast
  <2>2. IdealRead(log, t) = <<Value(n - 1)>>
    BY <1>2, <1>5, IdealElements
  <2> QED
    BY <1>1, <1>3, <2>1, <2>2
<1>6. ASSUME NEW i \in 1..n - 1, Inside(i, t)
      PROVE  Contains(Read(t), IdealRead(log, t), channel.interp # Cubic)
  <2>1. Read(t) = Between(i)
    BY <1>1, <1>6, ReadInside
  <2>2. IdealRead(log, t) = IF channel.interp = ZeroOrderHold THEN <<Value(i - 1)>>
                            ELSE <<Value(i - 1), Value(i)>>
    BY <1>2, <1>6, IdealElements
  <2>3. i - 1 \in Slots /\ i \in Slots
    BY <1>1
  <2>4. channel.interp \in {0, 1, 2}
    BY <1>1, Constants DEF TypeOK
  <2>5. CASE channel.interp = 0
    <3>1. Between(i) = <<Value(i - 1)>>
      BY <2>5 DEF Between, ZeroOrderHold, Linear, Cubic
    <3>2. IdealRead(log, t) = <<Value(i - 1)>>
      BY <2>2, <2>5 DEF ZeroOrderHold
    <3> QED
      BY <1>1, <1>3, <2>1, <2>3, <3>1, <3>2
  <2>6. CASE channel.interp = 1
    <3> DEFINE r == <<Value(i - 1), Value(i)>>
    <3>1. r \in Seq(AnyValue)
      BY <1>1, <2>3
    <3>2. Read(t) = r
      <4>1. Between(i) = <<Value(i - 1), Value(i)>>
        BY <2>6 DEF Between, ZeroOrderHold, Linear, Cubic
      <4> QED
        BY <2>1, <4>1
    <3>3. IdealRead(log, t) = r
      BY <2>2, <2>6 DEF ZeroOrderHold
    <3> HIDE DEF r
    <3>4. Contains(r, r, channel.interp # Cubic)
      BY <3>1, ContainsItself
    <3> QED
      BY <3>2, <3>3, <3>4
  <2>7. CASE channel.interp = 2
    <3>1. Read(t) = Spline(i) /\ IdealRead(log, t) = <<Value(i - 1), Value(i)>>
      BY <2>1, <2>2, <2>7 DEF Between, ZeroOrderHold, Linear, Cubic
    <3>2. Contains(Read(t), IdealRead(log, t), FALSE)
      BY <3>1, SplinePairs
    <3>3. ~ (channel.interp # Cubic)
      BY <2>7 DEF Cubic
    <3> QED
      BY <3>2, <3>3 DEF Contains
  <2> QED
    BY <2>4, <2>5, <2>6, <2>7
<1> QED
  BY <1>1, <1>2, <1>4, <1>5, <1>6, Somewhere

LEMMA DelayedStep ==
  ASSUME RingInv, LogInv, [Next]_vars, evals' = evals + 1, channel.delay > 0
  PROVE  /\ Forward
         /\ channel.lists = 1 \/ ~ Due(user) \/ ~ channel.sensor => reading' = Read(time - channel.delay)
         /\ channel.lists = 2 /\ Due(user) /\ channel.sensor =>
              Insert(time, Stores) /\ reading' = Before(Read(time - channel.delay)')
<1>1. evals \in Nat
  BY LogTypes DEF RingInv
<1>2. Forward
  <2>1. ~ InitHistory /\ ~ (UNCHANGED vars)
    BY <1>1 DEF InitHistory, vars
  <2>2. ~ Advance /\ ~ Reset
    BY <1>1 DEF Advance, Reset
  <2> QED
    BY <2>1, <2>2 DEF Next
<1>3. channel.delay \in Nat /\ channel.lists \in {1, 2}
  BY Constants DEF RingInv, TypeOK
<1>4. CASE ReadCtrl
  BY <1>2, <1>3, <1>4 DEF ReadCtrl
<1>5. CASE ApplySensorDelay
  BY <1>2, <1>3, <1>5 DEF ApplySensorDelay, Delivered
<1> QED
  BY <1>2, <1>4, <1>5 DEF Forward

\* A delayed control or sensor is what a history of the whole run would give,
\* for rings, delays and interpolations of any kind and samples at any times:
\* but for the limit force sensors, which are in two lists.
THEOREM DelaysAreExact == Spec => DelayedExact
<1>1. RingInv /\ LogInv /\ [Next]_vars => ExactDelay
  <2> SUFFICES ASSUME RingInv, LogInv, [Next]_vars, evals' = evals + 1, channel.delay > 0,
                      channel.lists = 1, InRun, Covers(time - channel.delay)
               PROVE  Contains(reading', IdealRead(log, time - channel.delay), channel.interp # Cubic)
    BY DEF Contains, ExactDelay
  <2>1. reading' = Read(time - channel.delay)
    BY DelayedStep
  <2>2. time - channel.delay \in Int
    BY LogTypes, Constants DEF RingInv, TypeOK
  <2> QED
    BY <2>1, <2>2, DelayedRead
<1> QED
  BY <1>1, LogInductive, PTL DEF DelayedExact, Spec

-----------------------------------------------------------------------------
(* Interval sensors.                                                       *)

\* Every element is of the past, so the last one is what an ideal history holds.
LEMMA LastHeld ==
  ASSUME RingInv, LogInv, InRun
  PROVE  Read(time) = IdealRead(log, time)
<1>1. /\ n - 1 \in Slots /\ 0 \in Slots /\ TypeOK /\ TimesInOrder /\ time \in Int
      /\ \A k \in Slots : Time(k) \in Int /\ Time(k) <= time
  BY LogTypes DEF RingInv, InRun
<1>2. CASE Time(n - 1) = time
  <2>1. Unambiguous(time)
    BY RunElements
  <2>2. Read(time) = <<Value(n - 1)>>
    BY <1>1, <1>2, <2>1, ReadAt
  <2>3. IdealRead(log, time) = <<Value(n - 1)>>
    BY <1>1, <1>2, IdealElements
  <2> QED
    BY <2>2, <2>3
<1>3. CASE Time(n - 1) < time
  <2>1. Read(time) = <<Value(n - 1)>>
    BY <1>1, <1>3, ReadPast
  <2>2. IdealRead(log, time) = <<Value(n - 1)>>
    BY <1>1, <1>3, IdealElements
  <2> QED
    BY <2>1, <2>2
<1> QED
  BY <1>1, <1>2, <1>3

FreshRead == \A s \in log : s.t = time => IdealRead(log, time) = <<s.v>>

LEMMA FreshHeld == RingInv /\ LogInv => FreshRead
<1> SUFFICES ASSUME RingInv, LogInv, NEW s \in log, s.t = time PROVE IdealRead(log, time) = <<s.v>>
  BY DEF FreshRead
<1>1. /\ time \in Int
      /\ \A x \in log : x.t \in Int
      /\ \A x, y \in log : x.t = y.t => x = y
  BY LogTypes DEF RingInv, LogInv, LogOnce
<1>2. s.t <= time /\ \A x \in log : x.t <= time => x.t <= s.t
  BY <1>1
<1> QED
  BY <1>1, <1>2, IdealFound

LEMMA HeldStep == RingInv /\ LogInv /\ FreshRead' /\ IntervalHeld /\ [Next]_vars => IntervalHeld'
<1> SUFFICES ASSUME RingInv, LogInv, FreshRead', IntervalHeld, [Next]_vars,
                    channel'.sensor, channel'.period > 0, channel'.delay = 0, evals' > 0, InRun'
             PROVE  reading' = IdealRead(log, time)'
  BY DEF IntervalHeld
<1>1. evals \in Nat
  BY LogTypes DEF RingInv
<1>2. CASE UNCHANGED vars
  <2>1. InRun
    BY <1>2 DEF InRun, Rooted, Time, Value, Physical, Slots, n, vars, buffer
  <2>2. reading = IdealRead(log, time)
    BY <1>2, <2>1 DEF IntervalHeld, vars
  <2>3. IdealRead(log, time)' = IdealRead(log, time)
    BY <1>2 DEF IdealRead, vars
  <2> QED
    BY <1>2, <2>2, <2>3 DEF vars
<1>3. CASE ~ (UNCHANGED vars)
  <2>1. Forward
    <3>1. ~ InitHistory /\ ~ Advance /\ ~ Reset
      BY <1>1 DEF InitHistory, Advance, Reset
    <3> QED
      BY <1>3, <3>1 DEF Next
  <2>2. channel' = channel /\ time' = time /\ run' = run /\ ApplySensorDelay
    BY <2>1 DEF Forward, ReadCtrl
  <2>3. CASE ~ Due(user)
    <3>1. reading' = Read(time) /\ UNCHANGED <<user, buffer, log>>
      BY <2>2, <2>3 DEF ApplySensorDelay, Delivered
    <3>2. InRun
      BY <2>2, <3>1 DEF InRun, Rooted, Time, Value, Physical, Slots, n, buffer
    <3>3. IdealRead(log, time)' = IdealRead(log, time)
      BY <2>2, <3>1 DEF IdealRead
    <3> QED
      BY <3>1, <3>2, <3>3, LastHeld
  <2>4. CASE Due(user)
    <3>1. Delivered = <<Fresh>>
      BY <2>2, <2>4 DEF Delivered
    <3>2. Stores = Fresh /\ reading' = <<Fresh>> /\ log' = Logged(time, Fresh)
      BY <2>2, <2>4, <3>1 DEF ApplySensorDelay, Stores
    <3> DEFINE new == [t |-> time, v |-> Fresh]
    <3>3. new \in log' /\ new.t = time' /\ new.v = Fresh
      BY <2>2, <3>2 DEF Logged
    <3> HIDE DEF new
    <3>4. IdealRead(log, time)' = <<new.v>>
      BY <3>3 DEF FreshRead
    <3> QED
      BY <3>2, <3>3, <3>4
  <2> QED
    BY <2>3, <2>4
<1> QED
  BY <1>2, <1>3

LEMMA HeldInit == Init => IntervalHeld
<1> SUFFICES ASSUME Init, evals > 0 PROVE FALSE
  BY DEF IntervalHeld
<1> QED
  BY DEF Init

Samples == {s \in log : Fed(s)}

LEMMA PaceInit == Init => Pace
<1> SUFFICES ASSUME Init, channel.sensor PROVE Pace
  BY DEF Pace
<1>1. Samples = {}
  BY DEF Init, Samples, Fed
<1>2. Cardinality(Samples) = 0
  BY <1>1, FS_EmptySet
<1>3. channel.period \in Nat
  BY Constants DEF Init
<1> DEFINE c == Cardinality(Samples)
<1>4. c = 0 /\ user = 0 /\ phase = 0 /\ time = 0 /\ evals = 0
  BY <1>2 DEF Init
<1>5. Pace <=> (RecentPhases /\ channel.sensor /\ channel.period >= Step /\ run = 1 =>
                  /\ user = phase + channel.period * c
                  /\ user <= time /\ time < user + channel.period + Step
                  /\ evals > 0 => ~ Due(user))
  BY DEF Pace, Samples
<1> HIDE DEF c
<1> QED
  BY <1>3, <1>4, <1>5 DEF Step

\* Forward feeds one sample for each period that has passed.
LEMMA PaceStep == RingInv /\ LogInv /\ Pace /\ [Next]_vars => Pace'
<1> SUFFICES ASSUME RingInv, LogInv, Pace, [Next]_vars, RecentPhases, channel'.sensor,
                    channel'.period >= Step, run' = 1
             PROVE  /\ user' = phase' + channel'.period * Cardinality(Samples')
                    /\ user' <= time' /\ time' < user' + channel'.period + Step
                    /\ evals' > 0 => ~ Due(user)'
  BY DEF Pace, RecentPhases, Samples
<1> DEFINE c == Cardinality(Samples)  d == Cardinality(Samples')  p == channel.period
<1>1. /\ channel' = channel /\ p \in Nat /\ p >= 2 /\ channel.sensor /\ Step = 2
      /\ time \in Nat /\ run \in Nat /\ run >= 1 /\ evals \in Nat /\ user \in Int /\ phase \in Int
  <2>1. channel' = channel
    BY DEF Next, InitHistory, Forward, Advance, Reset, vars
  <2>2. channel.period \in Nat /\ user \in Int /\ phase \in Int
    BY Constants DEF RingInv, TypeOK
  <2> QED
    BY <2>1, <2>2, LogTypes DEF RingInv, Step
<1>2. IsFiniteSet(Samples) /\ c \in Nat
  <2>1. IsFiniteSet(Samples)
    BY FS_Subset DEF RingInv, Samples
  <2> QED
    BY <2>1, FS_CardinalityType
<1>3. run = 1 => /\ user = phase + p * c
                 /\ user <= time /\ time < user + p + 2
                 /\ evals > 0 => ~ Due(user)
  BY <1>1 DEF Pace, Samples
<1>4. ~ Reset
  BY <1>1 DEF Reset
<1> HIDE DEF c, d, p
<1>5. SUFFICES /\ user' = phase' + p * d
               /\ user' <= time' /\ time' < user' + p + 2
               /\ evals' > 0 => ~ (user' + p <= time')
  BY <1>1 DEF Due, d, p
<1>6. CASE UNCHANGED vars
  <2>1. d = c
    BY <1>6 DEF c, d, Samples, Fed, vars
  <2> QED
    BY <1>1, <1>3, <1>6, <2>1 DEF vars, Due, p
<1>7. CASE InitHistory
  <2>1. Samples' = {}
    BY <1>7 DEF InitHistory, Samples, Fed
  <2>2. d = 0
    BY <2>1, FS_EmptySet DEF d
  <2>3. PICK q \in Phases : user' = time + q
    BY <1>1, <1>7 DEF InitHistory
  <2>4. q \in Int /\ q <= 0 /\ -q <= p
    <3>1. channel \in Channels
      BY DEF RingInv, TypeOK
    <3> QED
      BY <1>1, <3>1, TimesAssumption DEF RecentPhases, p, Step
  <2>5. phase' = user' /\ time' = time /\ evals' = 0
    BY <1>7 DEF InitHistory
  <2> QED
    BY <1>1, <2>2, <2>3, <2>4, <2>5
<1>8. CASE Forward
  <2>1. time' = time /\ run' = run /\ phase' = phase /\ ApplySensorDelay
    BY <1>1, <1>8 DEF Forward, ReadCtrl
  <2>2. CASE ~ Due(user)
    <3>1. user' = user /\ log' = log
      BY <1>1, <2>1, <2>2 DEF ApplySensorDelay, p
    <3>2. d = c
      BY <3>1 DEF c, d, Samples, Fed
    <3> QED
      BY <1>1, <1>3, <2>1, <2>2, <3>1, <3>2 DEF Due, p
  <2>3. CASE Due(user)
    <3>1. user' = user + p /\ log' = Logged(time, Stores)
      <4>1. FollowingUser(user) = user + p
        BY <1>1 DEF FollowingUser, p
      <4>2. ~ Due(FollowingUser(user))
        BY <1>1, <1>3, <2>1, <4>1 DEF Due, p
      <4>3. ~ Again
        BY <4>2 DEF Again
      <4> QED
        BY <2>1, <2>3, <4>1, <4>3 DEF ApplySensorDelay
    <3>2. evals = 0
      BY <1>1, <1>3, <2>1, <2>3
    <3> DEFINE new == [t |-> time, v |-> Stores]
    <3>3. new.t = time /\ Fed(new)
      BY <1>1, Marked DEF Fed
    <3>4. \A s \in Samples : s.t # time
      <4>1. \A s \in Samples : s.t < time /\ s.t \in Int
        BY <3>2, LogTypes DEF LogInv, FedInTime, Samples, RingInv
      <4> QED
        BY <1>1, <4>1
    <3>5. Samples' = Samples \cup {new}
      <4>1. log' = {s \in log : s.t # time} \cup {new}
        BY <3>1 DEF Logged
      <4>2. Samples' = {s \in log' : Fed(s)}
        BY DEF Samples, Fed
      <4> HIDE DEF new
      <4> QED
        BY <3>3, <3>4, <4>1, <4>2 DEF Samples
    <3>6. new \notin Samples
      BY <3>3, <3>4
    <3> HIDE DEF new
    <3>7. d = c + 1
      BY <1>2, <3>5, <3>6, FS_AddElement DEF c, d
    <3>8. p * d = p * c + p
      BY <1>1, <1>2, <3>7
    <3>9. p * c \in Int
      BY <1>1, <1>2
    <3> DEFINE x == p * c
    <3>10. user = phase + x /\ p * d = x + p /\ x \in Int
      BY <1>3, <2>1, <3>8, <3>9
    <3>11. user + p <= time /\ time < user + p + 2
      BY <1>1, <1>3, <2>1, <2>3 DEF Due, p
    <3> HIDE DEF x
    <3> QED
      BY <1>1, <2>1, <3>1, <3>10, <3>11
  <2> QED
    BY <2>2, <2>3
<1>9. CASE Advance
  <2>1. /\ time' = time + 2 /\ evals' = 0 /\ log' = log /\ user' = user /\ phase' = phase /\ run' = run
        /\ evals >= channel.evals
    BY <1>1, <1>9 DEF Advance
  <2>2. evals > 0
    <3>1. channel.evals \in {1, 4}
      BY Constants DEF RingInv, TypeOK
    <3> QED
      BY <1>1, <2>1, <3>1
  <2>3. d = c
    BY <2>1 DEF c, d, Samples, Fed
  <2> QED
    BY <1>1, <1>3, <2>1, <2>2, <2>3 DEF Due, p
<1> QED
  BY <1>4, <1>6, <1>7, <1>8, <1>9 DEF Next

LEMMA Quotient ==
  ASSUME NEW p \in Nat, p > 0, NEW c \in Nat, NEW a \in Int, p * c <= a, a < p * c + p
  PROVE  a \div p = c
<1> DEFINE q == a \div p  r == a % p
<1>1. a = p * q + r /\ q \in Int /\ r \in 0..p - 1
  OBVIOUS
<1> HIDE DEF q, r
<1>2. CASE q >= c + 1
  <2>1. p * q >= p * (c + 1)
    BY <1>1, <1>2
  <2>2. p * (c + 1) = p * c + p
    OBVIOUS
  <2> QED
    BY <1>1, <2>1, <2>2
<1>3. CASE q <= c - 1
  <2>1. p * q <= p * (c - 1)
    BY <1>1, <1>3
  <2>2. p * (c - 1) = p * c - p
    OBVIOUS
  <2> QED
    BY <1>1, <2>1, <2>2
<1>4. q = c
  BY <1>1, <1>2, <1>3
<1> QED
  BY <1>4 DEF q

LEMMA PaceExact == RingInv /\ Pace => NoDrift
<1> SUFFICES ASSUME RingInv, Pace, RecentPhases, channel.sensor, channel.period >= Step, run = 1, evals > 0
             PROVE  Cardinality(Samples) = (time - phase) \div channel.period
  BY DEF NoDrift, Samples, Fed
<1> DEFINE c == Cardinality(Samples)  p == channel.period
<1>1. p \in Nat /\ p > 0 /\ time \in Nat /\ phase \in Int /\ user \in Int
  <2>1. TypeOK
    BY DEF RingInv
  <2>2. channel \in Channels /\ phase \in Int /\ user \in Int /\ time \in Times
    BY <2>1 DEF TypeOK
  <2>3. p \in Nat
    BY <2>2, Constants
  <2>4. p > 0
    BY <2>3 DEF Step
  <2> HIDE DEF p
  <2>5. time \in Nat
    BY <2>1, LogTypes
  <2> QED
    BY <2>2, <2>3, <2>4, <2>5, Constants
<1>2. c \in Nat
  <2>1. IsFiniteSet(Samples)
    BY FS_Subset DEF RingInv, Samples
  <2> QED
    BY <2>1, FS_CardinalityType
<1>3. user = phase + p * c /\ user <= time /\ ~ (user + p <= time)
  BY DEF Pace, Due, Samples
<1> HIDE DEF c, p
<1> DEFINE a == time - phase
<1>4. a \in Int /\ p * c <= a /\ a < p * c + p
  <2> DEFINE x == p * c
  <2>1. x \in Int
    BY <1>1, <1>2
  <2>2. user = phase + x
    BY <1>3
  <2> HIDE DEF x
  <2>3. a \in Int /\ x <= a /\ a < x + p
    BY <1>1, <1>3, <2>1, <2>2
  <2> QED
    BY <2>3 DEF x
<1> HIDE DEF a
<1>5. a \div p = c
  BY <1>1, <1>2, <1>4, Quotient
<1> QED
  BY <1>5 DEF a, c, p

\* An interval sensor shows what it had at the last time of its interval, and
\* is sampled once for each period, for every period, phase and step.
THEOREM IntervalsAreExact == Spec => []IntervalExact
<1>1. Spec => []IntervalHeld
  <2>1. RingInv' /\ LogInv' => FreshRead'
    BY FreshHeld, PTL
  <2> QED
    BY <2>1, HeldInit, HeldStep, LogInductive, PTL DEF Spec
<1>2. Spec => []Pace
  BY PaceInit, PaceStep, LogInductive, PTL DEF Spec
<1>3. IntervalHeld /\ NoDrift => IntervalExact
  BY DEF IntervalExact
<1> QED
  BY <1>1, <1>2, <1>3, PaceExact, LogInductive, PTL

-----------------------------------------------------------------------------
(* Reading again.                                                          *)

\* The lemmas on reads, for all times.
Ways ==
  \A t \in Int :
    /\ \A k \in Slots : Unambiguous(t) /\ Time(k) = t => Read(t) = <<Value(k)>>
    /\ \A i \in 1..n - 1 : Inside(i, t) => Read(t) = Between(i)
    /\ Repeatable(t) =>
         /\ Unambiguous(t)
         /\ \E m \in Slots : t <= Time(m) /\ Time(m) < time
         /\ (\E k \in Slots : Time(k) = t) \/ (\E i \in 1..n - 1 : Inside(i, t))

LEMMA WaysHold == RingInv /\ LogInv => Ways
<1> SUFFICES ASSUME RingInv, LogInv, NEW t \in Int
             PROVE  /\ \A k \in Slots : Unambiguous(t) /\ Time(k) = t => Read(t) = <<Value(k)>>
                    /\ \A i \in 1..n - 1 : Inside(i, t) => Read(t) = Between(i)
                    /\ Repeatable(t) =>
                         /\ Unambiguous(t)
                         /\ \E m \in Slots : t <= Time(m) /\ Time(m) < time
                         /\ (\E k \in Slots : Time(k) = t) \/ (\E i \in 1..n - 1 : Inside(i, t))
  BY DEF Ways
<1>1. /\ TypeOK /\ TimesInOrder /\ n - 1 \in Slots /\ 0 \in Slots
      /\ \A k \in Slots : Time(k) \in Int
      /\ \A s \in log : s.t \in Int
      /\ time \in Int /\ n \in Nat /\ Slots = 0..n - 1
  BY LogTypes DEF RingInv
<1>2. \A k \in Slots : Unambiguous(t) /\ Time(k) = t => Read(t) = <<Value(k)>>
  BY <1>1, ReadAt
<1>3. \A i \in 1..n - 1 : Inside(i, t) => Read(t) = Between(i)
  BY <1>1, ReadInside
<1>4. ASSUME Repeatable(t)
      PROVE  /\ Unambiguous(t)
             /\ \E m \in Slots : t <= Time(m) /\ Time(m) < time
             /\ (\E k \in Slots : Time(k) = t) \/ (\E i \in 1..n - 1 : Inside(i, t))
  <2>1. InRun /\ Covers(t) /\ Unambiguous(t)
    BY <1>4, RunElements DEF Repeatable
  <2>2. Time(0) <= t
    BY <2>1, CoversOldest
  <2>3. PICK s \in log : t <= s.t /\ s.t < time
    BY <1>4 DEF Repeatable
  <2>4. PICK m \in Slots : Time(m) = s.t \/ (m = 0 /\ s.t <= Time(0))
    <3>1. InRing(s) \/ s.t <= Time(0)
      BY <2>1, RingTop
    <3> QED
      BY <1>1, <3>1 DEF InRing, Element
  <2>5. t <= Time(m) /\ Time(m) < time
    BY <1>1, <2>2, <2>3, <2>4
  <2>6. t <= Time(n - 1)
    <3>1. m <= n - 1
      BY <1>1
    <3>2. Time(m) <= Time(n - 1)
      BY <1>1, <3>1, OrderStrict
    <3> QED
      BY <1>1, <2>5, <3>2
  <2>7. ~ (Time(n - 1) < t)
    BY <1>1, <2>6
  <2>8. (\E k \in Slots : Time(k) = t) \/ (\E i \in 1..n - 1 : Inside(i, t))
    BY <1>1, <2>2, <2>7, Somewhere
  <2> QED
    BY <2>1, <2>5, <2>8
<1> QED
  BY <1>2, <1>3, <1>4

ElementTimes == \A k \in Slots : Time(k) \in Int

LEMMA NextTimes == TypeOK' => \A k \in Slots' : Time(k)' \in Int
<1>1. TypeOK => ElementTimes
  BY LogTypes DEF ElementTimes
<1>2. TypeOK' => ElementTimes'
  BY <1>1, PTL
<1> QED
  BY <1>2 DEF ElementTimes

\* The elements that count are where they were, or all one place further on.
LEMMA SameReading ==
  ASSUME RingInv, RingInv', Ways, Ways', channel' = channel, time' = time, NEW t \in Int,
         Unambiguous(t), Unambiguous(t)', channel.interp # Cubic,
         \E m \in Slots : t <= Time(m)' /\ Time(m)' < time,
         (\E k \in Slots : Time(k)' = t) \/ (\E i \in 1..n - 1 : Inside(i, t)'),
         NEW e \in 0..1,
         \A k \in Slots : Time(k)' < time => /\ k + e \in Slots
                                             /\ Time(k)' = Time(k + e) /\ Value(k)' = Value(k + e)
  PROVE  Read(t)' = Read(t)
<1>1. /\ Slots' = Slots /\ n' = n /\ n \in Nat /\ Slots = 0..n - 1 /\ time \in Int
      /\ \A k \in Slots : Time(k) \in Int
  BY LogTypes DEF Slots, n, RingInv
<1>2. \A k \in Slots : Time(k)' \in Int
  BY <1>1, NextTimes DEF RingInv
<1>3. /\ Unambiguous(t)'
      /\ \E m \in Slots : t <= Time(m)' /\ Time(m)' < time
      /\ (\E k \in Slots : Time(k)' = t) \/ (\E i \in 1..n - 1 : Inside(i, t)')
  OBVIOUS
<1>4. ASSUME NEW k \in Slots, Time(k)' = t PROVE Read(t)' = Read(t)
  <2>1. Read(t)' = <<Value(k)'>>
    BY <1>1, <1>3, <1>4 DEF Ways
  <2>2. Time(k)' < time
    BY <1>1, <1>2, <1>3, <1>4
  <2>3. k + e \in Slots /\ Time(k + e) = t /\ Value(k + e) = Value(k)'
    BY <1>4, <2>2
  <2>4. Read(t) = <<Value(k + e)>>
    BY <2>3 DEF Ways
  <2> QED
    BY <2>1, <2>3, <2>4
<1>5. ASSUME NEW i \in 1..n - 1, Inside(i, t)' PROVE Read(t)' = Read(t)
  <2>1. Read(t)' = Between(i)'
    BY <1>1, <1>5 DEF Ways
  <2>2. i \in Slots /\ i - 1 \in Slots /\ Time(i - 1)' < t /\ t < Time(i)'
    BY <1>1, <1>5 DEF Inside
  <2>3. PICK m \in Slots : t <= Time(m)' /\ Time(m)' < time
    BY <1>3
  <2>4. Time(i)' <= Time(m)'
    <3>1. \A j, k \in Slots : j < k => Time(j)' <= Time(k)'
      BY <1>1 DEF RingInv, TimesInOrder
    <3>2. ~ (m <= i - 1)
      <4> SUFFICES ASSUME m <= i - 1 PROVE FALSE
        OBVIOUS
      <4>1. m < i - 1 \/ m = i - 1
        BY <1>1, <2>2
      <4>2. Time(m)' <= Time(i - 1)'
        BY <1>2, <2>2, <3>1, <4>1
      <4> QED
        BY <1>2, <2>2, <2>3, <4>2
    <3>3. i < m \/ i = m
      BY <1>1, <2>2, <3>2
    <3> QED
      BY <1>2, <2>2, <3>1, <3>3
  <2>5. Time(i)' < time /\ Time(i - 1)' < time
    <3>1. Time(i)' \in Int /\ Time(i - 1)' \in Int /\ Time(m)' \in Int /\ time \in Int
      BY <1>1, <1>2, <2>2
    <3> QED
      BY <2>2, <2>3, <2>4, <3>1
  <2>6. /\ i + e \in Slots /\ Time(i)' = Time(i + e) /\ Value(i)' = Value(i + e)
        /\ i - 1 + e \in Slots /\ Time(i - 1)' = Time(i - 1 + e) /\ Value(i - 1)' = Value(i - 1 + e)
    BY <2>2, <2>5
  <2>7. i + e \in 1..n - 1 /\ i - 1 + e = (i + e) - 1
    BY <1>1, <1>5, <2>6
  <2>8. Inside(i + e, t)
    BY <2>2, <2>6, <2>7 DEF Inside
  <2>9. Read(t) = Between(i + e)
    BY <2>7, <2>8 DEF Ways
  <2>10. channel.interp \in {0, 1, 2} /\ channel.interp # 2
    BY Constants, SMTT(30) DEF RingInv, TypeOK, Cubic
  <2>11. Between(i)' = Between(i + e)
    <3>1. CASE channel.interp = 0
      <4>1. Between(i)' = <<Value(i - 1)'>>
        BY <3>1 DEF Between, ZeroOrderHold, Linear, Cubic
      <4>2. Between(i + e) = <<Value((i + e) - 1)>>
        BY <3>1 DEF Between, ZeroOrderHold, Linear, Cubic
      <4> QED
        BY <2>6, <2>7, <4>1, <4>2
    <3>2. CASE channel.interp = 1
      <4>1. Between(i)' = <<Value(i - 1)', Value(i)'>>
        BY <3>2 DEF Between, ZeroOrderHold, Linear, Cubic
      <4>2. Between(i + e) = <<Value((i + e) - 1), Value(i + e)>>
        BY <3>2 DEF Between, ZeroOrderHold, Linear, Cubic
      <4> QED
        BY <2>6, <2>7, <4>1, <4>2
    <3> QED
      BY <2>10, <3>1, <3>2
  <2> QED
    BY <2>1, <2>9, <2>11
<1> QED
  BY <1>3, <1>4, <1>5

\* Before changes nothing but what bears the time.
LEMMA BeforeNothing ==
  ASSUME NEW q \in Readings, \A k \in DOMAIN q : q[k][2] # time
  PROVE  Before(q) = q
<1>1. \A k \in DOMAIN q : q[k] # <<run, time, Echo>>
  OBVIOUS
<1>2. Before(q) = [k \in DOMAIN q |-> q[k]]
  BY <1>1 DEF Before
<1> QED
  BY <1>2 DEF Readings

\* Every element bears its time, so what is read again bears an earlier one.
Stamped == \A k \in Slots : Value(k)[2] = Time(k)

Stale ==
  \A t \in Int : Repeatable(t) => Read(t) \in Readings /\ \A k \in DOMAIN Read(t) : Read(t)[k][2] # time

LEMMA StaleHolds == RingInv /\ Ways /\ Stamped => Stale
<1> SUFFICES ASSUME RingInv, Ways, Stamped, NEW t \in Int, Repeatable(t)
             PROVE  Read(t) \in Readings /\ \A k \in DOMAIN Read(t) : Read(t)[k][2] # time
  BY DEF Stale
<1>1. /\ n \in Nat /\ Slots = 0..n - 1 /\ time \in Int /\ TypeOK /\ TimesInOrder
      /\ \A k \in Slots : Time(k) \in Int
  BY LogTypes DEF RingInv
<1>2. Read(t) \in Readings
  <2>1. RingTyped
    BY <1>1, TypedRing DEF RingTyped, TypeOK
  <2> QED
    BY <2>1, ReadTyped DEF AnyRead
<1>3. /\ Unambiguous(t)
      /\ \E m \in Slots : t <= Time(m) /\ Time(m) < time
      /\ (\E k \in Slots : Time(k) = t) \/ (\E i \in 1..n - 1 : Inside(i, t))
  BY DEF Ways
<1>4. PICK m \in Slots : t <= Time(m) /\ Time(m) < time
  BY <1>3
<1>5. ASSUME NEW k \in Slots, Time(k) = t
      PROVE  \A j \in DOMAIN Read(t) : Read(t)[j][2] # time
  <2>1. Read(t) = <<Value(k)>>
    BY <1>3, <1>5 DEF Ways
  <2>2. Value(k)[2] # time
    BY <1>1, <1>4, <1>5 DEF Stamped
  <2> QED
    BY <2>1, <2>2
<1>6. ASSUME NEW i \in 1..n - 1, Inside(i, t)
      PROVE  \A j \in DOMAIN Read(t) : Read(t)[j][2] # time
  <2>1. Read(t) = Between(i)
    BY <1>6 DEF Ways
  <2>2. i \in Slots /\ i - 1 \in Slots /\ Time(i - 1) < t /\ t < Time(i)
    BY <1>1, <1>6 DEF Inside
  <2>3. i - 1 < m
    BY <1>1, <1>4, <2>2, OrderStrict
  <2>4. i <= m
    BY <1>1, <2>2, <2>3
  <2>5. Time(i) <= Time(m)
    BY <1>1, <2>2, <2>4, OrderStrict
  <2>6. Time(i) # time /\ Time(i - 1) # time
    BY <1>1, <1>4, <2>2, <2>5
  <2>7. Value(i)[2] # time /\ Value(i - 1)[2] # time
    BY <2>2, <2>6 DEF Stamped
  <2>8. channel.interp \in {0, 1, 2} /\ channel.interp # 2
    BY Constants, SMTT(30) DEF RingInv, TypeOK, Repeatable, Cubic
  <2>9. Between(i) = <<Value(i - 1)>> \/ Between(i) = <<Value(i - 1), Value(i)>>
    BY <2>8 DEF Between, ZeroOrderHold, Linear, Cubic
  <2> QED
    BY <2>1, <2>7, <2>9
<1> QED
  BY <1>2, <1>3, <1>5, <1>6

LEMMA StampedInit == Init => Stamped
<1> SUFFICES ASSUME Init, NEW k \in Slots PROVE Value(k)[2] = Time(k)
  BY DEF Stamped
<1>1. RingOK
  BY InitRing, TypedRing DEF RingInv
<1>2. Physical(k) \in Slots
  BY <1>1, RingIndex
<1> QED
  BY <1>2 DEF Init, Value, Time

PlacesInRing == \A k \in Slots : Physical(k) \in Slots

LEMMA PlacesHold == RingInv => PlacesInRing
BY TypedRing, RingIndex DEF RingInv, PlacesInRing

LEMMA StampedStep == RingInv /\ RingInv' /\ Stamped /\ [Next]_vars => Stamped'
<1> SUFFICES ASSUME RingInv, RingInv', Stamped, [Next]_vars PROVE Stamped'
  OBVIOUS
<1>1. /\ RingOK /\ TypeOK /\ TimesInOrder /\ time \in Int /\ evals \in Nat
      /\ \A k \in Slots : Time(k) \in Int
      /\ n \in Nat /\ Slots = 0..n - 1
  BY LogTypes DEF RingInv
<1>2. channel' = channel /\ Slots' = Slots
  BY DEF Next, InitHistory, Forward, Advance, Reset, vars, Slots, n
<1>3. CASE UNCHANGED buffer
  <2>1. \A k : Time(k)' = Time(k) /\ Value(k)' = Value(k)
    BY <1>2, <1>3 DEF Time, Value, Physical, n, buffer
  <2> QED
    BY <1>2, <2>1 DEF Stamped
<1>4. ASSUME NEW v, v[2] = time, Insert(time, v) PROVE Stamped'
  <2>1. (\E i \in Slots : Replaced(i, time, v)) \/ (\E j \in Slots : Entered(j, time, v))
    BY <1>1, <1>2, <1>4, InsertPlaces
  <2>2. (\E i \in Slots : Same(i, time, v)) \/ (\E j \in Slots : Shifted(j, time, v))
    BY <1>1, <2>1, InsertElements, Zenon
  <2>3. ASSUME NEW i \in Slots, Same(i, time, v) PROVE Stamped'
    <3>1. \A k \in Slots : Time(k)' = Time(k) /\ Value(k)' = IF k = i THEN v ELSE Value(k)
      BY <2>3 DEF Same
    <3>2. Time(i) = time
      BY <2>3 DEF Same
    <3>3. \A k \in Slots : Value(k)'[2] = Time(k)'
      BY <1>4, <3>1, <3>2 DEF Stamped
    <3> QED
      BY <1>2, <3>3 DEF Stamped
  <2>4. ASSUME NEW j \in Slots, Shifted(j, time, v) PROVE Stamped'
    <3>1. \A k \in Slots : k < j => Value(k)'[2] = Time(k)'
      BY <2>4 DEF Shifted, Stamped
    <3>2. Value(j)'[2] = Time(j)'
      BY <1>4, <2>4 DEF Shifted
    <3>3. \A k \in Slots : k > j => Value(k)'[2] = Time(k)'
      BY <2>4 DEF Shifted, Stamped
    <3>4. \A k \in Slots : k < j \/ k = j \/ k > j
      BY <1>1
    <3>5. \A k \in Slots : Value(k)'[2] = Time(k)'
      BY <3>1, <3>2, <3>3, <3>4
    <3> QED
      BY <1>2, <3>5 DEF Stamped
  <2> QED
    BY <2>2, <2>3, <2>4
<1>5. CASE InitHistory
  <2>1. \A k \in Slots : Physical(k)' \in Slots
    <3>1. RingInv' => PlacesInRing'
      BY PlacesHold, PTL
    <3> QED
      BY <1>2, <3>1 DEF PlacesInRing
  <2>2. \A k \in Slots : Time(k)' = times'[Physical(k)'] /\ Value(k)' = values'[Physical(k)']
    BY DEF Time, Value
  <2>3. \A p \in Slots : values'[p][2] = times'[p]
    BY <1>5 DEF InitHistory
  <2> QED
    BY <1>2, <2>1, <2>2, <2>3 DEF Stamped
<1>6. CASE Forward
  <2>1. UNCHANGED buffer \/ Insert(time, Stores)
    BY <1>6 DEF Forward, ReadCtrl, ApplySensorDelay
  <2>2. Stores[2] = time
    BY <1>1, Marked
  <2> QED
    BY <1>3, <1>4, <2>1, <2>2
<1>7. CASE Advance
  <2> DEFINE v == <<run, time, 1>>
  <2>1. UNCHANGED buffer \/ Insert(time, v)
    BY <1>7 DEF Advance
  <2>2. v[2] = time
    OBVIOUS
  <2> HIDE DEF v
  <2> QED
    BY <1>3, <1>4, <2>1, <2>2
<1>8. CASE Reset
  BY <1>3, <1>8 DEF Reset
<1>9. CASE UNCHANGED vars
  BY <1>3, <1>9 DEF vars
<1> QED
  BY <1>5, <1>6, <1>7, <1>8, <1>9 DEF Next

LEMMA KeptStep ==
  ASSUME RingInv, LogInv, RingInv', Ways, Ways', Stale', ReadingKept, [Next]_vars
  PROVE  ReadingKept'
<1>1. /\ n \in Nat /\ n > 0 /\ Slots = 0..n - 1 /\ RingOK /\ TypeOK /\ TimesInOrder
      /\ \A k \in Slots : Time(k) \in Int /\ Value(k)[1] \in Nat
      /\ time \in Int /\ run \in Nat /\ run >= 1 /\ evals \in Nat /\ channel.delay \in Nat
  BY LogTypes, Constants DEF RingInv, TypeOK
<1>2. SUFFICES ASSUME NEW t, t = time' - channel'.delay, evals' > 0, Repeatable(t)'
               PROVE  reading' = Read(t)'
  BY DEF ReadingKept
<1>3. /\ channel' = channel /\ time' = time /\ Slots' = Slots /\ n' = n /\ run' = run
      /\ Forward \/ UNCHANGED vars
  <2>1. ~ InitHistory /\ ~ Advance /\ ~ Reset
    BY <1>1, <1>2 DEF InitHistory, Advance, Reset
  <2>2. Forward \/ UNCHANGED vars
    BY <2>1 DEF Next
  <2> QED
    BY <2>2 DEF Forward, vars, Slots, n
<1>4. t = time - channel.delay /\ t \in Int /\ channel.delay > 0 /\ t < time
  BY <1>1, <1>2, <1>3 DEF Repeatable
<1>5. /\ Unambiguous(t)' /\ channel.interp # Cubic
      /\ \E m \in Slots : t <= Time(m)' /\ Time(m)' < time
      /\ (\E k \in Slots : Time(k)' = t) \/ (\E i \in 1..n - 1 : Inside(i, t)')
  <2>1. channel'.interp # Cubic
    BY <1>2 DEF Repeatable
  <2> QED
    BY <1>2, <1>3, <1>4, <2>1 DEF Ways
<1>6. ASSUME Unambiguous(t), NEW e \in 0..1,
             \A k \in Slots : Time(k)' < time =>
               k + e \in Slots /\ Time(k)' = Time(k + e) /\ Value(k)' = Value(k + e)
      PROVE  Read(t)' = Read(t)
  <2>1. channel' = channel /\ time' = time /\ t \in Int
    BY <1>3, <1>4
  <2> QED
    BY <1>5, <1>6, <2>1, SameReading
<1>7. /\ \A k \in Slots : Time(k)' \in Int
      /\ \A k \in Slots : Time(k)' <= time
      /\ \A k \in Slots : Value(k)'[1] = run \/ Time(k)' < 0
      /\ \A j, k \in Slots : Time(j)' = t /\ Time(k)' = t => Value(j)' = Value(k)'
  <2>1. \A k \in Slots : Time(k)' \in Int
    BY <1>3, NextTimes DEF RingInv
  <2>2. \A k \in Slots : Time(k)' <= time /\ (Value(k)'[1] = run \/ Time(k)' < 0)
    BY <1>2, <1>3 DEF Repeatable, InRun
  <2>3. Unambiguous(t)'
    BY <1>2, <1>4 DEF Ways
  <2> QED
    BY <1>3, <2>1, <2>2, <2>3 DEF Unambiguous
<1>8. ASSUME UNCHANGED buffer PROVE Read(t)' = Read(t)
  <2>1. \A k : Time(k)' = Time(k) /\ Value(k)' = Value(k)
    BY <1>3, <1>8 DEF buffer, Time, Value, Physical
  <2>2. Unambiguous(t)
    BY <1>7, <2>1 DEF Unambiguous
  <2>3. \A k \in Slots : k + 0 \in Slots /\ Time(k)' = Time(k + 0) /\ Value(k)' = Value(k + 0)
    BY <1>1, <2>1
  <2>4. 0 \in 0..1
    OBVIOUS
  <2> QED
    BY <1>6, <2>2, <2>3, <2>4, ZenonT(60)
<1>9. ASSUME Insert(time, Stores) PROVE Read(t)' = Read(t)
  <2>1. (\E i \in Slots : Same(i, time, Stores)) \/ (\E j \in Slots : Shifted(j, time, Stores))
    <3>1. (\E i \in Slots : Replaced(i, time, Stores)) \/ (\E j \in Slots : Entered(j, time, Stores))
      BY <1>1, <1>3, <1>9, InsertPlaces
    <3> QED
      BY <1>1, <3>1, InsertElements, Zenon
  <2>2. ASSUME NEW i \in Slots, Same(i, time, Stores) PROVE Read(t)' = Read(t)
    <3>1. \A k \in Slots : Time(k)' = Time(k) /\ (Time(k)' # time => k # i)
      BY <2>2 DEF Same
    <3>2. \A k \in Slots : Time(k)' # time => Value(k)' = Value(k)
      BY <2>2, <3>1 DEF Same
    <3>3. Unambiguous(t)
      BY <1>1, <1>4, <1>7, <3>1, <3>2 DEF Unambiguous
    <3>4. \A k \in Slots : Time(k)' < time =>
            k + 0 \in Slots /\ Time(k)' = Time(k + 0) /\ Value(k)' = Value(k + 0)
      BY <1>1, <1>7, <3>1, <3>2
    <3>5. 0 \in 0..1
      OBVIOUS
    <3> QED
      BY <1>6, <3>3, <3>4, <3>5, ZenonT(60)
  <2>3. ASSUME NEW j \in Slots, Shifted(j, time, Stores) PROVE Read(t)' = Read(t)
    <3>1. j = n - 1
      <4> SUFFICES ASSUME j < n - 1 PROVE FALSE
        BY <1>1
      <4>1. j + 1 \in Slots /\ j + 1 > j
        BY <1>1
      <4>2. time < Time(j + 1) /\ Time(j + 1)' = Time(j + 1)
        BY <2>3, <4>1 DEF Shifted
      <4> QED
        BY <1>1, <1>7, <4>1, <4>2
    <3>2. \A k \in Slots : k = j \/ k < j
      BY <1>1, <3>1
    <3>3. \A k \in Slots : Time(k)' < time =>
            k + 1 \in Slots /\ Time(k)' = Time(k + 1) /\ Value(k)' = Value(k + 1)
      <4>1. Time(j)' = time /\ ~ (time < time)
        BY <1>1, <2>3 DEF Shifted
      <4> QED
        BY <2>3, <3>2, <4>1 DEF Shifted
    <3>4. \A k \in Slots : k > 0 => /\ k - 1 \in Slots /\ Time(k - 1)' = Time(k) /\ Value(k - 1)' = Value(k)
      <4> SUFFICES ASSUME NEW k \in Slots, k > 0
                   PROVE  k - 1 \in Slots /\ Time(k - 1)' = Time(k) /\ Value(k - 1)' = Value(k)
        OBVIOUS
      <4>1. k - 1 \in Slots /\ k - 1 < j /\ (k - 1) + 1 = k
        BY <1>1, <3>1
      <4>2. Time(k - 1)' = Time((k - 1) + 1) /\ Value(k - 1)' = Value((k - 1) + 1)
        BY <2>3, <4>1 DEF Shifted
      <4> QED
        BY <4>1, <4>2
    <3>5. ASSUME NEW k \in Slots, k > 0, Time(0) = t, Time(k) = t PROVE Value(0) = Value(k)
      <4>1. (Value(k)[1] = 0 /\ Time(k) = 0) \/ (Time(k) = Never /\ Value(0) = Value(k))
        BY <1>1, <3>5 DEF LogInv, NoTwins
      <4>2. Value(k)[1] = run \/ Time(k) < 0
        BY <1>7, <3>4, <3>5
      <4> QED
        BY <1>1, <4>1, <4>2
    <3>6. \A a, b \in Slots : a > 0 /\ b > 0 /\ Time(a) = t /\ Time(b) = t => Value(a) = Value(b)
      BY <1>7, <3>4
    <3>7. Unambiguous(t)
      <4>1. \A a \in Slots : a = 0 \/ a > 0
        BY <1>1
      <4> QED
        BY <3>5, <3>6, <4>1 DEF Unambiguous
    <3>8. 1 \in 0..1
      OBVIOUS
    <3> QED
      BY <1>6, <3>3, <3>7, <3>8, ZenonT(60)
  <2> QED
    BY <2>1, <2>2, <2>3
<1>10. UNCHANGED buffer \/ Insert(time, Stores) => Read(t)' = Read(t)
  BY <1>8, <1>9
<1>11. CASE Forward
  <2>1. Read(t)' = Read(t)
    BY <1>10, <1>11 DEF Forward, ReadCtrl, ApplySensorDelay
  <2>2. evals' = evals + 1
    BY <1>11 DEF Forward
  <2>3. Read(time - channel.delay)' = Read(t)'
    BY <1>3, <1>4
  <2>4. Before(Read(t)') = Read(t)'
    <3>1. Read(t)' \in Readings /\ \A k \in DOMAIN Read(t)' : Read(t)'[k][2] # time
      BY <1>2, <1>3, <1>4 DEF Stale
    <3> QED
      BY <3>1, BeforeNothing
  <2>5. channel.lists \in {1, 2}
    BY <1>1, Constants DEF TypeOK
  <2> QED
    BY <1>4, <2>1, <2>2, <2>3, <2>4, <2>5, DelayedStep
<1>12. CASE UNCHANGED vars
  <2>1. reading' = reading /\ evals' = evals /\ UNCHANGED buffer /\ log' = log
    BY <1>12 DEF vars
  <2>2. Repeatable(t)
    <3>1. InRun
      BY <1>2, <1>3, <2>1 DEF Repeatable, InRun, Rooted, Time, Value, Physical, buffer
    <3>2. Covers(t)
      BY <1>2, <1>3, <2>1 DEF Repeatable, Covers
    <3> QED
      BY <1>2, <1>3, <2>1, <3>1, <3>2 DEF Repeatable
  <2>3. reading = Read(t)
    BY <1>2, <1>4, <2>1, <2>2 DEF ReadingKept
  <2> QED
    BY <1>8, <2>1, <2>3
<1> QED
  BY <1>3, <1>11, <1>12

\* A sensor that is still due at an evaluation was sampled at the one before.
SampledNow == evals > 0 /\ channel.sensor /\ Due(user) => \E k \in Slots : Time(k) = time

LEMMA SampledStep == RingInv /\ SampledNow /\ [Next]_vars => SampledNow'
<1> SUFFICES ASSUME RingInv, SampledNow, [Next]_vars, evals' > 0, channel'.sensor, Due(user)'
             PROVE  \E k \in Slots' : Time(k)' = time'
  BY DEF SampledNow
<1>1. /\ RingOK /\ TypeOK /\ TimesInOrder /\ time \in Int /\ evals \in Nat
  BY LogTypes DEF RingInv
<1>2. channel' = channel /\ Slots' = Slots
  BY DEF Next, InitHistory, Forward, Advance, Reset, vars, Slots, n
<1>3. CASE Forward
  <2>1. ApplySensorDelay /\ time' = time
    BY <1>2, <1>3 DEF Forward, ReadCtrl
  <2>2. Due(user)
    BY <1>2, <2>1 DEF ApplySensorDelay, Due
  <2>3. Insert(time, Stores)
    BY <2>1, <2>2 DEF ApplySensorDelay
  <2>4. \/ \E i \in Slots : Replaced(i, time, Stores)
        \/ \E j \in Slots : Entered(j, time, Stores)
    BY <1>1, <1>2, <2>3, InsertPlaces
  <2>5. \/ \E i \in Slots : Same(i, time, Stores)
        \/ \E j \in Slots : Shifted(j, time, Stores)
    BY <1>1, <2>4, InsertElements, Zenon
  <2> QED
    BY <1>2, <2>1, <2>5 DEF Same, Shifted
<1>4. CASE UNCHANGED vars
  <2>1. \A k : Time(k)' = Time(k)
    BY <1>2, <1>4 DEF Time, Physical, n, vars, buffer
  <2>2. Due(user) /\ evals > 0 /\ channel.sensor /\ time' = time
    BY <1>2, <1>4 DEF Due, vars
  <2> QED
    BY <1>2, <2>1, <2>2 DEF SampledNow
<1>5. ~ InitHistory /\ ~ Advance /\ ~ Reset
  BY <1>1 DEF InitHistory, Advance, Reset
<1> QED
  BY <1>3, <1>4, <1>5 DEF Next

\* An insertion over a sample of this time leaves what is read again.
LEMMA ReadBeneath ==
  ASSUME RingInv, RingInv', Ways, Ways', channel' = channel, time' = time, Insert(time, Stores),
         NEW t \in Int, t < time, Repeatable(t), NEW now \in Slots, Time(now) = time
  PROVE  Read(t)' = Read(t)
<1>1. /\ RingOK /\ TypeOK /\ TimesInOrder /\ time \in Int /\ n \in Nat /\ Slots = 0..n - 1
      /\ \A k \in Slots : Time(k) \in Int
  BY LogTypes DEF RingInv
<1>2. Slots' = Slots /\ n' = n
  BY DEF Slots, n
<1>3. /\ Unambiguous(t) /\ channel.interp # Cubic
      /\ \E m \in Slots : t <= Time(m) /\ Time(m) < time
      /\ (\E k \in Slots : Time(k) = t) \/ (\E i \in 1..n - 1 : Inside(i, t))
  BY DEF Ways, Repeatable
<1>4. PICK i \in Slots : Same(i, time, Stores)
  <2>1. \/ \E i \in Slots : Replaced(i, time, Stores)
        \/ \E j \in Slots : Entered(j, time, Stores)
    BY <1>1, InsertPlaces
  <2>2. \/ \E i \in Slots : Same(i, time, Stores)
        \/ \E j \in Slots : Shifted(j, time, Stores)
    BY <1>1, <2>1, InsertElements, Zenon
  <2>3. ASSUME NEW j \in Slots, Shifted(j, time, Stores) PROVE FALSE
    <3>1. ~ (now > j)
      BY <1>1, <2>3 DEF Shifted
    <3>2. \A k \in Slots : k < j => k + 1 \in Slots /\ Time(k + 1) < time
      BY <2>3 DEF Shifted
    <3>3. j > 0
      <4> SUFFICES ASSUME j = 0 PROVE FALSE
        BY <1>1
      <4>1. now = 0
        BY <1>1, <3>1
      <4> QED
        BY <2>3, <4>1 DEF Shifted
    <3>4. j - 1 \in Slots /\ j - 1 < j /\ (j - 1) + 1 = j
      BY <1>1, <3>3
    <3>5. Time(j) < time
      BY <3>2, <3>4
    <3>6. Time(now) <= Time(j)
      BY <1>1, <3>1, OrderStrict
    <3> QED
      BY <1>1, <3>5, <3>6
  <2> QED
    BY <2>2, <2>3
<1>5. \A k \in Slots : Time(k)' = Time(k) /\ (Time(k) # time => k # i /\ Value(k)' = Value(k))
  BY <1>4 DEF Same
<1>6. Unambiguous(t)'
  BY <1>1, <1>2, <1>3, <1>5 DEF Unambiguous
<1>7. \E m \in Slots : t <= Time(m)' /\ Time(m)' < time
  BY <1>3, <1>5
<1>8. (\E k \in Slots : Time(k)' = t) \/ (\E k \in 1..n - 1 : Inside(k, t)')
  <2>1. \A k \in 1..n - 1 : Inside(k, t) => Inside(k, t)'
    BY <1>1, <1>2, <1>5 DEF Inside
  <2> QED
    BY <1>3, <1>5, <2>1
<1>9. \A k \in Slots : Time(k)' < time =>
        k + 0 \in Slots /\ Time(k)' = Time(k + 0) /\ Value(k)' = Value(k + 0)
  BY <1>1, <1>5
<1>10. 0 \in 0..1
  OBVIOUS
<1> QED
  BY <1>3, <1>6, <1>7, <1>8, <1>9, <1>10, SameReading

\* A second forward() at the same time reads what the first one read, for
\* every ring, delay and interval, whatever the first one inserted.
THEOREM RereadingIsStable == Spec => ReevaluationStable
<1>1. Init => ReadingKept /\ SampledNow
  BY DEF Init, ReadingKept, SampledNow
<1>2. RingInv' /\ LogInv' => Ways'
  BY WaysHold, PTL
<1>3. RingInv' /\ Ways' /\ Stamped' => Stale'
  BY StaleHolds, PTL
<1>4. Spec => []Stamped
  BY StampedInit, StampedStep, LogInductive, PTL DEF Spec
<1>5. Spec => []ReadingKept
  <2>1. RingInv /\ LogInv /\ RingInv' /\ Ways' /\ Stale' /\ ReadingKept /\ [Next]_vars => ReadingKept'
    BY WaysHold, KeptStep
  <2> QED
    BY <1>1, <1>2, <1>3, <1>4, <2>1, LogInductive, PTL DEF Spec
<1>6. Spec => []SampledNow
  BY <1>1, SampledStep, LogInductive, PTL DEF Spec
<1>7. RingInv /\ RingInv' /\ LogInv /\ Ways' /\ Stamped /\ SampledNow /\ ReadingKept /\ [Next]_vars => SameAgain
  <2> DEFINE t == time - channel.delay
  <2> SUFFICES ASSUME RingInv, RingInv', LogInv, Ways', Stamped, SampledNow, ReadingKept, [Next]_vars,
                      evals' = evals + 1, evals > 0, channel.delay > 0, channel.interp # Cubic,
                      InRun, Covers(t), \E s \in log : t <= s.t /\ s.t < time
               PROVE  reading' = reading
    BY DEF SameAgain
  <2>1. Repeatable(t)
    BY DEF Repeatable
  <2>2. reading = Read(t)
    BY <2>1 DEF ReadingKept
  <2>3. t \in Int /\ t < time /\ channel.lists \in {1, 2} /\ time \in Int
    <3>1. channel.delay \in Nat /\ time \in Int /\ channel.lists \in {1, 2}
      BY LogTypes, Constants DEF RingInv, TypeOK
    <3> QED
      BY <3>1
  <2>4. CASE channel.lists = 1 \/ ~ Due(user) \/ ~ channel.sensor
    BY <2>2, <2>4, DelayedStep
  <2>5. CASE channel.lists = 2 /\ Due(user) /\ channel.sensor
    <3>1. Insert(time, Stores) /\ reading' = Before(Read(t)') /\ channel' = channel /\ time' = time
      BY <2>5, DelayedStep DEF Forward
    <3>2. PICK now \in Slots : Time(now) = time
      BY <2>5 DEF SampledNow
    <3>3. Ways /\ Stale
      BY WaysHold, StaleHolds
    <3>4. \A x \in {t} : Read(x)' = Read(x)
      <4> SUFFICES ASSUME NEW x, x = t PROVE Read(x)' = Read(x)
        OBVIOUS
      <4>1. x \in Int /\ x < time /\ Repeatable(x)
        BY <2>1, <2>3
      <4> QED
        BY <3>1, <3>2, <3>3, <4>1, ReadBeneath
    <3>5. Read(t)' = Read(t)
      BY <3>1, <3>4
    <3>6. Before(Read(t)) = Read(t)
      BY <2>1, <2>3, <3>3, BeforeNothing DEF Stale
    <3> QED
      BY <2>2, <3>1, <3>5, <3>6
  <2> QED
    BY <2>3, <2>4, <2>5
<1> QED
  BY <1>2, <1>4, <1>5, <1>6, <1>7, LogInductive, PTL DEF ReevaluationStable, Spec
=============================================================================
