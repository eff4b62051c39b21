---------------------------- MODULE GeigerProofs ----------------------------
(***************************************************************************)
(* Proofs about Geiger for every size of the ring and every threshold:     *)
(* calc_cpm reads the windows it means to read, wherever the ring wraps;   *)
(* the rate is their mean, never averages across a sudden change, and a    *)
(* steady source becomes valid.                                            *)
(***************************************************************************)
EXTENDS Geiger, RecursionProofs

N == WINDOWS_STORED
Words == Counts \cup {0}

LEMMA Sizes == N \in Nat \ {0} /\ Words \subseteq Nat /\ Counts \subseteq Words
  BY GeigerAssumption DEF N, Words

\* Going backwards from p, the index wraps once.
LEMMA Wrapped ==
  ASSUME NEW n \in Nat \ {0}, NEW a \in - n .. n - 1
  PROVE  a % n = IF a >= 0 THEN a ELSE a + n
<1>1. CASE a >= 0
  BY <1>1
<1>2. CASE a < 0
  BY <1>2
<1> QED BY <1>1, <1>2

LEMMA WrappedToStart ==
  ASSUME NEW n \in Nat \ {0}
  PROVE  n % n = 0
  OBVIOUS

Where(p, k) == (p - 1 - k) % N

LEMMA Backward ==
  ASSUME NEW p \in 0 .. N - 1, NEW k \in 0 .. N - 1
  PROVE  /\ Where(p, k) = IF k < p THEN p - 1 - k ELSE p - 1 - k + N
         /\ Where(p, k) \in 0 .. N - 1
<1>1. p - 1 - k \in - N .. N - 1 /\ N \in Nat \ {0}
  BY Sizes
<1>2. Where(p, k) = IF p - 1 - k >= 0 THEN p - 1 - k ELSE p - 1 - k + N
  BY <1>1, Wrapped DEF Where
<1> QED BY <1>1, <1>2

\* From the position after p the latest window is at p, and the others are
\* where they were, one further back.
LEMMA Advance ==
  ASSUME NEW p \in 0 .. N - 1, NEW k \in 0 .. N - 1
  PROVE  LET q == (p + 1) % N IN
         /\ q \in 0 .. N - 1
         /\ Where(q, k) = IF k = 0 THEN p ELSE Where(p, k - 1)
         /\ k # 0 => Where(q, k) # p
<1> DEFINE q == (p + 1) % N
<1>0. N \in Nat \ {0}
  BY Sizes
<1>1. q = IF p + 1 < N THEN p + 1 ELSE 0
  <2>1. CASE p + 1 < N
    <3> DEFINE a == p + 1
    <3>1. a \in - N .. N - 1 /\ a >= 0
      BY <2>1, <1>0
    <3> HIDE DEF a
    <3>2. a % N = a
      BY <3>1, <1>0, Wrapped
    <3> QED BY <2>1, <3>2 DEF a
  <2>2. CASE ~ (p + 1 < N)
    <3>1. p + 1 = N
      BY <2>2, <1>0
    <3>2. N % N = 0
      BY <1>0, WrappedToStart
    <3>3. q = 0
      BY <3>1, <3>2
    <3> HIDE DEF q
    <3> QED BY <2>2, <3>3
  <2> QED BY <2>1, <2>2
<1> HIDE DEF q
<1>2. q \in 0 .. N - 1
  BY <1>0, <1>1
<1>3. Where(q, k) = IF k < q THEN q - 1 - k ELSE q - 1 - k + N
  BY <1>2, Backward
<1>4. k # 0 => k - 1 \in 0 .. N - 1
  BY <1>0
<1>5. k # 0 => Where(p, k - 1) = IF k - 1 < p THEN p - 1 - (k - 1) ELSE p - 1 - (k - 1) + N
  BY <1>4, Backward
<1>6. Where(q, k) = IF k = 0 THEN p ELSE Where(p, k - 1)
  BY <1>0, <1>1, <1>3, <1>5
<1>7. k # 0 => Where(q, k) # p
  BY <1>0, <1>1, <1>3
<1> QED BY <1>2, <1>6, <1>7 DEF q

\* The history as one window is added to it.
LEMMA Remember ==
  ASSUME NEW s \in Seq(Counts), Len(s) <= N, NEW c \in Counts
  PROVE  LET l == IF Len(s) < N THEN Len(s) + 1 ELSE N
             t == SubSeq(<<c>> \o s, 1, l) IN
         /\ t \in Seq(Counts) /\ Len(t) = l /\ l \in 1 .. N
         /\ t[1] = c
         /\ \A k \in 1 .. l - 1 : t[k + 1] = s[k]
<1> DEFINE l == IF Len(s) < N THEN Len(s) + 1 ELSE N
           u == <<c>> \o s
<1>0. N \in Nat \ {0} /\ Len(s) \in Nat
  BY Sizes, LenProperties
<1>1. <<c>> \in Seq(Counts) /\ Len(<<c>>) = 1 /\ <<c>>[1] = c
  OBVIOUS
<1>2. /\ u \in Seq(Counts) /\ Len(u) = 1 + Len(s) /\ u[1] = c
      /\ \A k \in 1 .. Len(s) : u[k + 1] = s[k]
  <2> DEFINE o == <<c>>
  <2>1. o \in Seq(Counts) /\ Len(o) = 1 /\ o[1] = c
    BY <1>1
  <2> HIDE DEF o
  <2>2. /\ o \o s \in Seq(Counts) /\ Len(o \o s) = Len(o) + Len(s)
        /\ \A i \in 1 .. Len(o) + Len(s) :
             (o \o s)[i] = IF i <= Len(o) THEN o[i] ELSE s[i - Len(o)]
    BY <2>1, ConcatProperties
  <2>3. u = o \o s
    BY DEF o
  <2> HIDE DEF u
  <2> QED BY <2>1, <2>2, <2>3, <1>0
<1> HIDE DEF u
<1>3. l \in 1 .. N /\ l <= Len(u) /\ l \in 1 .. Len(u) + 1
  BY <1>0, <1>2
<1> HIDE DEF l
<1>4. /\ SubSeq(u, 1, l) \in Seq(Counts) /\ Len(SubSeq(u, 1, l)) = l
      /\ \A i \in 1 .. l : SubSeq(u, 1, l)[i] = u[i]
  BY <1>2, <1>3, SubSeqProperties
<1>5. \A k \in 1 .. l - 1 : SubSeq(u, 1, l)[k + 1] = s[k]
  BY <1>0, <1>2, <1>3, <1>4
<1> QED BY <1>2, <1>3, <1>4, <1>5 DEF l, u

-----------------------------------------------------------------------------
(* The ring *)

\* What calc_cpm reads backwards from the position are the latest windows.
RingInv ==
  /\ last_windows \in [0 .. N - 1 -> Words]
  /\ last_windows_position \in 0 .. N - 1
  /\ recent \in Seq(Counts) /\ Len(recent) <= N
  /\ \A k \in 0 .. N - 1 :
       last_windows[Where(last_windows_position, k)]
         = IF k < Len(recent) THEN recent[k + 1] ELSE 0

LEMMA RingStart == initialise => RingInv
<1> SUFFICES ASSUME initialise PROVE RingInv
  OBVIOUS
<1>1. /\ last_windows = [n \in 0 .. N - 1 |-> 0] /\ last_windows_position = 0
  BY DEF initialise, N
<1>2. recent \in Seq(Counts) /\ Len(recent) = 0
  <2>1. recent = <<>>
    BY DEF initialise
  <2> QED BY <2>1, EmptySeq
<1>3. \A k \in 0 .. N - 1 : Where(0, k) \in 0 .. N - 1
  BY Sizes, Backward
<1> QED BY <1>1, <1>2, <1>3, Sizes DEF RingInv, Words

LEMMA RingStep ==
  ASSUME RingInv, NEW count \in Counts, update_last_windows(count)
  PROVE  RingInv'
<1> DEFINE w == last_windows
           p == last_windows_position
           s == recent
           v == [w EXCEPT ![p] = count]
           q == (p + 1) % N
           l == IF Len(s) < N THEN Len(s) + 1 ELSE N
           t == SubSeq(<<count>> \o s, 1, l)
<1>1. last_windows' = v /\ last_windows_position' = q /\ recent' = t
  BY DEF update_last_windows, N
<1>2. /\ w \in [0 .. N - 1 -> Words] /\ p \in 0 .. N - 1
      /\ s \in Seq(Counts) /\ Len(s) <= N
      /\ \A k \in 0 .. N - 1 : w[Where(p, k)] = IF k < Len(s) THEN s[k + 1] ELSE 0
  BY DEF RingInv
<1>3. N \in Nat \ {0} /\ Len(s) \in Nat /\ count \in Words
  BY <1>2, Sizes, LenProperties
<1>4. /\ t \in Seq(Counts) /\ Len(t) = l /\ l \in 1 .. N /\ t[1] = count
      /\ \A k \in 1 .. l - 1 : t[k + 1] = s[k]
  BY <1>2, Remember
<1>5. q \in 0 .. N - 1
  BY <1>2, <1>3, Advance
<1>6. ASSUME NEW k \in 0 .. N - 1
      PROVE  v[Where(q, k)] = IF k < Len(t) THEN t[k + 1] ELSE 0
  <2> HIDE DEF w, p, s, t, q
  <2>1. /\ Where(q, k) = IF k = 0 THEN p ELSE Where(p, k - 1)
        /\ k # 0 => Where(q, k) # p
    BY <1>2, Advance DEF q
  <2>2. CASE k = 0
    <3>1. v[Where(q, k)] = count
      BY <2>1, <2>2, <1>2
    <3>2. k < Len(t) /\ t[k + 1] = count
      BY <2>2, <1>4
    <3> QED BY <3>1, <3>2
  <2>3. CASE k # 0
    <3>1. k - 1 \in 0 .. N - 1
      BY <2>3, <1>3
    <3>2. Where(p, k - 1) \in 0 .. N - 1
      BY <3>1, <1>2, Backward
    <3>3. v[Where(q, k)] = w[Where(p, k - 1)]
      BY <2>1, <2>3, <3>2, <1>2
    <3>4. w[Where(p, k - 1)] = IF k - 1 < Len(s) THEN s[(k - 1) + 1] ELSE 0
      BY <3>1, <1>2
    <3>5. k < l <=> k - 1 < Len(s)
      BY <1>3, <1>2
    <3>6. k < l => t[k + 1] = s[k]
      BY <2>3, <1>3, <1>4
    <3>7. (k - 1) + 1 = k
      OBVIOUS
    <3> QED BY <3>3, <3>4, <3>5, <3>6, <3>7, <1>4
  <2> QED BY <2>2, <2>3
<1>7. v \in [0 .. N - 1 -> Words]
  BY <1>2, <1>3
<1> HIDE DEF v, q, t
<1>8. Len(t) <= N
  BY <1>3, <1>4
<1> QED BY <1>1, <1>4, <1>5, <1>6, <1>7, <1>8 DEF RingInv

LEMMA RingAlways == Spec => []RingInv
<1>1. RingInv /\ [Next]_vars => RingInv'
  <2> SUFFICES ASSUME RingInv, [Next]_vars PROVE RingInv'
    OBVIOUS
  <2>1. CASE Next
    BY <2>1, RingStep DEF Next
  <2>2. CASE UNCHANGED vars
    BY <2>2 DEF vars, RingInv
  <2> QED BY <2>1, <2>2
<1> QED BY <1>1, RingStart, PTL DEF Spec

\* The windows calc_cpm reads are the latest ones, in order, for every size of
\* the ring and wherever it wraps (calc_cpm, update_last_windows).
ReadsLatest == Backwards(last_windows, last_windows_position) = Seen

LEMMA RingReadsLatest == RingInv => ReadsLatest
<1> SUFFICES ASSUME RingInv PROVE ReadsLatest
  OBVIOUS
<1>1. ASSUME NEW k \in 0 .. WINDOWS_STORED - 1
      PROVE  last_windows[(last_windows_position - 1 - k) % WINDOWS_STORED]
               = IF k < Len(recent) THEN recent[k + 1] ELSE 0
  BY DEF RingInv, Where, N
<1> QED BY <1>1 DEF ReadsLatest, Backwards, Seen

THEOREM ReadsLatestAlways == Spec => []ReadsLatest
<1> QED BY RingAlways, RingReadsLatest, PTL

\* The sum of MeanOfLatest: whatever number of windows calc_cpm settles on, the
\* counts it adds up are those of that many latest windows.
SumOfLatest == recent # <<>> => cpm.sum = SumOf(Seen, 0, cpm.over)

-----------------------------------------------------------------------------
(* Sums *)

Adding(f, k, n) == [p \in (1 .. n) \X Nat |-> p[2] + f[k + p[1] - 1]]

Sums(f, k, n) ==
  CHOOSE g : g = [i \in 0 .. n |-> IF i = 0 THEN 0 ELSE g[i - 1] + f[k + i - 1]]

\* The n values of f from k on are counts.
Countable(f, k, n) == \A i \in 0 .. n - 1 : f[k + i] \in Nat

\* a holds the sums of the first values.
Accumulates(f, k, n, a) ==
  /\ a[0] = 0
  /\ \A i \in 0 .. n : a[i] \in Nat
  /\ \A i \in 1 .. n : a[i] = a[i - 1] + f[k + i - 1]

LEMMA SumsDef ==
  ASSUME NEW f, NEW k \in Nat, NEW n \in Nat, Countable(f, k, n)
  PROVE  SumOf(f, k, n) = Sums(f, k, n)[n] /\ Accumulates(f, k, n, Sums(f, k, n))
<1>1. SumOf(f, k, n) = Sums(f, k, n)[n]
  BY DEF SumOf, Sums
<1>2. \A i \in 1 .. n : f[k + i - 1] \in Nat
  <2> SUFFICES ASSUME NEW i \in 1 .. n PROVE f[k + i - 1] \in Nat
    OBVIOUS
  <2>1. i - 1 \in 0 .. n - 1 /\ k + (i - 1) = k + i - 1
    OBVIOUS
  <2>2. f[k + (i - 1)] \in Nat
    BY <2>1 DEF Countable
  <2> QED BY <2>1, <2>2
<1> DEFINE step == Adding(f, k, n)
<1>3. step \in [(1 .. n) \X Nat -> Nat]
  <2> SUFFICES ASSUME NEW i \in 1 .. n, NEW x \in Nat PROVE x + f[k + i - 1] \in Nat
    BY DEF Adding
  <2> QED BY <1>2
<1>4. PICK g \in [0 .. n -> Nat] : Iterates(g, 0, step, n)
  <2> HIDE DEF step
  <2> QED BY <1>3, Recursion
<1> DEFINE Eq(h) == h = [i \in 0 .. n |-> IF i = 0 THEN 0 ELSE h[i - 1] + f[k + i - 1]]
<1>5. Eq(g)
  <2>1. ASSUME NEW i \in 1 .. n PROVE g[i] = g[i - 1] + f[k + i - 1]
    <3>1. g[i] = Adding(f, k, n)[<<i, g[i - 1]>>]
      BY <1>4 DEF Iterates
    <3>2. g[i - 1] \in Nat
      OBVIOUS
    <3> QED BY <3>1, <3>2 DEF Adding
  <2>2. g[0] = 0
    BY <1>4 DEF Iterates
  <2> QED BY <2>1, <2>2
<1> DEFINE c == Sums(f, k, n)
<1>6. Eq(c)
  BY <1>5 DEF Sums
<1> HIDE DEF c
<1>7. c[0] = 0 /\ \A i \in 1 .. n : c[i] = c[i - 1] + f[k + i - 1]
  BY <1>6
<1>8. \A i \in 0 .. n : c[i] \in Nat
  <2> DEFINE T == {i \in 0 .. n : c[i] \in Nat}
  <2>1. 0 \in T
    BY <1>7
  <2>2. ASSUME NEW i \in 0 .. n - 1, i \in T PROVE i + 1 \in T
    <3>1. i + 1 \in 1 .. n /\ (i + 1) - 1 = i
      OBVIOUS
    <3>2. c[i + 1] = c[i] + f[k + (i + 1) - 1] /\ f[k + (i + 1) - 1] \in Nat
      BY <1>2, <1>7, <3>1
    <3> QED BY <2>2, <3>1, <3>2
  <2> HIDE DEF T
  <2>3. \A i \in 0 .. n : i \in T
    BY <2>1, <2>2, UpTo
  <2> QED BY <2>3 DEF T
<1> QED BY <1>1, <1>7, <1>8 DEF c, Accumulates

LEMMA SumNat ==
  ASSUME NEW f, NEW k \in Nat, NEW n \in Nat, Countable(f, k, n)
  PROVE  SumOf(f, k, n) \in Nat
<1>1. SumOf(f, k, n) = Sums(f, k, n)[n] /\ Accumulates(f, k, n, Sums(f, k, n))
  BY SumsDef
<1> QED BY <1>1 DEF Accumulates

\* A sum depends on the values added up only, wherever they stand.
SameValues(f, k, g, l, n) == \A i \in 0 .. n - 1 : f[k + i] = g[l + i]

LEMMA SumSame ==
  ASSUME NEW f, NEW k \in Nat, NEW g, NEW l \in Nat, NEW n \in Nat,
         Countable(f, k, n), SameValues(f, k, g, l, n)
  PROVE  SumOf(f, k, n) = SumOf(g, l, n)
<1>1. Countable(g, l, n)
  BY DEF Countable, SameValues
<1> DEFINE a == Sums(f, k, n)
           b == Sums(g, l, n)
           T == {i \in 0 .. n : a[i] = b[i]}
<1>0. /\ SumOf(f, k, n) = a[n] /\ Accumulates(f, k, n, a)
      /\ SumOf(g, l, n) = b[n] /\ Accumulates(g, l, n, b)
  BY <1>1, SumsDef
<1> HIDE DEF a, b
<1>2. 0 \in T
  BY <1>0 DEF Accumulates
<1>3. ASSUME NEW i \in 0 .. n - 1, i \in T PROVE i + 1 \in T
  <2>1. /\ i + 1 \in 1 .. n /\ (i + 1) - 1 = i
        /\ k + (i + 1) - 1 = k + i /\ l + (i + 1) - 1 = l + i
    OBVIOUS
  <2>2. a[i + 1] = a[i] + f[k + i] /\ b[i + 1] = b[i] + g[l + i]
    BY <1>0, <2>1 DEF Accumulates
  <2>3. f[k + i] = g[l + i] /\ a[i] = b[i]
    BY <1>3 DEF SameValues
  <2> QED BY <2>1, <2>2, <2>3
<1>4. n \in T
  <2> HIDE DEF T
  <2>1. \A i \in 0 .. n : i \in T
    BY <1>2, <1>3, UpTo
  <2> QED BY <2>1
<1> QED BY <1>0, <1>4

\* A steady source: n windows of c pulses.
AllEqual(f, k, n, c) == \A i \in 0 .. n - 1 : f[k + i] = c

LEMMA SumSteady ==
  ASSUME NEW f, NEW k \in Nat, NEW n \in Nat, NEW c \in Nat, AllEqual(f, k, n, c)
  PROVE  SumOf(f, k, n) = c * n
<1>1. Countable(f, k, n)
  BY DEF Countable, AllEqual
<1> DEFINE a == Sums(f, k, n)
           T == {i \in 0 .. n : a[i] = c * i}
<1>0. SumOf(f, k, n) = a[n] /\ Accumulates(f, k, n, a)
  BY <1>1, SumsDef
<1> HIDE DEF a
<1>2. 0 \in T
  <2>1. a[0] = 0 /\ c * 0 = 0
    BY <1>0 DEF Accumulates
  <2> QED BY <2>1
<1>3. ASSUME NEW i \in 0 .. n - 1, i \in T PROVE i + 1 \in T
  <2>1. i + 1 \in 1 .. n /\ (i + 1) - 1 = i /\ k + (i + 1) - 1 = k + i
    OBVIOUS
  <2>2. a[i + 1] = a[i] + f[k + i]
    BY <1>0, <2>1 DEF Accumulates
  <2>3. f[k + i] = c /\ a[i] = c * i
    BY <1>3 DEF AllEqual
  <2>4. c * (i + 1) = c * i + c
    OBVIOUS
  <2> QED BY <2>1, <2>2, <2>3, <2>4
<1>4. n \in T
  <2> HIDE DEF T
  <2>1. \A i \in 0 .. n : i \in T
    BY <1>2, <1>3, UpTo
  <2> QED BY <2>1
<1> QED BY <1>0, <1>4

-----------------------------------------------------------------------------
(* calc_cpm, of any ring contents and any number of samples *)

Windows == [0 .. N - 1 -> Nat]

LEMMA Parameters ==
  /\ N \in Nat \ {0} /\ max_averaging_period \in 1 .. N - 1
  /\ WINDOWS_PER_MIN \in Nat /\ WINDOWS_PER_MIN < N
  /\ windows_in_30s \in Nat /\ 2 * windows_in_30s = WINDOWS_PER_MIN
  /\ Short \in Nat /\ 2 * Short <= WINDOWS_PER_MIN /\ Short <= windows_in_30s
  /\ Restart \in Nat \ {0} /\ Restart <= Short
  /\ Enough \in Nat /\ Floor \in Nat
  /\ Jump \in Nat \ {0} /\ Jump30 \in Nat \ {0}
  /\ LongSteady = N + max_averaging_period
<1>1. 2 * windows_in_30s = WINDOWS_PER_MIN /\ windows_in_30s \in Nat
  <2> DEFINE m == WINDOWS_PER_MIN
  <2>1. m \in Nat /\ m % 2 = 0
    BY GeigerAssumption
  <2> HIDE DEF m
  <2>2. m = 2 * (m \div 2) /\ m \div 2 \in Nat
    BY <2>1
  <2> QED BY <2>2 DEF m, windows_in_30s
<1> QED BY <1>1, GeigerAssumption DEF N, LongSteady

LEMMA CountableIn ==
  ASSUME NEW b \in Windows, NEW k \in Nat, NEW n \in Nat, k + n <= N
  PROVE  Countable(b, k, n)
BY Parameters DEF Windows, Countable

\* The number of windows averaged is the least that is all there are, or the
\* most, or enough.
LEMMA Used ==
  ASSUME NEW b \in Windows, NEW samples \in 1 .. N
  PROVE  LET used == SamplesUsed(b, samples) IN
         /\ used \in 1 .. max_averaging_period /\ used <= samples
         /\ \/ used = samples \/ used = max_averaging_period
            \/ SumOf(b, 0, used) > Enough
<1> DEFINE most == IF samples < max_averaging_period THEN samples ELSE max_averaging_period
           Stops(n) == n = most \/ SumOf(b, 0, n) > Enough
           T == {n \in 1 .. most : Stops(n)}
<1>1. most \in 1 .. max_averaging_period /\ most <= samples /\ most <= N
  BY Parameters
<1>2. \A n \in 1 .. most : SumOf(b, 0, n) \in Nat
  <2> SUFFICES ASSUME NEW n \in 1 .. most PROVE SumOf(b, 0, n) \in Nat
    OBVIOUS
  <2>1. n \in Nat /\ 0 + n <= N
    BY <1>1, Parameters
  <2> QED BY <2>1, CountableIn, SumNat
<1>3. most \in T
  BY <1>1, Parameters
<1>4. PICK x \in T : \A y \in T : x <= y
  <2>1. T \in SUBSET Nat /\ T # {}
    BY <1>3, Parameters
  <2> HIDE DEF T
  <2> QED BY <2>1, LeastNatural
<1>5. /\ x \in 1 .. most /\ (x = most \/ SumOf(b, 0, x) > Enough)
      /\ \A m \in 1 .. x - 1 : SumOf(b, 0, m) <= Enough
  <2>1. x \in 1 .. most /\ Stops(x)
    OBVIOUS
  <2>2. ASSUME NEW m \in 1 .. x - 1 PROVE SumOf(b, 0, m) <= Enough
    <3>1. m \in 1 .. most /\ ~ (x <= m)
      BY <2>1, <1>1, Parameters
    <3>2. ~ Stops(m)
      <4> HIDE DEF most, Stops
      <4> QED BY <1>4, <3>1
    <3>3. SumOf(b, 0, m) \in Nat
      BY <1>2, <3>1
    <3> QED BY <3>2, <3>3, Parameters
  <2> QED BY <2>1, <2>2
<1> DEFINE Ends(n) == /\ n = most \/ SumOf(b, 0, n) > Enough
                      /\ \A m \in 1 .. n - 1 : SumOf(b, 0, m) <= Enough
           used == SamplesUsed(b, samples)
<1>6. used = CHOOSE n \in 1 .. most : Ends(n)
  BY DEF SamplesUsed
<1>7. used \in 1 .. most /\ Ends(used)
  <2>1. x \in 1 .. most /\ Ends(x)
    BY <1>5
  <2> HIDE DEF most, Ends, used
  <2> QED BY <1>6, <2>1
<1> HIDE DEF used
<1>8. /\ used \in 1 .. max_averaging_period /\ used <= samples
      /\ used = samples \/ used = max_averaging_period \/ SumOf(b, 0, used) > Enough
  BY <1>1, <1>7, Parameters
<1> QED BY <1>8 DEF used

\* Without a sudden change the samples are kept, with one Restart of them.
LEMMA KeptSamples ==
  ASSUME NEW w, NEW p, NEW samples
  PROVE  LET b == Backwards(w, p)
             kept == Kept(w, p, samples) IN
         \/ kept = samples /\ ~ Jumped(b, 0)
         \/ kept = Restart /\ Jumped(b, 0)
         \/ /\ kept = Restart /\ is_cpm30_valid(samples)
            /\ Jumped30(b, get_cpm30(w, p, samples))
BY DEF Kept

\* A jump shows that old windows are not all empty.
LEMMA JumpedSeen ==
  ASSUME NEW b, NEW k \in Nat, Jumped(b, k)
  PROVE  \E i \in 0 .. Short - 1 : b[k + Short + i] # 0
<1> SUFFICES ASSUME \A i \in 0 .. Short - 1 : b[k + Short + i] = 0 PROVE FALSE
  OBVIOUS
<1>1. AllEqual(b, k + Short, Short, 0)
  BY DEF AllEqual
<1>2. SumOf(b, k + Short, Short) = 0 * Short
  BY <1>1, Parameters, SumSteady
<1>3. 0 * Short = 0
  BY Parameters
<1> QED BY <1>2, <1>3 DEF Jumped

\* Jumping moves with the windows.
LEMMA JumpedMoves ==
  ASSUME NEW b \in Windows, NEW d \in Windows, NEW k \in Nat,
         (k + 1) + 2 * Short <= N,
         \A j \in 1 .. N - 1 : b[j] = d[j - 1],
         Jumped(b, k + 1)
  PROVE  Jumped(d, k)
<1>0. Short \in Nat /\ N \in Nat
  BY Parameters
<1>1. ASSUME NEW l \in Nat, (l + 1) + Short <= N
      PROVE  SumOf(d, l, Short) = SumOf(b, l + 1, Short)
  <2>1. SameValues(d, l, b, l + 1, Short)
    <3> SUFFICES ASSUME NEW i \in 0 .. Short - 1 PROVE d[l + i] = b[(l + 1) + i]
      BY DEF SameValues
    <3>1. (l + 1) + i \in 1 .. N - 1 /\ ((l + 1) + i) - 1 = l + i
      BY <1>0, <1>1
    <3> QED BY <3>1
  <2>2. Countable(d, l, Short)
    BY <1>0, <1>1, CountableIn
  <2> QED BY <1>0, <2>1, <2>2, SumSame
<1>2. SumOf(d, k, Short) = SumOf(b, k + 1, Short)
  BY <1>0, <1>1
<1>3. SumOf(d, k + Short, Short) = SumOf(b, (k + 1) + Short, Short)
  <2>1. k + Short \in Nat /\ (k + Short) + 1 = (k + 1) + Short
    BY <1>0
  <2>2. ((k + Short) + 1) + Short <= N
    BY <1>0
  <2> QED BY <1>1, <2>1, <2>2
<1> QED BY <1>2, <1>3 DEF Jumped

\* From a steady source nothing is invalidated: the two five second sums are
\* equal, and the rates over 30 and over 5 seconds differ only by what the
\* division WINDOWS_PER_MIN \div Short drops.
LEMMA SteadyRates ==
  ASSUME NEW c \in Nat, NEW q \in Nat, NEW z \in Nat,
         q = WINDOWS_PER_MIN \div Short, z = windows_in_30s
  PROVE  LET cpm5 == c * Short * q
             diff == cpm5 * z - c * z * WINDOWS_PER_MIN
         IN  ~ ((IF diff < 0 THEN - diff ELSE diff) > cpm5 * Jump30 * z)
<1> DEFINE sq == Short * q
           e == c * z
           M == WINDOWS_PER_MIN
<1>1. /\ M \in Nat /\ Short \in Nat \ {0} /\ Short <= M /\ Jump30 \in Nat \ {0}
  BY Parameters
<1>2. /\ sq \in Nat /\ sq <= M /\ M < sq + Short /\ Short <= sq
  <2> DEFINE s == Short
  <2> HIDE DEF M, s
  <2>1. M \in Nat /\ s \in Nat \ {0} /\ s <= M
    BY <1>1 DEF s
  <2>2. M = s * (M \div s) + (M % s) /\ M % s \in 0 .. s - 1 /\ M \div s \in Nat
    BY <2>1
  <2>3. q = M \div s
    BY DEF M, s
  <2>4. s * q \in Nat
    BY <2>1
  <2>5. q >= 1
    <3> SUFFICES ASSUME q = 0 PROVE FALSE
      OBVIOUS
    <3>1. s * 0 = 0
      BY <2>1
    <3> QED BY <2>1, <2>2, <2>3, <3>1
  <2>6. s <= s * q
    <3>1. s * (q - 1) >= 0
      BY <2>1, <2>5
    <3>2. s * (q - 1) = s * q - s
      BY <2>1
    <3> QED BY <2>1, <2>4, <3>1, <3>2
  <2> QED BY <2>1, <2>2, <2>3, <2>4, <2>6 DEF s
<1>3. e \in Nat
  OBVIOUS
<1> DEFINE cpm5 == c * Short * q
<1>4. cpm5 * z = e * sq /\ cpm5 * Jump30 * z = e * sq * Jump30 /\ c * z * M = e * M
  <2> DEFINE s == Short
             j == Jump30
             m == M
  <2>1. s \in Nat /\ j \in Nat /\ m \in Nat
    BY <1>1
  <2> HIDE DEF s, j, m
  <2>2. (c * s * q) * z = (c * z) * (s * q)
    BY <2>1
  <2>3. (c * s * q) * j * z = (c * z) * (s * q) * j
    BY <2>1
  <2> QED BY <2>2, <2>3 DEF s, j, m
<1> HIDE DEF cpm5, e, sq, M
<1>5. e * M - e * sq <= e * sq
  <2>1. sq + sq - M \in Nat
    BY <1>1, <1>2
  <2>2. e * (sq + sq - M) >= 0
    BY <1>3, <2>1
  <2>3. e * (sq + sq - M) = e * sq + e * sq - e * M
    BY <1>1, <1>2, <1>3
  <2>4. e * sq \in Int /\ e * M \in Int
    BY <1>1, <1>2, <1>3
  <2> QED BY <2>2, <2>3, <2>4
<1>6. e * sq <= e * M
  <2>1. e * (M - sq) >= 0
    BY <1>1, <1>2, <1>3
  <2>2. e * (M - sq) = e * M - e * sq
    BY <1>1, <1>2, <1>3
  <2>3. e * sq \in Int /\ e * M \in Int
    BY <1>1, <1>2, <1>3
  <2> QED BY <2>1, <2>2, <2>3
<1>7. e * sq <= e * sq * Jump30
  <2> DEFINE y == e * sq
             j == Jump30
  <2>1. y \in Nat /\ j \in Nat /\ j >= 1
    BY <1>1, <1>2, <1>3
  <2> HIDE DEF y, j
  <2>2. y * (j - 1) >= 0
    BY <2>1
  <2>3. y * (j - 1) = y * j - y
    BY <2>1
  <2>4. y * j \in Int
    BY <2>1
  <2> QED BY <2>1, <2>2, <2>3, <2>4 DEF y, j
<1>8. e * sq \in Int /\ e * M \in Int /\ e * sq * Jump30 \in Int
  BY <1>1, <1>2, <1>3
<1> DEFINE diff == cpm5 * z - c * z * M
<1>9. ~ ((IF diff < 0 THEN - diff ELSE diff) > cpm5 * Jump30 * z)
  <2> DEFINE x == e * sq
             y == e * M
             u == e * sq * Jump30
  <2>1. diff = x - y /\ cpm5 * Jump30 * z = u
    BY <1>4
  <2> HIDE DEF diff, x, y, u
  <2>2. x \in Int /\ y \in Int /\ u \in Int /\ y - x <= x /\ x <= y /\ x <= u
    BY <1>5, <1>6, <1>7, <1>8 DEF x, y, u
  <2> QED BY <2>1, <2>2
<1> QED BY <1>9 DEF cpm5, M

\* All the ring holds is c.
LEMMA KeptSteady ==
  ASSUME NEW w, NEW p \in 0 .. N - 1, NEW samples \in 1 .. N, NEW c \in Nat,
         \A k \in 0 .. N - 1 : w[Where(p, k)] = c
  PROVE  /\ Kept(w, p, samples) = samples
         /\ AllEqual(Backwards(w, p), 0, N, c)
<1> DEFINE b == Backwards(w, p)
           m == windows_in_30s
           f == [k \in 0 .. m - 1 |-> w[Index30(p, k)]]
<1>1. \A k \in 0 .. N - 1 : b[k] = c
  BY DEF Backwards, Where, N
<1>2. AllEqual(b, 0, N, c)
  <2> HIDE DEF b
  <2> QED BY <1>1, Parameters DEF AllEqual
<1>3. ASSUME NEW k \in Nat, NEW n \in Nat, k + n <= N PROVE SumOf(b, k, n) = c * n
  <2> HIDE DEF b
  <2>1. AllEqual(b, k, n, c)
    BY <1>1, <1>3, Parameters DEF AllEqual
  <2> QED BY <2>1, SumSteady
<1>4. SumOf(b, 0, Short) = c * Short /\ SumOf(b, 0 + Short, Short) = c * Short
  <2>1. Short \in Nat /\ 0 + Short \in Nat /\ 0 + Short <= N /\ (0 + Short) + Short <= N
    BY Parameters
  <2> HIDE DEF b
  <2> QED BY <1>3, <2>1
<1>5. ~ Jumped(b, 0)
  <2> DEFINE a == c * Short
             j == Jump
  <2>1. a \in Nat /\ j \in Nat /\ j >= 1
    BY Parameters
  <2> HIDE DEF a, j
  <2>2. ~ (a * j < a)
    <3>1. a * (j - 1) >= 0 /\ a * (j - 1) = a * j - a /\ a * j \in Int
      BY <2>1
    <3> QED BY <2>1, <3>1
  <2> HIDE DEF b
  <2> QED BY <1>4, <2>2 DEF Jumped, a, j
<1>6. SumOf(f, 0, m) = c * m
  <2>1. ASSUME NEW k \in 0 .. m - 1 PROVE w[Index30(p, k)] = c
    <3>1. k \in 0 .. N - 1 /\ k + N - WINDOWS_PER_MIN \in 0 .. N - 1
      BY Parameters
    <3>2. CASE k < p
      <4>1. Index30(p, k) = Where(p, k)
        BY <3>1, <3>2, Backward DEF Index30
      <4> QED BY <3>1, <4>1
    <3>3. CASE ~ (k < p)
      <4> DEFINE i == k + N - WINDOWS_PER_MIN
      <4>1. i \in 0 .. N - 1 /\ ~ (i < p) /\ p - 1 - i + N = p - 1 - k + WINDOWS_PER_MIN
        BY <3>1, <3>3, Parameters
      <4> HIDE DEF i
      <4>2. Where(p, i) = p - 1 - i + N
        BY <4>1, Backward
      <4>3. Index30(p, k) = Where(p, i)
        BY <3>3, <4>1, <4>2 DEF Index30
      <4> QED BY <4>1, <4>3
    <3> QED BY <3>2, <3>3
  <2>2. AllEqual(f, 0, m, c)
    <3> SUFFICES ASSUME NEW i \in 0 .. m - 1 PROVE f[0 + i] = c
      BY DEF AllEqual
    <3>1. 0 + i = i
      OBVIOUS
    <3> HIDE DEF m
    <3> QED BY <2>1, <3>1
  <2> HIDE DEF f
  <2> QED BY <2>2, Parameters, SumSteady
<1>7. is_cpm30_valid(samples) => ~ Jumped30(b, get_cpm30(w, p, samples))
  <2> SUFFICES ASSUME is_cpm30_valid(samples) PROVE ~ Jumped30(b, get_cpm30(w, p, samples))
    OBVIOUS
  <2> DEFINE r == get_cpm30(w, p, samples)
             q == WINDOWS_PER_MIN \div Short
  <2>1. r.sum = c * m /\ r.over = m
    <3>1. samples > m
      BY Parameters DEF is_cpm30_valid
    <3>2. r = Rate(c * m, m)
      BY <1>6, <3>1 DEF get_cpm30
    <3> QED BY <3>2 DEF Rate
  <2> HIDE DEF r
  <2>2. q \in Nat
    <3> DEFINE M == WINDOWS_PER_MIN
               s == Short
    <3>1. M \in Nat /\ s \in Nat \ {0}
      BY Parameters
    <3> HIDE DEF M, s
    <3>2. M \div s \in Nat
      BY <3>1
    <3> QED BY <3>2 DEF M, s
  <2>3. m \in Nat
    BY Parameters
  <2> DEFINE cpm5 == c * Short * q
             diff == cpm5 * m - c * m * WINDOWS_PER_MIN
  <2>4. ~ ((IF diff < 0 THEN - diff ELSE diff) > cpm5 * Jump30 * m)
    BY <2>2, <2>3, SteadyRates
  <2>5. SumOf(b, 0, Short) * q = cpm5
    BY <1>4
  <2> HIDE DEF b, cpm5, m
  <2> QED BY <2>1, <2>4, <2>5 DEF Jumped30, r
<1>8. Kept(w, p, samples) = samples
  <2>1. Kept(w, p, samples) =
          IF is_cpm30_valid(samples) /\ Jumped30(b, get_cpm30(w, p, samples)) THEN Restart ELSE samples
    BY <1>5 DEF Kept
  <2> QED BY <1>7, <2>1
<1> QED BY <1>2, <1>8
-----------------------------------------------------------------------------
(* The meter *)

\* The samples are among the latest windows, the rate among the samples.
SamplesInv ==
  /\ m_samples_collected \in 0 .. N /\ m_samples_collected <= Len(recent)
  /\ cpm \in [sum : Nat, over : 1 .. max_averaging_period]
  /\ m_cpm_valid \in BOOLEAN
  /\ cpm.over <= m_samples_collected \/ (recent = <<>> /\ cpm.over = 1)

\* No sudden change is left among the samples.
NoJumpInv == \A k \in 0 .. m_samples_collected - 2 * Short : ~ Jumped(Seen, k)

\* The latest steady windows hold the same count; one that has filled the ring
\* is not invalidated any more.
SteadyInv ==
  /\ steady \in 0 .. LongSteady
  /\ \A k \in 0 .. N - 1 : k < steady => k < Len(recent) /\ recent[k + 1] = recent[1]
  /\ steady >= N => m_samples_collected >= steady - N + 1

MeterInv ==
  /\ RingInv /\ SumOfLatest /\ SamplesInv /\ ValidMeansEnough /\ NoJumpInv
  /\ SteadyInv /\ SettlesValid

LEMMA SeenWindows == RingInv => Seen \in Windows
<1> SUFFICES ASSUME RingInv, NEW k \in 0 .. N - 1
             PROVE  (IF k < Len(recent) THEN recent[k + 1] ELSE 0) \in Nat
  BY DEF Seen, Windows, N
<1>1. recent \in Seq(Counts) /\ Len(recent) \in Nat /\ Counts \subseteq Nat
  BY Sizes DEF RingInv
<1>2. CASE k < Len(recent)
  <2>1. k + 1 \in 1 .. Len(recent)
    BY <1>1, <1>2, Sizes
  <2>2. recent[k + 1] \in Counts
    BY <1>1, <2>1, ElementOfSeq
  <2> QED BY <1>1, <1>2, <2>2
<1> QED BY <1>2

\* A new window is seen first and moves the others one further back.
LEMMA SeenStep ==
  ASSUME RingInv, NEW count \in Counts, update_last_windows(count)
  PROVE  /\ Seen \in Windows /\ Seen' \in Windows
         /\ Backwards(last_windows', last_windows_position') = Seen'
         /\ Seen'[0] = count
         /\ \A j \in 1 .. N - 1 : Seen'[j] = Seen[j - 1]
         /\ recent' \in Seq(Counts) /\ recent'[1] = count
         /\ Len(recent') = (IF Len(recent) < N THEN Len(recent) + 1 ELSE N)
         /\ Len(recent) \in 0 .. N
         /\ \A k \in 1 .. Len(recent') - 1 : recent'[k + 1] = recent[k]
<1>1. RingInv'
  BY RingStep
<1>2. Seen \in Windows
  BY SeenWindows
<1>3. Seen' \in Windows
  <2> SUFFICES ASSUME NEW k \in 0 .. N - 1
               PROVE  (IF k < Len(recent') THEN recent'[k + 1] ELSE 0) \in Nat
    BY DEF Seen, Windows, N
  <2>1. recent' \in Seq(Counts) /\ Len(recent') \in Nat /\ Counts \subseteq Nat
    BY <1>1, Sizes DEF RingInv
  <2>2. CASE k < Len(recent')
    <3>1. k + 1 \in 1 .. Len(recent')
      BY <2>1, <2>2, Sizes
    <3>2. recent'[k + 1] \in Counts
      BY <2>1, <3>1, ElementOfSeq
    <3> QED BY <2>1, <2>2, <3>2
  <2> QED BY <2>2
<1>4. Backwards(last_windows', last_windows_position') = Seen'
  <2>1. ASSUME NEW k \in 0 .. WINDOWS_STORED - 1
        PROVE  last_windows'[(last_windows_position' - 1 - k) % WINDOWS_STORED]
                 = IF k < Len(recent') THEN recent'[k + 1] ELSE 0
    BY <1>1 DEF RingInv, Where, N
  <2> QED BY <2>1 DEF Backwards, Seen
<1> DEFINE s == recent
           l == IF Len(s) < N THEN Len(s) + 1 ELSE N
           t == SubSeq(<<count>> \o s, 1, l)
<1>5. recent' = t
  BY DEF update_last_windows, N
<1>6. s \in Seq(Counts) /\ Len(s) <= N /\ Len(s) \in Nat /\ N \in Nat \ {0}
  BY Sizes DEF RingInv
<1>7. /\ t \in Seq(Counts) /\ Len(t) = l /\ l \in 1 .. N /\ t[1] = count
      /\ \A k \in 1 .. l - 1 : t[k + 1] = s[k]
  BY <1>6, Remember
<1> HIDE DEF t
<1>8. ASSUME NEW j \in 0 .. N - 1 PROVE Seen'[j] = IF j < l THEN t[j + 1] ELSE 0
  BY <1>5, <1>7 DEF Seen, N
<1>9. ASSUME NEW j \in 1 .. N - 1 PROVE Seen'[j] = Seen[j - 1]
  <2>1. j - 1 \in 0 .. N - 1 /\ j \in 0 .. N - 1 /\ (j - 1) + 1 = j
    BY <1>6
  <2>2. Seen[j - 1] = IF j - 1 < Len(s) THEN s[j] ELSE 0
    BY <2>1 DEF Seen, N
  <2>3. Seen'[j] = IF j < l THEN t[j + 1] ELSE 0
    BY <1>8, <2>1
  <2>4. j < l <=> j - 1 < Len(s)
    BY <1>6
  <2>5. j < l => t[j + 1] = s[j]
    BY <1>6, <1>7
  <2> QED BY <2>2, <2>3, <2>4, <2>5
<1>10. Seen'[0] = count
  <2>1. 0 \in 0 .. N - 1 /\ 0 < l /\ 0 + 1 = 1
    BY <1>6, <1>7
  <2> QED BY <1>7, <1>8, <2>1
<1>11. Len(recent) \in 0 .. N
  BY <1>6
<1>12. /\ recent' \in Seq(Counts) /\ recent'[1] = count
       /\ Len(recent') = IF Len(recent) < N THEN Len(recent) + 1 ELSE N
       /\ \A k \in 1 .. Len(recent') - 1 : recent'[k + 1] = recent[k]
  BY <1>5, <1>7
<1> HIDE DEF s, l
<1> QED BY <1>2, <1>3, <1>4, <1>9, <1>10, <1>11, <1>12
\* What one run of calc_cpm leaves behind.
LEMMA CalcStep ==
  ASSUME RingInv, SamplesInv, NEW count \in Counts, update_last_windows(count)
  PROVE  LET kept == m_samples_collected'
             used == cpm'.over
             sum  == cpm'.sum IN
         /\ Collected \in 1 .. N /\ Collected <= Len(recent')
         /\ kept \in 1 .. N /\ kept <= Len(recent')
         /\ kept = Restart \/ (kept = Collected /\ ~ Jumped(Seen', 0))
         /\ kept = Kept(last_windows', last_windows_position', Collected)
         /\ cpm' = Rate(sum, used) /\ sum = SumOf(Seen', 0, used)
         /\ used \in 1 .. max_averaging_period /\ used <= kept /\ sum \in Nat
         /\ used = kept \/ used = max_averaging_period \/ sum > Enough
         /\ m_cpm_valid' = IsValid(kept, used, sum)
<1> DEFINE w == last_windows'
           p == last_windows_position'
           b == Backwards(w, p)
           kept == Kept(w, p, Collected)
           used == SamplesUsed(b, kept)
           sum == SumOf(b, 0, used)
<1>1. /\ m_samples_collected' = kept /\ cpm' = Rate(sum, used)
      /\ m_cpm_valid' = IsValid(kept, used, sum)
  BY DEF update_last_windows, calc_cpm
<1>2. /\ b = Seen' /\ Seen' \in Windows
      /\ Len(recent') = IF Len(recent) < N THEN Len(recent) + 1 ELSE N
      /\ Len(recent) \in 0 .. N
  BY SeenStep
<1>3. /\ m_samples_collected \in 0 .. N /\ m_samples_collected <= Len(recent)
      /\ N \in Nat \ {0}
  BY Parameters DEF SamplesInv
<1>4. Collected = IF m_samples_collected < N THEN m_samples_collected + 1 ELSE m_samples_collected
  BY DEF Collected, N
<1>5. Collected \in 1 .. N /\ Collected <= Len(recent') /\ Len(recent') \in 1 .. N
  BY <1>2, <1>3, <1>4
<1>6. \/ kept = Collected /\ ~ Jumped(b, 0)
      \/ kept = Restart /\ Jumped(b, 0)
      \/ kept = Restart /\ is_cpm30_valid(Collected)
  BY KeptSamples
<1>7. kept \in 1 .. N /\ kept <= Len(recent')
  <2>1. CASE kept = Collected
    BY <1>5, <2>1
  <2>2. CASE kept = Restart /\ Jumped(b, 0)
    <3>1. PICK i \in 0 .. Short - 1 : Seen'[0 + Short + i] # 0
      <4> HIDE DEF b
      <4> QED BY <1>2, <2>2, JumpedSeen
    <3> DEFINE j == 0 + Short + i
    <3>2. j \in 0 .. N - 1 /\ Restart <= j /\ Restart \in 1 .. N
      BY Parameters
    <3> HIDE DEF j
    <3>3. Seen'[j] = IF j < Len(recent') THEN recent'[j + 1] ELSE 0
      BY <3>2 DEF Seen, N
    <3>4. j < Len(recent')
      BY <3>1, <3>3 DEF j
    <3> HIDE DEF kept, b
    <3> QED BY <1>5, <2>2, <3>2, <3>4
  <2>3. CASE kept = Restart /\ is_cpm30_valid(Collected)
    <3>1. Collected > windows_in_30s + 1
      BY <2>3 DEF is_cpm30_valid
    <3>2. Restart <= windows_in_30s /\ Restart \in 1 .. N /\ windows_in_30s \in Nat
      BY Parameters
    <3> HIDE DEF kept, b
    <3> QED BY <1>5, <2>3, <3>1, <3>2
  <2> HIDE DEF kept, b
  <2> QED BY <1>6, <2>1, <2>2, <2>3
<1> HIDE DEF kept
<1>8. /\ used \in 1 .. max_averaging_period /\ used <= kept
      /\ used = kept \/ used = max_averaging_period \/ SumOf(b, 0, used) > Enough
  <2> HIDE DEF b
  <2> QED BY <1>2, <1>7, Used
<1>9. sum \in Nat
  <2> DEFINE u == used
  <2>1. u \in Nat /\ 0 + u <= N
    BY <1>7, <1>8, Parameters
  <2> HIDE DEF u, b
  <2>2. SumOf(b, 0, u) \in Nat
    BY <1>2, <2>1, CountableIn, SumNat
  <2> QED BY <2>2 DEF u
<1>10. kept = Restart \/ (kept = Collected /\ ~ Jumped(Seen', 0))
  <2> HIDE DEF b
  <2> QED BY <1>2, <1>6
<1>11. sum = SumOf(Seen', 0, used)
  <2> DEFINE u == used
  <2> HIDE DEF b, u
  <2>1. SumOf(b, 0, u) = SumOf(Seen', 0, u)
    BY <1>2
  <2> QED BY <2>1 DEF u
<1> HIDE DEF sum, used, b
<1>12. cpm'.over = used /\ cpm'.sum = sum
  BY <1>1 DEF Rate
<1>13. kept = Kept(w, p, Collected)
  BY DEF kept
<1> HIDE DEF w, p
<1> QED BY <1>1, <1>5, <1>7, <1>8, <1>9, <1>10, <1>11, <1>12, <1>13 DEF w, p, sum
LEMMA MeterStart == initialise => MeterInv
<1> SUFFICES ASSUME initialise PROVE MeterInv
  OBVIOUS
<1>1. RingInv
  BY RingStart
<1>2. /\ m_samples_collected = 0 /\ cpm = Rate(0, 1) /\ m_cpm_valid = FALSE
      /\ recent = <<>> /\ steady = 0
  BY DEF initialise
<1>3. SumOfLatest
  BY <1>2 DEF SumOfLatest
<1>4. SamplesInv
  <2>1. cpm.over = 1 /\ cpm \in [sum : Nat, over : 1 .. max_averaging_period]
    BY <1>2, Parameters DEF Rate
  <2>2. m_cpm_valid \in BOOLEAN
    BY <1>2
  <2>3. Len(recent) = 0
    BY <1>2, EmptySeq
  <2> QED BY <1>2, <2>1, <2>2, <2>3, Parameters DEF SamplesInv
<1>5. ValidMeansEnough
  BY <1>2 DEF ValidMeansEnough
<1>6. NoJumpInv
  BY <1>2, Parameters DEF NoJumpInv
<1>7. SteadyInv
  BY <1>2, Parameters DEF SteadyInv
<1>8. SettlesValid
  BY <1>2, Parameters DEF SettlesValid
<1> QED BY <1>1, <1>3, <1>4, <1>5, <1>6, <1>7, <1>8 DEF MeterInv

\* A new sample brings no jump among the samples: what calc_cpm tests is the
\* only pair of windows it adds, and the others have moved.
LEMMA NoJumpStep ==
  ASSUME RingInv, SamplesInv, NoJumpInv, NEW count \in Counts, update_last_windows(count)
  PROVE  NoJumpInv'
<1> SUFFICES ASSUME NEW k \in 0 .. m_samples_collected' - 2 * Short,
                    Jumped(Seen', k)
             PROVE  FALSE
  BY DEF NoJumpInv, Jumped, Seen, SumOf
<1>1. /\ Collected \in 1 .. N /\ m_samples_collected' \in 1 .. N
      /\ \/ m_samples_collected' = Restart
         \/ m_samples_collected' = Collected /\ ~ Jumped(Seen', 0)
  BY CalcStep
<1>2. /\ Seen \in Windows /\ Seen' \in Windows
      /\ \A j \in 1 .. N - 1 : Seen'[j] = Seen[j - 1]
  BY SeenStep
<1>3. m_samples_collected \in 0 .. N /\ Collected <= m_samples_collected + 1
  <2>1. Collected = IF m_samples_collected < N THEN m_samples_collected + 1 ELSE m_samples_collected
    BY DEF Collected, N
  <2> QED BY <2>1, Parameters DEF SamplesInv
<1>4. m_samples_collected' # Restart
  BY Parameters
<1>5. k # 0 /\ m_samples_collected' = Collected
  BY <1>1, <1>4
<1>6. k - 1 \in Nat /\ (k - 1) + 1 = k /\ k + 2 * Short <= N
      /\ k - 1 \in 0 .. m_samples_collected - 2 * Short
  BY <1>1, <1>3, <1>5, Parameters
<1>7. Jumped(Seen, k - 1)
  <2> DEFINE b == Seen'
             d == Seen
             l == k - 1
  <2>1. b \in Windows /\ d \in Windows /\ (\A j \in 1 .. N - 1 : b[j] = d[j - 1])
    BY <1>2
  <2>2. l \in Nat /\ (l + 1) + 2 * Short <= N
    BY <1>6, Parameters
  <2>3. Jumped(b, l + 1)
    BY <1>6
  <2> HIDE DEF b, d, l
  <2>4. Jumped(d, l)
    BY <2>1, <2>2, <2>3, JumpedMoves
  <2> QED BY <2>4 DEF d, l
<1> QED BY <1>6, <1>7 DEF NoJumpInv

\* The latest windows of a steady source, and the samples it has been let keep.
LEMMA SteadyStep ==
  ASSUME RingInv, SamplesInv, SteadyInv, NEW count \in Counts, update_last_windows(count)
  PROVE  SteadyInv'
<1>1. /\ Len(recent') = (IF Len(recent) < N THEN Len(recent) + 1 ELSE N)
      /\ Len(recent) \in 0 .. N /\ recent'[1] = count
      /\ \A k \in 1 .. Len(recent') - 1 : recent'[k + 1] = recent[k]
  BY SeenStep
<1>2. /\ recent \in Seq(Counts) /\ N \in Nat \ {0}
      /\ LongSteady = N + max_averaging_period /\ max_averaging_period \in 1 .. N - 1
  BY Parameters DEF RingInv
<1>3. /\ steady \in 0 .. LongSteady
      /\ \A k \in 0 .. N - 1 : k < steady => k < Len(recent) /\ recent[k + 1] = recent[1]
      /\ steady >= N => m_samples_collected >= steady - N + 1
  BY DEF SteadyInv
<1>4. steady' = IF recent = <<>> \/ count # Head(recent) THEN 1
                ELSE IF steady < LongSteady THEN steady + 1 ELSE steady
  BY DEF update_last_windows
<1>5. recent # <<>> => Len(recent) >= 1 /\ Head(recent) = recent[1]
  BY <1>2, EmptySeq
<1>6. steady' \in 0 .. LongSteady
  BY <1>2, <1>3, <1>4
<1>7. ASSUME NEW k \in 0 .. N - 1, k < steady'
      PROVE  k < Len(recent') /\ recent'[k + 1] = recent'[1]
  <2>1. CASE k = 0
    BY <1>1, <1>2, <2>1
  <2>2. CASE k # 0
    <3>1. recent # <<>> /\ count = recent[1] /\ k - 1 < steady
      BY <1>2, <1>3, <1>4, <1>5, <1>7, <2>2
    <3>2. k - 1 \in 0 .. N - 1 /\ (k - 1) + 1 = k
      BY <1>2, <2>2
    <3>3. k - 1 < Len(recent) /\ recent[(k - 1) + 1] = recent[1]
      BY <1>3, <3>1, <3>2
    <3>4. k \in 1 .. Len(recent') - 1
      BY <1>1, <1>2, <2>2, <3>3
    <3> QED BY <1>1, <3>1, <3>2, <3>3, <3>4
  <2> QED BY <2>1, <2>2
<1>8. \A k \in 0 .. N - 1 : k < steady' => k < Len(recent') /\ recent'[k + 1] = recent'[1]
  BY <1>7
<1>9. ASSUME steady' >= N PROVE m_samples_collected' >= steady' - N + 1
  <2> DEFINE w == last_windows'
             p == last_windows_position'
  <2>1. ASSUME NEW k \in 0 .. N - 1 PROVE w[Where(p, k)] = count
    <3>1. RingInv'
      BY RingStep
    <3>2. w[Where(p, k)] = IF k < Len(recent') THEN recent'[k + 1] ELSE 0
      BY <3>1 DEF RingInv, Where, N
    <3>3. k < steady'
      BY <1>2, <1>6, <1>9
    <3> QED BY <1>1, <1>8, <3>2, <3>3
  <2>2. p \in 0 .. N - 1 /\ count \in Nat
    <3>1. RingInv'
      BY RingStep
    <3> QED BY <3>1, Sizes DEF RingInv
  <2>3. Collected \in 1 .. N /\ m_samples_collected' = Kept(w, p, Collected)
    BY CalcStep
  <2> HIDE DEF w, p
  <2>4. m_samples_collected' = Collected
    BY <2>1, <2>2, <2>3, KeptSteady
  <2>5. Collected = IF m_samples_collected < N THEN m_samples_collected + 1 ELSE m_samples_collected
    BY DEF Collected, N
  <2>6. m_samples_collected \in 0 .. N
    BY DEF SamplesInv
  <2> QED BY <1>2, <1>3, <1>4, <1>6, <1>9, <2>3, <2>4, <2>5, <2>6
<1> QED BY <1>6, <1>8, <1>9 DEF SteadyInv
LEMMA SettlesStep ==
  ASSUME RingInv, SamplesInv, SteadyInv, NEW count \in Counts, update_last_windows(count)
  PROVE  SettlesValid'
<1> SUFFICES ASSUME steady' = LongSteady, Head(recent') * WINDOWS_PER_MIN <= MAX_CPM
             PROVE  m_cpm_valid'
  BY DEF SettlesValid, LongSteady
<1> DEFINE kept == m_samples_collected'
           used == cpm'.over
           sum  == cpm'.sum
           b    == Seen'
           m    == max_averaging_period
<1>1. SteadyInv'
  BY SteadyStep
<1>2. /\ kept \in 1 .. N /\ used \in 1 .. m /\ used <= kept /\ sum \in Nat
      /\ sum = SumOf(b, 0, used) /\ m_cpm_valid' = IsValid(kept, used, sum)
  BY CalcStep
<1>3. /\ N \in Nat \ {0} /\ m \in 1 .. N - 1 /\ LongSteady = N + m
      /\ WINDOWS_PER_MIN \in Nat /\ MAX_CPM \in Nat
  BY Parameters, GeigerAssumption
<1>4. kept > used
  <2>1. kept >= steady' - N + 1
    BY <1>1, <1>3 DEF SteadyInv
  <2> QED BY <1>2, <1>3, <2>1
<1>5. recent' \in Seq(Counts) /\ recent'[1] = count /\ count \in Nat /\ Head(recent') = count
  <2>1. /\ recent' \in Seq(Counts) /\ recent'[1] = count /\ Len(recent) \in 0 .. N
        /\ Len(recent') = (IF Len(recent) < N THEN Len(recent) + 1 ELSE N)
    BY SeenStep
  <2>2. Len(recent') >= 1
    BY <1>3, <2>1
  <2> QED BY <2>1, <2>2, Sizes, EmptySeq
<1>6. AllEqual(b, 0, used, count)
  <2> SUFFICES ASSUME NEW i \in 0 .. used - 1 PROVE b[0 + i] = count
    BY DEF AllEqual
  <2>1. i \in 0 .. N - 1 /\ 0 + i = i /\ i < steady'
    BY <1>2, <1>3
  <2>2. i < Len(recent') /\ recent'[i + 1] = recent'[1]
    BY <1>1, <2>1 DEF SteadyInv
  <2>3. b[i] = IF i < Len(recent') THEN recent'[i + 1] ELSE 0
    BY <2>1 DEF Seen, N
  <2> QED BY <1>5, <2>1, <2>2, <2>3
<1>7. sum = count * used
  <2> HIDE DEF b, used, sum
  <2>1. used \in Nat
    BY <1>2, <1>3
  <2>2. SumOf(b, 0, used) = count * used
    BY <1>5, <1>6, <2>1, SumSteady
  <2> QED BY <1>2, <2>2
<1>8. sum * WINDOWS_PER_MIN <= MAX_CPM * used
  <2> DEFINE x == MAX_CPM
             y == WINDOWS_PER_MIN
  <2>1. x \in Nat /\ y \in Nat /\ used \in Nat /\ count * y <= x
    BY <1>2, <1>3, <1>5
  <2> HIDE DEF x, y, used, sum
  <2>2. (x - count * y) * used >= 0
    BY <1>5, <2>1
  <2>3. (x - count * y) * used = x * used - (count * used) * y
    BY <1>5, <2>1
  <2>4. x * used \in Int /\ (count * used) * y \in Int
    BY <1>5, <2>1
  <2> QED BY <1>7, <2>2, <2>3, <2>4 DEF x, y
<1> QED BY <1>2, <1>4, <1>8 DEF IsValid

LEMMA MeterStep ==
  ASSUME MeterInv, NEW count \in Counts, update_last_windows(count)
  PROVE  MeterInv'
<1>0. RingInv /\ SamplesInv /\ NoJumpInv /\ SteadyInv
  BY DEF MeterInv
<1>1. RingInv'
  BY <1>0, RingStep
<1>2. /\ m_samples_collected' \in 1 .. N /\ m_samples_collected' <= Len(recent')
      /\ cpm' = Rate(cpm'.sum, cpm'.over) /\ cpm'.sum = SumOf(Seen', 0, cpm'.over)
      /\ cpm'.over \in 1 .. max_averaging_period /\ cpm'.over <= m_samples_collected'
      /\ cpm'.sum \in Nat
      /\ \/ cpm'.over = m_samples_collected' \/ cpm'.over = max_averaging_period
         \/ cpm'.sum > Enough
      /\ m_cpm_valid' = IsValid(m_samples_collected', cpm'.over, cpm'.sum)
  BY <1>0, CalcStep
<1>3. SumOfLatest'
  BY <1>2 DEF SumOfLatest, SumOf, Seen
<1>4. SamplesInv'
  <2>1. cpm' \in [sum : Nat, over : 1 .. max_averaging_period]
    BY <1>2 DEF Rate
  <2>2. m_cpm_valid' \in BOOLEAN
    BY <1>2 DEF IsValid
  <2>3. m_samples_collected' \in 0 .. N
    BY <1>2, Parameters
  <2> QED BY <1>2, <2>1, <2>2, <2>3 DEF SamplesInv
<1>5. ValidMeansEnough'
  <2> SUFFICES ASSUME m_cpm_valid'
               PROVE  cpm'.sum > Enough \/ cpm'.over = max_averaging_period
    BY DEF ValidMeansEnough
  <2>1. m_samples_collected' > cpm'.over
    BY <1>2 DEF IsValid
  <2>2. cpm'.over # m_samples_collected'
    BY <1>2, <2>1, Parameters
  <2> QED BY <1>2, <2>2
<1>6. NoJumpInv'
  BY <1>0, NoJumpStep
<1>7. SteadyInv'
  BY <1>0, SteadyStep
<1>8. SettlesValid'
  BY <1>0, SettlesStep
<1> QED BY <1>1, <1>3, <1>4, <1>5, <1>6, <1>7, <1>8 DEF MeterInv

LEMMA MeterAlways == Spec => []MeterInv
<1>1. MeterInv /\ [Next]_vars => MeterInv'
  <2> SUFFICES ASSUME MeterInv, [Next]_vars PROVE MeterInv'
    OBVIOUS
  <2>1. CASE Next
    BY <2>1, MeterStep DEF Next
  <2>2. CASE UNCHANGED vars
    <3>1. UNCHANGED <<last_windows, last_windows_position, m_samples_collected, cpm,
                      m_cpm_valid, recent, steady>>
      BY <2>2 DEF vars
    <3>2. RingInv' /\ SumOfLatest' /\ SamplesInv' /\ ValidMeansEnough'
      BY <3>1 DEF MeterInv, RingInv, SumOfLatest, SamplesInv, ValidMeansEnough, SumOf, Seen
    <3>3. NoJumpInv'
      <4>1. Seen' = Seen
        BY <3>1 DEF Seen
      <4> SUFFICES ASSUME NEW k \in 0 .. m_samples_collected' - 2 * Short PROVE ~ Jumped(Seen', k)
        BY DEF NoJumpInv, Jumped, SumOf, Seen
      <4>2. ~ Jumped(Seen, k)
        BY <3>1 DEF MeterInv, NoJumpInv
      <4> QED BY <4>1, <4>2
    <3>4. SteadyInv' /\ SettlesValid'
      BY <3>1 DEF MeterInv, SteadyInv, SettlesValid, LongSteady
    <3> QED BY <3>2, <3>3, <3>4 DEF MeterInv
  <2> QED BY <2>1, <2>2
<1> QED BY <1>1, MeterStart, PTL DEF Spec

\* The samples never outrun the ring, the rate is never a quotient by zero, and
\* every index into the ring is one of its (update_last_windows, calc_cpm).
THEOREM TypeOKAlways == Spec => []TypeOK
<1>1. MeterInv => TypeOK
  BY DEF MeterInv, RingInv, SamplesInv, SteadyInv, TypeOK, N, Words
<1> QED BY <1>1, MeterAlways, PTL

\* For every size of the ring, the rate is the mean of the latest windows, and
\* of no more than have been counted, wherever the ring wraps.
THEOREM MeanOfLatestAlways == Spec => []MeanOfLatest
<1>1. MeterInv => MeanOfLatest
  <2> SUFFICES ASSUME MeterInv, recent # <<>>
               PROVE  cpm.over <= Len(recent) /\ cpm.sum = SumOf(Seen, 0, cpm.over)
    BY DEF MeanOfLatest
  <2>1. SumOfLatest /\ SamplesInv /\ Len(recent) \in Nat
    BY DEF MeterInv, RingInv
  <2>2. cpm.over <= Len(recent)
    BY <2>1, Parameters DEF SamplesInv
  <2> QED BY <2>1, <2>2 DEF SumOfLatest
<1> QED BY <1>1, MeterAlways, PTL

\* For every choice of the thresholds, a reading marked valid averages more than
\* Enough events or the longest period (calc_cpm).
THEOREM ValidMeansEnoughAlways == Spec => []ValidMeansEnough
<1>1. MeterInv => ValidMeansEnough
  BY DEF MeterInv
<1> QED BY <1>1, MeterAlways, PTL

\* For every threshold, neither the rate nor the valid 30 second rate averages
\* over a sudden change: one reset of the samples is enough (calc_cpm).
THEOREM NeverAcrossJumpAlways == Spec => []NeverAcrossJump
<1>1. MeterInv => NeverAcrossJump
  <2> SUFFICES ASSUME MeterInv PROVE NeverAcrossJump
    OBVIOUS
  <2> DEFINE span == IF is_cpm30_valid(m_samples_collected) /\ windows_in_30s > cpm.over
                     THEN windows_in_30s ELSE cpm.over
  <2>1. SamplesInv /\ NoJumpInv
    BY DEF MeterInv
  <2>2. span \in Nat /\ (span <= m_samples_collected \/ span = 1)
    BY <2>1, Parameters DEF SamplesInv, is_cpm30_valid
  <2> HIDE DEF span
  <2>3. ASSUME NEW k \in 0 .. span - 2 * Short PROVE ~ Jumped(Seen, k)
    <3>1. k \in 0 .. m_samples_collected - 2 * Short
      BY <2>1, <2>2, Parameters DEF SamplesInv
    <3> QED BY <2>1, <3>1 DEF NoJumpInv
  <2> QED BY <2>3 DEF NeverAcrossJump, span
<1> QED BY <1>1, MeterAlways, PTL

\* For every ring, period and threshold, a source that stays steady for long
\* enough to replace the ring and average once more reads as valid: the tests
\* for a sudden change cannot keep a steady source invalid (calc_cpm).
THEOREM SettlesValidAlways == Spec => []SettlesValid
<1>1. MeterInv => SettlesValid
  BY DEF MeterInv
<1> QED BY <1>1, MeterAlways, PTL
=============================================================================
