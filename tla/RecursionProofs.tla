--------------------------- MODULE RecursionProofs ---------------------------
(***************************************************************************)
(* What the other proofs need of induction and recursion.  Induction is    *)
(* over a set of numbers, by its least element; a recursive function is    *)
(* shown to exist once, for a step that is itself a function, and its      *)
(* defining equation follows.                                              *)
(***************************************************************************)
EXTENDS Subsequences, SequenceTheorems, WellFoundedInduction, TLAPS

LEMMA LeastNatural ==
  ASSUME NEW T \in SUBSET Nat, T # {}
  PROVE  \E x \in T : \A y \in T : x <= y
<1> DEFINE R == OpToRel(<, Nat)
<1>1. \E x \in T : \A y \in T : ~ (<<y, x>> \in R)
  <2>1. IsWellFoundedOn(R, Nat)
    BY NatLessThanWellFounded
  <2> HIDE DEF R
  <2> QED BY <2>1, WFMin
<1>2. \A x, y \in T : y < x => <<y, x>> \in R
  BY DEF OpToRel
<1>3. \A x, y \in T : ~ (y < x) => x <= y
  OBVIOUS
<1> QED BY <1>1, <1>2, <1>3

\* Induction up to n, over a set.
LEMMA UpTo ==
  ASSUME NEW T, NEW n \in Nat, 0 \in T,
         \A i \in 0 .. n - 1 : i \in T => i + 1 \in T
  PROVE  \A i \in 0 .. n : i \in T
<1> SUFFICES ASSUME NEW j \in 0 .. n, j \notin T PROVE FALSE
  OBVIOUS
<1> DEFINE U == {i \in 0 .. n : i \notin T}
<1>1. U \in SUBSET Nat /\ U # {}
  OBVIOUS
<1>2. PICK x \in U : \A y \in U : x <= y
  <2> HIDE DEF U
  <2> QED BY <1>1, LeastNatural
<1>3. x # 0 /\ x \in 0 .. n /\ x \notin T
  OBVIOUS
<1>4. x - 1 \in 0 .. n - 1 /\ (x - 1) + 1 = x /\ ~ (x <= x - 1)
  BY <1>3
<1>5. x - 1 \in T
  <2>1. x - 1 \notin U
    <3> HIDE DEF U
    <3> QED BY <1>2, <1>4
  <2> QED BY <2>1, <1>4
<1> QED BY <1>3, <1>4, <1>5

\* f takes the value base at 0, and then one step after the other.
Iterates(f, base, step, n) ==
  f[0] = base /\ \A i \in 1 .. n : f[i] = step[<<i, f[i - 1]>>]

LEMMA Recursion ==
  ASSUME NEW X, NEW base \in X, NEW n \in Nat, NEW step \in [(1 .. n) \X X -> X]
  PROVE  \E f \in [0 .. n -> X] : Iterates(f, base, step, n)
<1> DEFINE T == {m \in 0 .. n : \E f \in [0 .. m -> X] : Iterates(f, base, step, m)}
<1>1. 0 \in T
  <2> DEFINE f == [i \in 0 .. 0 |-> base]
  <2>1. f \in [0 .. 0 -> X] /\ Iterates(f, base, step, 0)
    BY DEF Iterates
  <2> QED BY <2>1
<1>2. ASSUME NEW m \in 0 .. n - 1, m \in T PROVE m + 1 \in T
  <2>1. PICK f \in [0 .. m -> X] : Iterates(f, base, step, m)
    BY <1>2
  <2> DEFINE x == step[<<m + 1, f[m]>>]
             g == [i \in 0 .. m + 1 |-> IF i <= m THEN f[i] ELSE x]
  <2>2. x \in X
    OBVIOUS
  <2> HIDE DEF x
  <2>3. g \in [0 .. m + 1 -> X]
    BY <2>2
  <2>4. /\ \A i \in 0 .. m : g[i] = f[i]
        /\ g[m + 1] = x
    OBVIOUS
  <2> HIDE DEF g
  <2>5. ASSUME NEW i \in 1 .. m + 1 PROVE g[i] = step[<<i, g[i - 1]>>]
    <3>1. CASE i \in 1 .. m
      <4>1. g[i] = f[i] /\ g[i - 1] = f[i - 1] /\ f[i] = step[<<i, f[i - 1]>>]
        BY <2>1, <2>4, <3>1 DEF Iterates
      <4> QED BY <4>1
    <3>2. CASE i = m + 1
      <4>1. i - 1 = m /\ g[m] = f[m]
        BY <2>4, <3>2
      <4> QED BY <4>1, <2>4, <3>2 DEF x
    <3> QED BY <3>1, <3>2
  <2>6. g[0] = base
    BY <2>1, <2>4 DEF Iterates
  <2>7. Iterates(g, base, step, m + 1)
    BY <2>5, <2>6 DEF Iterates
  <2> QED BY <2>3, <2>7
<1>3. n \in T
  <2> HIDE DEF T
  <2>1. \A i \in 0 .. n : i \in T
    BY <1>1, <1>2, UpTo
  <2> QED BY <2>1
<1> QED BY <1>3

-----------------------------------------------------------------------------
(* Subsequences *)

Extending(s, P, S) ==
  [p \in (1 .. Len(s)) \X Seq(S) |-> IF p[1] \in P THEN Append(p[2], s[p[1]]) ELSE p[2]]

Prefixes(s, P) ==
  CHOOSE f : f = [i \in 0 .. Len(s) |->
    IF i = 0 THEN <<>> ELSE IF i \in P THEN Append(f[i - 1], s[i]) ELSE f[i - 1]]

LEMMA PrefixesDef ==
  ASSUME NEW S, NEW s \in Seq(S), NEW P
  PROVE  /\ Subsequence(s, P) = Prefixes(s, P)[Len(s)]
         /\ Prefixes(s, P) \in [0 .. Len(s) -> Seq(S)]
         /\ Prefixes(s, P)[0] = <<>>
         /\ \A i \in 1 .. Len(s) : Prefixes(s, P)[i] = IF i \in P THEN Append(Prefixes(s, P)[i - 1], s[i])
                                                   ELSE Prefixes(s, P)[i - 1]
<1> DEFINE n == Len(s)
<1>0. n \in Nat /\ \A i \in 1 .. n : s[i] \in S
  OBVIOUS
<1>1. Subsequence(s, P) = Prefixes(s, P)[Len(s)]
  BY DEF Subsequence, Prefixes
<1>2. Extending(s, P, S) \in [(1 .. n) \X Seq(S) -> Seq(S)]
  BY DEF Extending
<1>3. <<>> \in Seq(S)
  OBVIOUS
<1> DEFINE next == Extending(s, P, S)
<1>4. PICK f \in [0 .. n -> Seq(S)] : Iterates(f, <<>>, next, n)
  <2> DEFINE e == <<>>
  <2>1. e \in Seq(S) /\ next \in [(1 .. n) \X Seq(S) -> Seq(S)]
    BY <1>2, <1>3
  <2> HIDE DEF next, e, n
  <2>2. \E f \in [0 .. n -> Seq(S)] : Iterates(f, e, next, n)
    BY <1>0, <2>1, Recursion
  <2> QED BY <2>2 DEF e
<1> DEFINE Eq(g) == g = [i \in 0 .. n |->
    IF i = 0 THEN <<>> ELSE IF i \in P THEN Append(g[i - 1], s[i]) ELSE g[i - 1]]
<1>5. Eq(f)
  <2>1. ASSUME NEW i \in 1 .. n
        PROVE  f[i] = IF i \in P THEN Append(f[i - 1], s[i]) ELSE f[i - 1]
    <3>1. f[i] = Extending(s, P, S)[<<i, f[i - 1]>>]
      BY <1>4 DEF Iterates
    <3>2. i \in 1 .. Len(s) /\ f[i - 1] \in Seq(S)
      BY <1>0
    <3> QED BY <3>1, <3>2 DEF Extending
  <2>2. f[0] = <<>>
    BY <1>4 DEF Iterates
  <2> DEFINE h == [i \in 0 .. n |->
               IF i = 0 THEN <<>> ELSE IF i \in P THEN Append(f[i - 1], s[i]) ELSE f[i - 1]]
  <2>3. ASSUME NEW i \in 0 .. n PROVE f[i] = h[i]
    <3> HIDE DEF n
    <3>1. CASE i = 0
      BY <2>2, <3>1
    <3>2. CASE i # 0
      <4>1. i \in 1 .. n
        BY <1>0, <3>2
      <4> QED BY <2>1, <3>2, <4>1
    <3> QED BY <3>1, <3>2
  <2>4. f = [i \in 0 .. n |-> f[i]] /\ h = [i \in 0 .. n |-> h[i]]
    OBVIOUS
  <2>5. f = h
    <3> HIDE DEF h
    <3> QED BY <2>3, <2>4
  <2> QED BY <2>5
<1> DEFINE k == Prefixes(s, P)
<1>6. Eq(k)
  BY <1>5 DEF Prefixes
<1>7. /\ k[0] = <<>>
      /\ \A i \in 1 .. n : k[i] = IF i \in P THEN Append(k[i - 1], s[i]) ELSE k[i - 1]
      /\ k = [i \in 0 .. n |-> k[i]]
  <2> HIDE DEF k, n
  <2>1. k = [i \in 0 .. n |->
          IF i = 0 THEN <<>> ELSE IF i \in P THEN Append(k[i - 1], s[i]) ELSE k[i - 1]]
    BY <1>6
  <2>2. ASSUME NEW i \in 1 .. n
        PROVE  k[i] = IF i \in P THEN Append(k[i - 1], s[i]) ELSE k[i - 1]
    <3>1. i # 0 /\ i \in 0 .. n
      BY <1>0
    <3> QED BY <2>1, <3>1
  <2>3. k[0] = <<>>
    <3>1. 0 \in 0 .. n
      BY <1>0
    <3> QED BY <2>1, <3>1
  <2>4. k = [i \in 0 .. n |-> k[i]]
    BY <2>1
  <2> QED BY <2>2, <2>3, <2>4
<1>8. \A i \in 0 .. n : k[i] \in Seq(S)
  <2> DEFINE T == {i \in 0 .. n : k[i] \in Seq(S)}
  <2> HIDE DEF k, n
  <2>1. 0 \in T
    <3>1. k[0] \in Seq(S) /\ 0 \in 0 .. n
      BY <1>0, <1>3, <1>7
    <3> QED BY <3>1
  <2>2. ASSUME NEW i \in 0 .. n - 1, i \in T PROVE i + 1 \in T
    <3>1. i + 1 \in 1 .. n /\ (i + 1) - 1 = i /\ i + 1 \in 0 .. n
      BY <1>0
    <3>2. k[i] \in Seq(S)
      BY <2>2
    <3>3. s[i + 1] \in S
      BY <1>0, <3>1
    <3>4. k[i + 1] = IF i + 1 \in P THEN Append(k[i], s[i + 1]) ELSE k[i]
      BY <1>7, <3>1
    <3>5. k[i + 1] \in Seq(S)
      BY <3>2, <3>3, <3>4, AppendProperties
    <3> QED BY <3>1, <3>5
  <2> HIDE DEF T
  <2>3. \A i \in 0 .. n : i \in T
    BY <1>0, <2>1, <2>2, UpTo
  <2> QED BY <2>3 DEF T
<1> QED BY <1>1, <1>7, <1>8

\* What is taken up to a place depends on the elements up to it only.
SameUpTo(s, P, t, Q, n) == \A i \in 1 .. n : s[i] = t[i] /\ (i \in P <=> i \in Q)

LEMMA PrefixesSame ==
  ASSUME NEW S, NEW s \in Seq(S), NEW t \in Seq(S), NEW P, NEW Q,
         NEW n \in Nat, n <= Len(s), n <= Len(t),
         SameUpTo(s, P, t, Q, n)
  PROVE  Prefixes(s, P)[n] = Prefixes(t, Q)[n]
<1> DEFINE T == {i \in 0 .. n : Prefixes(s, P)[i] = Prefixes(t, Q)[i]}
<1>0. Len(s) \in Nat /\ Len(t) \in Nat
  OBVIOUS
<1>1. 0 \in T
  BY PrefixesDef
<1>2. ASSUME NEW i \in 0 .. n - 1, i \in T PROVE i + 1 \in T
  <2>1. /\ i + 1 \in 1 .. n /\ (i + 1) - 1 = i
        /\ i + 1 \in 1 .. Len(s) /\ i + 1 \in 1 .. Len(t)
    BY <1>0
  <2>2. /\ Prefixes(s, P)[i + 1] = IF i + 1 \in P THEN Append(Prefixes(s, P)[i], s[i + 1]) ELSE Prefixes(s, P)[i]
        /\ Prefixes(t, Q)[i + 1] = IF i + 1 \in Q THEN Append(Prefixes(t, Q)[i], t[i + 1]) ELSE Prefixes(t, Q)[i]
    BY <2>1, PrefixesDef
  <2>3. Prefixes(s, P)[i] = Prefixes(t, Q)[i]
    BY <1>2
  <2> QED BY <2>1, <2>2, <2>3 DEF SameUpTo
<1>3. n \in T
  <2> HIDE DEF T
  <2>1. \A i \in 0 .. n : i \in T
    BY <1>1, <1>2, UpTo
  <2> QED BY <2>1
<1> QED BY <1>3

\* The elements are those of s at places of P.
LEMMA SubsequenceType ==
  ASSUME NEW S, NEW s \in Seq(S), NEW P, NEW W, \A i \in 1 .. Len(s) : i \in P => s[i] \in W
  PROVE  Subsequence(s, P) \in Seq(W) /\ Len(Subsequence(s, P)) <= Len(s)
<1> DEFINE n == Len(s)
           k == Prefixes(s, P)
           T == {i \in 0 .. n : k[i] \in Seq(W) /\ Len(k[i]) <= i}
<1>0. n \in Nat
  OBVIOUS
<1>1. 0 \in T
  <2>1. k[0] = <<>>
    BY PrefixesDef
  <2>2. k[0] \in Seq(W) /\ Len(k[0]) = 0
    BY <2>1
  <2> QED BY <1>0, <2>2
<1>2. ASSUME NEW i \in 0 .. n - 1, i \in T PROVE i + 1 \in T
  <2>1. i + 1 \in 1 .. n /\ (i + 1) - 1 = i /\ i + 1 \in 0 .. n
    BY <1>0
  <2>2. k[i + 1] = IF i + 1 \in P THEN Append(k[i], s[i + 1]) ELSE k[i]
    BY <2>1, PrefixesDef
  <2>3. k[i] \in Seq(W) /\ Len(k[i]) <= i
    BY <1>2
  <2> HIDE DEF k, n
  <2>4. i + 1 \in P => s[i + 1] \in W
    BY <2>1 DEF n
  <2>5. k[i + 1] \in Seq(W) /\ Len(k[i + 1]) <= i + 1
    <3> DEFINE q == k[i]
    <3>1. q \in Seq(W) /\ Len(q) \in Nat /\ Len(q) <= i
      BY <2>3
    <3> HIDE DEF q
    <3>2. CASE i + 1 \in P
      <4>1. /\ Append(q, s[i + 1]) \in Seq(W)
            /\ Len(Append(q, s[i + 1])) = Len(q) + 1
        BY <2>4, <3>1, <3>2, AppendProperties
      <4> QED BY <2>2, <3>1, <3>2, <4>1 DEF q
    <3>3. CASE i + 1 \notin P
      <4>1. k[i + 1] = q
        BY <2>2, <3>3 DEF q
      <4> QED BY <3>1, <4>1
    <3> QED BY <3>2, <3>3
  <2> QED BY <2>1, <2>5
<1>3. n \in T
  <2> HIDE DEF T, n
  <2>1. \A i \in 0 .. n : i \in T
    BY <1>0, <1>1, <1>2, UpTo
  <2> QED BY <1>0, <2>1
<1> QED BY <1>3, PrefixesDef

\* An element more is in it or is not.
LEMMA SubsequenceAppend ==
  ASSUME NEW S, NEW s \in Seq(S), NEW x \in S, NEW P, NEW Q,
         \A i \in 1 .. Len(s) : i \in P <=> i \in Q
  PROVE  Subsequence(Append(s, x), Q)
           = IF Len(s) + 1 \in Q THEN Append(Subsequence(s, P), x) ELSE Subsequence(s, P)
<1> DEFINE n == Len(s)
           t == Append(s, x)
<1>1. /\ n \in Nat /\ t \in Seq(S) /\ Len(t) = n + 1 /\ t[n + 1] = x
      /\ \A i \in 1 .. n : s[i] = t[i]
  BY AppendProperties
<1> HIDE DEF t
<1>2. Prefixes(t, Q)[n] = Prefixes(s, P)[n]
  <2> HIDE DEF n
  <2>1. n <= Len(s) /\ n <= Len(t)
    BY <1>1 DEF n
  <2>2. SameUpTo(s, P, t, Q, n)
    BY <1>1 DEF n, SameUpTo
  <2>3. Prefixes(s, P)[n] = Prefixes(t, Q)[n]
    BY <1>1, <2>1, <2>2, PrefixesSame
  <2> QED BY <2>3
<1>3. Prefixes(t, Q)[n + 1] = IF n + 1 \in Q THEN Append(Prefixes(t, Q)[n], x) ELSE Prefixes(t, Q)[n]
  <2>1. n + 1 \in 1 .. Len(t) /\ (n + 1) - 1 = n
    BY <1>1
  <2> HIDE DEF n
  <2> QED BY <1>1, <2>1, PrefixesDef
<1>4. Subsequence(t, Q) = Prefixes(t, Q)[n + 1] /\ Subsequence(s, P) = Prefixes(s, P)[n]
  BY <1>1, PrefixesDef
<1> QED BY <1>2, <1>3, <1>4 DEF t

\* The first element stays first.
LEMMA SubsequenceFirst ==
  ASSUME NEW S, NEW s \in Seq(S), NEW P, 1 \in P, Len(s) >= 1
  PROVE  Len(Subsequence(s, P)) >= 1 /\ Subsequence(s, P)[1] = s[1]
<1> DEFINE n == Len(s)
           k == Prefixes(s, P)
           T == {i \in 0 .. n : i >= 1 => Len(k[i]) >= 1 /\ k[i][1] = s[1]}
<1>0. n \in Nat \ {0}
  OBVIOUS
<1>1. 0 \in T
  BY <1>0
<1>2. ASSUME NEW i \in 0 .. n - 1, i \in T PROVE i + 1 \in T
  <2>1. i + 1 \in 1 .. n /\ (i + 1) - 1 = i /\ i + 1 \in 0 .. n /\ i \in 0 .. n
    BY <1>0
  <2>2. k[i + 1] = IF i + 1 \in P THEN Append(k[i], s[i + 1]) ELSE k[i]
    BY <2>1, PrefixesDef
  <2>3. k[i] \in Seq(S) /\ s[i + 1] \in S /\ k[0] = <<>>
    BY <2>1, PrefixesDef
  <2>4. i >= 1 => Len(k[i]) >= 1 /\ k[i][1] = s[1]
    BY <1>2
  <2> HIDE DEF k, n
  <2> DEFINE q == k[i]
             r == Append(q, s[i + 1])
  <2>5. q \in Seq(S) /\ Len(q) \in Nat
    BY <2>3
  <2> HIDE DEF q
  <2>6. Len(r) = Len(q) + 1 /\ r[Len(q) + 1] = s[i + 1] /\ \A j \in 1 .. Len(q) : r[j] = q[j]
    BY <2>3, <2>5, AppendProperties
  <2> HIDE DEF r
  <2>7. Len(k[i + 1]) >= 1 /\ k[i + 1][1] = s[1]
    <3>1. CASE i = 0
      <4>1. q = <<>> /\ Len(q) = 0
        BY <2>3, <3>1 DEF q
      <4>2. k[i + 1] = r
        BY <2>2, <3>1 DEF q, r
      <4> QED BY <2>6, <3>1, <4>1, <4>2
    <3>2. CASE i # 0
      <4>1. Len(q) >= 1 /\ q[1] = s[1]
        BY <2>1, <2>4, <3>2 DEF q
      <4>2. 1 \in 1 .. Len(q)
        BY <2>5, <4>1
      <4>3. k[i + 1] = r \/ k[i + 1] = q
        BY <2>2 DEF q, r
      <4> QED BY <2>5, <2>6, <4>1, <4>2, <4>3
    <3> QED BY <3>1, <3>2
  <2> QED BY <2>1, <2>7
<1>3. n \in T
  <2> HIDE DEF T, n
  <2>1. \A i \in 0 .. n : i \in T
    BY <1>0, <1>1, <1>2, UpTo
  <2> QED BY <1>0, <2>1
<1> QED BY <1>0, <1>3, PrefixesDef

\* Every element of s at a place of P is in it.
LEMMA SubsequenceHas ==
  ASSUME NEW S, NEW s \in Seq(S), NEW P, NEW i \in 1 .. Len(s), i \in P
  PROVE  \E j \in 1 .. Len(Subsequence(s, P)) : Subsequence(s, P)[j] = s[i]
<1> DEFINE n == Len(s)
           k == Prefixes(s, P)
           Has(q) == \E j \in 1 .. Len(q) : q[j] = s[i]
           T == {m \in 0 .. n : m >= i => Has(k[m])}
<1>0. n \in Nat
  OBVIOUS
<1>1. 0 \in T
  BY <1>0
<1>2. ASSUME NEW m \in 0 .. n - 1, m \in T PROVE m + 1 \in T
  <2>1. m + 1 \in 1 .. n /\ (m + 1) - 1 = m /\ m + 1 \in 0 .. n /\ m \in 0 .. n
    BY <1>0
  <2>2. k[m + 1] = IF m + 1 \in P THEN Append(k[m], s[m + 1]) ELSE k[m]
    BY <2>1, PrefixesDef
  <2>3. k[m] \in Seq(S) /\ s[m + 1] \in S
    BY <2>1, PrefixesDef
  <2>4. m >= i => Has(k[m])
    BY <1>2
  <2> HIDE DEF k, n
  <2> DEFINE q == k[m]
             r == Append(q, s[m + 1])
  <2>5. q \in Seq(S) /\ Len(q) \in Nat
    BY <2>3
  <2> HIDE DEF q
  <2>6. Len(r) = Len(q) + 1 /\ r[Len(q) + 1] = s[m + 1] /\ \A j \in 1 .. Len(q) : r[j] = q[j]
    BY <2>3, <2>5, AppendProperties
  <2> HIDE DEF r
  <2>7. ASSUME m + 1 >= i PROVE Has(k[m + 1])
    <3>1. CASE m + 1 = i
      <4>1. k[m + 1] = r
        BY <2>2, <3>1 DEF q, r
      <4>2. Len(q) + 1 \in 1 .. Len(r) /\ r[Len(q) + 1] = s[i]
        BY <2>5, <2>6, <3>1
      <4> QED BY <4>1, <4>2
    <3>2. CASE m + 1 # i
      <4>1. PICK j \in 1 .. Len(q) : q[j] = s[i]
        BY <2>1, <2>4, <2>7, <3>2 DEF q
      <4>2. j \in 1 .. Len(r) /\ r[j] = s[i]
        BY <2>5, <2>6, <4>1
      <4>3. k[m + 1] = r \/ k[m + 1] = q
        BY <2>2 DEF q, r
      <4> QED BY <4>1, <4>2, <4>3
    <3> QED BY <3>1, <3>2
  <2> QED BY <2>1, <2>7
<1>3. n \in T
  <2> HIDE DEF T, n
  <2>1. \A m \in 0 .. n : m \in T
    BY <1>0, <1>1, <1>2, UpTo
  <2> QED BY <1>0, <2>1
<1>4. Has(k[n])
  BY <1>3, <1>0
<1> QED BY <1>4, PrefixesDef
=============================================================================
