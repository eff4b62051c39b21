--------------------------- MODULE TransferProofs ---------------------------
(***************************************************************************)
(* The transfer of the log (log_read_start, log_read_block, log_read_csv,  *)
(* cmd_logxfer, cmd_logcsv) puts together the whole document, for a log of *)
(* any number of records: after each block the output is a prefix of it.   *)
(***************************************************************************)
EXTENDS SerialProofs

Items   == {"header", "record", "comma", "footer"} \X Nat
Formats == {"json", "csv"}

-----------------------------------------------------------------------------
(* The document, item by item *)

\* Items of the output after p blocks of a log of n records.
OutLen(f, n, p) ==
  IF p = 0 THEN 0
  ELSE IF f = "csv" THEN (IF n = 0 THEN 1 ELSE p + 1)
  ELSE (IF n = 0 THEN 2 ELSE 2 * p + 1)

ItemAt(f, n, i) ==
  IF i = 1 THEN <<"header", 0>>
  ELSE IF f = "csv" THEN <<"record", i - 1>>
  ELSE IF n = 0 \/ i = 2 * n + 1 THEN <<"footer", 0>>
  ELSE IF i % 2 = 0 THEN <<"record", i \div 2>>
  ELSE <<"comma", 0>>

Last(n) == IF n = 0 THEN 1 ELSE n   \* blocks of a transfer

LEMMA ThreeJoined ==
  ASSUME NEW S, NEW A \in Seq(S), NEW B \in Seq(S), NEW C \in Seq(S)
  PROVE  /\ A \o B \o C \in Seq(S)
         /\ Len(A \o B \o C) = Len(A) + Len(B) + Len(C)
         /\ \A i \in 1 .. Len(A) : (A \o B \o C)[i] = A[i]
         /\ \A i \in 1 .. Len(B) : (A \o B \o C)[Len(A) + i] = B[i]
         /\ \A i \in 1 .. Len(C) : (A \o B \o C)[Len(A) + Len(B) + i] = C[i]
<1> DEFINE D == A \o B
           E == D \o C
<1>1. Len(A) \in Nat /\ Len(B) \in Nat /\ Len(C) \in Nat
  BY LenProperties
<1>2. /\ D \in Seq(S) /\ Len(D) = Len(A) + Len(B)
      /\ \A i \in 1 .. Len(A) + Len(B) :
           D[i] = IF i <= Len(A) THEN A[i] ELSE B[i - Len(A)]
  BY ConcatProperties
<1> HIDE DEF D
<1>3. /\ E \in Seq(S) /\ Len(E) = Len(D) + Len(C)
      /\ \A i \in 1 .. Len(D) + Len(C) :
           E[i] = IF i <= Len(D) THEN D[i] ELSE C[i - Len(D)]
  <2>1. D \in Seq(S)
    BY <1>2
  <2> QED BY <2>1, ConcatProperties
<1> HIDE DEF E
<1>4. \A i \in 1 .. Len(A) : E[i] = A[i]
  BY <1>1, <1>2, <1>3
<1>5. \A i \in 1 .. Len(B) : E[Len(A) + i] = B[i]
  <2> SUFFICES ASSUME NEW i \in 1 .. Len(B) PROVE E[Len(A) + i] = B[i]
    OBVIOUS
  <2>1. /\ Len(A) + i \in 1 .. Len(D) /\ ~ (Len(A) + i <= Len(A))
        /\ (Len(A) + i) - Len(A) = i /\ Len(A) + i \in 1 .. Len(A) + Len(B)
        /\ Len(A) + i \in 1 .. Len(D) + Len(C) /\ Len(A) + i <= Len(D)
    BY <1>1, <1>2
  <2> QED BY <2>1, <1>2, <1>3
<1>6. \A i \in 1 .. Len(C) : E[Len(A) + Len(B) + i] = C[i]
  <2> SUFFICES ASSUME NEW i \in 1 .. Len(C) PROVE E[Len(D) + i] = C[i]
    BY <1>2
  <2>1. /\ ~ (Len(D) + i <= Len(D)) /\ (Len(D) + i) - Len(D) = i
        /\ Len(D) + i \in 1 .. Len(D) + Len(C)
    BY <1>1, <1>2
  <2> QED BY <2>1, <1>3
<1>7. E = A \o B \o C
  BY DEF D, E
<1>8. Len(E) = Len(A) + Len(B) + Len(C)
  BY <1>2, <1>3
<1> QED BY <1>3, <1>4, <1>5, <1>6, <1>7, <1>8

LEMMA One ==
  ASSUME NEW x \in Items
  PROVE  <<x>> \in Seq(Items) /\ Len(<<x>>) = 1 /\ <<x>>[1] = x
  OBVIOUS

\* Document as the sequence of its items.
LEMMA DocumentItems ==
  ASSUME NEW f \in Formats, NEW n \in Nat
  PROVE  /\ Document(f, n) \in Seq(Items)
         /\ Len(Document(f, n)) = OutLen(f, n, Last(n))
         /\ \A i \in 1 .. OutLen(f, n, Last(n)) : Document(f, n)[i] = ItemAt(f, n, i)
<1>1. CASE f = "csv"
  <2> DEFINE e(i) == IF i = 1 THEN <<"header", 0>> ELSE <<"record", i - 1>>
             d == [i \in 1 .. n + 1 |-> e(i)]
  <2>1. Document(f, n) = d
    BY <1>1 DEF Document
  <2>2. \A i \in 1 .. n + 1 : e(i) \in Items
    BY DEF Items
  <2>3. d \in Seq(Items) /\ Len(d) = n + 1
    BY <2>2, IsASeq
  <2>4. OutLen(f, n, Last(n)) = n + 1
    BY <1>1 DEF OutLen, Last
  <2>5. \A i \in 1 .. n + 1 : d[i] = ItemAt(f, n, i)
    BY <1>1 DEF ItemAt
  <2> QED BY <2>1, <2>3, <2>4, <2>5
<1>2. CASE f = "json"
  <2> DEFINE e(i) == IF i % 2 = 1 THEN <<"record", (i + 1) \div 2>> ELSE <<"comma", 0>>
             m == IF n = 0 THEN 0 ELSE 2 * n - 1
             A == <<<<"header", 0>>>>
             B == [i \in 1 .. 2 * n - 1 |-> e(i)]
             C == <<<<"footer", 0>>>>
             d == A \o B \o C
  <2>1. Document(f, n) = d
    BY <1>2 DEF Document
  <2>2. \A i \in 1 .. m : e(i) \in Items
    BY DEF Items
  <2>3. 1 .. m = 1 .. 2 * n - 1 /\ m \in Nat
    OBVIOUS
  <2>4. B \in Seq(Items) /\ Len(B) = m
    <3>1. [i \in 1 .. m |-> e(i)] \in Seq(Items) /\ Len([i \in 1 .. m |-> e(i)]) = m
      <4> HIDE DEF e
      <4>1. m \in Nat
        BY <2>3
      <4> HIDE DEF m
      <4>2. [i \in 1 .. m |-> e(i)] \in Seq(Items)
        BY <4>1, <2>2, IsASeq
      <4> QED BY <4>1, <4>2
    <3>2. B = [i \in 1 .. m |-> e(i)]
      BY <2>3
    <3> QED BY <3>1, <3>2
  <2>5. /\ A \in Seq(Items) /\ Len(A) = 1 /\ A[1] = <<"header", 0>>
        /\ C \in Seq(Items) /\ Len(C) = 1 /\ C[1] = <<"footer", 0>>
    <3>1. <<"header", 0>> \in Items /\ <<"footer", 0>> \in Items
      BY DEF Items
    <3> QED BY <3>1, One
  <2>6. \A i \in 1 .. m : B[i] = e(i)
    BY <2>3
  <2> HIDE DEF A, B, C, m
  <2>7. /\ d \in Seq(Items) /\ Len(d) = Len(A) + Len(B) + Len(C)
        /\ \A i \in 1 .. Len(A) : d[i] = A[i]
        /\ \A i \in 1 .. Len(B) : d[Len(A) + i] = B[i]
        /\ \A i \in 1 .. Len(C) : d[Len(A) + Len(B) + i] = C[i]
    <3>1. A \in Seq(Items) /\ B \in Seq(Items) /\ C \in Seq(Items)
      BY <2>4, <2>5
    <3> QED BY <3>1, ThreeJoined
  <2> HIDE DEF d
  <2>8. d \in Seq(Items) /\ Len(d) = m + 2 /\ d[1] = <<"header", 0>>
        /\ (\A i \in 1 .. m : d[1 + i] = e(i)) /\ d[m + 2] = <<"footer", 0>>
    <3>1. 1 \in 1 .. Len(A) /\ 1 \in 1 .. Len(C) /\ 1 + m + 1 = m + 2 /\ 1 + m + 1 = m + 2
      BY <2>3, <2>5
    <3> HIDE DEF e
    <3> QED BY <3>1, <2>3, <2>4, <2>5, <2>6, <2>7
  <2>9. OutLen(f, n, Last(n)) = m + 2
    BY <1>2 DEF OutLen, Last, m
  <2>10. ASSUME NEW i \in 1 .. m + 2 PROVE d[i] = ItemAt(f, n, i)
    <3>1. CASE i = 1
      BY <3>1, <2>8 DEF ItemAt
    <3>2. CASE i = m + 2
      <4>1. i # 1 /\ (n = 0 \/ i = 2 * n + 1)
        BY <3>2, <2>3 DEF m
      <4> QED BY <4>1, <3>2, <2>8, <1>2 DEF ItemAt
    <3>3. CASE i # 1 /\ i # m + 2
      <4>1. /\ i - 1 \in 1 .. m /\ 1 + (i - 1) = i /\ (i - 1) + 1 = i
            /\ n # 0 /\ i # 2 * n + 1
        BY <3>3, <2>3 DEF m
      <4>2. d[i] = e(i - 1)
        <5> HIDE DEF e
        <5> QED BY <4>1, <2>8
      <4>3. (i - 1) % 2 = 1 <=> i % 2 = 0
        BY <4>1
      <4> QED BY <4>1, <4>2, <4>3, <3>3, <1>2 DEF ItemAt
    <3> QED BY <3>1, <3>2, <3>3
  <2> QED BY <2>1, <2>8, <2>9, <2>10
<1> QED BY <1>1, <1>2 DEF Formats

-----------------------------------------------------------------------------
(* A block *)

Joins(G, A, B, C, D) ==
  /\ G \in Seq(Items)
  /\ Len(G) = Len(A) + Len(B) + Len(C) + Len(D)
  /\ \A i \in 1 .. Len(A) : G[i] = A[i]
  /\ \A i \in 1 .. Len(B) : G[Len(A) + i] = B[i]
  /\ \A i \in 1 .. Len(C) : G[Len(A) + Len(B) + i] = C[i]
  /\ \A i \in 1 .. Len(D) : G[Len(A) + Len(B) + Len(C) + i] = D[i]

LEMMA FourJoined ==
  ASSUME NEW A \in Seq(Items), NEW B \in Seq(Items),
         NEW C \in Seq(Items), NEW D \in Seq(Items)
  PROVE  Joins(A \o B \o C \o D, A, B, C, D)
<1> DEFINE E == A \o B \o C
           G == E \o D
<1>1. Len(A) \in Nat /\ Len(B) \in Nat /\ Len(C) \in Nat /\ Len(D) \in Nat
  BY LenProperties
<1>2. /\ E \in Seq(Items) /\ Len(E) = Len(A) + Len(B) + Len(C)
      /\ \A i \in 1 .. Len(A) : E[i] = A[i]
      /\ \A i \in 1 .. Len(B) : E[Len(A) + i] = B[i]
      /\ \A i \in 1 .. Len(C) : E[Len(A) + Len(B) + i] = C[i]
  BY ThreeJoined, SMTT(30)
<1>3. /\ G \in Seq(Items) /\ Len(G) = Len(E) + Len(D)
      /\ \A i \in 1 .. Len(E) + Len(D) :
           G[i] = IF i <= Len(E) THEN E[i] ELSE D[i - Len(E)]
  <2>1. E \in Seq(Items)
    BY <1>2
  <2> HIDE DEF E
  <2> QED BY <2>1, ConcatProperties
<1> HIDE DEF E, G
<1>4. \A i \in 1 .. Len(E) : G[i] = E[i]
  BY <1>1, <1>2, <1>3
<1>5. \A i \in 1 .. Len(A) : G[i] = A[i]
  BY <1>1, <1>2, <1>4
<1>6. \A i \in 1 .. Len(B) : G[Len(A) + i] = B[i]
  <2> SUFFICES ASSUME NEW i \in 1 .. Len(B) PROVE G[Len(A) + i] = B[i]
    OBVIOUS
  <2>1. Len(A) + i \in 1 .. Len(E)
    BY <1>1, <1>2
  <2> QED BY <2>1, <1>2, <1>4
<1>7. \A i \in 1 .. Len(C) : G[Len(A) + Len(B) + i] = C[i]
  <2> SUFFICES ASSUME NEW i \in 1 .. Len(C) PROVE G[Len(A) + Len(B) + i] = C[i]
    OBVIOUS
  <2>1. Len(A) + Len(B) + i \in 1 .. Len(E)
    BY <1>1, <1>2
  <2> QED BY <2>1, <1>2, <1>4
<1>8. \A i \in 1 .. Len(D) : G[Len(E) + i] = D[i]
  <2> SUFFICES ASSUME NEW i \in 1 .. Len(D) PROVE G[Len(E) + i] = D[i]
    OBVIOUS
  <2>1. /\ ~ (Len(E) + i <= Len(E)) /\ (Len(E) + i) - Len(E) = i
        /\ Len(E) + i \in 1 .. Len(E) + Len(D)
    BY <1>1, <1>2
  <2> QED BY <2>1, <1>3
<1>9. G = A \o B \o C \o D
  BY DEF E, G
<1>10. Len(G) = Len(A) + Len(B) + Len(C) + Len(D)
  BY <1>2, <1>3
<1>11. \A i \in 1 .. Len(D) : G[Len(A) + Len(B) + Len(C) + i] = D[i]
  BY <1>2, <1>8
<1>12. Joins(G, A, B, C, D)
  BY <1>3, <1>5, <1>6, <1>7, <1>10, <1>11 DEF Joins
<1> QED BY <1>9, <1>12

Opt(cond, text) == IF cond THEN <<text>> ELSE <<>>

LEMMA OptItem ==
  ASSUME NEW cond \in BOOLEAN, NEW x \in Items
  PROVE  /\ Opt(cond, x) \in Seq(Items)
         /\ Len(Opt(cond, x)) = IF cond THEN 1 ELSE 0
         /\ cond => Opt(cond, x)[1] = x
<1>1. <<>> \in Seq(Items) /\ Len(<<>>) = 0
  BY EmptySeq
<1>2. <<x>> \in Seq(Items) /\ Len(<<x>>) = 1 /\ <<x>>[1] = x
  BY One
<1> QED BY <1>1, <1>2 DEF Opt

\* One call of log_read_block adds the items of the document that come next.
LEMMA BlockItems ==
  ASSUME NEW f \in Formats, NEW n \in Nat, NEW p \in Nat,
         transfer.format = f, transfer.records = n, transfer.log_position = p
  PROVE  /\ Block \in Seq(Items)
         /\ Block = <<>> <=> p >= Last(n)
         /\ p < Last(n) =>
              /\ OutLen(f, n, p) + Len(Block) = OutLen(f, n, p + 1)
              /\ \A j \in 1 .. Len(Block) : Block[j] = ItemAt(f, n, OutLen(f, n, p) + j)
<1> DEFINE json == f = "json"
           comma == json /\ p < n /\ p # n - 1
           footer == json /\ Footer(p, n)
           A == Opt(p = 0, <<"header", 0>>)
           B == Opt(p < n, <<"record", p + 1>>)
           C == Opt(comma, <<"comma", 0>>)
           D == Opt(footer, <<"footer", 0>>)
           L == OutLen(f, n, p)
<1>1. Block = A \o B \o C \o D
  BY DEF Block, Opt
<1>2. footer <=> json /\ (p + 1 = n \/ (p = 0 /\ n = 0))
  BY DEF Footer
<1>3. f = "csv" \/ f = "json"
  BY DEF Formats
<1>4. /\ A \in Seq(Items) /\ Len(A) = (IF p = 0 THEN 1 ELSE 0)
      /\ p = 0 => A[1] = <<"header", 0>>
  <2>1. <<"header", 0>> \in Items /\ (p = 0) \in BOOLEAN
    BY DEF Items
  <2> QED BY <2>1, OptItem
<1>5. /\ B \in Seq(Items) /\ Len(B) = (IF p < n THEN 1 ELSE 0)
      /\ p < n => B[1] = <<"record", p + 1>>
  <2>1. <<"record", p + 1>> \in Items /\ (p < n) \in BOOLEAN
    BY DEF Items
  <2> QED BY <2>1, OptItem
<1>6. /\ C \in Seq(Items) /\ Len(C) = (IF comma THEN 1 ELSE 0)
      /\ comma => C[1] = <<"comma", 0>>
  <2>1. <<"comma", 0>> \in Items /\ comma \in BOOLEAN
    BY DEF Items
  <2> QED BY <2>1, OptItem
<1>7. /\ D \in Seq(Items) /\ Len(D) = (IF footer THEN 1 ELSE 0)
      /\ footer => D[1] = <<"footer", 0>>
  <2>1. <<"footer", 0>> \in Items /\ footer \in BOOLEAN
    BY DEF Items, Footer
  <2> QED BY <2>1, OptItem
<1> HIDE DEF A, B, C, D
<1>8. /\ Block \in Seq(Items)
      /\ Len(Block) = Len(A) + Len(B) + Len(C) + Len(D)
      /\ \A i \in 1 .. Len(A) : Block[i] = A[i]
      /\ \A i \in 1 .. Len(B) : Block[Len(A) + i] = B[i]
      /\ \A i \in 1 .. Len(C) : Block[Len(A) + Len(B) + i] = C[i]
      /\ \A i \in 1 .. Len(D) : Block[Len(A) + Len(B) + Len(C) + i] = D[i]
  <2>1. A \in Seq(Items) /\ B \in Seq(Items) /\ C \in Seq(Items) /\ D \in Seq(Items)
    BY <1>4, <1>5, <1>6, <1>7
  <2>2. Joins(Block, A, B, C, D)
    BY <1>1, <2>1, FourJoined
  <2> QED BY <2>2 DEF Joins
<1>9. Block = <<>> <=> p >= Last(n)
  <2>1. Block = <<>> <=> Len(Block) = 0
    BY <1>8, EmptySeq
  <2>2. Len(Block) = 0 <=> p >= Last(n)
    BY <1>2, <1>4, <1>5, <1>6, <1>7, <1>8 DEF Last
  <2> QED BY <2>1, <2>2
<1>10. ASSUME p < Last(n) PROVE L + Len(Block) = OutLen(f, n, p + 1)
  <2>1. CASE p = 0
    BY <2>1, <1>2, <1>3, <1>4, <1>5, <1>6, <1>7, <1>8, <1>10 DEF OutLen, Last
  <2>2. CASE p # 0
    BY <2>2, <1>2, <1>3, <1>4, <1>5, <1>6, <1>7, <1>8, <1>10 DEF OutLen, Last
  <2> QED BY <2>1, <2>2
<1>11. ASSUME p < Last(n), NEW j \in 1 .. Len(Block)
       PROVE  Block[j] = ItemAt(f, n, L + j)
  <2>0. L \in Nat
    BY DEF OutLen
  <2>1. CASE p = 0 /\ j = 1
    <3>1. Block[1] = <<"header", 0>>
      BY <2>1, <1>4, <1>8
    <3>2. L + j = 1
      BY <2>1 DEF OutLen
    <3> HIDE DEF L
    <3> QED BY <2>1, <3>1, <3>2 DEF ItemAt
  <2>2. CASE p < n /\ j = Len(A) + 1
    <3>1. Block[j] = <<"record", p + 1>>
      BY <2>2, <1>5, <1>8
    <3>2. L + j = IF f = "csv" THEN p + 2 ELSE 2 * p + 2
      BY <2>2, <1>3, <1>4 DEF OutLen
    <3>3. (2 * p + 2) % 2 = 0 /\ (2 * p + 2) \div 2 = p + 1 /\ 2 * p + 2 # 2 * n + 1
      OBVIOUS
    <3> HIDE DEF L
    <3> QED BY <2>2, <3>1, <3>2, <3>3, <1>3 DEF ItemAt
  <2>3. CASE comma /\ j = Len(A) + Len(B) + 1
    <3>1. Block[j] = <<"comma", 0>>
      BY <2>3, <1>6, <1>8
    <3>2. L + j = 2 * p + 3
      BY <2>3, <1>4, <1>5 DEF OutLen
    <3>3. (2 * p + 3) % 2 # 0 /\ 2 * p + 3 # 2 * n + 1 /\ n # 0 /\ 2 * p + 3 # 1
      BY <2>3
    <3> HIDE DEF L
    <3> QED BY <2>3, <3>1, <3>2, <3>3 DEF ItemAt
  <2>4. CASE footer /\ j = Len(A) + Len(B) + Len(C) + 1
    <3>1. Block[j] = <<"footer", 0>>
      BY <2>4, <1>7, <1>8
    <3>2. ~ comma /\ L + j = IF n = 0 THEN 2 ELSE 2 * n + 1
      BY <2>4, <1>2, <1>4, <1>5, <1>6 DEF OutLen
    <3> HIDE DEF L, footer
    <3> QED BY <2>4, <3>1, <3>2, <1>2 DEF ItemAt
  <2>5. \/ p = 0 /\ j = 1
        \/ p < n /\ j = Len(A) + 1
        \/ comma /\ j = Len(A) + Len(B) + 1
        \/ footer /\ j = Len(A) + Len(B) + Len(C) + 1
    <3> HIDE DEF comma, footer
    <3> QED BY <1>4, <1>5, <1>6, <1>7, <1>8, <1>11, SMTT(30)
  <2> QED BY <2>1, <2>2, <2>3, <2>4, <2>5
<1> QED BY <1>8, <1>9, <1>10, <1>11

-----------------------------------------------------------------------------
(* The transfer *)

Transfers == [format : Formats, records : Nat, log_position : Nat, out : Seq(Items)]

\* While a transfer runs, its output is what comes first in the document.
PrefixInv ==
  at = "xfer" =>
    LET f == transfer.format
        n == transfer.records
        p == transfer.log_position
    IN /\ transfer \in Transfers /\ p <= Last(n)
       /\ Len(transfer.out) = OutLen(f, n, p)
       /\ \A i \in 1 .. Len(transfer.out) : transfer.out[i] = ItemAt(f, n, i)

LEMMA BlockStep == PrefixInv /\ log_read_block => PrefixInv'
<1> SUFFICES ASSUME PrefixInv, log_read_block PROVE PrefixInv'
  OBVIOUS
<1> DEFINE f == transfer.format
           n == transfer.records
           p == transfer.log_position
           o == transfer.out
           L == OutLen(f, n, p)
<1>1. /\ transfer \in Transfers /\ p <= Last(n) /\ Len(o) = L
      /\ \A i \in 1 .. Len(o) : o[i] = ItemAt(f, n, i)
  BY DEF PrefixInv, log_read_block
<1>2. f \in Formats /\ n \in Nat /\ p \in Nat /\ o \in Seq(Items)
  BY <1>1 DEF Transfers
<1>3. /\ transfer' = [transfer EXCEPT !.log_position = p + 1, !.out = o \o Block]
      /\ Block # <<>>
  BY DEF log_read_block
<1> HIDE DEF f, n, p, o
<1>4. Block \in Seq(Items) /\ p < Last(n)
  <2>1. Block \in Seq(Items) /\ (Block = <<>> <=> p >= Last(n))
    BY <1>2, BlockItems DEF f, n, p
  <2>2. Last(n) \in Nat
    BY <1>2 DEF Last
  <2> QED BY <2>1, <2>2, <1>2, <1>3
<1>5. /\ L + Len(Block) = OutLen(f, n, p + 1)
      /\ \A j \in 1 .. Len(Block) : Block[j] = ItemAt(f, n, L + j)
  BY <1>2, <1>4, BlockItems DEF f, n, p
<1> DEFINE q == o \o Block
<1>6. /\ q \in Seq(Items) /\ Len(q) = Len(o) + Len(Block)
      /\ \A i \in 1 .. Len(o) + Len(Block) :
           q[i] = IF i <= Len(o) THEN o[i] ELSE Block[i - Len(o)]
  BY <1>2, <1>4, ConcatProperties
<1>7. /\ transfer' \in Transfers
      /\ transfer'.format = f /\ transfer'.records = n
      /\ transfer'.log_position = p + 1 /\ transfer'.out = q
  <2>1. transfer' = [transfer EXCEPT !.log_position = p + 1, !.out = q]
    BY <1>3
  <2>2. q \in Seq(Items) /\ p + 1 \in Nat
    BY <1>2, <1>6
  <2> HIDE DEF q
  <2> QED BY <2>1, <2>2, <1>1 DEF Transfers, f, n
<1> HIDE DEF q, L
<1>8. Len(q) = OutLen(f, n, p + 1) /\ p + 1 <= Last(n)
  <2>1. Last(n) \in Nat
    BY <1>2 DEF Last
  <2> QED BY <2>1, <1>1, <1>2, <1>4, <1>5, <1>6
<1>9. ASSUME NEW i \in 1 .. Len(q) PROVE q[i] = ItemAt(f, n, i)
  <2>1. Len(o) \in Nat /\ Len(Block) \in Nat /\ i \in 1 .. Len(o) + Len(Block) /\ L = Len(o)
    BY <1>1, <1>2, <1>4, <1>6, LenProperties
  <2>2. CASE i <= Len(o)
    BY <2>1, <2>2, <1>1, <1>6
  <2>3. CASE ~ (i <= Len(o))
    <3>1. i - Len(o) \in 1 .. Len(Block) /\ L + (i - Len(o)) = i
      BY <2>1, <2>3
    <3>2. q[i] = Block[i - Len(o)]
      BY <2>1, <2>3, <1>6
    <3>3. Block[i - Len(o)] = ItemAt(f, n, L + (i - Len(o)))
      BY <3>1, <1>5
    <3> QED BY <3>1, <3>2, <3>3
  <2> QED BY <2>2, <2>3
<1> QED BY <1>7, <1>8, <1>9 DEF PrefixInv

\* A transfer ends with the whole document, for a log of any number of
\* records, none included, in both formats (log_read_block, log_read_csv).
THEOREM WholeDocumentHolds == Spec => []WholeDocument
<1>1. Init => PrefixInv
  BY DEF Init, PrefixInv
<1>2. TypeOK /\ PrefixInv /\ [Next]_vars => PrefixInv'
  <2> SUFFICES ASSUME TypeOK, PrefixInv, [Next]_vars PROVE PrefixInv'
    OBVIOUS
  <2>1. CASE StartTransfer
    <3>1. PICK f \in {"json", "csv"}, n \in LogSizes :
            transfer' = [NoTransfer EXCEPT !.format = f, !.records = n]
      BY <2>1 DEF StartTransfer
    <3>2. /\ transfer' = [format |-> f, records |-> n, log_position |-> 0, out |-> <<>>]
          /\ f \in Formats /\ n \in Nat
      BY <3>1, SerialAssumption DEF NoTransfer, Formats
    <3>3. <<>> \in Seq(Items) /\ Len(<<>>) = 0
      BY EmptySeq
    <3>4. /\ transfer' \in Transfers /\ transfer'.log_position = 0
          /\ transfer'.records = n /\ transfer'.format = f /\ Len(transfer'.out) = 0
      <4> DEFINE e == <<>>
      <4>1. e \in Seq(Items) /\ Len(e) = 0
        BY <3>3
      <4>2. transfer' = [format |-> f, records |-> n, log_position |-> 0, out |-> e]
        BY <3>2
      <4> HIDE DEF e
      <4> QED BY <4>1, <4>2, <3>2 DEF Transfers
    <3>5. 0 <= Last(n) /\ OutLen(f, n, 0) = 0
      BY <3>2 DEF Last, OutLen
    <3> QED BY <3>4, <3>5 DEF PrefixInv
  <2>2. CASE log_read_block
    BY <2>2, BlockStep
  <2>3. ASSUME at' # "xfer" PROVE PrefixInv'
    BY <2>3 DEF PrefixInv
  <2>4. ASSUME UNCHANGED <<transfer, at>> PROVE PrefixInv'
    BY <2>4 DEF PrefixInv
  <2>5. CASE usart_irq \/ Unheard \/ HostSettles
    <3>1. UNCHANGED <<transfer, at>>
      BY <2>5 DEF usart_irq, Unheard, HostSettles, logs
    <3> QED BY <3>1, <2>4
  <2>6. CASE TakeByte \/ log_read_block
    BY <2>2, <2>4, <2>6 DEF TakeByte, logs
  <2>8. CASE ReadChunk \/ TakeLineEnd \/ ChunkDone \/ LineDone \/ LineDoneRaced \/ Erase
    BY <2>3, <2>8 DEF ReadChunk, TakeLineEnd, ChunkDone, LineDone, LineDoneRaced, Erase
  <2>9. CASE Write \/ ClearDone
    <3>1. then # "xfer"
      BY DEF TypeOK
    <3> QED BY <3>1, <2>3, <2>9 DEF Write, ClearDone
  <2>10. CASE Other \/ Ignored \/ Asks \/ Answered \/ command_stack_pop \/ JsonSet \/ JsonDone
    BY <2>3, <2>10 DEF Other, Ignored, Asks, Answered, command_stack_pop, JsonSet, JsonDone,
                       Answers, Silent
  <2>11. CASE serial_setdevicetag_run \/ serial_setkeyval_run \/ JsonStores \/ PanelSaves
    <3>1. at' # "xfer"
      BY <2>11, SetsKey DEF keyval_set, Returns
    <3> QED BY <3>1, <2>3
  <2>12. CASE cmd_logpause \/ cmd_logresume \/ EndTransfer \/ Restart \/ PanelClears \/ cmd_logclear
    BY <2>3, <2>12 DEF cmd_logpause, cmd_logresume, EndTransfer, Answers, Restart, PanelClears,
                       cmd_logclear, log_clear
  <2>13. CASE UNCHANGED vars
    <3>1. UNCHANGED <<transfer, at>>
      BY <2>13 DEF vars, logs
    <3> QED BY <3>1, <2>4
  <2> QED BY <2>1, <2>5, <2>6, <2>8, <2>9, <2>10, <2>11, <2>12, <2>13
    DEF Next, MainLoop
<1>3. PrefixInv => WholeDocument
  <2> SUFFICES ASSUME PrefixInv, at = "xfer", Block = <<>>
               PROVE  transfer.out = Document(transfer.format, transfer.records)
    BY DEF WholeDocument
  <2> DEFINE f == transfer.format
             n == transfer.records
             p == transfer.log_position
             o == transfer.out
             d == Document(f, n)
  <2>1. /\ transfer \in Transfers /\ p <= Last(n) /\ Len(o) = OutLen(f, n, p)
        /\ \A i \in 1 .. Len(o) : o[i] = ItemAt(f, n, i)
    BY DEF PrefixInv
  <2>2. f \in Formats /\ n \in Nat /\ p \in Nat /\ o \in Seq(Items)
    BY <2>1 DEF Transfers
  <2>3. p = Last(n)
    <3>1. p >= Last(n)
      BY <2>2, BlockItems
    <3>2. Last(n) \in Nat
      BY <2>2 DEF Last
    <3> QED BY <3>1, <3>2, <2>1, <2>2
  <2>4. /\ d \in Seq(Items) /\ Len(d) = OutLen(f, n, Last(n))
        /\ \A i \in 1 .. OutLen(f, n, Last(n)) : d[i] = ItemAt(f, n, i)
    BY <2>2, DocumentItems
  <2> HIDE DEF f, n, p, o, d
  <2>5. o = d
    BY <2>1, <2>2, <2>3, <2>4, SeqEqual
  <2> QED BY <2>5 DEF o, d, f, n
<1> QED BY <1>1, <1>2, <1>3, TypeCorrect, PTL DEF Spec
=============================================================================
