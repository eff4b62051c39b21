--------------------------- MODULE FlashLogProofs ---------------------------
(***************************************************************************)
(* Proofs about FlashLog for every page size, record size, log area and    *)
(* content of the flash behind it.  NoHoles is inductive together with     *)
(* TypeOK: appending only ever programs cells of the first empty slot, so  *)
(* it cannot empty a slot or fill a later one.  With that, what a reader   *)
(* of the flash finds, slot by slot, is the bounded append-only log of     *)
(* MeasurementLog, and the whole records in it are those accepted.         *)
(***************************************************************************)
EXTENDS MCFlashLog, RecursionProofs

-----------------------------------------------------------------------------
(* Arithmetic of slots and pages *)

LEMMA DivMod ==
  ASSUME NEW a \in Nat, NEW b \in Nat \ {0}
  PROVE  /\ a % b \in 0 .. b - 1
         /\ a \div b \in Nat
         /\ a = b * (a \div b) + (a % b)
  OBVIOUS

LEMMA MultGap ==
  ASSUME NEW p \in Int, NEW q \in Int, NEW R \in Nat, p < q
  PROVE  R * p + R <= R * q
<1>1. q - p - 1 \in Nat
  OBVIOUS
<1>2. R * (q - p - 1) >= 0
  BY <1>1
<1>3. R * (q - p - 1) = R * q - R * p - R
  OBVIOUS
<1> QED BY <1>2, <1>3

\* Two different multiples of RecSize are at least RecSize apart, so slots
\* do not overlap.
LEMMA MultiplesApart ==
  ASSUME NEW s \in Nat, NEW t \in Nat, NEW R \in Nat \ {0},
         s % R = 0, t % R = 0, s < t
  PROVE  s + R <= t
<1>1. /\ s = R * (s \div R) /\ t = R * (t \div R)
      /\ s \div R \in Int /\ t \div R \in Int
  BY DivMod
<1>2. s \div R < t \div R
  <2> SUFFICES ASSUME t \div R <= s \div R PROVE FALSE
    BY <1>1
  <2>1. CASE t \div R = s \div R
    BY <2>1, <1>1
  <2>2. CASE t \div R < s \div R
    BY <2>2, <1>1, MultGap
  <2> QED BY <2>1, <2>2, <1>1
<1> QED BY <1>1, <1>2, MultGap

-----------------------------------------------------------------------------
(* The scan *)

\* flashstorage_log_size returns the first empty slot when there is one, and
\* the size of the area otherwise.
LEMMA LogSize ==
  ASSUME NEW c
  PROVE  \/ /\ log_size(c) \in Slots
            /\ SlotEmpty(c, log_size(c))
            /\ \A t \in Slots : t < log_size(c) => ~ SlotEmpty(c, t)
         \/ /\ log_size(c) = AreaSize
            /\ \A t \in Slots : ~ SlotEmpty(c, t)
<1>1. CASE \E s \in Slots : SlotEmpty(c, s)
  <2> DEFINE T == { s \in Slots : SlotEmpty(c, s) }
  <2>1. T \in SUBSET Nat /\ T # {}
    BY <1>1, FlashAssumption DEF Slots
  <2>2. PICK x \in T : \A y \in T : x <= y
    BY <2>1, LeastNatural
  <2>3. \A t \in Slots : t < x => ~ SlotEmpty(c, t)
    BY <2>2, <2>1
  <2>4. \E s \in Slots : /\ SlotEmpty(c, s)
                         /\ \A t \in Slots : t < s => ~ SlotEmpty(c, t)
    BY <2>2, <2>3
  <2> QED BY <1>1, <2>4 DEF log_size
<1>2. CASE ~ \E s \in Slots : SlotEmpty(c, s)
  BY <1>2 DEF log_size
<1> QED BY <1>1, <1>2

\* A record that is not refused goes to an empty slot inside the area.
LEMMA PushTarget ==
  ASSUME NEW c, ~ (log_size(c) + RecSize > AreaSize)
  PROVE  /\ log_size(c) \in Slots /\ SlotEmpty(c, log_size(c))
         /\ \A t \in Slots : t < log_size(c) => ~ SlotEmpty(c, t)
         /\ log_size(c) \in Nat
         /\ log_size(c) + RecSize <= AreaSize
<1>1. Slots \subseteq Nat
  BY FlashAssumption DEF Slots
<1>2. log_size(c) # AreaSize
  BY FlashAssumption
<1>3. /\ log_size(c) \in Slots /\ SlotEmpty(c, log_size(c))
      /\ \A t \in Slots : t < log_size(c) => ~ SlotEmpty(c, t)
  BY <1>2, LogSize
<1>4. log_size(c) \in Nat
  BY <1>1, <1>3
<1> QED BY <1>3, <1>4, FlashAssumption

-----------------------------------------------------------------------------
(* Appending *)

LEMMA PageBounds ==
  ASSUME NEW b \in Nat
  PROVE  /\ PageSize \in Nat \ {0}
         /\ PageOf(b) \in Nat /\ PageOf(b) <= b /\ b < PageOf(b) + PageSize
         /\ HeadSize(b) \in 0 .. RecSize
         /\ HeadSize(b) < RecSize => TailPage(b) = b + HeadSize(b)
<1>1. PageSize \in Nat \ {0} /\ RecSize \in Nat
  BY FlashAssumption
<1>2. b % PageSize \in 0 .. PageSize - 1 /\ b = PageSize * (b \div PageSize) + (b % PageSize)
  BY <1>1, DivMod
<1>3. b % PageSize <= b
  <2>1. PageSize * (b \div PageSize) >= 0
    BY <1>1, DivMod
  <2> QED BY <2>1, <1>2, <1>1
<1>4. HeadSize(b) \in 0 .. RecSize
  BY <1>1, <1>2 DEF HeadSize
<1>5. HeadSize(b) < RecSize => TailPage(b) = b + HeadSize(b)
  BY <1>1, <1>2, <1>3 DEF HeadSize, TailPage, PageOf
<1> QED BY <1>1, <1>2, <1>3, <1>4, <1>5 DEF PageOf

\* The cells in which d differs from c are cells of the slot at b, erased in
\* c, and d has there what the record has.
FillsSlot(c, d, data, b) ==
  \A a \in Cells : d[a] # c[a] =>
    a \in b .. b + RecSize - 1 /\ c[a] = Erased /\ d[a] = data[a - b]

\* Pushing a record changes erased cells of its own slot and nothing else, to
\* what the record has there, however far the two page writes get.
LEMMA PushedCells ==
  ASSUME NEW c, NEW data, NEW h \in Int, NEW t \in Int, c = [a \in Cells |-> c[a]],
         log_size(c) \in Nat
  PROVE  /\ Pushed(c, data, h, t) = [a \in Cells |-> Pushed(c, data, h, t)[a]]
         /\ FillsSlot(c, Pushed(c, data, h, t), data, log_size(c))
<1> DEFINE b == log_size(c)
           hd == IF HeadSize(b) = 0 THEN c
                 ELSE WritePage(c, PageOf(b), HeadImage(c, b, data), h)
           tl == WritePage(hd, TailPage(b), TailImage(b, data), t)
<1>0. /\ b \in Nat /\ PageSize \in Nat \ {0} /\ RecSize \in Nat
      /\ \A a \in Cells : a \in Int
  BY FlashAssumption DEF Cells
<1>1. /\ hd = [a \in Cells |-> hd[a]]
      /\ \A a \in Cells : hd[a] # c[a] =>
           a \in b .. b + HeadSize(b) - 1 /\ c[a] = Erased /\ hd[a] = data[a - b]
  <2>1. CASE HeadSize(b) = 0
    BY <2>1
  <2>2. CASE HeadSize(b) # 0
    <3>1. hd = WritePage(c, PageOf(b), HeadImage(c, b, data), h)
      BY <2>2
    <3>2. ASSUME NEW a \in Cells, hd[a] # c[a]
          PROVE  a \in b .. b + HeadSize(b) - 1 /\ c[a] = Erased /\ hd[a] = data[a - b]
      <4>1. /\ c[a] = Erased /\ a \in InPage(PageOf(b))
            /\ hd[a] = HeadImage(c, b, data)[a - PageOf(b)]
        BY <3>1, <3>2 DEF WritePage
      <4>2. a - PageOf(b) \in 0 .. PageSize - 1
        BY <4>1, <1>0, PageBounds DEF InPage
      <4>3. /\ PageOf(b) + (a - PageOf(b)) = a
            /\ PageOf(b) + (a - PageOf(b)) - b = a - b
        BY <1>0, PageBounds
      <4>4. HeadImage(c, b, data)[a - PageOf(b)]
              = IF a - b \in 0 .. HeadSize(b) - 1 THEN data[a - b] ELSE c[a]
        BY <4>2, <4>3 DEF HeadImage
      <4>5. a - b \in 0 .. HeadSize(b) - 1
        BY <4>1, <4>4, <3>2
      <4>6. hd[a] = data[a - b]
        BY <4>1, <4>4, <4>5
      <4> QED BY <4>1, <4>5, <4>6, <1>0, PageBounds
    <3>3. hd = [a \in Cells |-> hd[a]]
      BY <3>1 DEF WritePage
    <3> QED BY <3>2, <3>3
  <2> QED BY <2>1, <2>2
<1>2. CASE HeadSize(b) = RecSize
  <2>1. Pushed(c, data, h, t) = hd
    BY <1>2 DEF Pushed
  <2> HIDE DEF hd
  <2> QED BY <2>1, <1>2, <1>1 DEF FillsSlot
<1>3. CASE HeadSize(b) # RecSize
  <2>1. /\ Pushed(c, data, h, t) = tl
        /\ HeadSize(b) \in 0 .. RecSize /\ TailPage(b) = b + HeadSize(b)
    BY <1>3, <1>0, PageBounds DEF Pushed
  <2>2. ASSUME NEW a \in Cells, tl[a] # hd[a]
        PROVE  a \in b .. b + RecSize - 1 /\ hd[a] = Erased /\ tl[a] = data[a - b]
    <3>1. /\ hd[a] = Erased /\ a \in InPage(TailPage(b))
          /\ tl[a] = TailImage(b, data)[a - TailPage(b)]
      BY <2>2 DEF WritePage
    <3>2. a - TailPage(b) \in 0 .. PageSize - 1
      BY <3>1, <2>1, <1>0 DEF InPage
    <3>3. ~ (HeadSize(b) + (a - TailPage(b)) < RecSize) => tl[a] = Erased
      BY <3>1, <3>2 DEF TailImage
    <3>4. HeadSize(b) + (a - TailPage(b)) < RecSize =>
            tl[a] = data[HeadSize(b) + (a - TailPage(b))]
      BY <3>1, <3>2 DEF TailImage
    <3>5. HeadSize(b) + (a - TailPage(b)) = a - b
      BY <2>1, <1>0
    <3> QED BY <3>1, <3>2, <3>3, <3>4, <3>5, <2>1, <2>2, <1>0
  <2>3. tl = [a \in Cells |-> tl[a]]
    BY DEF WritePage
  <2>4. ASSUME NEW a \in Cells, tl[a] # c[a]
        PROVE  a \in b .. b + RecSize - 1 /\ c[a] = Erased /\ tl[a] = data[a - b]
    <3>1. CASE tl[a] # hd[a]
      <4>1. a \in b .. b + RecSize - 1 /\ hd[a] = Erased /\ tl[a] = data[a - b]
        BY <3>1, <2>2
      <4> QED BY <4>1, <1>1, <2>1, <1>0
    <3>2. CASE hd[a] # c[a] /\ tl[a] = hd[a]
      BY <3>2, <1>1, <2>1, <1>0
    <3> QED BY <3>1, <3>2, <2>4
  <2> HIDE DEF tl, hd
  <2> QED BY <2>1, <2>3, <2>4 DEF FillsSlot
<1> QED BY <1>2, <1>3

LEMMA PushInSlot ==
  ASSUME NEW c, NEW data, NEW h \in Int, NEW t \in Int, c = [a \in Cells |-> c[a]],
         log_size(c) \in Nat
  PROVE  LET d == Pushed(c, data, h, t) IN
         /\ d = [a \in Cells |-> d[a]]
         /\ \A a \in Cells : d[a] # c[a] =>
              a \in log_size(c) .. log_size(c) + RecSize - 1 /\ c[a] = Erased
<1> DEFINE d == Pushed(c, data, h, t)
           b == log_size(c)
<1>1. d = [a \in Cells |-> d[a]] /\ FillsSlot(c, d, data, b)
  BY PushedCells
<1> HIDE DEF d, b
<1>2. \A a \in Cells : d[a] # c[a] => a \in b .. b + RecSize - 1 /\ c[a] = Erased
  BY <1>1 DEF FillsSlot
<1> QED BY <1>1, <1>2 DEF d, b

LEMMA SlotCells ==
  ASSUME NEW s \in Slots, NEW j \in 0 .. RecSize - 1
  PROVE  s + j \in Cells
<1>1. s \in Int /\ 0 <= s /\ s < AreaSize
  BY FlashAssumption DEF Slots
<1>2. (Pages + 1) * PageSize = Pages * PageSize + PageSize
  BY FlashAssumption
<1>3. Pages * PageSize \in Int
  BY FlashAssumption
<1> QED BY <1>1, <1>2, <1>3, FlashAssumption DEF Cells

LEMMA WriteType ==
  ASSUME NEW V, NEW c \in [Cells -> V], NEW p, NEW img, NEW cut,
         \A a \in Cells : a \in InPage(p) => img[a - p] \in V
  PROVE  WritePage(c, p, img, cut) \in [Cells -> V]
  BY DEF WritePage

LEMMA PushType ==
  ASSUME NEW V, Erased \in V, NEW c \in [Cells -> V],
         NEW data \in [0 .. RecSize - 1 -> V], NEW h \in Int, NEW t \in Int,
         log_size(c) \in Nat
  PROVE  Pushed(c, data, h, t) \in [Cells -> V]
<1> DEFINE b == log_size(c)
           H == HeadSize(b)
           P == PageOf(b)
           hd == IF H = 0 THEN c ELSE WritePage(c, P, HeadImage(c, b, data), h)
<1>0. /\ b \in Nat /\ PageSize \in Nat \ {0} /\ RecSize \in Nat
      /\ P \in Nat /\ H \in 0 .. RecSize
      /\ H < RecSize => TailPage(b) = b + H
      /\ \A a \in Cells : a \in Int
  <2>1. b \in Nat
    OBVIOUS
  <2>2. \A a \in Cells : a \in Int
    BY DEF Cells
  <2> HIDE DEF b
  <2> QED BY <2>1, <2>2, PageBounds, FlashAssumption
<1>1. hd \in [Cells -> V]
  <2>1. ASSUME NEW a \in Cells, a \in InPage(P)
        PROVE  HeadImage(c, b, data)[a - P] \in V
    <3> HIDE DEF b
    <3>1. /\ a - P \in 0 .. PageSize - 1
          /\ P + (a - P) = a
          /\ P + (a - P) - b = a - b
      <4> HIDE DEF P, H
      <4> QED BY <2>1, <1>0 DEF InPage
    <3>2. HeadImage(c, b, data)[a - P]
            = IF a - b \in 0 .. H - 1 THEN data[a - b] ELSE c[a]
      BY <3>1 DEF HeadImage
    <3>3. a - b \in 0 .. H - 1 => a - b \in 0 .. RecSize - 1
      <4> HIDE DEF P, H
      <4> QED BY <1>0
    <3> HIDE DEF P, H
    <3> QED BY <3>2, <3>3
  <2> HIDE DEF b, P, H
  <2> QED BY <2>1, WriteType
<1>2. CASE H = RecSize
  BY <1>2, <1>1 DEF Pushed
<1>3. CASE H # RecSize
  <2>1. Pushed(c, data, h, t) = WritePage(hd, TailPage(b), TailImage(b, data), t)
    BY <1>3 DEF Pushed
  <2>2. ASSUME NEW a \in Cells, a \in InPage(TailPage(b))
        PROVE  TailImage(b, data)[a - TailPage(b)] \in V
    <3> DEFINE k == a - TailPage(b)
    <3> HIDE DEF b
    <3>1. k \in 0 .. PageSize - 1
      <4> HIDE DEF H, P
      <4> QED BY <2>2, <1>0, <1>3 DEF InPage
    <3>2. TailImage(b, data)[k] = IF H + k < RecSize THEN data[H + k] ELSE Erased
      BY <3>1 DEF TailImage
    <3>3. H + k < RecSize => H + k \in 0 .. RecSize - 1
      <4> HIDE DEF H, P, k
      <4> QED BY <3>1, <1>0
    <3> HIDE DEF H, k
    <3> QED BY <3>2, <3>3 DEF k
  <2> DEFINE img == TailImage(b, data)
             q   == TailPage(b)
  <2>3. WritePage(hd, q, img, t) \in [Cells -> V]
    <3> HIDE DEF hd, q, img
    <3> QED BY <2>2, <1>1, WriteType DEF q, img
  <2> QED BY <2>1, <2>3
<1> QED BY <1>2, <1>3

-----------------------------------------------------------------------------
(* Type correctness *)

LEMMA DataType ==
  ASSUME NEW r \in Recs
  PROVE  Data(r) \in [0 .. RecSize - 1 -> RecCells \cup {Erased, Foreign}]
  BY DEF Data, RecCells

\* The scan always yields a natural number.
LEMMA LogSizeNat ==
  ASSUME NEW c
  PROVE  log_size(c) \in Nat
<1>1. Slots \subseteq Nat
  BY FlashAssumption DEF Slots
<1> QED BY <1>1, LogSize, FlashAssumption

\* The variables keep their types: whatever a push or a cut push programs is
\* a cell of the record, and whatever a clear leaves is erased or untouched.
THEOREM TypeCorrect == Spec => []TypeOK
<1> DEFINE V == RecCells \cup {Erased, Foreign}
<1>1. Init => TypeOK
  <2> SUFFICES ASSUME Init PROVE TypeOK
    OBVIOUS
  <2>1. flash \in [Cells -> {Erased, Foreign}]
    BY DEF Init
  <2>2. flash \in [Cells -> V]
    BY <2>1
  <2>3. accepted \in Seq(Recs)
    BY DEF Init
  <2> QED BY <2>2, <2>3 DEF Init, TypeOK
<1>2. TypeOK /\ [Next]_vars => TypeOK'
  <2> SUFFICES ASSUME TypeOK, [Next]_vars PROVE TypeOK'
    OBVIOUS
  <2>0. PageSize \in Int /\ flash \in [Cells -> V] /\ log_size(flash) \in Nat
    BY FlashAssumption, LogSizeNat DEF TypeOK
  <2>1. ASSUME NEW r \in Recs, Pushback(r) PROVE TypeOK'
    <3>1. Pushed(flash, Data(r), PageSize, PageSize) \in [Cells -> V]
      BY <2>0, DataType, PushType
    <3>2. flash' \in [Cells -> V]
      BY <2>1, <3>1, <2>0 DEF Pushback
    <3>3. accepted' \in Seq(Recs)
      BY <2>1 DEF Pushback, TypeOK
    <3> QED BY <2>1, <3>2, <3>3 DEF Pushback, TypeOK
  <2>2. ASSUME NEW r \in Recs, PushbackPowerLoss(r) PROVE TypeOK'
    <3>1. PICK h \in 0 .. PageSize, t \in 0 .. PageSize :
            flash' = Pushed(flash, Data(r), h, t)
      BY <2>2 DEF PushbackPowerLoss
    <3>2. h \in Int /\ t \in Int
      OBVIOUS
    <3>3. flash' \in [Cells -> V]
      BY <3>1, <3>2, <2>0, DataType, PushType
    <3>4. accepted' \in {accepted, Append(accepted, r)}
      BY <2>2 DEF PushbackPowerLoss
    <3>5. accepted' \in Seq(Recs)
      BY <3>4 DEF TypeOK
    <3> QED BY <2>2, <3>3, <3>5 DEF PushbackPowerLoss, TypeOK
  <2>3. CASE log_userchange
    <3> DEFINE marker == [k \in 0 .. RecSize - 1 |-> Erased]
    <3>1. marker \in [0 .. RecSize - 1 -> V]
      OBVIOUS
    <3>2. flash' \in {flash, Pushed(flash, marker, PageSize, PageSize)}
      BY <2>3 DEF log_userchange
    <3> HIDE DEF marker
    <3>3. Pushed(flash, marker, PageSize, PageSize) \in [Cells -> V]
      BY <2>0, <3>1, PushType
    <3> QED BY <2>3, <3>2, <3>3, <2>0 DEF log_userchange, TypeOK
  <2>4. ASSUME NEW n PROVE Cleared(flash, n) \in [Cells -> V]
    BY <2>0 DEF Cleared, ErasePage
  <2>5. CASE log_clear
    BY <2>5, <2>4 DEF log_clear, TypeOK
  <2>6. CASE ClearPowerLoss
    BY <2>6, <2>4 DEF ClearPowerLoss, TypeOK
  <2>7. CASE log_pause_cmd \/ log_resume_cmd \/ Restart
    BY <2>7 DEF log_pause_cmd, log_resume_cmd, Restart, TypeOK
  <2>8. CASE UNCHANGED vars
    BY <2>8 DEF vars, TypeOK
  <2> QED BY <2>1, <2>2, <2>3, <2>5, <2>6, <2>7, <2>8 DEF Next
<1> QED BY <1>1, <1>2, PTL DEF Spec

-----------------------------------------------------------------------------
(* The shape of the log *)

\* The consequent of NoHoles, of any contents of the flash.
Compact(c) ==
  \A s, t \in Slots :
    s < t /\ t + RecSize <= AreaSize /\ SlotEmpty(c, s) => SlotEmpty(c, t)

LEMMA SlotFacts ==
  ASSUME NEW s \in Slots
  PROVE  s \in Nat /\ s % RecSize = 0 /\ RecSize \in Nat \ {0}
  BY FlashAssumption DEF Slots

\* Whatever is programmed, and however far, a push keeps the log compact: the
\* slots before the first empty one stay used, those after it stay empty.
LEMMA PushCompact ==
  ASSUME NEW c, NEW data, NEW h \in Int, NEW t \in Int, c = [a \in Cells |-> c[a]],
         Compact(c), ~ (log_size(c) + RecSize > AreaSize)
  PROVE  Compact(Pushed(c, data, h, t))
<1> DEFINE b == log_size(c)
           d == Pushed(c, data, h, t)
<1>0. /\ b \in Slots /\ SlotEmpty(c, b)
      /\ \A s \in Slots : s < b => ~ SlotEmpty(c, s)
      /\ b \in Nat
  BY PushTarget
<1>1. \A a \in Cells : d[a] # c[a] => a \in b .. b + RecSize - 1 /\ c[a] = Erased
  BY <1>0, PushInSlot
<1> HIDE DEF b, d
<1> SUFFICES ASSUME NEW s \in Slots, NEW u \in Slots,
                    s < u, u + RecSize <= AreaSize, SlotEmpty(d, s)
             PROVE  SlotEmpty(d, u)
  BY DEF Compact, d
<1>2. s \in Nat /\ u \in Nat /\ RecSize \in Nat
  BY SlotFacts
<1>3. ~ (s < b)
  <2> SUFFICES ASSUME s < b PROVE FALSE
    OBVIOUS
  <2>1. PICK j \in 0 .. RecSize - 1 : c[s + j] # Erased
    BY <1>0 DEF SlotEmpty
  <2>2. s + j \in Cells
    BY SlotCells
  <2>3. d[s + j] = c[s + j]
    BY <1>1, <2>1, <2>2
  <2> QED BY <2>1, <2>3 DEF SlotEmpty
<1>4. b < u /\ b + RecSize <= u
  BY <1>0, <1>2, <1>3, SlotFacts, MultiplesApart
<1>5. SlotEmpty(c, u)
  BY <1>0, <1>4 DEF Compact
<1>6. ASSUME NEW j \in 0 .. RecSize - 1 PROVE d[u + j] = Erased
  <2>1. u + j \in Cells /\ u + j \notin b .. b + RecSize - 1
    BY SlotCells, <1>0, <1>2, <1>4
  <2> QED BY <2>1, <1>1, <1>5 DEF SlotEmpty
<1> QED BY <1>6 DEF SlotEmpty

\* Every cell of the area lies in a page that flashstorage_log_clear erases.
LEMMA ClearErasesArea ==
  ASSUME NEW c, NEW a \in Area
  PROVE  Cleared(c, Pages)[a] = Erased
<1>1. /\ a \in Nat /\ a < AreaSize /\ PageSize \in Nat \ {0} /\ AreaSize \in Nat
      /\ Pages * PageSize \in Int /\ AreaSize <= Pages * PageSize
  BY FlashAssumption DEF Area
<1>2. /\ PageOf(a) \in Nat /\ PageOf(a) <= a /\ a < PageOf(a) + PageSize
  BY <1>1, PageBounds
<1>3. PageOf(a) % PageSize = 0
  <2>1. PageOf(a) = PageSize * (a \div PageSize) /\ a \div PageSize \in Nat
    <3>1. /\ a \div PageSize \in Nat /\ a % PageSize \in 0 .. PageSize - 1
          /\ a = PageSize * (a \div PageSize) + (a % PageSize)
      BY <1>1, DivMod
    <3>2. PageSize * (a \div PageSize) \in Int
      BY <3>1, <1>1
    <3> QED BY <3>1, <3>2, <1>1 DEF PageOf
  <2>2. ASSUME NEW k \in Nat, NEW P \in Nat \ {0} PROVE (P * k) % P = 0
    OBVIOUS
  <2> QED BY <2>1, <2>2, <1>1
<1>4. PageOf(a) \in ClearedPages(Pages) /\ a \in InPage(PageOf(a))
  BY <1>1, <1>2, <1>3 DEF ClearedPages, InPage
<1>5. a \in Cells
  <2>1. (Pages + 1) * PageSize = Pages * PageSize + PageSize
    BY FlashAssumption
  <2> QED BY <2>1, <1>1 DEF Cells
<1> QED BY <1>4, <1>5 DEF Cleared, ErasePage

\* An area that reads as erased throughout is compact.
LEMMA ErasedCompact ==
  ASSUME NEW c, \A a \in Area : c[a] = Erased
  PROVE  Compact(c)
<1> SUFFICES ASSUME NEW u \in Slots, u + RecSize <= AreaSize,
                    NEW j \in 0 .. RecSize - 1
             PROVE  c[u + j] = Erased
  BY DEF Compact, SlotEmpty
<1>1. u \in Nat /\ RecSize \in Nat /\ AreaSize \in Nat
  BY SlotFacts, FlashAssumption
<1> QED BY <1>1 DEF Area

\* The used slots of the log are a prefix of the area at any time, wherever
\* power was lost while records were being stored.
THEOREM NoHolesAlways == Spec => []NoHoles
<1> DEFINE IInv == TypeOK /\ (intact => Compact(flash))
<1>1. Init => (intact => Compact(flash))
  BY ErasedCompact DEF Init
<1>2. IInv /\ [Next]_vars => (intact => Compact(flash))'
  <2> SUFFICES ASSUME IInv, [Next]_vars, intact' PROVE Compact(flash')
    OBVIOUS
  <2>0. /\ PageSize \in Int
        /\ flash = [a \in Cells |-> flash[a]]
    BY FlashAssumption DEF TypeOK
  <2>1. ASSUME NEW r \in Recs, Pushback(r) PROVE Compact(flash')
    <3>1. CASE Rejects(flash)
      BY <2>1, <3>1 DEF Pushback
    <3>2. CASE ~ Rejects(flash)
      <4>1. Compact(flash) /\ flash' = Pushed(flash, Data(r), PageSize, PageSize)
        BY <2>1, <3>2 DEF Pushback
      <4> QED BY <4>1, <3>2, <2>0, PushCompact DEF Rejects
    <3> QED BY <3>1, <3>2
  <2>2. ASSUME NEW r \in Recs, PushbackPowerLoss(r) PROVE Compact(flash')
    <3>1. PICK h \in 0 .. PageSize, t \in 0 .. PageSize :
            flash' = Pushed(flash, Data(r), h, t)
      BY <2>2 DEF PushbackPowerLoss
    <3>2. h \in Int /\ t \in Int
      OBVIOUS
    <3>3. Compact(flash) /\ ~ Rejects(flash)
      BY <2>2 DEF PushbackPowerLoss
    <3> QED BY <3>1, <3>2, <3>3, <2>0, PushCompact DEF Rejects
  <2>3. CASE log_userchange
    <3> DEFINE marker == [k \in 0 .. RecSize - 1 |-> Erased]
    <3>1. Compact(flash)
      BY <2>3 DEF log_userchange
    <3>2. CASE Rejects(flash)
      BY <2>3, <3>1, <3>2 DEF log_userchange
    <3>3. CASE ~ Rejects(flash)
      <4>1. flash' = Pushed(flash, marker, PageSize, PageSize)
        BY <2>3, <3>3 DEF log_userchange
      <4> HIDE DEF marker
      <4> QED BY <4>1, <3>1, <3>3, <2>0, PushCompact DEF Rejects
    <3> QED BY <3>2, <3>3
  <2>4. CASE log_clear
    BY <2>4, ClearErasesArea, ErasedCompact DEF log_clear
  <2>5. CASE ClearPowerLoss
    BY <2>5 DEF ClearPowerLoss
  <2>6. CASE log_pause_cmd \/ log_resume_cmd \/ Restart
    BY <2>6 DEF log_pause_cmd, log_resume_cmd, Restart
  <2>7. CASE UNCHANGED vars
    BY <2>7 DEF vars
  <2> QED BY <2>1, <2>2, <2>3, <2>4, <2>5, <2>6, <2>7 DEF Next
<1>3. (intact => Compact(flash)) => NoHoles
  BY DEF NoHoles, Compact
<1> QED BY <1>1, <1>2, <1>3, TypeCorrect, PTL DEF Spec

-----------------------------------------------------------------------------
(* Appending stays inside the area *)

\* A push that is not refused changes no cell outside the area.
LEMMA PushStaysInArea ==
  ASSUME NEW c, NEW data, NEW h \in Int, NEW t \in Int, c = [a \in Cells |-> c[a]],
         ~ (log_size(c) + RecSize > AreaSize), NEW a \in Cells \ Area
  PROVE  Pushed(c, data, h, t)[a] = c[a]
<1> DEFINE b == log_size(c)
           d == Pushed(c, data, h, t)
<1>1. b \in Nat /\ b + RecSize <= AreaSize
  BY PushTarget
<1>2. d[a] # c[a] => a \in b .. b + RecSize - 1
  BY <1>1, PushInSlot
<1> HIDE DEF b, d
<1>3. a \notin b .. b + RecSize - 1
  BY <1>1, FlashAssumption DEF Area
<1> QED BY <1>2, <1>3 DEF d

\* The image and the settings behind the area survive every append, whatever
\* the alignment of the area's last page, and every interrupted append.
THEOREM AppendConfined == Spec => AppendStaysInArea
<1> DEFINE Same == \A a \in Cells \ Area : flash'[a] = flash[a]
           Step == ~ (log_clear \/ ClearPowerLoss) => Same
<1>1. TypeOK /\ [Next]_vars => [Step]_vars
  <2> SUFFICES ASSUME TypeOK, Next, ~ (log_clear \/ ClearPowerLoss) PROVE Same
    BY DEF vars
  <2>0. /\ PageSize \in Int
        /\ flash = [a \in Cells |-> flash[a]]
    BY FlashAssumption DEF TypeOK
  <2>1. ASSUME NEW r \in Recs, Pushback(r) PROVE Same
    <3>1. CASE Rejects(flash)
      BY <2>1, <3>1 DEF Pushback
    <3>2. CASE ~ Rejects(flash)
      <4>1. flash' = Pushed(flash, Data(r), PageSize, PageSize)
        BY <2>1, <3>2 DEF Pushback
      <4> QED BY <4>1, <3>2, <2>0, PushStaysInArea DEF Rejects
    <3> QED BY <3>1, <3>2
  <2>2. ASSUME NEW r \in Recs, PushbackPowerLoss(r) PROVE Same
    <3>1. PICK h \in 0 .. PageSize, t \in 0 .. PageSize :
            flash' = Pushed(flash, Data(r), h, t)
      BY <2>2 DEF PushbackPowerLoss
    <3>2. h \in Int /\ t \in Int /\ ~ Rejects(flash)
      BY <2>2 DEF PushbackPowerLoss
    <3> QED BY <3>1, <3>2, <2>0, PushStaysInArea DEF Rejects
  <2>3. CASE log_userchange
    <3> DEFINE marker == [k \in 0 .. RecSize - 1 |-> Erased]
    <3>1. CASE Rejects(flash)
      BY <2>3, <3>1 DEF log_userchange
    <3>2. CASE ~ Rejects(flash)
      <4>1. flash' = Pushed(flash, marker, PageSize, PageSize)
        BY <2>3, <3>2 DEF log_userchange
      <4> HIDE DEF marker
      <4> QED BY <4>1, <3>2, <2>0, PushStaysInArea DEF Rejects
    <3> QED BY <3>1, <3>2
  <2>4. CASE log_pause_cmd \/ log_resume_cmd \/ Restart
    BY <2>4 DEF log_pause_cmd, log_resume_cmd, Restart
  <2> QED BY <2>1, <2>2, <2>3, <2>4 DEF Next
<1> QED BY <1>1, TypeCorrect, PTL DEF Spec, AppendStaysInArea

-----------------------------------------------------------------------------
(* What a reader finds in the flash c *)

Words == Recs \cup {Erased}

SlotOf(c, s) == IF \E r \in Recs : Holds(c, s, r)
                THEN CHOOSE r \in Recs : Holds(c, s, r) ELSE Erased

Used(c) == log_size(c) \div RecSize
Seen(c) == [i \in 1 .. Used(c) |-> SlotOf(c, (i - 1) * RecSize)]

LEMMA MultMod ==
  ASSUME NEW i \in Nat, NEW R \in Nat \ {0}
  PROVE  (R * i) % R = 0
  OBVIOUS

LEMMA NatDiv ==
  ASSUME NEW n \in Nat, NEW R \in Nat \ {0}, NEW k \in Nat, R * k <= n, n < R * k + R
  PROVE  n \div R = k
<1>1. /\ n \div R \in Nat
      /\ n = R * (n \div R) + (n % R) /\ n % R \in 0 .. R - 1
  BY DivMod
<1> DEFINE q == n \div R
<1>2. R * q <= n /\ n < R * q + R /\ q \in Int
  <2>1. R * q \in Int
    BY <1>1
  <2> QED BY <1>1, <2>1
<1> HIDE DEF q
<1>3. ~ (q < k)
  <2> SUFFICES ASSUME q < k PROVE FALSE
    OBVIOUS
  <2>1. R * q + R <= R * k
    BY <1>2, MultGap
  <2>2. R * q \in Int /\ R * k \in Int
    BY <1>2
  <2> QED BY <2>1, <2>2, <1>2
<1>4. ~ (k < q)
  <2> SUFFICES ASSUME k < q PROVE FALSE
    OBVIOUS
  <2>1. R * k + R <= R * q
    BY <1>2, MultGap
  <2>2. R * q \in Int /\ R * k \in Int
    BY <1>2
  <2> QED BY <2>1, <2>2, <1>2
<1>5. q = k
  BY <1>2, <1>3, <1>4
<1> QED BY <1>5 DEF q

LEMMA SlotOfWords ==
  ASSUME NEW c, NEW s
  PROVE  SlotOf(c, s) \in Words
  BY DEF SlotOf, Words

LEMMA SeenType ==
  ASSUME NEW c
  PROVE  /\ Used(c) \in Nat
         /\ Seen(c) \in Seq(Words) /\ Len(Seen(c)) = Used(c)
         /\ \A i \in 1 .. Used(c) : Seen(c)[i] = SlotOf(c, (i - 1) * RecSize)
<1>1. Used(c) \in Nat
  BY LogSizeNat, FlashAssumption, DivMod DEF Used
<1>2. \A i \in 1 .. Used(c) : SlotOf(c, (i - 1) * RecSize) \in Words
  BY SlotOfWords
<1>3. Seen(c) \in [1 .. Used(c) -> Words]
  BY <1>2 DEF Seen
<1>4. Seen(c) \in Seq(Words)
  BY <1>1, <1>2, IsASeq DEF Seen
<1>5. Len(Seen(c)) = Used(c)
  BY <1>1, <1>3, <1>4
<1> QED BY <1>1, <1>4, <1>5 DEF Seen

\* A slot whose number of slots before it is k is used, when the slots below
\* it are used and it is the first empty one or does not fit in the area.
LEMMA LogLen ==
  ASSUME NEW c, NEW k \in Nat, RecSize * k <= AreaSize,
         \A s \in Slots : s < RecSize * k => ~ SlotEmpty(c, s),
         RecSize * k + RecSize <= AreaSize => SlotEmpty(c, RecSize * k)
  PROVE  Used(c) = k
<1> DEFINE n == log_size(c)
           m == RecSize * k
<1>1. /\ n \in Nat /\ m \in Nat /\ RecSize \in Nat \ {0} /\ AreaSize \in Nat
      /\ \A s \in Slots : s \in Nat /\ s < AreaSize
  <2>1. n \in Nat
    BY LogSizeNat
  <2>2. \A s \in Slots : s \in Nat /\ s < AreaSize
    BY FlashAssumption DEF Slots
  <2>3. m \in Nat
    BY FlashAssumption
  <2> QED BY <2>1, <2>2, <2>3, FlashAssumption
<1>2. m <= n /\ n < m + RecSize
  <2>1. m % RecSize = 0
    BY <1>1, MultMod
  <2>2. CASE m + RecSize <= AreaSize
    <3>1. m \in Slots /\ SlotEmpty(c, m)
      <4> HIDE DEF m
      <4>1. m \in 0 .. AreaSize - 1
        BY <2>2, <1>1
      <4>2. SlotEmpty(c, m)
        BY <2>2 DEF m
      <4> QED BY <4>1, <4>2, <2>1 DEF Slots
    <3>2. n \in Slots /\ SlotEmpty(c, n) /\ \A u \in Slots : u < n => ~ SlotEmpty(c, u)
      BY <3>1, LogSize
    <3>3. ~ (n < m) /\ ~ (m < n)
      BY <3>1, <3>2
    <3> HIDE DEF n, m
    <3> QED BY <3>3, <1>1
  <2>3. CASE ~ (m + RecSize <= AreaSize)
    <3>1. CASE n = AreaSize
      <4>1. m <= AreaSize
        OBVIOUS
      <4> HIDE DEF n, m
      <4> QED BY <3>1, <4>1, <2>3, <1>1
    <3>2. CASE n # AreaSize
      <4>1. n \in Slots /\ SlotEmpty(c, n)
        BY <3>2, LogSize
      <4>2. ~ (n < m)
        BY <4>1
      <4> HIDE DEF n, m
      <4> QED BY <4>1, <4>2, <2>3, <1>1
    <3> QED BY <3>1, <3>2
  <2> QED BY <2>2, <2>3
<1>3. n \div RecSize = k
  BY <1>1, <1>2, NatDiv
<1> QED BY <1>3 DEF Used

-----------------------------------------------------------------------------
(* Storing a record *)

\* With no loss of power the two page writes put every cell of the record
\* into an erased slot, whether or not it straddles two pages: the image of
\* the first page agrees with what lies before the slot, so nothing stops it.
LEMMA PushWhole ==
  ASSUME NEW c, NEW data, ~ (log_size(c) + RecSize > AreaSize),
         NEW k \in 0 .. RecSize - 1
  PROVE  Pushed(c, data, PageSize, PageSize)[log_size(c) + k] = data[k]
<1> DEFINE b == log_size(c)
           H == HeadSize(b)
           P == PageOf(b)
           T == TailPage(b)
           hd == IF H = 0 THEN c ELSE WritePage(c, P, HeadImage(c, b, data), PageSize)
           tl == WritePage(hd, T, TailImage(b, data), PageSize)
           a == b + k
<1>0. b \in Slots /\ b \in Nat /\ SlotEmpty(c, b)
  BY PushTarget
<1>1. \A j \in 0 .. RecSize - 1 : c[b + j] = Erased /\ b + j \in Cells
  BY <1>0, SlotCells DEF SlotEmpty
<1>2. /\ RecSize \in Nat \ {0} /\ PageSize \in Nat \ {0} /\ RecSize <= PageSize
      /\ H \in 0 .. RecSize /\ P \in Nat /\ P <= b /\ b < P + PageSize
      /\ H < RecSize => T = b + H
  <2> HIDE DEF b
  <2> QED BY <1>0, PageBounds, FlashAssumption
<1>3. b + H <= P + PageSize
  <2>1. b % PageSize \in 0 .. PageSize - 1
    BY <1>0, <1>2, DivMod
  <2> HIDE DEF b
  <2> QED BY <2>1, <1>0, <1>2 DEF HeadSize, PageOf
<1> HIDE DEF b
<1>4. k < H => hd[a] = data[k]
  <2> SUFFICES ASSUME k < H PROVE hd[a] = data[k]
    OBVIOUS
  <2> DEFINE img == HeadImage(c, b, data)
  <2>1. hd = WritePage(c, P, img, PageSize)
    <3>1. H # 0
      <4> HIDE DEF H
      <4> QED BY <1>2
    <3> QED BY <3>1
  <2> HIDE DEF hd
  <2>2. /\ a \in InPage(P) /\ a - P \in 0 .. PageSize - 1 /\ a - P < PageSize
        /\ P + (a - P) = a /\ a - b = k /\ a \in Int
    <3> HIDE DEF H, P
    <3> QED BY <1>0, <1>2, <1>3 DEF InPage
  <2>3. \A j \in 0 .. PageSize - 1 :
          img[j] = IF P + j - b \in 0 .. H - 1 THEN data[P + j - b] ELSE c[P + j]
    BY DEF HeadImage
  <2> HIDE DEF img
  <2>4. Verifies(c, P, img, a - P)
    <3> SUFFICES ASSUME NEW j \in 0 .. a - P - 1 PROVE c[P + j] \in {Erased, img[j]}
      BY DEF Verifies
    <3>1. j \in 0 .. PageSize - 1
      <4> HIDE DEF H, P, a
      <4> QED BY <2>2, <1>0, <1>2
    <3>2. CASE P + j - b \in 0 .. H - 1
      <4>1. /\ P + j - b \in 0 .. RecSize - 1 /\ b + (P + j - b) = P + j
        <5> HIDE DEF H, P
        <5> QED BY <3>2, <1>0, <1>2
      <4>2. c[P + j] = Erased
        <5> HIDE DEF H, P
        <5> QED BY <4>1, <1>1
      <4> QED BY <4>2
    <3>3. CASE ~ (P + j - b \in 0 .. H - 1)
      BY <3>1, <3>3, <2>3
    <3> QED BY <3>2, <3>3
  <2>5. hd[a] = img[a - P]
    <3>1. a \in Cells /\ c[a] = Erased
      BY <1>1
    <3> HIDE DEF H, P, a
    <3> QED BY <3>1, <2>1, <2>2, <2>4 DEF WritePage
  <2>6. k \in 0 .. H - 1
    <3> HIDE DEF H, P
    <3> QED BY <1>2
  <2>7. img[a - P] = data[a - b]
    <3>1. P + (a - P) - b = a - b
      <4> HIDE DEF P, H, a
      <4> QED BY <2>2, <1>0, <1>2
    <3> HIDE DEF H, P, a
    <3> QED BY <3>1, <2>2, <2>3, <2>6
  <2> QED BY <2>2, <2>5, <2>7
<1>5. \A j \in 0 .. RecSize - 1 : j >= H => hd[b + j] = Erased
  <2> SUFFICES ASSUME NEW j \in 0 .. RecSize - 1, j >= H PROVE hd[b + j] = Erased
    OBVIOUS
  <2>0. c[b + j] = Erased /\ b + j \in Cells
    BY <1>1
  <2>1. CASE H = 0
    BY <2>0, <2>1
  <2>2. CASE H # 0
    <3> DEFINE img == HeadImage(c, b, data)
               e == b + j
    <3>1. hd = WritePage(c, P, img, PageSize)
      BY <2>2
    <3> HIDE DEF hd
    <3>2. e \in InPage(P) => img[e - P] = c[e]
      <4> SUFFICES ASSUME e \in InPage(P) PROVE img[e - P] = c[e]
        OBVIOUS
      <4>1. /\ e - P \in 0 .. PageSize - 1 /\ P + (e - P) = e
            /\ P + (e - P) - b = j /\ j \notin 0 .. H - 1
        <5> HIDE DEF H, P
        <5> QED BY <1>0, <1>2 DEF InPage
      <4>2. \A i \in 0 .. PageSize - 1 :
              img[i] = IF P + i - b \in 0 .. H - 1 THEN data[P + i - b] ELSE c[P + i]
        BY DEF HeadImage
      <4> HIDE DEF H, P, e, img
      <4> QED BY <4>1, <4>2
    <3> HIDE DEF img
    <3>3. e \in Cells /\ c[e] = Erased
      BY <2>0
    <3>4. hd[e] = Erased
      <4> HIDE DEF P, H, e
      <4> QED BY <3>1, <3>2, <3>3 DEF WritePage
    <3> QED BY <3>4
  <2> QED BY <2>1, <2>2
<1>6. CASE H = RecSize
  <2>1. Pushed(c, data, PageSize, PageSize) = hd
    BY <1>6 DEF Pushed, b
  <2>2. k < H
    <3> HIDE DEF H, P
    <3> QED BY <1>6, <1>2
  <2> HIDE DEF hd
  <2> QED BY <2>1, <2>2, <1>4 DEF b
<1>7. CASE H # RecSize
  <2>1. Pushed(c, data, PageSize, PageSize) = tl
    BY <1>7 DEF Pushed, b
  <2>2. T = b + H /\ H \in Nat /\ H < RecSize
    <3> HIDE DEF H, P, T
    <3> QED BY <1>7, <1>2
  <2>3. CASE k < H
    <3>1. a \notin InPage(T)
      <4> HIDE DEF H, P, T
      <4> QED BY <2>2, <2>3, <1>0, <1>2 DEF InPage
    <3>2. tl[a] = hd[a]
      <4>1. a \in Cells
        BY <1>1
      <4> HIDE DEF hd, a, T
      <4> QED BY <3>1, <4>1 DEF WritePage
    <3> HIDE DEF hd, tl
    <3> QED BY <2>1, <2>3, <3>2, <1>4 DEF b
  <2>4. CASE ~ (k < H)
    <3> DEFINE img == TailImage(b, data)
    <3>1. /\ a \in InPage(T) /\ a - T \in 0 .. PageSize - 1 /\ a - T < PageSize
          /\ H + (a - T) = k
      <4> HIDE DEF H, P, T
      <4> QED BY <2>2, <2>4, <1>0, <1>2 DEF InPage
    <3>2. Verifies(hd, T, img, a - T)
      <4> SUFFICES ASSUME NEW j \in 0 .. a - T - 1 PROVE hd[T + j] = Erased
        BY DEF Verifies
      <4>1. H + j \in 0 .. RecSize - 1 /\ H + j >= H /\ b + (H + j) = T + j
        <5> HIDE DEF H, P, T
        <5> QED BY <2>2, <3>1, <1>0, <1>2
      <4> HIDE DEF hd, H, T
      <4> QED BY <4>1, <1>5
    <3>3. img[a - T] = data[k]
      <4>1. k < RecSize
        BY <1>2
      <4> HIDE DEF T, a
      <4> QED BY <4>1, <3>1 DEF TailImage
    <3>4. a \in Cells /\ hd[a] = Erased
      <4>1. k >= H
        <5> HIDE DEF H
        <5> QED BY <2>2, <2>4
      <4> HIDE DEF hd, H
      <4> QED BY <4>1, <1>1, <1>5
    <3>5. tl[a] = img[a - T]
      <4>1. tl = WritePage(hd, T, img, PageSize)
        OBVIOUS
      <4> HIDE DEF hd, T, a, img, tl
      <4> QED BY <4>1, <3>1, <3>2, <3>4 DEF WritePage
    <3> HIDE DEF tl
    <3> QED BY <2>1, <3>3, <3>5 DEF b
  <2> QED BY <2>3, <2>4
<1> QED BY <1>6, <1>7

\* Where the record goes: the slot after those already used, with room for it.
LEMMA PushSlot ==
  ASSUME NEW c, ~ (log_size(c) + RecSize > AreaSize)
  PROVE  /\ log_size(c) = RecSize * Used(c)
         /\ Used(c) < AreaSize \div RecSize
<1> DEFINE b == log_size(c)
           k == Used(c)
           N == AreaSize \div RecSize
<1>1. /\ b \in Slots /\ b \in Nat /\ b + RecSize <= AreaSize
      /\ RecSize \in Nat \ {0} /\ AreaSize \in Nat /\ b % RecSize = 0
  BY PushTarget, FlashAssumption DEF Slots
<1>2. b = RecSize * k
  <2>1. b = RecSize * (b \div RecSize) + (b % RecSize) /\ b \div RecSize \in Nat
    <3> HIDE DEF b
    <3> QED BY <1>1, DivMod
  <2>2. RecSize * (b \div RecSize) \in Int
    <3> HIDE DEF b
    <3> QED BY <2>1, <1>1
  <2> QED BY <2>1, <2>2, <1>1 DEF Used
<1>3. k < N
  <2>1. /\ N \in Nat /\ AreaSize = RecSize * N + (AreaSize % RecSize)
        /\ AreaSize % RecSize \in 0 .. RecSize - 1
    BY <1>1, DivMod
  <2>2. k \in Nat
    BY SeenType
  <2> HIDE DEF b, k, N
  <2>3. RecSize * N \in Int /\ RecSize * k \in Int
    BY <2>1, <2>2, <1>1
  <2> SUFFICES ASSUME N <= k PROVE FALSE
    BY <2>1, <2>2
  <2>4. N = k \/ RecSize * N + RecSize <= RecSize * k
    BY <2>1, <2>2, <1>1, MultGap
  <2> QED BY <2>1, <2>3, <2>4, <1>1, <1>2
<1> QED BY <1>2, <1>3

\* A store, cut short or not, leaves every slot before its own as it reads,
\* and its own empty, torn or with the record in it.
LEMMA PushSlots ==
  ASSUME NEW c, NEW r \in Recs, NEW h \in Int, NEW t \in Int,
         c = [a \in Cells |-> c[a]], Compact(c),
         ~ (log_size(c) + RecSize > AreaSize)
  PROVE  LET d == Pushed(c, Data(r), h, t)
             b == log_size(c) IN
         /\ \A s \in Slots : s < b => SlotOf(d, s) = SlotOf(c, s)
         /\ SlotOf(d, b) \in {Erased, r}
         /\ SlotEmpty(d, b) => Used(d) = Used(c)
         /\ ~ SlotEmpty(d, b) => Used(d) = Used(c) + 1
<1> DEFINE b == log_size(c)
           d == Pushed(c, Data(r), h, t)
           k == Used(c)
<1>0. /\ b \in Slots /\ b \in Nat /\ SlotEmpty(c, b) /\ b + RecSize <= AreaSize
      /\ \A s \in Slots : s < b => ~ SlotEmpty(c, s)
      /\ b = RecSize * k /\ k \in Nat
      /\ RecSize \in Nat \ {0} /\ AreaSize \in Nat
  <2>1. k \in Nat
    BY SeenType
  <2> QED BY <2>1, PushTarget, PushSlot, FlashAssumption
<1>1. FillsSlot(c, d, Data(r), b)
  BY <1>0, PushedCells
<1> HIDE DEF b, d, k
<1>2. ASSUME NEW a \in Cells, a \notin b .. b + RecSize - 1 PROVE d[a] = c[a]
  BY <1>1, <1>2 DEF FillsSlot
<1>3. ASSUME NEW s \in Slots, s < b, NEW j \in 0 .. RecSize - 1
      PROVE  d[s + j] = c[s + j]
  <2>1. s \in Nat /\ s + RecSize <= b
    BY <1>0, <1>3, SlotFacts, MultiplesApart
  <2>2. s + j \in Cells /\ s + j \notin b .. b + RecSize - 1
    BY <2>1, <1>0, SlotCells
  <2> QED BY <2>2, <1>2
<1>4. ASSUME NEW s \in Slots, s < b PROVE SlotOf(d, s) = SlotOf(c, s)
  <2>1. ASSUME NEW q \in Recs PROVE Holds(d, s, q) <=> Holds(c, s, q)
    BY <1>3, <1>4 DEF Holds
  <2> QED BY <2>1 DEF SlotOf
<1>5. SlotOf(d, b) \in {Erased, r}
  <2>1. ASSUME NEW q \in Recs, Holds(d, b, q) PROVE q = r
    <3>1. 0 \in 0 .. RecSize - 1 /\ b + 0 = b
      BY <1>0
    <3>2. d[b] = <<q, 0>> /\ c[b] = Erased
      BY <3>1, <2>1, <1>0 DEF Holds, SlotEmpty
    <3>3. d[b] # c[b]
      <4>1. <<q, 0>> \in RecCells
        BY <3>1 DEF RecCells
      <4> QED BY <4>1, <3>2, FlashAssumption
    <3>4. b \in Cells /\ b - b = 0
      BY <3>1, <1>0, SlotCells
    <3>5. d[b] = Data(r)[0]
      BY <1>1, <3>3, <3>4 DEF FillsSlot
    <3>6. Data(r)[0] = <<r, 0>>
      BY <3>1 DEF Data
    <3> QED BY <3>2, <3>5, <3>6
  <2>2. (\E q \in Recs : Holds(d, b, q)) => (CHOOSE q \in Recs : Holds(d, b, q)) = r
    BY <2>1
  <2> QED BY <2>2 DEF SlotOf
<1>6. ASSUME NEW s \in Slots, s < b PROVE ~ SlotEmpty(d, s)
  <2>1. PICK j \in 0 .. RecSize - 1 : c[s + j] # Erased
    BY <1>0, <1>6 DEF SlotEmpty
  <2> QED BY <2>1, <1>3, <1>6 DEF SlotEmpty
<1>7. CASE SlotEmpty(d, b)
  <2>1. Used(d) = k
    <3>1. RecSize * k <= AreaSize
      BY <1>0
    <3>2. \A s \in Slots : s < RecSize * k => ~ SlotEmpty(d, s)
      BY <1>0, <1>6
    <3>3. SlotEmpty(d, RecSize * k)
      BY <1>0, <1>7
    <3> QED BY <3>1, <3>2, <3>3, <1>0, LogLen
  <2> QED BY <2>1, <1>4, <1>5, <1>7 DEF b, d, k
<1>8. CASE ~ SlotEmpty(d, b)
  <2>1. RecSize * (k + 1) = b + RecSize /\ k + 1 \in Nat
    <3>1. RecSize * (k + 1) = RecSize * k + RecSize
      BY <1>0
    <3> QED BY <3>1, <1>0
  <2>2. \A s \in Slots : s < b + RecSize => ~ SlotEmpty(d, s)
    <3> SUFFICES ASSUME NEW s \in Slots, s < b + RecSize PROVE ~ SlotEmpty(d, s)
      OBVIOUS
    <3>1. ~ (b < s)
      BY <1>0, SlotFacts, MultiplesApart
    <3>2. s \in Int /\ b \in Int
      BY <1>0, SlotFacts
    <3>3. CASE s = b
      BY <3>3, <1>8
    <3>4. CASE s < b
      BY <3>4, <1>6
    <3> QED BY <3>1, <3>2, <3>3, <3>4
  <2>3. ASSUME (b + RecSize) + RecSize <= AreaSize PROVE SlotEmpty(d, b + RecSize)
    <3> DEFINE u == b + RecSize
    <3>1. u \in Slots /\ b < u
      <4>1. u \in 0 .. AreaSize - 1 /\ b < u
        BY <2>3, <1>0
      <4>2. u % RecSize = 0
        <5>1. u = RecSize * (k + 1)
          BY <2>1
        <5> HIDE DEF u
        <5> QED BY <5>1, <2>1, <1>0, MultMod
      <4> QED BY <4>1, <4>2 DEF Slots
    <3>2. SlotEmpty(c, u)
      BY <3>1, <2>3, <1>0 DEF Compact
    <3> SUFFICES ASSUME NEW j \in 0 .. RecSize - 1 PROVE d[u + j] = Erased
      BY DEF SlotEmpty
    <3>3. u + j \in Cells
      BY <3>1, SlotCells
    <3>4. u + j \notin b .. b + RecSize - 1
      BY <1>0
    <3>5. c[u + j] = Erased
      BY <3>2 DEF SlotEmpty
    <3> QED BY <3>3, <3>4, <3>5, <1>2
  <2>4. Used(d) = k + 1
    <3>1. RecSize * (k + 1) <= AreaSize
      BY <1>0, <2>1
    <3>2. \A s \in Slots : s < RecSize * (k + 1) => ~ SlotEmpty(d, s)
      BY <2>1, <2>2
    <3>3. RecSize * (k + 1) + RecSize <= AreaSize => SlotEmpty(d, RecSize * (k + 1))
      BY <2>1, <2>3
    <3> QED BY <3>1, <3>2, <3>3, <2>1, LogLen
  <2> QED BY <2>4, <1>4, <1>5, <1>8 DEF b, d, k
<1> QED BY <1>7, <1>8

\* The slot a reader's index stands for.
LEMMA SlotAt ==
  ASSUME NEW k \in Nat, RecSize * k <= AreaSize, NEW i \in 1 .. k
  PROVE  (i - 1) * RecSize \in Slots /\ (i - 1) * RecSize < RecSize * k
<1> DEFINE s == (i - 1) * RecSize
<1>1. RecSize \in Nat \ {0} /\ AreaSize \in Nat /\ i - 1 \in Nat
  BY FlashAssumption
<1>2. s = RecSize * (i - 1) /\ s \in Nat
  BY <1>1
<1>3. s + RecSize <= RecSize * k
  BY <1>1, <1>2, MultGap
<1>4. s % RecSize = 0
  BY <1>1, <1>2, MultMod
<1>5. RecSize * k \in Nat
  BY <1>1
<1> HIDE DEF s
<1>6. s \in 0 .. AreaSize - 1 /\ s < RecSize * k
  BY <1>1, <1>2, <1>3, <1>5
<1> QED BY <1>4, <1>6 DEF Slots, s

\* What a reader finds after a store, cut short or not: what was there, and
\* at most one slot more.
LEMMA SeenPush ==
  ASSUME NEW c, NEW r \in Recs, NEW h \in Int, NEW t \in Int,
         c = [a \in Cells |-> c[a]], Compact(c),
         ~ (log_size(c) + RecSize > AreaSize)
  PROVE  LET d == Pushed(c, Data(r), h, t)
             b == log_size(c) IN
         /\ SlotOf(d, b) \in {Erased, r}
         /\ SlotEmpty(d, b) => Seen(d) = Seen(c)
         /\ ~ SlotEmpty(d, b) => Seen(d) = Append(Seen(c), SlotOf(d, b))
<1> DEFINE b == log_size(c)
           d == Pushed(c, Data(r), h, t)
           k == Used(c)
<1>1. /\ b = RecSize * k /\ k \in Nat /\ b <= AreaSize
      /\ RecSize \in Nat \ {0} /\ AreaSize \in Nat
  <2>1. k \in Nat
    BY SeenType
  <2>2. b \in Nat /\ b + RecSize <= AreaSize
    BY PushTarget
  <2> HIDE DEF b
  <2>3. b = RecSize * k
    BY PushSlot DEF b
  <2> QED BY <2>1, <2>2, <2>3, FlashAssumption
<1>2. /\ \A s \in Slots : s < b => SlotOf(d, s) = SlotOf(c, s)
      /\ SlotOf(d, b) \in {Erased, r}
      /\ SlotEmpty(d, b) => Used(d) = k
      /\ ~ SlotEmpty(d, b) => Used(d) = k + 1
  BY PushSlots
<1>3. /\ Seen(c) \in Seq(Words) /\ Len(Seen(c)) = k
      /\ \A i \in 1 .. k : Seen(c)[i] = SlotOf(c, (i - 1) * RecSize)
      /\ Seen(d) \in Seq(Words) /\ Len(Seen(d)) = Used(d)
      /\ \A i \in 1 .. Used(d) : Seen(d)[i] = SlotOf(d, (i - 1) * RecSize)
  BY SeenType
<1> HIDE DEF b, d, k
<1>4. ASSUME NEW i \in 1 .. k
      PROVE  SlotOf(d, (i - 1) * RecSize) = SlotOf(c, (i - 1) * RecSize)
  <2>1. (i - 1) * RecSize \in Slots /\ (i - 1) * RecSize < b
    BY <1>1, SlotAt
  <2> QED BY <2>1, <1>2
<1>5. ASSUME SlotEmpty(d, b) PROVE Seen(d) = Seen(c)
  <2>1. Len(Seen(d)) = Len(Seen(c))
    BY <1>2, <1>3, <1>5
  <2>2. \A i \in 1 .. Len(Seen(d)) : Seen(d)[i] = Seen(c)[i]
    BY <1>2, <1>3, <1>4, <1>5
  <2> QED BY <2>1, <2>2, <1>3, SeqEqual
<1>6. ASSUME ~ SlotEmpty(d, b) PROVE Seen(d) = Append(Seen(c), SlotOf(d, b))
  <2> DEFINE x == SlotOf(d, b)
             e == Append(Seen(c), x)
  <2>1. x \in Words
    BY SlotOfWords
  <2> HIDE DEF x
  <2>2. /\ e \in Seq(Words) /\ Len(e) = k + 1
        /\ \A i \in 1 .. k : e[i] = Seen(c)[i]
        /\ e[k + 1] = x
    <3> DEFINE q == Seen(c)
    <3>1. q \in Seq(Words) /\ Len(q) = k
      BY <1>3
    <3> HIDE DEF q
    <3>2. /\ Append(q, x) \in Seq(Words) /\ Len(Append(q, x)) = Len(q) + 1
          /\ \A i \in 1 .. Len(q) : Append(q, x)[i] = q[i]
          /\ Append(q, x)[Len(q) + 1] = x
      BY <2>1, <3>1, AppendProperties
    <3>3. e = Append(q, x)
      BY DEF q
    <3> HIDE DEF e
    <3> QED BY <3>1, <3>2, <3>3 DEF q
  <2> HIDE DEF e
  <2>3. Len(Seen(d)) = k + 1
    BY <1>2, <1>3, <1>6
  <2>4. ASSUME NEW i \in 1 .. k + 1 PROVE Seen(d)[i] = e[i]
    <3>1. Seen(d)[i] = SlotOf(d, (i - 1) * RecSize)
      BY <1>2, <1>3, <1>6
    <3>2. CASE i = k + 1
      <4>1. (i - 1) * RecSize = b
        BY <3>2, <1>1
      <4> QED BY <4>1, <3>1, <3>2, <2>2 DEF x
    <3>3. CASE i # k + 1
      <4>1. i \in 1 .. k
        BY <3>3, <1>1
      <4> QED BY <4>1, <3>1, <1>3, <1>4, <2>2
    <3> QED BY <3>2, <3>3
  <2>5. Seen(d) = e
    BY <2>2, <2>3, <2>4, <1>3, SeqEqual
  <2> QED BY <2>5 DEF e, x
<1> QED BY <1>2, <1>5, <1>6 DEF b, d

\* With no loss of power the slot more is there and holds the record.
LEMMA SeenStore ==
  ASSUME NEW c, NEW r \in Recs, c = [a \in Cells |-> c[a]], Compact(c),
         ~ (log_size(c) + RecSize > AreaSize)
  PROVE  Seen(Pushed(c, Data(r), PageSize, PageSize)) = Append(Seen(c), r)
<1> DEFINE b == log_size(c)
           d == Pushed(c, Data(r), PageSize, PageSize)
<1>1. PageSize \in Int /\ RecSize \in Nat \ {0}
  BY FlashAssumption
<1>2. /\ SlotOf(d, b) \in {Erased, r}
      /\ ~ SlotEmpty(d, b) => Seen(d) = Append(Seen(c), SlotOf(d, b))
  BY <1>1, SeenPush
<1>3. \A k \in 0 .. RecSize - 1 : d[b + k] = <<r, k>>
  <2> SUFFICES ASSUME NEW k \in 0 .. RecSize - 1 PROVE d[b + k] = <<r, k>>
    OBVIOUS
  <2>1. d[b + k] = Data(r)[k]
    BY PushWhole
  <2> HIDE DEF d, b
  <2> QED BY <2>1 DEF Data
<1> HIDE DEF b, d
<1>4. 0 \in 0 .. RecSize - 1 /\ <<r, 0>> # Erased
  <2>1. 0 \in 0 .. RecSize - 1
    BY <1>1
  <2>2. <<r, 0>> \in RecCells
    BY <2>1 DEF RecCells
  <2> QED BY <2>1, <2>2, FlashAssumption
<1>5. ~ SlotEmpty(d, b)
  BY <1>3, <1>4 DEF SlotEmpty
<1>6. SlotOf(d, b) = r
  <2>1. Holds(d, b, r)
    BY <1>3 DEF Holds
  <2>2. ASSUME NEW q \in Recs, Holds(d, b, q) PROVE q = r
    BY <2>2, <1>3, <1>4 DEF Holds
  <2>3. (CHOOSE q \in Recs : Holds(d, b, q)) = r
    BY <2>1, <2>2
  <2> QED BY <2>1, <2>3 DEF SlotOf
<1> QED BY <1>2, <1>5, <1>6 DEF d

\* The "user change" marker is made of erased cells and changes nothing.
LEMMA MarkerChangesNothing ==
  ASSUME NEW c, c = [a \in Cells |-> c[a]]
  PROVE  Pushed(c, [k \in 0 .. RecSize - 1 |-> Erased], PageSize, PageSize) = c
<1> DEFINE data == [k \in 0 .. RecSize - 1 |-> Erased]
           b == log_size(c)
           d == Pushed(c, data, PageSize, PageSize)
<1>1. PageSize \in Int /\ b \in Nat /\ RecSize \in Nat
  BY LogSizeNat, FlashAssumption
<1>2. \A j \in 0 .. RecSize - 1 : data[j] = Erased
  OBVIOUS
<1> HIDE DEF data
<1>3. d = [a \in Cells |-> d[a]] /\ FillsSlot(c, d, data, b)
  BY <1>1, PushedCells
<1> HIDE DEF d, b
<1>4. ASSUME NEW a \in Cells PROVE d[a] = c[a]
  <2> SUFFICES ASSUME d[a] # c[a] PROVE FALSE
    OBVIOUS
  <2>1. a \in b .. b + RecSize - 1 /\ c[a] = Erased /\ d[a] = data[a - b]
    BY <1>3 DEF FillsSlot
  <2>2. a - b \in 0 .. RecSize - 1
    BY <2>1, <1>1
  <2> QED BY <2>1, <2>2, <1>2
<1>5. d = c
  BY <1>3, <1>4
<1> QED BY <1>5 DEF d, data

\* An erased area holds nothing.
LEMMA ErasedSeen ==
  ASSUME NEW c, \A a \in Area : c[a] = Erased
  PROVE  Seen(c) = << >>
<1>1. RecSize \in Nat \ {0} /\ AreaSize \in Nat /\ RecSize <= AreaSize
  BY FlashAssumption
<1>2. RecSize * 0 = 0
  BY <1>1
<1>3. SlotEmpty(c, 0)
  <2> SUFFICES ASSUME NEW j \in 0 .. RecSize - 1 PROVE c[0 + j] = Erased
    BY DEF SlotEmpty
  <2>1. 0 + j \in Area
    BY <1>1 DEF Area
  <2> QED BY <2>1
<1>4. Used(c) = 0
  <2>1. \A s \in Slots : ~ (s < 0)
    BY SlotFacts
  <2> QED BY <2>1, <1>1, <1>2, <1>3, LogLen
<1>5. Seen(c) \in Seq(Words) /\ Len(Seen(c)) = 0
  BY <1>4, SeenType
<1> QED BY <1>5, EmptySeq

-----------------------------------------------------------------------------
(* The refinement *)

\* The log a reader finds is the abstract one: every operation of the flash
\* layout, cut short or not, is an operation of MeasurementLog or changes
\* nothing a reader can see.
THEOREM ImplementsLogHolds == Spec => ImplementsLog
<1> DEFINE Inv == TypeOK /\ NoHoles
           alog == IF intact THEN Visible ELSE << >>
<1>0. Visible = Seen(flash)
  BY DEF Visible, NumSlots, Slot, Seen, Used, SlotOf
<1>1. Init => Abstract!Init
  <2> SUFFICES ASSUME Init PROVE Abstract!Init
    OBVIOUS
  <2>1. Seen(flash) = << >>
    BY ErasedSeen DEF Init
  <2> QED BY <2>1, <1>0 DEF Init, Abstract!Init
<1>2. Inv /\ [Next]_vars => [Abstract!Next]_Abstract!vars
  <2> SUFFICES ASSUME Inv, [Next]_vars PROVE [Abstract!Next]_Abstract!vars
    OBVIOUS
  <2>0. /\ PageSize \in Int
        /\ flash = [a \in Cells |-> flash[a]]
        /\ intact => Compact(flash)
        /\ intact \in BOOLEAN /\ log_pause \in BOOLEAN
    BY FlashAssumption DEF TypeOK, NoHoles, Compact
  <2>1. Visible' = Seen(flash')
    BY DEF Visible, NumSlots, Slot, Seen, Used, SlotOf, log_size, SlotEmpty, Holds
  <2> DEFINE L    == Seen(flash)
             M    == Seen(flash')
             room == ~ (log_size(flash) + RecSize > AreaSize)
  <2>2. room => Len(L) < AreaSize \div RecSize
    BY PushSlot, SeenType
  <2>3. Rejects(flash) <=> log_pause \/ ~ room
    BY DEF Rejects
  <2>4. ASSUME log_pause' \in BOOLEAN, M = L \/ ~ intact, intact' = intact
        PROVE  Abstract!SetPause
    BY <2>4, <2>1, <1>0 DEF Abstract!SetPause
  <2> HIDE DEF room
  <2>5. ASSUME NEW r \in Recs, Pushback(r)
        PROVE  Abstract!Store(r) \/ Abstract!SetPause
    <3>0. log_pause' = log_pause /\ intact' = intact
      BY <2>5 DEF Pushback
    <3>1. CASE Rejects(flash) \/ ~ intact
      <4>1. M = L \/ ~ intact
        BY <2>5, <3>1 DEF Pushback
      <4> QED BY <4>1, <3>0, <2>0, <2>4
    <3>2. CASE ~ Rejects(flash) /\ intact
      <4>1. flash' = Pushed(flash, Data(r), PageSize, PageSize)
        BY <2>5, <3>2 DEF Pushback
      <4>2. M = Append(L, r)
        BY <4>1, <3>2, <2>0, SeenStore DEF Rejects
      <4>3. ~ log_pause /\ Len(L) < AreaSize \div RecSize
        BY <3>2, <2>2, <2>3
      <4> HIDE DEF L, M
      <4>4. Visible = L /\ Visible' = M
        BY <1>0, <2>1 DEF L, M
      <4> QED BY <4>2, <4>3, <4>4, <3>0, <3>2 DEF Abstract!Store
    <3> QED BY <3>1, <3>2
  <2>6. ASSUME NEW r \in Recs, PushbackPowerLoss(r)
        PROVE  Abstract!StoreCut(r) \/ Abstract!SetPause
    <3>0. /\ log_pause' = FALSE /\ intact' = intact /\ ~ Rejects(flash)
          /\ log_pause' \in BOOLEAN
      BY <2>6 DEF PushbackPowerLoss
    <3>1. CASE ~ intact
      BY <3>0, <3>1, <2>4
    <3>2. CASE intact
      <4>1. PICK h \in 0 .. PageSize, t \in 0 .. PageSize :
              flash' = Pushed(flash, Data(r), h, t)
        BY <2>6 DEF PushbackPowerLoss
      <4>2. h \in Int /\ t \in Int
        OBVIOUS
      <4>3. ~ (log_size(flash) + RecSize > AreaSize)
        BY <3>0 DEF Rejects
      <4> DEFINE x == SlotOf(flash', log_size(flash))
      <4>4. x \in {Erased, r} /\ (M = L \/ M = Append(L, x))
        BY <4>1, <4>2, <4>3, <3>2, <2>0, SeenPush
      <4>5. ~ log_pause /\ Len(L) < AreaSize \div RecSize
        BY <3>0, <2>2, <2>3
      <4> HIDE DEF L, M, x
      <4>6. M \in {L, Append(L, Erased), Append(L, r)}
        BY <4>4
      <4>7. Visible = L /\ Visible' = M
        BY <1>0, <2>1 DEF L, M
      <4> QED BY <4>5, <4>6, <4>7, <3>0, <3>2 DEF Abstract!StoreCut
    <3> QED BY <3>1, <3>2, <2>0
  <2>7. ASSUME log_userchange PROVE Abstract!SetPause
    <3>1. flash' = flash /\ log_pause' = log_pause /\ intact' = intact
      <4> DEFINE marker == [k \in 0 .. RecSize - 1 |-> Erased]
      <4>1. flash' \in {flash, Pushed(flash, marker, PageSize, PageSize)}
        BY <2>7 DEF log_userchange
      <4>2. Pushed(flash, marker, PageSize, PageSize) = flash
        BY <2>0, MarkerChangesNothing
      <4> QED BY <4>1, <4>2, <2>7 DEF log_userchange
    <3> QED BY <3>1, <2>0, <2>4
  <2>8. ASSUME log_clear PROVE Abstract!Clear
    <3>1. M = << >>
      BY <2>8, ClearErasesArea, ErasedSeen DEF log_clear
    <3> QED BY <3>1, <2>8, <2>1 DEF log_clear, Abstract!Clear
  <2>9. ASSUME ClearPowerLoss PROVE Abstract!ClearCut
    BY <2>9 DEF ClearPowerLoss, Abstract!ClearCut
  <2>10. ASSUME log_pause_cmd \/ log_resume_cmd \/ Restart PROVE Abstract!SetPause
    <3>1. log_pause' \in BOOLEAN /\ flash' = flash /\ intact' = intact
      BY <2>10 DEF log_pause_cmd, log_resume_cmd, Restart
    <3> QED BY <3>1, <2>4
  <2>11. ASSUME UNCHANGED vars PROVE Abstract!SetPause
    <3>1. log_pause' = log_pause /\ flash' = flash /\ intact' = intact
      BY <2>11 DEF vars
    <3> QED BY <3>1, <2>0, <2>4
  <2>12. (\E r \in Recs : Abstract!Store(r) \/ Abstract!StoreCut(r))
         \/ Abstract!Clear \/ Abstract!ClearCut \/ Abstract!SetPause
    BY <2>5, <2>6, <2>7, <2>8, <2>9, <2>10, <2>11 DEF Next
  <2> QED BY <2>12 DEF Abstract!Next
<1> QED BY <1>1, <1>2, TypeCorrect, NoHolesAlways, PTL DEF Spec, ImplementsLog, Abstract!Spec

-----------------------------------------------------------------------------
(* What was stored is read back *)

\* The records of the slots l that are whole.
Whole(l) == Subsequence(l, {i \in 1 .. Len(l) : l[i] # Erased})

LEMMA WholeAppend ==
  ASSUME NEW l \in Seq(Words), NEW x \in Words
  PROVE  Whole(Append(l, x)) = IF x # Erased THEN Append(Whole(l), x) ELSE Whole(l)
<1> DEFINE t == Append(l, x)
           P == {i \in 1 .. Len(l) : l[i] # Erased}
           Q == {i \in 1 .. Len(t) : t[i] # Erased}
<1>1. /\ Len(l) \in Nat /\ Len(t) = Len(l) + 1 /\ t[Len(l) + 1] = x
      /\ \A i \in 1 .. Len(l) : t[i] = l[i]
  BY AppendProperties
<1>2. \A i \in 1 .. Len(l) : i \in P <=> i \in Q
  <2> HIDE DEF t
  <2> QED BY <1>1
<1>3. Len(l) + 1 \in Q <=> x # Erased
  <2> HIDE DEF t
  <2> QED BY <1>1
<1>4. Subsequence(t, Q) = IF Len(l) + 1 \in Q THEN Append(Subsequence(l, P), x)
                          ELSE Subsequence(l, P)
  <2> HIDE DEF P, Q
  <2> QED BY <1>2, SubsequenceAppend
<1> QED BY <1>3, <1>4 DEF Whole

LEMMA WholeEmpty == Whole(<<>>) = <<>>
<1> DEFINE l == <<>>
           P == {i \in 1 .. Len(l) : l[i] # Erased}
<1>1. l \in Seq(Words) /\ Len(l) = 0
  OBVIOUS
<1>2. \A i \in 1 .. Len(l) : i \in P => l[i] \in Words
  BY <1>1
<1> HIDE DEF l, P
<1>3. Subsequence(l, P) \in Seq(Words) /\ Len(Subsequence(l, P)) <= Len(l)
  BY <1>1, <1>2, SubsequenceType
<1>4. Subsequence(l, P) = <<>>
  BY <1>1, <1>3, EmptySeq, LenProperties
<1> QED BY <1>4 DEF Whole, l, P

\* Every record that flashstorage_log_pushback stored since the last clear, if
\* that was complete, is read back whole, once and in order, wherever power was
\* lost while records were stored.  What else a reader finds is torn records,
\* at most one for each such loss (ImplementsLogHolds).
THEOREM ReadBackAlways == Spec => []ReadBack
<1> DEFINE Back(c, a) == Whole(Seen(c)) = a
           Inv == TypeOK /\ NoHoles
           Reads == intact => Back(flash, accepted)
<1>0. WholeRecs = Whole(Seen(flash))
  <2>1. Visible = Seen(flash) /\ NumSlots = Len(Seen(flash))
    <3>1. Visible = Seen(flash) /\ NumSlots = Used(flash)
      BY DEF Visible, NumSlots, Slot, Seen, Used, SlotOf
    <3> QED BY <3>1, SeenType
  <2> QED BY <2>1 DEF WholeRecs, Whole
<1>1. Init => Reads
  <2> SUFFICES ASSUME Init PROVE Back(flash, accepted)
    OBVIOUS
  <2>1. Seen(flash) = << >> /\ accepted = << >>
    BY ErasedSeen DEF Init
  <2> QED BY <2>1, WholeEmpty
<1>2. Inv /\ Reads /\ [Next]_vars => Reads'
  <2> SUFFICES ASSUME Inv, Reads, [Next]_vars, intact'
               PROVE  Back(flash', accepted')
    OBVIOUS
  <2>0. /\ PageSize \in Int
        /\ flash = [a \in Cells |-> flash[a]]
        /\ intact => Compact(flash)
        /\ Seen(flash) \in Seq(Words)
    BY FlashAssumption, SeenType DEF TypeOK, NoHoles, Compact
  <2>1. CASE flash' = flash /\ accepted' = accepted /\ intact' = intact
    BY <2>1
  <2>2. ASSUME NEW r \in Recs, Pushback(r), ~ Rejects(flash) PROVE Back(flash', accepted')
    <3>1. /\ flash' = Pushed(flash, Data(r), PageSize, PageSize)
          /\ accepted' = Append(accepted, r) /\ intact
      BY <2>2 DEF Pushback
    <3>2. Seen(flash') = Append(Seen(flash), r)
      BY <2>0, <2>2, <3>1, SeenStore DEF Rejects
    <3>3. r \in Words /\ r # Erased
      BY FlashAssumption DEF Words
    <3>4. Whole(Append(Seen(flash), r)) = Append(Whole(Seen(flash)), r)
      BY <2>0, <3>3, WholeAppend
    <3> QED BY <3>1, <3>2, <3>4
  <2>3. ASSUME NEW r \in Recs, PushbackPowerLoss(r) PROVE Back(flash', accepted')
    <3>1. PICK h \in 0 .. PageSize, t \in 0 .. PageSize :
            flash' = Pushed(flash, Data(r), h, t)
      BY <2>3 DEF PushbackPowerLoss
    <3>2. h \in Int /\ t \in Int /\ intact /\ ~ (log_size(flash) + RecSize > AreaSize)
      BY <2>3 DEF PushbackPowerLoss, Rejects
    <3> DEFINE b == log_size(flash)
               d == flash'
               x == SlotOf(d, b)
    <3>3. /\ x \in {Erased, r}
          /\ SlotEmpty(d, b) => Seen(d) = Seen(flash)
          /\ ~ SlotEmpty(d, b) => Seen(d) = Append(Seen(flash), x)
      BY <3>1, <3>2, <2>0, SeenPush, SMTT(30)
    <3>4. accepted' = IF Holds(d, b, r) THEN Append(accepted, r) ELSE accepted
      BY <2>3 DEF PushbackPowerLoss
    <3> HIDE DEF b, d
    <3>5. Erased \notin Recs /\ x \in Words
      BY FlashAssumption, SlotOfWords
    <3>6. Holds(d, b, r) <=> x = r
      BY <3>3, <3>5 DEF SlotOf
    <3>7. SlotEmpty(d, b) => ~ Holds(d, b, r)
      <4>1. 0 \in 0 .. RecSize - 1
        BY FlashAssumption
      <4>2. <<r, 0>> \in RecCells
        BY <4>1 DEF RecCells
      <4> QED BY <4>1, <4>2, FlashAssumption DEF SlotEmpty, Holds
    <3> HIDE DEF x
    <3>8. Whole(Append(Seen(flash), x))
            = IF x # Erased THEN Append(Whole(Seen(flash)), x) ELSE Whole(Seen(flash))
      BY <2>0, <3>5, WholeAppend
    <3>9. Whole(Seen(flash)) = accepted
      BY <3>2
    <3>10. Whole(Seen(d)) = accepted'
      <4>1. CASE SlotEmpty(d, b)
        BY <3>3, <3>4, <3>7, <3>9, <4>1
      <4>2. CASE ~ SlotEmpty(d, b) /\ x = r
        BY <3>3, <3>4, <3>5, <3>6, <3>8, <3>9, <4>2
      <4>3. CASE ~ SlotEmpty(d, b) /\ x # r
        BY <3>3, <3>4, <3>6, <3>8, <3>9, <4>3
      <4> QED BY <4>1, <4>2, <4>3
    <3> QED BY <3>10 DEF d
  <2>4. CASE log_userchange
    <3> DEFINE marker == [k \in 0 .. RecSize - 1 |-> Erased]
    <3>1. flash' \in {flash, Pushed(flash, marker, PageSize, PageSize)}
      BY <2>4 DEF log_userchange
    <3>2. Pushed(flash, marker, PageSize, PageSize) = flash
      BY <2>0, MarkerChangesNothing
    <3> QED BY <2>1, <2>4, <3>1, <3>2 DEF log_userchange
  <2>5. CASE log_clear
    <3>1. Seen(flash') = << >> /\ accepted' = << >>
      BY <2>5, ClearErasesArea, ErasedSeen DEF log_clear
    <3> QED BY <3>1, WholeEmpty
  <2>6. CASE ClearPowerLoss
    BY <2>6 DEF ClearPowerLoss
  <2>7. CASE log_pause_cmd \/ log_resume_cmd \/ Restart \/ UNCHANGED vars
    BY <2>1, <2>7 DEF log_pause_cmd, log_resume_cmd, Restart, vars
  <2>8. ASSUME NEW r \in Recs, Pushback(r), Rejects(flash) PROVE Back(flash', accepted')
    BY <2>1, <2>8 DEF Pushback
  <2> QED BY <2>2, <2>3, <2>4, <2>5, <2>6, <2>7, <2>8 DEF Next
<1>3. Reads => ReadBack
  BY <1>0 DEF ReadBack
<1> QED BY <1>1, <1>2, <1>3, TypeCorrect, NoHolesAlways, PTL DEF Spec
=============================================================================
