------------------------------ MODULE FlashLog ------------------------------
(***************************************************************************)
(* The measurement log of flash_storage/flashstorage.cpp: a flat array of  *)
(* fixed-size records in the flash data area, found and extended only by   *)
(* scanning for the first slot that reads as erased.                       *)
(*                                                                         *)
(* Addresses are offsets from flashstorage_log_baseaddress(), which is     *)
(* page aligned (flashstorage_initialise).  A cell is the unit the flash   *)
(* programs.  The firmware runs one main loop and no interrupt handler     *)
(* touches flash, so an operation is one step; what can cut it short is a  *)
(* loss of power, and the *PowerLoss actions stop it after any number of   *)
(* cells or pages.                                                         *)
(***************************************************************************)
EXTENDS Integers, Sequences, Subsequences

CONSTANTS
  PageSize,   \* cells in a flash page (pagesize)
  RecSize,    \* cells in a log record (sizeof(log_data_t))
  AreaSize,   \* cells of the log area; need not be a whole number of pages
  Pages,      \* pages that hold at least one cell of the log area
  Recs,       \* measurement records
  Erased,     \* what an erased cell reads as (0xff)
  Foreign     \* what programmed flash beyond the data area reads as

Cells == 0 .. (Pages + 1) * PageSize - 1   \* the area, and the flash after it
Area  == 0 .. AreaSize - 1

\* The k-th cell of measurement record r: never 0xff in every cell.
RecCells == Recs \X (0 .. RecSize - 1)
Data_OneCellLate(r) == [k \in 0 .. RecSize - 1 |-> <<r, k + 1>>]
Data(r)  == [k \in 0 .. RecSize - 1 |-> <<r, k>>]

ASSUME FlashAssumption ==
  /\ PageSize \in Nat /\ RecSize \in Nat \ {0} /\ RecSize <= PageSize
  /\ Pages \in Nat \ {0}
  /\ AreaSize \in Nat /\ RecSize <= AreaSize
  /\ AreaSize <= Pages * PageSize /\ (Pages - 1) * PageSize < AreaSize
  /\ Erased # Foreign /\ Erased \notin RecCells /\ Foreign \notin RecCells
  /\ Erased \notin Recs

VARIABLES
  flash,      \* contents of the cells
  log_pause,  \* the RAM flag of the same name
  accepted,   \* history: records stored since the log was last cleared
  intact      \* history: no power loss has cut a clear short since the last full one

vars == <<flash, log_pause, accepted, intact>>

-----------------------------------------------------------------------------
(* Programming and erasing a page *)

PageOf(a)  == a - (a % PageSize)
InPage(p)  == p .. p + PageSize - 1

\* flashstorage_writepage: program the page image in order, stopping at the
\* first cell that does not read back.  A cell that is not erased keeps its
\* value, so it stops the loop unless the image already agrees with it.
Verifies(c, p, img, n) == \A k \in 0 .. n - 1 : c[p + k] \in {Erased, img[k]}

WritePage(c, p, img, cut) ==
  [a \in Cells |->
     IF /\ a \in InPage(p) /\ a - p < cut
        /\ c[a] = Erased /\ Verifies(c, p, img, a - p)
     THEN img[a - p] ELSE c[a]]

ErasePage(c, p) == [a \in Cells |-> IF a \in InPage(p) THEN Erased ELSE c[a]]

-----------------------------------------------------------------------------
(* Scanning for the end of the log *)

Slots == { s \in 0 .. AreaSize - 1 : s % RecSize = 0 }   \* offsets n of the scan
SlotEmpty(c, s) == \A j \in 0 .. RecSize - 1 : c[s + j] = Erased

log_size(c) ==
  IF \E s \in Slots : SlotEmpty(c, s)
  THEN CHOOSE s \in Slots :
         SlotEmpty(c, s) /\ \A t \in Slots : t < s => ~ SlotEmpty(c, t)
  ELSE AreaSize

log_isfull(c) == log_size(c) = AreaSize

-----------------------------------------------------------------------------
(* flashstorage_log_pushback *)

Rejects_IfFull(c) == log_size(c) + RecSize > AreaSize   \* paused or not

Rejects(c) == log_pause \/ log_size(c) + RecSize > AreaSize

\* Offset in the record at which the page that follows takes over.
HeadSize(base) ==
  LET room == PageSize - (base % PageSize)
  IN  IF base % PageSize = 0 THEN 0 ELSE IF RecSize < room THEN RecSize ELSE room

\* The page image started from 0xff, without reading the page first.
HeadImage_Blank(c, base, data) ==
  [k \in 0 .. PageSize - 1 |->
     IF PageOf(base) + k - base \in 0 .. HeadSize(base) - 1
     THEN data[PageOf(base) + k - base] ELSE Erased]

\* "Write data segment covering current page": the page as read, patched.
HeadImage(c, base, data) ==
  LET p == PageOf(base) IN
  [k \in 0 .. PageSize - 1 |->
     IF p + k - base \in 0 .. HeadSize(base) - 1
     THEN data[p + k - base] ELSE c[p + k]]

\* The rest of the page programmed to something else than 0xff.
TailImage_Padded(base, data) ==
  [k \in 0 .. PageSize - 1 |->
     IF HeadSize(base) + k < RecSize THEN data[HeadSize(base) + k] ELSE Foreign]

\* "Write full pages until all data is written": the rest, padded with 0xff.
TailImage(base, data) ==
  [k \in 0 .. PageSize - 1 |->
     IF HeadSize(base) + k < RecSize THEN data[HeadSize(base) + k] ELSE Erased]

TailPage(base) == IF HeadSize(base) = 0 THEN base ELSE PageOf(base) + PageSize

\* The flash after the two page writes, of which the first stops after h
\* cells and the second after t; PageSize means it runs to its end.
Pushed(c, data, h, t) ==
  LET base   == log_size(c)
      headed == IF HeadSize(base) = 0 THEN c
                ELSE WritePage(c, PageOf(base), HeadImage(c, base, data), h)
  IN  IF HeadSize(base) = RecSize THEN headed
      ELSE WritePage(headed, TailPage(base), TailImage(base, data), t)

Holds(c, s, r) == \A k \in 0 .. RecSize - 1 : c[s + k] = <<r, k>>

\* A measurement stored by Controller::do_logging.  The caller ignores the
\* result, so a refused record is dropped.
Pushback(r) ==
  /\ IF Rejects(flash) THEN UNCHANGED <<flash, accepted>>
     ELSE /\ flash' = Pushed(flash, Data(r), PageSize, PageSize)
          /\ accepted' = Append(accepted, r)
  /\ UNCHANGED <<log_pause, intact>>

\* Power is lost while the record is being programmed.
PushbackPowerLoss(r) ==
  /\ ~ Rejects(flash)
  /\ \E h, t \in 0 .. PageSize :
       /\ t > 0 => h = PageSize
       /\ flash' = Pushed(flash, Data(r), h, t)
  /\ accepted' = IF Holds(flash', log_size(flash), r) THEN Append(accepted, r)
                 ELSE accepted
  /\ log_pause' = FALSE
  /\ UNCHANGED intact

\* flashstorage_log_userchange: the marker is a record of 0xff bytes.
log_userchange ==
  /\ flash' = IF Rejects(flash) THEN flash
              ELSE Pushed(flash, [k \in 0 .. RecSize - 1 |-> Erased],
                          PageSize, PageSize)
  /\ UNCHANGED <<log_pause, accepted, intact>>

-----------------------------------------------------------------------------
(* Clearing, pausing, restarting *)

\* The last page of the area left out when the area does not fill it.
ClearedPages_Whole(n) ==
  { p \in 0 .. AreaSize - PageSize : p % PageSize = 0 /\ p < n * PageSize }

\* The pages the loop of flashstorage_log_clear visits, the first n of them.
ClearedPages(n) ==
  { p \in 0 .. AreaSize - 1 : p % PageSize = 0 /\ p < n * PageSize }

Cleared(c, n) ==
  [a \in Cells |-> IF \E p \in ClearedPages(n) : a \in InPage(p)
                   THEN ErasePage(c, PageOf(a))[a] ELSE c[a]]

log_clear ==
  /\ flash' = Cleared(flash, Pages)
  /\ accepted' = <<>> /\ intact' = TRUE
  /\ UNCHANGED log_pause

ClearPowerLoss ==
  /\ \E n \in 0 .. Pages - 1 : flash' = Cleared(flash, n)
  /\ intact' = FALSE /\ log_pause' = FALSE
  /\ UNCHANGED accepted

log_pause_cmd  == log_pause' = TRUE  /\ UNCHANGED <<flash, accepted, intact>>
log_resume_cmd == log_pause' = FALSE /\ UNCHANGED <<flash, accepted, intact>>

\* Any reset: standby between measurements, reset button, flat battery.
Restart == log_pause' = FALSE /\ UNCHANGED <<flash, accepted, intact>>

-----------------------------------------------------------------------------
\* The log area ships erased; the image goes on right after the data area.
Init ==
  /\ flash \in { f \in [Cells -> {Erased, Foreign}] : \A a \in Area : f[a] = Erased }
  /\ log_pause = FALSE
  /\ accepted = <<>>
  /\ intact = TRUE

Next ==
  \/ \E r \in Recs : Pushback(r) \/ PushbackPowerLoss(r)
  \/ log_userchange
  \/ log_clear \/ ClearPowerLoss
  \/ log_pause_cmd \/ log_resume_cmd \/ Restart

Spec == Init /\ [][Next]_vars

-----------------------------------------------------------------------------
(* Properties *)

TypeOK ==
  /\ flash \in [Cells -> RecCells \cup {Erased, Foreign}]
  /\ log_pause \in BOOLEAN
  /\ accepted \in Seq(Recs)
  /\ intact \in BOOLEAN

\* log_read_block reads the slots below log_size and nothing else, so an
\* unused slot must never be followed by a used one, wherever power was lost
\* while records were being appended.
NoHoles ==
  intact => \A s, t \in Slots :
              s < t /\ t + RecSize <= AreaSize /\ SlotEmpty(flash, s)
                => SlotEmpty(flash, t)

\* What log_read_block and log_read_csv find, in slot order: every slot below
\* log_size, Erased standing for a record that a power loss cut short, which
\* they print like the others.  WholeRecs leaves those out.
NumSlots  == log_size(flash) \div RecSize
Slot(i)   == LET s == (i - 1) * RecSize IN
             IF \E r \in Recs : Holds(flash, s, r)
             THEN CHOOSE r \in Recs : Holds(flash, s, r) ELSE Erased
Visible   == [i \in 1 .. NumSlots |-> Slot(i)]
WholeRecs == Subsequence(Visible, {i \in 1 .. NumSlots : Visible[i] # Erased})

\* Every record that flashstorage_log_pushback stored since the last clear is
\* read back, whole, once, and in the order in which it was stored, also when
\* it straddles two pages, lies next to a torn record, or follows a "user
\* change" marker.  Torn records may lie between them, and are printed
\* (MeasurementLog says how many there can be); after a clear that was itself
\* cut short nothing is claimed until the next complete one.
ReadBack == intact => WholeRecs = accepted

\* Appending to the log, cut short or not, changes no cell outside the log
\* area, although the last page of the area may hold other flash contents.
AppendStaysInArea ==
  [][ ~ (log_clear \/ ClearPowerLoss)
        => \A a \in Cells \ Area : flash'[a] = flash[a] ]_vars

=============================================================================
