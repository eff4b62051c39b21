---------------------------- MODULE SerialProofs ----------------------------
(***************************************************************************)
(* Proofs about Serial for every number of slots, keys and values and for  *)
(* every size of the buffers: who pauses the log, that the settings page   *)
(* hides no key and implements the map of SettingsStore, and that the      *)
(* lines of a waiting host arrive.                                         *)
(***************************************************************************)
EXTENDS Serial, SequenceTheorems, TLAPS

\* Where keyval_set may return to.
Returns == {"loop", "reset", "pop", "json"}

\* Logging is paused only for a LOGPAUSE in force or while a transfer runs
\* (cmd_logpause, cmd_logresume, cmd_logxfer and cmd_logcsv).  The same holds
\* after keyval_set, which returns where it was called.
THEOREM PauseOwnedHolds == Spec => []PauseOwned
<1> DEFINE Inv == PauseOwned /\ then \in Returns
<1>1. Init => Inv
  BY DEF Init, PauseOwned, Returns
<1>2. Inv /\ [Next]_vars => Inv'
  <2> SUFFICES ASSUME Inv, [Next]_vars PROVE Inv'
    OBVIOUS
  <2> USE DEF PauseOwned, Returns, keys, logs, Answers, Silent
  <2>1. CASE usart_irq \/ Unheard \/ HostSettles
    BY <2>1 DEF usart_irq, Unheard, HostSettles
  <2>2. CASE ReadChunk \/ TakeByte \/ TakeLineEnd \/ ChunkDone \/ LineDone \/ LineDoneRaced
    BY <2>2 DEF ReadChunk, TakeByte, TakeLineEnd, ChunkDone, LineDone, LineDoneRaced
  <2>3. CASE Erase \/ Write \/ ClearDone \/ PanelClears \/ cmd_logclear
    BY <2>3 DEF Erase, Write, ClearDone, PanelClears, cmd_logclear, log_clear, MainCommand
  <2>4. CASE Other \/ Ignored \/ Asks \/ Answered \/ command_stack_pop \/ JsonSet \/ JsonDone
    BY <2>4 DEF Other, Ignored, Asks, Answered, command_stack_pop, JsonSet, JsonDone
  <2>5. CASE serial_setdevicetag_run \/ serial_setkeyval_run \/ JsonStores \/ PanelSaves
    BY <2>5 DEF serial_setdevicetag_run, serial_setkeyval_run, JsonStores, PanelSaves, keyval_set
  <2>6. CASE cmd_logpause \/ cmd_logresume
    BY <2>6 DEF cmd_logpause, cmd_logresume, MainCommand
  <2>7. CASE StartTransfer \/ log_read_block \/ EndTransfer
    BY <2>7 DEF StartTransfer, log_read_block, EndTransfer
  <2>8. CASE Restart
    BY <2>8 DEF Restart
  <2>9. CASE UNCHANGED vars
    BY <2>9 DEF vars
  <2> QED BY <2>1, <2>2, <2>3, <2>4, <2>5, <2>6, <2>7, <2>8, <2>9 DEF Next, MainLoop
<1> QED BY <1>1, <1>2, PTL DEF Spec

-----------------------------------------------------------------------------
(* The settings page *)

\* A page that hides no key: a slot with a key is before every erased one, and
\* no other slot has that key.
Finds(p) == \A s \in Slots : p[s].key \in Keys => KeyAddress(p, p[s].key) = {s}

LEMMA Before ==
  \A s \in Slots : s \in Nat /\ \A t \in 1 .. s : t \in Slots /\ t \in Nat /\ t <= s
  BY SettingsAssumption DEF Slots

\* The same without KeyAddress.
Clear(p, s) ==
  /\ \A t \in 1 .. s : p[t] # Erased
  /\ \A t \in Slots : p[t].key = p[s].key => t = s

LEMMA FindsMeans ==
  ASSUME NEW p
  PROVE  Finds(p) <=> \A s \in Slots : p[s].key \in Keys => Clear(p, s)
<1> USE SettingsAssumption DEF Slots, Clear, Finds, KeyAddress, Used
<1>1. ASSUME Finds(p), NEW s \in Slots, p[s].key \in Keys
      PROVE  Clear(p, s)
  <2>1. s \in KeyAddress(p, p[s].key)
    BY <1>1
  <2>2. ASSUME NEW t \in Slots, p[t].key = p[s].key
        PROVE  t = s
    <3>1. KeyAddress(p, p[s].key) = {s} /\ KeyAddress(p, p[t].key) = {t}
      BY <1>1, <2>2
    <3>2. {s} = {t}
      BY <2>2, <3>1, Zenon
    <3> QED BY <3>2, Zenon
  <2> QED BY <2>1, <2>2
<1>2. ASSUME NEW s \in Slots, p[s].key \in Keys, Clear(p, s)
      PROVE  KeyAddress(p, p[s].key) = {s}
  <2>1. s \in KeyAddress(p, p[s].key)
    BY <1>2
  <2>2. \A t \in KeyAddress(p, p[s].key) : t = s
    BY <1>2
  <2> QED BY <2>1, <2>2, Zenon
<1> QED BY <1>1, <1>2

\* All keys fit the 50 bytes there are for them.
KeysFit == \A k \in Keys : Stored[k] = k

LEMMA PageDataType ==
  ASSUME NEW p \in Page, NEW k \in Keys, NEW v \in Values \cup {Torn}
  PROVE  PageData(p, k, v) \in Page
  BY SettingsAssumption DEF PageData, Page, Slot, SlotWritten

\* keyval_set: the new page hides no key if the old one does not.
LEMMA PageDataFinds ==
  ASSUME KeysFit, NEW p \in Page, Finds(p), NEW k \in Keys, NEW v \in Values \cup {Torn}
  PROVE  PageData(p, k, v) \in Page /\ Finds(PageData(p, k, v))
<1> USE DEF KeysFit
<1> DEFINE q == PageData(p, k, v)
<1>1. \A s \in Slots : p[s].key \in Keys => Clear(p, s)
  BY FindsMeans
<1>2. q \in Page
  BY PageDataType
<1>3. \A s \in Slots : q[s].key \in Keys => Clear(q, s)
  <2>1. CASE KeyAddress(p, k) # {}
    <3>1. PICK a \in Slots : SetAddress(p, k) = {a} /\ p[a].key = k
      <4>1. PICK a \in KeyAddress(p, k) : TRUE
        BY <2>1
      <4>2. a \in Slots /\ p[a].key = k
        BY DEF KeyAddress, Used
      <4> QED BY <2>1, <4>2 DEF SetAddress, Finds
    <3>2. \A s \in Slots : q[s].key = p[s].key /\ (q[s] = Erased <=> p[s] = Erased)
      BY <3>1, SettingsAssumption DEF PageData, SlotWritten, Erased, Page, Slot
    <3> HIDE DEF q
    <3> QED BY <1>1, <3>2, Before DEF Clear
  <2>2. CASE KeyAddress(p, k) = {}
    <3>1. \A s \in Slots : p[s].key # k
      BY <2>2 DEF Finds
    <3>2. CASE FreeAddress(p) = {}
      BY <1>1, <2>2, <3>2 DEF PageData, SetAddress, Page, Clear
    <3>3. ASSUME NEW a \in FreeAddress(p)
          PROVE  \A s \in Slots : q[s].key \in Keys => Clear(q, s)
      <4>1. a \in Slots /\ p[a] = Erased /\ \A t \in 1 .. a - 1 : p[t] # Erased
        BY DEF FreeAddress
      <4>2. \A b \in FreeAddress(p) : b = a
        BY <4>1 DEF FreeAddress, Slots
      <4>3. SetAddress(p, k) = {a}
        BY <2>2, <4>2 DEF SetAddress
      <4>4. /\ q[a].key = k /\ q[a] # Erased
            /\ \A s \in Slots : s # a => q[s] = p[s]
        BY <4>1, <4>3, SettingsAssumption DEF PageData, SlotWritten, Erased
      <4> HIDE DEF q
      <4>5. ASSUME NEW s \in Slots, q[s].key \in Keys
            PROVE  Clear(q, s)
        <5>1. CASE s = a
          <6>1. \A t \in 1 .. a : q[t] # Erased
            BY <4>1, <4>4, Before
          <6>2. \A t \in Slots : q[t].key = k => t = a
            BY <3>1, <4>4
          <6> QED BY <4>4, <5>1, <6>1, <6>2 DEF Clear
        <5>2. CASE s # a
          <6>1. Clear(p, s)
            BY <1>1, <4>4, <4>5, <5>2
          <6>2. \A t \in 1 .. s : q[t] # Erased
            BY <4>4, <6>1, Before DEF Clear
          <6>3. q[s].key # k
            BY <3>1, <4>4, <5>2
          <6>4. \A t \in Slots : q[t].key = q[s].key => t = s
            BY <4>4, <5>2, <6>1, <6>3 DEF Clear
          <6> QED BY <6>2, <6>4 DEF Clear
        <5> QED BY <5>1, <5>2
      <4> QED BY <4>5
    <3> QED BY <3>2, <3>3
  <2> QED BY <2>1, <2>2
<1> QED BY <1>2, <1>3, FindsMeans

LEMMA PageCutsType ==
  ASSUME NEW p \in Page, NEW cut \in PageCuts(p)
  PROVE  cut \in Page
<1> DEFINE Cut(n, c) == [s \in Slots |-> IF s < n THEN p[s] ELSE IF s = n THEN c ELSE Erased]
<1>1. PICK n \in Slots : \E c \in SlotCut(p[n]) : cut = Cut(n, c)
  BY DEF PageCuts
<1>2. PICK c \in SlotCut(p[n]) : cut = Cut(n, c)
  BY <1>1
<1>3. c \in Slot
  BY <1>2 DEF SlotCut, Slot, Erased, Page
<1> QED BY <1>2, <1>3 DEF Page, Slot

\* writepage cut by a power loss: what is left hides no key if the image does not.
LEMMA PageCutsFind ==
  ASSUME NEW p \in Page, Finds(p), NEW cut \in PageCuts(p)
  PROVE  cut \in Page /\ Finds(cut)
<1>1. \A s \in Slots : p[s].key \in Keys => Clear(p, s)
  BY FindsMeans
<1> DEFINE Cut(n, c) == [s \in Slots |-> IF s < n THEN p[s] ELSE IF s = n THEN c ELSE Erased]
<1>2. PICK n \in Slots : \E c \in SlotCut(p[n]) : cut = Cut(n, c)
  BY DEF PageCuts
<1>3. PICK c \in SlotCut(p[n]) : cut = Cut(n, c)
  BY <1>2
<1>4. p[n] \in Slot
  BY DEF Page
<1>5. /\ c \in Slot
      /\ c = Erased \/ c.key = Torn \/ (c.key = p[n].key /\ p[n] # Erased /\ c # Erased)
  BY <1>3, <1>4 DEF SlotCut, Slot, Erased
<1>6. cut \in Page
  BY PageCutsType
<1>7. ASSUME NEW s \in Slots, cut[s].key \in Keys
      PROVE  Clear(cut, s)
  <2>1. /\ \A t \in Slots : t < n => cut[t] = p[t]
        /\ \A t \in Slots : t > n => cut[t] = Erased
        /\ cut[n] = c
    BY <1>3 DEF Slots
  <2>2. Erased.key \notin Keys /\ Torn \notin Keys
    BY SettingsAssumption DEF Erased
  <2>3. s <= n /\ p[s].key = cut[s].key /\ cut[s] # Erased
    BY <1>5, <1>7, <2>1, <2>2 DEF Slots
  <2>4. Clear(p, s)
    BY <1>1, <1>7, <2>3
  <2>5. \A t \in 1 .. s : cut[t] # Erased
    <3>1. ASSUME NEW t \in 1 .. s
          PROVE  cut[t] # Erased
      <4>1. t \in Slots /\ (t < n \/ t = s)
        BY <2>3, Before
      <4> QED BY <2>1, <2>3, <2>4, <4>1 DEF Clear
    <3> QED BY <3>1
  <2>6. \A t \in Slots : cut[t].key = cut[s].key => p[t].key = cut[s].key
    BY <1>5, <1>7, <2>1, <2>2 DEF Slots
  <2> QED BY <2>3, <2>4, <2>5, <2>6 DEF Clear
<1> QED BY <1>6, <1>7, FindsMeans

LEMMA ErasedPageFinds == ErasedPage \in Page /\ Finds(ErasedPage)
  BY SettingsAssumption DEF ErasedPage, Page, Slot, Finds, Erased

PageTypes == page \in Page /\ pagedata \in Page
PageInv   == PageTypes /\ Finds(page) /\ Finds(pagedata)

\* The actions that set a key.
LEMMA SetsKey ==
  ASSUME serial_setdevicetag_run \/ serial_setkeyval_run \/ JsonStores \/ PanelSaves
  PROVE  \E k \in Keys, v \in Values \cup {Torn}, return \in Returns : keyval_set(k, v, return)
<1>1. CASE serial_setdevicetag_run
  BY <1>1, SerialAssumption DEF serial_setdevicetag_run, Returns
<1>2. CASE serial_setkeyval_run
  BY <1>2 DEF serial_setkeyval_run, Returns
<1>3. CASE JsonStores
  BY <1>3, SerialAssumption DEF JsonStores, Returns
<1>4. CASE PanelSaves
  BY <1>4, SerialAssumption DEF PanelSaves, Returns
<1> QED BY <1>1, <1>2, <1>3, <1>4

\* What a step may do to the page and its copy.
LEMMA PagesAfter ==
  ASSUME [Next]_vars
  PROVE  \/ UNCHANGED <<page, pagedata>>
         \/ page' = page /\ \E k \in Keys, v \in Values \cup {Torn} : pagedata' = PageData(page, k, v)
         \/ page' = ErasedPage /\ pagedata' \in {pagedata, ErasedPage}
         \/ page' = pagedata /\ pagedata' = ErasedPage
         \/ page' \in {page} \cup PageCuts(pagedata) /\ pagedata' = ErasedPage
<1>1. ASSUME NEW k \in Keys, NEW v \in Values \cup {Torn}, NEW return, keyval_set(k, v, return)
      PROVE  page' = page /\ (pagedata' = pagedata \/ pagedata' = PageData(page, k, v))
  BY <1>1 DEF keyval_set, keys
<1>2. CASE serial_setdevicetag_run \/ serial_setkeyval_run \/ JsonStores \/ PanelSaves
  BY <1>1, <1>2, SetsKey
<1>3. CASE Erase \/ Write \/ Restart
  BY <1>3 DEF Erase, Write, Restart
<1> QED BY <1>2, <1>3
        DEF Next, MainLoop, vars, keys, usart_irq, Unheard, HostSettles,
            ReadChunk, TakeByte, TakeLineEnd, ChunkDone, LineDone, LineDoneRaced, Other, Ignored,
            Asks, Answered, command_stack_pop, JsonSet, JsonDone, cmd_logpause, cmd_logresume,
            StartTransfer, log_read_block, EndTransfer, PanelClears, cmd_logclear, log_clear,
            ClearDone

LEMMA PageTypesStep == PageTypes /\ [Next]_vars => PageTypes'
  BY PagesAfter, PageDataType, PageCutsType, ErasedPageFinds DEF PageTypes

LEMMA PageStep == KeysFit => (PageInv /\ [Next]_vars => PageInv')
<1> SUFFICES ASSUME KeysFit, PageInv, [Next]_vars PROVE PageInv'
  OBVIOUS
<1>1. \A k \in Keys, v \in Values \cup {Torn} :
        PageData(page, k, v) \in Page /\ Finds(PageData(page, k, v))
  BY PageDataFinds DEF PageInv, PageTypes
<1>2. \A cut \in PageCuts(pagedata) : cut \in Page /\ Finds(cut)
  BY PageCutsFind DEF PageInv, PageTypes
<1>3. page' \in Page /\ pagedata' \in Page
  BY PageTypesStep DEF PageInv, PageTypes
<1>4. Finds(page')
  BY <1>2, PagesAfter, ErasedPageFinds DEF PageInv
<1>5. Finds(pagedata')
  BY <1>1, PagesAfter, ErasedPageFinds DEF PageInv
<1> QED BY <1>3, <1>4, <1>5 DEF PageInv, PageTypes, Finds

\* If all keys fit, every setting in the page is the one keyval_get finds:
\* through sets, the rewriting of the page and losses of power
\* (flashstorage_keyval_set).
THEOREM FindsEveryKeyHolds == ASSUME KeysFit PROVE Spec => []FindsEveryKey
<1>1. Init => PageInv
  BY ErasedPageFinds DEF Init, PageInv, PageTypes
<1>2. PageInv => FindsEveryKey
  BY DEF PageInv, Finds, FindsEveryKey
<1>3. PageInv /\ [Next]_vars => PageInv'
  BY PageStep
<1> QED BY <1>1, <1>2, <1>3, PTL DEF Spec

-----------------------------------------------------------------------------
(* The map the page implements *)

\* keyval_get finds the one slot with the key.
LEMMA GetMeans ==
  ASSUME NEW p \in Page, Finds(p), NEW k \in Keys
  PROVE  /\ \A s \in Slots : p[s].key = k => keyval_get(p, k) = p[s].val
         /\ (\A s \in Slots : p[s].key # k) => keyval_get(p, k) = NoValue
<1>1. ASSUME NEW s \in Slots, p[s].key = k
      PROVE  keyval_get(p, k) = p[s].val
  <2>1. KeyAddress(p, k) = {s}
    BY <1>1 DEF Finds
  <2>2. (CHOOSE t \in KeyAddress(p, k) : TRUE) = s
    BY <2>1
  <2> QED BY <2>1, <2>2, Zenon DEF keyval_get
<1>2. ASSUME \A s \in Slots : p[s].key # k
      PROVE  keyval_get(p, k) = NoValue
  <2>1. KeyAddress(p, k) = {}
    BY <1>2 DEF KeyAddress, Used
  <2> QED BY <2>1 DEF keyval_get
<1> QED BY <1>1, <1>2

\* Setting a key changes that key only.
LEMMA GetSet ==
  ASSUME KeysFit, NEW p \in Page, Finds(p), NEW k \in Keys, NEW v \in Values \cup {Torn},
         SetAddress(p, k) # {}
  PROVE  \E w \in Values \cup {Torn} : \A j \in Keys :
           keyval_get(PageData(p, k, v), j) = IF j = k THEN w ELSE keyval_get(p, j)
<1> DEFINE q == PageData(p, k, v)
<1>1. q \in Page /\ Finds(q)
  BY PageDataFinds
<1>2. PICK a \in Slots : /\ SetAddress(p, k) = {a}
                         /\ p[a].key \in {k, NoValue}
  <2>1. CASE KeyAddress(p, k) # {}
    <3>1. PICK a \in KeyAddress(p, k) : TRUE
      BY <2>1
    <3>2. a \in Slots /\ p[a].key = k
      BY DEF KeyAddress, Used
    <3> QED BY <2>1, <3>2 DEF SetAddress, Finds
  <2>2. CASE KeyAddress(p, k) = {}
    <3>1. PICK a \in FreeAddress(p) : TRUE
      BY <2>2 DEF SetAddress
    <3>2. a \in Slots /\ p[a].key = NoValue /\ p[a] = Erased /\ \A t \in 1 .. a - 1 : p[t] # Erased
      BY DEF FreeAddress, Erased
    <3>3. FreeAddress(p) = {a}
      BY <3>1, <3>2 DEF FreeAddress, Slots
    <3> QED BY <2>2, <3>2, <3>3 DEF SetAddress
  <2> QED BY <2>1, <2>2
<1>3. PICK w \in Values \cup {Torn} : w = SlotWritten(a, k, v).val
  BY SettingsAssumption DEF SlotWritten
<1>4. /\ q[a].key = k /\ q[a].val = w
      /\ \A s \in Slots : s # a => q[s] = p[s]
  BY <1>2, <1>3 DEF PageData, SlotWritten, KeysFit
<1> HIDE DEF q
<1>5. keyval_get(q, k) = w
  BY <1>1, <1>4, GetMeans
<1>6. ASSUME NEW j \in Keys, j # k
      PROVE  keyval_get(q, j) = keyval_get(p, j)
  <2>1. p[a].key # j
    BY <1>2, <1>6, SettingsAssumption
  <2>2. CASE \E s \in Slots : p[s].key = j
    <3>1. PICK s \in Slots : p[s].key = j
      BY <2>2
    <3>2. q[s] = p[s]
      BY <1>4, <2>1, <3>1
    <3> QED BY <1>1, <3>1, <3>2, GetMeans
  <2>3. CASE \A s \in Slots : p[s].key # j
    <3>1. \A s \in Slots : q[s].key # j
      BY <1>4, <1>6, <2>3
    <3> QED BY <1>1, <2>3, <3>1, GetMeans
  <2> QED BY <2>2, <2>3
<1> QED BY <1>5, <1>6 DEF q

\* A page cut while it is written holds some of the settings of its image, and
\* at most one of them torn.
LEMMA GetCut ==
  ASSUME NEW p \in Page, Finds(p), NEW cut \in PageCuts(p)
  PROVE  \E t \in Keys : \A k \in Keys :
           keyval_get(cut, k) \in {keyval_get(p, k), NoValue}
             \cup IF k = t /\ keyval_get(p, k) # NoValue THEN {Torn} ELSE {}
<1> DEFINE Cut(n, c) == [s \in Slots |-> IF s < n THEN p[s] ELSE IF s = n THEN c ELSE Erased]
<1>1. PICK n \in Slots : \E c \in SlotCut(p[n]) : cut = Cut(n, c)
  BY DEF PageCuts
<1>2. PICK c \in SlotCut(p[n]) : cut = Cut(n, c)
  BY <1>1
<1>3. p[n] \in Slot
  BY DEF Page
<1>4. c.key \in Keys => /\ c.key = p[n].key /\ c.val \in {p[n].val, Torn}
                        /\ p[n].val # NoValue
  BY <1>2, <1>3, SettingsAssumption DEF SlotCut, Slot, Erased
<1>5. /\ \A s \in Slots : s < n => cut[s] = p[s]
      /\ \A s \in Slots : s > n => cut[s] = Erased
      /\ cut[n] = c
  BY <1>2 DEF Slots
<1>6. cut \in Page /\ Finds(cut)
  BY PageCutsFind
<1>7. ASSUME NEW k \in Keys
      PROVE  keyval_get(cut, k) \in {keyval_get(p, k), NoValue}
               \cup IF k = c.key /\ keyval_get(p, k) # NoValue THEN {Torn} ELSE {}
  <2>1. CASE \A s \in Slots : cut[s].key # k
    BY <1>6, <2>1, GetMeans
  <2>2. ASSUME NEW s \in Slots, cut[s].key = k
        PROVE  keyval_get(cut, k) \in {keyval_get(p, k), NoValue}
                 \cup IF k = c.key /\ keyval_get(p, k) # NoValue THEN {Torn} ELSE {}
    <3>1. keyval_get(cut, k) = cut[s].val
      BY <1>6, <2>2, GetMeans
    <3>2. s < n \/ s = n
      BY <1>5, <2>2, SettingsAssumption DEF Slots, Erased
    <3>3. CASE s < n
      BY <1>5, <2>2, <3>1, <3>3, GetMeans
    <3>4. CASE s = n
      <4>1. c.key = k /\ p[n].key = k /\ c.val \in {p[n].val, Torn} /\ p[n].val # NoValue
        BY <1>4, <1>5, <2>2, <3>4
      <4>2. keyval_get(p, k) = p[n].val
        BY <4>1, GetMeans
      <4> QED BY <1>5, <3>1, <3>4, <4>1, <4>2
    <3> QED BY <3>2, <3>3, <3>4
  <2> QED BY <2>1, <2>2
<1>8. CASE c.key \in Keys
  BY <1>7, <1>8
<1>9. CASE c.key \notin Keys
  BY <1>7, <1>9, SerialAssumption
<1> QED BY <1>8, <1>9

LEMMA GetType ==
  ASSUME NEW p \in Page, Finds(p), NEW k \in Keys
  PROVE  keyval_get(p, k) \in Values \cup {NoValue, Torn}
<1>1. \A s \in Slots : p[s].val \in Values \cup {NoValue, Torn}
  BY DEF Page, Slot, Erased
<1> QED BY <1>1, GetMeans

-----------------------------------------------------------------------------
(* The refinement *)

\* While the page is erased, the page to come is the old one with one key set.
SetInv ==
  /\ then \in Returns
  /\ at = "erase" => \E k \in Keys, v \in Values \cup {Torn} :
                       SetAddress(page, k) # {} /\ pagedata = PageData(page, k, v)

LEMMA SetStep == SetInv /\ [Next]_vars => SetInv'
<1> SUFFICES ASSUME SetInv, [Next]_vars PROVE SetInv'
  OBVIOUS
<1> USE DEF SetInv, Returns, keys, logs, Answers, Silent
<1>1. CASE usart_irq \/ Unheard \/ HostSettles
  BY <1>1 DEF usart_irq, Unheard, HostSettles
<1>2. CASE ReadChunk \/ TakeByte \/ TakeLineEnd \/ ChunkDone \/ LineDone \/ LineDoneRaced
  BY <1>2 DEF ReadChunk, TakeByte, TakeLineEnd, ChunkDone, LineDone, LineDoneRaced
<1>3. CASE Erase \/ Write \/ Restart
  BY <1>3 DEF Erase, Write, Restart
<1>4. CASE Other \/ Ignored \/ Asks \/ Answered \/ command_stack_pop \/ JsonSet \/ JsonDone
  BY <1>4 DEF Other, Ignored, Asks, Answered, command_stack_pop, JsonSet, JsonDone
<1>c. CASE PanelClears \/ cmd_logclear \/ ClearDone
  BY <1>c DEF PanelClears, cmd_logclear, log_clear, ClearDone
<1>5. ASSUME NEW k \in Keys, NEW v \in Values \cup {Torn}, NEW return \in Returns,
             keyval_set(k, v, return)
      PROVE  SetInv'
  <2>1. CASE SetAddress(page, k) = {}
    BY <1>5, <2>1 DEF keyval_set
  <2>2. CASE SetAddress(page, k) # {}
    BY <1>5, <2>2 DEF keyval_set
  <2> QED BY <2>1, <2>2
<1>6. CASE serial_setdevicetag_run \/ serial_setkeyval_run \/ JsonStores \/ PanelSaves
  <2>1. \E k \in Keys, v \in Values \cup {Torn}, return \in Returns : keyval_set(k, v, return)
    BY <1>6, SetsKey
  <2> QED BY <1>5, <2>1
<1>7. CASE cmd_logpause \/ cmd_logresume \/ StartTransfer \/ log_read_block \/ EndTransfer
  BY <1>7 DEF cmd_logpause, cmd_logresume, MainCommand, StartTransfer, log_read_block, EndTransfer
<1>8. CASE UNCHANGED vars
  BY <1>8 DEF vars
<1> QED BY <1>1, <1>2, <1>3, <1>4, <1>c, <1>6, <1>7, <1>8 DEF Next, MainLoop

\* The page that holds the settings, and the map it stands for.
Holds == IF at = "write" THEN pagedata ELSE page
Map(p) == [k \in Keys |-> keyval_get(p, k)]

LEMMA MapErased == Map(ErasedPage) = [k \in Keys |-> NoValue]
<1>1. \A k \in Keys : \A s \in Slots : ErasedPage[s].key # k
  BY SettingsAssumption DEF ErasedPage, Erased
<1>2. \A k \in Keys : keyval_get(ErasedPage, k) = NoValue
  BY <1>1, ErasedPageFinds, GetMeans
<1> QED BY <1>2 DEF Map

\* What is left of a page is some of its settings, at most one more torn.
LEMMA MapCut ==
  ASSUME NEW p \in Page, Finds(p), NEW cut,
         cut \in {p, ErasedPage} \cup PageCuts(p)
  PROVE  Map(cut) \in Store!Remains(Map(p))
<1> DEFINE Left(t, k) == {keyval_get(p, k), NoValue}
                           \cup IF k = t /\ keyval_get(p, k) # NoValue THEN {Torn} ELSE {}
<1>1. cut \in Page /\ Finds(cut)
  BY ErasedPageFinds, PageCutsFind
<1>2. Map(cut) \in [Keys -> Values \cup {NoValue, Torn}]
  BY <1>1, GetType DEF Map
<1>3. \E t \in Keys : \A k \in Keys : keyval_get(cut, k) \in Left(t, k)
  <2>1. CASE cut \in PageCuts(p)
    BY <2>1, GetCut
  <2>2. CASE cut = p
    BY <2>2, SerialAssumption
  <2>3. CASE cut = ErasedPage
    <3>1. \A k \in Keys : keyval_get(cut, k) = NoValue
      BY <2>3, MapErased DEF Map
    <3> QED BY <3>1, SerialAssumption
  <2> QED BY <2>1, <2>2, <2>3
<1>4. \E t \in Keys : \A k \in Keys :
        Map(cut)[k] \in {Map(p)[k], NoValue}
                          \cup IF k = t /\ Map(p)[k] # NoValue THEN {Torn} ELSE {}
  BY <1>3 DEF Map
<1> QED BY <1>2, <1>4 DEF Store!Remains

\* One key set is one step of the map.
LEMMA MapSet ==
  ASSUME KeysFit, NEW p \in Page, Finds(p), NEW k \in Keys, NEW v \in Values \cup {Torn},
         SetAddress(p, k) # {}
  PROVE  \E w \in Values \cup {Torn} : Map(PageData(p, k, v)) = [Map(p) EXCEPT ![k] = w]
<1>1. PICK w \in Values \cup {Torn} : \A j \in Keys :
        keyval_get(PageData(p, k, v), j) = IF j = k THEN w ELSE keyval_get(p, j)
  BY GetSet
<1> DEFINE q == PageData(p, k, v)
<1> HIDE DEF q
<1>2. Map(q) = [Map(p) EXCEPT ![k] = w]
  BY <1>1 DEF Map, q
<1> QED BY <1>2 DEF q

\* A step of the device is a step of the map, or leaves it alone.
LEMMA StoreStep == KeysFit => (PageInv /\ SetInv /\ [Next]_vars => [Store!Next]_(Store!vars))
<1> SUFFICES ASSUME KeysFit, PageInv, SetInv, [Next]_vars
             PROVE  Store!Next \/ UNCHANGED Store!vars
  OBVIOUS
<1> DEFINE open == at \in {"erase", "write"}
<1>1. ASSUME Holds' = Holds, open' = open
      PROVE  UNCHANGED Store!vars
  BY <1>1 DEF Store!vars, Holds
<1>2. ASSUME Holds' = Holds, ~ open, open'
      PROVE  Store!Begin
  BY <1>2 DEF Store!Begin, Holds
<1>3. ASSUME Holds' = Holds, open, ~ open'
      PROVE  Store!End
  BY <1>3 DEF Store!End, Holds
<1>4. CASE usart_irq \/ Unheard \/ HostSettles
  BY <1>1, <1>4 DEF usart_irq, Unheard, HostSettles, keys, Holds
<1>5. CASE ReadChunk \/ TakeByte \/ TakeLineEnd \/ ChunkDone \/ LineDone \/ LineDoneRaced
  BY <1>1, <1>5 DEF ReadChunk, TakeByte, TakeLineEnd, ChunkDone, LineDone, LineDoneRaced,
                    keys, Holds
<1>6. CASE Other \/ Ignored \/ Asks \/ Answered \/ command_stack_pop \/ JsonSet \/ JsonDone
  BY <1>1, <1>6 DEF Other, Ignored, Asks, Answered, command_stack_pop, JsonSet, JsonDone, Answers,
                    Silent, keys, Holds
<1>c. CASE PanelClears \/ cmd_logclear \/ ClearDone
  <2>1. page' = page /\ ~ open /\ ~ open'
    BY <1>c DEF PanelClears, cmd_logclear, MainCommand, log_clear, ClearDone, SetInv, Returns
  <2> QED BY <1>1, <2>1 DEF Holds
<1>7. CASE cmd_logpause \/ cmd_logresume \/ StartTransfer \/ log_read_block \/ EndTransfer
  <2>1. page' = page /\ ~ open /\ ~ open'
    BY <1>7 DEF cmd_logpause, cmd_logresume, MainCommand, StartTransfer, log_read_block,
                EndTransfer, Answers, keys
  <2> QED BY <1>1, <2>1 DEF Holds
<1>8. CASE serial_setdevicetag_run \/ serial_setkeyval_run \/ JsonStores \/ PanelSaves
  <2>1. ~ open
    BY <1>8 DEF serial_setdevicetag_run, serial_setkeyval_run, JsonStores, PanelSaves
  <2>2. \E k \in Keys, v \in Values \cup {Torn}, return \in Returns : keyval_set(k, v, return)
    BY <1>8, SetsKey
  <2>3. page' = page /\ (at' \in Returns \cup {"fault"} \/ at' = "erase")
    BY <2>2 DEF keyval_set, keys
  <2>4. Holds' = Holds
    BY <2>1, <2>3 DEF Holds, Returns
  <2> QED BY <1>1, <1>2, <2>1, <2>4 DEF Store!Next
<1>9. CASE Erase
  <2>1. at = "erase" /\ at' = "write" /\ pagedata' = pagedata
    BY <1>9 DEF Erase
  <2>2. PICK k \in Keys, v \in Values \cup {Torn} :
          SetAddress(page, k) # {} /\ pagedata = PageData(page, k, v)
    BY <2>1 DEF SetInv
  <2>3. PICK w \in Values \cup {Torn} : Map(pagedata) = [Map(page) EXCEPT ![k] = w]
    BY <2>2, MapSet DEF PageInv, PageTypes
  <2>4. Store!Commit(k, w)
    BY <2>1, <2>3 DEF Store!Commit, Map
  <2> QED BY <2>4 DEF Store!Next
<1>10. CASE Write
  <2>1. at = "write" /\ at' \in Returns \cup {"fault"} /\ page' = pagedata
    BY <1>10 DEF Write, SetInv
  <2> QED BY <1>3, <2>1 DEF Store!Next, Holds, Returns
<1>11. CASE Restart
  <2>1. /\ at' = "loop"
        /\ at = "erase" => page' \in {page, ErasedPage}
        /\ at = "write" => page' \in PageCuts(pagedata)
        /\ ~ open => page' = page
    BY <1>11 DEF Restart
  <2>2. CASE ~ open
    BY <1>1, <2>1, <2>2 DEF Holds
  <2>3. CASE open
    <3>1. Map(page)' \in Store!Remains(Map(Holds))
      BY <2>1, <2>3, MapCut DEF PageInv, PageTypes, Holds, Map
    <3>2. Store!Cut
      BY <2>1, <2>3, <3>1 DEF Store!Cut, Holds, Map
    <3> QED BY <3>2 DEF Store!Next
  <2> QED BY <2>2, <2>3
<1>12. CASE UNCHANGED vars
  BY <1>1, <1>12 DEF vars, keys, Holds
<1> QED BY <1>4, <1>5, <1>6, <1>c, <1>7, <1>8, <1>9, <1>10, <1>11, <1>12 DEF Next, MainLoop

\* If all keys fit, the settings page implements the map of SettingsStore: setting a key changes
\* that key only, and a power loss within loses settings but invents none
\* (flashstorage_keyval_set, flashstorage_keyval_get).
THEOREM ImplementsStoreHolds == ASSUME KeysFit PROVE Spec => ImplementsStore
<1>1. Init => Store!Init
  BY MapErased DEF Init, Store!Init, Map
<1>2. Init => PageInv /\ SetInv
  BY ErasedPageFinds DEF Init, PageInv, PageTypes, SetInv, Returns
<1>3. /\ PageInv /\ [Next]_vars => PageInv'
      /\ PageInv /\ SetInv /\ [Next]_vars => [Store!Next]_(Store!vars)
  BY PageStep, StoreStep
<1> QED BY <1>1, <1>2, <1>3, SetStep, PTL DEF Spec, ImplementsStore, Store!Spec

-----------------------------------------------------------------------------
(* Type correctness *)

LEMMA TailFacts ==
  ASSUME NEW S, NEW q \in Seq(S), q # <<>>
  PROVE  /\ Tail(q) \in Seq(S) /\ Len(Tail(q)) = Len(q) - 1 /\ Len(q) \in Nat \ {0}
         /\ \A i \in 1 .. Len(q) - 1 : Tail(q)[i] = q[i + 1]
         /\ Head(q) = q[1]
  OBVIOUS

LEMMA AppendFacts ==
  ASSUME NEW S, NEW q \in Seq(S), NEW b \in S
  PROVE  /\ Append(q, b) \in Seq(S) /\ Append(q, b) # <<>>
         /\ Len(Append(q, b)) = Len(q) + 1 /\ Len(q) \in Nat
         /\ Append(q, b)[Len(q) + 1] = b
         /\ \A i \in 1 .. Len(q) : Append(q, b)[i] = q[i]
  OBVIOUS

LEMMA NoBytes == <<>> \in Seq(Bytes) /\ Len(<<>>) <= RxSize
<1>1. <<>> \in Seq(Bytes)
  OBVIOUS
<1>2. Len(<<>>) = 0
  OBVIOUS
<1> QED BY <1>1, <1>2, SerialAssumption

\* The ring keeps to its size.
LEMMA PushType ==
  ASSUME NEW ring \in Seq(Bytes), Len(ring) <= RxSize, NEW b \in Bytes
  PROVE  PushInsert(ring, b) \in Seq(Bytes) /\ Len(PushInsert(ring, b)) <= RxSize
<1> DEFINE longer == Append(ring, b)
<1>1. longer \in Seq(Bytes) /\ Len(longer) = Len(ring) + 1 /\ longer # <<>> /\ Len(ring) \in Nat
  BY AppendFacts
<1> HIDE DEF longer
<1>2. Tail(longer) \in Seq(Bytes) /\ Len(Tail(longer)) = Len(ring)
  BY <1>1, TailFacts
<1> QED BY <1>1, <1>2, SerialAssumption DEF PushInsert, longer

LEMMA Single ==
  ASSUME NEW S, NEW q \in Seq(S), NEW b, Len(q) = 1, q[1] = b
  PROVE  q = <<b>>
  OBVIOUS

LEMMA Pair ==
  ASSUME NEW S, NEW b \in S, NEW c \in S
  PROVE  /\ Append(<<b>>, c) = <<b, c>>
         /\ SubSeq(<<b, c>>, 1, Len(<<b, c>>) - 1) = <<b>>
<1>1. <<b>> \in Seq(S)
  OBVIOUS
<1>2. <<b, c>> \in Seq(S)
  OBVIOUS
<1>3. Append(<<b>>, c) = <<b, c>>
  <2>1. Append(<<b>>, c) \in Seq(S)
    BY <1>1
  <2>2. Len(Append(<<b>>, c)) = 2 /\ Len(<<b, c>>) = 2
    BY <1>1
  <2>3. \A i \in 1 .. 2 : Append(<<b>>, c)[i] = <<b, c>>[i]
    OBVIOUS
  <2> QED BY <1>2, <2>1, <2>2, <2>3, SeqEqual
<1>4. SubSeq(<<b, c>>, 1, Len(<<b, c>>) - 1) = <<b>>
  <2> DEFINE q == <<b, c>>
  <2>1. Len(q) = 2 /\ q[1] = b /\ q \in Seq(S)
    BY <1>2
  <2> HIDE DEF q
  <2>2. SubSeq(q, 1, 1) \in Seq(S) /\ Len(SubSeq(q, 1, 1)) = 1 /\ SubSeq(q, 1, 1)[1] = b
    BY <2>1
  <2>3. SubSeq(q, 1, 1) = <<b>>
    BY <2>2, Single
  <2> QED BY <2>1, <2>3 DEF q
<1> QED BY <1>3, <1>4

\* The function on top of the stack tells which stack it is.
TopOf(s) == s[Len(s)]

LEMMA StackFacts ==
  /\ <<"main">> \in Stacks /\ TopOf(<<"main">>) = "main"
  /\ \A c \in Parts : Append(<<"main">>, c) \in Stacks
  /\ \A s \in Stacks : TopOf(s) = "main" => s = <<"main">>
  /\ \A s \in Stacks : TopOf(s) # "main" => SubSeq(s, 1, Len(s) - 1) = <<"main">>
<1> DEFINE Functions == {"main"} \cup Parts
<1>1. "main" \in Functions /\ \A c \in Parts : c \in Functions
  OBVIOUS
<1>2. ASSUME NEW c \in Parts
      PROVE  /\ Append(<<"main">>, c) = <<"main", c>>
             /\ SubSeq(<<"main", c>>, 1, Len(<<"main", c>>) - 1) = <<"main">>
             /\ TopOf(<<"main", c>>) # "main"
  <2>1. TopOf(<<"main", c>>) = c
    BY DEF TopOf
  <2>2. c # "main"
    BY DEF Parts
  <2> HIDE DEF Functions
  <2> QED BY <1>1, <2>1, <2>2, Pair
<1>3. TopOf(<<"main">>) = "main"
  BY DEF TopOf
<1>4. \A s \in Stacks : s = <<"main">> \/ \E c \in Parts : s = <<"main", c>>
  BY DEF Stacks
<1>5. <<"main">> \in Stacks /\ \A c \in Parts : <<"main", c>> \in Stacks
  BY DEF Stacks
<1> QED BY <1>2, <1>3, <1>4, <1>5, Zenon

\* TypeOK, with what keeps the bottom of the stack from being popped: only
\* SETDEVICETAG stores a key and pops afterwards.
TypeInv ==
  /\ TypeOK
  /\ at = "pop" \/ (at \in {"erase", "write"} /\ then = "pop") => Top = "setdevicetag"
  /\ at = "clear" => then # "pop"

\* Storing a key comes back to where it says.
LEMMA KeyvalType ==
  ASSUME TypeInv, NEW k \in Keys, NEW v \in Values \cup {Torn}, NEW return \in Returns,
         keyval_set(k, v, return), UNCHANGED <<line, host, logs, command_stack>>,
         owing' \in Owing, jsonset' \subseteq Keys,
         return = "pop" => Top = "setdevicetag", at \in {"loop", "line", "json"}, PageTypes'
  PROVE  TypeInv'
<1> USE DEF TypeInv, TypeOK, Returns, logs, line, host
<1>1. /\ rx' = rx \/ rx' = <<>>
      /\ at' \in {"erase", return, "fault"} /\ then' \in {then, return}
      /\ at' = "erase" => then' = return
  BY DEF keyval_set, usart_disable, keys
<1>2. rx' \in Seq(Bytes) /\ Len(rx') <= RxSize
  BY <1>1, SerialAssumption, NoBytes
<1>3. /\ at' = "pop" \/ (at' \in {"erase", "write"} /\ then' = "pop") => Top' = "setdevicetag"
      /\ at' # "clear"
  BY <1>1 DEF Top
<1>4. overrun' \in BOOLEAN
  BY DEF keyval_set, Overruns, keys
<1>5. excused' \in BOOLEAN
  BY DEF keyval_set, usart_disable
<1>6. at' \in {"loop", "chunk", "line", "reset", "pop", "json", "erase", "write", "clear", "xfer",
               "fault"} /\ then' \in {"loop", "reset", "pop", "json"}
  BY <1>1
<1> QED BY <1>2, <1>3, <1>4, <1>5, <1>6 DEF PageTypes

LEMMA HostType ==
  ASSUME TypeOK, NEW b \in Bytes, HostTypes(b)
  PROVE  /\ typed' \in 0 .. RxSize /\ sent' \in 0 .. RxSize
         /\ owing' \in Owing
<1>1. RxSize \in Nat \ {0} /\ typed \in 0 .. RxSize /\ sent \in 0 .. RxSize
  BY SerialAssumption DEF TypeOK
<1>2. typed' \in 0 .. RxSize /\ sent' \in 0 .. RxSize
  BY <1>1 DEF HostTypes
<1>3. owing' \in Owing
  BY DEF HostTypes, Owing, TypeOK
<1> QED BY <1>2, <1>3

LEMMA TypeStep == TypeInv /\ [Next]_vars => TypeInv'
<1> SUFFICES ASSUME TypeInv, [Next]_vars PROVE TypeInv'
  OBVIOUS
<1>p. page' \in Page /\ pagedata' \in Page
  BY PageTypesStep DEF TypeInv, TypeOK, PageTypes
<1>s. RxSize \in Nat \ {0} /\ LineSize \in Nat
  BY SerialAssumption
<1>o. "nothing" \in Owing /\ "silence" \in Owing
  BY DEF Owing
<1> USE DEF TypeInv, TypeOK, line, port, keys, logs, host, Answers, Silent, Top
<1>1. CASE usart_irq
  <2>1. PICK b \in Bytes : HostTypes(b) /\ rx' = PushInsert(rx, b)
    BY <1>1 DEF usart_irq
  <2>2. /\ typed' \in 0 .. RxSize /\ sent' \in 0 .. RxSize
        /\ owing' \in Owing
    BY <2>1, HostType
  <2>3. excused' \in BOOLEAN
    BY <1>1 DEF usart_irq
  <2>4. rx' \in Seq(Bytes) /\ Len(rx') <= RxSize
    BY <2>1, PushType
  <2>5. UNCHANGED <<line, keys, jsonset, logs, at, command_stack>>
    BY <1>1 DEF usart_irq
  <2> QED BY <1>p, <2>2, <2>3, <2>4, <2>5
<1>2. CASE Unheard
  <2>1. PICK b \in Bytes : HostTypes(b)
    BY <1>2 DEF Unheard
  <2>2. /\ typed' \in 0 .. RxSize /\ sent' \in 0 .. RxSize
        /\ owing' \in Owing
    BY <2>1, HostType
  <2>3. excused' \in BOOLEAN /\ UNCHANGED <<rx, line, keys, jsonset, logs, at, command_stack>>
    BY <1>2 DEF Unheard
  <2> QED BY <1>p, <2>2, <2>3
<1>3. CASE HostSettles
  <2>1. /\ UNCHANGED <<rx, line, keys, jsonset, logs, at, command_stack>>
        /\ typed' = 0 /\ sent' = 0 /\ owing' \in Owing /\ excused' \in BOOLEAN
    BY <1>3, <1>o DEF HostSettles
  <2> QED BY <1>p, <1>s, <2>1
<1>4. CASE ReadChunk
  <2>1. rx' \in Seq(Bytes) /\ Len(rx') <= RxSize /\ chunk' \in Seq(Bytes)
    BY <1>4, NoBytes DEF ReadChunk
  <2> QED BY <1>4, <1>p, <2>1 DEF ReadChunk
<1>5. CASE TakeByte \/ TakeLineEnd
  <2>1. chunk' \in Seq(Bytes) /\ currentline_position' \in 0 .. LineSize
    <3>1. chunk # <<>> /\ chunk' = Tail(chunk)
      BY <1>5 DEF TakeByte, TakeLineEnd
    <3>2. chunk' \in Seq(Bytes)
      BY <3>1, TailFacts
    <3>3. currentline_position' \in {0, currentline_position}
            \cup (IF currentline_position + 1 <= LineSize THEN {currentline_position + 1} ELSE {})
      BY <1>5, <1>s DEF TakeByte, TakeLineEnd, Overflows
    <3> QED BY <3>2, <3>3, <1>s
  <2> QED BY <1>5, <1>p, <2>1 DEF TakeByte, TakeLineEnd
<1>6. CASE ChunkDone
  BY <1>6, <1>p DEF ChunkDone
<1>7. CASE LineDone
  <2>1. rx' \in Seq(Bytes) /\ Len(rx') <= RxSize
    BY <1>7, NoBytes DEF LineDone
  <2>2. /\ UNCHANGED <<chunk, host, excused, owing, keys, jsonset, logs, command_stack>>
        /\ at' = "chunk" /\ currentline_position' = 0
    BY <1>7 DEF LineDone
  <2> QED BY <1>p, <1>s, <2>1, <2>2
<1>8. CASE LineDoneRaced
  <2>1. PICK b \in Bytes : HostTypes(b) /\ rx' = PushInsert(rx, b)
    BY <1>8 DEF LineDoneRaced
  <2>2. /\ typed' \in 0 .. RxSize /\ sent' \in 0 .. RxSize
        /\ owing' \in Owing
    BY <2>1, HostType
  <2>3. rx' \in Seq(Bytes) /\ Len(rx') <= RxSize
    BY <2>1, PushType
  <2>4. /\ UNCHANGED <<chunk, keys, jsonset, logs, command_stack>> /\ currentline_position' = 0
        /\ excused' \in BOOLEAN /\ at' = "chunk"
    BY <1>8 DEF LineDoneRaced
  <2> QED BY <1>p, <1>s, <2>2, <2>3, <2>4
<1>9. CASE Erase \/ Write
  BY <1>9, <1>p DEF Erase, Write
<1>c. CASE PanelClears \/ cmd_logclear
  <2>1. rx' \in Seq(Bytes) /\ Len(rx') <= RxSize
    BY <1>c, NoBytes DEF PanelClears, cmd_logclear, log_clear, usart_disable
  <2>2. /\ UNCHANGED <<page, pagedata, overrun, line, host, owing, jsonset, logs, command_stack>>
        /\ at' = "clear" /\ then' \in {"loop", "reset"}
    BY <1>c DEF PanelClears, cmd_logclear, log_clear
  <2>3. excused' \in BOOLEAN
    BY <1>c DEF PanelClears, cmd_logclear, log_clear, usart_disable
  <2> QED BY <2>1, <2>2, <2>3
<1>d. CASE ClearDone
  <2>1. /\ UNCHANGED <<page, pagedata, overrun, port, jsonset, logs, command_stack>>
        /\ at' = then /\ then # "pop" /\ then' = "loop" /\ owing' \in Owing
    BY <1>d, <1>o DEF ClearDone
  <2> QED BY <2>1
<1>10. CASE Other \/ Ignored \/ JsonDone
  BY <1>10, <1>p, <1>o DEF Other, Ignored, JsonDone
<1>j. CASE JsonSet
  <2>1. jsonset' \subseteq Keys
    BY <1>j, SerialAssumption DEF JsonSet
  <2> QED BY <1>j, <1>p, <2>1 DEF JsonSet
<1>11. CASE Asks
  <2>1. command_stack' \in Stacks
    BY <1>11, StackFacts DEF Asks, TopOf
  <2> QED BY <1>11, <1>p, <1>o, <2>1 DEF Asks
<1>12. CASE Answered \/ command_stack_pop
  <2>1. Top # "main"
    BY <1>12 DEF Answered, command_stack_pop
  <2>2. command_stack' \in Stacks
    BY <1>12, <2>1, StackFacts DEF Answered, command_stack_pop, TopOf
  <2> QED BY <1>12, <1>p, <1>o, <2>2 DEF Answered, command_stack_pop
<1>13. CASE serial_setdevicetag_run
  <2>1. PICK v \in Values \cup {Torn} : keyval_set(DeviceTag, v, "pop")
    BY <1>13 DEF serial_setdevicetag_run
  <2>2. /\ UNCHANGED <<line, host, owing, jsonset, logs, command_stack>>
        /\ at = "line" /\ Top = "setdevicetag" /\ DeviceTag \in Keys
    BY <1>13, SerialAssumption DEF serial_setdevicetag_run
  <2> QED BY <1>p, <2>1, <2>2, KeyvalType DEF Returns, PageTypes
<1>14. CASE serial_setkeyval_run
  <2>1. PICK k \in Keys, v \in Values : keyval_set(k, v, "reset")
    BY <1>14 DEF serial_setkeyval_run
  <2>2. UNCHANGED <<line, host, jsonset, logs, command_stack>> /\ at = "line" /\ owing' \in Owing
    BY <1>14, <1>o DEF serial_setkeyval_run
  <2> QED BY <1>p, <2>1, <2>2, KeyvalType DEF Returns, PageTypes
<1>k. CASE JsonStores
  <2>1. PICK k \in Keys, v \in Values : keyval_set(k, v, "json") /\ jsonset' = jsonset \ {k}
    BY <1>k, SerialAssumption DEF JsonStores
  <2>2. UNCHANGED <<line, host, owing, logs, command_stack>> /\ at = "json"
    BY <1>k DEF JsonStores
  <2>3. jsonset' \subseteq Keys
    BY <2>1
  <2> QED BY <1>p, <2>1, <2>2, <2>3, KeyvalType DEF Returns, PageTypes
<1>l. CASE PanelSaves
  <2>1. PICK k \in Keys, v \in Values : keyval_set(k, v, "loop")
    BY <1>l, SerialAssumption DEF PanelSaves
  <2>2. UNCHANGED <<line, host, owing, jsonset, logs, command_stack>> /\ at = "loop"
    BY <1>l DEF PanelSaves
  <2> QED BY <1>p, <2>1, <2>2, KeyvalType DEF Returns, PageTypes
<1>15. CASE cmd_logpause \/ cmd_logresume
  BY <1>15, <1>p, <1>o DEF cmd_logpause, cmd_logresume, MainCommand
<1>16. CASE StartTransfer \/ log_read_block \/ EndTransfer
  BY <1>16, <1>p, <1>o DEF StartTransfer, MainCommand, log_read_block, EndTransfer
<1>17. CASE Restart
  <2>1. rx' \in Seq(Bytes) /\ Len(rx') <= RxSize /\ chunk' \in Seq(Bytes)
    BY <1>17, NoBytes DEF Restart
  <2>2. command_stack' \in Stacks
    BY <1>17, StackFacts DEF Restart
  <2>3. /\ currentline_position' = 0 /\ at' = "loop" /\ then' = "loop"
        /\ log_pause' \in BOOLEAN /\ asked' \in BOOLEAN /\ overrun' \in BOOLEAN /\ jsonset' = {}
        /\ typed' = 0 /\ sent' = 0 /\ owing' \in Owing /\ excused' \in BOOLEAN
    BY <1>17, <1>o DEF Restart
  <2> QED BY <1>p, <1>s, <2>1, <2>2, <2>3
<1>18. CASE UNCHANGED vars
  BY <1>18, <1>p DEF vars
<1> QED BY <1>1, <1>2, <1>3, <1>4, <1>5, <1>6, <1>7, <1>8, <1>9, <1>c, <1>d, <1>10, <1>j, <1>11,
           <1>12, <1>13, <1>14, <1>k, <1>l, <1>15, <1>16, <1>17, <1>18 DEF Next, MainLoop

\* The variables keep their types: no sequence of commands, whatever they ask
\* and store, nests more than two deep or pops the bottom of the stack
\* (serial_process_command, command_stack_pop).
THEOREM TypeCorrect == Spec => []TypeOK
<1>1. Init => TypeInv
  <2> SUFFICES ASSUME Init PROVE TypeInv
    OBVIOUS
  <2>1. rx \in Seq(Bytes) /\ Len(rx) <= RxSize /\ chunk \in Seq(Bytes)
    BY NoBytes DEF Init
  <2>2. command_stack \in Stacks
    BY StackFacts DEF Init
  <2>3. /\ currentline_position = 0 /\ at = "loop" /\ then = "loop"
        /\ log_pause \in BOOLEAN /\ asked \in BOOLEAN /\ overrun \in BOOLEAN /\ jsonset = {}
        /\ typed = 0 /\ sent = 0 /\ owing \in Owing /\ excused \in BOOLEAN
        /\ page = ErasedPage /\ pagedata = ErasedPage
    BY DEF Init, Owing
  <2> QED BY <2>1, <2>2, <2>3, ErasedPageFinds, SerialAssumption DEF TypeInv, TypeOK
<1>2. TypeInv => TypeOK
  BY DEF TypeInv
<1> QED BY <1>1, <1>2, TypeStep, PTL DEF Spec

-----------------------------------------------------------------------------
(* Lines of a patient host *)

\* Bytes of a line under way; a line with its end.
Chars(q) == \A i \in 1 .. Len(q) : q[i] = "char"
Line(q)  == q # <<>> /\ q[Len(q)] = "eol" /\ \A i \in 1 .. Len(q) - 1 : q[i] = "char"

\* No command is being carried out.
Between == at \in {"loop", "chunk"} \/ (at \in {"erase", "write", "clear"} /\ then = "loop")

\* Where the bytes of the host's line are: while it is typed, once its end was
\* sent, and when it is processed.
Typing ==
  /\ Chars(chunk) /\ Chars(rx)
  /\ currentline_position + Len(chunk) + Len(rx) = typed

Coming ==
  /\ typed = 0
  /\ (Chars(chunk) /\ Line(rx)) \/ (Line(chunk) /\ rx = <<>>)
  /\ currentline_position + Len(chunk) + Len(rx) = sent + 1

Processed ==
  /\ typed = 0 /\ chunk = <<>> /\ rx = <<>>
  /\ owing = "nothing" => at = "reset"
  /\ at = "reset" \/ (at \in {"erase", "write"} /\ then = "reset") => owing # "answer"
  /\ at = "line" => currentline_position = sent

LineInv ==
  /\ Between /\ at # "chunk" => chunk = <<>>
  /\ at = "clear" => then \in {"loop", "reset"}
  /\ ~ excused /\ at # "fault" =>
       IF Between THEN IF owing = "answer" THEN Coming ELSE Typing ELSE Processed

LEMMA NoneLeft == Chars(<<>>) /\ Len(<<>>) = 0
  BY DEF Chars

\* What the interrupt does to the ring.
LEMMA PushedLine ==
  ASSUME NEW q \in Seq(Bytes), Chars(q), Len(q) < RxSize
  PROVE  /\ Chars(PushInsert(q, "char")) /\ Len(PushInsert(q, "char")) = Len(q) + 1
         /\ Line(PushInsert(q, "eol")) /\ Len(PushInsert(q, "eol")) = Len(q) + 1
<1>1. "char" \in Bytes /\ "eol" \in Bytes
  BY DEF Bytes
<1>2. ASSUME NEW b \in Bytes
      PROVE  /\ PushInsert(q, b) # <<>> /\ Len(PushInsert(q, b)) = Len(q) + 1 /\ Len(q) \in Nat
             /\ PushInsert(q, b)[Len(q) + 1] = b
             /\ \A i \in 1 .. Len(q) : PushInsert(q, b)[i] = q[i]
  BY AppendFacts DEF PushInsert
<1> QED BY <1>1, <1>2 DEF Chars, Line

\* What a byte leaves.
LEMMA TailLine ==
  ASSUME NEW q \in Seq(Bytes), q # <<>>
  PROVE  /\ Tail(q) \in Seq(Bytes) /\ Len(Tail(q)) = Len(q) - 1 /\ Len(q) \in Nat \ {0}
         /\ Chars(q) => Head(q) = "char" /\ Chars(Tail(q))
         /\ Line(q) /\ Head(q) = "char" => Line(Tail(q)) /\ Len(q) > 1
         /\ Line(q) /\ Head(q) = "eol" => Tail(q) = <<>> /\ Len(q) = 1
<1> DEFINE t == Tail(q)
<1>1. /\ t \in Seq(Bytes) /\ Len(t) = Len(q) - 1 /\ Len(q) \in Nat \ {0}
      /\ \A i \in 1 .. Len(q) - 1 : t[i] = q[i + 1]
      /\ Head(q) = q[1]
  BY TailFacts
<1> HIDE DEF t
<1>2. Len(t) = 0 => t = <<>>
  BY <1>1
<1>3. Len(t) # 0 => t # <<>>
  OBVIOUS
<1>4. Chars(q) => Head(q) = "char" /\ Chars(t)
  BY <1>1 DEF Chars
<1>5. ASSUME Line(q), Head(q) = "char"
      PROVE  Line(t) /\ Len(q) > 1
  BY <1>1, <1>3, <1>5 DEF Line
<1>6. ASSUME Line(q), Head(q) = "eol"
      PROVE  t = <<>> /\ Len(q) = 1
  BY <1>1, <1>2, <1>6 DEF Line
<1> QED BY <1>1, <1>4, <1>5, <1>6 DEF t

LEMMA LineStep == TypeOK /\ LineInv /\ [Next]_vars => LineInv'
<1> SUFFICES ASSUME TypeOK, LineInv, [Next]_vars PROVE LineInv'
  OBVIOUS
<1>s. /\ RxSize \in Nat \ {0} /\ LineSize \in Nat /\ RxSize <= LineSize
      /\ rx \in Seq(Bytes) /\ Len(rx) \in Nat /\ Len(rx) <= RxSize
      /\ chunk \in Seq(Bytes) /\ Len(chunk) \in Nat
      /\ currentline_position \in Nat /\ typed \in 0 .. RxSize /\ sent \in 0 .. RxSize
      /\ then \in {"loop", "reset", "pop", "json"}
      /\ owing \in Owing /\ excused \in BOOLEAN
  BY SerialAssumption DEF TypeOK
<1> USE DEF line, port, keys, logs, host
<1>1. CASE usart_irq
  <2> SUFFICES ASSUME ~ excused' PROVE LineInv'
    BY <1>1 DEF usart_irq, LineInv, Between
  <2>1. PICK b \in Bytes : HostTypes(b) /\ rx' = PushInsert(rx, b)
    BY <1>1 DEF usart_irq
  <2>2. /\ ~ excused /\ owing = "nothing" /\ typed < RxSize /\ at \notin {"fault", "reset"}
        /\ ~ PortOff
        /\ UNCHANGED <<chunk, currentline_position, at, then>>
    BY <1>1 DEF usart_irq, Patient
  <2>3. Between /\ Typing
    BY <2>2 DEF LineInv, Processed
  <2>4. Len(rx) < RxSize
    BY <1>s, <2>2, <2>3 DEF Typing
  <2>5. /\ Chars(PushInsert(rx, "char")) /\ Len(PushInsert(rx, "char")) = Len(rx) + 1
        /\ Line(PushInsert(rx, "eol")) /\ Len(PushInsert(rx, "eol")) = Len(rx) + 1
    BY <1>s, <2>3, <2>4, PushedLine DEF Typing
  <2>6. CASE b = "eol"
    <3>1. owing' = "answer" /\ typed' = 0 /\ sent' = typed
      BY <2>1, <2>6 DEF HostTypes
    <3>2. Line(rx') /\ Len(rx') = Len(rx) + 1 /\ Chars(chunk')
      BY <2>1, <2>2, <2>3, <2>5, <2>6 DEF Typing
    <3>3. currentline_position' + Len(chunk') + Len(rx') = sent' + 1
      BY <1>s, <2>2, <2>3, <3>1, <3>2 DEF Typing
    <3>4. Coming'
      BY <3>1, <3>2, <3>3 DEF Coming
    <3> QED BY <2>2, <2>3, <3>1, <3>4 DEF LineInv, Between
  <2>7. CASE b = "char"
    <3>1. owing' = "nothing" /\ typed' = typed + 1
      BY <2>1, <2>2, <2>7, <1>s DEF HostTypes
    <3>2. Chars(rx') /\ Len(rx') = Len(rx) + 1 /\ Chars(chunk')
      BY <2>1, <2>2, <2>3, <2>5, <2>7 DEF Typing
    <3>3. Typing'
      BY <1>s, <2>2, <2>3, <3>1, <3>2 DEF Typing
    <3> QED BY <2>2, <2>3, <3>1, <3>3 DEF LineInv, Between
  <2> QED BY <2>6, <2>7 DEF Bytes
<1>2. CASE Unheard
  BY <1>2 DEF Unheard, LineInv, Between
<1>3. CASE HostSettles
  <2>1. Chars(chunk) /\ Chars(rx) /\ Len(chunk) = 0 /\ Len(rx) = 0
    BY <1>3, NoneLeft DEF HostSettles, LineInv, Between
  <2> QED BY <1>3, <2>1 DEF HostSettles, LineInv, Between, Typing, Chars
<1>4. CASE ReadChunk
  <2>1. chunk = <<>> /\ chunk' = rx /\ rx' = <<>> /\ at' = "chunk"
        /\ UNCHANGED <<currentline_position, host, excused, owing>> /\ at = "loop"
    BY <1>4 DEF ReadChunk, LineInv, Between
  <2>2. ~ Line(chunk) /\ Len(chunk) = 0 /\ Len(rx') = 0 /\ Chars(rx')
    BY <2>1, NoneLeft DEF Line
  <2>3. Typing => Typing'
    BY <1>s, <2>1, <2>2 DEF Typing, Chars
  <2>4. Coming => Coming'
    BY <1>s, <2>1, <2>2 DEF Coming, Line
  <2> QED BY <2>1, <2>3, <2>4 DEF LineInv, Between
<1>5. CASE TakeByte
  <2>1. /\ at = "chunk" /\ chunk # <<>> /\ Head(chunk) = "char" /\ chunk' = Tail(chunk)
        /\ UNCHANGED <<rx, host, excused, owing, at, then>>
        /\ currentline_position' =
             IF currentline_position + 1 > LineSize THEN 0 ELSE currentline_position + 1
    BY <1>5 DEF TakeByte, Overflows
  <2>t. /\ Len(chunk') = Len(chunk) - 1 /\ Len(chunk) \in Nat \ {0}
        /\ Chars(chunk) => Chars(chunk')
        /\ Line(chunk) => Line(chunk') /\ Len(chunk) > 1
        /\ UNCHANGED <<rx, typed, sent>>
    BY <1>s, <2>1, TailLine
  <2>2. Typing => Typing'
    <3> SUFFICES ASSUME Typing PROVE Typing'
      OBVIOUS
    <3>1. currentline_position' = currentline_position + 1
      BY <1>s, <2>1, <2>t DEF Typing
    <3> QED BY <1>s, <2>t, <3>1 DEF Typing
  <2>3. Coming => Coming'
    <3> SUFFICES ASSUME Coming PROVE Coming'
      OBVIOUS
    <3>1. CASE Chars(chunk) /\ Line(rx)
      <4>1. Len(rx) >= 1
        BY <1>s, <3>1 DEF Line
      <4>2. currentline_position' = currentline_position + 1
        BY <1>s, <2>1, <2>t, <4>1 DEF Coming
      <4> QED BY <1>s, <2>t, <3>1, <4>2 DEF Coming
    <3>2. CASE Line(chunk) /\ rx = <<>>
      <4>1. Len(rx) = 0
        BY <3>2, NoneLeft
      <4>2. currentline_position' = currentline_position + 1
        BY <1>s, <2>1, <2>t, <3>2, <4>1 DEF Coming
      <4> QED BY <1>s, <2>t, <3>2, <4>1, <4>2 DEF Coming
    <3> QED BY <3>1, <3>2 DEF Coming
  <2> QED BY <2>1, <2>2, <2>3 DEF LineInv, Between
<1>6. CASE TakeLineEnd
  <2>1. /\ at = "chunk" /\ chunk # <<>> /\ Head(chunk) = "eol" /\ chunk' = Tail(chunk)
        /\ UNCHANGED <<rx, currentline_position, host, excused, owing, then>> /\ at' = "line"
    BY <1>6 DEF TakeLineEnd
  <2>2. ~ Chars(chunk)
    BY <1>s, <2>1, TailLine
  <2> SUFFICES ASSUME ~ excused PROVE Processed'
    BY <2>1 DEF LineInv, Between
  <2>3. owing = "answer" /\ Coming /\ Line(chunk) /\ rx = <<>>
    BY <2>1, <2>2 DEF LineInv, Between, Typing, Coming
  <2>4. chunk' = <<>> /\ Len(chunk) = 1 /\ Len(rx) = 0
    BY <1>s, <2>1, <2>3, TailLine, NoneLeft
  <2> QED BY <1>s, <2>1, <2>3, <2>4 DEF Coming, Processed
<1>7. CASE ChunkDone
  BY <1>7 DEF ChunkDone, LineInv, Between, Typing, Coming
<1>8. CASE LineDone
  <2>1. /\ at = "reset" /\ at' = "chunk" /\ currentline_position' = 0 /\ rx' = <<>>
        /\ UNCHANGED <<chunk, host, excused, owing>>
    BY <1>8 DEF LineDone
  <2>2. ~ excused => chunk' = <<>> /\ typed' = 0 /\ owing # "answer"
    BY <2>1 DEF LineInv, Between, Processed
  <2>3. ~ excused => Typing'
    <3> SUFFICES ASSUME ~ excused PROVE Typing'
      OBVIOUS
    <3>1. Chars(chunk') /\ Chars(rx') /\ Len(chunk') = 0 /\ Len(rx') = 0
      BY <2>1, <2>2, NoneLeft
    <3> QED BY <2>1, <2>2, <3>1 DEF Typing, Chars
  <2> QED BY <2>1, <2>2, <2>3 DEF LineInv, Between
<1>9. CASE LineDoneRaced
  BY <1>9, <1>s DEF LineDoneRaced, LineInv, Between
<1>10. CASE Erase \/ Write \/ ClearDone
  <2>1. /\ at \in {"erase", "write", "clear"} /\ at' \in {"write", then, "fault"}
        /\ UNCHANGED port
        /\ at' = "write" => then' = then /\ at = "erase"
        /\ owing' = owing \/ (at = "clear" /\ then = "reset" /\ owing' = "nothing")
        /\ at = "clear" => at' = then
        /\ at = "clear" /\ then = "reset" => owing' = "nothing"
    BY <1>10, <1>s DEF Erase, Write, ClearDone, LineInv
  <2>2. CASE Between
    <3>1. UNCHANGED <<port, owing>> /\ chunk = <<>> /\ (Between' \/ at' = "fault")
      BY <2>1, <2>2 DEF LineInv, Between
    <3> QED BY <2>1, <2>2, <3>1 DEF LineInv, Between, Typing, Coming
  <2>3. CASE ~ Between
    <3>1. then # "loop" /\ (~ Between' \/ at' = "fault")
      BY <2>1, <2>3, <1>s DEF Between
    <3> QED BY <2>1, <2>3, <3>1, <1>s DEF LineInv, Between, Processed
  <2> QED BY <2>2, <2>3
<1>11. CASE Other \/ Ignored \/ Asks \/ Answered \/ command_stack_pop \/ cmd_logpause \/ cmd_logresume
            \/ JsonSet \/ JsonDone
  <2>1. /\ at \in {"line", "pop", "json"} /\ UNCHANGED <<port, then>>
        /\ (at' = "reset" /\ owing' # "answer") \/ (at' = "json" /\ owing' = owing)
    BY <1>11 DEF Other, Ignored, Asks, Answered, command_stack_pop, cmd_logpause, cmd_logresume,
                 JsonSet, JsonDone, Answers, Silent, MainCommand
  <2> QED BY <2>1 DEF LineInv, Between, Processed
<1>12. CASE StartTransfer \/ log_read_block \/ EndTransfer
  <2>1. /\ at \in {"line", "xfer"} /\ UNCHANGED <<port, then>>
        /\ (at' = "reset" /\ owing' # "answer") \/ (at' = "xfer" /\ owing' = owing)
    BY <1>12 DEF StartTransfer, log_read_block, EndTransfer, Answers, MainCommand
  <2> QED BY <2>1 DEF LineInv, Between, Processed
<1>13. CASE serial_setdevicetag_run \/ serial_setkeyval_run \/ JsonStores \/ cmd_logclear
  <2>1. CASE serial_setdevicetag_run \/ serial_setkeyval_run \/ JsonStores
    <3>1. PICK k \in Keys, v \in Values \cup {Torn}, return \in {"pop", "json", "reset"} :
            /\ keyval_set(k, v, return)
            /\ owing' = IF return = "reset" THEN "silence" ELSE owing
      BY <2>1, SerialAssumption DEF serial_setdevicetag_run, serial_setkeyval_run, JsonStores
    <3>2. at \in {"line", "json"} /\ UNCHANGED <<line, host>>
      BY <2>1 DEF serial_setdevicetag_run, serial_setkeyval_run, JsonStores
    <3>3. at' \in {return, "fault"} \/ (at' = "erase" /\ then' = return)
      BY <3>1 DEF keyval_set
    <3>4. rx' \in {rx, <<>>} /\ (excused => excused')
      BY <3>1, <1>s DEF keyval_set, usart_disable
    <3> QED BY <3>1, <3>2, <3>3, <3>4 DEF LineInv, Between, Processed
  <2>2. CASE cmd_logclear
    <3>1. /\ at = "line" /\ UNCHANGED <<line, host, owing>> /\ at' = "clear" /\ then' = "reset"
          /\ rx' = <<>> /\ (excused => excused')
      BY <2>2, <1>s DEF cmd_logclear, MainCommand, log_clear, usart_disable
    <3> QED BY <3>1 DEF LineInv, Between, Processed
  <2> QED BY <1>13, <2>1, <2>2
<1>14. CASE PanelSaves \/ PanelClears
  <2>1. CASE PanelSaves
    <3>1. PICK k \in Keys, v \in Values : keyval_set(k, v, "loop")
      BY <2>1, SerialAssumption DEF PanelSaves
    <3>2. at = "loop" /\ UNCHANGED <<line, host, owing>>
      BY <2>1 DEF PanelSaves
    <3>3. at' \in {"loop", "fault"} \/ (at' = "erase" /\ then' = "loop")
      BY <3>1 DEF keyval_set
    <3>4. ~ excused' => ~ excused /\ rx' = rx
      BY <3>1, <1>s DEF keyval_set, usart_disable
    <3> QED BY <3>2, <3>3, <3>4 DEF LineInv, Between, Typing, Coming
  <2>2. CASE PanelClears
    <3>1. at = "loop" /\ UNCHANGED <<line, host, owing>> /\ at' = "clear" /\ then' = "loop"
      BY <2>2 DEF PanelClears, log_clear
    <3>2. ~ excused' => ~ excused /\ rx' = rx
      BY <2>2, <1>s DEF PanelClears, log_clear, usart_disable
    <3> QED BY <3>1, <3>2 DEF LineInv, Between, Typing, Coming
  <2> QED BY <1>14, <2>1, <2>2
<1>15. CASE Restart
  <2>1. /\ rx' = <<>> /\ chunk' = <<>> /\ currentline_position' = 0 /\ typed' = 0
        /\ at' = "loop" /\ owing' = "nothing"
    BY <1>15 DEF Restart
  <2>2. Chars(chunk') /\ Chars(rx') /\ Len(chunk') = 0 /\ Len(rx') = 0
    BY <2>1, NoneLeft
  <2> QED BY <2>1, <2>2 DEF LineInv, Between, Typing, Chars
<1>16. CASE UNCHANGED vars
  BY <1>16 DEF vars, LineInv, Between, Typing, Coming, Processed
<1> QED BY <1>1, <1>2, <1>3, <1>4, <1>5, <1>6, <1>7, <1>8, <1>9, <1>10, <1>11, <1>12, <1>13,
           <1>14, <1>15, <1>16 DEF Next, MainLoop

\* The lines of a host that waits for its answers arrive as they were sent,
\* for every size of ring and line buffer, unless a setting is stored or the
\* log cleared from the panel meanwhile, or a byte comes between an answer and
\* usart_reset_rx (serial_eventloop).
THEOREM LinesArriveHolds == Spec => []LinesArrive
<1>1. Init => LineInv
  <2> SUFFICES ASSUME Init PROVE LineInv
    OBVIOUS
  <2>1. Chars(chunk) /\ Chars(rx) /\ Len(chunk) = 0 /\ Len(rx) = 0
    BY NoneLeft DEF Init
  <2>2. chunk = <<>> /\ currentline_position = 0 /\ typed = 0 /\ at = "loop" /\ owing = "nothing"
    BY DEF Init
  <2> QED BY <2>1, <2>2 DEF LineInv, Between, Typing
<1>2. LineInv => LinesArrive
  BY DEF LineInv, Between, Processed, LinesArrive
<1> QED BY <1>1, <1>2, LineStep, TypeCorrect, PTL DEF Spec
=============================================================================
