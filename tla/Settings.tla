------------------------------ MODULE Settings ------------------------------
(***************************************************************************)
(* The settings page of flash_storage/flashstorage.cpp: one flash page of  *)
(* slots, a slot being a key and a value.  The page is rewritten as a      *)
(* whole, from a copy in RAM, each time a key is set.                      *)
(*                                                                         *)
(* A cell of a slot holds what was written, or is Torn: its programming    *)
(* was cut by a power loss, or what follows it was, so that its text has   *)
(* no end.  The last slot of the page begins in it and ends behind it: its *)
(* value is outside the page and reads as whatever is there, Torn.         *)
(* A key or a value is stored whole, or its first 49 characters: Stored.   *)
(***************************************************************************)
EXTENDS Naturals

CONSTANTS
  Keys, Values,
  NoValue,      \* keyval_get found nothing
  Torn,
  Stored,       \* the text stored for a key or a value
  WholeSlots    \* slots that lie inside the page

ASSUME SettingsAssumption ==
  /\ NoValue \notin Keys \cup Values /\ Torn \notin Keys \cup Values /\ NoValue # Torn
  /\ WholeSlots \in Nat
  /\ DOMAIN Stored = Keys \cup Values /\ \A x \in DOMAIN Stored : Stored[Stored[x]] = Stored[x]
  /\ (\A k \in Keys : Stored[k] \in Keys) /\ (\A v \in Values : Stored[v] \in Values)

Slots == 1 .. WholeSlots + 1

\* A slot whose first byte reads as 0xff: the erased slot.
Erased == [key |-> NoValue, val |-> NoValue]
Slot   == [key : Keys, val : Values \cup {Torn}] \cup {Erased, [key |-> Torn, val |-> Torn]}
Page   == [Slots -> Slot]

ErasedPage == [s \in Slots |-> Erased]

-----------------------------------------------------------------------------
\* The slots a search passes before it meets an erased one.
Used(p) == {s \in Slots : \A t \in 1 .. s : p[t] # Erased}

\* keyval_get_address: the first slot with the key, before any erased slot.
KeyAddress(p, k) ==
  {s \in Used(p) : p[s].key = k /\ \A t \in 1 .. s - 1 : p[t].key # k}

\* keyval_get_unalloced: the first erased slot.
FreeAddress(p) ==
  {s \in Slots : p[s] = Erased /\ \A t \in 1 .. s - 1 : p[t] # Erased}

\* Every set in a new slot.
SetAddress_New(p, k) == FreeAddress(p)

\* Where keyval_set writes: nowhere if the key is new and no slot is free.
SetAddress(p, k) == IF KeyAddress(p, k) # {} THEN KeyAddress(p, k) ELSE FreeAddress(p)

\* The slot as written into a page.
SlotWritten(s, k, v) ==
  [key |-> Stored[k], val |-> IF s = WholeSlots + 1 \/ v = Torn THEN Torn ELSE Stored[v]]

\* keyval_set may write behind its arrays on the stack: the last slot behind
\* the copy of the page, a text that is too long, or has no end, behind
\* new_keyval_data and the buffers of the commands.
Overruns(p, k, v) ==
  \/ WholeSlots + 1 \in SetAddress(p, k)
  \/ Stored[k] # k \/ v = Torn \/ Stored[v] # v

\* The rest of the page not copied.
PageData_Alone(p, k, v) ==
  [s \in Slots |-> IF s \in SetAddress(p, k) THEN SlotWritten(s, k, v) ELSE Erased]

\* The page image of keyval_set.
PageData(p, k, v) ==
  [s \in Slots |-> IF s \in SetAddress(p, k) THEN SlotWritten(s, k, v) ELSE p[s]]

\* keyval_get
keyval_get(p, k) ==
  IF KeyAddress(p, k) = {} THEN NoValue ELSE p[CHOOSE s \in KeyAddress(p, k) : TRUE].val

-----------------------------------------------------------------------------
\* What a slot may hold when its programming is cut.
SlotCut(slot) ==
  IF slot = Erased THEN {Erased}
  ELSE {Erased, [key |-> Torn, val |-> Torn], slot}
       \cup IF slot.key \in Keys THEN {[slot EXCEPT !.val = Torn]} ELSE {}

\* writepage programs an erased page from its first cell to its last: cut in
\* slot n, the slots before it are written and those behind it erased.
PageCuts(image) ==
  UNION {{[s \in Slots |-> IF s < n THEN image[s] ELSE IF s = n THEN c ELSE Erased] :
            c \in SlotCut(image[n])} : n \in Slots}
=============================================================================
