---------------------------- MODULE SettingsStore ----------------------------
(***************************************************************************)
(* What the settings in flash promise: a map from keys to values.  Setting *)
(* a key changes that key only; a power loss while a key is set may cost   *)
(* settings, and may leave one of them unreadable, but none is ever        *)
(* anything that was not set.                                              *)
(***************************************************************************)
CONSTANTS Keys, Values, NoValue, Torn

VARIABLES
  store,   \* value of every key
  open     \* a key is being set

vars == <<store, open>>

TypeOK == store \in [Keys -> Values \cup {NoValue, Torn}] /\ open \in BOOLEAN

Init == store = [k \in Keys |-> NoValue] /\ open = FALSE

Begin == ~ open /\ open' = TRUE /\ UNCHANGED store

\* The last slot takes the key only, without room for the value.
Commit(k, v) == open /\ open' = TRUE /\ store' = [store EXCEPT ![k] = v]

End == open /\ open' = FALSE /\ UNCHANGED store

\* What may be left of a map: some of its settings, at most one more torn.
Remains(s) ==
  {r \in [Keys -> Values \cup {NoValue, Torn}] : \E t \in Keys : \A k \in Keys :
     r[k] \in {s[k], NoValue} \cup IF k = t /\ s[k] # NoValue THEN {Torn} ELSE {}}

Cut == open /\ open' = FALSE /\ store' \in Remains(store)

Next ==
  \/ Begin \/ End \/ Cut
  \/ \E k \in Keys, v \in Values \cup {Torn} : Commit(k, v)

Spec == Init /\ [][Next]_vars
=============================================================================
