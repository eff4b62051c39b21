--------------------------- MODULE MeasurementLog ---------------------------
(***************************************************************************)
(* What the flash log promises to the code that stores and reads           *)
(* measurements: a bounded append-only sequence.  A loss of power costs at *)
(* most the record being stored, which then reads as Torn.  The promise is *)
(* void from a clear that power cut short until the next complete clear.   *)
(***************************************************************************)
EXTENDS Integers, Sequences

CONSTANTS Recs, Torn, Capacity

VARIABLES log, paused, void

vars == <<log, paused, void>>

Store(r) ==
  /\ ~ paused /\ ~ void /\ Len(log) < Capacity
  /\ log' = Append(log, r)
  /\ UNCHANGED <<paused, void>>

StoreCut(r) ==
  /\ ~ void /\ Len(log) < Capacity /\ ~ paused
  /\ log' \in {log, Append(log, Torn), Append(log, r)}
  /\ paused' = FALSE
  /\ UNCHANGED void

Clear    == log' = <<>> /\ void' = FALSE /\ UNCHANGED paused
ClearCut == log' = <<>> /\ void' = TRUE  /\ paused' = FALSE
SetPause == paused' \in BOOLEAN /\ UNCHANGED <<log, void>>

Init == log = <<>> /\ paused = FALSE /\ void = FALSE

Next ==
  \/ \E r \in Recs : Store(r) \/ StoreCut(r)
  \/ Clear \/ ClearCut \/ SetPause

Spec == Init /\ [][Next]_vars
=============================================================================
