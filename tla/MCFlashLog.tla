----------------------------- MODULE MCFlashLog -----------------------------
(* FlashLog on a small flash, and its refinement of MeasurementLog. *)
EXTENDS FlashLog

CONSTANT MaxAccepted   \* bound: records stored between two clears

\* The flash beyond the area is all erased or all in use, rather than every mix.
MCInit == Init /\ \A a, b \in Cells \ Area : flash[a] = flash[b]
MCSpec == MCInit /\ [][Next]_vars

Bounded == Len(accepted) <= MaxAccepted

Abstract == INSTANCE MeasurementLog
  WITH Torn <- Erased, Capacity <- AreaSize \div RecSize,
       log <- IF intact THEN Visible ELSE <<>>,
       paused <- log_pause, void <- ~ intact

\* The flash layout implements the bounded append-only log: a store adds one
\* record at the end or none, a power loss tears at most that record, and no
\* other operation changes what is read.
ImplementsLog == Abstract!Spec
=============================================================================
