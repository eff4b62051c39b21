------------------------------- MODULE Record -------------------------------
(***************************************************************************)
(* How do_logging (controller/Controller.cpp) takes a record from the      *)
(* Geiger object, while the two interrupts of geiger/Geiger.cpp, one per   *)
(* pulse and one per half-second window, run between any two of its reads. *)
(*                                                                         *)
(* The rate worked out at the end of a window, and whether it is valid,    *)
(* are any (module Geiger says which); Cpm30Full stands for a number of    *)
(* samples that covers the last 30 seconds.                                *)
(***************************************************************************)
EXTENDS Integers

CONSTANTS
  Rates,      \* rates a window can end with
  MaxPulses   \* bound on pulses

ASSUME RecordAssumption == Rates \subseteq Nat /\ 0 \in Rates /\ MaxPulses \in Nat

VARIABLES
  at,                     \* next step of the main loop
  data,                   \* the record being filled in
  m_alarm_log,
  current_cpm, m_cpm_valid, m_cpm_min, m_cpm_max,
  Cpm30Full,              \* is_cpm30_valid
  logging_period_count,
  loaded,                 \* current_cpm as reset_minmax loaded it
  pulses,                 \* history: pulses since the start
  recorded,               \* history: pulses counted in stored records
  dropped,                \* history: counted in records the log refused
  late,                   \* history: pulses that came while a record was stored
  readings,               \* history: valid readings of the period
  edge,                   \* history: readings while a period begins or ends
  lapsed,                 \* history: the reading became invalid while sampled
  settled                 \* history: a window ended since the last record

rate     == <<current_cpm, m_cpm_valid, m_cpm_min, m_cpm_max, Cpm30Full>>
counting == <<logging_period_count, pulses, recorded, dropped, late>>
period   == <<readings, edge, lapsed, settled>>
vars     == <<at, data, m_alarm_log, loaded, rate, counting, period>>

Sampling  == {"valid", "cpm", "min", "max", "cpm30"}
Resetting == {"storemin", "storemax"}

Blank == [cpm |-> 0, min |-> 0, max |-> 0, type |-> "CPM30", full |-> TRUE, counts |-> 0]

-----------------------------------------------------------------------------
(* The interrupts *)

geiger_rising ==
  /\ pulses < MaxPulses
  /\ pulses' = pulses + 1
  /\ logging_period_count' = logging_period_count + 1
  /\ late' = IF at \in {"push", "reset"} THEN late + 1 ELSE late
  /\ UNCHANGED <<at, data, m_alarm_log, loaded, rate, recorded, dropped, period>>

\* The minimum lowered by any reading.
LowerMin_Always(valid, cpm) == IF cpm < m_cpm_min THEN cpm ELSE m_cpm_min

\* The extremes follow valid readings only.
LowerMin(valid, cpm) == IF valid /\ cpm < m_cpm_min THEN cpm ELSE m_cpm_min
RaiseMax(valid, cpm) == IF valid /\ cpm > m_cpm_max THEN cpm ELSE m_cpm_max

calc_cpm_deadtime_compensated(cpm, valid, full) ==
  /\ current_cpm' = cpm /\ m_cpm_valid' = valid /\ Cpm30Full' = full
  /\ m_cpm_min' = LowerMin(valid, cpm) /\ m_cpm_max' = RaiseMax(valid, cpm)
  /\ IF at \in {"max", "counts", "push", "reset"} \cup Resetting
     THEN edge' = edge \cup {cpm} /\ UNCHANGED readings
     ELSE /\ readings' = IF valid THEN readings \cup {cpm} ELSE readings
          /\ UNCHANGED edge
  /\ lapsed' = (lapsed \/ (at \in Sampling /\ ~ valid))
  /\ settled' = (settled \/ at = "loop")
  /\ UNCHANGED <<at, data, m_alarm_log, loaded, counting>>

-----------------------------------------------------------------------------
(* do_logging *)

\* The alarm of the RTC, at least a minute, so many windows, after the last.
rtc_alarmed ==
  /\ at = "loop" /\ settled /\ ~ m_alarm_log
  /\ m_alarm_log' = TRUE
  /\ UNCHANGED <<at, data, loaded, rate, counting, period>>

StartRecord ==
  /\ at = "loop" /\ m_alarm_log /\ Cpm30Full
  /\ at' = "valid"
  /\ UNCHANGED <<data, m_alarm_log, loaded, rate, counting, period>>

\* One read of a variable that the interrupts write.
ReadField(from, to, field, value) ==
  /\ at = from /\ at' = to
  /\ data' = [data EXCEPT ![field] = value]
  /\ UNCHANGED <<m_alarm_log, loaded, rate, counting, period>>

\* The type of record log.h keeps besides, or a CPM record whatever is valid.
ReadValid_MinMax ==
  ReadField("valid", IF m_cpm_valid THEN "cpm" ELSE "cpm30", "type",
            IF m_cpm_valid THEN "CPM" ELSE "MINMAX")
ReadValid_Cpm30Enough == ReadField("valid", "cpm", "type", "CPM")

ReadValid ==
  ReadField("valid", IF m_cpm_valid THEN "cpm" ELSE "cpm30", "type",
            IF m_cpm_valid THEN "CPM" ELSE "CPM30")

ReadCpm    == ReadField("cpm", "min", "cpm", current_cpm)
ReadMin    == ReadField("min", "max", "min", m_cpm_min)
ReadMax    == ReadField("max", "counts", "max", m_cpm_max)

\* get_cpm30: the sum is divided by the samples there are by then.
ReadCpm30  == ReadField("cpm30", "counts", "full", Cpm30Full)
ReadCounts == ReadField("counts", "push", "counts", logging_period_count)

\* flashstorage_log_pushback stores the record or, paused or full, refuses it.
log_pushback ==
  /\ at = "push" /\ at' = "reset"
  /\ \/ recorded' = recorded + data.counts /\ UNCHANGED dropped
     \/ dropped' = dropped + data.counts /\ UNCHANGED recorded
  /\ data' = Blank
  /\ UNCHANGED <<m_alarm_log, loaded, rate, logging_period_count, pulses, late, period>>

\* The count left as it is.
ResetCount_Kept ==
  /\ at = "reset" /\ at' = "storemin"
  /\ loaded' = current_cpm /\ edge' = {current_cpm} /\ readings' = {}
  /\ UNCHANGED <<data, m_alarm_log, rate, counting, lapsed, settled>>

\* reset_minmax: the count, then current_cpm loaded for the two extremes.
ResetCount ==
  /\ at = "reset" /\ at' = "storemin"
  /\ logging_period_count' = 0 /\ loaded' = current_cpm
  /\ edge' = {current_cpm} /\ readings' = {}
  /\ UNCHANGED <<data, m_alarm_log, rate, pulses, recorded, dropped, late, lapsed, settled>>

StoreMin ==
  /\ at = "storemin" /\ at' = "storemax"
  /\ m_cpm_min' = loaded
  /\ UNCHANGED <<data, m_alarm_log, loaded, current_cpm, m_cpm_valid, m_cpm_max, Cpm30Full,
                 counting, period>>

\* The count reset last.
StoreMax_CountLast ==
  /\ at = "storemax" /\ at' = "loop"
  /\ m_cpm_max' \in {loaded, current_cpm} /\ logging_period_count' = 0
  /\ m_alarm_log' = FALSE /\ settled' = FALSE /\ lapsed' = FALSE /\ loaded' = 0
  /\ UNCHANGED <<data, current_cpm, m_cpm_valid, m_cpm_min, Cpm30Full,
                 pulses, recorded, dropped, late, readings, edge>>

\* current_cpm is not volatile: it may be loaded once or twice.  The alarm
\* flag is cleared and the loop goes on.
StoreMax ==
  /\ at = "storemax" /\ at' = "loop"
  /\ m_cpm_max' \in {loaded, current_cpm}
  /\ m_alarm_log' = FALSE /\ settled' = FALSE /\ lapsed' = FALSE /\ loaded' = 0
  /\ UNCHANGED <<data, current_cpm, m_cpm_valid, m_cpm_min, Cpm30Full,
                 counting, readings, edge>>

-----------------------------------------------------------------------------
Init ==
  /\ at = "loop" /\ data = Blank /\ m_alarm_log = FALSE
  /\ current_cpm = 0 /\ m_cpm_valid = FALSE /\ m_cpm_min = 0 /\ m_cpm_max = 0
  /\ Cpm30Full = FALSE /\ logging_period_count = 0 /\ loaded = 0
  /\ pulses = 0 /\ recorded = 0 /\ dropped = 0 /\ late = 0
  /\ readings = {} /\ edge = {0} /\ lapsed = FALSE /\ settled = FALSE

do_logging ==
  \/ rtc_alarmed \/ StartRecord \/ ReadValid \/ ReadCpm \/ ReadMin \/ ReadMax
  \/ ReadCpm30 \/ ReadCounts \/ log_pushback \/ ResetCount \/ StoreMin \/ StoreMax

Next ==
  \/ do_logging \/ geiger_rising
  \/ \E cpm \in Rates, valid, full \in BOOLEAN : calc_cpm_deadtime_compensated(cpm, valid, full)

Spec == Init /\ [][Next]_vars

-----------------------------------------------------------------------------
(* Properties *)

DataType ==
  [cpm : Rates, min : Rates, max : Rates, type : {"CPM", "CPM30"}, full : BOOLEAN,
   counts : Nat]

\* Every variable keeps to what its declaration in Geiger.h and log.h holds.
TypeOK ==
  /\ at \in {"loop", "counts", "push", "reset"} \cup Sampling \cup Resetting
  /\ data \in DataType /\ m_alarm_log \in BOOLEAN
  /\ {current_cpm, m_cpm_min, m_cpm_max, loaded} \subseteq Rates
  /\ m_cpm_valid \in BOOLEAN /\ Cpm30Full \in BOOLEAN
  /\ {logging_period_count, pulses, recorded, dropped, late} \subseteq Nat
  /\ readings \subseteq Rates /\ edge \subseteq Rates
  /\ lapsed \in BOOLEAN /\ settled \in BOOLEAN

\* "Number of counts during the window" (log.h:19): between two records every
\* pulse so far is in exactly one record, in the period that runs, or came in
\* the moment a record was being stored.
EveryPulseOnce ==
  at = "loop" => pulses = recorded + dropped + logging_period_count + late

\* No pulse is in two records, not even while one is being stored.
NoPulseTwice ==
  recorded + dropped
    + (IF at = "reset" THEN 0 ELSE IF at = "push" THEN data.counts
       ELSE logging_period_count) <= pulses

\* A CPM record that no invalidation interrupted is consistent: its rate lies
\* between its extremes, although the four variables are read one by one while
\* windows end in between (do_logging).
RecordSound ==
  at = "push" /\ ~ lapsed /\ data.type = "CPM" =>
    data.min <= data.cpm /\ data.cpm <= data.max

\* "Min value over duration", "Max value over duration" (log.h:17): the
\* extremes of a CPM record cover every valid reading of its period, but for
\* those that come while the period begins or ends, and were read themselves.
ExtremesCover ==
  at = "push" /\ data.type = "CPM" =>
    /\ \A r \in readings : data.min <= r /\ r <= data.max
    /\ {data.min, data.max} \subseteq readings \cup edge
=============================================================================
