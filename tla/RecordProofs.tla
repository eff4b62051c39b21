---------------------------- MODULE RecordProofs ----------------------------
(***************************************************************************)
(* Proofs about Record for every set of rates and every number of pulses:  *)
(* the bookkeeping of pulses, and what a record may say of its period.     *)
(***************************************************************************)
EXTENDS Record, TLAPS

USE DEF rate, counting, period

Windows == \E cpm \in Rates, valid, full \in BOOLEAN :
             calc_cpm_deadtime_compensated(cpm, valid, full)

-----------------------------------------------------------------------------
(* Type correctness *)

\* What the interrupt of a window does to the extremes stays a rate.
LEMMA ExtremesType ==
  ASSUME NEW cpm \in Rates, NEW valid \in BOOLEAN, m_cpm_min \in Rates, m_cpm_max \in Rates
  PROVE  LowerMin(valid, cpm) \in Rates /\ RaiseMax(valid, cpm) \in Rates
  BY DEF LowerMin, RaiseMax

LEMMA BlankType == Blank \in DataType
<1>1. 0 \in Rates /\ 0 \in Nat /\ TRUE \in BOOLEAN /\ "CPM30" \in {"CPM", "CPM30"}
  BY RecordAssumption
<1> QED BY <1>1, Zenon DEF Blank, DataType

LEMMA TypeStep == TypeOK /\ [Next]_vars => TypeOK'
<1> SUFFICES ASSUME TypeOK, [Next]_vars PROVE TypeOK'
  OBVIOUS
<1> USE DEF TypeOK, Sampling, Resetting
<1>1. CASE geiger_rising
  BY <1>1 DEF geiger_rising
<1>2. CASE Windows
  <2> PICK cpm \in Rates, valid \in BOOLEAN, full \in BOOLEAN :
        calc_cpm_deadtime_compensated(cpm, valid, full)
    BY <1>2 DEF Windows
  <2> QED BY ExtremesType, RecordAssumption DEF calc_cpm_deadtime_compensated
<1>3. CASE rtc_alarmed \/ StartRecord
  BY <1>3 DEF rtc_alarmed, StartRecord
<1>4. CASE ReadValid
  BY <1>4 DEF ReadValid, ReadField, DataType
<1>5. CASE ReadCpm \/ ReadMin \/ ReadMax
  BY <1>5 DEF ReadCpm, ReadMin, ReadMax, ReadField, DataType
<1>6. CASE ReadCpm30 \/ ReadCounts
  <2>1. data' \in DataType
    BY <1>6 DEF ReadCpm30, ReadCounts, ReadField, DataType
  <2> QED BY <1>6, <2>1 DEF ReadCpm30, ReadCounts, ReadField
<1>7. CASE log_pushback
  BY <1>7, BlankType DEF log_pushback, DataType
<1>8. CASE ResetCount \/ StoreMin \/ StoreMax
  BY <1>8, RecordAssumption DEF ResetCount, StoreMin, StoreMax
<1>9. CASE UNCHANGED vars
  BY <1>9 DEF vars
<1> QED BY <1>1, <1>2, <1>3, <1>4, <1>5, <1>6, <1>7, <1>8, <1>9
        DEF Next, do_logging, Windows

\* The variables keep their types, for every set of rates.
THEOREM TypeCorrect == Spec => []TypeOK
<1>1. Init => TypeOK
  BY RecordAssumption, BlankType DEF Init, TypeOK
<1> QED BY <1>1, TypeStep, PTL DEF Spec

-----------------------------------------------------------------------------
(* Pulses *)

\* Where the pulses are that the record in hand or the next one counts.
Pending == IF at = "reset" THEN 0 ELSE IF at = "push" THEN data.counts
           ELSE logging_period_count

\* The balance that holds at every step of the loop.
CountInv == pulses = recorded + dropped + late + Pending

LEMMA CountStep == TypeOK /\ CountInv /\ [Next]_vars => CountInv'
<1> SUFFICES ASSUME TypeOK, CountInv, [Next]_vars PROVE CountInv'
  OBVIOUS
<1> USE DEF TypeOK, DataType, CountInv, Pending, Sampling, Resetting, Blank
<1>1. CASE geiger_rising
  BY <1>1 DEF geiger_rising
<1>2. CASE Windows
  BY <1>2 DEF Windows, calc_cpm_deadtime_compensated
<1>3. CASE rtc_alarmed \/ StartRecord
  BY <1>3 DEF rtc_alarmed, StartRecord
<1>4. CASE ReadValid \/ ReadCpm \/ ReadMin \/ ReadMax \/ ReadCpm30
  BY <1>4 DEF ReadValid, ReadCpm, ReadMin, ReadMax, ReadCpm30, ReadField
<1>5. CASE ReadCounts
  BY <1>5 DEF ReadCounts, ReadField
<1>6. CASE log_pushback
  BY <1>6 DEF log_pushback
<1>7. CASE ResetCount \/ StoreMin \/ StoreMax
  BY <1>7 DEF ResetCount, StoreMin, StoreMax
<1>8. CASE UNCHANGED vars
  BY <1>8 DEF vars
<1> QED BY <1>1, <1>2, <1>3, <1>4, <1>5, <1>6, <1>7, <1>8
        DEF Next, do_logging, Windows

\* Every pulse is recorded, dropped, late, or still in the running count
\* (geiger_rising against do_logging, read by read).
THEOREM CountAlways == Spec => []CountInv
<1>1. Init => CountInv
  BY DEF Init, CountInv, Pending
<1> QED BY <1>1, TypeCorrect, CountStep, PTL DEF Spec

\* Between two records every pulse is accounted for exactly once.
THEOREM PulseOnceAlways == Spec => []EveryPulseOnce
<1>1. TypeOK /\ CountInv => EveryPulseOnce
  BY DEF TypeOK, CountInv, Pending, EveryPulseOnce
<1> QED BY <1>1, TypeCorrect, CountAlways, PTL

\* No pulse is counted in two records, whenever the interrupts come.
THEOREM NoPulseTwiceAlways == Spec => []NoPulseTwice
<1>1. TypeOK /\ CountInv => NoPulseTwice
  BY DEF TypeOK, DataType, CountInv, Pending, NoPulseTwice
<1> QED BY <1>1, TypeCorrect, CountAlways, PTL

-----------------------------------------------------------------------------
(* Readings *)

\* Between two records: a valid reading is one of the period, the extremes
\* are readings and cover those of the period.
PeriodInv ==
  /\ m_alarm_log \/ at # "loop" => settled
  /\ at \in {"loop", "valid", "cpm", "min"} /\ m_cpm_valid /\ settled
       => current_cpm \in readings
  /\ \A r \in readings : m_cpm_min <= r /\ r <= m_cpm_max
  /\ at \in Resetting => readings = {} /\ {loaded, current_cpm} \subseteq edge
  /\ at = "storemax" => m_cpm_min \in edge
  /\ at \notin Resetting => {m_cpm_min, m_cpm_max} \subseteq readings \cup edge

\* What the reads done so far have in common with the period they describe.
SampleInv ==
  /\ at \in {"cpm", "min", "max"} => data.type = "CPM"
  /\ at = "cpm30" => data.type = "CPM30"
  /\ at = "cpm" /\ ~ lapsed => m_cpm_valid
  /\ at \in {"min", "max", "counts", "push"} /\ data.type = "CPM" /\ ~ lapsed
       => data.cpm \in readings
  /\ at \in {"max", "counts", "push"} /\ data.type = "CPM"
       => /\ \A r \in readings : data.min <= r
          /\ data.min \in readings \cup edge
  /\ at \in {"counts", "push"} /\ data.type = "CPM"
       => /\ \A r \in readings : r <= data.max
          /\ data.max \in readings \cup edge

ReadInv == PeriodInv /\ SampleInv

LEMMA WindowKeepsPeriod ==
  ASSUME TypeOK, PeriodInv, NEW cpm \in Rates, NEW valid \in BOOLEAN, NEW full \in BOOLEAN,
         calc_cpm_deadtime_compensated(cpm, valid, full)
  PROVE  PeriodInv'
<1> USE RecordAssumption DEF TypeOK, calc_cpm_deadtime_compensated
<1>1. /\ m_cpm_min' \in Rates /\ m_cpm_min' <= m_cpm_min /\ m_cpm_max <= m_cpm_max'
      /\ m_cpm_max' \in Rates /\ m_cpm_min' \in {m_cpm_min, cpm} /\ m_cpm_max' \in {m_cpm_max, cpm}
      /\ valid => m_cpm_min' <= cpm /\ cpm <= m_cpm_max'
      /\ ~ valid => m_cpm_min' = m_cpm_min /\ m_cpm_max' = m_cpm_max
  BY DEF LowerMin, RaiseMax
<1>2. m_alarm_log' \/ at' # "loop" => settled'
  BY DEF PeriodInv
<1>3. at' \in {"loop", "valid", "cpm", "min"} /\ m_cpm_valid' => current_cpm' \in readings'
  BY DEF PeriodInv, Sampling, Resetting
<1>4. \A r \in readings' : m_cpm_min' <= r /\ r <= m_cpm_max'
  <2> SUFFICES ASSUME NEW r \in readings' PROVE m_cpm_min' <= r /\ r <= m_cpm_max'
    OBVIOUS
  <2>1. r \in readings \/ (r = cpm /\ valid)
    OBVIOUS
  <2>2. CASE r \in readings
    <3>1. m_cpm_min <= r /\ r <= m_cpm_max /\ r \in Nat
      BY <2>2 DEF PeriodInv
    <3> QED BY <1>1, <3>1
  <2> QED BY <1>1, <2>1, <2>2
<1>5. at' \in Resetting => readings' = {} /\ {loaded', current_cpm'} \subseteq edge'
  BY DEF PeriodInv, Resetting
<1>6. at' = "storemax" => m_cpm_min' \in edge'
  BY <1>1 DEF PeriodInv, Resetting
<1>7. at' \notin Resetting => {m_cpm_min', m_cpm_max'} \subseteq readings' \cup edge'
  BY <1>1 DEF PeriodInv, Resetting
<1> QED BY <1>2, <1>3, <1>4, <1>5, <1>6, <1>7 DEF PeriodInv

LEMMA WindowKeepsSample ==
  ASSUME TypeOK, PeriodInv, SampleInv, NEW cpm \in Rates, NEW valid \in BOOLEAN,
         NEW full \in BOOLEAN, calc_cpm_deadtime_compensated(cpm, valid, full)
  PROVE  SampleInv'
  BY RecordAssumption
  DEF TypeOK, SampleInv, calc_cpm_deadtime_compensated, Sampling, Resetting

LEMMA ReadStep == TypeOK /\ TypeOK' /\ ReadInv /\ [Next]_vars => ReadInv'
<1> SUFFICES ASSUME TypeOK, TypeOK', ReadInv, [Next]_vars PROVE ReadInv'
  OBVIOUS
<1> USE DEF TypeOK, DataType, ReadInv, Sampling, Resetting, Blank
<1>1. CASE geiger_rising
  BY <1>1 DEF geiger_rising, PeriodInv, SampleInv
<1>2. CASE Windows
  BY <1>2, WindowKeepsPeriod, WindowKeepsSample DEF Windows
<1>3. CASE rtc_alarmed \/ StartRecord
  BY <1>3 DEF rtc_alarmed, StartRecord, PeriodInv, SampleInv
<1>4. CASE ReadValid
  BY <1>4 DEF ReadValid, ReadField, PeriodInv, SampleInv
<1>5. CASE ReadCpm
  BY <1>5 DEF ReadCpm, ReadField, PeriodInv, SampleInv
<1>6. CASE ReadMin
  BY <1>6 DEF ReadMin, ReadField, PeriodInv, SampleInv
<1>7. CASE ReadMax
  BY <1>7 DEF ReadMax, ReadField, PeriodInv, SampleInv
<1>8. CASE ReadCpm30 \/ ReadCounts
  BY <1>8 DEF ReadCpm30, ReadCounts, ReadField, PeriodInv, SampleInv
<1>9. CASE log_pushback
  BY <1>9 DEF log_pushback, PeriodInv, SampleInv
<1>10. CASE ResetCount
  BY <1>10 DEF ResetCount, PeriodInv, SampleInv
<1>11. CASE StoreMin
  BY <1>11 DEF StoreMin, PeriodInv, SampleInv
<1>12. CASE StoreMax
  BY <1>12 DEF StoreMax, PeriodInv, SampleInv
<1>13. CASE UNCHANGED vars
  BY <1>13 DEF vars, PeriodInv, SampleInv
<1> QED BY <1>1, <1>2, <1>3, <1>4, <1>5, <1>6, <1>7, <1>8, <1>9, <1>10, <1>11,
           <1>12, <1>13 DEF Next, do_logging, Windows

\* What the history of the period and the reads done so far have in common,
\* at every step of do_logging.
THEOREM ReadAlways == Spec => []ReadInv
<1>1. Init => ReadInv
  BY DEF Init, ReadInv, PeriodInv, SampleInv, Sampling, Resetting, Blank
<1> QED BY <1>1, TypeCorrect, ReadStep, PTL DEF Spec

\* A CPM record the interrupts did not invalidate meanwhile has its rate between
\* its extremes, wherever between its reads they came.
THEOREM RecordSoundAlways == Spec => []RecordSound
<1>1. TypeOK /\ ReadInv => RecordSound
  BY DEF TypeOK, DataType, ReadInv, PeriodInv, SampleInv, RecordSound
<1> QED BY <1>1, TypeCorrect, ReadAlways, PTL

\* The extremes of a record cover the valid readings of its period.
THEOREM ExtremesAlways == Spec => []ExtremesCover
<1>1. TypeOK /\ ReadInv => ExtremesCover
  BY DEF ReadInv, SampleInv, ExtremesCover
<1> QED BY <1>1, TypeCorrect, ReadAlways, PTL
=============================================================================
