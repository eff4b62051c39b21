-------------------------- MODULE ControllerProofs --------------------------
(***************************************************************************)
(* Proofs about Controller for every set of log intervals and every        *)
(* warm-up time, each under all the disturbances that do not break it.     *)
(***************************************************************************)
EXTENDS Controller, TLAPS

-----------------------------------------------------------------------------
(* Type correctness *)

USE DEF inputs, rtc, measure, sleep, panel, interval, history

\* Any log interval, and 0, is a duration the alarm register can be set to.
LEMMA IntervalBounds ==
  ASSUME NEW i \in Intervals \cup {0}
  PROVE  i \in 0 .. MaxInterval
  BY ControllerAssumption

\* A reset or a standby leaves RAM variables of the right types.
LEMMA RamLostType ==
  ASSUME TypeOK, RamLost,
         UNCHANGED <<position, usb>>, LOGINTERVAL' = LOGINTERVAL,
         due' \in 0 .. MaxInterval, allowed' \in -1 .. 2, overdue' \in BOOLEAN,
         power' = "standby", at' = "off", wuf' = FALSE
  PROVE  TypeOK'
<1>1. position' \in Positions /\ m_last_switch_state' \in Positions
  BY DEF TypeOK, RamLost, Positions
<1>2. since' \in 0 .. MaxInterval /\ samples' \in 0 .. Warmup
  BY ControllerAssumption DEF RamLost
<1>3. m_log_interval_seconds' \in Intervals \cup {0} /\ LOGINTERVAL' \in Intervals \cup {0}
  BY DEF TypeOK, RamLost
<1>4. power' \in {"standby", "reset", "boot", "run", "lowbatt"}
  OBVIOUS
<1>5. at' \in {"off", "top", "log", "switch", "ui", "idle"}
  OBVIOUS
<1>6. usb' \in BOOLEAN /\ rtc_alarm_on' \in BOOLEAN /\ wuf' \in BOOLEAN
  BY DEF RamLost, TypeOK
<1>7. /\ m_sleeping' \in BOOLEAN /\ m_powerup' \in BOOLEAN /\ m_alarm_log' \in BOOLEAN
      /\ m_warning_raised' \in BOOLEAN /\ display' \in BOOLEAN /\ keys' \in BOOLEAN
  BY DEF RamLost
<1> QED BY <1>1, <1>2, <1>3, <1>4, <1>5, <1>6, <1>7 DEF TypeOK

\* An alarm set relative to an earlier one is a time ahead, or never.
LEMMA AlarmAfterType ==
  ASSUME NEW n \in Intervals \cup {0}, NEW e \in 0 .. MaxInterval
  PROVE  AlarmAfter(n, e) \in 0 .. MaxInterval
  BY ControllerAssumption DEF AlarmAfter

\* The variables keep their types under any disturbances; in particular no
\* step sets an interval that is not one of Intervals, nor an alarm further
\* ahead than the longest of them.
THEOREM TypeCorrect == Spec => []TypeOK
<1>1. Init => TypeOK
  <2> SUFFICES ASSUME Init PROVE TypeOK
    OBVIOUS
  <2>1. /\ samples \in 0 .. Warmup /\ since \in 0 .. MaxInterval
        /\ due \in 0 .. MaxInterval /\ allowed \in -1 .. 2
    BY ControllerAssumption DEF Init
  <2>2. position \in Positions /\ m_last_switch_state \in Positions
    BY DEF Init, Positions
  <2>3. overdue \in BOOLEAN
    BY DEF Init
  <2> QED BY <2>1, <2>2, <2>3 DEF Init, TypeOK
<1>2. TypeOK /\ [Next]_vars => TypeOK'
  <2> SUFFICES ASSUME TypeOK, [Next]_vars PROVE TypeOK'
    OBVIOUS
  <2>1. CASE WakeOnSwitch
    BY <2>1 DEF WakeOnSwitch, TypeOK
  <2>2. CASE Construct
    BY <2>2 DEF Construct, TypeOK
  <2>3. CASE StartLoop
    BY <2>3, ZenonT(30) DEF StartLoop, TypeOK
  <2>4. CASE check_warning_level
    BY <2>4 DEF check_warning_level, Running, TypeOK
  <2>5. CASE do_logging
    <3>1. CASE NothingToLog
      BY <2>5, <3>1 DEF do_logging, NothingToLog, Running, TypeOK
    <3>2. AllowedNext \in -1 .. 2 /\ SinceAlarm \in 0 .. MaxInterval
      BY ControllerAssumption DEF AllowedNext, SinceAlarm, TypeOK
    <3>3. CASE RecordMustWait
      BY <2>5, <3>2, <3>3 DEF do_logging, RecordMustWait, Running, TypeOK
    <3>4. CASE StoreRecord
      <4>1. due' \in 0 .. MaxInterval
        <5>1. AlarmAfter(m_log_interval_seconds, SinceAlarm) \in 0 .. MaxInterval
          BY <3>2, AlarmAfterType DEF TypeOK
        <5> QED BY <3>4, <5>1 DEF StoreRecord, TypeOK, NextAlarm
      <4>2. allowed' \in -1 .. 2 /\ overdue' \in BOOLEAN
        BY <3>4, <3>2 DEF StoreRecord, TooLate
      <4>3. CASE m_sleeping /\ ~ usb
        BY <3>4, <4>1, <4>2, <4>3, RamLostType DEF StoreRecord, power_standby, BackToStandby
      <4>4. CASE ~ (m_sleeping /\ ~ usb)
        <5>1. since' \in 0 .. MaxInterval
          BY <3>4, <4>4, ControllerAssumption DEF StoreRecord, BackToStandby
        <5>2. at' = "switch" /\ m_alarm_log' = FALSE /\ rtc_alarm_on' = FALSE
          BY <3>4, <4>4 DEF StoreRecord, BackToStandby
        <5>3. /\ UNCHANGED <<power, wuf, samples, sleep, m_warning_raised, panel,
                             m_log_interval_seconds>>
              /\ UNCHANGED <<inputs, LOGINTERVAL>>
          BY <3>4, <4>4 DEF StoreRecord, BackToStandby
        <5> QED BY <4>1, <4>2, <5>1, <5>2, <5>3, ZenonT(30) DEF TypeOK
      <4> QED BY <4>3, <4>4
    <3> QED BY <2>5, <3>1, <3>3, <3>4 DEF do_logging
  <2>6. CASE PulseHidesSwitch
    BY <2>6 DEF PulseHidesSwitch, Running, TypeOK
  <2>7. CASE check_sleep_switch
    <3>1. CASE SwitchUnchanged
      BY <2>7, <3>1 DEF check_sleep_switch, SwitchUnchanged, Running, TypeOK
    <3>2. CASE SwitchedToSleep
      <4>1. CASE (m_alarm_log \/ usb) /\ ~ m_sleeping
        BY <2>7, <3>2, <4>1 DEF check_sleep_switch, SwitchedToSleep, Running, TypeOK, StayAwake
      <4>2. CASE ~ ((m_alarm_log \/ usb) /\ ~ m_sleeping)
        <5>1. due' \in 0 .. MaxInterval /\ allowed' \in -1 .. 2 /\ overdue' \in BOOLEAN
          BY <2>7 DEF check_sleep_switch, TypeOK
        <5>2. power_standby
          BY <3>2, <4>2 DEF SwitchedToSleep, StayAwake
        <5> QED BY <2>7, <5>1, <5>2, RamLostType DEF check_sleep_switch, power_standby
      <4> QED BY <4>1, <4>2
    <3>3. CASE SwitchedToPowerup
      <4>1. /\ at' = "ui" /\ UNCHANGED power
            /\ m_last_switch_state' \in Positions
            /\ m_powerup' \in BOOLEAN /\ m_sleeping' \in BOOLEAN
            /\ display' \in BOOLEAN /\ keys' \in BOOLEAN
        BY <3>3 DEF SwitchedToPowerup, TypeOK
      <4>2. /\ UNCHANGED <<inputs, due, LOGINTERVAL, history>>
            /\ UNCHANGED <<wuf, samples, since, rtc_alarm_on, m_alarm_log,
                           m_warning_raised, m_log_interval_seconds>>
        BY <2>7, <3>3 DEF check_sleep_switch, SwitchedToPowerup
      <4> QED BY <4>1, <4>2 DEF TypeOK
    <3> QED BY <2>7, <3>1, <3>2, <3>3 DEF check_sleep_switch
  <2>8. CASE Command
    <3>1. CASE NoCommand \/ event_screen_off
      BY <2>8, <3>1, ZenonT(30) DEF NoCommand, event_screen_off, LineHandled, KeyHandled,
                        Running, TypeOK
    <3>2. CASE cmd_setalarm
      <4>1. due' \in 0 .. MaxInterval /\ allowed' \in -1 .. 2
        BY <3>2, ControllerAssumption DEF cmd_setalarm, TypeOK
      <4>2. overdue' \in BOOLEAN
        BY <3>2 DEF cmd_setalarm
      <4> QED BY <3>2, <4>1, <4>2 DEF cmd_setalarm, LineHandled, Running, TypeOK
    <3>3. CASE save_time
      <4>1. due' \in 0 .. MaxInterval /\ since' \in 0 .. MaxInterval
        BY <3>3, IntervalBounds, ControllerAssumption
        DEF save_time, ClockMoved, TypeOK
      <4> QED BY <3>3, <4>1 DEF save_time, KeyHandled, Running, TypeOK
    <3>4. CASE serial_setrtc_run
      <4>1. due' \in 0 .. MaxInterval /\ since' \in 0 .. MaxInterval
        BY <3>4, ControllerAssumption DEF serial_setrtc_run, ClockMoved, TypeOK
      <4> QED BY <3>4, <4>1 DEF serial_setrtc_run, LineHandled, Running, TypeOK
    <3>5. ASSUME NEW i \in Intervals \cup {0}, save_loginterval(i) PROVE TypeOK'
      <4>1. due' \in 0 .. MaxInterval
        BY <3>5, IntervalBounds DEF save_loginterval, TypeOK
      <4>2. allowed' \in -1 .. 2
        <5>1. allowed' \in {1, allowed}
          BY <3>5 DEF save_loginterval
        <5> QED BY <5>1 DEF TypeOK
      <4> QED BY <3>5, <4>1, <4>2 DEF save_loginterval, KeyHandled, Running, TypeOK
    <3>6. ASSUME NEW i \in Intervals \cup {0}, serial_setkeyval_run(i) PROVE TypeOK'
      BY <3>6 DEF serial_setkeyval_run, LineHandled, Running, TypeOK
    <3> QED BY <2>8, <3>1, <3>2, <3>3, <3>4, <3>5, <3>6 DEF Command
  <2>9. CASE power_sleep
    BY <2>9 DEF power_sleep, Running, TypeOK
  <2>10. CASE Tick
    <3>1. due' \in 0 .. MaxInterval
      BY <2>10, ControllerAssumption DEF Tick, TypeOK
    <3>2. CASE TickRunning
      <4>1. samples' \in 0 .. Warmup /\ since' \in 0 .. MaxInterval
        BY <3>2, ControllerAssumption DEF TickRunning, TypeOK, Measured
      <4> QED BY <2>10, <3>1, <3>2, <4>1 DEF Tick, TickRunning, Fires, TypeOK
    <3>3. CASE TickStandby
      <4>1. /\ power' \in {"standby", "reset"} /\ wuf' \in BOOLEAN
            /\ rtc_alarm_on' \in BOOLEAN
        BY <3>3 DEF TickStandby, TypeOK
      <4>2. /\ UNCHANGED <<at, samples, since>>
            /\ UNCHANGED <<inputs, sleep, m_alarm_log, m_warning_raised, panel,
                           interval, history>>
        BY <2>10, <3>3 DEF TickStandby, Tick
      <4> QED BY <3>1, <4>1, <4>2 DEF TypeOK
    <3>4. CASE TickElsewhere
      BY <2>10, <3>1, <3>4 DEF Tick, TickElsewhere, TypeOK
    <3> QED BY <2>10, <3>2, <3>3, <3>4 DEF Tick
  <2>11. CASE LowBattery
    <3>1. due' \in 0 .. MaxInterval /\ allowed' \in -1 .. 2 /\ overdue' \in BOOLEAN
      BY <2>11 DEF LowBattery, TypeOK
    <3> QED BY <2>11, <3>1, RamLostType DEF LowBattery, power_standby
  <2>12. CASE RefuseBoot \/ BatteryRecovers
    <3>1. CASE RefuseBoot
      <4>1. /\ power' = "lowbatt" /\ rtc_alarm_on' \in BOOLEAN
            /\ UNCHANGED <<at, inputs, due, wuf, measure, sleep, m_alarm_log,
                           m_warning_raised, panel, interval, history>>
        BY <3>1 DEF RefuseBoot
      <4> QED BY <4>1 DEF TypeOK
    <3>2. CASE BatteryRecovers
      <4>1. /\ power' = "reset" /\ wuf' \in BOOLEAN /\ rtc_alarm_on' \in BOOLEAN
            /\ UNCHANGED <<at, inputs, due, measure, sleep, m_alarm_log,
                           m_warning_raised, panel, interval, history>>
        BY <3>2 DEF BatteryRecovers
      <4> QED BY <4>1 DEF TypeOK
    <3> QED BY <2>12, <3>1, <3>2
  <2>13. CASE FlipSwitch \/ PlugUsb
    <3>1. CASE FlipSwitch
      <4>1. position' \in Positions
        BY <3>1 DEF FlipSwitch
      <4> QED BY <3>1, <4>1 DEF FlipSwitch, TypeOK
    <3>2. CASE PlugUsb
      BY <3>2 DEF PlugUsb, TypeOK
    <3> QED BY <2>13, <3>1, <3>2
  <2>14. CASE UNCHANGED vars
    BY <2>14 DEF vars, TypeOK
  <2> QED
    BY <2>1, <2>2, <2>3, <2>4, <2>5, <2>6, <2>7, <2>8, <2>9, <2>10, <2>11,
       <2>12, <2>13, <2>14 DEF Next, Progress, Environment
<1> QED BY <1>1, <1>2, PTL DEF Spec

-----------------------------------------------------------------------------
(* The inductive invariant of ordinary use *)

\* RAM is as after a reset outside the main loop.
Fresh == power # "run" => ~ m_sleeping /\ ~ m_powerup /\ ~ m_alarm_log

\* The switch and the boot: an alarm that has fired is what woke the device,
\* with the switch on sleep, and nothing else can have used it up.
BootInv ==
  /\ power \in {"standby", "reset", "boot", "run"}
  /\ power = "reset" /\ LOGINTERVAL > 0
       => wuf /\ (overdue \/ due > 0 \/ position = SWITCH_SLEEP)
  /\ power = "boot" =>
       /\ LOGINTERVAL > 0 => overdue \/ due > 0 \/ (wuf /\ position = SWITCH_SLEEP)
       /\ m_last_switch_state = position
  /\ power \in {"boot", "run"} => m_log_interval_seconds = LOGINTERVAL

\* A sleeping device has seen the switch on sleep since it last was awake.
SleepInv == power = "run" /\ m_sleeping => m_last_switch_state = SWITCH_SLEEP

\* do_logging leaves no alarm for the steps after it.
LoopInv == power = "run" /\ at \in {"switch", "ui"} => ~ rtc_alarm_on

ArmedInv == Fresh /\ BootInv /\ SleepInv /\ LoopInv /\ Armed

\* The alarm set when a record is stored is ahead, unless the record was late.
LEMMA StoreArms ==
  ASSUME TypeOK, StoreRecord, m_log_interval_seconds > 0
  PROVE  due' > 0 \/ overdue'
<1>1. m_log_interval_seconds \in Nat /\ SinceAlarm \in Nat
  BY ControllerAssumption DEF TypeOK, SinceAlarm
<1>2. CASE SinceAlarm < m_log_interval_seconds
  BY <1>1, <1>2 DEF StoreRecord, AlarmAfter, NextAlarm
<1>3. CASE SinceAlarm >= m_log_interval_seconds
  BY <1>3 DEF StoreRecord, TooLate
<1> QED BY <1>1, <1>2, <1>3

\* Standby is entered with the alarm armed.
LEMMA StandbyArmed ==
  ASSUME power_standby, LOGINTERVAL' > 0 => due' > 0 \/ overdue'
  PROVE  ArmedInv'
  BY DEF power_standby, RamLost, ArmedInv, Fresh, BootInv, SleepInv, LoopInv,
         Armed, ArmedRunning, ArmedStandby

\* Every step of ordinary use keeps the invariant.
LEMMA ArmedStep ==
  ASSUME Disturbances \subseteq {"jump"}, TypeOK, TypeOK', ArmedInv, [Next]_vars
  PROVE  ArmedInv'
<1> USE DEF ArmedInv, Fresh, BootInv, SleepInv, LoopInv, Armed, ArmedRunning,
            ArmedStandby, Running
<1>0. /\ Atomic
      /\ due \in Nat /\ LOGINTERVAL \in Nat /\ TestAlarm > 0
      /\ \A d \in {"battery", "pulse", "clock", "keyval"} : d \notin Disturbances
  BY ControllerAssumption DEF TypeOK, Atomic
<1>1. CASE WakeOnSwitch
  BY <1>1, <1>0 DEF WakeOnSwitch
<1>2. CASE Construct
  BY <1>2, <1>0 DEF Construct
<1>3. CASE StartLoop
  <2>1. PICK wkup \in WkupLevels :
          IF WakeupRTC(wkup)
          THEN rtc_alarm_on' = TRUE /\ m_sleeping' = TRUE /\ UNCHANGED display
          ELSE m_sleeping' = FALSE /\ display' = TRUE /\ UNCHANGED rtc_alarm_on
    BY <1>3 DEF StartLoop
  <2>2. wkup = (position = SWITCH_POWERUP)
    BY <1>0 DEF WkupLevels
  <2>3. m_sleeping' => position = SWITCH_SLEEP
    BY <2>1, <2>2 DEF WakeupRTC, TypeOK, Positions
  <2>4. wuf /\ position = SWITCH_SLEEP => rtc_alarm_on'
    BY <2>1, <2>2 DEF WakeupRTC, SWITCH_SLEEP, SWITCH_POWERUP
  <2> QED BY <1>3, <1>0, <2>3, <2>4 DEF StartLoop
<1>4. CASE check_warning_level
  BY <1>4, <1>0 DEF check_warning_level
<1>5. CASE do_logging
  <2>1. CASE NothingToLog
    BY <1>5, <2>1, <1>0 DEF do_logging, NothingToLog
  <2>2. CASE RecordMustWait
    BY <1>5, <2>2, <1>0 DEF do_logging, RecordMustWait, SinceAlarm
  <2>3. CASE StoreRecord
    <3>1. m_log_interval_seconds = LOGINTERVAL /\ LOGINTERVAL' = LOGINTERVAL
      BY <1>5, <2>3 DEF do_logging, StoreRecord
    <3>2. LOGINTERVAL > 0 => due' > 0 \/ overdue'
      BY <1>5, <2>3, <3>1, StoreArms DEF do_logging
    <3>3. CASE m_sleeping /\ ~ usb
      BY <2>3, <3>1, <3>2, <3>3, StandbyArmed DEF StoreRecord
    <3>4. CASE ~ (m_sleeping /\ ~ usb)
      BY <1>5, <2>3, <3>1, <3>2, <3>4, <1>0 DEF do_logging, StoreRecord, BackToStandby
    <3> QED BY <3>3, <3>4
  <2> QED BY <1>5, <2>1, <2>2, <2>3 DEF do_logging
<1>6. CASE PulseHidesSwitch
  BY <1>6, <1>0 DEF PulseHidesSwitch
<1>7. CASE check_sleep_switch
  <2>1. CASE SwitchUnchanged
    BY <1>7, <2>1, <1>0 DEF check_sleep_switch, SwitchUnchanged
  <2>2. CASE SwitchedToSleep
    <3>1. CASE (m_alarm_log \/ usb) /\ ~ m_sleeping
      BY <1>7, <2>2, <3>1, <1>0 DEF check_sleep_switch, SwitchedToSleep, StayAwake
    <3>2. CASE ~ ((m_alarm_log \/ usb) /\ ~ m_sleeping)
      <4>1. ~ m_sleeping
        BY <1>7, <2>2 DEF check_sleep_switch, SwitchedToSleep, SwitchMoved
      <4>2. ~ m_alarm_log /\ ~ rtc_alarm_on
        BY <1>7, <3>2, <4>1 DEF check_sleep_switch
      <4>3. LOGINTERVAL' > 0 => due' > 0 \/ overdue'
        BY <1>7, <4>2, <1>0 DEF check_sleep_switch
      <4> QED BY <2>2, <3>2, <4>3, StandbyArmed DEF SwitchedToSleep, StayAwake
    <3> QED BY <3>1, <3>2
  <2>3. CASE SwitchedToPowerup
    BY <1>7, <2>3, <1>0 DEF check_sleep_switch, SwitchedToPowerup
  <2> QED BY <1>7, <2>1, <2>2, <2>3 DEF check_sleep_switch
<1>8. CASE Command
  <2>1. CASE NoCommand \/ event_screen_off
    BY <2>1, <1>0 DEF NoCommand, event_screen_off, LineHandled, KeyHandled
  <2>2. CASE cmd_setalarm
    BY <2>2, <1>0 DEF cmd_setalarm, LineHandled
  <2>3. ~ save_time /\ ~ serial_setrtc_run
    BY <1>0 DEF save_time, serial_setrtc_run
  <2>4. ASSUME NEW i \in Intervals \cup {0}, save_loginterval(i) PROVE ArmedInv'
    BY <2>4, <1>0 DEF save_loginterval, KeyHandled
  <2>5. ASSUME NEW i \in Intervals \cup {0} PROVE ~ serial_setkeyval_run(i)
    BY <1>0 DEF serial_setkeyval_run
  <2> QED BY <1>8, <2>1, <2>2, <2>3, <2>4, <2>5 DEF Command
<1>9. CASE power_sleep
  BY <1>9, <1>0 DEF power_sleep
<1>10. CASE Tick
  <2>1. due > 0 => due' > 0 \/ Fires
    BY <1>10, <1>0 DEF Tick, Fires
  <2>2. CASE TickRunning
    <3>1. /\ power = "run" /\ at = "idle" /\ power' = "run" /\ at' = "top"
          /\ due > 0 => due' > 0 \/ rtc_alarm_on'
          /\ rtc_alarm_on => rtc_alarm_on'
          /\ UNCHANGED <<sleep, m_alarm_log, interval, history>>
      BY <1>10, <2>1, <2>2, <1>0 DEF Tick, TickRunning
    <3> QED BY <3>1
  <2>3. CASE TickStandby
    BY <1>10, <2>1, <2>3, <1>0 DEF Tick, TickStandby
  <2>4. ~ TickElsewhere
    BY <1>0 DEF TickElsewhere
  <2> QED BY <1>10, <2>2, <2>3, <2>4 DEF Tick
<1>11. ~ LowBattery /\ ~ RefuseBoot /\ ~ BatteryRecovers
  BY <1>0 DEF LowBattery, RefuseBoot, BatteryRecovers
<1>12. CASE FlipSwitch
  BY <1>12, <1>0 DEF FlipSwitch
<1>13. CASE PlugUsb
  BY <1>13, <1>0 DEF PlugUsb
<1>14. CASE UNCHANGED vars
  BY <1>14 DEF vars
<1> QED
  BY <1>1, <1>2, <1>3, <1>4, <1>5, <1>6, <1>7, <1>8, <1>9, <1>10, <1>11, <1>12,
     <1>13, <1>14 DEF Next, Progress, Environment

\* In ordinary use, sudden changes of the radiation included, the device never
\* loses the alarm of the next record, not by sleeping, waking, a changed
\* interval or a test alarm, unless a record had to wait for the readings to
\* become valid until the next one was due.
THEOREM ArmedAlways == Disturbances \subseteq {"jump"} => (Spec => []Armed)
<1> SUFFICES ASSUME Disturbances \subseteq {"jump"} PROVE Spec => []Armed
  OBVIOUS
<1>1. Init => ArmedInv
  BY DEF Init, ArmedInv, Fresh, BootInv, SleepInv, LoopInv, Armed,
         ArmedRunning, ArmedStandby
<1>2. TypeOK /\ TypeOK' /\ ArmedInv /\ [Next]_vars => ArmedInv'
  BY ArmedStep
<1>3. ArmedInv => Armed
  BY DEF ArmedInv
<1> QED BY <1>1, <1>2, <1>3, TypeCorrect, PTL DEF Spec

-----------------------------------------------------------------------------
(* Without jumps *)

\* A record waits for the warm-up only, so it is never later than that, and
\* the alarm that follows it is still ahead when it is armed.
PendingInv ==
  /\ Fresh /\ ~ overdue
  /\ power = "run" =>
       /\ m_alarm_log => since <= samples
       /\ m_alarm_log /\ at \in {"switch", "ui", "idle"} => samples < Warmup

\* The record that is stored is younger than the warm-up, and so than every
\* interval.
LEMMA StoredInTime ==
  ASSUME TypeOK, PendingInv, Running("log"), StoreRecord
  PROVE  ~ TooLate
<1> SUFFICES ASSUME m_log_interval_seconds > 0, SinceAlarm >= m_log_interval_seconds
             PROVE  FALSE
  BY DEF TooLate
<1>1. m_log_interval_seconds \in Intervals /\ m_log_interval_seconds \in Nat
  BY ControllerAssumption DEF TypeOK
<1>2. SinceAlarm \in Nat /\ SinceAlarm <= Warmup
  <2>1. CASE rtc_alarm_on
    BY <2>1, ControllerAssumption DEF SinceAlarm
  <2>2. CASE ~ rtc_alarm_on
    BY <2>2, ControllerAssumption DEF StoreRecord, PendingInv, Running, SinceAlarm, TypeOK
  <2> QED BY <2>1, <2>2
<1> QED BY <1>1, <1>2, ControllerAssumption

LEMMA PendingStep ==
  ASSUME Disturbances = {}, TypeOK, PendingInv, [Next]_vars
  PROVE  PendingInv'
<1> USE DEF PendingInv, Fresh, Running
<1>0. /\ Atomic
      /\ since \in Nat /\ samples \in Nat /\ Warmup \in Nat /\ samples <= Warmup
  BY ControllerAssumption DEF TypeOK, Atomic
<1>1. ASSUME power_standby, ~ overdue' PROVE PendingInv'
  BY <1>1 DEF power_standby, RamLost
<1>2. CASE WakeOnSwitch \/ Construct \/ StartLoop
  BY <1>2 DEF WakeOnSwitch, Construct, StartLoop
<1>3. CASE check_warning_level \/ PulseHidesSwitch
  BY <1>3 DEF check_warning_level, PulseHidesSwitch
<1>4. CASE do_logging
  <2>1. CASE NothingToLog
    BY <1>4, <2>1 DEF do_logging, NothingToLog
  <2>2. CASE RecordMustWait
    BY <1>4, <2>2, <1>0 DEF do_logging, RecordMustWait, SinceAlarm
  <2>3. CASE StoreRecord
    <3>1. ~ overdue'
      BY <1>4, <2>3, StoredInTime DEF do_logging, StoreRecord
    <3>2. CASE power_standby
      BY <1>1, <3>1, <3>2
    <3>3. CASE ~ power_standby
      BY <1>4, <2>3, <3>1, <3>3 DEF do_logging, StoreRecord
    <3> QED BY <3>2, <3>3
  <2> QED BY <1>4, <2>1, <2>2, <2>3 DEF do_logging
<1>5. CASE check_sleep_switch
  <2>1. CASE SwitchUnchanged \/ SwitchedToPowerup
    BY <1>5, <2>1 DEF check_sleep_switch, SwitchUnchanged, SwitchedToPowerup
  <2>2. CASE SwitchedToSleep
    <3>1. CASE StayAwake
      BY <1>5, <2>2, <3>1 DEF check_sleep_switch, SwitchedToSleep
    <3>2. CASE ~ StayAwake
      BY <1>5, <1>1, <2>2, <3>2 DEF check_sleep_switch, SwitchedToSleep
    <3> QED BY <3>1, <3>2
  <2> QED BY <1>5, <2>1, <2>2 DEF check_sleep_switch
<1>6. CASE Command
  <2>1. CASE NoCommand \/ event_screen_off \/ cmd_setalarm
    BY <2>1 DEF NoCommand, event_screen_off, cmd_setalarm, LineHandled, KeyHandled
  <2>2. ~ save_time /\ ~ serial_setrtc_run
    BY DEF save_time, serial_setrtc_run
  <2>3. ASSUME NEW i \in Intervals \cup {0}, save_loginterval(i) PROVE PendingInv'
    BY <2>3 DEF save_loginterval, KeyHandled
  <2>4. ASSUME NEW i \in Intervals \cup {0} PROVE ~ serial_setkeyval_run(i)
    BY DEF serial_setkeyval_run
  <2> QED BY <1>6, <2>1, <2>2, <2>3, <2>4 DEF Command
<1>7. CASE power_sleep
  BY <1>7 DEF power_sleep
<1>8. CASE Tick
  <2>1. UNCHANGED <<sleep, m_alarm_log, history>>
    BY <1>8 DEF Tick
  <2>2. CASE TickRunning
    <3>1. power = "run" /\ at = "idle" /\ power' = "run" /\ at' = "top"
      BY <2>2, <1>0 DEF TickRunning
    <3>2. m_alarm_log => samples < Warmup /\ since <= samples
      BY <3>1
    <3>3. m_alarm_log => samples' = samples + 1 /\ since' <= since + 1
      BY <2>2, <3>2, <1>0 DEF TickRunning, Measured
    <3>4. m_alarm_log => since' <= samples'
      <4>1. since' \in Nat
        BY <2>2, <1>0 DEF TickRunning
      <4> QED BY <3>2, <3>3, <4>1, <1>0
    <3> QED BY <2>1, <3>1, <3>4
  <2>3. CASE TickStandby \/ TickElsewhere
    BY <2>1, <2>3, <1>0 DEF TickStandby, TickElsewhere
  <2> QED BY <1>8, <2>2, <2>3 DEF Tick
<1>9. ~ LowBattery /\ ~ RefuseBoot
  BY DEF LowBattery, RefuseBoot
<1>10. CASE BatteryRecovers
  BY <1>10 DEF BatteryRecovers
<1>11. CASE FlipSwitch \/ PlugUsb
  BY <1>11 DEF FlipSwitch, PlugUsb
<1>12. CASE UNCHANGED vars
  BY <1>12 DEF vars
<1> QED
  BY <1>2, <1>3, <1>4, <1>5, <1>6, <1>7, <1>8, <1>9, <1>10, <1>11, <1>12
  DEF Next, Progress, Environment

\* As long as the radiation does not change suddenly, the next record is on its
\* way without exception: no record ever waits until the next one is due.
THEOREM ArmedWithoutJumps == Disturbances = {} => (Spec => [](ArmedRunning /\ ArmedStandby))
<1> SUFFICES ASSUME Disturbances = {} PROVE Spec => [](ArmedRunning /\ ArmedStandby)
  OBVIOUS
<1>1. Init => PendingInv
  BY DEF Init, PendingInv, Fresh
<1>2. TypeOK /\ PendingInv /\ [Next]_vars => PendingInv'
  BY PendingStep
<1>3. Disturbances \subseteq {"jump"}
  OBVIOUS
<1>4. Spec => []Armed
  BY <1>3, ArmedAlways
<1>5. PendingInv /\ Armed => ArmedRunning /\ ArmedStandby
  BY DEF PendingInv, Armed
<1> QED BY <1>1, <1>2, <1>4, <1>5, TypeCorrect, PTL DEF Spec

-----------------------------------------------------------------------------
(* The charger *)

\* A device goes dark only with the switch on sleep, and has seen it there.
DarkInv ==
  /\ Fresh /\ SleepInv
  /\ power = "boot" => m_last_switch_state = position

LEMMA DarkStep ==
  ASSUME "race" \notin Disturbances, TypeOK, DarkInv, [Next]_vars
  PROVE  DarkInv'
<1> USE DEF DarkInv, Fresh, SleepInv, Running
<1>0. Atomic
  BY DEF Atomic
<1>1. ASSUME power_standby PROVE DarkInv'
  BY <1>1 DEF power_standby, RamLost
<1>2. CASE WakeOnSwitch \/ Construct
  BY <1>2 DEF WakeOnSwitch, Construct
<1>3. CASE StartLoop
  <2>1. PICK wkup \in WkupLevels :
          IF WakeupRTC(wkup)
          THEN rtc_alarm_on' = TRUE /\ m_sleeping' = TRUE /\ UNCHANGED display
          ELSE m_sleeping' = FALSE /\ display' = TRUE /\ UNCHANGED rtc_alarm_on
    BY <1>3 DEF StartLoop
  <2>2. position = SWITCH_POWERUP => wkup = TRUE
    BY DEF WkupLevels
  <2>3. m_sleeping' => position = SWITCH_SLEEP
    BY <2>1, <2>2 DEF WakeupRTC, TypeOK, Positions
  <2> QED BY <1>3, <2>3 DEF StartLoop
<1>4. CASE check_warning_level
  BY <1>4 DEF check_warning_level
<1>5. CASE do_logging
  <2>1. \/ power' = "run" /\ UNCHANGED <<power, sleep>>
      \/ power_standby
    BY <1>5 DEF do_logging, NothingToLog, RecordMustWait, StoreRecord
  <2> QED BY <1>1, <2>1
<1>6. CASE PulseHidesSwitch
  BY <1>6 DEF PulseHidesSwitch
<1>7. CASE check_sleep_switch
  <2>1. CASE SwitchUnchanged
    BY <1>7, <2>1 DEF check_sleep_switch, SwitchUnchanged
  <2>2. CASE SwitchedToSleep
    <3>1. CASE StayAwake
      BY <1>7, <2>2, <3>1 DEF check_sleep_switch, SwitchedToSleep
    <3>2. CASE ~ StayAwake
      BY <1>1, <2>2, <3>2 DEF SwitchedToSleep
    <3> QED BY <3>1, <3>2
  <2>3. CASE SwitchedToPowerup
    BY <1>7, <2>3 DEF check_sleep_switch, SwitchedToPowerup
  <2> QED BY <1>7, <2>1, <2>2, <2>3 DEF check_sleep_switch
<1>8. CASE Command
  BY <1>8 DEF Command, NoCommand, event_screen_off, cmd_setalarm, save_time, serial_setrtc_run,
              save_loginterval, serial_setkeyval_run, LineHandled, KeyHandled
<1>9. CASE power_sleep
  BY <1>9 DEF power_sleep
<1>10. CASE Tick
  <2>1. UNCHANGED <<inputs, sleep, m_alarm_log>>
    BY <1>10 DEF Tick
  <2>2. power' = power \/ (power = "standby" /\ power' = "reset")
    BY <1>10 DEF Tick, TickRunning, TickStandby, TickElsewhere
  <2> QED BY <2>1, <2>2
<1>11. CASE LowBattery
  BY <1>1, <1>11 DEF LowBattery
<1>12. CASE RefuseBoot \/ BatteryRecovers
  BY <1>12 DEF RefuseBoot, BatteryRecovers
<1>13. CASE FlipSwitch
  BY <1>0, <1>13 DEF FlipSwitch
<1>14. CASE PlugUsb
  BY <1>14 DEF PlugUsb
<1>15. CASE UNCHANGED vars
  BY <1>15 DEF vars
<1> QED
  BY <1>2, <1>3, <1>4, <1>5, <1>6, <1>7, <1>8, <1>9, <1>10, <1>11, <1>12, <1>13, <1>14, <1>15
  DEF Next, Progress, Environment

\* The charger's safety timer is never cut off while the battery lasts: standby
\* is not entered on USB, for a device that is already dark cannot see the
\* switch move to sleep once more, whatever pulses, clock settings and stored
\* intervals come in between (check_sleep_switch, do_logging).
THEOREM UsbKeepsAwake ==
  Disturbances \cap {"race", "battery"} = {} => (Spec => NoStandbyOnUsb)
<1> SUFFICES ASSUME Disturbances \cap {"race", "battery"} = {} PROVE Spec => NoStandbyOnUsb
  OBVIOUS
<1> DEFINE Step == power = "run" /\ power' = "standby" => ~ usb
<1>1. DarkInv /\ [Next]_vars => [Step]_vars
  <2> SUFFICES ASSUME DarkInv, Next, power = "run", power' = "standby" PROVE ~ usb
    BY DEF vars
  <2>1. CASE do_logging
    BY <2>1 DEF do_logging, NothingToLog, RecordMustWait, StoreRecord, BackToStandby
  <2>2. CASE check_sleep_switch
    <3>1. SwitchedToSleep
      BY <2>2 DEF check_sleep_switch, SwitchUnchanged, SwitchedToPowerup
    <3>2. ~ m_sleeping
      BY <3>1 DEF SwitchedToSleep, DarkInv, SleepInv, SwitchMoved
    <3>3. power' # power
      OBVIOUS
    <3> QED BY <3>1, <3>2, <3>3 DEF SwitchedToSleep, StayAwake
  <2>3. ~ LowBattery
    BY DEF LowBattery
  <2>4. CASE WakeOnSwitch \/ Construct \/ StartLoop \/ check_warning_level
             \/ PulseHidesSwitch \/ Command
    BY <2>4 DEF WakeOnSwitch, Construct, StartLoop, check_warning_level,
                PulseHidesSwitch, Command, NoCommand, event_screen_off, cmd_setalarm,
                save_time, serial_setrtc_run, save_loginterval, serial_setkeyval_run
  <2>5. CASE power_sleep \/ Tick \/ RefuseBoot \/ BatteryRecovers \/ FlipSwitch \/ PlugUsb
    BY <2>5 DEF power_sleep, Tick, TickRunning, TickStandby, TickElsewhere,
                RefuseBoot, BatteryRecovers, FlipSwitch, PlugUsb
  <2> QED BY <2>1, <2>2, <2>3, <2>4, <2>5 DEF Next, Progress, Environment
<1>2. Init => DarkInv
  BY DEF Init, DarkInv, Fresh, SleepInv
<1>3. TypeOK /\ DarkInv /\ [Next]_vars => DarkInv'
  BY DarkStep
<1> QED BY <1>1, <1>2, <1>3, TypeCorrect, PTL DEF Spec, NoStandbyOnUsb

-----------------------------------------------------------------------------
(* The last alarm *)

N(b) == IF b THEN 1 ELSE 0

\* Alarms that may still come while there is no interval: the one in the flag,
\* the one in the alarm register, and the one that woke the device and is about
\* to be put into the flag.  An interval in RAM allows one that is left behind.
WokenBy == N(wuf /\ position = SWITCH_SLEEP)

LastInv ==
  /\ power = "run" =>
       IF m_log_interval_seconds = 0 THEN N(rtc_alarm_on) + N(due > 0) <= allowed
       ELSE allowed = 1
  /\ power \in {"standby", "lowbatt"} => N(due > 0) <= allowed
  /\ power = "reset" => N(due > 0) + WokenBy <= allowed
  /\ power = "boot" =>
       IF m_log_interval_seconds = 0 THEN N(due > 0) + WokenBy <= allowed /\ ~ rtc_alarm_on
       ELSE allowed = 1

\* Whatever forgets the interval in RAM leaves the alarm in the register.
LEMMA StandbyLast ==
  ASSUME TypeOK, power = "run", LastInv, power_standby, due' = due, allowed' = allowed
  PROVE  LastInv'
<1>1. due \in Nat /\ allowed \in Int /\ rtc_alarm_on \in BOOLEAN
  BY ControllerAssumption DEF TypeOK
<1>2. N(due > 0) <= allowed
  BY <1>1 DEF LastInv, N
<1> QED BY <1>2 DEF LastInv, power_standby

LEMMA LastStep ==
  ASSUME "race" \notin Disturbances, TypeOK, TypeOK', LastInv, [Next]_vars
  PROVE  LastInv'
<1> USE DEF LastInv, N, WokenBy, Running
<1>0. /\ Atomic
      /\ due \in Nat /\ due' \in Nat /\ allowed \in Int /\ allowed' \in Int
      /\ rtc_alarm_on \in BOOLEAN /\ rtc_alarm_on' \in BOOLEAN
      /\ wuf \in BOOLEAN /\ wuf' \in BOOLEAN
      /\ m_log_interval_seconds \in Nat /\ LOGINTERVAL \in Nat
      /\ \A i \in Intervals : i \in Nat \ {0}
  BY ControllerAssumption DEF TypeOK, Atomic
<1>1. CASE WakeOnSwitch
  BY <1>1, <1>0 DEF WakeOnSwitch, SWITCH_POWERUP, SWITCH_SLEEP
<1>2. CASE Construct
  <2>1. /\ power = "reset" /\ power' = "boot" /\ UNCHANGED <<due, wuf, position>>
        /\ m_log_interval_seconds' = LOGINTERVAL
        /\ allowed' = IF LOGINTERVAL > 0 THEN 1 ELSE allowed
    BY <1>2 DEF Construct
  <2>2. LOGINTERVAL = 0 => ~ rtc_alarm_on'
    <3>1. LOGINTERVAL = 0 => ~ (LOGINTERVAL > 0)
      OBVIOUS
    <3> HIDE DEF LastInv
    <3> QED BY <1>2, <3>1 DEF Construct
  <2> QED BY <2>1, <2>2, <1>0
<1>3. CASE StartLoop
  <2>1. PICK wkup \in WkupLevels :
          IF WakeupRTC(wkup)
          THEN rtc_alarm_on' = TRUE /\ m_sleeping' = TRUE /\ UNCHANGED display
          ELSE m_sleeping' = FALSE /\ display' = TRUE /\ UNCHANGED rtc_alarm_on
    BY <1>3 DEF StartLoop
  <2>2. position = SWITCH_POWERUP => wkup = TRUE
    BY DEF WkupLevels
  <2>3. rtc_alarm_on' => rtc_alarm_on \/ (wuf /\ position = SWITCH_SLEEP)
    BY <2>1, <2>2 DEF WakeupRTC, TypeOK, Positions
  <2>4. power = "boot" /\ power' = "run" /\ UNCHANGED <<due, allowed, m_log_interval_seconds>>
    BY <1>3 DEF StartLoop
  <2> QED BY <2>3, <2>4, <1>0
<1>4. CASE check_warning_level
  BY <1>4, <1>0 DEF check_warning_level
<1>5. CASE do_logging
  <2>1. CASE NothingToLog
    BY <1>5, <2>1, <1>0 DEF do_logging, NothingToLog
  <2>2. CASE RecordMustWait
    BY <1>5, <2>2, <1>0 DEF do_logging, RecordMustWait, AllowedNext
  <2>3. CASE StoreRecord
    <3>1. /\ m_log_interval_seconds = 0 => due' = due
          /\ allowed' = AllowedNext /\ power = "run" /\ ~ rtc_alarm_on'
          /\ \/ power' = "run" /\ m_log_interval_seconds' = m_log_interval_seconds
             \/ power' = "standby"
      BY <1>5, <2>3, <1>0 DEF do_logging, StoreRecord, power_standby, RamLost, NextAlarm
    <3>2. m_log_interval_seconds = 0 => N(due' > 0) <= allowed'
      BY <3>1, <1>0 DEF AllowedNext
    <3>3. m_log_interval_seconds # 0 => allowed' = 1
      BY <3>1, <1>0 DEF AllowedNext
    <3> QED BY <3>1, <3>2, <3>3, <1>0
  <2> QED BY <1>5, <2>1, <2>2, <2>3 DEF do_logging
<1>6. CASE PulseHidesSwitch
  BY <1>6, <1>0 DEF PulseHidesSwitch
<1>7. CASE check_sleep_switch
  <2>1. \/ power' = "run" /\ UNCHANGED <<power, rtc_alarm_on, m_log_interval_seconds>>
        \/ power_standby
    BY <1>7 DEF check_sleep_switch, SwitchUnchanged, SwitchedToSleep, SwitchedToPowerup
  <2>2. power = "run" /\ UNCHANGED <<due, allowed>>
    BY <1>7 DEF check_sleep_switch
  <2>3. CASE power_standby
    BY <2>2, <2>3, StandbyLast
  <2> QED BY <2>1, <2>2, <2>3, <1>0
<1>8. CASE Command
  <2>1. CASE NoCommand \/ event_screen_off
    BY <2>1, <1>0 DEF NoCommand, event_screen_off, LineHandled, KeyHandled
  <2>2. CASE cmd_setalarm
    BY <2>2, <1>0 DEF cmd_setalarm, LineHandled
  <2>3. CASE save_time \/ serial_setrtc_run
    <3>1. /\ power = "run" /\ UNCHANGED <<power, rtc_alarm_on, m_log_interval_seconds, allowed>>
          /\ m_log_interval_seconds = 0 /\ due = 0 => due' = 0
      BY <2>3, <1>0 DEF save_time, serial_setrtc_run, LineHandled, KeyHandled
    <3> QED BY <3>1, <1>0
  <2>4. ASSUME NEW i \in Intervals \cup {0}, save_loginterval(i) PROVE LastInv'
    <3>1. /\ power = "run" /\ power' = "run" /\ ~ rtc_alarm_on' /\ m_log_interval_seconds' = i
          /\ i = 0 => due' = due
          /\ allowed' = IF i > 0 \/ m_log_interval_seconds > 0 THEN 1 ELSE allowed
      BY <2>4, <1>0 DEF save_loginterval, KeyHandled
    <3> QED BY <3>1, <1>0
  <2>5. ASSUME NEW i \in Intervals \cup {0}, serial_setkeyval_run(i) PROVE LastInv'
    BY <2>5, <1>0 DEF serial_setkeyval_run, LineHandled
  <2> QED BY <1>8, <2>1, <2>2, <2>3, <2>4, <2>5 DEF Command
<1>9. CASE power_sleep
  BY <1>9, <1>0 DEF power_sleep
<1>10. CASE Tick
  <2>1. /\ UNCHANGED <<position, allowed, m_log_interval_seconds>>
        /\ due' = IF due > 0 THEN due - 1 ELSE 0
    BY <1>10 DEF Tick
  <2>2. CASE TickRunning
    <3>1. power = "run" /\ power' = "run" /\ rtc_alarm_on' = (rtc_alarm_on \/ Fires)
      BY <2>2 DEF TickRunning
    <3> QED BY <2>1, <3>1, <1>0 DEF Fires
  <2>3. CASE TickStandby
    <3>1. CASE Fires
      BY <2>1, <2>3, <3>1, <1>0 DEF TickStandby, Fires
    <3>2. CASE ~ Fires
      BY <2>1, <2>3, <3>2, <1>0 DEF TickStandby
    <3> QED BY <3>1, <3>2
  <2>4. CASE TickElsewhere
    BY <2>1, <2>4, <1>0 DEF TickElsewhere
  <2> QED BY <1>10, <2>2, <2>3, <2>4 DEF Tick
<1>11. CASE LowBattery
  BY <1>11, StandbyLast DEF LowBattery
<1>12. CASE RefuseBoot
  BY <1>12, <1>0 DEF RefuseBoot
<1>13. CASE BatteryRecovers
  BY <1>13, <1>0 DEF BatteryRecovers
<1>14. CASE FlipSwitch
  BY <1>14, <1>0 DEF FlipSwitch
<1>15. CASE PlugUsb
  BY <1>15, <1>0 DEF PlugUsb
<1>16. CASE UNCHANGED vars
  BY <1>16 DEF vars
<1> QED
  BY <1>1, <1>2, <1>3, <1>4, <1>5, <1>6, <1>7, <1>8, <1>9, <1>10, <1>11, <1>12,
     <1>13, <1>14, <1>15, <1>16 DEF Next, Progress, Environment

\* Setting the interval to 0 leaves at most one alarm to come, also across
\* standby and the wake-up that alarm causes, and whatever pulses, flat
\* batteries, clock settings and stored intervals come in between (do_logging).
THEOREM LastAlarmAlways == "race" \notin Disturbances => (Spec => []LastAlarm)
<1> SUFFICES ASSUME "race" \notin Disturbances PROVE Spec => []LastAlarm
  OBVIOUS
<1>1. Init => LastInv
  BY DEF Init, LastInv, N, WokenBy
<1>2. TypeOK /\ TypeOK' /\ LastInv /\ [Next]_vars => LastInv'
  BY LastStep
<1>3. TypeOK /\ LastInv => LastAlarm
  BY DEF TypeOK, LastInv, LastAlarm, N
<1> QED BY <1>1, <1>2, <1>3, TypeCorrect, PTL DEF Spec

-----------------------------------------------------------------------------
(* Under any disturbances *)

\* The request to power up is consumed when it lights the screen, and dropped
\* when the device goes dark.
WakeInv == Fresh /\ ~ (m_powerup /\ m_sleeping)

\* What WakesOnlyBySwitch says of a step.
WakeRule ==
  power = "run" /\ power' = "run" /\ m_sleeping =>
    /\ ~ m_sleeping' \/ (keys' /\ ~ keys) => position = SWITCH_POWERUP
    /\ display' /\ ~ display =>
         \/ position = SWITCH_POWERUP
         \/ m_warning_raised' /\ ~ m_warning_raised

LEMMA WakeStep ==
  ASSUME TypeOK, WakeInv, Next
  PROVE  WakeInv' /\ WakeRule
<1> USE DEF WakeInv, WakeRule, Fresh, Running
<1>1. CASE WakeOnSwitch \/ Construct \/ StartLoop
  <2>1. power' # "run" \/ power = "boot"
    BY <1>1 DEF WakeOnSwitch, Construct, StartLoop
  <2>2. ~ m_powerup' /\ ~ m_alarm_log' /\ (power' # "run" => ~ m_sleeping')
    BY <1>1 DEF WakeOnSwitch, Construct, StartLoop
  <2> QED BY <2>1, <2>2
<1>2. CASE check_warning_level \/ PulseHidesSwitch
  <2>1. CASE PulseHidesSwitch
    BY <2>1 DEF PulseHidesSwitch
  <2>2. CASE check_warning_level
    <3>1. UNCHANGED <<power, m_sleeping, m_powerup, m_alarm_log, keys>>
      BY <2>2 DEF check_warning_level
    <3>2. PICK high \in BOOLEAN :
            /\ m_warning_raised' = high
            /\ display' = (display \/ (high /\ ~ m_warning_raised /\ m_sleeping))
      BY <2>2 DEF check_warning_level
    <3>3. display' /\ ~ display => m_warning_raised' /\ ~ m_warning_raised
      BY <3>2, Zenon
    <3> QED BY <3>1, <3>3
  <2> QED BY <1>2, <2>1, <2>2
<1>3. CASE do_logging
  BY <1>3 DEF do_logging, NothingToLog, RecordMustWait, StoreRecord,
              power_standby, RamLost
<1>4. CASE check_sleep_switch
  BY <1>4 DEF check_sleep_switch, SwitchUnchanged, SwitchedToSleep,
              SwitchedToPowerup, power_standby, RamLost
<1>5. CASE Command
  <2>1. CASE NoCommand \/ event_screen_off \/ cmd_setalarm
    BY <2>1 DEF NoCommand, event_screen_off, cmd_setalarm, KeyHandled, LineHandled
  <2>2. CASE save_time
    BY <2>2 DEF save_time, KeyHandled
  <2>3. CASE serial_setrtc_run
    BY <2>3 DEF serial_setrtc_run, LineHandled
  <2>4. CASE \E i \in Intervals \cup {0} : save_loginterval(i) \/ serial_setkeyval_run(i)
    BY <2>4 DEF save_loginterval, serial_setkeyval_run, KeyHandled, LineHandled
  <2> QED BY <1>5, <2>1, <2>2, <2>3, <2>4 DEF Command
<1>6. CASE power_sleep
  BY <1>6 DEF power_sleep
<1>7. CASE Tick
  <2>1. UNCHANGED <<sleep, m_alarm_log, panel>>
    BY <1>7 DEF Tick
  <2>2. power # "run" => power' # "run"
    BY <1>7 DEF Tick, TickRunning, TickStandby, TickElsewhere
  <2>3. power = "run" => power' = "run"
    BY <1>7 DEF Tick, TickRunning, TickStandby, TickElsewhere
  <2> QED BY <2>1, <2>2, <2>3
<1>8. CASE LowBattery
  BY <1>8 DEF LowBattery, power_standby, RamLost
<1>9. CASE RefuseBoot \/ BatteryRecovers
  <2>1. CASE RefuseBoot
    BY <2>1 DEF RefuseBoot
  <2>2. CASE BatteryRecovers
    BY <2>2 DEF BatteryRecovers
  <2> QED BY <1>9, <2>1, <2>2
<1>10. CASE FlipSwitch \/ PlugUsb
  BY <1>10 DEF FlipSwitch, PlugUsb
<1> QED BY <1>1, <1>2, <1>3, <1>4, <1>5, <1>6, <1>7, <1>8, <1>9, <1>10
        DEF Next, Progress, Environment

\* Whatever races, jumps, pulses, battery, clock and settings do, only the switch
\* ends the sleep of a running device or gives it its keys back, and only the
\* switch and a warning that begins light its screen.
THEOREM SwitchWakes == Spec => WakesOnlyBySwitch
<1>1. Init => WakeInv
  BY DEF Init, WakeInv, Fresh
<1>2. TypeOK /\ WakeInv /\ [Next]_vars => WakeInv' /\ [WakeRule]_vars
  <2>1. CASE UNCHANGED vars
    BY <2>1 DEF vars, WakeInv, Fresh
  <2>2. ASSUME TypeOK, WakeInv, Next PROVE WakeInv' /\ WakeRule
    BY <2>2, WakeStep
  <2> QED BY <2>1, <2>2
<1>3. WakeRule <=> (power = "run" /\ power' = "run" /\ m_sleeping =>
        /\ ~ m_sleeping' \/ (keys' /\ ~ keys) => position = SWITCH_POWERUP
        /\ display' /\ ~ display =>
             \/ position = SWITCH_POWERUP
             \/ m_warning_raised' /\ ~ m_warning_raised)
  BY DEF WakeRule
<1> QED BY <1>1, <1>2, <1>3, TypeCorrect, PTL DEF Spec, WakesOnlyBySwitch

=============================================================================
