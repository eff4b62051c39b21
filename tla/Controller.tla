----------------------------- MODULE Controller -----------------------------
(***************************************************************************)
(* Measuring, logging and sleeping: Controller.cpp with the main loop of   *)
(* main.cpp, the RTC alarm of rtc.c and the standby mode of power.cpp.     *)
(*                                                                         *)
(* The device is a loop that sleeps (WFI) until an interrupt, or it is in  *)
(* standby, where RAM is lost and only the switch or the RTC alarm resets  *)
(* the processor.  Time is counted in ticks; one alarm register decides    *)
(* when the next record is due, so losing it ends logging for good.        *)
(*                                                                         *)
(* Disturbances names what a run adds to ordinary use:                     *)
(*   "jump"    a sudden change of the radiation, which makes the readings  *)
(*             invalid and starts the averaging again,                     *)
(*   "race"    a tick, or the switch moving, between any two steps,        *)
(*   "battery" the battery running low and being charged again,            *)
(*   "pulse"   a Geiger pulse on the WKUP pin while it is read at boot,    *)
(*   "clock"   the clock being set, from the GUI or the serial port,       *)
(*   "keyval"  LOGINTERVAL being written from the serial port.             *)
(***************************************************************************)
EXTENDS Integers

CONSTANTS
  Intervals,     \* log intervals the user can save, in ticks
  MaxInterval,   \* an upper bound of them, and of how far the clock is moved
  Warmup,        \* ticks of measuring before is_cpm30_valid
  TestAlarm,     \* ticks from a SETALARM to its alarm
  Disturbances

ASSUME ControllerAssumption ==
  /\ Warmup \in Nat /\ MaxInterval \in Nat \ {0}
  /\ TestAlarm \in 1 .. MaxInterval
  /\ \A i \in Intervals : i \in Nat /\ i > Warmup /\ i <= MaxInterval

SWITCH_SLEEP   == "sleep"
SWITCH_POWERUP == "powerup"
Positions == {SWITCH_SLEEP, SWITCH_POWERUP}

VARIABLES
  power,     \* standby, reset, boot (constructors ran), run, or lowbatt
  at,        \* next step of the main loop
  position,  \* the switch at the back
  usb,       \* power_charging() || power_charged()
  due,       \* ticks until the RTC counter equals the alarm register; 0 is never
  rtc_alarm_on,  \* the flag of that name, or RTC_CRL_ALRF not yet folded into it
  wuf,       \* PWR_CSR_WUF
  samples,   \* ticks of measuring since boot or the last jump, up to Warmup
  since,     \* ticks since m_last_alarm_time, while a record is pending
  m_sleeping, m_powerup, m_alarm_log, m_last_switch_state, m_warning_raised,
  display, keys,                 \* screen and captouch powered
  m_log_interval_seconds,        \* in RAM
  LOGINTERVAL,                   \* in flash
  allowed,   \* history: alarms that may still come while the interval is 0
  overdue    \* history: a record waited so long that the alarm set when it was
             \* stored lay in the past, and none has been set since

inputs   == <<position, usb>>
rtc      == <<due, rtc_alarm_on>>
measure  == <<samples, since>>
sleep    == <<m_sleeping, m_powerup, m_last_switch_state>>
panel    == <<display, keys>>
interval == <<m_log_interval_seconds, LOGINTERVAL>>
history  == <<allowed, overdue>>
vars == <<power, at, inputs, rtc, wuf, measure, sleep, m_alarm_log,
          m_warning_raised, panel, interval, history>>

Atomic == "race" \notin Disturbances
Running(pc) == power = "run" /\ at = pc

-----------------------------------------------------------------------------
(* Standby and reset *)

RamLost ==
  /\ samples' = 0 /\ since' = 0 /\ rtc_alarm_on' = FALSE
  /\ m_sleeping' = FALSE /\ m_powerup' = FALSE
  /\ m_alarm_log' = FALSE /\ m_warning_raised' = FALSE
  /\ m_last_switch_state' = SWITCH_POWERUP
  /\ m_log_interval_seconds' = 0
  /\ display' = FALSE /\ keys' = FALSE

power_standby == power' = "standby" /\ at' = "off" /\ wuf' = FALSE /\ RamLost

\* The switch drives the WKUP pin, which wakes the device also when it is
\* high already on entry.
WakeOnSwitch ==
  /\ power = "standby" /\ position = SWITCH_POWERUP
  /\ power' = "reset" /\ wuf' = TRUE
  /\ UNCHANGED <<at, inputs, rtc, measure, sleep, m_alarm_log,
                 m_warning_raised, panel, interval, history>>

\* The constructors of main(); Controller::Controller disables the alarm when
\* there is no interval, and leaves the alarm register alone when there is one.
Construct ==
  /\ power = "reset"
  /\ power' = "boot"
  /\ m_last_switch_state' = position
  /\ m_log_interval_seconds' = LOGINTERVAL
  /\ rtc_alarm_on' = (rtc_alarm_on /\ LOGINTERVAL > 0)
  /\ keys' = TRUE
  /\ allowed' = IF LOGINTERVAL > 0 THEN 1 ELSE allowed
  /\ UNCHANGED <<at, inputs, due, wuf, measure, m_sleeping, m_powerup,
                 m_alarm_log, m_warning_raised, display, LOGINTERVAL, overdue>>

\* power_get_wakeup_source() == WAKEUP_RTC, given the level of the WKUP pin.
WakeupRTC(wkup) == wuf /\ ~ wkup

WkupLevels ==
  IF position = SWITCH_POWERUP THEN {TRUE}
  ELSE IF "pulse" \in Disturbances THEN BOOLEAN ELSE {FALSE}

\* The RTC flag alone is trusted, but a reset may have cleared it.
StartLoop_TrustsFlag ==
  /\ power = "boot"
  /\ power' = "run" /\ at' = "top"
  /\ \E wkup \in WkupLevels :
       m_sleeping' = WakeupRTC(wkup) /\ display' = ~ WakeupRTC(wkup)
  /\ UNCHANGED <<inputs, rtc, wuf, measure, m_powerup, m_last_switch_state,
                 m_alarm_log, m_warning_raised, keys, interval, history>>

StartLoop ==
  /\ power = "boot"
  /\ power' = "run" /\ at' = "top"
  /\ \E wkup \in WkupLevels :
       IF WakeupRTC(wkup)
       THEN rtc_alarm_on' = TRUE /\ m_sleeping' = TRUE /\ UNCHANGED display
       ELSE m_sleeping' = FALSE /\ display' = TRUE /\ UNCHANGED rtc_alarm_on
  /\ UNCHANGED <<inputs, due, wuf, measure, m_powerup, m_last_switch_state,
                 m_alarm_log, m_warning_raised, keys, interval, history>>

-----------------------------------------------------------------------------
(* The main loop: battery, check_warning_level, do_logging,                *)
(* check_sleep_switch, GUI and serial port, then sleep until an interrupt.  *)

\* The readings of this iteration are at or above the warning level, or not.
check_warning_level ==
  /\ Running("top")
  /\ at' = "log"
  /\ \E high \in BOOLEAN :
       /\ m_warning_raised' = high
       /\ display' = (display \/ (high /\ ~ m_warning_raised /\ m_sleeping))
  /\ UNCHANGED <<power, inputs, rtc, wuf, measure, sleep, m_alarm_log,
                 keys, interval, history>>

\* An alarm at m_last_alarm_time + n never comes once that time has passed.
AlarmAfter(n, elapsed) == IF elapsed < n THEN n - elapsed ELSE 0

AllowedNext ==      \* -1 is one alarm too many
  IF rtc_alarm_on /\ m_log_interval_seconds = 0 /\ allowed >= 0
  THEN allowed - 1 ELSE allowed

SinceAlarm == IF rtc_alarm_on THEN 0 ELSE since   \* with m_last_alarm_time set

\* The alarm is set again only on the path that does not go back to standby.
NextAlarm_Late ==
  IF m_log_interval_seconds > 0 /\ ~ m_sleeping
  THEN AlarmAfter(m_log_interval_seconds, SinceAlarm) ELSE due

NextAlarm ==
  IF m_log_interval_seconds > 0
  THEN AlarmAfter(m_log_interval_seconds, SinceAlarm) ELSE due

\* The next record was due before this one could be stored.
TooLate == m_log_interval_seconds > 0 /\ SinceAlarm >= m_log_interval_seconds

\* The comment that the screen "should be off already" taken as a condition.
BackToStandby_IfDark == m_sleeping /\ ~ usb /\ ~ display

BackToStandby == m_sleeping /\ ~ usb

NothingToLog ==
  /\ ~ rtc_alarm_on /\ ~ m_alarm_log
  /\ at' = "switch"
  /\ UNCHANGED <<power, inputs, rtc, wuf, measure, sleep, m_alarm_log,
                 m_warning_raised, panel, interval, history>>

\* The alarm taken over without clearing its flag.
RecordMustWait_KeepsFlag ==
  /\ rtc_alarm_on \/ m_alarm_log
  /\ samples < Warmup
  /\ at' = "switch"
  /\ m_alarm_log' = TRUE
  /\ since' = SinceAlarm /\ allowed' = AllowedNext
  /\ UNCHANGED <<power, inputs, rtc, wuf, samples, sleep, m_warning_raised,
                 panel, interval, overdue>>

RecordMustWait ==
  /\ rtc_alarm_on \/ m_alarm_log
  /\ samples < Warmup
  /\ at' = "switch"
  /\ m_alarm_log' = TRUE /\ rtc_alarm_on' = FALSE
  /\ since' = SinceAlarm /\ allowed' = AllowedNext
  /\ UNCHANGED <<power, inputs, due, wuf, samples, sleep, m_warning_raised,
                 panel, interval, overdue>>

StoreRecord ==
  /\ rtc_alarm_on \/ m_alarm_log
  /\ samples = Warmup
  /\ allowed' = AllowedNext
  /\ due' = NextAlarm /\ overdue' = TooLate
  /\ IF BackToStandby
     THEN power_standby
     ELSE /\ at' = "switch"
          /\ m_alarm_log' = FALSE /\ rtc_alarm_on' = FALSE /\ since' = 0
          /\ UNCHANGED <<power, wuf, samples, sleep, m_warning_raised, panel,
                         m_log_interval_seconds>>
  /\ UNCHANGED <<inputs, LOGINTERVAL>>

do_logging == Running("log") /\ (NothingToLog \/ RecordMustWait \/ StoreRecord)

\* A pulse makes the switch unreadable, so this round ignores it.
PulseHidesSwitch ==
  /\ Running("switch") /\ at' = "ui"
  /\ UNCHANGED <<power, inputs, rtc, wuf, measure, sleep, m_alarm_log,
                 m_warning_raised, panel, interval, history>>

\* The switch ignored on USB, or in the dark.
SwitchMoved_NotOnUsb == position # m_last_switch_state /\ ~ usb
SwitchMoved_NotInTheDark == position # m_last_switch_state /\ ~ m_sleeping

SwitchMoved == position # m_last_switch_state

SwitchUnchanged ==
  /\ ~ SwitchMoved
  /\ ~ (m_powerup /\ m_sleeping)
  /\ at' = "ui"
  /\ UNCHANGED <<power, wuf, samples, since, rtc_alarm_on, sleep, m_alarm_log,
                 m_warning_raised, panel, m_log_interval_seconds>>

\* The charger's safety timer, or a record, keeps a device in use from standby.
StayAwake_ForRecord == m_alarm_log /\ ~ m_sleeping

StayAwake == (m_alarm_log \/ usb) /\ ~ m_sleeping

\* The remembered edge outlives going to sleep.
SwitchedToSleep_KeepsEdge ==
  /\ SwitchMoved /\ position = SWITCH_SLEEP
  /\ IF StayAwake
     THEN /\ at' = "ui"
          /\ m_last_switch_state' = position
          /\ m_sleeping' = TRUE /\ UNCHANGED m_powerup
          /\ display' = FALSE /\ keys' = FALSE
          /\ UNCHANGED <<power, wuf, samples, since, rtc_alarm_on, m_alarm_log,
                         m_warning_raised, m_log_interval_seconds>>
     ELSE power_standby

SwitchedToSleep ==
  /\ SwitchMoved /\ position = SWITCH_SLEEP
  /\ IF StayAwake
     THEN /\ at' = "ui"
          /\ m_last_switch_state' = position
          /\ m_powerup' = FALSE /\ m_sleeping' = TRUE
          /\ display' = FALSE /\ keys' = FALSE
          /\ UNCHANGED <<power, wuf, samples, since, rtc_alarm_on, m_alarm_log,
                         m_warning_raised, m_log_interval_seconds>>
     ELSE power_standby

\* A sleeping device lights up; one that is on remembers the edge.
SwitchedToPowerup ==
  /\ \/ SwitchMoved /\ position = SWITCH_POWERUP
     \/ ~ SwitchMoved /\ m_powerup /\ m_sleeping
  /\ at' = "ui"
  /\ m_last_switch_state' = position
  /\ m_powerup' = ~ m_sleeping /\ m_sleeping' = FALSE
  /\ display' = (display \/ m_sleeping) /\ keys' = (keys \/ m_sleeping)
  /\ UNCHANGED <<power, wuf, samples, since, rtc_alarm_on, m_alarm_log,
                 m_warning_raised, m_log_interval_seconds>>

check_sleep_switch ==
  /\ Running("switch")
  /\ SwitchUnchanged \/ SwitchedToSleep \/ SwitchedToPowerup
  /\ UNCHANGED <<inputs, due, LOGINTERVAL, history>>

-----------------------------------------------------------------------------
(* Commands.  The GUI ignores keys while sleeping; the serial port does not. *)

KeyHandled == Running("ui") /\ ~ m_sleeping /\ keys /\ at' = "idle"
LineHandled == Running("ui") /\ at' = "idle"

NoCommand ==
  /\ LineHandled
  /\ UNCHANGED <<power, inputs, rtc, wuf, measure, sleep, m_alarm_log,
                 m_warning_raised, panel, interval, history>>

save_loginterval(i) ==
  /\ KeyHandled
  /\ m_log_interval_seconds' = i /\ LOGINTERVAL' = i
  /\ rtc_alarm_on' = FALSE
  /\ due' = IF i > 0 THEN i ELSE due
  /\ allowed' = IF i > 0 \/ m_log_interval_seconds > 0 THEN 1 ELSE allowed
  /\ overdue' = FALSE
  /\ UNCHANGED <<power, inputs, wuf, measure, sleep, m_alarm_log,
                 m_warning_raised, panel>>

event_screen_off ==
  /\ KeyHandled
  /\ display' = FALSE /\ keys' = FALSE
  /\ UNCHANGED <<power, inputs, rtc, wuf, measure, sleep, m_alarm_log,
                 m_warning_raised, interval, history>>

\* SETALARM: a test alarm ten seconds from now, instead of the one armed.
cmd_setalarm ==
  /\ LineHandled
  /\ due' = TestAlarm /\ overdue' = FALSE
  /\ allowed' = IF m_log_interval_seconds > 0 THEN allowed
                ELSE IF rtc_alarm_on THEN 2 ELSE 1
  /\ UNCHANGED <<power, inputs, rtc_alarm_on, wuf, measure, sleep, m_alarm_log,
                 m_warning_raised, panel, interval>>

\* Moving the clock moves the alarm and m_last_alarm_time away from it.
ClockMoved ==
  since' \in IF m_alarm_log THEN 0 .. MaxInterval ELSE {0}

save_time ==
  /\ KeyHandled /\ "clock" \in Disturbances
  /\ ClockMoved
  /\ IF m_log_interval_seconds > 0 THEN due' = m_log_interval_seconds
     ELSE due' \in IF due > 0 THEN 0 .. MaxInterval ELSE {0}
  /\ overdue' = (overdue /\ m_log_interval_seconds = 0)
  /\ UNCHANGED <<power, inputs, rtc_alarm_on, wuf, samples, sleep, m_alarm_log,
                 m_warning_raised, panel, interval, allowed>>

serial_setrtc_run ==
  /\ LineHandled /\ "clock" \in Disturbances
  /\ ClockMoved
  /\ due' \in IF due > 0 THEN 0 .. MaxInterval ELSE {0}
  /\ UNCHANGED <<power, inputs, rtc_alarm_on, wuf, samples, sleep, m_alarm_log,
                 m_warning_raised, panel, interval, history>>

serial_setkeyval_run(i) ==
  /\ LineHandled /\ "keyval" \in Disturbances
  /\ LOGINTERVAL' = i
  /\ UNCHANGED <<power, inputs, rtc, wuf, measure, sleep, m_alarm_log,
                 m_warning_raised, panel, m_log_interval_seconds, history>>

-----------------------------------------------------------------------------
(* Interrupts, time, and the hands of the user *)

power_sleep ==      \* any interrupt ends the WFI: a pulse, a key, the UART
  /\ Running("idle") /\ at' = "top"
  /\ UNCHANGED <<power, inputs, rtc, wuf, measure, sleep, m_alarm_log,
                 m_warning_raised, panel, interval, history>>

Fires == due = 1

Measured_Unsaturated == {samples + 1}

\* A jump invalidates what was measured; the few windows that are kept are less
\* than one tick.
Measured ==
  {IF samples < Warmup THEN samples + 1 ELSE samples}
    \cup (IF "jump" \in Disturbances THEN {0} ELSE {})

TickRunning ==
  /\ power = "run" /\ (at = "idle" \/ ~ Atomic)
  /\ at' = IF at = "idle" THEN "top" ELSE at
  /\ samples' \in Measured
  /\ since' = IF m_alarm_log /\ since < MaxInterval THEN since + 1 ELSE since
  /\ rtc_alarm_on' = (rtc_alarm_on \/ Fires)
  /\ UNCHANGED <<power, wuf>>

\* Whether the alarm flag of the RTC outlives the reset is up to the hardware.
TickStandby ==
  /\ power = "standby" /\ (position = SWITCH_SLEEP \/ ~ Atomic)
  /\ IF Fires THEN power' = "reset" /\ wuf' = TRUE /\ rtc_alarm_on' \in BOOLEAN
     ELSE UNCHANGED <<power, wuf, rtc_alarm_on>>
  /\ UNCHANGED <<at, measure>>

TickElsewhere ==    \* an alarm during boot is seen by the loop, or wasted
  /\ power = "lowbatt" \/ (power \in {"reset", "boot"} /\ ~ Atomic)
  /\ rtc_alarm_on' = (rtc_alarm_on \/ (Fires /\ power = "boot"))
  /\ UNCHANGED <<power, wuf, at, measure>>

Tick ==
  /\ TickRunning \/ TickStandby \/ TickElsewhere
  /\ due' = IF due > 0 THEN due - 1 ELSE 0
  /\ UNCHANGED <<inputs, sleep, m_alarm_log, m_warning_raised, panel, interval,
                 history>>

\* With the battery below 10% the loop forgets a due alarm and stops.
LowBattery ==
  /\ "battery" \in Disturbances /\ Running("top")
  /\ power_standby
  /\ UNCHANGED <<inputs, due, LOGINTERVAL, history>>

\* Below 20% the device refuses to boot, until 50%, when it resets itself.
RefuseBoot ==
  /\ "battery" \in Disturbances /\ power = "reset"
  /\ power' = "lowbatt" /\ rtc_alarm_on' = FALSE
  /\ UNCHANGED <<at, inputs, due, wuf, measure, sleep, m_alarm_log,
                 m_warning_raised, panel, interval, history>>

BatteryRecovers ==
  /\ power = "lowbatt"
  /\ power' = "reset" /\ wuf' = FALSE /\ rtc_alarm_on' = FALSE
  /\ UNCHANGED <<at, inputs, due, measure, sleep, m_alarm_log,
                 m_warning_raised, panel, interval, history>>

FlipSwitch ==
  /\ power \in {"run", "standby"} \/ ~ Atomic
  /\ position' \in Positions \ {position}
  /\ UNCHANGED <<power, at, usb, rtc, wuf, measure, sleep, m_alarm_log,
                 m_warning_raised, panel, interval, history>>

PlugUsb ==
  /\ usb' = ~ usb
  /\ UNCHANGED <<power, at, position, rtc, wuf, measure, sleep, m_alarm_log,
                 m_warning_raised, panel, interval, history>>

-----------------------------------------------------------------------------
\* Out of the box, with no interval saved.
Init ==
  /\ power = "reset" /\ at = "off"
  /\ position \in Positions /\ usb \in BOOLEAN
  /\ due = 0 /\ rtc_alarm_on = FALSE /\ wuf = FALSE
  /\ samples = 0 /\ since = 0
  /\ m_sleeping = FALSE /\ m_powerup = FALSE /\ m_last_switch_state = SWITCH_POWERUP
  /\ m_alarm_log = FALSE /\ m_warning_raised = FALSE
  /\ display = FALSE /\ keys = FALSE
  /\ m_log_interval_seconds = 0 /\ LOGINTERVAL = 0
  /\ allowed = 0 /\ overdue = FALSE

Command ==
  \/ NoCommand \/ event_screen_off \/ cmd_setalarm
  \/ save_time \/ serial_setrtc_run
  \/ \E i \in Intervals \cup {0} : save_loginterval(i) \/ serial_setkeyval_run(i)

\* What the processor does by itself, without waiting for anything.
Progress ==
  \/ WakeOnSwitch \/ Construct \/ StartLoop
  \/ check_warning_level \/ do_logging
  \/ PulseHidesSwitch \/ check_sleep_switch \/ Command

Environment ==
  \/ power_sleep \/ Tick \/ LowBattery \/ RefuseBoot \/ BatteryRecovers
  \/ FlipSwitch \/ PlugUsb

Next == Progress \/ Environment

\* The processor keeps running, time keeps passing, and a switch read over and
\* over is not hidden by a pulse every time.
Fairness == WF_vars(Progress) /\ SF_vars(Tick) /\ SF_vars(check_sleep_switch)

Spec == Init /\ [][Next]_vars /\ Fairness

-----------------------------------------------------------------------------
(* Properties *)

TypeOK ==
  /\ power \in {"standby", "reset", "boot", "run", "lowbatt"}
  /\ at \in {"off", "top", "log", "switch", "ui", "idle"}
  /\ position \in Positions /\ m_last_switch_state \in Positions
  /\ usb \in BOOLEAN /\ rtc_alarm_on \in BOOLEAN /\ wuf \in BOOLEAN
  /\ due \in 0 .. MaxInterval /\ since \in 0 .. MaxInterval
  /\ samples \in 0 .. Warmup
  /\ m_sleeping \in BOOLEAN /\ m_powerup \in BOOLEAN /\ m_alarm_log \in BOOLEAN
  /\ m_warning_raised \in BOOLEAN /\ display \in BOOLEAN /\ keys \in BOOLEAN
  /\ m_log_interval_seconds \in Intervals \cup {0}
  /\ LOGINTERVAL \in Intervals \cup {0}
  /\ allowed \in -1 .. 2 /\ overdue \in BOOLEAN

\* While an interval is set the next record is always on its way: an alarm is
\* armed, or it has come and its record is being waited for.  This is what
\* every path through do_logging, check_sleep_switch, save_loginterval and
\* standby has to leave behind, for nothing else ever arms the alarm again.
\* In the code it holds as long as no record waits for the readings to become
\* valid until the next one is due.
ArmedRunning == power = "run" /\ m_log_interval_seconds > 0
                  => due > 0 \/ rtc_alarm_on \/ m_alarm_log
ArmedStandby == power = "standby" /\ LOGINTERVAL > 0 => due > 0
Armed == overdue \/ (ArmedRunning /\ ArmedStandby)

\* The readings become valid again and again while a record waits for them.
KeepsMeasuring == []<>(m_alarm_log => samples = Warmup)

\* An interval that stays set, and is neither saved nor replaced by a test alarm
\* over and over, yields records for ever, whatever the user does with the
\* switch, the screen and the USB cable in the meantime, provided the readings
\* become valid again after every jump and no record waits for that as long as
\* an interval (do_logging, or else the alarm is lost: ArmedRunning).
LogsForever ==
  /\ <>[](LOGINTERVAL > 0) /\ <>[](~ overdue) /\ KeepsMeasuring
  /\ <>[][ ~ (cmd_setalarm \/ \E i \in Intervals : save_loginterval(i)) ]_vars
  => []<><< do_logging /\ StoreRecord >>_vars

\* Setting the interval to 0 leaves at most one alarm to come
\* (do_logging: "We can have one last alarm ...").
LastAlarm == power = "run" /\ m_log_interval_seconds = 0 => allowed >= 0

\* The device never enters standby, which cuts the charger's safety timer off,
\* while it is connected to USB (check_sleep_switch, do_logging).
NoStandbyOnUsb == [][ power = "run" /\ power' = "standby" => ~ usb ]_vars

\* A device in use that is switched to sleep goes dark, in standby or awake
\* with the screen off, unless it is switched back first; pulses, a pending
\* record and a charger do not stop it.
SleepHonoured ==
  ( /\ power = "run" /\ ~ m_sleeping
    /\ m_last_switch_state = SWITCH_POWERUP /\ position = SWITCH_SLEEP )
  ~> (power # "run" \/ m_sleeping \/ position = SWITCH_POWERUP)

\* A device switched to power-up in the end runs, awake.
PowerupHonoured ==
  <>[](position = SWITCH_POWERUP) => <>[](power = "run" /\ ~ m_sleeping)

\* A device awake in the dark to log goes back to standby, once USB is gone,
\* unless test alarms keep replacing the alarm, the readings never become valid
\* or the alarm was lost.
DarkEnds ==
  KeepsMeasuring /\ <>[][ ~ cmd_setalarm ]_vars
  => ( (power = "run" /\ m_sleeping /\ ~ usb /\ m_log_interval_seconds > 0)
       ~> (power # "run" \/ ~ m_sleeping \/ usb \/ overdue) )

\* A running device ends its sleep, or switches its keys on while it sleeps,
\* only when the switch says power-up at that moment: no edge remembered from
\* before it went to sleep, no key, record, warning or serial command does.
\* Its screen is lit by the switch, or by a warning that begins
\* (check_warning_level), which leaves the device asleep and its keys off.
WakesOnlyBySwitch ==
  [][ power = "run" /\ power' = "run" /\ m_sleeping =>
        /\ ~ m_sleeping' \/ (keys' /\ ~ keys) => position = SWITCH_POWERUP
        /\ display' /\ ~ display =>
             \/ position = SWITCH_POWERUP
             \/ m_warning_raised' /\ ~ m_warning_raised ]_vars

\* A wake-up by the alarm, the switch being on sleep, is for logging only.
AlarmWakesInTheDark ==
  [][ power = "boot" /\ power' = "run" /\ wuf /\ position = SWITCH_SLEEP
        => m_sleeping' ]_vars

=============================================================================
