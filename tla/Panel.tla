-------------------------------- MODULE Panel --------------------------------
(***************************************************************************)
(* The panel of the device: the touch keys of userinput/captouch.cpp,      *)
(* whose interrupt fills a ring; GUI::render of gui/GUI.cpp, which takes   *)
(* one key event a loop from it and moves through the screens of module    *)
(* Menu; dialogs, the lock of main.cpp, and what Controller.cpp does for   *)
(* the panel: dimming, brightness, warning level, operating modes.         *)
(*                                                                         *)
(* Time is two facts: no key for dim_delay seconds, and which keys were    *)
(* released in the last three.                                             *)
(***************************************************************************)
EXTENDS Menu

CONSTANTS
  Scenes,         \* sets of keys and happenings; a behaviour has those of one
  Grips,          \* sets of keys held at once; cap_change ignores more than three
  KeysMax,        \* NEW_KEYS_MAX_SIZE
  RepeatDelay,    \* m_repeat_delay
  WaitTime,       \* loops spent on each calibration wait
  Levels,         \* brightnesses a user can choose
  FirstStored     \* settings BRIGHTNESS at the first start, 0 for none

Keys     == {"HOME", "BACK", "SELECT", "DOWN", "UP", "HELP"}
LockKeys == {"BACK", "SELECT"}

\* What may happen besides: keys are touched, and time passes, while the loop is
\* at work or has events to process; time passes at all; the warning level is reached
\* or left; the log is full, and a dialog says so; the log is sent to a host,
\* with its dialogs; the sleep switch is moved.
Happenings == {"hurry", "time", "warning", "full", "transfer", "switch"}

Full == CHOOSE l \in Levels : \A m \in Levels : m <= l

ASSUME PanelAssumption ==
  /\ Scenes \subseteq SUBSET (Keys \cup Happenings) /\ Scenes # {}
  /\ \A grip \in Grips : grip \subseteq Keys /\ Cardinality(grip) <= 3
  /\ KeysMax \in Nat \ {0} /\ RepeatDelay \in Nat \ {0} /\ WaitTime \in Nat
  /\ Screens \subseteq 0 .. 28 /\ {0, 1} \subseteq Screens
  /\ \A s \in Screens : item_count(s) >= 2
  /\ Levels \subseteq 1 .. 255 /\ Levels # {}     \* display_set_brightness takes a uint8
  /\ FirstStored \subseteq Levels \cup {0}

VARIABLES
  at,       \* the step of the main loop
  scene,    \* the keys in use, and what may happen; never changes
  cap,      \* the touch keys: held, and what is known of press and release times
  keys,     \* the ring: new_keys, new_keys_start, new_keys_end, m_discard_next_keypress
  gui,      \* screen, selection, repeat, lock, dialog
  ctl,      \* dimming, brightness, warning, modes
  queue,    \* history: key events accepted and not yet processed
  past      \* history: see PastInit

vars == <<at, scene, cap, keys, gui, ctl, queue, past>>

Events == Keys \X {"pressed", "released"}
NoEvent == <<"none", "none">>

\* The times of the lock keys are kept where both are in use.
TimedKeys == IF LockKeys \subseteq scene THEN LockKeys ELSE {}

\* Lock keys whose last press is not 0 and whose last release is recent; no
\* key within dim_delay; cap_init ran.
CapInit ==
  [held |-> {}, pressed |-> TimedKeys, recent |-> TimedKeys,
   idle |-> FALSE, on |-> TRUE]

KeysInit ==
  [ring |-> [i \in 0 .. KeysMax - 1 |-> NoEvent], start |-> 0, end |-> 0, discard |-> FALSE]

GuiInit ==
  [current_screen |-> 1, selected_item |-> 1, clear_next_render |-> TRUE, first_render |-> FALSE,
   lock |-> FALSE, repeating |-> FALSE, repeat_key |-> "DOWN", repeat_time |-> 0,
   dialog |-> FALSE, complete |-> FALSE, pause |-> FALSE, delay |-> 0]

\* stored: the setting BRIGHTNESS, 0 if there is none; edit: $BRIGHTNESS.
CtlInit(enabled, stored, asleep) ==
  [m_sleeping |-> asleep, m_screen_dimmed |-> FALSE, m_dim_off |-> FALSE, m_neverdim |-> FALSE,
   m_warning_raised |-> FALSE, brightness |-> IF stored = 0 THEN Full ELSE stored,
   stored |-> stored, edit |-> Full, enabled_modes |-> enabled,
   next_mode_label |-> next_opmode(1, enabled)]

\* woke: the key whose press met a dimmed screen, if no other event came since;
\* woken: its release was accepted; raced: the last dialog was dismissed while
\* it was being shown; grip: lock keys pressed, or the keyboard restarted, since
\* the last toggle.
PastInit == [woke |-> "none", woken |-> FALSE, raced |-> FALSE, grip |-> LockKeys]

-----------------------------------------------------------------------------
(* Screens: operators on the state g of the GUI and c of the controller *)

user_brightness(c) == IF c.stored = 0 THEN Full ELSE c.stored

\* event_leftbrightness, from leave_screen_actions.
Left(g, c) ==
  IF \E i \in items(g.current_screen) : i.type = "leave_action"
  THEN [c EXCEPT !.brightness = IF c.stored = 0 THEN @ ELSE c.stored, !.m_dim_off = FALSE]
  ELSE c

Jump(g, s) ==
  [g EXCEPT !.current_screen = s, !.selected_item = 1, !.clear_next_render = TRUE]

\* The label not brought up to date.
Jumped_LabelKept(g, c, s) == Left(g, c)

\* What jump_to_screen does to the controller, event_next_opmode included.  For
\* a screen without a next mode opmodes[7], behind the array, decides what the
\* label becomes: it is unknown, 0.
Jumped(g, c, s) ==
  [Left(g, c) EXCEPT !.next_mode_label =
     IF s = 0 \/ s \in Modes THEN next_opmode(s, c.enabled_modes) ELSE 0]

\* show_dialog, and with a key touched after its first store.
ShowDialog(g) ==
  {[g EXCEPT !.dialog = d, !.complete = FALSE, !.pause = TRUE] :
     d \in IF "hurry" \in scene THEN BOOLEAN ELSE {TRUE}}

\* A dialog shown, or none.
Dialogs(g, shown) == IF shown THEN ShowDialog(g) ELSE {g}

\* Whether the last dialog was dismissed while it was being shown.
Raced(g, shown) == IF shown THEN ~ g.dialog ELSE past.raced

\* No mode left.
Toggled_None(enabled, s) == IF s \in enabled THEN enabled \ {s} ELSE enabled \cup {s}

\* event_opmode: the last mode cannot be disabled for good.
Toggled(enabled, s) ==
  LET flipped == IF s \in enabled THEN enabled \ {s} ELSE enabled \cup {s}
  IN IF flipped = {} THEN {1} ELSE flipped

\* receive_gui_event: the screen it ends on, the same one or another.
EventScreen(g, c, i) ==
  CASE i.event \in {"Save", "SaveCalib", "SaveBrightness", "SaveWarnCPM"} -> {0}
    [] i.event = "SaveCountWin" -> {i.to}
    [] i.event = "$NEXTMODE" /\ (g.current_screen = 0 \/ g.current_screen \in Modes) ->
         {next_opmode(g.current_screen, c.enabled_modes)}
    [] OTHER -> {}

\* What it does to the controller, before it jumps.
EventDone(c, i) ==
  CASE i.event = "SaveCalib"      -> [c EXCEPT !.m_dim_off = FALSE]
    [] i.event = "SaveBrightness" ->
         [c EXCEPT !.brightness = c.edit, !.stored = c.edit, !.m_dim_off = FALSE]
    [] i.event \in {"SaveWarnCPM", "MuteAlarm"} -> [c EXCEPT !.m_warning_raised = FALSE]
    [] i.event = "NeverDim"       -> [c EXCEPT !.m_neverdim = ~ @]
    [] i.event = "Mode"            -> [c EXCEPT !.enabled_modes = Toggled(@, i.to)]
    [] i.event = "CALIBRATE"       -> [c EXCEPT !.m_dim_off = TRUE, !.brightness = Full]
    [] i.event = "BrightnessSCN"   ->
         [c EXCEPT !.brightness = IF c.stored = 0 THEN @ ELSE c.stored, !.edit = user_brightness(c)]
    [] OTHER -> c

\* varnumchange: event_varnum_brightness.
Nearest(l, up) ==
  LET beyond == {m \in Levels : IF up THEN m > l ELSE m < l}
  IN IF beyond = {} THEN l
     ELSE CHOOSE m \in beyond : \A n \in beyond : IF up THEN m <= n ELSE n <= m

VarnumChanged(c, i, l) ==
  IF i.event = "$BRIGHTNESS"
  THEN [c EXCEPT !.edit = l, !.brightness = l, !.m_dim_off = TRUE]
  ELSE c

-----------------------------------------------------------------------------
(* Key events *)

\* The places after the end and after the start of the ring; wrapped one early.
EndAfter(n) == (n + 1) % KeysMax
StartAfter_Early(n) == IF n + 2 >= KeysMax THEN 0 ELSE n + 1
StartAfter(n) == IF n + 1 >= KeysMax THEN 0 ELSE n + 1

\* The discarding forgotten.
Takes_Discarded == ~ gui.dialog /\ ~ ctl.m_screen_dimmed

\* Whether GUI::receive_key puts an event into the ring.
Takes == ~ gui.dialog /\ ~ ctl.m_screen_dimmed /\ ~ keys.discard

\* GUI::receive_key.  There is no test for a full ring: it becomes empty.
receive_key(g, e) ==
  /\ gui' = IF g.dialog THEN [g EXCEPT !.dialog = FALSE, !.complete = TRUE] ELSE g
  /\ keys' = IF Takes THEN [keys EXCEPT !.ring[keys.end] = e, !.end = EndAfter(keys.end)]
             ELSE IF gui.dialog THEN keys
             ELSE [keys EXCEPT !.discard = ctl.m_screen_dimmed]
  /\ queue' = IF ~ Takes THEN queue
              ELSE IF Len(queue) + 1 = KeysMax THEN <<>> ELSE Append(queue, e)

\* cap_change, for one key.
Touched(k) ==
  LET press == k \notin cap.held
      held  == IF press THEN cap.held \cup {k} ELSE cap.held \ {k}
  IN
  /\ held \in Grips
  /\ receive_key(gui, <<k, IF press THEN "pressed" ELSE "released">>)
  /\ cap' = [cap EXCEPT !.held = held,
                        !.pressed = IF press THEN @ \cup ({k} \cap TimedKeys) ELSE @,
                        !.recent = IF press THEN @ ELSE @ \cup ({k} \cap TimedKeys),
                        !.idle = FALSE]
  /\ past' = [past EXCEPT
       !.woke = IF press /\ ctl.m_screen_dimmed /\ ~ gui.dialog THEN k ELSE "none",
       !.woken = ~ press /\ past.woke = k /\ Takes,
       !.grip = IF press THEN @ \cup ({k} \cap TimedKeys) ELSE @]

cap_change ==
  /\ cap.on
  /\ "hurry" \in scene \/ (at = "update" /\ keys.start = keys.end)
  /\ \E k \in scene \cap Keys : Touched(k)
  /\ UNCHANGED <<at, scene, ctl>>

\* Unless in a hurry, the loop takes the events from the ring before long.
Time ==
  /\ "time" \in scene /\ ("hurry" \in scene \/ keys.start = keys.end)
  /\ \/ cap' = [cap EXCEPT !.recent = {}]
     \/ cap' = [cap EXCEPT !.recent = {}, !.idle = TRUE]
  /\ UNCHANGED <<at, scene, keys, gui, ctl, queue, past>>

-----------------------------------------------------------------------------
(* Controller::update *)

check_warning_level(c, above) ==
  [c EXCEPT !.m_warning_raised = above,
            !.m_dim_off = IF above = c.m_warning_raised THEN @ ELSE above]


Undimmed(c) == [c EXCEPT !.brightness = user_brightness(c), !.m_screen_dimmed = FALSE]

do_dimming(c, idle) ==
  CASE c.m_neverdim /\ ~ c.m_screen_dimmed -> c
    [] c.m_dim_off -> IF c.m_screen_dimmed THEN Undimmed(c) ELSE c
    [] idle /\ ~ c.m_dim_off ->
         [c EXCEPT !.brightness = IF @ > 1 THEN @ \div 2 ELSE @, !.m_screen_dimmed = TRUE]
    [] OTHER -> IF c.brightness < user_brightness(c) THEN Undimmed(c) ELSE c

delays(s) == {i \in items(s) : i.type = "delay"}

\* update_item_delay; set up by the first update of its screen, also when that
\* screen was entered in the same update.
Waited(g) ==
  LET delay == IF g.clear_next_render THEN WaitTime ELSE IF g.delay > 0 THEN g.delay - 1 ELSE 0
  IN IF g.pause \/ delays(g.current_screen) = {} THEN g
     ELSE IF delay > 0 THEN [g EXCEPT !.delay = delay]
     ELSE LET s == (CHOOSE i \in delays(g.current_screen) : TRUE).to
          IN [Jump(g, s) EXCEPT !.delay = IF delays(s) = {} THEN 0 ELSE WaitTime]

\* The sleep switch moved, on USB power; on battery the device goes to standby
\* instead, which is Restart.
SwitchTurned(c, moved) == IF moved THEN [c EXCEPT !.m_sleeping = ~ @] ELSE c

Happens(what) == IF what \in scene THEN BOOLEAN ELSE {FALSE}

Updated(above, full, switch) ==
  LET c1 == check_warning_level(ctl, above)
      g1 == [gui EXCEPT !.first_render = @ \/ above # ctl.m_warning_raised]
      c2 == SwitchTurned(c1, switch)
      wakes == c1.m_sleeping /\ ~ c2.m_sleeping
  IN
  /\ full => ~ c1.m_sleeping
  /\ \E g2 \in Dialogs(g1, full) :
       LET g3 == IF wakes THEN Jump(g2, 1) ELSE g2
           c3 == IF wakes THEN Jumped(g2, c2, 1) ELSE c2
           g4 == IF c3.m_sleeping THEN g3 ELSE Waited(g3)
           c4 == IF c3.m_sleeping THEN c3 ELSE do_dimming(c3, cap.idle)
       IN /\ gui' = g4
          /\ ctl' = IF g4.current_screen = g3.current_screen THEN c4
                    ELSE Jumped(g3, c4, g4.current_screen)
          /\ past' = [past EXCEPT !.raced = Raced(g2, full),
                                  !.grip = IF wakes THEN LockKeys ELSE @]
  /\ cap' = IF wakes THEN [CapInit EXCEPT !.held = cap.held]
            ELSE [cap EXCEPT !.on = @ /\ ~ c2.m_sleeping]

update ==
  /\ at = "update" /\ at' = "render"
  /\ \E above \in Happens("warning"), full \in Happens("full"), switch \in Happens("switch") :
       Updated(above, full, switch)
  /\ UNCHANGED <<scene, keys, queue>>

-----------------------------------------------------------------------------
(* GUI::render *)

RenderSleeping ==
  /\ at = "render" /\ ctl.m_sleeping /\ at' = "lock"
  /\ UNCHANGED <<scene, cap, keys, gui, ctl, queue, past>>

\* Only one of the two flags cleared.
Resumed_Paused(g) == [g EXCEPT !.complete = FALSE]

Resumed(g) == [g EXCEPT !.complete = FALSE, !.pause = FALSE]

RenderDismissed ==
  /\ at = "render" /\ ~ ctl.m_sleeping /\ gui.complete /\ at' = "lock"
  /\ gui' = Jump(Resumed(gui), 0) /\ ctl' = Jumped(gui, ctl, 0)
  /\ keys' = [keys EXCEPT !.start = 0, !.end = 0] /\ queue' = <<>>
  /\ UNCHANGED <<scene, cap, past>>

\* The key not looked at before it is repeated.
StillRepeats_Blind == TRUE

StillRepeats == gui.repeat_key \in cap.held

\* Counting m_repeat_time; at m_repeat_delay the key is repeated or given up.
RepeatDue   == gui.repeating /\ gui.repeat_time = RepeatDelay
RepeatTimed ==
  CASE RepeatDue     -> [gui EXCEPT !.repeat_time = 1, !.repeating = StillRepeats]
    [] gui.repeating /\ ~ RepeatDue -> [gui EXCEPT !.repeat_time = @ + 1]
    [] OTHER         -> gui

\* Drawing; the actions of a screen at its first render.
Drawn(g) == IF g.pause THEN g ELSE [g EXCEPT !.clear_next_render = FALSE, !.first_render = FALSE]

Entered(g, c) ==
  LET actions == {i \in items(g.current_screen) : i.type = "action"}
  IN IF g.pause \/ ~ (g.clear_next_render \/ g.first_render) \/ actions = {} THEN c
     ELSE EventDone(c, CHOOSE i \in actions : TRUE)

Render ==
  /\ at = "render" /\ ~ ctl.m_sleeping /\ ~ gui.complete /\ at' = "keys"
  /\ ctl' = Entered(gui, ctl)
  /\ IF RepeatDue /\ StillRepeats
     THEN receive_key(Drawn(RepeatTimed), <<gui.repeat_key, "pressed">>)
     ELSE gui' = Drawn(RepeatTimed) /\ UNCHANGED <<keys, queue>>
  /\ past' = [past EXCEPT !.woke = IF RepeatDue /\ StillRepeats THEN "none" ELSE @]
  /\ UNCHANGED <<scene, cap>>

-----------------------------------------------------------------------------
(* GUI::process_keys: one event of the ring *)

Event    == keys.ring[keys.start]
Selected == item(gui.current_screen, gui.selected_item)

\* The event taken; what it does is in the actions that follow.
Processes ==
  /\ at = "keys" /\ at' = "lock"
  /\ keys.start # keys.end
  /\ keys' = [keys EXCEPT !.start = StartAfter(@), !.ring[keys.start] = NoEvent]
  /\ queue' = Tail(queue)
  /\ UNCHANGED scene

Acts(k, t) == ~ gui.lock /\ Event = <<k, t>> /\ Processes

NoKeys ==
  /\ at = "keys" /\ keys.start = keys.end /\ at' = "lock"
  /\ UNCHANGED <<scene, cap, keys, gui, ctl, queue, past>>

Locked == gui.lock /\ Processes /\ UNCHANGED <<cap, gui, ctl, past>>

\* A soft key or a menu entry.
Jumps(s) ==
  gui' = Jump(gui, s) /\ ctl' = Jumped(gui, ctl, s) /\ UNCHANGED <<cap, past>>

Fires(i) ==
  LET screens == EventScreen(gui, ctl, i)
      c == EventDone(ctl, i)
  IN /\ \/ \E s \in screens : gui' = Jump(gui, s) /\ ctl' = Jumped(gui, c, s)
        \/ /\ screens = {} /\ ctl' = c
           /\ gui' \in CASE i.event = "ClearLog" -> ShowDialog(gui)
                        [] i.event = "MuteAlarm" -> {[gui EXCEPT !.first_render = TRUE]}
                        [] OTHER -> {gui}
     /\ cap' = [cap EXCEPT !.on = @ /\ i.event # "TurnScreenOff"]
     /\ past' = [past EXCEPT !.raced = Raced(gui', i.event = "ClearLog")]

Follows(i) == IF i.type \in {"softkey", "menu"} THEN Jumps(i.to) ELSE Fires(i)

SoftKey ==
  \E n \in 0 .. 2 : \E i \in softkey(gui.current_screen, n) :
    Acts(<<"HOME", "UP", "HELP">>[n + 1], "released") /\ Follows(i)

UpOrDown ==
  \E k \in {"UP", "DOWN"}, l \in {Nearest(ctl.edit, TRUE), Nearest(ctl.edit, FALSE)} :
    /\ Acts(k, "pressed")
    /\ k = "UP" => softkey(gui.current_screen, 1) = {}
    /\ l = Nearest(ctl.edit, k = "UP")
    /\ ctl' = VarnumChanged(ctl, Selected, l)
    /\ gui' = [gui EXCEPT !.repeating = TRUE, !.repeat_key = k,
         !.selected_item = IF Selected.type = "varnum" THEN @
                           ELSE IF k = "UP" THEN SelectedAbove(gui.current_screen, @)
                           ELSE SelectedBelow(gui.current_screen, @)]
    /\ UNCHANGED <<cap, past>>

UpOrDownReleased ==
  /\ \/ Acts("DOWN", "released")
     \/ softkey(gui.current_screen, 1) = {} /\ Acts("UP", "released")
  /\ gui' = [gui EXCEPT !.repeating = FALSE]
  /\ UNCHANGED <<cap, ctl, past>>

\* Select goes to the next number; back to the one before.
IsNum(n) == n < item_count(gui.current_screen) /\ item(gui.current_screen, n).type = "varnum"

Select ==
  /\ Acts("SELECT", "released")
  /\ CASE Selected.type = "varnum" /\ IsNum(gui.selected_item + 1) ->
            gui' = [gui EXCEPT !.selected_item = @ + 1] /\ UNCHANGED <<cap, ctl, past>>
       [] Selected.type \in {"menu", "menu_action"} -> Follows(Selected)
       [] OTHER -> UNCHANGED <<cap, gui, ctl, past>>

\* Back leaves the screen's actions done and the screen where it is.
Back ==
  /\ Acts("BACK", "released")
  /\ IF Selected.type = "varnum" /\ IsNum(gui.selected_item - 1)
     THEN gui' = [gui EXCEPT !.selected_item = @ - 1] /\ UNCHANGED ctl
     ELSE IF gui.current_screen # 0 /\ ~ gui.clear_next_render
     THEN /\ gui' = [gui EXCEPT !.clear_next_render = TRUE, !.first_render = TRUE]
          /\ ctl' = Left(gui, ctl)
     ELSE UNCHANGED <<gui, ctl>>
  /\ UNCHANGED <<cap, past>>

Home ==
  /\ softkey(gui.current_screen, 0) = {} /\ gui.current_screen # 0
  /\ Acts("HOME", "released") /\ Jumps(0)

NothingToDo ==
  /\ \/ \E k \in {"HOME", "BACK", "SELECT", "HELP"} : Acts(k, "pressed")
     \/ Acts("HELP", "released") /\ softkey(gui.current_screen, 2) = {}
     \/ Acts("HOME", "released") /\ softkey(gui.current_screen, 0) = {} /\ gui.current_screen = 0
     \/ Acts("UP", "pressed") /\ softkey(gui.current_screen, 1) # {}
  /\ UNCHANGED <<cap, gui, ctl, past>>

-----------------------------------------------------------------------------
(* The rest of main's loop *)

\* The press times kept.
Cleared_Pressed == [cap EXCEPT !.idle = TRUE, !.recent = {}]

\* cap_clear_press: as if no key had been touched for long.
Cleared == [cap EXCEPT !.idle = TRUE, !.recent = {}, !.pressed = {}]

\* Both lock keys held for long, while awake.
Gripped == ~ ctl.m_sleeping /\ LockKeys \subseteq cap.held \cap cap.pressed /\ cap.recent = {}

\* serial_eventloop, which a command may keep for a whole transfer, asleep or
\* not: the last of its dialogs stays. Then the lock.
Lock ==
  /\ at = "lock" /\ at' = "update"
  /\ \E transfer \in Happens("transfer") : \E g \in Dialogs(gui, transfer) :
       /\ gui' = IF Gripped THEN [g EXCEPT !.lock = ~ @] ELSE g
       /\ past' = [past EXCEPT !.raced = Raced(g, transfer), !.grip = IF Gripped THEN {} ELSE @]
  /\ cap' = IF Gripped THEN Cleared ELSE cap
  /\ UNCHANGED <<scene, keys, ctl, queue>>

\* main before its loop. Started by the switch a full log shows its dialog;
\* started by the RTC alarm the device is asleep, its keys on all the same.
Started(g, p, asleep, full) ==
  /\ asleep => ~ full
  /\ g \in Dialogs(GuiInit, full)
  /\ p = [PastInit EXCEPT !.raced = full /\ ~ g.dialog]

Init ==
  /\ at = "update" /\ scene \in Scenes /\ cap = CapInit /\ keys = KeysInit /\ queue = <<>>
  /\ \E asleep \in Happens("switch"), full \in Happens("full"), stored \in FirstStored :
       /\ Started(gui, past, asleep, full)
       /\ ctl = CtlInit(Modes, stored, asleep)

\* Standby, or a reset, and the next start; the settings stay.
Restart ==
  /\ at' = "update" /\ cap' = CapInit /\ keys' = KeysInit /\ queue' = <<>>
  /\ \E asleep \in Happens("switch"), full \in Happens("full") :
       /\ Started(gui', past', asleep, full)
       /\ ctl' = [CtlInit(ctl.enabled_modes, ctl.stored, asleep)
                    EXCEPT !.m_neverdim = ctl.m_neverdim]
  /\ UNCHANGED scene

process_keys ==
  \/ NoKeys \/ Locked \/ SoftKey \/ UpOrDown \/ UpOrDownReleased
  \/ Select \/ Back \/ Home \/ NothingToDo

MainLoop == update \/ RenderSleeping \/ RenderDismissed \/ Render \/ process_keys \/ Lock

Next == MainLoop \/ cap_change \/ Time \/ Restart

\* The processor executes the main loop.
Spec == Init /\ [][Next]_vars /\ WF_vars(MainLoop)

-----------------------------------------------------------------------------
(* Properties *)

\* Every variable keeps its type; the selected item lies in its screen, some
\* mode is enabled, and every brightness can be shown.
TypeOK ==
  /\ at \in {"update", "render", "keys", "lock"} /\ scene \in Scenes
  /\ cap \in [held : SUBSET Keys, pressed : SUBSET LockKeys, recent : SUBSET LockKeys,
              idle : BOOLEAN, on : BOOLEAN]
  /\ keys \in [ring : [0 .. KeysMax - 1 -> Events \cup {NoEvent}],
               start : 0 .. KeysMax - 1, end : 0 .. KeysMax - 1, discard : BOOLEAN]
  /\ gui \in [current_screen : Screens, selected_item : 1 .. 13,
              clear_next_render : BOOLEAN, first_render : BOOLEAN, lock : BOOLEAN,
              repeating : BOOLEAN, repeat_key : {"UP", "DOWN"}, repeat_time : 0 .. RepeatDelay,
              dialog : BOOLEAN, complete : BOOLEAN, pause : BOOLEAN, delay : 0 .. WaitTime]
  /\ gui.selected_item < item_count(gui.current_screen)
  /\ ctl \in [m_sleeping : BOOLEAN, m_screen_dimmed : BOOLEAN, m_dim_off : BOOLEAN,
              m_neverdim : BOOLEAN, m_warning_raised : BOOLEAN, brightness : 1 .. Full,
              stored : Levels \cup {0}, edit : Levels, enabled_modes : (SUBSET Modes) \ {{}},
              next_mode_label : Modes \cup {0}]
  /\ queue \in Seq(Events)
  /\ past \in [woke : Keys \cup {"none"}, woken : BOOLEAN, raced : BOOLEAN, grip : SUBSET LockKeys]

\* The key events in the ring are those accepted and not yet processed, in
\* order, through every wrap, every clearing and every overflow.
KeysInOrder ==
  /\ Len(queue) = (keys.end - keys.start) % KeysMax
  /\ \A i \in 1 .. Len(queue) : queue[i] = keys.ring[(keys.start + i - 1) % KeysMax]

\* "We discard keys until the screen is undimmed": of the touch that wakes the
\* screen neither the press nor the release is ever processed as a key, however
\* slow the loop is, if no other key is touched meanwhile. A release that meets
\* a dialog come up in between still dismisses it.
WakeTouchInert == ~ past.woken

\* The display is frozen only behind a dialog that a key will end (the log is
\* full, or cleared, or sent), unless a key came while that dialog was being
\* shown.
FrozenByDialog == gui.pause /\ ~ past.raced => gui.dialog \/ gui.complete

\* The label of the next mode, where it is shown, names the mode its key will
\* lead to, whichever modes were switched on and off since it was worked out.
LabelTrue ==
  gui.current_screen = 0 \/ gui.current_screen \in Modes =>
    ctl.next_mode_label = next_opmode(gui.current_screen, ctl.enabled_modes)

\* One grip of both keys locks or unlocks once: each is pressed again before
\* the next time, or the keyboard is restarted.
OneGripOneToggle ==
  [][Lock /\ gui'.lock # gui.lock => past.grip = LockKeys]_vars


\* "Undims instantly for useability reasons": every touched screen is undimmed.
\* do_dimming only clears the flag of one darker than the user's brightness.
Undims ==
  ctl.m_screen_dimmed /\ ~ cap.idle ~> ~ ctl.m_screen_dimmed \/ cap.idle \/ ctl.m_sleeping

\* No key repeats itself for ever: wherever its release was lost, to a dialog,
\* a dimmed screen, the lock or a full ring, repeating ends once it is let go,
\* unless a dialog is dismissed first: a loop that finds one dismissed does not
\* come to the repeating.
RepeatEnds ==
  gui.repeating /\ gui.repeat_key \notin cap.held ~>
    ~ gui.repeating \/ gui.repeat_key \in cap.held \/ ctl.m_sleeping \/ gui.complete
=============================================================================
