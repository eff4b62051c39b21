----------------------------- MODULE PanelProofs -----------------------------
(***************************************************************************)
(* Proofs about Panel for a ring of every size, every layout of screens    *)
(* and every scene: what becomes of key events, dialogs and the lock.      *)
(***************************************************************************)
EXTENDS Panel, RecursionProofs

-----------------------------------------------------------------------------
(* The ring *)

\* The remainders of the ring, without %.
LEMMA Modulo ==
  ASSUME NEW k \in Nat \ {0}, NEW n \in 0 .. k - 1, NEW s \in 0 .. k - 1
  PROVE  /\ (n + s) % k = IF n + s < k THEN n + s ELSE n + s - k
         /\ (n - s) % k = IF n < s THEN n - s + k ELSE n - s
         /\ (n + 1) % k = IF n + 1 = k THEN 0 ELSE n + 1
<1>1. CASE n + s < k
  <2>1. (n + s) % k = n + s  
    BY <1>1, SMT
  <2> QED BY <1>1, <2>1
<1>2. CASE n + s >= k
  <2>1. (n + s) % k = n + s - k
    BY <1>2, SMT
  <2> QED BY <1>2, <2>1
<1>3. CASE n < s
  <2>1. (n - s) % k = n - s + k
    BY <1>3, SMT
  <2> QED BY <1>3, <2>1
<1>4. CASE n >= s
  <2>1. (n - s) % k = n - s
    BY <1>4, SMT
  <2> QED BY <1>4, <2>1
<1>5. CASE n + 1 = k
  <2>1. (n + 1) % k = 0
    BY <1>5, SMT
  <2> QED BY <1>5, <2>1
<1>6. CASE n + 1 < k
  <2>1. (n + 1) % k = n + 1
    BY <1>6, SMT
  <2> QED BY <1>6, <2>1
<1> QED BY <1>1, <1>2, <1>3, <1>4, <1>5, <1>6

\* The places from s up to n of a ring of k hold the sequence q.
InRing(q, ring, s, n, k) ==
  Len(q) = (n - s) % k /\ \A i \in 1 .. Len(q) : q[i] = ring[(s + i - 1) % k]

\* An event accepted comes last, or finds the ring full and empties it.
LEMMA Pushed ==
  ASSUME NEW k \in Nat \ {0}, NEW s \in 0 .. k - 1, NEW n \in 0 .. k - 1,
         NEW e \in Events, NEW q \in Seq(Events), NEW ring, DOMAIN ring = 0 .. k - 1,
         InRing(q, ring, s, n, k)
  PROVE  InRing(IF Len(q) + 1 = k THEN <<>> ELSE Append(q, e),
                [ring EXCEPT ![n] = e], s, (n + 1) % k, k)
<1> DEFINE p == IF Len(q) + 1 = k THEN <<>> ELSE Append(q, e)
<1> USE DEF InRing
<1>1. PICK m \in 0 .. k - 1 : m = (n + 1) % k /\ m = IF n + 1 = k THEN 0 ELSE n + 1
  <2>1. (n + 1) % k = IF n + 1 = k THEN 0 ELSE n + 1
    BY Modulo
  <2> QED BY <2>1
<1>2. Len(q) \in Nat /\ Len(q) = IF n < s THEN n - s + k ELSE n - s
  <2>1. (n - s) % k = IF n < s THEN n - s + k ELSE n - s
    BY Modulo
  <2> QED BY <2>1
<1>3. (m - s) % k = IF m < s THEN m - s + k ELSE m - s
  BY Modulo
<1>4. CASE Len(q) + 1 = k
  <2>1. p = <<>> /\ m = s
    BY <1>1, <1>2, <1>4
  <2>2. (m - s) % k = 0
    BY <1>3, <2>1
  <2>3. Len(p) = 0
    BY <2>1
  <2>4. \A i \in 1 .. Len(p) : FALSE
    BY <2>3
  <2> QED BY <1>1, <2>2, <2>3, <2>4
<1>5. CASE Len(q) + 1 # k
  <2>1. p = Append(q, e) /\ Len(p) = Len(q) + 1 /\ p[Len(q) + 1] = e
        /\ \A i \in 1 .. Len(q) : p[i] = q[i]
    BY <1>5, AppendProperties
  <2>2. Len(p) = (m - s) % k
    BY <1>1, <1>2, <1>3, <1>5, <2>1
  <2>3. ASSUME NEW i \in 1 .. Len(p)
        PROVE  p[i] = [ring EXCEPT ![n] = e][(s + i - 1) % k]
    <3>1. i - 1 \in 0 .. k - 1
      BY <1>2, <1>5, <2>1
    <3>2. (s + i - 1) % k = IF s + i - 1 < k THEN s + i - 1 ELSE s + i - 1 - k
      <4>1. (s + (i - 1)) % k = IF s + (i - 1) < k THEN s + (i - 1) ELSE s + (i - 1) - k
        BY <3>1, Modulo, ZenonT(30)
      <4>2. s + (i - 1) = s + i - 1
        BY <3>1
      <4> QED BY <4>1, <4>2
    <3>3. PICK place \in 0 .. k - 1 : place = (s + i - 1) % k
      BY <3>1, <3>2
    <3>4. CASE i = Len(q) + 1
      <4>1. place = n
        BY <1>2, <3>2, <3>3, <3>4
      <4> QED BY <2>1, <3>3, <3>4, <4>1
    <3>5. CASE i # Len(q) + 1
      <4>1. i \in 1 .. Len(q)
        BY <1>2, <2>1, <3>5
      <4>2. place = IF s + i - 1 < k THEN s + i - 1 ELSE s + i - 1 - k
        BY <3>2, <3>3
      <4>3. place # n
        BY <1>2, <4>1, <4>2
      <4> QED BY <2>1, <3>3, <4>1, <4>3
    <3> QED BY <3>4, <3>5
  <2> QED BY <1>1, <2>2, <2>3
<1> QED BY <1>4, <1>5

\* The event taken is the first, and the others keep their order.
LEMMA Popped ==
  ASSUME NEW k \in Nat \ {0}, NEW s \in 0 .. k - 1, NEW n \in 0 .. k - 1, s # n,
         NEW e, NEW q \in Seq(Events), NEW ring, DOMAIN ring = 0 .. k - 1,
         InRing(q, ring, s, n, k), NEW t, t = IF s + 1 >= k THEN 0 ELSE s + 1
  PROVE  /\ t \in 0 .. k - 1 /\ Tail(q) \in Seq(Events)
         /\ InRing(Tail(q), [ring EXCEPT ![s] = e], t, n, k)
<1> USE DEF InRing
<1>1. t \in 0 .. k - 1
  OBVIOUS
<1>2. Len(q) \in Nat /\ Len(q) = IF n < s THEN n - s + k ELSE n - s
  <2>1. (n - s) % k = IF n < s THEN n - s + k ELSE n - s
    BY Modulo
  <2> QED BY <2>1
<1>3. (n - t) % k = IF n < t THEN n - t + k ELSE n - t
  BY <1>1, Modulo
<1>4. Len(q) >= 1 /\ Len(q) < k
  BY <1>2
<1>5. q # <<>>
  BY <1>4
<1>6. /\ Tail(q) \in Seq(Events) /\ Len(Tail(q)) = Len(q) - 1
      /\ \A i \in 1 .. Len(Tail(q)) : Tail(q)[i] = q[i + 1]
  BY <1>5, HeadTailProperties
<1>7. Len(Tail(q)) = (n - t) % k
  <2>1. Len(q) - 1 = IF n < t THEN n - t + k ELSE n - t
    BY <1>2
  <2> QED BY <1>3, <1>6, <2>1
<1>8. ASSUME NEW i \in 1 .. Len(Tail(q))
      PROVE  Tail(q)[i] = [ring EXCEPT ![s] = e][(t + i - 1) % k]
  <2>1. i \in 0 .. k - 1 /\ i - 1 \in 0 .. k - 1 /\ i + 1 \in 1 .. Len(q)
    BY <1>4, <1>6
  <2>2. (s + i) % k = IF s + i < k THEN s + i ELSE s + i - k
    BY <2>1, Modulo
  <2>3. (t + i - 1) % k = IF t + i - 1 < k THEN t + i - 1 ELSE t + i - 1 - k
    <3>1. (t + (i - 1)) % k = IF t + (i - 1) < k THEN t + (i - 1) ELSE t + (i - 1) - k
      BY <1>1, <2>1, Modulo
    <3>2. t + (i - 1) = t + i - 1
      BY <1>1, <2>1
    <3> QED BY <3>1, <3>2
  <2>4. PICK place \in 0 .. k - 1 : place = IF s + i < k THEN s + i ELSE s + i - k
    <3>1. (IF s + i < k THEN s + i ELSE s + i - k) \in 0 .. k - 1
      BY <2>1
    <3> QED BY <3>1
  <2>5. place # s
    BY <2>1, <2>4
  <2>6. place = IF t + i - 1 < k THEN t + i - 1 ELSE t + i - 1 - k
    BY <1>1, <2>1, <2>4
  <2>7. place = (s + i) % k /\ place = (t + i - 1) % k
    BY <2>2, <2>3, <2>4, <2>6
  <2>8. q[i + 1] = ring[(s + (i + 1) - 1) % k]
    BY <2>1
  <2>9. s + (i + 1) - 1 = s + i
    BY <2>1
  <2> QED BY <1>6, <2>5, <2>7, <2>8, <2>9
<1> QED BY <1>1, <1>6, <1>7, <1>8

-----------------------------------------------------------------------------
(* Key events, dialogs and the lock *)

\* The fields the proofs speak of.
Shape ==
  /\ {"dialog", "complete", "pause", "lock", "repeat_key"} \subseteq DOMAIN gui
  /\ gui.repeat_key \in {"UP", "DOWN"}
  /\ {"pressed", "held", "recent", "idle"} \subseteq DOMAIN cap
  /\ {"discard", "ring", "start", "end"} \subseteq DOMAIN keys
  /\ {"woke", "woken", "raced", "grip"} \subseteq DOMAIN past

\* While the touch that met a dimmed screen lasts, the next event is discarded;
\* a key that counts as pressed was pressed in this grip.
PanelInv ==
  /\ Shape
  /\ past.woke # "none" => keys.discard
  /\ WakeTouchInert
  /\ FrozenByDialog
  /\ cap.pressed \subseteq past.grip /\ past.grip \subseteq LockKeys

LEMMA TimedLockKeys == TimedKeys \subseteq LockKeys
  BY DEF TimedKeys

\* What a dialog leaves alone.
LEMMA DialogShape ==
  ASSUME NEW g, NEW shown \in BOOLEAN, NEW h \in Dialogs(g, shown)
  PROVE  /\ DOMAIN h = DOMAIN g
         /\ {"lock", "repeat_key"} \subseteq DOMAIN g =>
              h.lock = g.lock /\ h.repeat_key = g.repeat_key
         /\ ~ shown => h = g
<1>1. CASE ~ shown
  BY <1>1 DEF Dialogs
<1>2. CASE shown
  <2> PICK d \in BOOLEAN : h = [g EXCEPT !.dialog = d, !.complete = FALSE, !.pause = TRUE]
    BY <1>2 DEF Dialogs, ShowDialog
  <2> QED BY <1>2
<1> QED BY <1>1, <1>2

\* At the start the display is frozen behind the dialog of a full log, or not.
LEMMA StartShape ==
  ASSUME NEW g, NEW p, NEW asleep, NEW full \in BOOLEAN, Started(g, p, asleep, full)
  PROVE  /\ {"dialog", "complete", "pause", "lock", "repeat_key"} \subseteq DOMAIN g
         /\ g.repeat_key \in {"UP", "DOWN"}
         /\ {"woke", "woken", "raced", "grip"} \subseteq DOMAIN p
         /\ p.woke = "none" /\ ~ p.woken /\ p.grip = LockKeys
         /\ g.pause /\ ~ p.raced => g.dialog \/ g.complete
<1>1. g \in Dialogs(GuiInit, full) /\ p = [PastInit EXCEPT !.raced = full /\ ~ g.dialog]
  BY DEF Started
<1>2. /\ DOMAIN g = DOMAIN GuiInit
      /\ ~ full => g = GuiInit
      /\ {"lock", "repeat_key"} \subseteq DOMAIN GuiInit => g.repeat_key = GuiInit.repeat_key
  BY <1>1, DialogShape
<1>3. /\ {"dialog", "complete", "pause", "lock", "repeat_key"} \subseteq DOMAIN GuiInit
      /\ GuiInit.repeat_key = "DOWN" /\ ~ GuiInit.pause
  BY DEF GuiInit
<1> DEFINE r == full /\ ~ g.dialog
<1>4. /\ {"woke", "woken", "raced", "grip"} \subseteq DOMAIN p
      /\ p.woke = "none" /\ ~ p.woken /\ p.grip = LockKeys /\ p.raced = r
  <2> HIDE DEF r
  <2>1. p = [PastInit EXCEPT !.raced = r]
    BY <1>1 DEF r
  <2> QED BY <2>1 DEF PastInit
<1>5. g.pause /\ ~ p.raced => g.dialog \/ g.complete
  <2>1. CASE full
    BY <1>4, <2>1, Zenon
  <2>2. CASE ~ full
    <3>1. ~ g.pause
      BY <1>2, <1>3, <2>2
    <3> QED BY <3>1
  <2> QED BY <2>1, <2>2
<1>6. /\ {"dialog", "complete", "pause", "lock", "repeat_key"} \subseteq DOMAIN g
      /\ g.repeat_key \in {"UP", "DOWN"}
  BY <1>2, <1>3
<1> QED BY <1>4, <1>5, <1>6, Zenon

LEMMA PanelStart == Init => PanelInv
<1> SUFFICES ASSUME Init PROVE PanelInv
  OBVIOUS
<1> PICK asleep \in BOOLEAN, full \in BOOLEAN : Started(gui, past, asleep, full)
  BY DEF Init, Happens
<1>1. cap = CapInit /\ keys = KeysInit
  BY DEF Init
<1> QED BY <1>1, StartShape, TimedLockKeys
        DEF PanelInv, Shape, WakeTouchInert, FrozenByDialog, CapInit, KeysInit

LEMMA PanelStep == PanelInv /\ [Next]_vars => PanelInv'
<1> SUFFICES ASSUME PanelInv, [Next]_vars PROVE PanelInv'
  OBVIOUS
<1> USE DEF PanelInv, Shape, WakeTouchInert, FrozenByDialog
<1>1. CASE cap_change
  <2> PICK k \in scene \cap Keys : Touched(k)
    BY <1>1 DEF cap_change
  <2> USE DEF Touched
  <2>0. Shape'
    BY DEF receive_key
  <2>1. past'.woke # "none" => keys'.discard
    BY DEF receive_key, Takes
  <2>2. ~ past'.woken
    BY DEF Takes, Keys
  <2>3. FrozenByDialog'
    BY DEF receive_key
  <2>4. cap'.pressed \subseteq past'.grip /\ past'.grip \subseteq LockKeys
    BY TimedLockKeys
  <2> QED BY <2>0, <2>1, <2>2, <2>3, <2>4
<1>2. CASE Time
  BY <1>2 DEF Time
<1>3. CASE update
  <2> PICK above \in Happens("warning"), full \in Happens("full"),
           switch \in Happens("switch") :
        Updated(above, full, switch) /\ keys' = keys
    BY <1>3 DEF update
  <2> DEFINE c1 == check_warning_level(ctl, above)
             g1 == [gui EXCEPT !.first_render = @ \/ above # ctl.m_warning_raised]
             c2 == SwitchTurned(c1, switch)
             wakes == c1.m_sleeping /\ ~ c2.m_sleeping
             After(g2) ==
               LET g3 == IF wakes THEN Jump(g2, 1) ELSE g2
                   c3 == IF wakes THEN Jumped(g2, c2, 1) ELSE c2
               IN /\ gui' = IF c3.m_sleeping THEN g3 ELSE Waited(g3)
                  /\ past' = [past EXCEPT !.raced = Raced(g2, full),
                                          !.grip = IF wakes THEN LockKeys ELSE @]
  <2> PICK g2 \in Dialogs(g1, full) : After(g2)
    BY ZenonT(30) DEF Updated
  <2> DEFINE same(g, h) == /\ DOMAIN h = DOMAIN g /\ h.dialog = g.dialog
                           /\ h.complete = g.complete /\ h.pause = g.pause
                           /\ h.repeat_key = g.repeat_key
             g3 == IF wakes THEN Jump(g2, 1) ELSE g2
  <2>1. same(gui, g1)
    OBVIOUS
  <2>2. IF full THEN DOMAIN g2 = DOMAIN gui /\ g2.repeat_key = gui.repeat_key ELSE same(gui, g2)
    BY <2>1 DEF Dialogs, ShowDialog
  <2>3. same(g2, g3)
    BY <2>2 DEF Jump
  <2>4. same(g3, Waited(g3))
    BY <2>2, <2>3 DEF Jump, Waited
  <2>5. same(g2, gui')
    BY <2>3, <2>4
  <2>6. past' = [past EXCEPT !.raced = IF full THEN ~ g2.dialog ELSE past.raced,
                               !.grip = IF wakes THEN LockKeys ELSE @]
    BY DEF Raced
  <2>7. cap' = IF wakes THEN [CapInit EXCEPT !.held = cap.held]
               ELSE [cap EXCEPT !.on = @ /\ ~ c2.m_sleeping]
    BY DEF Updated
  <2> HIDE DEF c1, c2, g1, g3, wakes, After
  <2>8. Shape'
    BY <2>2, <2>5, <2>6, <2>7 DEF CapInit
  <2>9. FrozenByDialog'
    BY <2>2, <2>5, <2>6
  <2>10. cap'.pressed \subseteq past'.grip /\ past'.grip \subseteq LockKeys
    BY <2>6, <2>7, TimedLockKeys DEF CapInit
  <2> QED BY <2>6, <2>8, <2>9, <2>10
<1>4. CASE RenderSleeping
  BY <1>4 DEF RenderSleeping
<1>5. CASE RenderDismissed
  BY <1>5 DEF RenderDismissed, Jump, Resumed
<1>6. CASE Render
  BY <1>6 DEF Render, receive_key, Takes, Drawn, RepeatTimed
<1>7. CASE Lock
  <2> DEFINE After(transfer, g) ==
        /\ gui' = IF Gripped THEN [g EXCEPT !.lock = ~ @] ELSE g
        /\ past' = [past EXCEPT !.raced = Raced(g, transfer), !.grip = IF Gripped THEN {} ELSE @]
  <2> PICK transfer \in BOOLEAN : \E g \in Dialogs(gui, transfer) : After(transfer, g)
    BY <1>7 DEF Lock, Happens
  <2> PICK g \in Dialogs(gui, transfer) : After(transfer, g)
    OBVIOUS
  <2>1. cap' = (IF Gripped THEN Cleared ELSE cap) /\ keys' = keys
    BY <1>7 DEF Lock
  <2>2. DOMAIN g = DOMAIN gui /\ g.repeat_key = gui.repeat_key /\ (~ transfer => g = gui)
    BY DialogShape
  <2>3. /\ DOMAIN gui' = DOMAIN gui /\ gui'.repeat_key = gui.repeat_key
        /\ gui'.dialog = g.dialog /\ gui'.complete = g.complete /\ gui'.pause = g.pause
    BY <2>2
  <2>4. DOMAIN past' = DOMAIN past /\ past'.woke = past.woke /\ past'.woken = past.woken
        /\ past'.raced = Raced(g, transfer) /\ past'.grip = IF Gripped THEN {} ELSE past.grip
    OBVIOUS
  <2>5. Shape'
    BY <2>1, <2>3, <2>4 DEF Cleared
  <2>6. FrozenByDialog'
    BY <2>2, <2>3, <2>4 DEF Raced
  <2> HIDE DEF After
  <2> QED BY <2>1, <2>4, <2>5, <2>6 DEF Cleared
<1>8. CASE Restart
  <2> PICK asleep \in BOOLEAN, full \in BOOLEAN : Started(gui', past', asleep, full)
    BY <1>8 DEF Restart, Happens
  <2>1. cap' = CapInit /\ keys' = KeysInit
    BY <1>8 DEF Restart
  <2> QED BY <2>1, StartShape, TimedLockKeys DEF CapInit, KeysInit
<1>9. CASE process_keys
  <2>1. CASE NoKeys
    BY <2>1 DEF NoKeys
  <2>2. CASE Locked \/ NothingToDo
    BY <2>2 DEF Locked, NothingToDo, Acts, Processes
  <2>3. CASE UpOrDown \/ UpOrDownReleased
    BY <2>3 DEF UpOrDown, UpOrDownReleased, Acts, Processes
  <2>4. CASE Back
    BY <2>4 DEF Back, Acts, Processes
  <2>5. CASE Home
    BY <2>5 DEF Home, Acts, Processes, Jumps, Jump
  <2>6. ASSUME NEW i, Follows(i),
               keys' = [keys EXCEPT !.start = StartAfter(@), !.ring[keys.start] = NoEvent]
        PROVE  PanelInv'
    <3>1. CASE Jumps(i.to)
      BY <2>6, <3>1 DEF Jumps, Jump
    <3>2. CASE Fires(i)
      <4>1. Shape'
        BY <2>6, <3>2 DEF Fires, ShowDialog, Jump
      <4>2. FrozenByDialog'
        BY <2>6, <3>2 DEF Fires, ShowDialog, Jump, Raced
      <4> QED BY <2>6, <3>2, <4>1, <4>2 DEF Fires
    <3> QED BY <2>6, <3>1, <3>2 DEF Follows
  <2>7. CASE SoftKey
    BY <2>6, <2>7 DEF SoftKey, Acts, Processes
  <2>8. CASE Select
    BY <2>6, <2>8 DEF Select, Acts, Processes
  <2> QED BY <1>9, <2>1, <2>2, <2>3, <2>4, <2>5, <2>7, <2>8 DEF process_keys
<1>10. CASE UNCHANGED vars
  BY <1>10 DEF vars
<1> QED BY <1>1, <1>2, <1>3, <1>4, <1>5, <1>6, <1>7, <1>8, <1>9, <1>10 DEF Next, MainLoop

\* The touch that wakes the screen does nothing else (GUI::receive_key).
THEOREM WakeTouchInertHolds == Spec => []WakeTouchInert
BY PanelStart, PanelStep, PTL DEF Spec, PanelInv

\* The display is frozen only behind a dialog that a key will end
\* (GUI::show_dialog, render, receive_key).
THEOREM FrozenByDialogHolds == Spec => []FrozenByDialog
BY PanelStart, PanelStep, PTL DEF Spec, PanelInv

\* One grip of both keys locks or unlocks once (the lock code of main.cpp and
\* cap_clear_press): a toggle finds both pressed in this grip, and clears them.
THEOREM OneGripOneToggleHolds == Spec => OneGripOneToggle
<1>1. PanelInv /\ [Next]_vars => [Lock /\ gui'.lock # gui.lock => past.grip = LockKeys]_vars
  <2> SUFFICES ASSUME PanelInv, Lock, gui'.lock # gui.lock PROVE past.grip = LockKeys
    OBVIOUS
  <2>1. PICK transfer \in BOOLEAN : \E g \in Dialogs(gui, transfer) :
          gui' = IF Gripped THEN [g EXCEPT !.lock = ~ @] ELSE g
    BY DEF Lock, Happens
  <2>2. PICK g \in Dialogs(gui, transfer) : gui' = IF Gripped THEN [g EXCEPT !.lock = ~ @] ELSE g
    BY <2>1
  <2>3. g.lock = gui.lock
    BY DialogShape DEF PanelInv, Shape
  <2>4. Gripped
    BY <2>2, <2>3
  <2> QED BY <2>4 DEF PanelInv, Gripped
<1> QED BY <1>1, PanelStart, PanelStep, PTL DEF Spec, OneGripOneToggle

-----------------------------------------------------------------------------
(* The queue *)

Places == 0 .. KeysMax - 1

QueueInv ==
  /\ {"ring", "start", "end"} \subseteq DOMAIN keys /\ DOMAIN keys.ring = Places
  /\ keys.start \in Places /\ keys.end \in Places
  /\ queue \in Seq(Events)
  /\ KeysInOrder

LEMMA QueueAlways == Spec => []QueueInv
<1> USE DEF Places, QueueInv
<1>1. 0 \in Places /\ KeysMax \in Nat \ {0}
  BY PanelAssumption
<1>2. ASSUME keys'.start = 0, keys'.end = 0, queue' = <<>>,
             {"ring", "start", "end"} \subseteq DOMAIN keys', DOMAIN keys'.ring = Places
      PROVE  QueueInv'
  <2>1. (0 - 0) % KeysMax = 0
    BY <1>1, Modulo
  <2>2. queue' \in Seq(Events) /\ Len(queue') = 0
    BY <1>2
  <2>3. \A i \in 1 .. Len(queue') : FALSE
    BY <2>2
  <2> QED BY <1>1, <1>2, <2>1, <2>2, <2>3 DEF KeysInOrder
<1>3. ASSUME QueueInv, NEW g, NEW e \in Events, receive_key(g, e)
      PROVE  QueueInv'
  <2>1. CASE Takes
    <3> DEFINE n == keys.end
    <3>1. keys' = [keys EXCEPT !.ring[keys.end] = e, !.end = EndAfter(keys.end)]
      BY <1>3, <2>1 DEF receive_key
    <3>2. queue' = IF Len(queue) + 1 = KeysMax THEN <<>> ELSE Append(queue, e)
      BY <1>3, <2>1 DEF receive_key
    <3>3. /\ keys'.start = keys.start /\ keys'.end = (n + 1) % KeysMax
          /\ keys'.ring = [keys.ring EXCEPT ![n] = e] /\ DOMAIN keys' = DOMAIN keys
      BY <1>3, <3>1 DEF EndAfter
    <3>4. (n + 1) % KeysMax \in Places
      <4>1. (n + 1) % KeysMax = IF n + 1 = KeysMax THEN 0 ELSE n + 1
        BY <1>1, <1>3, Modulo
      <4> QED BY <1>1, <1>3, <4>1
    <3>5. queue' \in Seq(Events)
      BY <1>3, <3>2
    <3>6. InRing(queue', [keys.ring EXCEPT ![n] = e], keys.start, (n + 1) % KeysMax, KeysMax)
      <4>1. /\ n \in 0 .. KeysMax - 1 /\ keys.start \in 0 .. KeysMax - 1
            /\ DOMAIN keys.ring = 0 .. KeysMax - 1 /\ queue \in Seq(Events)
            /\ InRing(queue, keys.ring, keys.start, n, KeysMax)
        BY <1>3 DEF KeysInOrder, InRing
      <4> QED BY <1>1, <1>3, <3>2, <4>1, Pushed
    <3> QED BY <1>3, <3>3, <3>4, <3>5, <3>6 DEF KeysInOrder, InRing
  <2>2. CASE ~ Takes
    <3>1. queue' = queue /\ (keys' = keys \/ keys' = [keys EXCEPT !.discard = ctl.m_screen_dimmed])
      BY <1>3, <2>2 DEF receive_key
    <3> QED BY <1>3, <3>1 DEF KeysInOrder
  <2> QED BY <2>1, <2>2
<1>4. ASSUME QueueInv, Processes
      PROVE  QueueInv'
  <2> DEFINE t == StartAfter(keys.start)
  <2>1. /\ keys'.start = t /\ keys'.end = keys.end /\ DOMAIN keys' = DOMAIN keys
        /\ keys'.ring = [keys.ring EXCEPT ![keys.start] = NoEvent]
        /\ queue' = Tail(queue) /\ keys.start # keys.end
    BY <1>4 DEF Processes
  <2>2. t = IF keys.start + 1 >= KeysMax THEN 0 ELSE keys.start + 1
    BY DEF StartAfter
  <2>3. InRing(queue, keys.ring, keys.start, keys.end, KeysMax)
    BY <1>4 DEF KeysInOrder, InRing
  <2> HIDE DEF t
  <2>4. /\ t \in Places /\ Tail(queue) \in Seq(Events)
        /\ InRing(Tail(queue), [keys.ring EXCEPT ![keys.start] = NoEvent], t, keys.end, KeysMax)
    <3>1. /\ keys.start \in 0 .. KeysMax - 1 /\ keys.end \in 0 .. KeysMax - 1
          /\ queue \in Seq(Events) /\ DOMAIN keys.ring = 0 .. KeysMax - 1
      BY <1>4
    <3> QED BY <1>1, <2>1, <2>2, <2>3, <3>1, Popped
  <2> QED BY <1>4, <2>1, <2>4 DEF KeysInOrder, InRing
<1>5. Init => PanelInv /\ QueueInv
  <2>1. ASSUME Init PROVE QueueInv
    <3>1. /\ keys.start = 0 /\ keys.end = 0 /\ queue = <<>>
          /\ {"ring", "start", "end"} \subseteq DOMAIN keys
          /\ DOMAIN keys.ring = Places
      BY <2>1 DEF Init, KeysInit
    <3>2. (0 - 0) % KeysMax = 0
      BY <1>1, Modulo
    <3>3. queue \in Seq(Events) /\ Len(queue) = 0 /\ \A i \in 1 .. 0 : FALSE
      BY <3>1
    <3> QED BY <1>1, <3>1, <3>2, <3>3 DEF KeysInOrder
  <2> QED BY <2>1, PanelStart
<1>6. PanelInv /\ QueueInv /\ [Next]_vars => QueueInv'
  <2> SUFFICES ASSUME PanelInv, QueueInv, [Next]_vars PROVE QueueInv'
    OBVIOUS
  <2> HIDE DEF QueueInv, Places
  <2>1. CASE UNCHANGED <<keys, queue>>
    BY <2>1 DEF QueueInv, KeysInOrder
  <2>2. CASE cap_change
    <3> PICK k \in Keys, type \in {"pressed", "released"} : receive_key(gui, <<k, type>>)
      BY <2>2 DEF cap_change, Touched
    <3>1. <<k, type>> \in Events
      BY DEF Events
    <3> QED BY <1>3, <3>1
  <2>3. CASE Render
    <3>1. CASE UNCHANGED <<keys, queue>>
      BY <2>1, <3>1
    <3>2. CASE receive_key(Drawn(RepeatTimed), <<gui.repeat_key, "pressed">>)
      <4>1. <<gui.repeat_key, "pressed">> \in Events
        BY DEF Events, Keys, PanelInv, Shape
      <4> QED BY <1>3, <3>2, <4>1
    <3> QED BY <2>3, <3>1, <3>2 DEF Render
  <2>4. CASE RenderDismissed
    BY <1>2, <2>4 DEF RenderDismissed, QueueInv, Places
  <2>5. CASE Restart
    BY <1>2, <2>5 DEF Restart, KeysInit, QueueInv, Places
  <2>6. CASE Processes
    BY <1>4, <2>6
  <2> QED BY <2>1, <2>2, <2>3, <2>4, <2>5, <2>6
          DEF Next, MainLoop, process_keys, vars, Time, update, RenderSleeping, NoKeys, Locked,
              SoftKey,
              UpOrDown, UpOrDownReleased, Select, Back, Home, NothingToDo, Acts, Lock
<1> QED BY <1>5, <1>6, PanelStep, PTL DEF Spec

\* The ring holds the events accepted and not yet processed, in order,
\* whatever its size and however often it overflows (GUI::receive_key,
\* process_keys, clear_pending_keys).
THEOREM KeysInOrderHolds == Spec => []KeysInOrder
<1>1. QueueInv => KeysInOrder
  BY DEF QueueInv
<1> QED BY <1>1, QueueAlways, PTL

-----------------------------------------------------------------------------
(* The screens *)

Types == {"label", "menu", "menu_action", "varnum", "softkey", "softkey_action", "action",
          "leave_action", "delay"}

\* What items do, but for switching operating modes.
Doings == {"-", "$BRIGHTNESS", "$NEXTMODE", "Beep", "BrightnessSCN", "CALIBRATE", "ClearLog",
           "LeftBrightness", "MuteAlarm", "NeverDim", "Save", "SaveBrightness", "SaveCalib",
           "SaveCountWin", "SaveWarnCPM", "TurnScreenOff"}

ModeScreens == {1, 2, 4, 15, 21, 28}

Plain  == [type : Types, key : 0 .. 2, to : 0 .. 28, event : Doings]
Choice == Plain \cup {Toggle(s) : s \in ModeScreens}

\* Screens of items of I: of 13 at most, the first no number and leading nowhere.
Rows(I) == {r \in Seq(I) : Len(r) \in 1 .. 13 /\ r[1].type # "varnum" /\ r[1].to = 0}

LEMMA PlainItem ==
  ASSUME NEW t \in Types, NEW k \in 0 .. 2, NEW s \in 0 .. 28, NEW e \in Doings
  PROVE  Item(t, k, s, e) \in Plain
BY DEF Item, Plain

LEMMA PlainItems ==
  /\ Label \in Plain /\ Num \in Plain /\ Brightness \in Plain
  /\ \A s \in 0 .. 28 : To(s) \in Plain /\ Wait(s) \in Plain
  /\ \A s \in 0 .. 28, k \in 0 .. 2 : Key(k, s) \in Plain
  /\ \A e \in Doings, k \in 0 .. 2 :
       Do(e) \in Plain /\ Enter(e) \in Plain /\ Leave(e) \in Plain /\ KeyDo(k, e) \in Plain
<1>1. "-" \in Doings /\ "$BRIGHTNESS" \in Doings
  BY DEF Doings
<1>2. \A t \in {"label", "menu", "menu_action", "varnum", "softkey", "softkey_action", "action",
                "leave_action", "delay"} : t \in Types
  BY DEF Types
<1> QED BY <1>1, <1>2, PlainItem DEF Label, Num, Brightness, To, Wait, Key, Do, Enter, Leave, KeyDo

LEMMA ActionItems ==
  /\ KeyDo(0, "$NEXTMODE") \in Plain /\ NextMode \in Plain /\ Beep \in Plain /\ Save \in Plain
  /\ KeyDo(2, "-") \in Plain /\ KeyDo(2, "SaveCalib") \in Plain
  /\ KeyDo(2, "SaveBrightness") \in Plain /\ KeyDo(2, "SaveWarnCPM") \in Plain
  /\ KeyDo(2, "ClearLog") \in Plain /\ Item("softkey_action", 2, 15, "SaveCountWin") \in Plain
  /\ Do("-") \in Plain /\ Do("MuteAlarm") \in Plain /\ Do("NeverDim") \in Plain
  /\ Do("TurnScreenOff") \in Plain
  /\ Enter("-") \in Plain /\ Enter("CALIBRATE") \in Plain /\ Enter("BrightnessSCN") \in Plain
  /\ Leave("LeftBrightness") \in Plain
<1>1. \A e \in {"-", "$NEXTMODE", "Beep", "Save", "SaveCalib", "SaveBrightness", "SaveWarnCPM",
                "ClearLog", "SaveCountWin", "MuteAlarm", "NeverDim", "TurnScreenOff", "CALIBRATE",
                "BrightnessSCN", "LeftBrightness"} : e \in Doings
  BY DEF Doings
<1>2. "softkey_action" \in Types
  BY DEF Types
<1> QED BY <1>1, <1>2, PlainItem, PlainItems DEF NextMode, Beep, Save

LEMMA Firsts ==
  /\ Label.type # "varnum" /\ Label.to = 0
  /\ Enter("CALIBRATE").type # "varnum" /\ Enter("CALIBRATE").to = 0
BY DEF Label, Enter, Item

LEMMA Rows0To9 == \A n \in 1 .. 10 : Screens0To9[n] \in Rows(Plain)
<1>1. Screens0To9[1] \in Rows(Plain)
  BY PlainItems, ActionItems, Firsts DEF Screens0To9, Rows
<1>2. Screens0To9[2] \in Rows(Plain)
  BY PlainItems, ActionItems, Firsts DEF Screens0To9, Rows
<1>3. Screens0To9[3] \in Rows(Plain)
  BY PlainItems, ActionItems, Firsts DEF Screens0To9, Rows
<1>4. Screens0To9[4] \in Rows(Plain)
  BY PlainItems, ActionItems, Firsts DEF Screens0To9, Rows
<1>5. Screens0To9[5] \in Rows(Plain)
  BY PlainItems, ActionItems, Firsts DEF Screens0To9, Rows
<1>6. Screens0To9[6] \in Rows(Plain)
  BY PlainItems, ActionItems, Firsts DEF Screens0To9, Rows
<1>7. Screens0To9[7] \in Rows(Plain)
  BY PlainItems, ActionItems, Firsts DEF Screens0To9, Rows
<1>8. Screens0To9[8] \in Rows(Plain)
  BY PlainItems, ActionItems, Firsts DEF Screens0To9, Rows
<1>9. Screens0To9[9] \in Rows(Plain)
  BY PlainItems, ActionItems, Firsts DEF Screens0To9, Rows
<1>10. Screens0To9[10] \in Rows(Plain)
  BY PlainItems, ActionItems, Firsts DEF Screens0To9, Rows
<1> QED BY <1>1, <1>2, <1>3, <1>4, <1>5, <1>6, <1>7, <1>8, <1>9, <1>10

LEMMA Rows10To19 == \A n \in 1 .. 10 : Screens10To19[n] \in Rows(Plain)
<1>1. Screens10To19[1] \in Rows(Plain)
  BY PlainItems, ActionItems, Firsts DEF Screens10To19, Rows
<1>2. Screens10To19[2] \in Rows(Plain)
  BY PlainItems, ActionItems, Firsts DEF Screens10To19, Rows
<1>3. Screens10To19[3] \in Rows(Plain)
  BY PlainItems, ActionItems, Firsts DEF Screens10To19, Rows
<1>4. Screens10To19[4] \in Rows(Plain)
  BY PlainItems, ActionItems, Firsts DEF Screens10To19, Rows
<1>5. Screens10To19[5] \in Rows(Plain)
  BY PlainItems, ActionItems, Firsts DEF Screens10To19, Rows
<1>6. Screens10To19[6] \in Rows(Plain)
  BY PlainItems, ActionItems, Firsts DEF Screens10To19, Rows
<1>7. Screens10To19[7] \in Rows(Plain)
  BY PlainItems, ActionItems, Firsts DEF Screens10To19, Rows
<1>8. Screens10To19[8] \in Rows(Plain)
  BY PlainItems, ActionItems, Firsts DEF Screens10To19, Rows
<1>9. Screens10To19[9] \in Rows(Plain)
  BY PlainItems, ActionItems, Firsts DEF Screens10To19, Rows
<1>10. Screens10To19[10] \in Rows(Plain)
  BY PlainItems, ActionItems, Firsts DEF Screens10To19, Rows
<1> QED BY <1>1, <1>2, <1>3, <1>4, <1>5, <1>6, <1>7, <1>8, <1>9, <1>10

LEMMA Rows20To28 ==
  \A n \in 1 .. 9 : Screens20To28[n] \in Rows(IF n = 8 THEN Choice ELSE Plain)
<1>1. Screens20To28[1] \in Rows(Plain)
  BY PlainItems, ActionItems, Firsts DEF Screens20To28, Rows
<1>2. Screens20To28[2] \in Rows(Plain)
  BY PlainItems, ActionItems, Firsts DEF Screens20To28, Rows
<1>3. Screens20To28[3] \in Rows(Plain)
  BY PlainItems, ActionItems, Firsts DEF Screens20To28, Rows
<1>4. Screens20To28[4] \in Rows(Plain)
  BY PlainItems, ActionItems, Firsts DEF Screens20To28, Rows
<1>5. Screens20To28[5] \in Rows(Plain)
  BY PlainItems, ActionItems, Firsts DEF Screens20To28, Rows
<1>6. Screens20To28[6] \in Rows(Plain)
  BY PlainItems, ActionItems, Firsts DEF Screens20To28, Rows
<1>7. Screens20To28[7] \in Rows(Plain)
  BY PlainItems, ActionItems, Firsts DEF Screens20To28, Rows
<1>8. Screens20To28[8] \in Rows(Choice)
  <2>1. \A s \in ModeScreens : Toggle(s) \in Choice
    BY DEF Choice
  <2>2. Label \in Choice /\ Key(0, 0) \in Choice
    BY PlainItems DEF Choice
  <2> QED BY <2>1, <2>2, Firsts DEF Screens20To28, Rows, ModeScreens
<1>9. Screens20To28[9] \in Rows(Plain)
  BY PlainItems, ActionItems, Firsts DEF Screens20To28, Rows
<1> QED BY <1>1, <1>2, <1>3, <1>4, <1>5, <1>6, <1>7, <1>8, <1>9

LEMMA AllItems ==
  ASSUME NEW s \in 0 .. 28
  PROVE  all_items(s) \in Rows(IF s = 27 THEN Choice ELSE Plain)
<1>1. CASE s < 10
  <2>1. s + 1 \in 1 .. 10 /\ s # 27
    BY <1>1
  <2> QED BY <1>1, <2>1, Rows0To9 DEF all_items
<1>2. CASE ~ (s < 10) /\ s < 20
  <2>1. s - 9 \in 1 .. 10 /\ s # 27
    BY <1>2
  <2> QED BY <1>2, <2>1, Rows10To19 DEF all_items
<1>3. CASE ~ (s < 20)
  <2>1. s - 19 \in 1 .. 9 /\ (s - 19 = 8 <=> s = 27) /\ ~ (s < 10)
    BY <1>3
  <2>2. all_items(s) = Screens20To28[s - 19]
    BY <1>3, <2>1 DEF all_items
  <2>3. Screens20To28[s - 19] \in Rows(IF s - 19 = 8 THEN Choice ELSE Plain)
    BY <2>1, Rows20To28
  <2> QED BY <2>1, <2>2, <2>3
<1> QED BY <1>1, <1>2, <1>3

\* What items of a screen can do: lead to a screen there is, and switch an
\* operating mode on the screen for that only.
Allowed(s, i) ==
  /\ i.to \in Screens
  /\ i.event = "Mode" => s = 27 /\ i.to \in ModeScreens

LEMMA ItemsAllowed ==
  ASSUME NEW s \in 0 .. 28, NEW i \in (IF s = 27 THEN Choice ELSE Plain), i.to \in Screens
  PROVE  Allowed(s, i)
<1>1. CASE i \in Plain
  <2>1. i.event # "Mode"
    BY <1>1 DEF Plain, Doings
  <2> QED BY <2>1 DEF Allowed
<1>2. CASE i \notin Plain
  <2>1. s = 27
    BY <1>2
  <2>2. PICK m \in ModeScreens : i = Toggle(m)
    BY <1>2, <2>1 DEF Choice
  <2>3. i.to = m
    BY <2>2 DEF Toggle, Item
  <2> QED BY <2>1, <2>3 DEF Allowed
<1> QED BY <1>1, <1>2

LEMMA Layout ==
  ASSUME Screens \subseteq 0 .. 28, 0 \in Screens, NEW s \in Screens
  PROVE  /\ item_count(s) \in 1 .. 13
         /\ item(s, 0).type # "varnum"
         /\ \A i \in items(s) : Allowed(s, i)
         /\ \A n \in 0 .. item_count(s) - 1 : item(s, n) \in items(s)
<1> DEFINE I == IF s = 27 THEN Choice ELSE Plain
           r == all_items(s)
           P == {n \in 1 .. Len(r) : r[n].to \in Screens}
           W == {i \in I : i.to \in Screens}
           q == Subsequence(r, P)
<1>1. screens_layout[s] = q
  BY DEF screens_layout
<1>2. r \in Seq(I) /\ Len(r) \in 1 .. 13 /\ r[1].type # "varnum" /\ r[1].to = 0
  BY AllItems DEF Rows
<1>3. 1 \in P
  BY <1>2
<1>4. \A n \in 1 .. Len(r) : n \in P => r[n] \in W
  BY <1>2
<1> HIDE DEF I, r, P
<1>5. q \in Seq(W) /\ Len(q) <= Len(r)
  BY <1>2, <1>4, SubsequenceType
<1>6. Len(q) >= 1 /\ q[1] = r[1]
  BY <1>2, <1>3, SubsequenceFirst
<1> HIDE DEF q
<1>7. Len(q) \in 1 .. 13
  <2> DEFINE a == Len(q)
             b == Len(r)
  <2>1. a \in Nat /\ a <= b /\ a >= 1
    BY <1>5, <1>6
  <2>2. b \in 1 .. 13
    BY <1>2
  <2> HIDE DEF a, b
  <2>3. a \in 1 .. 13
    BY <2>1, <2>2
  <2> QED BY <2>3 DEF a
<1>8. item_count(s) = Len(q) /\ \A n : item(s, n) = q[n + 1]
  BY <1>1 DEF item_count, item
<1>9. item(s, 0).type # "varnum"
  <2>1. 0 + 1 = 1
    OBVIOUS
  <2> QED BY <1>2, <1>6, <1>8, <2>1
<1>10. ASSUME NEW n \in 0 .. Len(q) - 1 PROVE Allowed(s, q[n + 1])
  <2>1. n + 1 \in 1 .. Len(q)
    BY <1>7
  <2>2. q[n + 1] \in W
    BY <1>5, <2>1, ElementOfSeq
  <2> QED BY <2>2, ItemsAllowed DEF I
<1> QED BY <1>7, <1>8, <1>9, <1>10 DEF items

-----------------------------------------------------------------------------
(* The operating modes *)

LEMMA ModesAre == Modes = ModeScreens \cap Screens
<1> DEFINE P == {n \in 1 .. Len(opmodes) : opmodes[n] \in Screens}
           W == ModeScreens \cap Screens
<1>1. /\ opmodes \in Seq(ModeScreens) /\ Len(opmodes) = 6
      /\ \A m \in ModeScreens : \E n \in 1 .. 6 : opmodes[n] = m
  BY DEF opmodes, ModeScreens
<1>2. Opmodes = Subsequence(opmodes, P)
  BY DEF Opmodes
<1>3. \A n \in 1 .. Len(opmodes) : n \in P => opmodes[n] \in W
  <2> SUFFICES ASSUME NEW n \in 1 .. Len(opmodes), n \in P PROVE opmodes[n] \in W
    OBVIOUS
  <2>1. opmodes[n] \in ModeScreens
    BY <1>1, ElementOfSeq
  <2> QED BY <2>1
<1>4. Opmodes \in Seq(W)
  <2> HIDE DEF P
  <2> QED BY <1>1, <1>2, <1>3, SubsequenceType
<1>5. ASSUME NEW m \in W PROVE m \in Modes
  <2>1. PICK n \in 1 .. Len(opmodes) : opmodes[n] = m
    BY <1>1
  <2>2. n \in P
    BY <2>1
  <2> HIDE DEF P, W
  <2>3. \E j \in 1 .. Len(Subsequence(opmodes, P)) : Subsequence(opmodes, P)[j] = opmodes[n]
    <3>1. opmodes \in Seq(ModeScreens) /\ n \in P
      BY <1>1, <2>2
    <3> QED BY <3>1, SubsequenceHas
  <2>4. \E j \in 1 .. Len(Opmodes) : Opmodes[j] = m
    BY <1>2, <2>1, <2>3
  <2> QED BY <2>4 DEF Modes
<1>6. ASSUME NEW m \in Modes PROVE m \in W
  <2>1. PICK j \in 1 .. Len(Opmodes) : Opmodes[j] = m
    BY <1>6 DEF Modes
  <2> HIDE DEF W
  <2> QED BY <1>4, <2>1, ElementOfSeq
<1> QED BY <1>5, <1>6

\* From an operating mode and from the main menu the next mode is an enabled one.
LEMMA NextModeIs ==
  ASSUME NEW s \in Modes \cup {0}, NEW enabled \in SUBSET Modes, enabled # {}
  PROVE  next_opmode(s, enabled) \in enabled
<1> DEFINE l == Len(Opmodes)
           place == IF s = 0 THEN 0 ELSE CHOOSE i \in 1 .. Len(Opmodes) : Opmodes[i] = s
           after(i) == (i - place - 1) % Len(Opmodes)
           possible == {i \in 1 .. Len(Opmodes) : Opmodes[i] \in enabled}
           T == {after(i) : i \in possible}
           Nearest1(i) == \A j \in possible : after(i) <= after(j)
<1>1. \E i \in 1 .. Len(Opmodes) : Opmodes[i] \in enabled
  BY DEF Modes
<1>2. PICK n \in possible : TRUE
  BY <1>1
<1>3. l \in Nat \ {0}
  <2>1. l \in Nat
    BY DEF Opmodes
  <2> QED BY <2>1, <1>2
<1>4. place \in 0 .. l
  <2>1. CASE s = 0
    BY <1>3, <2>1
  <2>2. CASE s # 0
    <3>1. \E i \in 1 .. Len(Opmodes) : Opmodes[i] = s
      BY <2>2 DEF Modes
    <3> QED BY <2>2, <3>1, <1>3
  <2> QED BY <2>1, <2>2
<1> HIDE DEF place
<1>5. ASSUME NEW i \in possible PROVE after(i) \in Nat
  <2>1. i - place - 1 \in Int
    BY <1>3, <1>4
  <2> HIDE DEF l
  <2>2. (i - place - 1) % l \in Nat
    BY <1>3, <2>1
  <2> QED BY <2>2 DEF l
<1> HIDE DEF after, possible
<1>6. PICK x \in T : \A y \in T : x <= y
  <2>1. T \in SUBSET Nat /\ T # {}
    BY <1>2, <1>5
  <2> HIDE DEF T
  <2> QED BY <2>1, LeastNatural
<1>7. \E i \in possible : Nearest1(i)
  BY <1>6
<1> DEFINE c == CHOOSE i \in possible : Nearest1(i)
<1>8. c \in possible
  <2> HIDE DEF Nearest1
  <2> QED BY <1>7
<1>9. next_opmode(s, enabled) = Opmodes[c]
  BY DEF next_opmode, place, after, possible
<1> HIDE DEF c
<1> QED BY <1>8, <1>9 DEF possible

-----------------------------------------------------------------------------
(* Types and the label of the next mode *)

GuiStates ==
  [current_screen : Screens, selected_item : 1 .. 13,
   clear_next_render : BOOLEAN, first_render : BOOLEAN, lock : BOOLEAN,
   repeating : BOOLEAN, repeat_key : {"UP", "DOWN"}, repeat_time : 0 .. RepeatDelay,
   dialog : BOOLEAN, complete : BOOLEAN, pause : BOOLEAN, delay : 0 .. WaitTime]

IsGui(g) == g \in GuiStates /\ g.selected_item < item_count(g.current_screen)

IsCtl(c) ==
  c \in [m_sleeping : BOOLEAN, m_screen_dimmed : BOOLEAN, m_dim_off : BOOLEAN,
         m_neverdim : BOOLEAN, m_warning_raised : BOOLEAN, brightness : 1 .. Full,
         stored : Levels \cup {0}, edit : Levels, enabled_modes : (SUBSET Modes) \ {{}},
         next_mode_label : Modes \cup {0}]

\* The label is that of the mode that follows the screen of g, if one does.
Labelled(g, c) ==
  g.current_screen = 0 \/ g.current_screen \in Modes =>
    c.next_mode_label = next_opmode(g.current_screen, c.enabled_modes)

SameLabel(c, d) ==
  d.next_mode_label = c.next_mode_label /\ d.enabled_modes = c.enabled_modes

LEMMA Parts ==
  /\ Screens \subseteq 0 .. 28 /\ 0 \in Screens /\ 1 \in Screens
  /\ Modes \subseteq Screens /\ 1 \in Modes /\ 0 \notin Modes /\ 27 \notin Modes
  /\ Modes = ModeScreens \cap Screens
  /\ RepeatDelay \in Nat \ {0} /\ WaitTime \in Nat /\ KeysMax \in Nat \ {0}
BY PanelAssumption, ModesAre DEF ModeScreens

LEMMA Layouts ==
  ASSUME NEW s \in Screens
  PROVE  /\ item_count(s) \in 2 .. 13
         /\ item(s, 0).type # "varnum"
         /\ \A i \in items(s) : Allowed(s, i)
         /\ \A n \in 0 .. item_count(s) - 1 : item(s, n) \in items(s)
<1>1. /\ item_count(s) \in 1 .. 13
      /\ item(s, 0).type # "varnum"
      /\ \A i \in items(s) : Allowed(s, i)
      /\ \A n \in 0 .. item_count(s) - 1 : item(s, n) \in items(s)
  BY Layout, Parts
<1>2. item_count(s) >= 2
  BY PanelAssumption
<1>3. item_count(s) \in 2 .. 13
  BY <1>1, <1>2
<1> QED BY <1>1, <1>3

\* There is a brightest level, and a next one up and down or none.
LEMMA Brightest ==
  /\ Full \in Levels /\ Full \in 1 .. 255 /\ \A l \in Levels : l \in 1 .. Full
<1> DEFINE T == {255 - l : l \in Levels}
<1>1. Levels \subseteq 1 .. 255 /\ Levels # {}
  BY PanelAssumption
<1>2. PICK x \in T : \A y \in T : x <= y
  <2>1. \A l \in Levels : 255 - l \in Nat
    BY <1>1
  <2>2. T \in SUBSET Nat /\ T # {}
    BY <1>1, <2>1, ZenonT(30)
  <2> HIDE DEF T
  <2> QED BY <2>2, LeastNatural
<1>3. PICK f \in Levels : x = 255 - f
  OBVIOUS
<1>4. \A m \in Levels : m <= f
  <2> SUFFICES ASSUME NEW m \in Levels PROVE m <= f
    OBVIOUS
  <2>1. 255 - m \in T
    OBVIOUS
  <2>2. x <= 255 - m
    <3> HIDE DEF T
    <3> QED BY <1>2, <2>1
  <2> QED BY <1>1, <1>3, <2>2
<1>5. Full \in Levels /\ \A m \in Levels : m <= Full
  BY <1>4 DEF Full
<1> QED BY <1>1, <1>5

LEMMA NearestLevel ==
  ASSUME NEW l \in Levels, NEW up \in BOOLEAN
  PROVE  Nearest(l, up) \in Levels
<1> DEFINE beyond == {m \in Levels : IF up THEN m > l ELSE m < l}
           Next1(m) == \A n \in beyond : IF up THEN m <= n ELSE n <= m
<1>1. Levels \subseteq 1 .. 255
  BY PanelAssumption
<1>2. ASSUME beyond # {} PROVE \E m \in beyond : Next1(m)
  <2>1. CASE up
    <3>1. beyond \in SUBSET Nat
      <4>1. \A m \in beyond : m \in 1 .. 255
        BY <1>1
      <4> HIDE DEF beyond
      <4> QED BY <4>1
    <3>2. \E m \in beyond : \A n \in beyond : m <= n
      <4> HIDE DEF beyond
      <4> QED BY <1>2, <3>1, LeastNatural
    <3> QED BY <2>1, <3>2
  <2>2. CASE ~ up
    <3> DEFINE T == {255 - m : m \in beyond}
    <3>1. PICK x \in T : \A y \in T : x <= y
      <4>1. \A m \in beyond : 255 - m \in Nat
        BY <1>1
      <4>2. T \in SUBSET Nat /\ T # {}
        <5> HIDE DEF beyond
        <5> QED BY <1>2, <4>1
      <4> HIDE DEF T
      <4> QED BY <4>2, LeastNatural
    <3>2. PICK m \in beyond : x = 255 - m
      OBVIOUS
    <3>3. ASSUME NEW n \in beyond PROVE n <= m
      <4>1. 255 - n \in T
        OBVIOUS
      <4>2. x <= 255 - n
        <5> HIDE DEF T
        <5> QED BY <3>1, <4>1
      <4>3. n \in 1 .. 255 /\ m \in 1 .. 255
        BY <1>1
      <4> HIDE DEF beyond, T
      <4> QED BY <3>2, <4>2, <4>3
    <3> QED BY <2>2, <3>3
  <2> QED BY <2>1, <2>2
<1>3. CASE beyond = {}
  BY <1>3 DEF Nearest
<1>4. CASE beyond # {}
  <2>1. Nearest(l, up) = CHOOSE m \in beyond : Next1(m)
    BY <1>4 DEF Nearest
  <2>2. Nearest(l, up) \in beyond
    <3> HIDE DEF beyond, Next1
    <3> QED BY <1>2, <1>4, <2>1
  <2> QED BY <2>2
<1> QED BY <1>3, <1>4

\* Going to another screen.
LEMMA Jumping ==
  ASSUME NEW g, IsGui(g), NEW s \in Screens
  PROVE  IsGui(Jump(g, s)) /\ Jump(g, s).current_screen = s
<1>0. g \in GuiStates /\ 1 \in 1 .. 13
  BY DEF IsGui
<1>1. Jump(g, s) \in GuiStates
  BY <1>0 DEF GuiStates, Jump
<1>2. Jump(g, s).current_screen = s /\ Jump(g, s).selected_item = 1
  BY <1>0 DEF GuiStates, Jump
<1>3. 1 < item_count(s)
  BY Layouts
<1> QED BY <1>1, <1>2, <1>3 DEF IsGui

LEMMA Leaving ==
  ASSUME NEW g, NEW c, IsCtl(c)
  PROVE  IsCtl(Left(g, c)) /\ SameLabel(c, Left(g, c)) /\ Left(g, c).m_sleeping = c.m_sleeping
<1>1. c.stored # 0 => c.stored \in 1 .. Full
  BY Brightest DEF IsCtl
<1> QED BY <1>1 DEF Left, IsCtl, SameLabel

LEMMA Arriving ==
  ASSUME NEW g, NEW c, IsCtl(c), NEW s \in Screens
  PROVE  /\ IsCtl(Jumped(g, c, s)) /\ Jumped(g, c, s).m_sleeping = c.m_sleeping
         /\ \A h : h.current_screen = s => Labelled(h, Jumped(g, c, s))
<1> DEFINE l == IF s = 0 \/ s \in Modes THEN next_opmode(s, c.enabled_modes) ELSE 0
           d == Left(g, c)
<1>1. IsCtl(d) /\ SameLabel(c, d) /\ d.m_sleeping = c.m_sleeping
  BY Leaving
<1>2. l \in Modes \cup {0}
  <2>1. c.enabled_modes \in (SUBSET Modes) \ {{}}
    BY DEF IsCtl
  <2>2. c.enabled_modes \in SUBSET Modes /\ c.enabled_modes # {}
    BY <2>1
  <2> QED BY <2>2, NextModeIs
<1>3. Jumped(g, c, s) = [d EXCEPT !.next_mode_label = l]
  BY DEF Jumped
<1> HIDE DEF d
<1>4. /\ IsCtl([d EXCEPT !.next_mode_label = l])
      /\ [d EXCEPT !.next_mode_label = l].m_sleeping = c.m_sleeping
      /\ [d EXCEPT !.next_mode_label = l].next_mode_label = l
      /\ [d EXCEPT !.next_mode_label = l].enabled_modes = c.enabled_modes
  <2> HIDE DEF l
  <2> QED BY <1>1, <1>2 DEF IsCtl, SameLabel
<1> QED BY <1>3, <1>4 DEF Labelled

LEMMA Shown ==
  ASSUME NEW g, IsGui(g), NEW h \in ShowDialog(g)
  PROVE  IsGui(h) /\ h.current_screen = g.current_screen
<1>1. PICK d \in BOOLEAN : h = [g EXCEPT !.dialog = d, !.complete = FALSE, !.pause = TRUE]
  BY DEF ShowDialog
<1>2. /\ h \in GuiStates /\ h.current_screen = g.current_screen
      /\ h.selected_item = g.selected_item
  BY <1>1 DEF IsGui, GuiStates
<1> QED BY <1>2 DEF IsGui

LEMMA ShownOrNot ==
  ASSUME NEW g, IsGui(g), NEW shown, NEW h \in Dialogs(g, shown)
  PROVE  IsGui(h) /\ h.current_screen = g.current_screen
BY Shown DEF Dialogs

\* An item of the screen is an item of a screen there is.
LEMMA OnScreen ==
  ASSUME NEW g, IsGui(g)
  PROVE  /\ g.current_screen \in Screens /\ g.selected_item \in 1 .. 12
         /\ \A i \in items(g.current_screen) : Allowed(g.current_screen, i)
         /\ item(g.current_screen, g.selected_item) \in items(g.current_screen)
<1>1. g.current_screen \in Screens /\ g.selected_item \in 1 .. 13
  BY DEF IsGui, GuiStates
<1>2. g.selected_item < item_count(g.current_screen)
  BY DEF IsGui
<1>3. /\ item_count(g.current_screen) \in 2 .. 13
      /\ \A i \in items(g.current_screen) : Allowed(g.current_screen, i)
      /\ \A n \in 0 .. item_count(g.current_screen) - 1 :
           item(g.current_screen, n) \in items(g.current_screen)
  BY <1>1, Layouts
<1>4. g.selected_item \in 0 .. item_count(g.current_screen) - 1 /\ g.selected_item \in 1 .. 12
  BY <1>1, <1>2, <1>3
<1> QED BY <1>1, <1>3, <1>4

\* What an event does to the controller; only on the screen that switches the
\* modes does it leave the label behind.
LEMMA Doing ==
  ASSUME NEW g, IsGui(g), NEW c, IsCtl(c), NEW i \in items(g.current_screen)
  PROVE  /\ IsCtl(EventDone(c, i))
         /\ Labelled(g, c) => Labelled(g, EventDone(c, i))
<1> DEFINE d == EventDone(c, i)
<1>0. Allowed(g.current_screen, i)
  BY OnScreen
<1>1. c.stored # 0 => c.stored \in 1 .. Full
  BY Brightest DEF IsCtl
<1>2. user_brightness(c) \in Levels
  BY Brightest DEF IsCtl, user_brightness
<1>3. CASE i.event = "Mode"
  <2>1. g.current_screen = 27 /\ i.to \in Modes
    BY <1>0, <1>3, Parts DEF Allowed
  <2>2. c.enabled_modes \in (SUBSET Modes) \ {{}}
    BY DEF IsCtl
  <2>3. Toggled(c.enabled_modes, i.to) \in (SUBSET Modes) \ {{}}
    BY <2>1, <2>2, Parts DEF Toggled
  <2>4. d = [c EXCEPT !.enabled_modes = Toggled(c.enabled_modes, i.to)]
    BY <1>3 DEF EventDone
  <2>5. IsCtl(d)
    <3> HIDE DEF d
    <3> QED BY <2>3, <2>4 DEF IsCtl
  <2>6. ~ (g.current_screen = 0 \/ g.current_screen \in Modes)
    BY <2>1, Parts
  <2> QED BY <2>5, <2>6 DEF Labelled
<1>4. CASE i.event # "Mode"
  <2>1. \/ d = [c EXCEPT !.m_dim_off = FALSE]
        \/ d = [c EXCEPT !.brightness = c.edit, !.stored = c.edit, !.m_dim_off = FALSE]
        \/ d = [c EXCEPT !.m_warning_raised = FALSE]
        \/ d = [c EXCEPT !.m_neverdim = ~ @]
        \/ d = [c EXCEPT !.m_dim_off = TRUE, !.brightness = Full]
        \/ d = [c EXCEPT !.brightness = IF c.stored = 0 THEN @ ELSE c.stored,
                         !.edit = user_brightness(c)]
        \/ d = c
    BY <1>4 DEF EventDone
  <2>2. c.edit \in Levels /\ c.edit \in 1 .. Full /\ Full \in 1 .. Full
    BY Brightest DEF IsCtl
  <2> HIDE DEF d
  <2>3. IsCtl(d)
    BY <1>1, <1>2, <2>1, <2>2, ZenonT(30) DEF IsCtl
  <2>4. SameLabel(c, d)
    BY <2>1 DEF IsCtl, SameLabel
  <2> QED BY <2>3, <2>4 DEF Labelled, SameLabel, d
<1> QED BY <1>3, <1>4

LEMMA Waiting ==
  ASSUME NEW g, IsGui(g)
  PROVE  IsGui(Waited(g))
<1> DEFINE delay == IF g.clear_next_render THEN WaitTime ELSE IF g.delay > 0 THEN g.delay - 1 ELSE 0
           i == CHOOSE i \in delays(g.current_screen) : TRUE
           n == IF delays(i.to) = {} THEN 0 ELSE WaitTime
<1>1. delay \in 0 .. WaitTime
  BY Parts DEF IsGui, GuiStates
<1>2. CASE g.pause \/ delays(g.current_screen) = {}
  BY <1>2 DEF Waited
<1>3. CASE ~ (g.pause \/ delays(g.current_screen) = {}) /\ delay > 0
  <2>1. Waited(g) = [g EXCEPT !.delay = delay]
    BY <1>3 DEF Waited
  <2> HIDE DEF delay
  <2> QED BY <1>1, <2>1 DEF IsGui, GuiStates
<1>4. CASE ~ (g.pause \/ delays(g.current_screen) = {}) /\ ~ (delay > 0)
  <2>1. i \in items(g.current_screen)
    BY <1>4 DEF delays
  <2>2. i.to \in Screens
    BY <2>1, OnScreen DEF Allowed
  <2>3. Waited(g) = [Jump(g, i.to) EXCEPT !.delay = n]
    BY <1>4 DEF Waited
  <2>4. n \in 0 .. WaitTime
    BY Parts
  <2> HIDE DEF i, n
  <2>5. IsGui(Jump(g, i.to))
    BY <2>2, Jumping
  <2> QED BY <2>3, <2>4, <2>5 DEF IsGui, GuiStates
<1> QED BY <1>2, <1>3, <1>4

LEMMA Dimming ==
  ASSUME NEW c, IsCtl(c), NEW idle
  PROVE  IsCtl(do_dimming(c, idle)) /\ SameLabel(c, do_dimming(c, idle))
<1> DEFINE d == do_dimming(c, idle)
           h == IF c.brightness > 1 THEN c.brightness \div 2 ELSE c.brightness
<1>1. user_brightness(c) \in 1 .. Full
  BY Brightest DEF IsCtl, user_brightness
<1>2. h \in 1 .. Full
  <2> DEFINE b == c.brightness
  <2>1. b \in 1 .. Full /\ Full \in Nat
    BY Brightest DEF IsCtl
  <2> HIDE DEF b
  <2>2. b > 1 => b \div 2 \in 1 .. Full
    BY <2>1
  <2> QED BY <2>1, <2>2 DEF b
<1>3. \/ d = c
      \/ d = [c EXCEPT !.brightness = user_brightness(c), !.m_screen_dimmed = FALSE]
      \/ d = [c EXCEPT !.brightness = h, !.m_screen_dimmed = TRUE]
  BY DEF do_dimming, Undimmed
<1> HIDE DEF d, h
<1>4. IsCtl(d)
  BY <1>1, <1>2, <1>3 DEF IsCtl
<1>5. SameLabel(c, d)
  BY <1>3 DEF IsCtl, SameLabel
<1> QED BY <1>4, <1>5 DEF d

LEMMA Warning ==
  ASSUME NEW c, IsCtl(c), NEW above \in BOOLEAN, NEW moved \in BOOLEAN
  PROVE  LET d == SwitchTurned(check_warning_level(c, above), moved)
         IN  IsCtl(d) /\ SameLabel(c, d)
BY ZenonT(30) DEF IsCtl, SameLabel, SwitchTurned, check_warning_level

LEMMA Varnum ==
  ASSUME NEW c, IsCtl(c), NEW i, NEW l \in Levels
  PROVE  IsCtl(VarnumChanged(c, i, l)) /\ SameLabel(c, VarnumChanged(c, i, l))
<1>1. l \in 1 .. Full
  BY Brightest
<1> QED BY <1>1 DEF VarnumChanged, IsCtl, SameLabel

LEMMA SameScreenLabelled ==
  ASSUME NEW g, NEW h, NEW c, NEW d, Labelled(g, c),
         h.current_screen = g.current_screen, SameLabel(c, d)
  PROVE  Labelled(h, d)
BY DEF Labelled, SameLabel

LEMMA EventScreens ==
  ASSUME NEW g, IsGui(g), NEW c, IsCtl(c), NEW i \in items(g.current_screen),
         NEW s \in EventScreen(g, c, i)
  PROVE  s \in Screens
<1>1. i.to \in Screens
  BY OnScreen DEF Allowed
<1>2. CASE i.event = "$NEXTMODE" /\ (g.current_screen = 0 \/ g.current_screen \in Modes)
  <2>1. c.enabled_modes \in (SUBSET Modes) \ {{}}
    BY DEF IsCtl
  <2>2. next_opmode(g.current_screen, c.enabled_modes) \in c.enabled_modes
    BY <1>2, <2>1, NextModeIs
  <2>3. s = next_opmode(g.current_screen, c.enabled_modes)
    BY <1>2 DEF EventScreen
  <2> QED BY <2>1, <2>2, <2>3, Parts
<1>3. CASE ~ (i.event = "$NEXTMODE" /\ (g.current_screen = 0 \/ g.current_screen \in Modes))
  <2>1. s = 0 \/ s = i.to
    BY <1>3 DEF EventScreen
  <2> QED BY <1>1, <2>1, Parts
<1> QED BY <1>2, <1>3

CapStates ==
  [held : SUBSET Keys, pressed : SUBSET LockKeys, recent : SUBSET LockKeys,
   idle : BOOLEAN, on : BOOLEAN]

KeyStates ==
  [ring : [Places -> Events \cup {NoEvent}], start : Places, end : Places, discard : BOOLEAN]

PastStates ==
  [woke : Keys \cup {"none"}, woken : BOOLEAN, raced : BOOLEAN, grip : SUBSET LockKeys]

\* TypeOK and LabelTrue, in the parts the actions change.
PanelTypes ==
  /\ at \in {"update", "render", "keys", "lock"} /\ scene \in Scenes
  /\ cap \in CapStates /\ keys \in KeyStates /\ past \in PastStates
  /\ queue \in Seq(Events)
  /\ IsGui(gui) /\ IsCtl(ctl) /\ Labelled(gui, ctl)

LEMMA PanelTypesAre == PanelTypes => TypeOK /\ LabelTrue
BY DEF PanelTypes, TypeOK, LabelTrue, IsGui, GuiStates, IsCtl, Labelled, CapStates, KeyStates,
       PastStates, Places

LEMMA GuiStart ==
  /\ IsGui(GuiInit)
  /\ \A enabled \in (SUBSET Modes) \ {{}}, stored \in Levels \cup {0}, asleep \in BOOLEAN :
       /\ IsCtl(CtlInit(enabled, stored, asleep))
       /\ Labelled(GuiInit, CtlInit(enabled, stored, asleep))
<1>1. IsGui(GuiInit)
  <2>1. /\ 0 \in 0 .. RepeatDelay /\ 0 \in 0 .. WaitTime /\ 1 \in 1 .. 13 /\ 1 \in Screens
        /\ 1 < item_count(1)
    BY Parts, Layouts
  <2> QED BY <2>1 DEF IsGui, GuiStates, GuiInit
<1>2. ASSUME NEW enabled \in (SUBSET Modes) \ {{}}, NEW stored \in Levels \cup {0},
             NEW asleep \in BOOLEAN
      PROVE  /\ IsCtl(CtlInit(enabled, stored, asleep))
             /\ Labelled(GuiInit, CtlInit(enabled, stored, asleep))
  <2>1. next_opmode(1, enabled) \in Modes
    BY Parts, NextModeIs
  <2>2. (IF stored = 0 THEN Full ELSE stored) \in 1 .. Full
    BY Brightest
  <2>3. IsCtl(CtlInit(enabled, stored, asleep))
    <3> DEFINE b == IF stored = 0 THEN Full ELSE stored
               n == next_opmode(1, enabled)
    <3>1. b \in 1 .. Full /\ n \in Modes \cup {0} /\ Full \in Levels
      BY <2>1, <2>2, Brightest
    <3>2. CtlInit(enabled, stored, asleep) =
            [m_sleeping |-> asleep, m_screen_dimmed |-> FALSE, m_dim_off |-> FALSE,
             m_neverdim |-> FALSE, m_warning_raised |-> FALSE, brightness |-> b,
             stored |-> stored, edit |-> Full, enabled_modes |-> enabled,
             next_mode_label |-> n]
      BY DEF CtlInit
    <3> HIDE DEF b, n
    <3> QED BY <3>1, <3>2 DEF IsCtl
  <2>4. Labelled(GuiInit, CtlInit(enabled, stored, asleep))
    BY DEF Labelled, GuiInit, CtlInit
  <2> QED BY <2>3, <2>4
<1> QED BY <1>1, <1>2

LEMMA CapStart == scene \in Scenes => CapInit \in CapStates
BY TimedLockKeys DEF CapInit, CapStates

LEMMA KeysStart == KeysInit \in KeyStates
BY Parts DEF KeysInit, KeyStates, Places

LEMMA Starting ==
  ASSUME NEW g, NEW p, NEW asleep, NEW full, Started(g, p, asleep, full)
  PROVE  IsGui(g) /\ g.current_screen = GuiInit.current_screen /\ p \in PastStates
<1>1. g \in Dialogs(GuiInit, full) /\ p = [PastInit EXCEPT !.raced = full /\ ~ g.dialog]
  BY DEF Started
<1>2. IsGui(g) /\ g.current_screen = GuiInit.current_screen
  BY <1>1, GuiStart, ShownOrNot
<1>3. PastInit \in PastStates /\ (full /\ ~ g.dialog) \in BOOLEAN
  BY DEF PastInit, PastStates
<1>4. p \in PastStates
  BY <1>1, <1>3 DEF PastStates
<1> QED BY <1>2, <1>4

\* A key event accepted or not; QueueInv bounds the places.
LEMMA Receiving ==
  ASSUME PanelTypes, QueueInv', NEW g, IsGui(g), NEW e \in Events, receive_key(g, e)
  PROVE  /\ keys' \in KeyStates /\ queue' \in Seq(Events)
         /\ IsGui(gui') /\ gui'.current_screen = g.current_screen
<1>1. queue' \in Seq(Events) /\ keys'.start \in Places /\ keys'.end \in Places
  BY DEF QueueInv
<1>2. \/ keys' = [keys EXCEPT !.ring[keys.end] = e, !.end = EndAfter(keys.end)]
      \/ keys' = keys
      \/ keys' = [keys EXCEPT !.discard = ctl.m_screen_dimmed]
  BY DEF receive_key
<1>3. ctl.m_screen_dimmed \in BOOLEAN /\ keys \in KeyStates
  BY DEF PanelTypes, IsCtl
<1>4. keys' \in KeyStates
  <2>1. CASE keys' = [keys EXCEPT !.ring[keys.end] = e, !.end = EndAfter(keys.end)]
    <3>1. /\ [keys.ring EXCEPT ![keys.end] = e] \in [Places -> Events \cup {NoEvent}]
          /\ keys.end \in Places
      BY <1>3 DEF KeyStates
    <3>2. keys'.end = EndAfter(keys.end)
      BY <1>3, <2>1 DEF KeyStates
    <3>3. keys' = [keys EXCEPT !.ring = [keys.ring EXCEPT ![keys.end] = e], !.end = EndAfter(keys.end)]
      BY <1>3, <2>1 DEF KeyStates
    <3> QED BY <1>1, <1>3, <3>1, <3>2, <3>3 DEF KeyStates
  <2>2. CASE keys' = keys \/ keys' = [keys EXCEPT !.discard = ctl.m_screen_dimmed]
    BY <1>3, <2>2 DEF KeyStates
  <2> QED BY <1>2, <2>1, <2>2
<1>5. gui' = g \/ gui' = [g EXCEPT !.dialog = FALSE, !.complete = TRUE]
  BY DEF receive_key
<1>6. IsGui(gui') /\ gui'.current_screen = g.current_screen
  BY <1>5 DEF IsGui, GuiStates
<1> QED BY <1>1, <1>4, <1>6

\* An event processed leaves its place empty.
LEMMA Processing ==
  ASSUME PanelTypes, QueueInv', Processes
  PROVE  keys' \in KeyStates /\ queue' \in Seq(Events) /\ at' = "lock" /\ scene' = scene
<1>1. queue' \in Seq(Events) /\ keys'.start \in Places
  BY DEF QueueInv
<1>2. /\ keys' = [keys EXCEPT !.start = StartAfter(@), !.ring[keys.start] = NoEvent]
      /\ at' = "lock" /\ scene' = scene
  BY DEF Processes
<1>3. keys \in KeyStates /\ keys.start \in Places
  BY DEF PanelTypes, KeyStates
<1>4. [keys.ring EXCEPT ![keys.start] = NoEvent] \in [Places -> Events \cup {NoEvent}]
  BY <1>3 DEF KeyStates
<1>5. keys'.start = StartAfter(keys.start)
  BY <1>2, <1>3 DEF KeyStates
<1>6. keys' = [keys EXCEPT !.start = StartAfter(keys.start),
                           !.ring = [keys.ring EXCEPT ![keys.start] = NoEvent]]
  BY <1>2, <1>3 DEF KeyStates
<1>7. keys' \in KeyStates
  BY <1>1, <1>3, <1>4, <1>5, <1>6 DEF KeyStates
<1> QED BY <1>1, <1>2, <1>7

\* What is left to show of a step that processes an event.
Processed == IsGui(gui') /\ IsCtl(ctl') /\ Labelled(gui', ctl') /\ cap' \in CapStates /\ past' \in PastStates

LEMMA ProcessingTypes ==
  ASSUME PanelTypes, QueueInv', Processes, Processed
  PROVE  PanelTypes'
<1>1. keys' \in KeyStates /\ queue' \in Seq(Events) /\ at' = "lock" /\ scene' = scene
  BY Processing
<1>2. scene' \in Scenes
  BY <1>1 DEF PanelTypes
<1>3. at' \in {"update", "render", "keys", "lock"}
  BY <1>1
<1> QED BY <1>1, <1>2, <1>3 DEF PanelTypes, Processed

LEMMA FollowingTypes ==
  ASSUME PanelTypes, NEW i \in items(gui.current_screen), Follows(i)
  PROVE  Processed
<1>1. IsGui(gui) /\ IsCtl(ctl) /\ Labelled(gui, ctl) /\ cap \in CapStates /\ past \in PastStates
  BY DEF PanelTypes
<1>2. i.to \in Screens
  BY <1>1, OnScreen DEF Allowed
<1>3. CASE Jumps(i.to)
  <2>1. gui' = Jump(gui, i.to) /\ ctl' = Jumped(gui, ctl, i.to) /\ cap' = cap /\ past' = past
    BY <1>3 DEF Jumps
  <2>2. IsGui(gui') /\ gui'.current_screen = i.to
    BY <1>1, <1>2, <2>1, Jumping
  <2>3. IsCtl(ctl') /\ Labelled(gui', ctl')
    BY <1>1, <1>2, <2>1, <2>2, Arriving
  <2> QED BY <1>1, <2>1, <2>2, <2>3 DEF Processed
<1>4. CASE Fires(i)
  <2> DEFINE c == EventDone(ctl, i)
             screens == EventScreen(gui, ctl, i)
  <2>1. IsCtl(c) /\ Labelled(gui, c)
    BY <1>1, Doing
  <2>2. /\ \/ \E s \in screens : gui' = Jump(gui, s) /\ ctl' = Jumped(gui, c, s)
           \/ /\ ctl' = c
              /\ gui' \in CASE i.event = "ClearLog" -> ShowDialog(gui)
                           [] i.event = "MuteAlarm" -> {[gui EXCEPT !.first_render = TRUE]}
                           [] OTHER -> {gui}
        /\ cap' = [cap EXCEPT !.on = @ /\ i.event # "TurnScreenOff"]
        /\ past' = [past EXCEPT !.raced = Raced(gui', i.event = "ClearLog")]
    BY <1>4 DEF Fires
  <2>3. \A s \in screens : s \in Screens
    BY <1>1, EventScreens
  <2> HIDE DEF c, screens
  <2>4. IsGui(gui') /\ IsCtl(ctl') /\ Labelled(gui', ctl')
    <3>1. ASSUME NEW s \in screens, gui' = Jump(gui, s), ctl' = Jumped(gui, c, s)
          PROVE  IsGui(gui') /\ IsCtl(ctl') /\ Labelled(gui', ctl')
      <4>1. s \in Screens
        BY <2>3, <3>1
      <4>2. IsGui(gui') /\ gui'.current_screen = s
        BY <1>1, <3>1, <4>1, Jumping
      <4> QED BY <2>1, <3>1, <4>1, <4>2, Arriving
    <3>2. ASSUME ctl' = c, gui' \in ShowDialog(gui)
          PROVE  IsGui(gui') /\ IsCtl(ctl') /\ Labelled(gui', ctl')
      <4>1. IsGui(gui') /\ gui'.current_screen = gui.current_screen
        BY <1>1, <3>2, Shown
      <4> QED BY <2>1, <3>2, <4>1 DEF Labelled
    <3>3. ASSUME ctl' = c, gui' = gui \/ gui' = [gui EXCEPT !.first_render = TRUE]
          PROVE  IsGui(gui') /\ IsCtl(ctl') /\ Labelled(gui', ctl')
      <4>1. IsGui(gui') /\ gui'.current_screen = gui.current_screen
        BY <1>1, <3>3 DEF IsGui, GuiStates
      <4> QED BY <2>1, <3>3, <4>1 DEF Labelled
    <3>4. CASE ctl' = c /\ gui' \in CASE i.event = "ClearLog" -> ShowDialog(gui)
                                     [] i.event = "MuteAlarm" -> {[gui EXCEPT !.first_render = TRUE]}
                                     [] OTHER -> {gui}
      <4>1. gui' \in ShowDialog(gui) \/ gui' = gui \/ gui' = [gui EXCEPT !.first_render = TRUE]
        BY <3>4
      <4> QED BY <3>2, <3>3, <3>4, <4>1
    <3> QED BY <2>2, <3>1, <3>4
  <2>5. cap' \in CapStates
    BY <1>1, <2>2 DEF CapStates
  <2>6. past' \in PastStates
    <3>1. gui'.dialog \in BOOLEAN
      BY <2>4 DEF IsGui, GuiStates
    <3>2. Raced(gui', i.event = "ClearLog") \in BOOLEAN
      BY <1>1, <3>1 DEF Raced, PastStates
    <3> QED BY <1>1, <2>2, <3>2 DEF PastStates
  <2> QED BY <2>4, <2>5, <2>6 DEF Processed
<1> QED BY <1>3, <1>4 DEF Follows

LEMMA TouchTypes ==
  ASSUME PanelTypes, QueueInv', cap_change
  PROVE  PanelTypes'
<1>1. PICK k \in Keys : Touched(k)
  BY DEF cap_change
<1> DEFINE press == k \notin cap.held
           held == IF press THEN cap.held \cup {k} ELSE cap.held \ {k}
           e == <<k, IF press THEN "pressed" ELSE "released">>
<1>2. /\ held \in Grips /\ receive_key(gui, e)
      /\ cap' = [cap EXCEPT !.held = held,
                            !.pressed = IF press THEN @ \cup ({k} \cap TimedKeys) ELSE @,
                            !.recent = IF press THEN @ ELSE @ \cup ({k} \cap TimedKeys),
                            !.idle = FALSE]
      /\ past' = [past EXCEPT
           !.woke = IF press /\ ctl.m_screen_dimmed /\ ~ gui.dialog THEN k ELSE "none",
           !.woken = ~ press /\ past.woke = k /\ Takes,
           !.grip = IF press THEN @ \cup ({k} \cap TimedKeys) ELSE @]
  BY <1>1 DEF Touched
<1>3. IsGui(gui) /\ IsCtl(ctl) /\ Labelled(gui, ctl) /\ cap \in CapStates /\ past \in PastStates
  BY DEF PanelTypes
<1>4. e \in Events
  BY DEF Events
<1>5. held \in SUBSET Keys
  BY <1>2, PanelAssumption
<1> HIDE DEF e, held, press
<1>6. /\ keys' \in KeyStates /\ queue' \in Seq(Events)
      /\ IsGui(gui') /\ gui'.current_screen = gui.current_screen
  BY <1>2, <1>3, <1>4, Receiving
<1>7. cap' \in CapStates
  <2>1. /\ (IF press THEN cap.pressed \cup ({k} \cap TimedKeys) ELSE cap.pressed) \in SUBSET LockKeys
        /\ (IF press THEN cap.recent ELSE cap.recent \cup ({k} \cap TimedKeys)) \in SUBSET LockKeys
    BY <1>3, TimedLockKeys DEF CapStates
  <2> QED BY <1>2, <1>3, <1>5, <2>1 DEF CapStates
<1>8. past' \in PastStates
  <2>1. (IF press THEN past.grip \cup ({k} \cap TimedKeys) ELSE past.grip) \in SUBSET LockKeys
    BY <1>3, TimedLockKeys DEF PastStates
  <2>2. (IF press /\ ctl.m_screen_dimmed /\ ~ gui.dialog THEN k ELSE "none") \in Keys \cup {"none"}
    OBVIOUS
  <2>3. (~ press /\ past.woke = k /\ Takes) \in BOOLEAN
    OBVIOUS
  <2> QED BY <1>2, <1>3, <2>1, <2>2, <2>3 DEF PastStates
<1>9. at' = at /\ scene' = scene /\ ctl' = ctl
  BY DEF cap_change
<1>10. Labelled(gui', ctl')
  BY <1>3, <1>6, <1>9 DEF Labelled
<1> QED BY <1>3, <1>6, <1>7, <1>8, <1>9, <1>10 DEF PanelTypes

LEMMA UpdateTypes ==
  ASSUME PanelTypes, update
  PROVE  PanelTypes'
<1>1. PICK above \in BOOLEAN, full \in BOOLEAN, switch \in BOOLEAN : Updated(above, full, switch)
  BY DEF update, Happens
<1> DEFINE c1 == check_warning_level(ctl, above)
           c2 == SwitchTurned(c1, switch)
           g1 == [gui EXCEPT !.first_render = @ \/ above # ctl.m_warning_raised]
           wakes == c1.m_sleeping /\ ~ c2.m_sleeping
           Third(g2) == IF wakes THEN Jump(g2, 1) ELSE g2
           Woken(g2) == IF wakes THEN Jumped(g2, c2, 1) ELSE c2
           Fourth(g2) == IF Woken(g2).m_sleeping THEN Third(g2) ELSE Waited(Third(g2))
           Dimmed(g2) == IF Woken(g2).m_sleeping THEN Woken(g2) ELSE do_dimming(Woken(g2), cap.idle)
<1>2. PICK g2 \in Dialogs(g1, full) :
        /\ gui' = Fourth(g2)
        /\ ctl' = IF Fourth(g2).current_screen = Third(g2).current_screen THEN Dimmed(g2)
                  ELSE Jumped(Third(g2), Dimmed(g2), Fourth(g2).current_screen)
        /\ past' = [past EXCEPT !.raced = Raced(g2, full),
                                !.grip = IF wakes THEN LockKeys ELSE @]
  BY <1>1 DEF Updated
<1>3. cap' = IF wakes THEN [CapInit EXCEPT !.held = cap.held]
             ELSE [cap EXCEPT !.on = @ /\ ~ c2.m_sleeping]
  BY <1>1 DEF Updated
<1>4. IsGui(gui) /\ IsCtl(ctl) /\ Labelled(gui, ctl) /\ cap \in CapStates /\ past \in PastStates
  BY DEF PanelTypes
<1>5. IsCtl(c2) /\ SameLabel(ctl, c2)
  BY <1>4, Warning
<1>6. IsGui(g1) /\ g1.current_screen = gui.current_screen
  <2>1. (gui.first_render \/ above # ctl.m_warning_raised) \in BOOLEAN
    OBVIOUS
  <2> QED BY <1>4, <2>1 DEF IsGui, GuiStates
<1> HIDE DEF g1
<1>7. IsGui(g2) /\ g2.current_screen = gui.current_screen
  BY <1>2, <1>6, ShownOrNot
<1> DEFINE g3 == Third(g2)
           c3 == Woken(g2)
           g4 == Fourth(g2)
           c4 == Dimmed(g2)
<1>8. g3 = (IF wakes THEN Jump(g2, 1) ELSE g2) /\ c3 = (IF wakes THEN Jumped(g2, c2, 1) ELSE c2)
  OBVIOUS
<1>9. g4 = IF c3.m_sleeping THEN g3 ELSE Waited(g3)
  OBVIOUS
<1>10. c4 = IF c3.m_sleeping THEN c3 ELSE do_dimming(c3, cap.idle)
  OBVIOUS
<1>11. /\ gui' = g4
       /\ ctl' = IF g4.current_screen = g3.current_screen THEN c4
                 ELSE Jumped(g3, c4, g4.current_screen)
  BY <1>2
<1> HIDE DEF c1, c2, wakes, g3, c3, g4, c4
<1>12. IsGui(g3) /\ IsCtl(c3) /\ Labelled(g3, c3)
  <2>1. CASE wakes
    <3>1. 1 \in Screens
      BY Parts
    <3>2. IsGui(g3) /\ g3.current_screen = 1
      BY <1>7, <1>8, <2>1, <3>1, Jumping
    <3> QED BY <1>5, <1>8, <2>1, <3>1, <3>2, Arriving
  <2>2. CASE ~ wakes
    <3>1. Labelled(g2, c2)
      BY <1>4, <1>5, <1>7, SameScreenLabelled
    <3> QED BY <1>5, <1>7, <1>8, <2>2, <3>1
  <2> QED BY <2>1, <2>2
<1>13. IsGui(g4)
  BY <1>9, <1>12, Waiting
<1>14. IsCtl(c4) /\ Labelled(g3, c4)
  <2>1. CASE c3.m_sleeping
    BY <1>10, <1>12, <2>1
  <2>2. CASE ~ c3.m_sleeping
    <3>1. IsCtl(c4) /\ SameLabel(c3, c4)
      BY <1>10, <1>12, <2>2, Dimming
    <3> QED BY <1>12, <3>1 DEF Labelled, SameLabel
  <2> QED BY <2>1, <2>2
<1>15. IsCtl(ctl') /\ Labelled(gui', ctl')
  <2>1. CASE g4.current_screen = g3.current_screen
    BY <1>11, <1>14, <2>1 DEF Labelled
  <2>2. CASE g4.current_screen # g3.current_screen
    <3>1. g4.current_screen \in Screens
      BY <1>13 DEF IsGui, GuiStates
    <3> QED BY <1>11, <1>14, <2>2, <3>1, Arriving
  <2> QED BY <2>1, <2>2
<1>16. scene \in Scenes /\ scene' = scene /\ at' = "render" /\ keys' = keys /\ queue' = queue
  BY DEF update, PanelTypes
<1>17. cap' \in CapStates
  <2>1. CapInit \in CapStates
    BY <1>16, CapStart
  <2>2. (cap.on /\ ~ c2.m_sleeping) \in BOOLEAN
    OBVIOUS
  <2> QED BY <1>3, <1>4, <2>1, <2>2 DEF CapStates
<1>18. past' \in PastStates
  <2>1. Raced(g2, full) \in BOOLEAN
    BY <1>4 DEF Raced, PastStates
  <2> QED BY <1>2, <1>4, <2>1 DEF PastStates
<1>19. keys \in KeyStates /\ queue \in Seq(Events)
  BY DEF PanelTypes
<1> QED BY <1>11, <1>13, <1>15, <1>16, <1>17, <1>18, <1>19 DEF PanelTypes

LEMMA RenderTypes ==
  ASSUME PanelTypes, QueueInv', RenderDismissed \/ Render
  PROVE  PanelTypes'
<1>1. IsGui(gui) /\ IsCtl(ctl) /\ Labelled(gui, ctl) /\ cap \in CapStates /\ past \in PastStates
      /\ keys \in KeyStates /\ scene \in Scenes
  BY DEF PanelTypes
<1>2. CASE RenderDismissed
  <2>1. /\ gui' = Jump(Resumed(gui), 0) /\ ctl' = Jumped(gui, ctl, 0)
        /\ keys' = [keys EXCEPT !.start = 0, !.end = 0] /\ queue' = <<>>
        /\ at' = "lock" /\ cap' = cap /\ scene' = scene /\ past' = past
    BY <1>2 DEF RenderDismissed
  <2>2. 0 \in Screens /\ 0 \in Places
    BY Parts DEF Places
  <2>3. IsGui(Resumed(gui))
    BY <1>1 DEF Resumed, IsGui, GuiStates
  <2>4. IsGui(gui') /\ gui'.current_screen = 0
    BY <2>1, <2>2, <2>3, Jumping
  <2>5. IsCtl(ctl') /\ Labelled(gui', ctl')
    BY <1>1, <2>1, <2>2, <2>4, Arriving
  <2>6. keys' \in KeyStates
    BY <1>1, <2>1, <2>2 DEF KeyStates
  <2>7. queue' \in Seq(Events)
    BY <2>1
  <2> QED BY <1>1, <2>1, <2>4, <2>5, <2>6, <2>7 DEF PanelTypes
<1>3. CASE Render
  <2> DEFINE g == Drawn(RepeatTimed)
             e == <<gui.repeat_key, "pressed">>
  <2>1. /\ at' = "keys" /\ ctl' = Entered(gui, ctl) /\ cap' = cap /\ scene' = scene
        /\ past' = [past EXCEPT !.woke = IF RepeatDue /\ StillRepeats THEN "none" ELSE @]
        /\ receive_key(g, e) \/ (gui' = g /\ keys' = keys /\ queue' = queue)
    BY <1>3 DEF Render
  <2>2. IsGui(RepeatTimed) /\ RepeatTimed.current_screen = gui.current_screen
    <3>1. RepeatDelay \in Nat \ {0} /\ gui.repeat_time \in 0 .. RepeatDelay
      BY <1>1, Parts DEF IsGui, GuiStates
    <3>2. ~ RepeatDue /\ gui.repeating => gui.repeat_time + 1 \in 0 .. RepeatDelay
      BY <3>1 DEF RepeatDue
    <3>3. 1 \in 0 .. RepeatDelay
      BY <3>1
    <3>4. StillRepeats \in BOOLEAN
      BY DEF StillRepeats
    <3>5. \/ RepeatTimed = [gui EXCEPT !.repeat_time = 1, !.repeating = StillRepeats]
          \/ /\ RepeatTimed = [gui EXCEPT !.repeat_time = gui.repeat_time + 1]
             /\ gui.repeat_time + 1 \in 0 .. RepeatDelay
          \/ RepeatTimed = gui
      <4>1. CASE RepeatDue
        BY <4>1 DEF RepeatTimed
      <4>2. CASE gui.repeating /\ ~ RepeatDue
        BY <3>2, <4>2 DEF RepeatTimed
      <4>3. CASE ~ RepeatDue /\ ~ (gui.repeating /\ ~ RepeatDue)
        BY <4>3 DEF RepeatTimed
      <4> QED BY <4>1, <4>2, <4>3
    <3> QED BY <1>1, <3>3, <3>4, <3>5, ZenonT(30) DEF IsGui, GuiStates
  <2>3. IsGui(g) /\ g.current_screen = gui.current_screen
    BY <2>2 DEF Drawn, IsGui, GuiStates
  <2>4. e \in Events
    <3>1. gui.repeat_key \in Keys
      BY <1>1 DEF IsGui, GuiStates, Keys
    <3> QED BY <3>1 DEF Events
  <2> HIDE DEF g, e
  <2>5. /\ keys' \in KeyStates /\ queue' \in Seq(Events)
        /\ IsGui(gui') /\ gui'.current_screen = gui.current_screen
    <3>1. CASE receive_key(g, e)
      BY <2>3, <2>4, <3>1, Receiving
    <3>2. CASE gui' = g /\ keys' = keys /\ queue' = queue
      BY <1>1, <2>3, <3>2 DEF PanelTypes
    <3> QED BY <2>1, <3>1, <3>2
  <2>6. IsCtl(ctl') /\ Labelled(gui, ctl')
    <3>1. CASE ctl' = ctl
      BY <1>1, <3>1
    <3>2. CASE ctl' # ctl
      <4> DEFINE actions == {i \in items(gui.current_screen) : i.type = "action"}
                 i == CHOOSE i \in actions : TRUE
      <4>1. actions # {} /\ ctl' = EventDone(ctl, i)
        BY <2>1, <3>2 DEF Entered
      <4>2. i \in items(gui.current_screen)
        BY <4>1
      <4> HIDE DEF i
      <4> QED BY <1>1, <4>1, <4>2, Doing
    <3> QED BY <3>1, <3>2
  <2>7. past' \in PastStates
    BY <1>1, <2>1 DEF PastStates
  <2>8. Labelled(gui', ctl')
    BY <2>5, <2>6 DEF Labelled
  <2> QED BY <1>1, <2>1, <2>5, <2>6, <2>7, <2>8 DEF PanelTypes
<1> QED BY <1>2, <1>3

\* Another item of the screen, unless it is beyond the last; no number is
\* before the first.
LEMMA SelectingTypes ==
  ASSUME PanelTypes, NEW r \in BOOLEAN, NEW k \in {"UP", "DOWN"}, NEW n \in Nat \ {0},
         n < item_count(gui.current_screen)
  PROVE  /\ IsGui([gui EXCEPT !.repeating = r, !.repeat_key = k, !.selected_item = n])
         /\ IsGui([gui EXCEPT !.selected_item = n])
<1>1. IsGui(gui) /\ item_count(gui.current_screen) \in 2 .. 13
  BY Layouts DEF PanelTypes, IsGui, GuiStates
<1>2. n \in 1 .. 13
  BY <1>1
<1> QED BY <1>1, <1>2 DEF IsGui, GuiStates

LEMMA UpDownTypes ==
  ASSUME PanelTypes, UpOrDown
  PROVE  Processed
<1>1. IsGui(gui) /\ IsCtl(ctl) /\ Labelled(gui, ctl) /\ cap \in CapStates /\ past \in PastStates
  BY DEF PanelTypes
<1>2. PICK k \in {"UP", "DOWN"}, l \in {Nearest(ctl.edit, TRUE), Nearest(ctl.edit, FALSE)} :
        /\ ctl' = VarnumChanged(ctl, Selected, l)
        /\ gui' = [gui EXCEPT !.repeating = TRUE, !.repeat_key = k,
             !.selected_item = IF Selected.type = "varnum" THEN @
                               ELSE IF k = "UP" THEN SelectedAbove(gui.current_screen, @)
                               ELSE SelectedBelow(gui.current_screen, @)]
        /\ cap' = cap /\ past' = past
  BY DEF UpOrDown
<1>3. ctl.edit \in Levels
  BY <1>1 DEF IsCtl
<1>4. l \in Levels
  <2>1. Nearest(ctl.edit, TRUE) \in Levels
    BY <1>3, NearestLevel
  <2>2. Nearest(ctl.edit, FALSE) \in Levels
    BY <1>3, NearestLevel
  <2> QED BY <2>1, <2>2
<1>5. IsCtl(ctl') /\ SameLabel(ctl, ctl')
  BY <1>1, <1>2, <1>4, Varnum
<1> DEFINE at1 == gui.selected_item
           n == IF Selected.type = "varnum" THEN at1
                ELSE IF k = "UP" THEN SelectedAbove(gui.current_screen, at1)
                ELSE SelectedBelow(gui.current_screen, at1)
<1>6. at1 \in 1 .. 12 /\ at1 < item_count(gui.current_screen)
      /\ item_count(gui.current_screen) \in 2 .. 13
  BY <1>1, OnScreen, Layouts DEF IsGui
<1>7. gui' = [gui EXCEPT !.repeating = TRUE, !.repeat_key = k, !.selected_item = n]
  BY <1>1, <1>2 DEF IsGui, GuiStates
<1> HIDE DEF at1
<1>8. n \in Nat \ {0} /\ n < item_count(gui.current_screen)
  BY <1>6 DEF SelectedAbove, SelectedBelow
<1> HIDE DEF n
<1>9. IsGui(gui')
  <2>1. TRUE \in BOOLEAN
    OBVIOUS
  <2> QED BY <1>7, <1>8, <2>1, SelectingTypes
<1>10. gui'.current_screen = gui.current_screen
  BY <1>1, <1>7 DEF IsGui, GuiStates
<1>11. Labelled(gui', ctl')
  BY <1>1, <1>5, <1>10 DEF Labelled, SameLabel
<1> QED BY <1>1, <1>2, <1>5, <1>9, <1>11 DEF Processed

LEMMA SelectTypes ==
  ASSUME PanelTypes, Select
  PROVE  Processed
<1>1. IsGui(gui) /\ IsCtl(ctl) /\ Labelled(gui, ctl) /\ cap \in CapStates /\ past \in PastStates
  BY DEF PanelTypes
<1> DEFINE n == gui.selected_item + 1
<1>2. n \in Nat \ {0}
  BY <1>1, OnScreen
<1>3. CASE n < item_count(gui.current_screen) /\ gui' = [gui EXCEPT !.selected_item = n]
           /\ cap' = cap /\ ctl' = ctl /\ past' = past
  <2>1. IsGui(gui')
    <3>1. gui' = [gui EXCEPT !.selected_item = n] /\ n < item_count(gui.current_screen)
      BY <1>3
    <3>2. TRUE \in BOOLEAN /\ "UP" \in {"UP", "DOWN"}
      OBVIOUS
    <3> HIDE DEF n
    <3> QED BY <1>2, <3>1, <3>2, SelectingTypes
  <2>2. gui'.current_screen = gui.current_screen
    BY <1>1, <1>3 DEF IsGui, GuiStates
  <2> QED BY <1>1, <1>3, <2>1, <2>2 DEF Processed, Labelled
<1>4. CASE Follows(Selected)
  <2>1. Selected \in items(gui.current_screen)
    BY <1>1, OnScreen DEF Selected
  <2> QED BY <1>4, <2>1, FollowingTypes
<1>5. CASE UNCHANGED <<cap, gui, ctl, past>>
  BY <1>1, <1>5 DEF Processed, Labelled
<1>6. \/ n < item_count(gui.current_screen) /\ gui' = [gui EXCEPT !.selected_item = n]
         /\ cap' = cap /\ ctl' = ctl /\ past' = past
      \/ Follows(Selected)
      \/ UNCHANGED <<cap, gui, ctl, past>>
  <2>1. CASE Selected.type = "varnum" /\ IsNum(gui.selected_item + 1)
    BY <1>1, <2>1 DEF Select, IsNum, IsGui, GuiStates
  <2>2. CASE Selected.type \in {"menu", "menu_action"}
    BY <2>2 DEF Select
  <2>3. CASE ~ (Selected.type = "varnum" /\ IsNum(gui.selected_item + 1))
             /\ Selected.type \notin {"menu", "menu_action"}
    BY <2>3 DEF Select
  <2> QED BY <2>1, <2>2, <2>3
<1> QED BY <1>3, <1>4, <1>5, <1>6

LEMMA BackTypes ==
  ASSUME PanelTypes, Back
  PROVE  Processed
<1>1. IsGui(gui) /\ IsCtl(ctl) /\ Labelled(gui, ctl) /\ cap \in CapStates /\ past \in PastStates
  BY DEF PanelTypes
<1> DEFINE n == gui.selected_item - 1
<1>2. cap' = cap /\ past' = past
  BY DEF Back
<1>3. CASE Selected.type = "varnum" /\ IsNum(gui.selected_item - 1)
  <2>1. gui' = [gui EXCEPT !.selected_item = n] /\ ctl' = ctl
    BY <1>1, <1>3 DEF Back, IsGui, GuiStates
  <2>2. n \in Nat /\ n < item_count(gui.current_screen)
    <3>1. gui.selected_item \in 1 .. 12
      BY <1>1, OnScreen
    <3> QED BY <1>3, <3>1 DEF IsNum
  <2>3. n # 0
    <3>1. item(gui.current_screen, n).type = "varnum"
      BY <1>3 DEF IsNum
    <3>2. item(gui.current_screen, 0).type # "varnum"
      BY <1>1, OnScreen, Layouts
    <3> HIDE DEF n
    <3> QED BY <3>1, <3>2
  <2>4. IsGui(gui')
    <3>1. TRUE \in BOOLEAN /\ "UP" \in {"UP", "DOWN"}
      OBVIOUS
    <3> HIDE DEF n
    <3>2. IsGui([gui EXCEPT !.selected_item = n])
      BY <2>2, <2>3, <3>1, SelectingTypes
    <3> QED BY <2>1, <3>2
  <2>5. gui'.current_screen = gui.current_screen
    BY <1>1, <2>1 DEF IsGui, GuiStates
  <2> QED BY <1>1, <1>2, <2>1, <2>4, <2>5 DEF Processed, Labelled
<1>4. CASE gui' = [gui EXCEPT !.clear_next_render = TRUE, !.first_render = TRUE]
           /\ ctl' = Left(gui, ctl)
  <2>1. IsCtl(ctl') /\ SameLabel(ctl, ctl')
    BY <1>1, <1>4, Leaving
  <2>2. IsGui(gui') /\ gui'.current_screen = gui.current_screen
    BY <1>1, <1>4 DEF IsGui, GuiStates
  <2>3. Labelled(gui', ctl')
    BY <1>1, <2>1, <2>2 DEF Labelled, SameLabel
  <2> QED BY <1>1, <1>2, <2>1, <2>2, <2>3 DEF Processed
<1>5. CASE UNCHANGED <<gui, ctl>>
  BY <1>1, <1>2, <1>5 DEF Processed, Labelled
<1> QED BY <1>3, <1>4, <1>5 DEF Back

LEMMA ProcessKeysTypes ==
  ASSUME PanelTypes, QueueInv', process_keys, ~ NoKeys
  PROVE  PanelTypes'
<1>1. IsGui(gui) /\ IsCtl(ctl) /\ Labelled(gui, ctl) /\ cap \in CapStates /\ past \in PastStates
  BY DEF PanelTypes
<1>2. Processes
  BY DEF process_keys, Locked, SoftKey, UpOrDown, UpOrDownReleased, Select, Back, Home,
         NothingToDo, Acts
<1>3. Processed
  <2>1. CASE Locked \/ NothingToDo
    <3>1. UNCHANGED <<cap, gui, ctl, past>>
      BY <2>1 DEF Locked, NothingToDo
    <3> QED BY <1>1, <3>1 DEF Processed, Labelled
  <2>2. CASE SoftKey
    <3>1. PICK n \in 0 .. 2 : \E i \in softkey(gui.current_screen, n) : Follows(i)
      BY <2>2 DEF SoftKey
    <3>2. PICK i \in softkey(gui.current_screen, n) : Follows(i)
      BY <3>1
    <3>3. i \in items(gui.current_screen)
      BY DEF softkey
    <3> QED BY <3>2, <3>3, FollowingTypes
  <2>3. CASE UpOrDownReleased
    <3>1. gui' = [gui EXCEPT !.repeating = FALSE] /\ cap' = cap /\ ctl' = ctl /\ past' = past
      BY <2>3 DEF UpOrDownReleased
    <3>2. IsGui(gui') /\ gui'.current_screen = gui.current_screen
      BY <1>1, <3>1 DEF IsGui, GuiStates
    <3> QED BY <1>1, <3>1, <3>2 DEF Processed, Labelled
  <2>4. CASE Home
    <3>1. gui' = Jump(gui, 0) /\ ctl' = Jumped(gui, ctl, 0) /\ cap' = cap /\ past' = past
      BY <2>4 DEF Home, Jumps
    <3>2. 0 \in Screens
      BY Parts
    <3>3. IsGui(gui') /\ gui'.current_screen = 0
      BY <1>1, <3>1, <3>2, Jumping
    <3> QED BY <1>1, <3>1, <3>2, <3>3, Arriving DEF Processed
  <2> QED BY <2>1, <2>2, <2>3, <2>4, UpDownTypes, SelectTypes, BackTypes DEF process_keys
<1> QED BY <1>2, <1>3, ProcessingTypes

\* Lock, Time and the start.
LEMMA OtherTypes ==
  ASSUME PanelTypes, Lock \/ Time \/ Restart
  PROVE  PanelTypes'
<1>1. IsGui(gui) /\ IsCtl(ctl) /\ Labelled(gui, ctl) /\ cap \in CapStates /\ past \in PastStates
      /\ keys \in KeyStates /\ scene \in Scenes /\ queue \in Seq(Events)
      /\ at \in {"update", "render", "keys", "lock"}
  BY DEF PanelTypes
<1>2. CASE Lock
  <2> DEFINE After(transfer, g) ==
        /\ gui' = IF Gripped THEN [g EXCEPT !.lock = ~ @] ELSE g
        /\ past' = [past EXCEPT !.raced = Raced(g, transfer), !.grip = IF Gripped THEN {} ELSE @]
  <2> PICK transfer \in BOOLEAN : \E g \in Dialogs(gui, transfer) : After(transfer, g)
    BY <1>2 DEF Lock, Happens
  <2> PICK g \in Dialogs(gui, transfer) : After(transfer, g)
    OBVIOUS
  <2>1. /\ at' = "update" /\ scene' = scene /\ keys' = keys /\ ctl' = ctl /\ queue' = queue
        /\ cap' = cap \/ cap' = [cap EXCEPT !.idle = TRUE, !.recent = {}, !.pressed = {}]
    BY <1>2 DEF Lock, Cleared
  <2>2. IsGui(g) /\ g.current_screen = gui.current_screen
    BY <1>1, ShownOrNot
  <2>3. IsGui(gui') /\ gui'.current_screen = gui.current_screen
    BY <2>2 DEF IsGui, GuiStates
  <2>4. cap' \in CapStates
    BY <1>1, <2>1 DEF CapStates
  <2>5. past' \in PastStates
    <3>1. Raced(g, transfer) \in BOOLEAN
      BY <1>1, <2>2 DEF Raced, PastStates, IsGui, GuiStates
    <3> QED BY <1>1, <3>1 DEF PastStates
  <2>6. Labelled(gui', ctl')
    BY <1>1, <2>1, <2>3 DEF Labelled
  <2> QED BY <1>1, <2>1, <2>3, <2>4, <2>5, <2>6 DEF PanelTypes
<1>3. CASE Time
  <2>1. /\ at' = at /\ scene' = scene /\ keys' = keys /\ ctl' = ctl /\ queue' = queue
        /\ gui' = gui /\ past' = past
        /\ cap' = [cap EXCEPT !.recent = {}] \/ cap' = [cap EXCEPT !.recent = {}, !.idle = TRUE]
    BY <1>3 DEF Time
  <2>2. cap' \in CapStates
    BY <1>1, <2>1 DEF CapStates
  <2> QED BY <1>1, <2>1, <2>2 DEF PanelTypes, Labelled
<1>4. CASE Restart
  <2> PICK asleep \in BOOLEAN, full \in BOOLEAN :
        /\ Started(gui', past', asleep, full)
        /\ ctl' = [CtlInit(ctl.enabled_modes, ctl.stored, asleep)
                     EXCEPT !.m_neverdim = ctl.m_neverdim]
    BY <1>4 DEF Restart, Happens
  <2> DEFINE c == CtlInit(ctl.enabled_modes, ctl.stored, asleep)
  <2>1. /\ at' = "update" /\ cap' = CapInit /\ keys' = KeysInit /\ queue' = <<>>
        /\ scene' = scene
    BY <1>4 DEF Restart
  <2>2. /\ ctl.enabled_modes \in (SUBSET Modes) \ {{}} /\ ctl.stored \in Levels \cup {0}
        /\ ctl.m_neverdim \in BOOLEAN
    BY <1>1 DEF IsCtl
  <2>3. IsCtl(c) /\ Labelled(GuiInit, c)
    BY <2>2, GuiStart
  <2> HIDE DEF c
  <2>4. IsCtl(ctl') /\ SameLabel(c, ctl')
    BY <2>2, <2>3 DEF c, IsCtl, SameLabel
  <2>5. IsGui(gui') /\ gui'.current_screen = GuiInit.current_screen /\ past' \in PastStates
    BY Starting
  <2>6. Labelled(gui', ctl')
    BY <2>3, <2>4, <2>5 DEF Labelled, SameLabel
  <2>7. cap' \in CapStates /\ keys' \in KeyStates
    BY <1>1, <2>1, CapStart, KeysStart
  <2>8. queue' \in Seq(Events)
    BY <2>1
  <2> QED BY <1>1, <2>1, <2>4, <2>5, <2>6, <2>7, <2>8 DEF PanelTypes
<1> QED BY <1>2, <1>3, <1>4

LEMMA TypesStep == PanelTypes /\ QueueInv' /\ [Next]_vars => PanelTypes'
<1> SUFFICES ASSUME PanelTypes, QueueInv', [Next]_vars PROVE PanelTypes'
  OBVIOUS
<1>1. CASE RenderSleeping \/ NoKeys
  <2>1. /\ UNCHANGED <<scene, cap, keys, gui, ctl, queue, past>>
        /\ at' \in {"update", "render", "keys", "lock"}
    BY <1>1 DEF RenderSleeping, NoKeys
  <2> QED BY <2>1 DEF PanelTypes, IsGui, IsCtl, Labelled
<1>2. CASE UNCHANGED vars
  BY <1>2 DEF vars, PanelTypes, IsGui, IsCtl, Labelled
<1>3. CASE process_keys
  BY <1>1, <1>3, ProcessKeysTypes
<1> QED BY <1>1, <1>2, <1>3, TouchTypes, UpdateTypes, RenderTypes, OtherTypes
        DEF Next, MainLoop

LEMMA TypesStart == Init => PanelTypes
<1> SUFFICES ASSUME Init PROVE PanelTypes
  OBVIOUS
<1>1. /\ at = "update" /\ scene \in Scenes /\ cap = CapInit /\ keys = KeysInit /\ queue = <<>>
  BY DEF Init
<1>2. PICK asleep \in BOOLEAN, full \in BOOLEAN, stored \in Levels \cup {0} :
        Started(gui, past, asleep, full) /\ ctl = CtlInit(Modes, stored, asleep)
  BY PanelAssumption DEF Init, Happens
<1>3. Modes \in (SUBSET Modes) \ {{}}
  BY Parts
<1>4. IsCtl(ctl) /\ Labelled(GuiInit, ctl)
  BY <1>2, <1>3, GuiStart
<1>5. IsGui(gui) /\ gui.current_screen = GuiInit.current_screen /\ past \in PastStates
  BY <1>2, Starting
<1>6. Labelled(gui, ctl)
  BY <1>4, <1>5 DEF Labelled
<1>7. cap \in CapStates /\ keys \in KeyStates
  BY <1>1, CapStart, KeysStart
<1>8. queue \in Seq(Events)
  BY <1>1
<1> QED BY <1>1, <1>4, <1>5, <1>6, <1>7, <1>8 DEF PanelTypes

\* Every variable keeps its type: the selected item stays on its screen
\* whatever layout the screens have (GUI::jump_to_screen, process_key_down,
\* process_key_up, process_key), some operating mode stays enabled
\* (Controller::event_opmode), and every brightness, halved as often as the
\* display dims, can be shown (Controller::do_dimming).
THEOREM TypeOKHolds == Spec => []TypeOK
BY QueueAlways, TypesStart, TypesStep, PanelTypesAre, PTL DEF Spec

\* Where the label of the next mode is shown it names the mode its key leads
\* to, whichever modes were switched on and off (GUI::jump_to_screen,
\* Controller::event_next_opmode, event_opmode, Screens of any layout).
THEOREM LabelTrueHolds == Spec => []LabelTrue
BY QueueAlways, TypesStart, TypesStep, PanelTypesAre, PTL DEF Spec
=============================================================================
