-------------------------------- MODULE Menu --------------------------------
(***************************************************************************)
(* The screens of gui/screen_layout.cpp, and the way through them: which   *)
(* item is selected, what a soft key leads to, which operating mode comes  *)
(* next.  An item is what it does; where and how it is drawn is left out.  *)
(***************************************************************************)
EXTENDS Subsequences, FiniteSets

CONSTANT Screens    \* 0 .. 28; fewer make a smaller device

\* Softkeys are numbered 0 (left) to 2; "event" is what the controller receives,
\* named without blanks and colons.
Item(type, key, to, event) == [type |-> type, key |-> key, to |-> to, event |-> event]
Label       == Item("label", 0, 0, "-")
To(s)       == Item("menu", 0, s, "-")
Do(e)       == Item("menu_action", 0, 0, e)
Toggle(s)   == Item("menu_action", 0, s, "Mode")
Num         == Item("varnum", 0, 0, "-")
Brightness  == Item("varnum", 0, 0, "$BRIGHTNESS")
Key(k, s)   == Item("softkey", k, s, "-")
KeyDo(k, e) == Item("softkey_action", k, 0, e)
NextMode    == KeyDo(1, "$NEXTMODE")
Enter(e)    == Item("action", 0, 0, e)
Leave(e)    == Item("leave_action", 0, 0, e)
Wait(s)     == Item("delay", 0, s, "-")

Beep == KeyDo(2, "Beep")
Save == KeyDo(2, "Save")     \* those that store a setting and end on screen 0

Screens0To9 == <<
  <<Label, To(25), To(16), To(17), To(3), To(27), KeyDo(0, "$NEXTMODE"), Key(2, 18)>>,
  <<Label, Label, Label, Label, Key(0, 0), NextMode, Beep>>,
  <<Label, Label, Label, Key(0, 0), NextMode, Beep>>,
  <<Label, Do("MuteAlarm"), To(13), Key(0, 0)>>,
  <<Label, Label, Key(0, 0), NextMode, Beep>>,
  <<Label, Key(0, 3), Key(2, 6), Label>>,
  <<Label, Label, Label, Wait(7)>>,
  <<Label, Wait(8)>>,
  <<Enter("CALIBRATE"), Num, Num, Num, Num, Key(0, 4), KeyDo(2, "SaveCalib"), Label>>,
  <<Label, To(10), To(11), To(20), Key(0, 16)>> >>

Screens10To19 == <<
  <<Label, Num, Num, Num, Num, Num, Num, Key(0, 9), Save, Label, Enter("-")>>,
  <<Label, Num, Num, Num, Num, Num, Num, Key(0, 9), Save, Label, Enter("-")>>,
  <<Label, Brightness, Key(0, 16), KeyDo(2, "SaveBrightness"), Enter("BrightnessSCN"),
    Leave("LeftBrightness")>>,
  <<Label, Num, Num, Num, Num, Num, Key(0, 3), KeyDo(2, "SaveWarnCPM"), Label, Enter("-")>>,
  <<Label, Do("-"), Do("-"), Key(0, 16)>>,
  <<Label, Label, Label, Label, Label, Label, Label, Label, Label, Enter("-"),
    Key(0, 0), NextMode, KeyDo(2, "-")>>,
  <<Label, To(12), To(14), To(9), Do("NeverDim"), Do("TurnScreenOff"), Key(0, 0)>>,
  <<Label, To(19), To(5), To(26), Do("-"), To(24), Key(0, 0)>>,
  <<Label, Label, Label, Key(0, 0)>>,
  <<Label, Do("-"), Do("-"), Key(0, 17)>> >>

Screens20To28 == <<
  <<Label, Num, Num, Num, Num, Num, Key(0, 9), Save, Label, Enter("-")>>,
  <<Label, Label, Label, Label, Key(0, 0), NextMode, Key(2, 22)>>,
  <<Label, Num, Num, Num, Num, Key(0, 17), Save, Enter("-")>>,
  <<Label, Num, Num, Num, Key(0, 25), Save, Label, Enter("-")>>,
  <<Label, Do("-"), Do("-"), Do("-"), Do("-"), Key(0, 17)>>,
  <<Label, Label, Label, Label, Label, Label, Key(0, 0), Key(1, 23), KeyDo(2, "ClearLog")>>,
  <<Label, Num, Num, Num, Num, Num, Key(0, 15),
    Item("softkey_action", 2, 15, "SaveCountWin"), Label, Label, Enter("-")>>,
  <<Label, Toggle(1), Toggle(2), Toggle(4), Toggle(15), Toggle(21), Toggle(28), Key(0, 0)>>,
  <<Label, Enter("-"), Key(0, 0), NextMode, Beep>> >>

\* The items of screen s, also those that lead to a screen left out.
all_items(s) ==
  IF s < 10 THEN Screens0To9[s + 1]
  ELSE IF s < 20 THEN Screens10To19[s - 9] ELSE Screens20To28[s - 19]

\* Without them.
screens_layout ==
  [s \in Screens |->
     Subsequence(all_items(s), {n \in 1 .. Len(all_items(s)) : all_items(s)[n].to \in Screens})]

\* Items are counted from 0.
item_count(s) == Len(screens_layout[s])
item(s, n)    == screens_layout[s][n + 1]
items(s)      == {item(s, n) : n \in 0 .. item_count(s) - 1}

softkey(s, k) == {i \in items(s) : i.type \in {"softkey", "softkey_action"} /\ i.key = k}

-----------------------------------------------------------------------------
\* process_key_down, process_key_up: the selected item, if it is no number.
SelectedBelow(s, n) ==
  IF n + 1 < item_count(s) /\ item(s, n + 1).type # "softkey" THEN n + 1 ELSE n

SelectedAbove(s, n) == IF n = 1 THEN n ELSE n - 1

-----------------------------------------------------------------------------
\* Operating modes by their screens, in the order of Controller::event_next_opmode.
opmodes == <<1, 2, 4, 15, 21, 28>>
Opmodes == Subsequence(opmodes, {n \in 1 .. Len(opmodes) : opmodes[n] \in Screens})
Modes   == {Opmodes[i] : i \in 1 .. Len(Opmodes)}

\* The enabled mode that follows screen s; from screen 0, the first.
next_opmode(s, enabled) ==
  LET place == IF s = 0 THEN 0 ELSE CHOOSE i \in 1 .. Len(Opmodes) : Opmodes[i] = s
      after(i) == (i - place - 1) % Len(Opmodes)
      possible == {i \in 1 .. Len(Opmodes) : Opmodes[i] \in enabled}
  IN Opmodes[CHOOSE i \in possible : \A j \in possible : after(i) <= after(j)]
=============================================================================
