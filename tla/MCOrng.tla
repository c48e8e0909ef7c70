------------------------------ MODULE MCOrng ------------------------------
(***************************************************************************)
(* Small devices and scripts on which TLC checks Orng.                     *)
(***************************************************************************)
EXTENDS OrngPath

Slotted == MTAxes \cup {"ABS_MT_SLOT"}

SingleTouch == [slots |-> 1, abs |-> {"ABS_X", "ABS_Y"}, keys |-> {"BTN_TOUCH", "KEY_HOME"},
                name |-> "touch"]
TwoSlots    == [slots |-> 2, abs |-> Slotted, keys |-> {"BTN_TOUCH"}, name |-> "touch"]
ThreeSlots  == [slots |-> 3, abs |-> Slotted, keys |-> {"BTN_TOUCH"}, name |-> "touch"]
SyncTouch   == [slots |-> 2, abs |-> Slotted \cup {"ABS_X", "ABS_Y"}, keys |-> {"BTN_TOUCH"},
                name |-> "atmel-touchscreen"]
NoSlots     == [slots |-> 1, abs |-> MTAxes, keys |-> {}, name |-> "720p touchscreen"]
Keypad      == [slots |-> 1, abs |-> {}, keys |-> {"KEY_HOME"}, name |-> "gpio-keys"]

AllDevices   == {SingleTouch, TwoSlots, ThreeSlots, SyncTouch, NoSlots, Keypad}
TouchDevices == {SingleTouch, TwoSlots}
MultiTouch   == {TwoSlots}

\* Commands.  A tap stays where it is; a drag is a path of one finger.
At(p)         == [f \in Finger |-> p]
Pair(p, q)    == [f \in Finger |-> IF f = 0 THEN p ELSE q]
Key(op, key)  == [NoCmd EXCEPT !.op = op, !.key = key]
Plain(op)     == [NoCmd EXCEPT !.op = op]
Tap(p, n)     == [NoCmd EXCEPT !.op = "tap", !.from = At(p), !.to = At(p), !.n = n]
Drag(p, q, n) == [NoCmd EXCEPT !.op = "drag", !.from = At(p), !.to = At(q), !.n = n]
Pinch(p1, q1, p2, q2, n) ==
  [NoCmd EXCEPT !.op = "pinch", !.from = Pair(p1, p2), !.to = Pair(q1, q2), !.n = n]

\* Paths that divide evenly, that round, that go backwards and that never move.
Script ==
  {Tap(<<2, 1>>, 2), Tap(<<5, 5>>, 0),
   Drag(<<0, 4>>, <<7, 1>>, 2), Drag(<<3, 3>>, <<1, 4>>, 3), Drag(<<6, 2>>, <<2, 6>>, 1),
   Drag(<<1, 1>>, <<5, 5>>, 0), Drag(<<1, 2>>, <<4, 8>>, -1),
   Pinch(<<4, 4>>, <<0, 1>>, <<5, 5>>, <<9, 7>>, 2), Pinch(<<1, 0>>, <<1, 5>>, <<3, 3>>, <<8, 3>>, 3),
   Pinch(<<2, 2>>, <<3, 3>>, <<4, 4>>, <<5, 5>>, 0),
   Plain("reset"), Plain("sleep"),
   Key("keydown", "KEY_HOME"), Key("keyup", "KEY_HOME"),
   Key("keydown", "BTN_TOUCH"), Key("keyup", "BTN_TOUCH")}

\* Fewer commands for the runs in which writes fail and processes die: one with a negative
\* number of steps, and one that leaves the button down.
FaultyScript ==
  {Tap(<<2, 1>>, 1), Drag(<<0, 4>>, <<7, 1>>, 2), Drag(<<1, 2>>, <<4, 8>>, -1),
   Pinch(<<4, 4>>, <<0, 1>>, <<5, 5>>, <<9, 7>>, 1), Key("keydown", "BTN_TOUCH"),
   Plain("sleep")}

===========================================================================
