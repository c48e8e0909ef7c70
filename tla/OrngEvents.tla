---------------------------- MODULE OrngEvents ----------------------------
(***************************************************************************)
(* The event sequences that the gestures of orng.c write to /dev/input.    *)
(*                                                                         *)
(* Each primitive of orng.c (press, move, release, reset, slot change, key *)
(* down, key up) is the sequence of the write_event calls it makes, in the *)
(* order of the calls.  An event is its code and its value; the type       *)
(* (EV_ABS, EV_KEY, EV_SYN) follows from the code.                         *)
(***************************************************************************)
EXTENDS Integers, Sequences

Ev(code, value) == [code |-> code, value |-> value]

\* The devices that expect a SYN_MT_REPORT after every touch.
SyncNames == {"atmel-touchscreen", "nvodm_touch", "elan-touchscreen", "ft5x06_ts"}

\* A variant that forgets that a multi-touch device is a touch device.
classes_MTOnly(keyBits, absBits, name) ==
  IF {"ABS_MT_POSITION_X", "ABS_MT_POSITION_Y"} \subseteq absBits THEN {"MT"}
  ELSE {c \in {"TOUCH"} : "BTN_TOUCH" \in keyBits /\ {"ABS_X", "ABS_Y"} \subseteq absBits}

\* The device classes orng derives from the capability bits and the name.
figure_out_events_device_reports(keyBits, absBits, name) ==
  IF {"ABS_MT_POSITION_X", "ABS_MT_POSITION_Y"} \subseteq absBits
  THEN {"TOUCH", "MT"} \cup {c \in {"MT_SYNC"} : name \in SyncNames}
  ELSE {c \in {"TOUCH"} : "BTN_TOUCH" \in keyBits
                          /\ {"ABS_X", "ABS_Y"} \subseteq absBits}

\* All the device_flags there are.
Classes == {{}, {"TOUCH"}, {"TOUCH", "MT"}, {"TOUCH", "MT", "MT_SYNC"}}

---------------------------------------------------------------------------
(* Primitives.                                                             *)

MtReport(flags) ==
  IF "MT_SYNC" \in flags THEN <<Ev("SYN_MT_REPORT", 0)>> ELSE << >>

\* The axes a run of orng reports positions on.
XAxis(flags) == IF "MT" \in flags THEN "ABS_MT_POSITION_X" ELSE "ABS_X"
YAxis(flags) == IF "MT" \in flags THEN "ABS_MT_POSITION_Y" ELSE "ABS_Y"

Point(flags, p) == <<Ev(XAxis(flags), p[1]), Ev(YAxis(flags), p[2])>>

Contour(pressure, touch, width) ==
  <<Ev("ABS_MT_PRESSURE", pressure), Ev("ABS_MT_TOUCH_MAJOR", touch),
    Ev("ABS_MT_WIDTH_MAJOR", width)>>

\* A variant that reports before the button is up.
Lifting_ReportFirst == <<Ev("SYN_REPORT", 0), Ev("BTN_TOUCH", 0)>>

Touching == <<Ev("BTN_TOUCH", 1), Ev("SYN_REPORT", 0)>>
Lifting  == <<Ev("BTN_TOUCH", 0), Ev("SYN_REPORT", 0)>>

\* Variants: a press without a tracking id, a move that reports between X and Y, a
\* release that keeps the tracking id.
press_NoId(flags, id, p) == Point(flags, p) \o MtReport(flags) \o Touching
move_TwoReports(flags, p) ==
  <<Ev(XAxis(flags), p[1]), Ev("SYN_REPORT", 0), Ev(YAxis(flags), p[2]), Ev("SYN_REPORT", 0)>>
release_KeepsId(flags) == MtReport(flags) \o Lifting

execute_press(flags, id, p) ==
  IF "MT" \in flags
  THEN <<Ev("ABS_MT_TRACKING_ID", id)>> \o Point(flags, p) \o Contour(127, 127, 4)
         \o MtReport(flags) \o Touching
  ELSE IF "TOUCH" \in flags THEN Point(flags, p) \o Touching ELSE << >>

execute_move(flags, p) ==
  IF "MT" \in flags
  THEN Point(flags, p) \o Contour(127, 127, 4) \o MtReport(flags) \o <<Ev("SYN_REPORT", 0)>>
  ELSE IF "TOUCH" \in flags THEN Point(flags, p) \o <<Ev("SYN_REPORT", 0)>> ELSE << >>

execute_release(flags) ==
  IF "MT" \in flags
  THEN <<Ev("ABS_MT_TRACKING_ID", -1)>> \o MtReport(flags) \o Lifting
  ELSE IF "TOUCH" \in flags THEN Lifting ELSE << >>

execute_reset(flags) ==
  IF "MT" \in flags THEN Point(flags, <<0, 0>>) \o Contour(0, 0, 0)
  ELSE IF "TOUCH" \in flags THEN Point(flags, <<0, 0>>) ELSE << >>

execute_keydown(k) == <<Ev(k, 1)>>
execute_keyup(k) == <<Ev(k, 0)>>

\* A variant that leaves both fingers in the first slot.
change_mt_slot_First(s) == Ev("ABS_MT_SLOT", 0)
change_mt_slot(s) == Ev("ABS_MT_SLOT", s)

---------------------------------------------------------------------------
(* The path of a drag or pinch: integer steps from the start.              *)

\* A variant that rounds away from zero.
CDiv_Away(a, b) ==
  LET A(x) == IF x < 0 THEN -x ELSE x
      q == (A(a) + A(b) - 1) \div A(b)
  IN  IF (a < 0) = (b < 0) THEN q ELSE -q

\* C's integer division, which truncates towards zero.
CDiv(a, b) ==
  LET q == (IF a < 0 THEN -a ELSE a) \div (IF b < 0 THEN -b ELSE b)
  IN  IF (a < 0) = (b < 0) THEN q ELSE -q

Delta(from, to, steps) ==
  <<CDiv(to[1] - from[1], steps), CDiv(to[2] - from[2], steps)>>

\* Where the i-th move (from 0) of a path of that many steps puts the finger.
Waypoint(from, to, steps, i) ==
  LET d == Delta(from, to, steps) IN <<from[1] + d[1] * i, from[2] + d[2] * i>>

===========================================================================
