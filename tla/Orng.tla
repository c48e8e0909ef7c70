------------------------------- MODULE Orng -------------------------------
(***************************************************************************)
(* orng playing a script on an input device.                               *)
(*                                                                         *)
(* A run of orng probes the device, then takes one command of the script   *)
(* after the other.  A command is a nest of loops over primitives (press,  *)
(* move, release, ...) and a primitive is a sequence of events, written    *)
(* one by one with a pause before each: anything may happen in between.    *)
(* A write may fail, which orng reports and ignores; the process may be    *)
(* killed; the next run finds the device as the last one left it.          *)
(***************************************************************************)
EXTENDS OrngEvents, InputDevice

CONSTANTS
  Commands,      \* the commands a script may hold
  MaxCommands,   \* bound: commands begun, over all runs
  MaxFaults,     \* bound: failed probes, failed writes and kills
  MaxRuns        \* bound: processes started

Finger == {0, 1}
Op     == {"tap", "drag", "pinch", "reset", "keydown", "keyup", "sleep", "none"}

\* A command: the path of each finger, the number of taps or steps, the key.  The key is
\* whatever number the script gives: "keydown 330" presses BTN_TOUCH.
CommandType == [op: Op, from: [Finger -> Int \X Int], to: [Finger -> Int \X Int],
                n: Int, key: KeyCodes \cup {"BTN_TOUCH", "none"}]

NoCmd == [op |-> "none", from |-> [f \in Finger |-> <<0, 0>>],
          to |-> [f \in Finger |-> <<0, 0>>], n |-> 0, key |-> "none"]

ASSUME CommandsAssumption == Commands \subseteq CommandType
ASSUME BoundsAssumption   == MaxCommands \in Nat /\ MaxFaults \in Nat /\ MaxRuns \in Nat

VARIABLES
  flags,        \* device_flags, what the run believes the device to be
  trackingId,   \* global_tracking_id
  stage,        \* the primitive being executed, "idle" between commands
  cmd,          \* the command being executed, or the last one of this run
  finger,       \* the finger of a pinch that the primitive is for
  iter,         \* i, the loop counter of the gesture
  pos,          \* the next event of the primitive
  ok,           \* history: no fault since the command began
  done,         \* history: commands begun
  faults,       \* history: faults so far
  runs,         \* history: processes started
  keyed,        \* history: it was a keydown or keyup that wrote BTN_TOUCH last
  keyedSeen     \* history: so it was at the last SYN_REPORT

gestureVars == <<stage, finger, iter, pos>>
history     == <<ok, done, faults, runs>>
keyVars     == <<keyed, keyedSeen>>
vars == <<devVars, keyVars, flags, trackingId, cmd, gestureVars, history>>

Primitives == {"press", "move", "release", "reset", "keydown", "keyup"}
Stages     == Primitives \cup {"idle", "exited", "dead"}
Fingered   == {"press", "move", "release"}

TypeOK ==
  /\ DeviceTypeOK
  /\ flags \in Classes
  /\ trackingId \in Nat \ {0}
  /\ stage \in Stages
  /\ cmd \in Commands \cup {NoCmd}
  /\ finger \in Finger
  /\ iter \in Nat
  /\ pos \in Nat \ {0}
  /\ ok \in BOOLEAN
  /\ done \in 0..MaxCommands
  /\ faults \in 0..MaxFaults
  /\ runs \in 0..MaxRuns
  /\ keyed \in BOOLEAN /\ keyedSeen \in BOOLEAN

Init ==
  /\ DeviceInit
  /\ flags = {} /\ trackingId = 1
  /\ stage = "exited" /\ cmd = NoCmd
  /\ finger = 0 /\ iter = 0 /\ pos = 1
  /\ ok = TRUE /\ done = 0 /\ faults = 0 /\ runs = 0
  /\ keyed = FALSE /\ keyedSeen = FALSE

---------------------------------------------------------------------------
(* The process: start, exit, death.                                        *)

Probed == figure_out_events_device_reports(dev.keys, dev.abs, dev.name)

\* main up to the script; an ioctl of the probe that fails leaves its bits zero.
Start ==
  /\ stage \in {"exited", "dead"} /\ runs < MaxRuns
  /\ \E K \in {dev.keys, {}}, A \in {dev.abs, {}}, name \in {dev.name, ""} :
       /\ flags' = figure_out_events_device_reports(K, A, name)
       /\ faults' = IF <<K, A, name>> = <<dev.keys, dev.abs, dev.name>>
                    THEN faults ELSE faults + 1
       /\ faults' <= MaxFaults
  /\ trackingId' = 1 /\ stage' = "idle" /\ cmd' = NoCmd
  /\ finger' = 0 /\ iter' = 0 /\ pos' = 1
  /\ ok' = TRUE /\ runs' = runs + 1
  /\ UNCHANGED <<devVars, keyVars, done>>

\* The script ends, or a line of it stops the run.
Exit ==
  /\ stage = "idle" /\ stage' = "exited"
  /\ UNCHANGED <<devVars, keyVars, flags, trackingId, cmd, finger, iter, pos, history>>

Kill ==
  /\ stage \in Primitives \cup {"idle"} /\ faults < MaxFaults
  /\ stage' = "dead"
  /\ ok' = FALSE /\ faults' = faults + 1
  /\ UNCHANGED <<devVars, keyVars, flags, trackingId, cmd, finger, iter, pos, done, runs>>

---------------------------------------------------------------------------
(* The first step of a command.                                            *)

Begin(c, first) ==
  /\ stage = "idle" /\ done < MaxCommands
  /\ cmd' = c /\ stage' = first
  /\ finger' = 0 /\ iter' = 0 /\ pos' = 1
  /\ ok' = TRUE /\ done' = done + 1
  /\ UNCHANGED <<devVars, keyVars, flags, trackingId, faults, runs>>

execute_tap(c) ==
  c.op = "tap" /\ Begin(c, IF c.n > 0 THEN "press" ELSE "idle")

\* Drag and pinch divide by num_steps first.  Dividing by zero is undefined: a
\* trap, or a quotient that no move uses.
BeginPath(c) ==
  \/ Begin(c, "press")
  \/ c.n = 0 /\ Begin(c, "dead")

execute_drag(c)  == c.op = "drag" /\ BeginPath(c)
execute_pinch(c) == c.op = "pinch" /\ BeginPath(c)

\* The commands that are one primitive of the same name, and sleep.
BeginPrimitive(c) == c.op \in {"reset", "keydown", "keyup"} /\ Begin(c, c.op)
execute_sleep(c)  == c.op = "sleep" /\ Begin(c, "idle")

BeginCommand ==
  \E c \in Commands : \/ execute_tap(c) \/ execute_drag(c) \/ execute_pinch(c)
                      \/ BeginPrimitive(c) \/ execute_sleep(c)

---------------------------------------------------------------------------
(* The events of the primitive being executed.                             *)

Body ==
  CASE stage = "press"   -> execute_press(flags, trackingId, cmd.from[finger])
    [] stage = "move"    -> execute_move(flags,
                              Waypoint(cmd.from[finger], cmd.to[finger], cmd.n, iter))
    [] stage = "release" -> execute_release(flags)
    [] stage = "reset"   -> execute_reset(flags)
    [] stage = "keydown" -> execute_keydown(cmd.key)
    [] stage = "keyup"   -> execute_keyup(cmd.key)
    [] OTHER             -> << >>

\* A pinch selects the slot of the finger before each primitive.
Calls ==
  IF cmd.op = "pinch" /\ stage \in Fingered THEN <<change_mt_slot(finger)>> \o Body ELSE Body

\* A variant whose tracking id never moves on.
NextEvent_SameId ==
  /\ stage \in Primitives /\ pos <= Len(Calls)
  /\ pos' = pos + 1
  /\ UNCHANGED <<flags, trackingId, cmd, stage, finger, iter, done, runs>>

\* Whatever the outcome of the write, orng goes on to the next event.
NextEvent ==
  /\ stage \in Primitives /\ pos <= Len(Calls)
  /\ pos' = pos + 1
  /\ trackingId' = IF stage = "press" /\ Calls[pos].code = "ABS_MT_TRACKING_ID"
                   THEN trackingId + 1 ELSE trackingId
  /\ UNCHANGED <<flags, cmd, stage, finger, iter, done, runs>>

write_event ==
  /\ NextEvent
  /\ Deliver(Calls[pos])
  /\ keyed' = IF Calls[pos].code = "BTN_TOUCH" THEN stage \notin Fingered ELSE keyed
  /\ keyedSeen' = IF Calls[pos].code = "SYN_REPORT" THEN keyed ELSE keyedSeen
  /\ UNCHANGED <<ok, faults>>

write_event_fails ==
  /\ NextEvent /\ faults < MaxFaults
  /\ ok' = FALSE /\ faults' = faults + 1
  /\ UNCHANGED <<devVars, keyVars>>

---------------------------------------------------------------------------
(* What follows a primitive that has written its last event.               *)

Goto(st, f, it) ==
  /\ stage' = st /\ finger' = f /\ iter' = it /\ pos' = 1
  /\ UNCHANGED <<devVars, keyVars, flags, trackingId, cmd, history>>

Returned(st) == stage = st /\ pos > Len(Calls)

\* A variant that does not move the other finger.
HasOtherFinger_NoMove == cmd.op = "pinch" /\ finger = 0 /\ stage # "move"

HasOtherFinger == cmd.op = "pinch" /\ finger = 0

OtherFinger ==
  /\ \E st \in Fingered : Returned(st)
  /\ HasOtherFinger
  /\ Goto(stage, 1, iter)

PressReturns ==
  /\ Returned("press") /\ ~HasOtherFinger
  /\ Goto(IF cmd.op \in {"drag", "pinch"} /\ cmd.n > 0 THEN "move" ELSE "release", 0, iter)

\* Variants: a loop counter that is not incremented, a release that forgets the
\* other finger.
MoveReturns_NoStep ==
  /\ Returned("move") /\ ~HasOtherFinger
  /\ Goto(IF iter + 1 < cmd.n THEN "move" ELSE "release", 0, iter)
ReleaseReturns_OneFinger ==
  /\ Returned("release")
  /\ IF cmd.op = "tap" THEN Goto(IF iter + 1 < cmd.n THEN "press" ELSE "idle", 0, iter + 1)
                       ELSE Goto("idle", 0, iter)

MoveReturns ==
  /\ Returned("move") /\ ~HasOtherFinger
  /\ Goto(IF iter + 1 < cmd.n THEN "move" ELSE "release", 0, iter + 1)

ReleaseReturns ==
  /\ Returned("release") /\ ~HasOtherFinger
  /\ IF cmd.op = "tap" THEN Goto(IF iter + 1 < cmd.n THEN "press" ELSE "idle", 0, iter + 1)
                       ELSE Goto("idle", 0, iter)

PrimitiveReturns ==
  /\ \E st \in {"reset", "keydown", "keyup"} : Returned(st)
  /\ Goto("idle", 0, iter)

Return == OtherFinger \/ PressReturns \/ MoveReturns \/ ReleaseReturns \/ PrimitiveReturns

---------------------------------------------------------------------------

Next == \/ Start \/ Exit \/ Kill
        \/ BeginCommand
        \/ write_event \/ write_event_fails
        \/ Return

Spec == Init /\ [][Next]_vars

\* orng itself never stops inside a command: a write that is interrupted is
\* retried, and every other outcome of it leads to the next event.
Fairness == WF_vars(write_event \/ write_event_fails \/ Return)
FairSpec == Spec /\ Fairness

---------------------------------------------------------------------------
(* What the properties speak of.                                           *)

Gestures == {"tap", "drag", "pinch"}
TouchedBy(c) == c.op \in Gestures /\ ~(c.op = "tap" /\ c.n <= 0)

\* The last command of this run has ended, and nothing failed during it.
Completed == stage = "idle" /\ ok /\ flags = Probed

Contact(s) == abs[s]["ABS_MT_TRACKING_ID"]

\* The slot a finger is tracked in: a device with one slot puts both there.
Target(f) == IF cmd.op = "pinch" /\ f \in Slots THEN f ELSE slot
Fingers   == IF cmd.op = "pinch" THEN Finger ELSE {0}
Targets   == {Target(f) : f \in Fingers}

\* A path that a device can show: a place for each finger.
OnPath == /\ cmd.op \in {"drag", "pinch"} /\ ok /\ flags = Probed /\ "TOUCH" \in flags
          /\ cmd.op = "pinch" => "MT" \in flags /\ dev.slots > 1

Place(values, s) == <<values[s][XAxis(flags)], values[s][YAxis(flags)]>>

\* Where finger f is after the first m moves.
After(f, m) == IF m <= 0 THEN cmd.from[f] ELSE Waypoint(cmd.from[f], cmd.to[f], cmd.n, m - 1)

\* The readers see finger f on the screen.
Shown(f) == IF "MT" \in flags THEN InContact(seen.abs, Target(f)) ELSE "BTN_TOUCH" \in seen.keys

Between(a, b, c) == (a <= b /\ b <= c) \/ (c <= b /\ b <= a)

---------------------------------------------------------------------------
(* Safety.                                                                 *)

\* Whatever the script, between two commands and after the run the readers know of no
\* touch and the kernel of no contact, unless a write failed or the process was killed.
\* The kernel's button is down only if a keydown of BTN_TOUCH was the last to write it,
\* which no report follows (execute_keydown).
NoStuckContact ==
  faults = 0 /\ stage \notin Primitives =>
    /\ "BTN_TOUCH" \notin seen.keys
    /\ "BTN_TOUCH" \in keys => keyed
    /\ \A s \in Slots : ~InContact(abs, s) /\ ~InContact(seen.abs, s)

\* A gesture that ends without a fault leaves the slots it used and the button
\* released, even if an earlier run died with a finger down.
GestureHeals ==
  Completed /\ TouchedBy(cmd) =>
    /\ "TOUCH" \in flags => "BTN_TOUCH" \notin seen.keys
    /\ "MT" \in flags => \A s \in Targets : ~InContact(seen.abs, s)

\* Everything a completed gesture wrote has been reported to the readers.
GestureReported ==
  Completed /\ TouchedBy(cmd) /\ "TOUCH" \in flags => seen = [abs |-> abs, keys |-> keys]

\* As long as no contact of a dead run is still down, every press starts a
\* contact whose id no slot holds.
FreshContact ==
  [][ write_event /\ stage = "press" /\ (runs = 1 \/ faults = 0)
        /\ Calls[pos].code = "ABS_MT_TRACKING_ID" /\ "ABS_MT_TRACKING_ID" \in dev.abs
      => \A s \in Slots : Contact(s) # Contact(slot)' ]_vars

\* On a multi-touch device the readers never see the button down without a
\* contact: the two are raised and dropped within one report.
ButtonHasContact ==
  faults = 0 /\ "MT" \in flags /\ "ABS_MT_TRACKING_ID" \in dev.abs /\ "BTN_TOUCH" \in seen.keys
    => \E s \in Slots : InContact(seen.abs, s)

\* When the next primitive starts, the readers have seen each finger at the end
\* of the moves made so far: fingers take turns, and no slot gets the other's.
FingersFollowPath ==
  OnPath /\ stage \in {"move", "release"} /\ pos = 1 =>
    \A f \in Fingers :
      LET moves == iter + (IF stage = "move" /\ f < finger THEN 1 ELSE 0)
      IN  Place(seen.abs, Target(f)) = After(f, moves)

\* No report shows a finger in contact off its path, such as with the X of one
\* step and the Y of another.
ReportedOnPath ==
  OnPath /\ stage \in Fingered /\ faults = 0 =>
    \A f \in Fingers :
      Shown(f) => \E m \in 0..iter + 1 : Place(seen.abs, Target(f)) = After(f, m)

\* A finger never overshoots: rounding keeps it between start and end.
NoOvershoot ==
  OnPath /\ stage \in {"move", "release"} =>
    \A f \in Fingers :
      LET p == Place(seen.abs, Target(f))
      IN  \A a \in {1, 2} : Between(cmd.from[f][a], p[a], cmd.to[f][a])

---------------------------------------------------------------------------
(* Liveness.                                                               *)

\* Every command comes to its end, whatever fails; if nothing does, every finger that the
\* readers saw down is lifted by then.
CommandEnds ==
  stage \in Primitives ~>
    /\ stage \notin Primitives
    /\ faults = 0 => \A s \in Slots : ~InContact(seen.abs, s)

---------------------------------------------------------------------------
(* What the documentation says and orng does not do.                       *)

\* README: "Reset: Send events to reset kernel cached values to 0".
ResetClearsCache ==
  Completed /\ cmd.op = "reset" /\ "MT" \in flags =>
    \A s \in Slots, a \in MTAxes \ {"ABS_MT_TRACKING_ID"} : abs[s][a] = 0

\* README: "Key down: Simulates a press down of the specified key".
KeyDownReported ==
  Completed /\ cmd.op = "keydown" /\ cmd.key \in dev.keys => cmd.key \in seen.keys

\* README: a gesture is "totally indistinguishable from actual touch events"; so
\* a press is a new contact, also when an earlier run was killed.
PressIsNewContact ==
  [][ write_event /\ stage = "press" /\ Calls[pos].code = "ABS_MT_TRACKING_ID"
        /\ "ABS_MT_TRACKING_ID" \in dev.abs
      => Contact(slot)' # Contact(slot) ]_vars

===========================================================================
