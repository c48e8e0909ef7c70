---------------------------- MODULE OrngRefines ----------------------------
(***************************************************************************)
(* Orng keeps the promise of Touchscreen on every device that can show the *)
(* gesture: event by event it is silent, report by report it is a step.    *)
(***************************************************************************)
EXTENDS Orng

\* The fingers of a pinch are tracked in a slot each.
Apart == cmd.op = "pinch" => "MT" \in flags /\ dev.slots > 1

\* The device can show what the gesture asks for: a multi-touch device shows a finger
\* by its tracking id.
Playable ==
  /\ TouchedBy(cmd) /\ "TOUCH" \in flags /\ Apart
  /\ "MT" \in flags => "ABS_MT_TRACKING_ID" \in dev.abs

Playing == Playable /\ stage \in Fingered

\* For finger f, the current primitive has come past a point.
Past(f, point) == f < finger \/ (f = finger /\ point)

\* The current primitive has been reported, for finger f.
Reported(f) == Past(f, pos > Len(Calls))

\* What a command asks for, as a gesture.
Asked(c) ==
  LET steps == IF c.op = "tap" \/ c.n < 0 THEN 0 ELSE c.n
  IN  [fingers  |-> IF c.op = "pinch" THEN Finger ELSE {0},
       contacts |-> IF c.op = "tap" THEN c.n ELSE 1,
       steps    |-> steps,
       path     |-> [f \in Finger |-> [m \in 0..steps |->
                      IF m = 0 THEN c.from[f] ELSE Waypoint(c.from[f], c.to[f], c.n, m - 1)]]]

\* The contacts a finger has yet to begin, and the steps it has been seen to make.
ContactsLeft(f) ==
  IF ~Playing \/ f \notin Fingers THEN 0
  ELSE (IF cmd.op = "tap" THEN cmd.n - iter - 1 ELSE 0)
       + (IF stage = "press" /\ ~Reported(f) THEN 1 ELSE 0)

StepsSeen(f) ==
  IF ~Playing \/ f \notin Fingers \/ cmd.op = "tap" \/ stage = "press" THEN 0
  ELSE iter + (IF stage = "move" /\ Reported(f) THEN 1 ELSE 0)

Readers == INSTANCE Touchscreen WITH
  Gestures <- {Asked(c) : c \in {d \in Commands : TouchedBy(d)}},
  None     <- NoCmd,
  gesture  <- IF Playing THEN Asked(cmd) ELSE NoCmd,
  screen   <- [f \in Finger |-> IF Playable /\ f \in Fingers /\ Shown(f)
                                THEN Place(seen.abs, Target(f)) ELSE << >>],
  left     <- [f \in Finger |-> ContactsLeft(f)],
  moves    <- [f \in Finger |-> StepsSeen(f)]

\* The readers see the gestures of the script and nothing else, each report a step of
\* one finger: down at its start, along its path in turn with the other, and up.
PlaysGestures == Readers!Spec

===========================================================================
