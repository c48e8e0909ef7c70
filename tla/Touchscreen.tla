---------------------------- MODULE Touchscreen ----------------------------
(***************************************************************************)
(* What a script promises those who read the touchscreen: fingers that     *)
(* come down, step along their paths in turn and go up again, one gesture  *)
(* after the other.  A step is a report; nothing is said of events, slots, *)
(* tracking ids or device classes.                                         *)
(***************************************************************************)
EXTENDS Integers

CONSTANTS
  Gestures,    \* the gestures a script may hold
  None         \* no gesture

Finger == {0, 1}
Up     == << >>

\* A gesture is a record: its fingers, how often each of them touches the screen
\* (contacts), how many steps it makes, and where each finger is after each (path).

VARIABLES
  gesture,    \* the gesture that is played, or None
  screen,     \* where each finger is, or Up
  left,       \* the contacts each finger has still to make
  moves       \* the steps each finger has made

vars == <<gesture, screen, left, moves>>

Init ==
  /\ gesture = None
  /\ screen = [f \in Finger |-> Up]
  /\ left = [f \in Finger |-> 0]
  /\ moves = [f \in Finger |-> 0]

Begin(g) ==
  /\ gesture = None
  /\ gesture' = g
  /\ left' = [f \in Finger |-> IF f \in g.fingers THEN g.contacts ELSE 0]
  /\ UNCHANGED <<screen, moves>>

\* The fingers come down in order, before any of them moves.
Down(f) ==
  /\ screen[f] = Up /\ left[f] > 0
  /\ \A e \in gesture.fingers : e < f => left[e] = 0
  /\ screen' = [screen EXCEPT ![f] = gesture.path[f][0]]
  /\ left' = [left EXCEPT ![f] = @ - 1]
  /\ UNCHANGED <<gesture, moves>>

\* They take turns, so that none is ever more than a step ahead.
Move(f) ==
  /\ screen[f] # Up /\ moves[f] < gesture.steps
  /\ \A e \in gesture.fingers :
       left[e] = 0 /\ moves[e] = moves[f] + (IF e < f THEN 1 ELSE 0)
  /\ moves' = [moves EXCEPT ![f] = @ + 1]
  /\ screen' = [screen EXCEPT ![f] = gesture.path[f][moves'[f]]]
  /\ UNCHANGED <<gesture, left>>

\* They go up in order, when all have come to the end.
Lift(f) ==
  /\ screen[f] # Up
  /\ \A e \in gesture.fingers :
       /\ moves[e] = gesture.steps
       /\ e < f => screen[e] = Up
       /\ e # f => left[e] = 0
  /\ screen' = [screen EXCEPT ![f] = Up]
  /\ UNCHANGED <<gesture, left, moves>>

End ==
  /\ gesture # None
  /\ \A f \in Finger : screen[f] = Up /\ left[f] = 0
  /\ gesture' = None
  /\ moves' = [f \in Finger |-> 0]
  /\ UNCHANGED <<screen, left>>

Next ==
  \/ \E g \in Gestures : Begin(g)
  \/ gesture # None /\ \E f \in gesture.fingers : Down(f) \/ Move(f) \/ Lift(f)
  \/ End

Spec == Init /\ [][Next]_vars

===========================================================================
