------------------------------ MODULE TwoOrng ------------------------------
(***************************************************************************)
(* Two processes of orng playing on one device.  Each has the state of     *)
(* Orng for itself: the second one's has its own variables here.  The      *)
(* device they share: what is down, and which slot is selected.            *)
(***************************************************************************)
EXTENDS OrngInv

VARIABLES flags2, trackingId2, stage2, cmd2, finger2, iter2, pos2, ok2, done2, faults2, runs2

Second == INSTANCE OrngInv WITH
  flags <- flags2, trackingId <- trackingId2, stage <- stage2, cmd <- cmd2,
  finger <- finger2, iter <- iter2, pos <- pos2,
  ok <- ok2, done <- done2, faults <- faults2, runs <- runs2

own  == <<flags, trackingId, cmd, gestureVars, history>>
own2 == <<flags2, trackingId2, stage2, cmd2, finger2, iter2, pos2, ok2, done2, faults2, runs2>>

BothInit == Init /\ Second!Init

BothNext ==
  \/ Next /\ UNCHANGED own2
  \/ Second!Next /\ UNCHANGED own

BothSpec == BothInit /\ [][BothNext]_<<vars, own2>>

---------------------------------------------------------------------------

\* Neither process is within a command, and nothing has failed in either.
BothAtRest ==
  /\ stage \notin Primitives /\ stage2 \notin Primitives
  /\ faults = 0 /\ faults2 = 0

\* However the events of the two processes mix, a gesture leaves the button down neither
\* for the kernel nor for the readers when both are between commands: the last to write it
\* released it, and reported that (execute_release).  What is down then is so by a keydown
\* of BTN_TOUCH, for the readers by one that a report of the other process has told them of.
SharedButtonReleased ==
  BothAtRest =>
    /\ "BTN_TOUCH" \in keys => keyed
    /\ "BTN_TOUCH" \in seen.keys => keyedSeen

\* Nor is there a contact left in any slot, as long as the first slot is the selected one:
\* before there was a pinch, which sends the releases of the other process to another slot
\* (change_mt_slot), or on a device that has but one.
SharedContactsReleased ==
  BothAtRest /\ slot = 0 =>
    \A s \in Slots : ~InContact(abs, s) /\ ~InContact(seen.abs, s)

\* A pinch can strand a contact of the other process only in the slot it leaves behind:
\* its last slot stays selected when it ends, so that every later release goes there.
LastSlotReleased ==
  BothAtRest => \A s \in Slots \ {0} : ~InContact(abs, s) /\ ~InContact(seen.abs, s)

---------------------------------------------------------------------------
(* The inductive invariant: whatever a gesture has put down, one of the    *)
(* two will lift.                                                          *)

SomeoneLifts ==
  /\ "BTN_TOUCH" \in keys /\ ~keyed => DropsButton \/ Second!DropsButton
  /\ "BTN_TOUCH" \in seen.keys /\ ~keyedSeen => ReportsDrop \/ Second!ReportsDrop
  /\ InContact(abs, slot) => LiftsContact \/ Second!LiftsContact
  /\ InContact(seen.abs, slot) => ReportsLift \/ Second!ReportsLift

\* To lift a contact from another slot than the first, one of them will select it.
SomeoneReturns ==
  \A s \in Slots \ {0, slot} : TouchAt(s) => s = 1 /\ (SelectsLast \/ Second!SelectsLast)

SharedInv ==
  /\ TypeOK /\ Control /\ Known
  /\ Second!TypeOK /\ Second!Control /\ Second!Known
  /\ faults = 0 /\ faults2 = 0 =>
       slot \in {0, 1} /\ TouchNeedsMT /\ SomeoneLifts /\ SomeoneReturns

===========================================================================
