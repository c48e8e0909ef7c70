-------------------------- MODULE TwoOrng_proofs --------------------------
(***************************************************************************)
(* Two processes on one device: whatever a gesture of the one or the other *)
(* puts down is lifted, as long as the last slot of a pinch is not         *)
(* selected.                                                               *)
(***************************************************************************)
EXTENDS TwoOrng, Orng_proofs

\* What is proved of one process, of the second one.
P2 == INSTANCE Orng_proofs WITH
  flags <- flags2, trackingId <- trackingId2, stage <- stage2, cmd <- cmd2,
  finger <- finger2, iter <- iter2, pos <- pos2,
  ok <- ok2, done <- done2, faults <- faults2, runs <- runs2

---------------------------------------------------------------------------
(* The same definitions, by both names of the second process.              *)

\* The assumptions are about the same constants.
LEMMA SameTypes ==
  P2!CommandType = CommandType /\ P2!Codes = Codes /\ P2!DeviceType = DeviceType
BY DEF P2!CommandType, CommandType, P2!Op, Op, P2!Finger, Finger, P2!Codes, Codes, P2!Axes, Axes,
       P2!MTAxes, MTAxes, P2!DeviceType, DeviceType

\* The events of the second process.
LEMMA SameCalls ==
  /\ P2!Calls = Second!Calls /\ P2!Prefix = Second!Prefix
  /\ P2!HasOtherFinger = Second!HasOtherFinger /\ P2!Probed = Second!Probed
BY DEF P2!Calls, Second!Calls, P2!Body, Second!Body, P2!Prefix, Second!Prefix,
       P2!Fingered, Second!Fingered, P2!HasOtherFinger, Second!HasOtherFinger,
       P2!Probed, Second!Probed, P2!figure_out_events_device_reports,
       Second!figure_out_events_device_reports, P2!SyncNames, Second!SyncNames,
       P2!execute_press, Second!execute_press, P2!execute_move, Second!execute_move,
       P2!execute_release, Second!execute_release, P2!execute_reset, Second!execute_reset,
       P2!execute_keydown, Second!execute_keydown, P2!execute_keyup, Second!execute_keyup,
       P2!change_mt_slot, Second!change_mt_slot, P2!Point, Second!Point, P2!Contour, Second!Contour,
       P2!MtReport, Second!MtReport, P2!Touching, Second!Touching, P2!Lifting, Second!Lifting,
       P2!XAxis, Second!XAxis, P2!YAxis, Second!YAxis, P2!Waypoint, Second!Waypoint,
       P2!Delta, Second!Delta, P2!CDiv, Second!CDiv, P2!Ev, Second!Ev

\* What the second process may be in, and what it has yet to do.
Same ==
  /\ P2!TypeOK <=> Second!TypeOK
  /\ P2!Control <=> Second!Control
  /\ P2!Known <=> Second!Known
  /\ P2!DropsButton <=> Second!DropsButton
  /\ P2!ReportsDrop <=> Second!ReportsDrop
  /\ P2!LiftsContact <=> Second!LiftsContact
  /\ P2!ReportsLift <=> Second!ReportsLift
  /\ P2!SelectsLast <=> Second!SelectsLast

\* They are the same.
LEMMA SameState == Same
BY SameCalls
   DEF Same, P2!TypeOK, Second!TypeOK, P2!DeviceTypeOK, Second!DeviceTypeOK, P2!Slots, Second!Slots,
       P2!Axes, Second!Axes, P2!MTAxes, Second!MTAxes, P2!Classes, Second!Classes,
       P2!Stages, Second!Stages, P2!Primitives, Second!Primitives, P2!NoCmd, Second!NoCmd,
       P2!Finger, Second!Finger, P2!Control, Second!Control, P2!Known, Second!Known,
       P2!Fingered, Second!Fingered, P2!DropsButton, Second!DropsButton,
       P2!ReportsDrop, Second!ReportsDrop, P2!LiftsContact, Second!LiftsContact,
       P2!ReportsLift, Second!ReportsLift, P2!SelectsLast, Second!SelectsLast,
       P2!Before, Second!Before

\* How the second process starts, and its steps.
LEMMA SameInit == P2!Init = Second!Init
BY DEF P2!Init, Second!Init, P2!DeviceInit, Second!DeviceInit, P2!Slots, Second!Slots, P2!Axes,
       Second!Axes, P2!MTAxes, Second!MTAxes, P2!NoCmd, Second!NoCmd, P2!Finger, Second!Finger

\* The steps of the second process.
LEMMA SameNext == P2!Next = Second!Next
BY SameCalls
   DEF P2!Next, Second!Next, P2!Start, Second!Start, P2!Exit, Second!Exit, P2!Kill,
       Second!Kill, P2!BeginCommand, Second!BeginCommand, P2!execute_tap, Second!execute_tap,
       P2!execute_drag, Second!execute_drag, P2!execute_pinch, Second!execute_pinch,
       P2!BeginPath, Second!BeginPath, P2!BeginPrimitive, Second!BeginPrimitive,
       P2!execute_sleep, Second!execute_sleep, P2!Begin, Second!Begin, P2!write_event,
       Second!write_event, P2!write_event_fails, Second!write_event_fails, P2!NextEvent,
       Second!NextEvent, P2!Deliver, Second!Deliver, P2!SelectSlot, Second!SelectSlot,
       P2!SetAxis, Second!SetAxis, P2!SetKey, Second!SetKey, P2!Report, Second!Report,
       P2!Return, Second!Return, P2!OtherFinger, Second!OtherFinger, P2!PressReturns,
       Second!PressReturns, P2!MoveReturns, Second!MoveReturns, P2!ReleaseReturns,
       Second!ReleaseReturns, P2!PrimitiveReturns, Second!PrimitiveReturns, P2!Goto,
       Second!Goto, P2!Returned, Second!Returned, P2!Slots, Second!Slots, P2!Codes,
       Second!Codes, P2!Axes, Second!Axes, P2!MTAxes, Second!MTAxes, P2!Primitives,
       Second!Primitives, P2!Fingered, Second!Fingered, P2!devVars, Second!devVars, P2!keyVars, Second!keyVars,
       P2!gestureVars, Second!gestureVars, P2!history, Second!history, P2!NoCmd, Second!NoCmd,
       P2!Finger, Second!Finger, P2!figure_out_events_device_reports,
       Second!figure_out_events_device_reports, P2!SyncNames, Second!SyncNames

---------------------------------------------------------------------------
(* The one that waits.                                                     *)

\* While the second process waits it stays as it is, with what it has yet to do.
LEMMA SecondWaits ==
  ASSUME UNCHANGED own2
  PROVE  /\ (Second!DropsButton' <=> Second!DropsButton) /\ (Second!ReportsDrop' <=> Second!ReportsDrop)
         /\ (Second!LiftsContact' <=> Second!LiftsContact) /\ (Second!ReportsLift' <=> Second!ReportsLift)
         /\ (Second!SelectsLast' <=> Second!SelectsLast)
<1>1. UNCHANGED <<flags2, trackingId2, stage2, cmd2, finger2, iter2, pos2>>
  BY DEF own2
<1>2. Second!Calls' = Second!Calls /\ Second!Prefix' = Second!Prefix
      /\ Second!HasOtherFinger' = Second!HasOtherFinger
  BY <1>1 DEF Second!Calls, Second!Body, Second!Prefix, Second!HasOtherFinger
<1>3. QED
  BY <1>1, <1>2 DEF Second!DropsButton, Second!ReportsDrop, Second!LiftsContact, Second!ReportsLift,
                    Second!SelectsLast, Second!Before

\* It stays in a state of its own types, and knows the device as before.
LEMMA SecondKeeps ==
  ASSUME UNCHANGED own2, dev' = dev, DeviceTypeOK',
         keyed' \in BOOLEAN, keyedSeen' \in BOOLEAN, Second!TypeOK, Second!Control, Second!Known
  PROVE  Second!TypeOK' /\ Second!Control' /\ Second!Known'
<1>1. UNCHANGED <<flags2, trackingId2, stage2, cmd2, finger2, iter2, pos2, ok2, done2, faults2, runs2>>
  BY DEF own2
<1>2. Second!DeviceTypeOK'
  BY DEF Second!DeviceTypeOK, DeviceTypeOK, Second!Slots, Slots, Second!Axes, Axes, Second!MTAxes, MTAxes
<1>3. Second!TypeOK'
  BY <1>1, <1>2 DEF Second!TypeOK
<1>4. Second!Probed' = Second!Probed
  BY DEF Second!Probed
<1>5. QED
  BY <1>1, <1>3, <1>4 DEF Second!Control, Second!Known

\* And so it is with the first process.
LEMMA FirstWaits ==
  ASSUME UNCHANGED own
  PROVE  /\ (DropsButton' <=> DropsButton) /\ (ReportsDrop' <=> ReportsDrop)
         /\ (LiftsContact' <=> LiftsContact) /\ (ReportsLift' <=> ReportsLift)
         /\ (SelectsLast' <=> SelectsLast)
<1>1. UNCHANGED <<flags, trackingId, stage, cmd, finger, iter, pos>>
  BY DEF own, gestureVars
<1>2. Calls' = Calls /\ Prefix' = Prefix /\ HasOtherFinger' = HasOtherFinger
  BY <1>1 DEF Calls, Body, Prefix, HasOtherFinger
<1>3. QED
  BY <1>1, <1>2 DEF DropsButton, ReportsDrop, LiftsContact, ReportsLift, SelectsLast, Before

\* It keeps its types, too.
LEMMA FirstKeeps ==
  ASSUME UNCHANGED own, dev' = dev, DeviceTypeOK',
         keyed' \in BOOLEAN, keyedSeen' \in BOOLEAN, TypeOK, Control, Known
  PROVE  TypeOK' /\ Control' /\ Known'
<1>1. UNCHANGED <<flags, trackingId, stage, cmd, finger, iter, pos, ok, done, faults, runs>>
  BY DEF own, gestureVars, history
<1>2. TypeOK'
  BY <1>1 DEF TypeOK
<1>3. Probed' = Probed
  BY DEF Probed
<1>4. QED
  BY <1>1, <1>2, <1>3 DEF Control, Known

---------------------------------------------------------------------------
(* The one that goes on.                                                   *)

\* The first process takes a step.
LEMMA FirstStep ==
  ASSUME SharedInv, [Next]_vars, UNCHANGED own2
  PROVE  SharedInv'
<1>1. TypeOK' /\ Control' /\ Known' /\ dev' = dev
  <2>1. TypeOK' /\ Control' /\ Known'
    BY NextTypeOK, KnownKept DEF SharedInv
  <2>2. QED
    BY <2>1, DeviceStays
<1>2. Second!TypeOK' /\ Second!Control' /\ Second!Known'
  BY <1>1, SecondKeeps DEF SharedInv, TypeOK
<1> SUFFICES ASSUME faults' = 0, faults2' = 0
             PROVE  slot' \in {0, 1} /\ TouchNeedsMT' /\ SomeoneLifts' /\ SomeoneReturns'
  BY <1>1, <1>2 DEF SharedInv
<1>3. faults = 0 /\ faults2 = 0
  BY FaultsStay DEF SharedInv, own2
<1>4. slot \in {0, 1} /\ TouchNeedsMT /\ SomeoneLifts /\ SomeoneReturns
  BY <1>3 DEF SharedInv
<1>5. StepShares /\ TouchNeedsMT'
  BY <1>1, <1>3, <1>4, NextShares DEF SharedInv
<1>6. SomeoneLifts'
  <2>0. /\ Second!DropsButton => Second!ReportsDrop
        /\ Second!LiftsContact => Second!ReportsLift
    BY P2!ReportsWhatItLifts, SameState, SameTypes, CommandsAssumption, BoundsAssumption,
       KeyCodesAssumption, DevicesAssumption DEF Same, SharedInv
  <2>1. "BTN_TOUCH" \in keys' /\ ~keyed' => DropsButton' \/ Second!DropsButton'
    BY <1>4, <1>5, SecondWaits DEF StepShares, SomeoneLifts
  <2>2. "BTN_TOUCH" \in seen'.keys /\ ~keyedSeen' => ReportsDrop' \/ Second!ReportsDrop'
    BY <1>4, <1>5, <2>0, SecondWaits DEF StepShares, SomeoneLifts
  <2>3. InContact(abs', slot') => LiftsContact' \/ Second!LiftsContact'
    BY <1>4, <1>5, SecondWaits DEF StepShares, SomeoneLifts, InContact
  <2>4. InContact(seen'.abs, slot') => ReportsLift' \/ Second!ReportsLift'
    BY <1>4, <1>5, <2>0, SecondWaits DEF StepShares, SomeoneLifts, InContact
  <2>5. QED
    BY <2>1, <2>2, <2>3, <2>4 DEF SomeoneLifts, InContact
<1>7. SomeoneReturns'
  <2> SUFFICES ASSUME NEW s \in Slots \ {0, slot'}, TouchAt(s)'
               PROVE  s = 1 /\ (SelectsLast' \/ Second!SelectsLast')
    BY <1>1 DEF SomeoneReturns, Slots
  <2>1. TouchAt(s) /\ (SelectsLast' \/ (s # slot /\ (~SelectsLast \/ slot' = 1)))
    BY <1>5 DEF StepShares
  <2>2. s = 1
    BY <1>4, <2>1 DEF SomeoneReturns
  <2>3. QED
    BY <1>4, <2>1, <2>2, SecondWaits DEF SomeoneReturns
<1>8. QED
  BY <1>5, <1>6, <1>7 DEF StepShares

\* The second process takes a step.
LEMMA SecondStep ==
  ASSUME SharedInv, Second!Next, UNCHANGED own
  PROVE  SharedInv'
<1>1. P2!TypeOK /\ P2!Control /\ P2!Known /\ P2!Next
  BY SameState, SameNext DEF Same, SharedInv
<1>2. P2!TypeOK' /\ P2!Control' /\ P2!Known' /\ dev' = dev
  <2>1. P2!TypeOK' /\ P2!Control' /\ P2!Known'
    BY <1>1, P2!NextTypeOK, P2!KnownKept, SameTypes, CommandsAssumption, BoundsAssumption,
       KeyCodesAssumption, DevicesAssumption
  <2>2. QED
    BY <1>1, <2>1, P2!DeviceStays, SameTypes, CommandsAssumption, BoundsAssumption,
       KeyCodesAssumption, DevicesAssumption
<1>3. Same' /\ Second!TypeOK' /\ Second!Control' /\ Second!Known'
  <2>1. Same'
    BY SameState, PTL
  <2>2. QED
    BY <1>2, <2>1 DEF Same
<1>4. TypeOK' /\ Control' /\ Known'
  <2>1. DeviceTypeOK'
    BY <1>3 DEF Second!TypeOK, Second!DeviceTypeOK, DeviceTypeOK, Second!Slots, Slots, Second!Axes, Axes,
                Second!MTAxes, MTAxes
  <2>2. keyed' \in BOOLEAN /\ keyedSeen' \in BOOLEAN
    BY <1>3 DEF Second!TypeOK
  <2>3. QED
    BY <1>2, <2>1, <2>2, FirstKeeps DEF SharedInv
<1> SUFFICES ASSUME faults' = 0, faults2' = 0
             PROVE  slot' \in {0, 1} /\ TouchNeedsMT' /\ SomeoneLifts' /\ SomeoneReturns'
  BY <1>3, <1>4 DEF SharedInv
<1>5. faults = 0 /\ faults2 = 0
  BY <1>1, P2!FaultsStay, SameTypes, CommandsAssumption, BoundsAssumption,
     KeyCodesAssumption, DevicesAssumption DEF own, history
<1>6. slot \in {0, 1} /\ TouchNeedsMT /\ SomeoneLifts /\ SomeoneReturns
  BY <1>5 DEF SharedInv
<1>7. P2!TouchNeedsMT = TouchNeedsMT /\ (P2!TouchNeedsMT)' = TouchNeedsMT'
  BY DEF P2!TouchNeedsMT, TouchNeedsMT, P2!TouchAt, TouchAt, P2!InContact, InContact, P2!Slots, Slots,
         P2!Probed, Probed, P2!figure_out_events_device_reports, figure_out_events_device_reports,
         P2!SyncNames, SyncNames
<1>8. P2!StepShares /\ TouchNeedsMT'
  BY <1>1, <1>2, <1>5, <1>6, <1>7, P2!NextShares, SameTypes, CommandsAssumption, BoundsAssumption,
     KeyCodesAssumption, DevicesAssumption
<1>9. /\ slot' \in {0, 1}
      /\ "BTN_TOUCH" \in keys' /\ ~keyed' =>
           Second!DropsButton' \/ ("BTN_TOUCH" \in keys /\ ~keyed /\ ~Second!DropsButton)
      /\ "BTN_TOUCH" \in seen'.keys /\ ~keyedSeen' =>
           \/ Second!ReportsDrop'
           \/ "BTN_TOUCH" \in seen.keys /\ ~keyedSeen /\ ~Second!ReportsDrop
           \/ "BTN_TOUCH" \in keys /\ ~keyed /\ ~Second!DropsButton
      /\ InContact(abs', slot') =>
           Second!LiftsContact' \/ (InContact(abs, slot) /\ ~Second!LiftsContact)
      /\ InContact(seen'.abs, slot') =>
           \/ Second!ReportsLift'
           \/ InContact(seen.abs, slot) /\ ~Second!ReportsLift
           \/ InContact(abs, slot) /\ ~Second!LiftsContact
      /\ \A s \in Slots \ {0, slot'} :
           TouchAt(s)' =>
             /\ TouchAt(s)
             /\ Second!SelectsLast' \/ (s # slot /\ (~Second!SelectsLast \/ slot' = 1))
  BY <1>3, <1>8, SameState
     DEF Same, P2!StepShares, P2!InContact, InContact, P2!TouchAt, TouchAt, P2!Slots, Slots
<1>10. SomeoneLifts'
  <2>0. (DropsButton => ReportsDrop) /\ (LiftsContact => ReportsLift)
    BY ReportsWhatItLifts DEF SharedInv
  <2>1. "BTN_TOUCH" \in keys' /\ ~keyed' => DropsButton' \/ Second!DropsButton'
    BY <1>6, <1>9, FirstWaits DEF SomeoneLifts
  <2>2. "BTN_TOUCH" \in seen'.keys /\ ~keyedSeen' => ReportsDrop' \/ Second!ReportsDrop'
    BY <1>6, <1>9, <2>0, FirstWaits DEF SomeoneLifts
  <2>3. InContact(abs', slot') => LiftsContact' \/ Second!LiftsContact'
    BY <1>6, <1>9, FirstWaits DEF SomeoneLifts, InContact
  <2>4. InContact(seen'.abs, slot') => ReportsLift' \/ Second!ReportsLift'
    BY <1>6, <1>9, <2>0, FirstWaits DEF SomeoneLifts, InContact
  <2>5. QED
    BY <2>1, <2>2, <2>3, <2>4 DEF SomeoneLifts, InContact
<1>11. SomeoneReturns'
  <2> SUFFICES ASSUME NEW s \in Slots \ {0, slot'}, TouchAt(s)'
               PROVE  s = 1 /\ (SelectsLast' \/ Second!SelectsLast')
    BY <1>2 DEF SomeoneReturns, Slots
  <2>1. TouchAt(s) /\ (Second!SelectsLast' \/ (s # slot /\ (~Second!SelectsLast \/ slot' = 1)))
    BY <1>9
  <2>2. s = 1
    BY <1>6, <2>1 DEF SomeoneReturns
  <2>3. QED
    BY <1>6, <2>1, <2>2, FirstWaits DEF SomeoneReturns
<1>12. QED
  BY <1>8, <1>9, <1>10, <1>11

---------------------------------------------------------------------------
(* The theorems.                                                           *)

\* Neither has touched anything at first.
LEMMA BothStart == BothInit => SharedInv
<1> SUFFICES ASSUME BothInit PROVE SharedInv
  OBVIOUS
<1>1. Init /\ P2!Init
  BY SameInit DEF BothInit
<1>2. TypeOK /\ Control
  BY <1>1, InitTypeOK
<1>3. Second!TypeOK /\ Second!Control
  BY <1>1, P2!InitTypeOK, SameState, SameTypes, CommandsAssumption, BoundsAssumption,
     KeyCodesAssumption, DevicesAssumption DEF Same
<1>4. stage = "exited" /\ stage2 = "exited"
  BY DEF BothInit, Init, Second!Init
<1>5. Known /\ Second!Known
  BY <1>4 DEF Known, Second!Known, Primitives, Second!Primitives
<1>6. AllUp
  BY <1>1, <1>4, InitTouch, UpBetweenGestures DEF Fingered
<1>7. slot = 0 /\ slot \in Slots
  BY <1>1, <1>2 DEF Init, DeviceInit, TypeOK, DeviceTypeOK
<1>8. TouchNeedsMT /\ SomeoneLifts /\ SomeoneReturns
  BY <1>6, <1>7 DEF AllUp, TouchNeedsMT, SomeoneLifts, SomeoneReturns, TouchAt
<1>9. QED
  BY <1>2, <1>3, <1>5, <1>7, <1>8 DEF SharedInv

\* Whatever a gesture has put down, one of the two processes has yet to lift it: for every
\* device, every pair of scripts and every mixture of their events.
THEOREM SharedInductive == BothSpec => []SharedInv
<1>1. SharedInv /\ [BothNext]_<<vars, own2>> => SharedInv'
  <2> SUFFICES ASSUME SharedInv, [BothNext]_<<vars, own2>> PROVE SharedInv'
    OBVIOUS
  <2>1. CASE [Next]_vars /\ UNCHANGED own2
    BY <2>1, FirstStep
  <2>2. CASE Second!Next /\ UNCHANGED own
    BY <2>2, SecondStep
  <2>3. QED
    BY <2>1, <2>2 DEF BothNext
<1>2. QED
  BY <1>1, BothStart, PTL DEF BothSpec

\* At rest neither has anything left to do.
LEMMA AtRest ==
  ASSUME SharedInv, BothAtRest
  PROVE  /\ slot \in {0, 1} /\ SomeoneLifts /\ SomeoneReturns
         /\ ~DropsButton /\ ~ReportsDrop /\ ~LiftsContact /\ ~ReportsLift /\ ~SelectsLast
         /\ ~Second!DropsButton /\ ~Second!ReportsDrop /\ ~Second!LiftsContact
         /\ ~Second!ReportsLift /\ ~Second!SelectsLast
<1>1. stage \notin Fingered /\ stage2 \notin Second!Fingered
  BY DEF BothAtRest, Fingered, Primitives, Second!Fingered
<1>2. ~DropsButton /\ ~ReportsDrop /\ ~LiftsContact /\ ~ReportsLift /\ ~SelectsLast
  BY <1>1, NothingToDo
<1>3. /\ ~Second!DropsButton /\ ~Second!ReportsDrop /\ ~Second!LiftsContact
      /\ ~Second!ReportsLift /\ ~Second!SelectsLast
  BY <1>1 DEF Second!DropsButton, Second!ReportsDrop, Second!LiftsContact, Second!ReportsLift,
              Second!SelectsLast, Second!Before
<1>4. QED
  BY <1>2, <1>3 DEF SharedInv, BothAtRest

\* When both are between commands no gesture has left the button down, for the kernel or
\* for the readers: it is up, or was last written by a keydown (execute_keydown).
THEOREM ButtonIsShared == BothSpec => []SharedButtonReleased
<1>1. SharedInv => SharedButtonReleased
  <2> SUFFICES ASSUME SharedInv, BothAtRest
               PROVE  ("BTN_TOUCH" \in keys => keyed) /\ ("BTN_TOUCH" \in seen.keys => keyedSeen)
    BY DEF SharedButtonReleased
  <2>1. QED
    BY AtRest DEF SomeoneLifts
<1>2. QED
  BY <1>1, SharedInductive, PTL

\* Then no contact is left either, as long as the first slot is selected.
THEOREM ContactsAreShared == BothSpec => []SharedContactsReleased
<1>1. SharedInv => SharedContactsReleased
  <2> SUFFICES ASSUME SharedInv, BothAtRest, slot = 0, NEW s \in Slots
               PROVE  ~InContact(abs, s) /\ ~InContact(seen.abs, s)
    BY DEF SharedContactsReleased
  <2>1. CASE s = 0
    BY <2>1, AtRest DEF SomeoneLifts
  <2>2. CASE s # 0
    BY <2>2, AtRest DEF SomeoneReturns, TouchAt
  <2>3. QED
    BY <2>1, <2>2
<1>2. QED
  BY <1>1, SharedInductive, PTL

\* And whatever the two have played, what a pinch strands it strands in the first slot.
THEOREM LastSlotIsShared == BothSpec => []LastSlotReleased
<1>1. SharedInv => LastSlotReleased
  <2> SUFFICES ASSUME SharedInv, BothAtRest, NEW s \in Slots \ {0}
               PROVE  ~InContact(abs, s) /\ ~InContact(seen.abs, s)
    BY DEF LastSlotReleased
  <2>1. CASE s = slot
    BY <2>1, AtRest DEF SomeoneLifts
  <2>2. CASE s # slot
    BY <2>2, AtRest DEF SomeoneReturns, TouchAt
  <2>3. QED
    BY <2>1, <2>2
<1>2. QED
  BY <1>1, SharedInductive, PTL

===========================================================================
