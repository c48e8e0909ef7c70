-------------------------- MODULE OrngPath_proofs --------------------------
(***************************************************************************)
(* Proofs about a gesture that nothing disturbs, for every device, script  *)
(* and bound: what each event changes, the inductive invariant of          *)
(* OrngPath, and what the readers see by the end of the gesture.  With it  *)
(* orng keeps the promise of Touchscreen as long as nothing fails: what    *)
(* they see is determined by where the script has got to, and each report  *)
(* is a step of one finger.                                                *)
(***************************************************************************)
EXTENDS OrngPath, Orng_proofs

---------------------------------------------------------------------------
(* The events of the primitive being executed, in terms of the gesture.    *)

\* Where the primitive takes its finger.
Dest == IF stage = "press" THEN cmd.from[finger]
        ELSE Waypoint(cmd.from[finger], cmd.to[finger], cmd.n, iter)

BodyLength == CASE stage = "press" -> PressLength(flags)
                [] stage = "move"  -> MoveLength(flags)
                [] OTHER           -> ReleaseLength(flags)

\* The calls are the slot change of a pinch and the events of press, move or release.
LEMMA GesturePlan ==
  ASSUME TypeOK, Control, stage \in Fingered, "TOUCH" \in flags
  PROVE  /\ Prefix \in {0, 1} /\ BodyLength \in Nat
         /\ Len(Calls) = Prefix + BodyLength
         /\ \A j \in 1..Len(Calls) :
              \/ Prefix = 1 /\ j = 1 /\ Calls[j] = Ev("ABS_MT_SLOT", finger)
              \/ /\ j > Prefix
                 /\ stage = "press" => PressEvent(Calls[j], j - Prefix, flags, trackingId, Dest)
                 /\ stage = "move" => MoveEvent(Calls[j], j - Prefix, flags, Dest)
                 /\ stage = "release" => ReleaseEvent(Calls[j], j - Prefix, flags)
<1>1. /\ flags \in Classes /\ finger \in Finger /\ trackingId \in Nat /\ iter \in Int
      /\ cmd.from[finger] \in Int \X Int /\ cmd.to[finger] \in Int \X Int /\ cmd.n \in Int
  BY CommandTypes DEF CommandType, TypeOK
<1>2. /\ Len(Calls) = Prefix + Len(Body) /\ Len(Body) \in Nat /\ Prefix \in {0, 1}
      /\ \A j \in 1..Len(Calls) :
           Calls[j] = IF j <= Prefix THEN change_mt_slot(finger) ELSE Body[j - Prefix]
  BY CallsAt
<1>3. /\ Len(Body) = BodyLength
      /\ \A j \in 1..Len(Body) :
           /\ stage = "press" => PressEvent(Body[j], j, flags, trackingId, Dest)
           /\ stage = "move" => MoveEvent(Body[j], j, flags, Dest)
           /\ stage = "release" => ReleaseEvent(Body[j], j, flags)
  <2>1. CASE stage = "press"
    <3>1. Body = execute_press(flags, trackingId, Dest) /\ Dest \in Int \X Int
      BY <1>1, <2>1 DEF Body, Dest
    <3>2. QED
      BY <1>1, <2>1, <3>1, PressPlan DEF BodyLength
  <2>2. CASE stage = "move"
    <3>1. Body = execute_move(flags, Dest)
      BY <2>2 DEF Body, Dest
    <3>2. Dest \in Int \X Int
      <4>1. cmd.n > 0
        BY <2>2 DEF Control
      <4>2. QED
        BY <1>1, <2>2, <4>1, WaypointType DEF Dest
    <3>3. QED
      BY <1>1, <2>2, <3>1, <3>2, MovePlan DEF BodyLength
  <2>3. CASE stage = "release"
    <3>1. Body = execute_release(flags)
      BY <2>3 DEF Body
    <3>2. QED
      BY <1>1, <2>3, <3>1, ReleasePlan DEF BodyLength
  <2>4. QED
    BY <2>1, <2>2, <2>3 DEF Fingered
<1>4. ASSUME NEW j \in 1..Len(Calls)
      PROVE  \/ Prefix = 1 /\ j = 1 /\ Calls[j] = Ev("ABS_MT_SLOT", finger)
             \/ j > Prefix /\ j - Prefix \in 1..Len(Body) /\ Calls[j] = Body[j - Prefix]
  BY <1>2 DEF change_mt_slot
<1>5. QED
  BY <1>2, <1>3, <1>4

\* An event that no key or button is meant by leaves them alone; the button's does what
\* it says if the device has one.
LEMMA DeliverButton ==
  ASSUME NEW e, Deliver(e)
  PROVE  /\ e.code \in Codes => keys' = keys
         /\ e.code = "BTN_TOUCH" =>
              ("BTN_TOUCH" \in keys' <=> e.value # 0 /\ "BTN_TOUCH" \in dev.keys)
<1>1. CASE SetKey(e)
  BY <1>1 DEF SetKey
<1>2. CASE SelectSlot(e) \/ SetAxis(e) \/ Report(e)
  BY <1>2 DEF SelectSlot, SetAxis, Report, Codes, Axes, MTAxes
<1>3. QED
  BY <1>1, <1>2 DEF Deliver

\* The place of the point in the primitive.
PointAt == Prefix + (IF stage = "press" /\ "MT" \in flags THEN 2 ELSE 1)

\* How long a primitive is: the order of what it writes.
LEMMA GestureLength ==
  ASSUME TypeOK, Control, stage \in Fingered, "TOUCH" \in flags
  PROVE  /\ Prefix \in {0, 1} /\ Len(Calls) \in Nat /\ PointAt \in Nat /\ pos \in Nat \ {0}
         /\ stage = "press" => PointAt + 3 <= Len(Calls)
         /\ stage = "move" => PointAt + 2 <= Len(Calls)
         /\ Prefix + 2 <= Len(Calls)
         /\ "MT" \in flags /\ stage # "move" => Prefix + 3 <= Len(Calls)
         /\ PointAt = Prefix + 1 \/ PointAt = Prefix + 2
         /\ "MT" \in flags /\ stage = "press" => PointAt = Prefix + 2
         /\ ~("MT" \in flags /\ stage = "press") => PointAt = Prefix + 1
<1>1. /\ Len(Calls) = Prefix + BodyLength /\ Prefix \in {0, 1} /\ pos \in Nat \ {0}
  BY GesturePlan DEF TypeOK
<1>2. /\ stage = "press" => BodyLength = PressLength(flags)
      /\ stage = "move" => BodyLength = MoveLength(flags)
      /\ stage = "release" => BodyLength = ReleaseLength(flags)
  BY DEF BodyLength
<1>3. QED
  BY <1>1, <1>2 DEF PressLength, MoveLength, ReleaseLength, PointAt, Fingered

\* The next event, by its place.
NextKind(e) ==
  \/ Prefix = 1 /\ pos = 1 /\ e = Ev("ABS_MT_SLOT", finger)
  \/ /\ "MT" \in flags /\ stage # "move" /\ pos = Prefix + 1
     /\ e = Ev("ABS_MT_TRACKING_ID", IF stage = "press" THEN trackingId ELSE -1)
  \/ stage # "release" /\ pos = PointAt /\ e = Ev(XAxis(flags), Dest[1])
  \/ stage # "release" /\ pos = PointAt + 1 /\ e = Ev(YAxis(flags), Dest[2])
  \/ /\ pos < Len(Calls) /\ (stage # "move" => pos < Len(Calls) - 1)
     /\ IF stage # "release" THEN pos > PointAt + 1 ELSE pos > Prefix + 1
     /\ e.code \in Silent
  \/ stage # "move" /\ pos = Len(Calls) - 1 /\ e = Ev("BTN_TOUCH", IF stage = "press" THEN 1 ELSE 0)
  \/ pos = Len(Calls) /\ e = Ev("SYN_REPORT", 0)

\* Every event of a gesture on a touchscreen is one of these.
LEMMA NextKinds ==
  ASSUME TypeOK, Control, stage \in Fingered, "TOUCH" \in flags, pos \in 1..Len(Calls)
  PROVE  NextKind(Calls[pos])
<1> DEFINE e == Calls[pos]
           j == pos - Prefix
<1>1. /\ Len(Calls) = Prefix + BodyLength /\ Prefix \in {0, 1} /\ pos \in Nat /\ BodyLength \in Nat
      /\ \/ Prefix = 1 /\ pos = 1 /\ e = Ev("ABS_MT_SLOT", finger)
         \/ /\ pos > Prefix
            /\ stage = "press" => PressEvent(e, j, flags, trackingId, Dest)
            /\ stage = "move" => MoveEvent(e, j, flags, Dest)
            /\ stage = "release" => ReleaseEvent(e, j, flags)
  BY GesturePlan DEF TypeOK
<1>2. SUFFICES ASSUME /\ pos > Prefix
                      /\ stage = "press" => PressEvent(e, j, flags, trackingId, Dest)
                      /\ stage = "move" => MoveEvent(e, j, flags, Dest)
                      /\ stage = "release" => ReleaseEvent(e, j, flags)
               PROVE  NextKind(e)
  BY <1>1 DEF NextKind
<1>3. CASE stage = "press"
  <2>1. BodyLength = PressLength(flags) /\ PointAt = Prefix + PressPoint(flags)
    BY <1>3 DEF BodyLength, PointAt, PressPoint
  <2>2. PressEvent(e, j, flags, trackingId, Dest) /\ PressPoint(flags) \in Nat
    BY <1>2, <1>3 DEF PressPoint
  <2>3. CASE "MT" \in flags /\ j = 1 /\ e = Ev("ABS_MT_TRACKING_ID", trackingId)
    BY <1>1, <1>3, <2>3 DEF NextKind
  <2>4. CASE j = PressPoint(flags) /\ e = Ev(XAxis(flags), Dest[1])
    BY <1>1, <1>3, <2>1, <2>2, <2>4 DEF NextKind
  <2>5. CASE j = PressPoint(flags) + 1 /\ e = Ev(YAxis(flags), Dest[2])
    BY <1>1, <1>3, <2>1, <2>2, <2>5 DEF NextKind
  <2>6. CASE PressPoint(flags) + 1 < j /\ j < BodyLength - 1 /\ e.code \in Silent
    <3>1. pos < Len(Calls) /\ pos < Len(Calls) - 1 /\ pos > PointAt + 1
      BY <1>1, <2>1, <2>2, <2>6, SMTT(30)
    <3>2. QED
      BY <1>3, <2>6, <3>1 DEF NextKind
  <2>7. CASE j = BodyLength - 1 /\ e = Ev("BTN_TOUCH", 1)
    BY <1>1, <1>3, <2>7 DEF NextKind
  <2>8. CASE j = BodyLength /\ e = Ev("SYN_REPORT", 0)
    BY <1>1, <1>3, <2>8 DEF NextKind
  <2>9. QED
    BY <2>1, <2>2, <2>3, <2>4, <2>5, <2>6, <2>7, <2>8 DEF PressEvent
<1>4. CASE stage = "move"
  <2>1. BodyLength = MoveLength(flags) /\ PointAt = Prefix + 1
    BY <1>4 DEF BodyLength, PointAt
  <2>2. MoveEvent(e, j, flags, Dest)
    BY <1>2, <1>4
  <2>3. QED
    BY <1>1, <1>4, <2>1, <2>2 DEF MoveEvent, NextKind
<1>5. CASE stage = "release"
  <2>1. BodyLength = ReleaseLength(flags)
    BY <1>5 DEF BodyLength
  <2>2. ReleaseEvent(e, j, flags)
    BY <1>2, <1>5
  <2>3. CASE "MT" \in flags /\ 1 < j /\ j < BodyLength - 1 /\ e.code \in Silent
    <3>1. pos < Len(Calls) /\ pos < Len(Calls) - 1 /\ pos > Prefix + 1
      BY <1>1, <2>3
    <3>2. QED
      BY <1>5, <2>3, <3>1 DEF NextKind
  <2>4. CASE "MT" \in flags /\ j = 1 /\ e = Ev("ABS_MT_TRACKING_ID", -1)
    BY <1>1, <1>5, <2>4 DEF NextKind
  <2>5. CASE j = BodyLength - 1 /\ e = Ev("BTN_TOUCH", 0)
    BY <1>1, <1>5, <2>5 DEF NextKind
  <2>6. CASE j = BodyLength /\ e = Ev("SYN_REPORT", 0)
    BY <1>1, <1>5, <2>6 DEF NextKind
  <2>7. QED
    BY <2>1, <2>2, <2>3, <2>4, <2>5, <2>6 DEF ReleaseEvent
<1>6. QED
  BY <1>3, <1>4, <1>5 DEF Fingered

\* A touchscreen announces the axes that it is classified by.
LEMMA ProbedAxes ==
  ASSUME flags = Probed, "TOUCH" \in flags
  PROVE  /\ XAxis(flags) \in dev.abs \cap Axes /\ YAxis(flags) \in dev.abs \cap Axes
         /\ "MT" \notin flags => "BTN_TOUCH" \in dev.keys
         /\ XAxis(flags) # YAxis(flags)
         /\ "ABS_MT_TRACKING_ID" \notin {XAxis(flags), YAxis(flags)} \cup Silent
         /\ Silent \cap {XAxis(flags), YAxis(flags)} = {}
<1>1. CASE "MT" \in flags
  <2>1. {"ABS_MT_POSITION_X", "ABS_MT_POSITION_Y"} \subseteq dev.abs
    BY <1>1 DEF Probed, figure_out_events_device_reports
  <2>2. XAxis(flags) = "ABS_MT_POSITION_X" /\ YAxis(flags) = "ABS_MT_POSITION_Y"
    BY <1>1 DEF XAxis, YAxis
  <2>3. QED
    BY <1>1, <2>1, <2>2 DEF Axes, MTAxes, Silent
<1>2. CASE "MT" \notin flags
  <2>1. "BTN_TOUCH" \in dev.keys /\ {"ABS_X", "ABS_Y"} \subseteq dev.abs
    BY <1>2 DEF Probed, figure_out_events_device_reports
  <2>2. XAxis(flags) = "ABS_X" /\ YAxis(flags) = "ABS_Y"
    BY <1>2 DEF XAxis, YAxis
  <2>3. QED
    BY <2>1, <2>2 DEF Axes, MTAxes, Silent
<1>3. QED
  BY <1>1, <1>2

\* An axis event changes one axis of one slot.
LEMMA DeliverAxis ==
  ASSUME DeviceTypeOK, NEW e, Deliver(e), e.code \in Axes, e.code \in dev.abs
  PROVE  \A s \in Slots, a \in Axes :
           abs'[s][a] = IF s = slot /\ a = e.code THEN e.value ELSE abs[s][a]
BY DeliverIs DEF DeviceTypeOK

\* What is between a press and its release that the next event writes in finger f's slot.
ContactEvent(s) ==
  /\ "MT" \in flags /\ stage # "move" /\ pos = Prefix + 1
  /\ "ABS_MT_TRACKING_ID" \in dev.abs /\ s = Target(finger)
PointEvent(s, k) == stage # "release" /\ pos = PointAt + k - 1 /\ s = Target(finger)
ButtonEvent == stage # "move" /\ pos = Len(Calls) - 1

\* What writing an event of a gesture changes, of all that the properties speak of.
LEMMA WriteEffect ==
  ASSUME TypeOK, Control, TypeOK', write_event, stage \in Fingered, "TOUCH" \in flags,
         flags = Probed, SlotChosen
  PROVE  /\ \A s \in Slots :
              /\ Contact(s)' = IF ContactEvent(s)
                               THEN IF stage = "press" THEN trackingId ELSE -1
                               ELSE Contact(s)
              /\ abs'[s][XAxis(flags)] = IF PointEvent(s, 1) THEN Dest[1] ELSE abs[s][XAxis(flags)]
              /\ abs'[s][YAxis(flags)] = IF PointEvent(s, 2) THEN Dest[2] ELSE abs[s][YAxis(flags)]
         /\ "BTN_TOUCH" \in keys' <=> IF ButtonEvent THEN stage = "press" /\ "BTN_TOUCH" \in dev.keys
                                                     ELSE "BTN_TOUCH" \in keys
         /\ seen' = IF pos = Len(Calls) THEN [abs |-> abs, keys |-> keys] ELSE seen
         /\ pos = Len(Calls) => abs' = abs /\ keys' = keys
<1> DEFINE e == Calls[pos]
<1> DEFINE X == XAxis(flags)
           Y == YAxis(flags)
           T == "ABS_MT_TRACKING_ID"
<1>1. /\ pos \in 1..Len(Calls) /\ Deliver(e) /\ Slots' = Slots
      /\ NextKind(e)
  BY WriteFrame, NextKinds
<1>2. /\ Prefix \in {0, 1} /\ Len(Calls) \in Nat /\ PointAt \in Nat /\ pos \in Nat \ {0}
      /\ stage = "press" => PointAt + 3 <= Len(Calls)
      /\ stage = "move" => PointAt + 2 <= Len(Calls)
      /\ Prefix + 2 <= Len(Calls)
      /\ "MT" \in flags /\ stage # "move" => Prefix + 3 <= Len(Calls)
      /\ "MT" \in flags /\ stage = "press" => PointAt = Prefix + 2
      /\ PointAt >= Prefix + 1
  BY GestureLength
<1>3. /\ X \in dev.abs \cap Axes /\ Y \in dev.abs \cap Axes /\ X # Y
      /\ T \notin {X, Y} \cup Silent /\ Silent \cap {X, Y} = {}
      /\ T \in Axes /\ "ABS_MT_SLOT" \notin Axes /\ "SYN_REPORT" \notin Axes /\ "BTN_TOUCH" \notin Axes
      /\ Axes \cup {"ABS_MT_SLOT", "SYN_REPORT"} \subseteq Codes /\ Silent \subseteq Codes
      /\ "SYN_REPORT" \notin Silent /\ "BTN_TOUCH" \notin Silent
  BY ProbedAxes DEF Axes, MTAxes, Codes, Silent
<1>4. stage \in Fingered /\ pos > Prefix => slot = Target(finger)
  <2>1. CASE cmd.op = "pinch"
    BY <1>2, <2>1 DEF SlotChosen, Prefix
  <2>2. CASE cmd.op # "pinch"
    BY <2>2 DEF Target
  <2>3. QED
    BY <2>1, <2>2
<1>5. ASSUME NEW a \in Axes, NEW s \in Slots, e.code = a, a \in dev.abs
      PROVE  \A c \in Axes : abs'[s][c] = IF s = slot /\ c = a THEN e.value ELSE abs[s][c]
  BY <1>1, <1>5, DeliverAxis, SMTT(30) DEF TypeOK
<1>6. /\ e.code \notin dev.abs \/ e.code \notin Axes => abs' = abs
      /\ e.code \in Codes => keys' = keys
      /\ e.code # "SYN_REPORT" => seen' = seen
      /\ e.code = "SYN_REPORT" => seen' = [abs |-> abs, keys |-> keys]
  BY <1>1, DeliverIs, DeliverButton
<1> DEFINE Effect(s) ==
              /\ abs'[s][T] = IF ContactEvent(s) THEN IF stage = "press" THEN trackingId ELSE -1
                                                 ELSE abs[s][T]
              /\ abs'[s][X] = IF PointEvent(s, 1) THEN Dest[1] ELSE abs[s][X]
              /\ abs'[s][Y] = IF PointEvent(s, 2) THEN Dest[2] ELSE abs[s][Y]
           Rest ==
              /\ "BTN_TOUCH" \in keys' <=> IF ButtonEvent THEN stage = "press" /\ "BTN_TOUCH" \in dev.keys
                                                     ELSE "BTN_TOUCH" \in keys
              /\ seen' = IF pos = Len(Calls) THEN [abs |-> abs, keys |-> keys] ELSE seen
              /\ pos = Len(Calls) => abs' = abs /\ keys' = keys
<1>7. (\A s \in Slots : Effect(s)) /\ Rest
  <2>1. CASE Prefix = 1 /\ pos = 1 /\ e = Ev("ABS_MT_SLOT", finger)
    <3>1. e.code = "ABS_MT_SLOT"
      BY <2>1 DEF Ev
    <3>2. abs' = abs /\ keys' = keys /\ seen' = seen
      BY <1>3, <1>6, <3>1
    <3>3. pos # Len(Calls) /\ ~ButtonEvent
      <4>1. PICK n \in Nat : n = Len(Calls) /\ n >= 3
        BY <1>2, <2>1
      <4>2. QED
        BY <2>1, <4>1 DEF ButtonEvent
    <3>4. \A s : ~ContactEvent(s) /\ ~PointEvent(s, 1) /\ ~PointEvent(s, 2)
      BY <1>2, <2>1 DEF ContactEvent, PointEvent
    <3>5. QED
      BY <3>2, <3>3, <3>4
  <2>2. CASE /\ "MT" \in flags /\ stage # "move" /\ pos = Prefix + 1
             /\ e = Ev(T, IF stage = "press" THEN trackingId ELSE -1)
    <3>1. e.code = T /\ e.value = IF stage = "press" THEN trackingId ELSE -1
      BY <2>2 DEF Ev
    <3>2. keys' = keys /\ seen' = seen
      BY <1>3, <1>6, <3>1
    <3>3. /\ pos # Len(Calls) /\ ~ButtonEvent
          /\ \A s : ~PointEvent(s, 1) /\ ~PointEvent(s, 2)
          /\ \A s : ContactEvent(s) <=> T \in dev.abs /\ s = slot
      <4>1. slot = Target(finger)
        BY <1>2, <1>4, <2>2
      <4>2. QED
        BY <1>2, <2>2, <4>1 DEF ButtonEvent, ContactEvent, PointEvent, Fingered
    <3>4. CASE T \in dev.abs
      BY <1>3, <1>5, <3>1, <3>2, <3>3, <3>4
    <3>5. CASE T \notin dev.abs
      BY <1>6, <3>1, <3>2, <3>3, <3>5
    <3>6. QED
      BY <3>4, <3>5
  <2>3. CASE stage # "release" /\ pos = PointAt /\ e = Ev(X, Dest[1])
    <3>1. e.code = X /\ e.value = Dest[1]
      BY <2>3 DEF Ev
    <3>2. keys' = keys /\ seen' = seen
      BY <1>3, <1>6, <3>1
    <3>3. /\ pos # Len(Calls) /\ ~ButtonEvent
          /\ \A s : ~ContactEvent(s) /\ ~PointEvent(s, 2)
          /\ \A s : PointEvent(s, 1) <=> s = slot
      <4>1. slot = Target(finger)
        BY <1>2, <1>4, <2>3
      <4>2. QED
        BY <1>2, <2>3, <4>1 DEF ButtonEvent, ContactEvent, PointEvent, Fingered
    <3>4. QED
      BY <1>3, <1>5, <3>1, <3>2, <3>3
  <2>4. CASE stage # "release" /\ pos = PointAt + 1 /\ e = Ev(Y, Dest[2])
    <3>1. e.code = Y /\ e.value = Dest[2]
      BY <2>4 DEF Ev
    <3>2. keys' = keys /\ seen' = seen
      BY <1>3, <1>6, <3>1
    <3>3. /\ pos # Len(Calls) /\ ~ButtonEvent
          /\ \A s : ~ContactEvent(s) /\ ~PointEvent(s, 1)
          /\ \A s : PointEvent(s, 2) <=> s = slot
      <4>1. slot = Target(finger)
        BY <1>2, <1>4, <2>4
      <4>2. QED
        BY <1>2, <2>4, <4>1 DEF ButtonEvent, ContactEvent, PointEvent, Fingered
    <3>4. QED
      BY <1>3, <1>5, <3>1, <3>2, <3>3
  <2>5. CASE /\ pos < Len(Calls) /\ (stage # "move" => pos < Len(Calls) - 1)
             /\ IF stage # "release" THEN pos > PointAt + 1 ELSE pos > Prefix + 1
             /\ e.code \in Silent
    <3>1. keys' = keys /\ seen' = seen
      BY <1>3, <1>6, <2>5
    <3>2. /\ pos # Len(Calls) /\ ~ButtonEvent
          /\ \A s : ~ContactEvent(s) /\ ~PointEvent(s, 1) /\ ~PointEvent(s, 2)
      BY <1>2, <2>5 DEF ButtonEvent, ContactEvent, PointEvent, Fingered
    <3>3. \A s \in Slots : abs'[s][T] = abs[s][T] /\ abs'[s][X] = abs[s][X] /\ abs'[s][Y] = abs[s][Y]
      <4>1. CASE e.code \in Axes \cap dev.abs
        BY <1>3, <1>5, <2>5, <4>1
      <4>2. CASE e.code \notin Axes \cap dev.abs
        BY <1>6, <4>2
      <4>3. QED
        BY <4>1, <4>2
    <3>4. QED
      BY <3>1, <3>2, <3>3
  <2>6. CASE /\ stage # "move" /\ pos = Len(Calls) - 1
             /\ e = Ev("BTN_TOUCH", IF stage = "press" THEN 1 ELSE 0)
    <3>1. e.code = "BTN_TOUCH" /\ e.value = IF stage = "press" THEN 1 ELSE 0
      BY <2>6 DEF Ev
    <3>2. /\ abs' = abs /\ seen' = seen
          /\ "BTN_TOUCH" \in keys' <=> stage = "press" /\ "BTN_TOUCH" \in dev.keys
      BY <1>1, <1>3, <1>6, <3>1, DeliverButton
    <3>3. /\ pos # Len(Calls) /\ ButtonEvent
          /\ \A s : ~ContactEvent(s) /\ ~PointEvent(s, 1) /\ ~PointEvent(s, 2)
      BY <1>2, <2>6 DEF ButtonEvent, ContactEvent, PointEvent, Fingered
    <3>4. QED
      BY <3>2, <3>3
  <2>7. CASE pos = Len(Calls) /\ e = Ev("SYN_REPORT", 0)
    <3>1. e.code = "SYN_REPORT"
      BY <2>7 DEF Ev
    <3>2. abs' = abs /\ keys' = keys /\ seen' = [abs |-> abs, keys |-> keys]
      BY <1>3, <1>6, <3>1
    <3>3. /\ ~ButtonEvent
          /\ \A s : ~ContactEvent(s) /\ ~PointEvent(s, 1) /\ ~PointEvent(s, 2)
      BY <1>2, <2>7 DEF ButtonEvent, ContactEvent, PointEvent, Fingered
    <3>4. QED
      BY <2>7, <3>2, <3>3
  <2>8. QED
    BY <1>1, <2>1, <2>2, <2>3, <2>4, <2>5, <2>6, <2>7 DEF NextKind
<1>8. QED
  BY <1>1, <1>7 DEF Contact

---------------------------------------------------------------------------
(* Writing an event of a gesture keeps the invariant.                      *)

\* How many calls a primitive of a gesture makes.
LEMMA LengthIs ==
  TypeOK /\ Control /\ stage \in Fingered /\ "TOUCH" \in flags => Len(Calls) = Prefix + BodyLength
BY GesturePlan

\* The length of a primitive depends on the device and the stage alone.
LEMMA LengthKept ==
  ASSUME TypeOK, Control, TypeOK', Control', stage \in Fingered, "TOUCH" \in flags,
         UNCHANGED <<flags, stage>>, Prefix' = Prefix
  PROVE  Len(Calls)' = Len(Calls)
<1>1. Len(Calls) = Prefix + BodyLength
  BY LengthIs
<1>2. (TypeOK /\ Control /\ stage \in Fingered /\ "TOUCH" \in flags)' =>
        (Len(Calls) = Prefix + BodyLength)'
  BY LengthIs, PTL
<1>3. BodyLength' = BodyLength
  BY DEF BodyLength
<1>4. QED
  BY <1>1, <1>2, <1>3

\* Two fingers that are tracked apart have a slot each.
LEMMA TargetsApart ==
  ASSUME TypeOK, Apart, NEW f \in Fingers, NEW g \in Fingers, Target(f) = Target(g)
  PROVE  f = g
BY SlotFacts DEF Apart, Fingers, Finger, Target

\* All that is known when a gesture goes on: what the event changes, and the arithmetic
\* of its place in the primitive.
Going ==
  /\ TypeOK /\ Control /\ IndInv /\ PathInv
  /\ write_event /\ stage \in Fingered /\ Sound
  /\ UNCHANGED <<flags, cmd, stage, finger, iter, ok, faults, runs>> /\ pos' = pos + 1
  /\ dev' = dev /\ Slots' = Slots /\ Prefix' = Prefix /\ Len(Calls)' = Len(Calls)
  /\ Probed' = Probed /\ Apart' = Apart /\ Fingers' = Fingers /\ Fingers \subseteq Finger
  /\ \A f \in Finger : Target(f)' = Target(f) /\ Target(f) \in Slots
  /\ finger \in Fingers

\* A gesture that has no fault before or after its next event goes on.
LEMMA GoingOn ==
  ASSUME IndInv, IndInv', PathInv, write_event, stage \in Fingered, Sound \/ Sound'
  PROVE  Going
<1>1. TypeOK /\ Control /\ TypeOK' /\ Control'
  BY DEF IndInv
<1>2. /\ UNCHANGED <<flags, cmd, stage, finger, iter, ok, faults, runs>> /\ pos' = pos + 1
      /\ dev' = dev /\ Slots' = Slots /\ Prefix' = Prefix /\ Fingers' = Fingers
      /\ \A f \in Finger : Target(f)' = Target(f)
  BY <1>1, WriteFrame
<1>3. Probed' = Probed /\ Apart' = Apart
  BY <1>2 DEF Probed, Apart
<1>4. Sound
  BY <1>2, <1>3 DEF Sound, TouchedBy
<1>5. Len(Calls)' = Len(Calls)
  BY <1>1, <1>2, <1>4, LengthKept DEF Sound
<1>6. Fingers \subseteq Finger /\ finger \in Fingers
  BY <1>1 DEF Fingers, Finger, Control, TypeOK
<1>7. \A f \in Finger : Target(f) \in Slots
  BY <1>1, SlotFacts
<1>8. QED
  BY <1>1, <1>2, <1>3, <1>4, <1>5, <1>6, <1>7 DEF Going

\* What the event of a gesture that goes on changes, for its fingers.
LEMMA GoingEffect ==
  ASSUME Going, TypeOK'
  PROVE  /\ \A s \in Slots :
              /\ Contact(s)' = IF ContactEvent(s)
                               THEN IF stage = "press" THEN trackingId ELSE -1
                               ELSE Contact(s)
              /\ abs'[s][XAxis(flags)] = IF PointEvent(s, 1) THEN Dest[1] ELSE abs[s][XAxis(flags)]
              /\ abs'[s][YAxis(flags)] = IF PointEvent(s, 2) THEN Dest[2] ELSE abs[s][YAxis(flags)]
         /\ "BTN_TOUCH" \in keys' <=> IF ButtonEvent THEN stage = "press" /\ "BTN_TOUCH" \in dev.keys
                                                     ELSE "BTN_TOUCH" \in keys
         /\ seen' = IF pos = Len(Calls) THEN [abs |-> abs, keys |-> keys] ELSE seen
         /\ pos = Len(Calls) => abs' = abs /\ keys' = keys
         /\ Prefix \in {0, 1} /\ Len(Calls) \in Nat /\ PointAt \in Nat /\ pos \in Nat \ {0}
         /\ pos <= Len(Calls)
         /\ stage = "press" => PointAt + 3 <= Len(Calls)
         /\ stage = "move" => PointAt + 2 <= Len(Calls)
         /\ Prefix + 2 <= Len(Calls)
         /\ "MT" \in flags /\ stage # "move" => Prefix + 3 <= Len(Calls)
         /\ PointAt >= Prefix + 1
         /\ stage \in {"press", "move", "release"} /\ finger \in {0, 1} /\ finger \in Fingers
         /\ Fingers \subseteq {0, 1}
<1>1. /\ TypeOK /\ Control /\ write_event /\ stage \in Fingered /\ "TOUCH" \in flags /\ flags = Probed
      /\ ok /\ PathInv /\ finger \in Fingers /\ Fingers \subseteq {0, 1}
  BY DEF Going, Sound, Finger
<1>2. SlotChosen
  BY <1>1 DEF PathInv
<1>3. pos \in 1..Len(Calls)
  BY <1>1, WriteFrame
<1>4. pos <= Len(Calls)
  BY <1>1, <1>3, GestureLength
<1>5. stage \in {"press", "move", "release"} /\ finger \in {0, 1}
  BY <1>1 DEF Fingered
<1>6. QED
  BY <1>1, <1>2, <1>4, <1>5, WriteEffect, GestureLength

\* The contacts that a gesture has made are there after its next event.
LEMMA WriteContactsMade == ASSUME Going, TypeOK' PROVE ContactsMade'
<1> SUFFICES ASSUME "MT" \in flags, "ABS_MT_TRACKING_ID" \in dev.abs, NEW f \in Fingers,
                    \/ stage = "press" /\ Tracked(f)'
                    \/ stage = "move"
                    \/ stage = "release" /\ ~Tracked(f)' /\ Apart
             PROVE  Contact(Target(f))' # -1
  BY DEF Going, ContactsMade, InContact, Contact
<1> DEFINE s == Target(f)
<1>1. s \in Slots /\ s' = s /\ trackingId \in Nat \ {0} /\ TypeOK /\ Sound /\ ContactsMade /\ f \in {0, 1}
  BY DEF Going, TypeOK, PathInv, Finger
<1>2. /\ Contact(s)' = IF ContactEvent(s) THEN IF stage = "press" THEN trackingId ELSE -1
                                          ELSE Contact(s)
      /\ Prefix \in {0, 1} /\ pos \in Nat \ {0} /\ finger \in {0, 1} /\ finger \in Fingers
  BY <1>1, GoingEffect DEF Contact
<1>3. Tracked(f)' <=> f < finger \/ (f = finger /\ pos + 1 > Prefix + 1)
  BY DEF Going, Tracked, Past
<1>4. CASE ContactEvent(s)
  <2>1. stage # "release"
    <3> SUFFICES ASSUME stage = "release" PROVE FALSE
      OBVIOUS
    <3>1. ~Tracked(f)' /\ Apart /\ s = Target(finger) /\ pos = Prefix + 1
      BY <1>4 DEF ContactEvent
    <3>2. f = finger
      BY <1>1, <1>2, <3>1, TargetsApart
    <3>3. QED
      BY <1>2, <1>3, <3>1, <3>2
  <2>2. stage # "move"
    BY <1>4 DEF ContactEvent
  <2>3. QED
    BY <1>1, <1>2, <1>4, <2>1, <2>2
<1>5. CASE ~ContactEvent(s)
  <2>1. Contact(s)' = Contact(s)
    BY <1>2, <1>5
  <2>2. stage = "press" => Tracked(f)
    BY <1>1, <1>2, <1>3, <1>5 DEF ContactEvent, Tracked, Past
  <2>3. stage = "release" => ~Tracked(f)
    BY <1>1, <1>2, <1>3 DEF Tracked, Past
  <2>4. InContact(abs, s)
    BY <1>1, <2>2, <2>3 DEF ContactsMade
  <2>5. QED
    BY <2>1, <2>4 DEF InContact, Contact
<1>6. QED
  BY <1>4, <1>5

\* So are those that it has lifted.
LEMMA WriteContactsLifted == ASSUME Going, TypeOK', Unharmed' PROVE ContactsLifted'
<1> SUFFICES ASSUME "MT" \in flags, NEW f \in Fingers, stage = "release", Tracked(f)'
             PROVE  Contact(Target(f))' = -1
  BY DEF Going, ContactsLifted, InContact, Contact, Fingered
<1> DEFINE s == Target(f)
<1>1. s \in Slots /\ s' = s /\ s \in Slots' /\ Sound /\ ContactsLifted /\ f \in {0, 1} /\ dev' = dev
  BY DEF Going, PathInv, Finger
<1>2. /\ Contact(s)' = IF ContactEvent(s) THEN -1 ELSE Contact(s)
      /\ Prefix \in {0, 1} /\ pos \in Nat \ {0} /\ finger \in {0, 1}
  BY <1>1, GoingEffect DEF Contact
<1>3. Tracked(f)' <=> f < finger \/ (f = finger /\ pos + 1 > Prefix + 1)
  BY DEF Going, Tracked, Past
<1>4. CASE "ABS_MT_TRACKING_ID" \notin dev.abs
  BY <1>1, <1>4 DEF Unharmed, InContact, Contact
<1>5. CASE "ABS_MT_TRACKING_ID" \in dev.abs /\ ~ContactEvent(s)
  <2>1. Tracked(f)
    BY <1>1, <1>2, <1>3, <1>5 DEF ContactEvent, Tracked, Past
  <2>2. QED
    BY <1>1, <1>2, <1>5, <2>1 DEF ContactsLifted, InContact, Contact
<1>6. CASE ContactEvent(s)
  BY <1>2, <1>6
<1>7. QED
  BY <1>4, <1>5, <1>6

\* The button is where the gesture has put it.
LEMMA WriteButton == ASSUME Going, TypeOK' PROVE ButtonWritten'
<1>1. /\ flags = Probed /\ "TOUCH" \in flags /\ Sound /\ ButtonWritten
  BY DEF Going, Sound, PathInv
<1>2. "MT" \notin flags => "BTN_TOUCH" \in dev.keys
  BY <1>1, ProbedAxes
<1>3. PICK n \in Nat : n = Len(Calls)
  BY GoingEffect
<1>4. /\ "BTN_TOUCH" \in keys' <=> IF stage # "move" /\ pos = n - 1
                                   THEN stage = "press" /\ "BTN_TOUCH" \in dev.keys
                                   ELSE "BTN_TOUCH" \in keys
      /\ pos \in Nat /\ pos <= n /\ stage \in {"press", "move", "release"}
  BY <1>3, GoingEffect DEF ButtonEvent
<1>5. \/ stage = "press" /\ pos + 1 >= n
      \/ stage = "move"
      \/ stage = "release" /\ pos + 1 < n /\ Apart
      => "BTN_TOUCH" \in keys' \/ "MT" \in flags
  BY <1>1, <1>2, <1>3, <1>4 DEF ButtonWritten
<1>6. stage = "release" /\ pos + 1 >= n => "BTN_TOUCH" \notin keys'
  BY <1>1, <1>3, <1>4 DEF ButtonWritten
<1>7. stage' = stage /\ pos' = pos + 1 /\ Len(Calls)' = n /\ Apart' = Apart /\ flags' = flags
  BY <1>3 DEF Going
<1>8. QED
  BY <1>4, <1>5, <1>6, <1>7 DEF ButtonWritten

\* What has not been pressed is not down.
LEMMA WriteNotYetDown == ASSUME Going, TypeOK' PROVE NotYetDown'
<1> SUFFICES ASSUME faults = 0, Apart, stage = "press", NEW f \in Fingers
             PROVE  /\ "MT" \in flags /\ ~Tracked(f)' => Contact(Target(f))' = -1
                    /\ "MT" \in flags /\ ~Reported(f)' => ~InContact(seen.abs, Target(f))'
                    /\ "MT" \notin flags /\ ~Reported(f)' => "BTN_TOUCH" \notin seen'.keys
  BY DEF Going, NotYetDown, InContact, Contact
<1> DEFINE s == Target(f)
<1>1. /\ s \in Slots /\ s' = s /\ Sound /\ NotYetDown /\ f \in {0, 1} /\ TypeOK
      /\ pos' = pos + 1 /\ finger' = finger /\ Prefix' = Prefix
  BY DEF Going, PathInv, Finger
<1>2. PICK n \in Nat : n = Len(Calls) /\ n = Len(Calls)'
  BY GoingEffect DEF Going
<1>3. /\ ~ContactEvent(s) => Contact(s)' = Contact(s)
      /\ "BTN_TOUCH" \in keys' <=> IF ButtonEvent THEN "BTN_TOUCH" \in dev.keys
                                                  ELSE "BTN_TOUCH" \in keys
      /\ seen' = IF pos = n THEN [abs |-> abs, keys |-> keys] ELSE seen
      /\ Prefix \in {0, 1} /\ pos \in Nat \ {0} /\ pos <= n /\ finger \in {0, 1} /\ finger \in Fingers
      /\ Prefix + 2 <= n
  BY <1>1, <1>2, GoingEffect
<1>4. /\ Tracked(f)' <=> f < finger \/ (f = finger /\ pos + 1 > Prefix + 1)
      /\ Tracked(f) <=> f < finger \/ (f = finger /\ pos > Prefix + 1)
      /\ Reported(f)' <=> f < finger \/ (f = finger /\ pos + 1 > n)
      /\ Reported(f) <=> f < finger \/ (f = finger /\ pos > n)
  BY <1>1, <1>2 DEF Tracked, Reported, Past
<1>5. /\ "MT" \in flags /\ ~Tracked(f) => ~InContact(abs, s)
      /\ "MT" \in flags /\ ~Reported(f) => ~InContact(seen.abs, s)
      /\ "MT" \notin flags /\ ~Reported(f) => "BTN_TOUCH" \notin seen.keys
  BY <1>1, <1>2 DEF NotYetDown
<1>6. ASSUME "MT" \in flags, ~Tracked(f)' PROVE Contact(s)' = -1
  <2>1. ~Tracked(f)
    BY <1>1, <1>3, <1>4, <1>6
  <2>2. ~ContactEvent(s)
    <3>1. s = Target(finger) => f = finger
      BY <1>1, <1>3, TargetsApart
    <3>2. QED
      BY <1>3, <1>4, <1>6, <3>1 DEF ContactEvent
  <2>3. QED
    BY <1>3, <1>5, <1>6, <2>1, <2>2 DEF InContact, Contact
<1>7. ASSUME "MT" \in flags, ~Reported(f)' PROVE ~InContact(seen.abs, s)'
  <2>1. CASE pos = n
    <3>1. f > finger
      BY <1>1, <1>3, <1>4, <1>7, <2>1
    <3>2. ~InContact(abs, s) /\ seen'.abs = abs
      BY <1>1, <1>3, <1>4, <1>5, <1>7, <2>1, <3>1
    <3>3. QED
      BY <1>1, <3>2 DEF InContact
  <2>2. CASE pos # n
    <3>1. ~Reported(f) /\ seen' = seen
      BY <1>1, <1>3, <1>4, <1>7, <2>2
    <3>2. QED
      BY <1>1, <1>5, <1>7, <3>1 DEF InContact
  <2>3. QED
    BY <2>1, <2>2
<1>8. ASSUME "MT" \notin flags, ~Reported(f)' PROVE "BTN_TOUCH" \notin seen'.keys
  <2>1. Fingers = {0}
    BY <1>8 DEF Apart, Fingers
  <2>2. ~Reported(f) /\ pos # n
    BY <1>1, <1>3, <1>4, <1>8, <2>1
  <2>3. QED
    BY <1>3, <1>5, <1>8, <2>2
<1>9. QED
  BY <1>1, <1>2, <1>6, <1>7, <1>8

\* The readers see the fingers that the gesture has put down.
LEMMA WriteSeenDown == ASSUME Going, TypeOK' PROVE SeenDown'
<1> SUFFICES ASSUME Playable, NEW f \in Fingers,
                    \/ stage = "press" /\ Reported(f)'
                    \/ stage = "move"
                    \/ stage = "release" /\ ~Reported(f)'
             PROVE  IF "MT" \in flags THEN InContact(seen'.abs, Target(f)) ELSE "BTN_TOUCH" \in seen'.keys
  BY DEF Going, SeenDown, Shown, InContact, Playable, Finger, Apart
<1>1. /\ Sound /\ SeenDown /\ ContactsMade /\ ButtonWritten /\ f \in {0, 1} /\ TypeOK
      /\ pos' = pos + 1 /\ finger' = finger
      /\ Apart /\ ("MT" \in flags => "ABS_MT_TRACKING_ID" \in dev.abs)
  BY DEF Going, PathInv, Finger, Playable
<1>2. PICK n \in Nat : n = Len(Calls) /\ n = Len(Calls)'
  BY GoingEffect DEF Going
<1>3. /\ seen' = IF pos = n THEN [abs |-> abs, keys |-> keys] ELSE seen
      /\ Prefix \in {0, 1} /\ pos \in Nat \ {0} /\ pos <= n /\ finger \in {0, 1}
      /\ Prefix + 2 <= n /\ ("MT" \in flags /\ stage # "move" => Prefix + 3 <= n)
  BY <1>2, GoingEffect
<1>4. /\ Tracked(f) <=> f < finger \/ (f = finger /\ pos > Prefix + 1)
      /\ Reported(f)' <=> f < finger \/ (f = finger /\ pos + 1 > n)
      /\ Reported(f) <=> f < finger \/ (f = finger /\ pos > n)
  BY <1>1, <1>2 DEF Tracked, Reported, Past
<1>5. CASE pos # n
  <2>1. seen' = seen /\ (Reported(f)' <=> Reported(f))
    BY <1>1, <1>3, <1>4, <1>5
  <2>2. QED
    BY <1>1, <2>1 DEF SeenDown, Shown
<1>6. CASE pos = n
  <2>1. seen'.abs = abs /\ seen'.keys = keys
    BY <1>3, <1>6
  <2>2. CASE "MT" \in flags
    <3>1. /\ stage = "press" => Tracked(f)
          /\ stage = "release" => ~Tracked(f)
      BY <1>1, <1>3, <1>4, <1>6, <2>2
    <3>2. InContact(abs, Target(f))
      BY <1>1, <2>2, <3>1 DEF ContactsMade
    <3>3. QED
      BY <2>1, <2>2, <3>2
  <2>3. CASE "MT" \notin flags
    <3>1. f = 0 /\ finger = 0
      <4>1. Fingers = {0}
        BY <1>1, <2>3 DEF Apart, Fingers
      <4>2. QED
        BY <4>1, GoingEffect
    <3>2. stage # "release"
      BY <1>3, <1>4, <1>6, <3>1
    <3>3. "BTN_TOUCH" \in keys
      BY <1>1, <1>2, <1>3, <1>6, <2>3, <3>2 DEF ButtonWritten
    <3>4. QED
      BY <2>1, <2>3, <3>3
  <2>4. QED
    BY <2>2, <2>3
<1>7. QED
  BY <1>5, <1>6

\* After the m-th step a finger is at a point.
LEMMA AfterType ==
  ASSUME TypeOK, NEW f \in Finger, NEW m \in Int, m > 0 => cmd.n > 0
  PROVE  After(f, m) = <<After(f, m)[1], After(f, m)[2]>>
<1>1. cmd.from[f] \in Int \X Int
  BY CommandTypes DEF CommandType
<1>2. m <= 0 \/ m > 0
  OBVIOUS
<1>3. QED
  BY <1>1, <1>2 DEF After, Waypoint

\* The primitive takes its finger one step further, or to its start.
LEMMA DestIs ==
  ASSUME TypeOK, Counted, stage \in {"press", "move"}
  PROVE  Dest = After(finger, (IF cmd.op = "tap" THEN 0 ELSE iter) + (IF stage = "move" THEN 1 ELSE 0))
<1>1. iter \in Nat
  BY DEF TypeOK
<1>2. CASE stage = "press"
  BY <1>1, <1>2 DEF Dest, After, Counted, Fingered
<1>3. CASE stage = "move"
  <2>1. cmd.op # "tap"
    BY <1>3 DEF Counted, Fingered
  <2>2. After(finger, iter + 1) = Waypoint(cmd.from[finger], cmd.to[finger], cmd.n, iter)
    BY <1>1 DEF After
  <2>3. (IF cmd.op = "tap" THEN 0 ELSE iter) + (IF stage = "move" THEN 1 ELSE 0) = iter + 1
    BY <1>1, <1>3, <2>1
  <2>4. Dest = Waypoint(cmd.from[finger], cmd.to[finger], cmd.n, iter)
    BY <1>3 DEF Dest
  <2>5. QED
    BY <2>2, <2>3, <2>4
<1>4. QED
  BY <1>2, <1>3

\* In the kernel each coordinate of each finger is where the gesture has got to.
LEMMA WriteKernelPath == ASSUME Going, TypeOK' PROVE OnKernelPath'
<1> SUFFICES ASSUME Apart, NEW f \in Fingers, NEW k \in {1, 2}, Placed(f, Written(k))'
             PROVE  Place(abs, Target(f))'[k] = After(f, MovesBy(f, Written(k)))'[k]
  <2>1. Fingers' = Fingers /\ Apart' = Apart
    BY DEF Going
  <2>2. QED
    BY <2>1 DEF OnKernelPath, Placed
<1> DEFINE s == Target(f)
           step == IF cmd.op = "tap" THEN 0 ELSE iter
           new == f < finger \/ (f = finger /\ pos + 1 > PointAt + k - 1)
           old == f < finger \/ (f = finger /\ pos > PointAt + k - 1)
           axis == IF k = 1 THEN XAxis(flags) ELSE YAxis(flags)
<1>1. /\ TypeOK /\ Sound /\ OnKernelPath /\ Counted /\ s \in Slots /\ f \in {0, 1} /\ stage \in Fingered
      /\ s' = s /\ flags' = flags /\ stage' = stage /\ cmd' = cmd /\ iter' = iter
      /\ finger' = finger /\ pos' = pos + 1 /\ Prefix' = Prefix
  BY DEF Going, PathInv, Finger
<1>2. /\ Prefix \in {0, 1} /\ pos \in Nat \ {0} /\ finger \in {0, 1} /\ finger \in Fingers
      /\ PointAt \in Nat /\ stage \in {"press", "move", "release"}
      /\ abs'[s][axis] = IF PointEvent(s, k) THEN Dest[k] ELSE abs[s][axis]
  BY <1>1, GoingEffect
<1>3. PointAt + k - 1 = Prefix + k + (IF stage = "press" /\ "MT" \in flags THEN 1 ELSE 0)
  BY <1>2 DEF PointAt
<1>4. /\ (stage = "press" => new)
      /\ MovesBy(f, Written(k))' = step + (IF stage = "move" /\ new THEN 1 ELSE 0)
      /\ MovesBy(f, Written(k)) = step + (IF stage = "move" /\ old THEN 1 ELSE 0)
      /\ Placed(f, Written(k)) <=> (stage = "press" => old)
  BY <1>1, <1>3 DEF Placed, MovesBy, Written, Past
<1>5. /\ Place(abs, Target(f))'[k] = abs'[s][axis]
      /\ Place(abs, Target(f))[k] = abs[s][axis]
      /\ After(f, MovesBy(f, Written(k)))' = After(f, MovesBy(f, Written(k))')
  BY <1>1 DEF Place, After
<1>6. CASE PointEvent(s, k)
  <2>1. stage # "release" /\ f = finger /\ new
    <3>1. stage # "release" /\ pos = PointAt + k - 1 /\ s = Target(finger)
      BY <1>6 DEF PointEvent
    <3>2. f = finger
      BY <1>1, <1>2, <3>1, TargetsApart
    <3>3. QED
      BY <1>2, <3>1, <3>2
  <2>2. MovesBy(f, Written(k))' = step + (IF stage = "move" THEN 1 ELSE 0)
    BY <1>4, <2>1
  <2>3. Dest = After(finger, step + (IF stage = "move" THEN 1 ELSE 0))
    BY <1>1, <1>2, <2>1, DestIs
  <2>4. QED
    BY <1>2, <1>5, <1>6, <2>1, <2>2, <2>3
<1>7. CASE ~PointEvent(s, k)
  <2>1. stage # "release" => (new <=> old)
    BY <1>1, <1>2, <1>7 DEF PointEvent
  <2>2. /\ MovesBy(f, Written(k))' = MovesBy(f, Written(k))
        /\ Placed(f, Written(k))
    BY <1>4, <2>1
  <2>3. Place(abs, Target(f))[k] = After(f, MovesBy(f, Written(k)))[k]
    BY <1>1, <2>2 DEF OnKernelPath
  <2>4. QED
    BY <1>2, <1>5, <1>7, <2>2, <2>3
<1>8. QED
  BY <1>6, <1>7

\* The readers see each finger where the last report has left it.
LEMMA WriteSeenPath == ASSUME Going, TypeOK' PROVE OnSeenPath'
<1> SUFFICES ASSUME Apart, NEW f \in Fingers, Placed(f, pos > Len(Calls))'
             PROVE  Place(seen.abs, Target(f))' = After(f, MovesBy(f, pos > Len(Calls)))'
  <2>1. Fingers' = Fingers /\ Apart' = Apart
    BY DEF Going
  <2>2. QED
    BY <2>1 DEF OnSeenPath, Placed
<1> DEFINE s == Target(f)
           step == IF cmd.op = "tap" THEN 0 ELSE iter
           new == f < finger \/ (f = finger /\ pos + 1 > Len(Calls))
           old == f < finger \/ (f = finger /\ pos > Len(Calls))
<1>1. /\ TypeOK /\ Control /\ Sound /\ OnKernelPath /\ OnSeenPath /\ stage \in Fingered /\ Counted
      /\ f \in {0, 1} /\ f \in Finger
      /\ s' = s /\ flags' = flags /\ stage' = stage /\ cmd' = cmd /\ iter' = iter
      /\ finger' = finger /\ pos' = pos + 1 /\ Prefix' = Prefix /\ Len(Calls)' = Len(Calls)
  BY DEF Going, PathInv, Finger
<1>2. /\ Prefix \in {0, 1} /\ pos \in Nat \ {0} /\ finger \in {0, 1} /\ Len(Calls) \in Nat
      /\ pos <= Len(Calls) /\ PointAt \in Nat
      /\ stage = "press" => PointAt + 3 <= Len(Calls)
      /\ stage = "move" => PointAt + 2 <= Len(Calls)
      /\ stage \in {"press", "move", "release"}
      /\ seen' = IF pos = Len(Calls) THEN [abs |-> abs, keys |-> keys] ELSE seen
  BY GoingEffect
<1>3. /\ (stage = "press" => new)
      /\ MovesBy(f, pos > Len(Calls))' = step + (IF stage = "move" /\ new THEN 1 ELSE 0)
      /\ MovesBy(f, pos > Len(Calls)) = step + (IF stage = "move" /\ old THEN 1 ELSE 0)
      /\ Placed(f, pos > Len(Calls)) <=> (stage = "press" => old)
  BY <1>1 DEF Placed, MovesBy, Past
<1>4. /\ Place(seen.abs, Target(f))' = <<seen'.abs[s][XAxis(flags)], seen'.abs[s][YAxis(flags)]>>
      /\ After(f, MovesBy(f, pos > Len(Calls)))' = After(f, MovesBy(f, pos > Len(Calls))')
  BY <1>1 DEF Place, After
<1>5. CASE pos # Len(Calls)
  <2>1. (new <=> old) /\ seen' = seen
    BY <1>1, <1>2, <1>5
  <2>2. Placed(f, pos > Len(Calls)) /\ MovesBy(f, pos > Len(Calls))' = MovesBy(f, pos > Len(Calls))
    BY <1>3, <2>1
  <2>3. Place(seen.abs, Target(f)) = After(f, MovesBy(f, pos > Len(Calls)))
    BY <1>1, <2>2 DEF OnSeenPath
  <2>4. QED
    BY <1>4, <2>1, <2>2, <2>3 DEF Place
<1>6. CASE pos = Len(Calls)
  <2> DEFINE m == step + (IF stage = "move" /\ new THEN 1 ELSE 0)
  <2>1. \A k \in {1, 2} :
          LET done_k == f < finger \/ (f = finger /\ pos > PointAt + k - 1)
          IN  stage # "release" => (done_k <=> new)
    BY <1>1, <1>2, <1>6
  <2>2. \A k \in {1, 2} :
          PointAt + k - 1 = Prefix + k + (IF stage = "press" /\ "MT" \in flags THEN 1 ELSE 0)
    BY <1>2 DEF PointAt
  <2>3. \A k \in {1, 2} : Placed(f, Written(k)) /\ MovesBy(f, Written(k)) = m
    BY <1>3, <2>1, <2>2 DEF Placed, MovesBy, Written, Past
  <2>4. \A k \in {1, 2} : Place(abs, Target(f))[k] = After(f, m)[k]
    BY <1>1, <2>3 DEF OnKernelPath
  <2>5. After(f, m) = <<After(f, m)[1], After(f, m)[2]>>
    <3>1. m \in Int /\ (m > 0 => cmd.n > 0)
      <4>1. iter \in Nat /\ cmd.n \in Int
        BY <1>1, CommandTypes DEF TypeOK, CommandType
      <4>2. step > 0 => cmd.n > 0
        BY <1>1, <1>2, <4>1 DEF Counted
      <4>3. stage = "move" => cmd.n > 0
        BY <1>1 DEF Control
      <4>4. QED
        BY <4>1, <4>2, <4>3
    <3>2. QED
      BY <1>1, <3>1, AfterType
  <2>6. seen'.abs = abs
    BY <1>2, <1>6
  <2>7. QED
    BY <1>3, <1>4, <2>4, <2>5, <2>6 DEF Place
<1>7. QED
  BY <1>5, <1>6

\* After its last event the readers know all that a primitive has written.
LEMMA WriteAllReported == ASSUME Going, TypeOK' PROVE AllReported'
<1>1. PICK n \in Nat : n = Len(Calls) /\ n = Len(Calls)'
  BY GoingEffect DEF Going
<1>2. /\ seen' = IF pos = n THEN [abs |-> abs, keys |-> keys] ELSE seen
      /\ pos = n => abs' = abs /\ keys' = keys
      /\ pos \in Nat /\ pos <= n /\ stage \in {"press", "move", "release"}
  BY <1>1, GoingEffect
<1>3. stage' = stage /\ pos' = pos + 1
  BY DEF Going
<1>4. pos' > n => pos = n
  BY <1>2, <1>3
<1>5. QED
  BY <1>1, <1>2, <1>3, <1>4 DEF AllReported

\* A device without tracking ids still has no contact, and the run is as it was.
LEMMA WriteUnharmed == ASSUME IndInv, IndInv', PathInv, write_event PROVE Unharmed'
<1>1. /\ UNCHANGED <<flags, stage, ok, faults>> /\ dev' = dev /\ Slots' = Slots
      /\ Deliver(Calls[pos]) /\ Unharmed
  BY WriteFrame DEF IndInv, PathInv
<1>2. Probed' = Probed
  BY <1>1 DEF Probed
<1>3. ASSUME "ABS_MT_TRACKING_ID" \notin dev.abs, NEW s \in Slots
      PROVE  ~InContact(abs, s)' /\ ~InContact(seen.abs, s)'
  <2>1. ~InContact(abs, s) /\ ~InContact(seen.abs, s)
    BY <1>1, <1>3 DEF Unharmed
  <2>2. Contact(s)' = Contact(s)
    <3>1. CASE Calls[pos].code \in Axes /\ Calls[pos].code \in dev.abs
      BY <1>1, <1>3, <3>1, DeliverAxis DEF IndInv, TypeOK, Contact, Axes, MTAxes
    <3>2. CASE ~(Calls[pos].code \in Axes /\ Calls[pos].code \in dev.abs)
      BY <1>1, <3>2, DeliverIs DEF Contact
    <3>3. QED
      BY <3>1, <3>2
  <2>3. seen' = seen \/ seen' = [abs |-> abs, keys |-> keys]
    BY <1>1, DeliverIs
  <2>4. QED
    BY <2>1, <2>2, <2>3 DEF InContact, Contact
<1>4. QED
  BY <1>1, <1>2, <1>3 DEF Unharmed

\* The readers never see the button without a contact: what reports it has made one.
LEMMA WriteButtonHasContact ==
  ASSUME IndInv, IndInv', PathInv, write_event
  PROVE  ButtonHasContact'
<1> SUFFICES ASSUME faults = 0, "MT" \in flags, "ABS_MT_TRACKING_ID" \in dev.abs,
                    "BTN_TOUCH" \in seen'.keys
             PROVE  \E s \in Slots : InContact(seen'.abs, s)
  BY WriteFrame DEF IndInv, ButtonHasContact, InContact
<1>1. /\ Deliver(Calls[pos]) /\ stage \in Primitives /\ Touch /\ PathInv /\ TypeOK /\ Control /\ TypeOK'
  BY WriteFrame DEF IndInv
<1>2. CASE seen' = seen
  BY <1>1, <1>2 DEF PathInv, ButtonHasContact
<1>3. CASE seen' = [abs |-> abs, keys |-> keys] /\ seen' # seen
  <2>0. stage \in Fingered /\ "TOUCH" \in flags
    <3>1. Calls[pos].code = "SYN_REPORT" /\ pos \in 1..Len(Calls)
      BY <1>1, <1>3, WriteFrame, DeliverIs
    <3>2. QED
      BY <1>1, <3>1, NextEventIs
  <2>1. /\ stage \in Fingered /\ "TOUCH" \in flags /\ (stage = "release" => pos < Len(Calls))
    BY <1>1, <1>3, <2>0 DEF Touch, ButtonHeld
  <2>2. Sound
    BY <1>1, <2>1 DEF Sound, PathInv, Unharmed, Counted
  <2>3. Going
    BY <1>1, <2>1, <2>2, GoingOn
  <2>4. PICK n \in Nat : n = Len(Calls)
    BY <1>1, <2>3, GoingEffect
  <2>5. /\ pos = n /\ Prefix \in {0, 1} /\ finger \in Fingers /\ finger \in {0, 1}
        /\ stage \in {"press", "move", "release"}
        /\ "MT" \in flags /\ stage # "move" => Prefix + 3 <= n
    BY <1>1, <1>3, <2>3, <2>4, GoingEffect
  <2>6. stage = "move" \/ (stage = "press" /\ Tracked(finger))
    BY <2>1, <2>4, <2>5 DEF Tracked, Past
  <2>7. InContact(abs, Target(finger)) /\ Target(finger) \in Slots
    BY <1>1, <2>2, <2>3, <2>5, <2>6 DEF PathInv, ContactsMade, Going, Finger
  <2>8. QED
    BY <1>3, <2>7 DEF InContact
<1>4. QED
  BY <1>1, <1>2, <1>3, DeliverIs

\* What the invariant says of all states, and what it says of gestures.
Always  == Unharmed /\ Counted /\ (ok => SlotChosen) /\ ButtonHasContact
Gesture == /\ ContactsMade /\ ContactsLifted /\ ButtonWritten /\ NotYetDown /\ SeenDown
           /\ OnKernelPath /\ OnSeenPath /\ AllReported

\* The two together are the invariant.
LEMMA PathInvIs == PathInv <=> Always /\ Gesture
BY DEF PathInv, Always, Gesture

\* Where no gesture is played, nothing is said of one.
LEMMA NoGesture == ~Sound \/ stage \in {"exited", "dead"} => Gesture
BY DEF Gesture, ContactsMade, ContactsLifted, ButtonWritten, NotYetDown, SeenDown,
       OnKernelPath, OnSeenPath, AllReported, Fingered

\* Writing an event keeps the invariant.
LEMMA WritePath == ASSUME IndInv, IndInv', PathInv, write_event PROVE PathInv'
<1>1. /\ UNCHANGED <<flags, cmd, stage, finger, iter, ok, faults>> /\ stage \in Primitives
      /\ TypeOK /\ Control /\ TypeOK' /\ Always
  BY WriteFrame, PathInvIs DEF IndInv
<1>2. Counted'
  BY <1>1 DEF Always, Counted, TouchedBy
<1>3. ok' => SlotChosen'
  BY <1>1, WriteSlot DEF Always
<1>4. Always'
  BY <1>2, <1>3, WriteUnharmed, WriteButtonHasContact DEF Always
<1>5. CASE stage \in Fingered /\ Sound'
  <2>1. Going
    BY <1>5, GoingOn
  <2>2. Unharmed'
    BY <1>4 DEF Always
  <2>3. /\ ContactsMade' /\ ContactsLifted' /\ ButtonWritten' /\ NotYetDown' /\ SeenDown'
        /\ OnKernelPath' /\ OnSeenPath' /\ AllReported'
    BY <1>1, <2>1, <2>2, WriteContactsMade, WriteContactsLifted, WriteButton, WriteNotYetDown,
       WriteSeenDown, WriteKernelPath, WriteSeenPath, WriteAllReported
  <2>4. QED
    BY <1>4, <2>3 DEF PathInv, Always
<1>6. CASE ~(stage \in Fingered /\ Sound')
  <2>1. ~Sound'
    BY <1>1, <1>6 DEF Sound, Always, Counted, TouchedBy
  <2>2. (~Sound \/ stage \in {"exited", "dead"} => Gesture)'
    BY NoGesture, PTL
  <2>3. Gesture'
    BY <2>1, <2>2
  <2>4. (PathInv <=> Always /\ Gesture)'
    BY PathInvIs, PTL
  <2>5. QED
    BY <1>4, <2>3, <2>4
<1>7. QED
  BY <1>5, <1>6

---------------------------------------------------------------------------
(* From one primitive of a gesture to the next.                            *)

\* The steps that a finger has been taken when those below g have had theirs.
StepsTo(st, f, g, it) ==
  (IF cmd.op = "tap" THEN 0 ELSE it) + (IF st = "move" /\ f < g THEN 1 ELSE 0)

\* Between two primitives: the fingers below g have done st, in its it-th round.
Settled(st, g, it) ==
  /\ "MT" \in flags /\ "ABS_MT_TRACKING_ID" \in dev.abs =>
       \A f \in Fingers :
         (st = "press" /\ f < g) \/ st = "move" \/ (st = "release" /\ ~(f < g) /\ Apart)
         => InContact(abs, Target(f))
  /\ "MT" \in flags /\ st = "release" => \A f \in Fingers : f < g => ~InContact(abs, Target(f))
  /\ (st = "press" /\ 0 < g) \/ st = "move" \/ (st = "release" /\ ~(0 < g) /\ Apart) =>
       "BTN_TOUCH" \in keys \/ "MT" \in flags
  /\ st = "release" /\ 0 < g => "BTN_TOUCH" \notin keys
  /\ faults = 0 /\ Apart /\ st = "press" =>
       \A f \in Fingers : ~(f < g) =>
         IF "MT" \in flags THEN ~InContact(abs, Target(f)) /\ ~InContact(seen.abs, Target(f))
         ELSE "BTN_TOUCH" \notin seen.keys
  /\ Playable =>
       \A f \in Fingers :
         (st = "press" /\ f < g) \/ st = "move" \/ (st = "release" /\ ~(f < g)) => Shown(f)
  /\ Apart =>
       \A f \in Fingers : (st = "press" => f < g) =>
         /\ Place(seen.abs, Target(f)) = After(f, StepsTo(st, f, g, it))
         /\ \A k \in {1, 2} : Place(abs, Target(f))[k] = After(f, StepsTo(st, f, g, it))[k]

\* At the first event of a primitive, all it says of itself is of the fingers before.
LEMMA AtFirst ==
  ASSUME TypeOK, Control, stage \in Fingered, "TOUCH" \in flags, pos = 1, NEW f \in Finger
  PROVE  /\ Tracked(f) <=> f < finger
         /\ Reported(f) <=> f < finger
         /\ \A k \in {1, 2} : Past(f, Written(k)) <=> f < finger
         /\ Past(f, pos > Len(Calls)) <=> f < finger
         /\ pos < Len(Calls) /\ ~(pos > Len(Calls))
<1>1. Prefix \in {0, 1} /\ Len(Calls) \in Nat /\ Prefix + 2 <= Len(Calls)
  BY GestureLength
<1>2. PICK n \in Nat : n = Len(Calls) /\ n >= 2
  BY <1>1
<1>3. \A k \in {1, 2} : ~Written(k)
  BY <1>1 DEF Written
<1>4. ~(pos > Prefix + 1) /\ ~(pos > n) /\ pos < n
  BY <1>1, <1>2
<1>5. f \in {0, 1} /\ finger \in {0, 1}
  BY DEF TypeOK, Finger
<1>6. QED
  BY <1>2, <1>3, <1>4, <1>5 DEF Tracked, Reported, Past

\* After its last event, it has taken its finger along.
LEMMA AtLast ==
  ASSUME TypeOK, Control, stage \in Fingered, "TOUCH" \in flags, pos > Len(Calls), NEW f \in Finger
  PROVE  /\ "MT" \in flags \/ stage # "release" => (Tracked(f) <=> f < finger + 1)
         /\ Reported(f) <=> f < finger + 1
         /\ stage # "release" => \A k \in {1, 2} : Past(f, Written(k)) <=> f < finger + 1
         /\ Past(f, pos > Len(Calls)) <=> f < finger + 1
         /\ pos >= Len(Calls) /\ ~(pos < Len(Calls))
<1>1. /\ Prefix \in {0, 1} /\ Len(Calls) \in Nat /\ PointAt \in Nat /\ pos \in Nat \ {0}
      /\ stage = "press" => PointAt + 3 <= Len(Calls)
      /\ stage = "move" => PointAt + 2 <= Len(Calls)
      /\ Prefix + 2 <= Len(Calls)
      /\ stage \in {"press", "move", "release"}
  BY GestureLength DEF Fingered
<1>2. PICK n \in Nat : n = Len(Calls)
  BY <1>1
<1>3. stage # "release" => \A k \in {1, 2} : Written(k)
  <2>1. \A k \in {1, 2} :
          PointAt + k - 1 = Prefix + k + (IF stage = "press" /\ "MT" \in flags THEN 1 ELSE 0)
    BY <1>1 DEF PointAt
  <2>2. stage # "release" => \A k \in {1, 2} : pos > PointAt + k - 1
    BY <1>1, <1>2
  <2>3. QED
    BY <2>1, <2>2 DEF Written
<1>4. pos > Prefix + 1 /\ pos > n /\ ~(pos < n) /\ pos >= n
  BY <1>1, <1>2
<1>5. f \in {0, 1} /\ finger \in {0, 1}
  BY DEF TypeOK, Finger
<1>6. f < finger + 1 <=> f < finger \/ f = finger
  BY <1>5
<1>7. QED
  BY <1>2, <1>3, <1>4, <1>5, <1>6 DEF Tracked, Reported, Past

\* The fingers of a gesture, and what is known of one that has a single contact.
LEMMA FingerFacts ==
  ASSUME TypeOK, Control
  PROVE  /\ Fingers \subseteq Finger /\ finger \in Fingers /\ finger \in {0, 1}
         /\ finger = 1 => cmd.op = "pinch"
         /\ "MT" \notin flags /\ Apart => Fingers = {0} /\ finger = 0
BY DEF TypeOK, Control, Fingers, Finger, Apart

\* What the previous primitives have settled is what the invariant asks at the first event.
LEMMA SettledFirst ==
  TypeOK /\ Control /\ Sound /\ stage \in Fingered /\ pos = 1 /\ Settled(stage, finger, iter)
    => Gesture
<1> SUFFICES ASSUME TypeOK, Control, Sound, stage \in Fingered, pos = 1, Settled(stage, finger, iter)
             PROVE  Gesture
  OBVIOUS
<1>1. "TOUCH" \in flags
  BY DEF Sound
<1>2. ASSUME NEW f \in Fingers
      PROVE  /\ Tracked(f) <=> f < finger
             /\ Reported(f) <=> f < finger
             /\ \A k \in {1, 2} : Past(f, Written(k)) <=> f < finger
             /\ Past(f, pos > Len(Calls)) <=> f < finger
  BY <1>1, AtFirst, FingerFacts
<1>3. pos < Len(Calls) /\ ~(pos > Len(Calls)) /\ ~(pos >= Len(Calls))
  <2>1. Len(Calls) \in Nat /\ Prefix + 2 <= Len(Calls) /\ Prefix \in {0, 1}
    BY <1>1, GestureLength
  <2>2. PICK n \in Nat : n = Len(Calls) /\ n >= 2
    BY <2>1
  <2>3. QED
    BY <2>2
<1>4. stage # "idle" /\ stage \in {"press", "move", "release"} /\ (stage \in Fingered)
  BY DEF Fingered
<1>5. ContactsMade
  BY <1>2 DEF ContactsMade, Settled
<1>6. ContactsLifted
  BY <1>2, <1>4 DEF ContactsLifted, Settled
<1>7. ButtonWritten
  <2>1. finger = 0 \/ (Apart => "MT" \in flags)
    BY FingerFacts
  <2>2. stage = "release" /\ Apart => "BTN_TOUCH" \in keys \/ "MT" \in flags
    BY <2>1, FingerFacts DEF Settled
  <2>3. stage = "move" => "BTN_TOUCH" \in keys \/ "MT" \in flags
    BY DEF Settled
  <2>4. QED
    BY <1>3, <1>4, <2>2, <2>3 DEF ButtonWritten
<1>8. NotYetDown
  <2> SUFFICES ASSUME faults = 0, Apart, stage = "press", NEW f \in Fingers
               PROVE  /\ "MT" \in flags /\ ~Tracked(f) => ~InContact(abs, Target(f))
                      /\ "MT" \in flags /\ ~Reported(f) => ~InContact(seen.abs, Target(f))
                      /\ "MT" \notin flags => "BTN_TOUCH" \notin seen.keys
    BY DEF NotYetDown
  <2>1. ~(f < finger) => IF "MT" \in flags THEN ~InContact(abs, Target(f)) /\ ~InContact(seen.abs, Target(f))
                         ELSE "BTN_TOUCH" \notin seen.keys
    BY DEF Settled
  <2>2. "MT" \notin flags => ~(f < finger)
    BY FingerFacts
  <2>3. QED
    BY <1>2, <2>1, <2>2
<1>9. SeenDown
  BY <1>2 DEF SeenDown, Settled
<1>10. ASSUME Apart, NEW f \in Fingers, stage = "press" => f < finger
       PROVE  /\ Place(seen.abs, Target(f)) = After(f, StepsTo(stage, f, finger, iter))
              /\ \A k \in {1, 2} : Place(abs, Target(f))[k] = After(f, StepsTo(stage, f, finger, iter))[k]
  BY <1>10 DEF Settled
<1>11. OnKernelPath
  <2> SUFFICES ASSUME Apart, NEW f \in Fingers, NEW k \in {1, 2}, Placed(f, Written(k))
               PROVE  Place(abs, Target(f))[k] = After(f, MovesBy(f, Written(k)))[k]
    BY DEF OnKernelPath
  <2>1. (stage = "press" => f < finger) /\ MovesBy(f, Written(k)) = StepsTo(stage, f, finger, iter)
    BY <1>2 DEF Placed, MovesBy, StepsTo
  <2>2. QED
    BY <1>10, <2>1
<1>12. OnSeenPath
  <2> SUFFICES ASSUME Apart, NEW f \in Fingers, Placed(f, pos > Len(Calls))
               PROVE  Place(seen.abs, Target(f)) = After(f, MovesBy(f, pos > Len(Calls)))
    BY DEF OnSeenPath
  <2>1. (stage = "press" => f < finger) /\ MovesBy(f, pos > Len(Calls)) = StepsTo(stage, f, finger, iter)
    BY <1>2 DEF Placed, MovesBy, StepsTo
  <2>2. QED
    BY <1>10, <2>1
<1>13. AllReported
  BY <1>3, <1>4 DEF AllReported
<1>14. QED
  BY <1>5, <1>6, <1>7, <1>8, <1>9, <1>11, <1>12, <1>13 DEF Gesture

\* A primitive that has written its last event has settled its finger.
LEMMA SettledLast ==
  ASSUME TypeOK, Control, Sound, stage \in Fingered, pos > Len(Calls), Gesture
  PROVE  Settled(stage, finger + 1, iter) /\ seen = [abs |-> abs, keys |-> keys]
<1>1. "TOUCH" \in flags /\ finger \in {0, 1} /\ stage \in {"press", "move", "release"}
  BY FingerFacts DEF Sound, Fingered
<1>2. ASSUME NEW f \in Fingers
      PROVE  /\ "MT" \in flags \/ stage # "release" => (Tracked(f) <=> f < finger + 1)
             /\ Reported(f) <=> f < finger + 1
             /\ stage # "release" => \A k \in {1, 2} : Past(f, Written(k)) <=> f < finger + 1
             /\ Past(f, pos > Len(Calls)) <=> f < finger + 1
  BY <1>1, AtLast, FingerFacts
<1>3. pos >= Len(Calls) /\ ~(pos < Len(Calls)) /\ 0 < finger + 1
  <2>1. finger \in Finger
    BY <1>1 DEF Finger
  <2>2. pos >= Len(Calls) /\ ~(pos < Len(Calls))
    BY <1>1, <2>1, AtLast
  <2>3. QED
    BY <1>1, <2>2
<1>4. "MT" \in flags /\ "ABS_MT_TRACKING_ID" \in dev.abs =>
        \A f \in Fingers :
          \/ stage = "press" /\ f < finger + 1
          \/ stage = "move"
          \/ stage = "release" /\ ~(f < finger + 1) /\ Apart
          => InContact(abs, Target(f))
  BY <1>2 DEF Gesture, ContactsMade
<1>5. "MT" \in flags /\ stage = "release" =>
        \A f \in Fingers : f < finger + 1 => ~InContact(abs, Target(f))
  BY <1>2 DEF Gesture, ContactsLifted
<1>6. /\ stage \in {"press", "move"} => "BTN_TOUCH" \in keys \/ "MT" \in flags
      /\ stage = "release" => "BTN_TOUCH" \notin keys
  BY <1>3 DEF Gesture, ButtonWritten
<1>7. faults = 0 /\ Apart /\ stage = "press" =>
        \A f \in Fingers : ~(f < finger + 1) =>
          IF "MT" \in flags THEN ~InContact(abs, Target(f)) /\ ~InContact(seen.abs, Target(f))
          ELSE "BTN_TOUCH" \notin keys /\ "BTN_TOUCH" \notin seen.keys
  <2> SUFFICES ASSUME faults = 0, Apart, stage = "press", NEW f \in Fingers, ~(f < finger + 1)
               PROVE  IF "MT" \in flags THEN ~InContact(abs, Target(f)) /\ ~InContact(seen.abs, Target(f))
                      ELSE "BTN_TOUCH" \notin keys /\ "BTN_TOUCH" \notin seen.keys
    OBVIOUS
  <2>1. "MT" \in flags
    <3>1. "MT" \notin flags => f = 0 /\ finger = 0
      BY FingerFacts
    <3>2. QED
      BY <3>1
  <2>2. ~Tracked(f) /\ ~Reported(f)
    BY <1>2, <2>1
  <2>3. QED
    BY <2>1, <2>2 DEF Gesture, NotYetDown
<1>8. Playable =>
        \A f \in Fingers :
          \/ stage = "press" /\ f < finger + 1
          \/ stage = "move"
          \/ stage = "release" /\ ~(f < finger + 1)
          => Shown(f)
  BY <1>2 DEF Gesture, SeenDown
<1>9. ASSUME Apart, NEW f \in Fingers, stage = "press" => f < finger + 1
      PROVE  /\ Place(seen.abs, Target(f)) = After(f, StepsTo(stage, f, finger + 1, iter))
             /\ \A k \in {1, 2} : Place(abs, Target(f))[k] = After(f, StepsTo(stage, f, finger + 1, iter))[k]
  <2>1. /\ Placed(f, pos > Len(Calls))
        /\ MovesBy(f, pos > Len(Calls)) = StepsTo(stage, f, finger + 1, iter)
    BY <1>2, <1>9 DEF Placed, MovesBy, StepsTo
  <2>2. Place(seen.abs, Target(f)) = After(f, MovesBy(f, pos > Len(Calls)))
    BY <1>9, <2>1 DEF Gesture, OnSeenPath
  <2>3. ASSUME NEW k \in {1, 2}
        PROVE  Place(abs, Target(f))[k] = After(f, StepsTo(stage, f, finger + 1, iter))[k]
    <3>1. Placed(f, Written(k)) /\ MovesBy(f, Written(k)) = StepsTo(stage, f, finger + 1, iter)
      BY <1>2, <1>9 DEF Placed, MovesBy, StepsTo
    <3>2. QED
      BY <1>9, <3>1 DEF Gesture, OnKernelPath
  <2>4. QED
    BY <2>1, <2>2, <2>3
<1>10. seen = [abs |-> abs, keys |-> keys]
  BY DEF Gesture, AllReported
<1>11. QED
  BY <1>1, <1>3, <1>4, <1>5, <1>6, <1>7, <1>8, <1>9, <1>10 DEF Settled

\* Once every finger is pressed, they may move or go up.
LEMMA PressSettles ==
  ASSUME TypeOK, Control, NEW g \in Nat, 0 < g, \A f \in Fingers : f < g, NEW it,
         Settled("press", g, it)
  PROVE  Settled("move", 0, it) /\ Settled("release", 0, it)
<1>1. \A f \in Fingers : ~(f < 0)
  BY FingerFacts DEF Finger
<1>2. \A f \in Fingers : /\ StepsTo("move", f, 0, it) = StepsTo("press", f, g, it)
                         /\ StepsTo("release", f, 0, it) = StepsTo("press", f, g, it)
  BY <1>1 DEF StepsTo
<1>3. QED
  BY <1>1, <1>2 DEF Settled

\* Once every finger has moved, they may move again or go up.
LEMMA MoveSettles ==
  ASSUME TypeOK, Control, NEW g \in Nat, \A f \in Fingers : f < g, NEW it \in Nat, cmd.op # "tap",
         Settled("move", g, it)
  PROVE  Settled("move", 0, it + 1) /\ Settled("release", 0, it + 1)
<1>1. \A f \in Fingers : ~(f < 0)
  BY FingerFacts DEF Finger
<1>2. \A f \in Fingers : /\ StepsTo("move", f, 0, it + 1) = StepsTo("move", f, g, it)
                         /\ StepsTo("release", f, 0, it + 1) = StepsTo("move", f, g, it)
  BY <1>1 DEF StepsTo
<1>3. QED
  BY <1>1, <1>2 DEF Settled

\* Once the finger of a tap is up, it may tap again.
LEMMA ReleaseSettles ==
  ASSUME TypeOK, Control, NEW g \in Nat, 0 < g, \A f \in Fingers : f < g, NEW it, NEW jt,
         seen = [abs |-> abs, keys |-> keys], Settled("release", g, it)
  PROVE  Settled("press", 0, jt)
<1>1. \A f \in Fingers : ~(f < 0)
  BY FingerFacts DEF Finger
<1>2. "BTN_TOUCH" \notin keys /\ "BTN_TOUCH" \notin seen.keys
  BY DEF Settled
<1>3. \A f \in Fingers : "MT" \in flags => ~InContact(abs, Target(f)) /\ ~InContact(seen.abs, Target(f))
  BY DEF Settled
<1>4. QED
  BY <1>1, <1>2, <1>3 DEF Settled

\* What is settled stays so from the last event of a primitive to the first of the next.
LEMMA StaysSettled ==
  ASSUME NEW st, NEW g, NEW it, Settled(st, g, it),
         UNCHANGED <<devVars, flags, cmd, faults>>, stage' = st, finger' = g, iter' = it
  PROVE  Settled(stage, finger, iter)'
<1>1. dev' = dev /\ slot' = slot /\ abs' = abs /\ keys' = keys /\ seen' = seen
  BY DEF devVars
<1>2. /\ Fingers' = Fingers /\ Apart' = Apart /\ Slots' = Slots
      /\ \A f : Target(f)' = Target(f)
  BY <1>1 DEF Fingers, Apart, Slots, Target
<1>3. Playable' = Playable
  BY <1>1, <1>2 DEF Playable, TouchedBy
<1>4. \A f : Shown(f)' = Shown(f)
  BY <1>1, <1>2 DEF Shown, InContact
<1>5. \A f : StepsTo(stage, f, finger, iter)' = StepsTo(st, f, g, it)
  BY DEF StepsTo
<1>6. \A f : /\ Place(seen.abs, Target(f))' = Place(seen.abs, Target(f))
             /\ Place(abs, Target(f))' = Place(abs, Target(f))
             /\ After(f, StepsTo(stage, f, finger, iter))' = After(f, StepsTo(st, f, g, it))
  BY <1>1, <1>2, <1>5 DEF Place, After
<1>7. QED
  BY <1>1, <1>2, <1>3, <1>4, <1>6 DEF Settled, InContact

\* Every way of going on after a primitive goes to its first event.
LEMMA ReturnFrame ==
  ASSUME Return
  PROVE  /\ pos > Len(Calls) /\ pos' = 1 /\ stage \in Primitives
         /\ UNCHANGED <<devVars, flags, trackingId, cmd, ok, done, faults, runs>>
         /\ stage \notin Fingered => stage' = "idle"
<1>1. CASE OtherFinger
  BY <1>1 DEF OtherFinger, Returned, Goto, history, Fingered, Primitives
<1>2. CASE PressReturns
  BY <1>2 DEF PressReturns, Returned, Goto, history, Primitives, Fingered
<1>3. CASE MoveReturns
  BY <1>3 DEF MoveReturns, Returned, Goto, history, Primitives, Fingered
<1>4. CASE ReleaseReturns
  <2>1. stage = "release" /\ pos > Len(Calls) /\ \E st, it : Goto(st, 0, it)
    BY <1>4 DEF ReleaseReturns, Returned
  <2>2. QED
    BY <2>1 DEF Goto, history, Primitives, Fingered
<1>5. CASE PrimitiveReturns
  BY <1>5 DEF PrimitiveReturns, Returned, Goto, history, Primitives
<1>6. QED
  BY <1>1, <1>2, <1>3, <1>4, <1>5 DEF Return

\* What follows a primitive of a gesture.
Follows ==
  \/ HasOtherFinger /\ stage' = stage /\ finger' = 1 /\ iter' = iter
  \/ ~HasOtherFinger /\ finger' = 0 /\
     \/ /\ stage = "press" /\ iter' = iter
        /\ stage' = IF cmd.op \in {"drag", "pinch"} /\ cmd.n > 0 THEN "move" ELSE "release"
     \/ /\ stage = "move" /\ iter' = iter + 1
        /\ stage' = IF iter + 1 < cmd.n THEN "move" ELSE "release"
     \/ /\ stage = "release" /\ cmd.op = "tap" /\ iter + 1 < cmd.n
        /\ stage' = "press" /\ iter' = iter + 1
     \/ stage = "release" /\ stage' = "idle" /\ (cmd.op = "tap" => ~(iter + 1 < cmd.n))

\* What follows a primitive of a gesture is one of these.
LEMMA FollowsIs == ASSUME Return, stage \in Fingered PROVE Follows
<1>1. CASE OtherFinger
  BY <1>1 DEF OtherFinger, Goto, Follows
<1>2. CASE PressReturns
  BY <1>2 DEF PressReturns, Returned, Goto, Follows
<1>3. CASE MoveReturns
  BY <1>3 DEF MoveReturns, Returned, Goto, Follows
<1>4. CASE ReleaseReturns
  <2>1. stage = "release" /\ ~HasOtherFinger
    BY <1>4 DEF ReleaseReturns, Returned
  <2>2. CASE cmd.op = "tap"
    <3>1. CASE iter + 1 < cmd.n
      <4>1. Goto("press", 0, iter + 1)
        BY <1>4, <2>2, <3>1 DEF ReleaseReturns
      <4>2. QED
        BY <2>1, <2>2, <3>1, <4>1 DEF Goto, Follows
    <3>2. CASE ~(iter + 1 < cmd.n)
      <4>1. Goto("idle", 0, iter + 1)
        BY <1>4, <2>2, <3>2 DEF ReleaseReturns
      <4>2. QED
        BY <2>1, <3>2, <4>1 DEF Goto, Follows
    <3>3. QED
      BY <3>1, <3>2
  <2>3. CASE cmd.op # "tap"
    BY <1>4, <2>1, <2>3 DEF ReleaseReturns, Goto, Follows
  <2>4. QED
    BY <2>2, <2>3
<1>5. CASE PrimitiveReturns
  BY <1>5 DEF PrimitiveReturns, Returned, Fingered
<1>6. QED
  BY <1>1, <1>2, <1>3, <1>4, <1>5 DEF Return

\* What follows a primitive keeps what the invariant says of all states.
LEMMA ReturnAlways == ASSUME TypeOK, Control, Always, Return PROVE Always'
<1>1. /\ pos' = 1 /\ stage \in Primitives
      /\ UNCHANGED <<dev, slot, abs, keys, seen, flags, cmd, ok, faults>>
      /\ stage \notin Fingered => stage' = "idle"
  BY ReturnFrame DEF devVars
<1>2. Slots' = Slots /\ Probed' = Probed
  BY <1>1 DEF Slots, Probed
<1>3. Unharmed'
  BY <1>1, <1>2 DEF Always, Unharmed, InContact
<1>4. ok' => SlotChosen'
  BY <1>1 DEF SlotChosen
<1>5. ButtonHasContact'
  BY <1>1, <1>2 DEF Always, ButtonHasContact, InContact
<1>6. Counted'
  <2>1. CASE stage \notin Fingered
    BY <1>1, <2>1 DEF Counted, Primitives, Fingered
  <2>2. CASE stage \in Fingered
    <3>1. /\ Follows /\ iter \in Nat /\ cmd.n \in Int /\ TouchedBy(cmd)
          /\ cmd.op = "tap" => stage # "move" /\ iter < cmd.n
          /\ cmd.op # "tap" => /\ stage = "press" => iter = 0
                               /\ stage = "move" => iter < cmd.n
                               /\ stage = "release" => iter = IF cmd.n > 0 THEN cmd.n ELSE 0
      BY <2>2, FollowsIs, CommandTypes DEF Always, Counted, TypeOK, CommandType
    <3>2. TouchedBy(cmd)' /\ cmd' = cmd
      BY <1>1, <3>1 DEF TouchedBy
    <3>3. stage' \in Fingered \cup {"idle"}
      BY <2>2, <3>1 DEF Follows, Fingered
    <3>4. cmd.op = "tap" /\ stage' # "idle" => stage' # "move" /\ iter' < cmd.n
      BY <3>1 DEF Follows
    <3>5. cmd.op # "tap" => /\ stage' = "press" => iter' = 0
                            /\ stage' = "move" => iter' < cmd.n
                            /\ stage' = "release" => iter' = IF cmd.n > 0 THEN cmd.n ELSE 0
      <4>1. CASE HasOtherFinger /\ stage' = stage /\ iter' = iter
        BY <3>1, <4>1
      <4>2. CASE stage = "press" /\ iter' = iter
                 /\ stage' = IF cmd.op \in {"drag", "pinch"} /\ cmd.n > 0 THEN "move" ELSE "release"
        BY <3>1, <4>2 DEF TouchedBy, Gestures
      <4>3. CASE stage = "move" /\ iter' = iter + 1
                 /\ stage' = IF iter + 1 < cmd.n THEN "move" ELSE "release"
        BY <3>1, <4>3
      <4>4. CASE stage = "release" /\ (cmd.op = "tap" \/ stage' = "idle")
        BY <4>4
      <4>5. QED
        BY <3>1, <4>1, <4>2, <4>3, <4>4 DEF Follows
    <3>6. QED
      BY <3>2, <3>3, <3>4, <3>5 DEF Counted, Primitives, Fingered
  <2>3. QED
    BY <2>1, <2>2
<1>7. QED
  BY <1>3, <1>4, <1>5, <1>6 DEF Always

\* What follows a primitive finds the gesture as the primitive has left it.
LEMMA ReturnGesture ==
  ASSUME TypeOK, Control, TypeOK', Control', Always, Gesture, Return
  PROVE  Gesture'
<1>1. /\ pos > Len(Calls) /\ pos' = 1 /\ stage \in Primitives
      /\ UNCHANGED <<devVars, flags, cmd, ok, faults>>
      /\ stage \notin Fingered => stage' = "idle"
  BY ReturnFrame
<1> SUFFICES ASSUME Sound' PROVE Gesture'
  <2>1. (~Sound \/ stage \in {"exited", "dead"} => Gesture)'
    BY NoGesture, PTL
  <2>2. QED
    BY <2>1
<1>2. dev' = dev /\ abs' = abs /\ keys' = keys /\ seen' = seen /\ slot' = slot
  BY <1>1 DEF devVars
<1>3. Sound /\ TouchedBy(cmd) /\ stage \in Fingered
  <2>1. Sound /\ TouchedBy(cmd)
    BY <1>1, <1>2 DEF Sound, Probed, TouchedBy
  <2>2. QED
    BY <1>1, <2>1 DEF Always, Counted
<1>4. /\ Settled(stage, finger + 1, iter) /\ seen = [abs |-> abs, keys |-> keys]
      /\ Follows /\ finger \in {0, 1} /\ Fingers \subseteq {0, 1} /\ iter \in Nat
      /\ cmd.op \in Gestures
  BY <1>1, <1>3, SettledLast, FollowsIs, FingerFacts DEF TypeOK, Finger, TouchedBy
<1>5. ~HasOtherFinger => finger + 1 \in Nat /\ 0 < finger + 1 /\ \A f \in Fingers : f < finger + 1
  <2>1. CASE cmd.op = "pinch"
    BY <1>4, <2>1 DEF HasOtherFinger
  <2>2. CASE cmd.op # "pinch"
    BY <1>4, <2>2 DEF Fingers
  <2>3. QED
    BY <2>1, <2>2
<1>6. ASSUME stage' \in Fingered, Settled(stage', finger', iter')
      PROVE  Gesture'
  <2>1. PICK st, g, it : st = stage' /\ g = finger' /\ it = iter'
    OBVIOUS
  <2>2. Settled(stage, finger, iter)'
    BY <1>1, <1>6, <2>1, StaysSettled
  <2>3. (TypeOK /\ Control /\ Sound /\ stage \in Fingered /\ pos = 1 /\ Settled(stage, finger, iter)
           => Gesture)'
    BY SettledFirst, PTL
  <2>4. QED
    BY <1>1, <1>6, <2>2, <2>3
<1>7. CASE HasOtherFinger /\ stage' = stage /\ finger' = 1 /\ iter' = iter
  <2>1. finger + 1 = 1
    BY <1>7 DEF HasOtherFinger
  <2>2. QED
    BY <1>3, <1>4, <1>6, <1>7, <2>1
<1>8. CASE ~HasOtherFinger /\ finger' = 0 /\ stage = "press" /\ iter' = iter
           /\ stage' \in {"move", "release"}
  <2>1. Settled("move", 0, iter) /\ Settled("release", 0, iter)
    BY <1>4, <1>5, <1>8, PressSettles
  <2>2. QED
    BY <1>6, <1>8, <2>1 DEF Fingered
<1>9. CASE ~HasOtherFinger /\ finger' = 0 /\ stage = "move" /\ iter' = iter + 1
           /\ stage' \in {"move", "release"}
  <2>1. cmd.op # "tap"
    BY <1>9 DEF Always, Counted, Fingered
  <2>2. Settled("move", 0, iter + 1) /\ Settled("release", 0, iter + 1)
    BY <1>4, <1>5, <1>9, <2>1, MoveSettles
  <2>3. QED
    BY <1>6, <1>9, <2>2 DEF Fingered
<1>10. CASE ~HasOtherFinger /\ finger' = 0 /\ stage = "release" /\ stage' = "press" /\ iter' = iter + 1
  <2>1. Settled("press", 0, iter + 1)
    BY <1>4, <1>5, <1>10, ReleaseSettles
  <2>2. QED
    BY <1>6, <1>10, <2>1 DEF Fingered
<1>11. CASE ~HasOtherFinger /\ stage = "release" /\ stage' = "idle"
  <2>1. /\ \A f \in Fingers : "MT" \in flags => ~InContact(abs, Target(f))
        /\ "BTN_TOUCH" \notin keys
    BY <1>4, <1>5, <1>11 DEF Settled
  <2>2. Fingers' = Fingers /\ \A f : Target(f)' = Target(f)
    BY <1>1, <1>2 DEF Fingers, Target, Slots
  <2>3. \A f \in Fingers : "MT" \in flags => ~InContact(abs, Target(f))'
    BY <1>2, <2>1, <2>2 DEF InContact
  <2>4. ContactsLifted'
    BY <1>1, <2>2, <2>3 DEF ContactsLifted
  <2>5. ButtonWritten' /\ AllReported'
    BY <1>2, <1>4, <1>11, <2>1 DEF ButtonWritten, AllReported
  <2>6. ContactsMade' /\ NotYetDown' /\ SeenDown' /\ OnKernelPath' /\ OnSeenPath'
    BY <1>11 DEF ContactsMade, NotYetDown, SeenDown, OnKernelPath, OnSeenPath, Fingered
  <2>7. QED
    BY <2>4, <2>5, <2>6 DEF Gesture
<1>12. QED
  BY <1>4, <1>7, <1>8, <1>9, <1>10, <1>11 DEF Follows

---------------------------------------------------------------------------
(* The other steps.                                                        *)

\* The first primitive of a command, by whether it is a gesture.
LEMMA BeginKinds ==
  ASSUME BeginCommand
  PROVE  \E c \in Commands, st \in Stages \ {"move", "release"} :
           /\ Begin(c, st)
           /\ st = "press" => TouchedBy(c)
           /\ st \in (Primitives \ Fingered) \cup {"idle"} => ~TouchedBy(c)
<1>1. PICK c \in Commands : \/ execute_tap(c) \/ execute_drag(c) \/ execute_pinch(c)
                            \/ BeginPrimitive(c) \/ execute_sleep(c)
  BY DEF BeginCommand
<1>2. CASE execute_tap(c)
  <2>1. CASE c.n > 0
    <3>1. Begin(c, "press") /\ TouchedBy(c)
      <4>1. c.n \in Int
        BY CommandsAssumption DEF CommandType
      <4>2. QED
        BY <1>2, <2>1, <4>1 DEF execute_tap, TouchedBy, Gestures
    <3>2. QED
      BY <3>1 DEF Stages, Primitives, Fingered
  <2>2. CASE ~(c.n > 0)
    <3>1. Begin(c, "idle") /\ ~TouchedBy(c)
      <4>1. c.n \in Int
        BY CommandsAssumption DEF CommandType
      <4>2. QED
        BY <1>2, <2>2, <4>1 DEF execute_tap, TouchedBy
    <3>2. QED
      BY <3>1 DEF Stages
  <2>3. QED
    BY <2>1, <2>2
<1>3. CASE execute_drag(c) \/ execute_pinch(c)
  <2>1. (Begin(c, "press") \/ Begin(c, "dead")) /\ TouchedBy(c)
    BY <1>3 DEF execute_drag, execute_pinch, BeginPath, TouchedBy, Gestures
  <2>2. QED
    BY <2>1 DEF Stages, Primitives, Fingered
<1>4. CASE BeginPrimitive(c) \/ execute_sleep(c)
  <2>1. ~TouchedBy(c) /\ \E st \in {"reset", "keydown", "keyup", "idle"} : Begin(c, st)
    BY <1>4 DEF BeginPrimitive, execute_sleep, TouchedBy, Gestures
  <2>2. QED
    BY <2>1 DEF Stages, Primitives, Fingered
<1>5. QED
  BY <1>1, <1>2, <1>3, <1>4

\* A command that begins finds the screen as its first primitive needs it.
LEMMA BeginsPath ==
  ASSUME IndInv, IndInv', PathInv, BeginCommand
  PROVE  PathInv'
<1>1. PICK c \in Commands, st \in Stages \ {"move", "release"} :
        /\ Begin(c, st)
        /\ st = "press" => TouchedBy(c)
        /\ st \in (Primitives \ Fingered) \cup {"idle"} => ~TouchedBy(c)
  BY BeginKinds
<1>2. /\ stage = "idle" /\ cmd' = c /\ stage' = st /\ finger' = 0 /\ iter' = 0 /\ pos' = 1 /\ ok'
      /\ UNCHANGED <<dev, slot, abs, keys, seen, flags, faults>>
  BY <1>1 DEF Begin, devVars
<1>3. Slots' = Slots /\ Probed' = Probed /\ (TouchedBy(cmd)' <=> TouchedBy(c))
  BY <1>2 DEF Slots, Probed, TouchedBy
<1>4. Always'
  <2>1. Unharmed'
    BY <1>2, <1>3 DEF PathInv, Unharmed, InContact
  <2>2. Counted'
    <3>1. c.n \in Int
      BY CommandsAssumption DEF CommandType
    <3>2. st = "press" /\ c.op = "tap" => 0 < c.n
      BY <1>1, <3>1 DEF TouchedBy
    <3>3. TouchedBy(c) => st \notin Primitives \ Fingered
      BY <1>1
    <3>4. QED
      BY <1>1, <1>2, <1>3, <3>2, <3>3 DEF Counted, Fingered
  <2>3. SlotChosen'
    BY <1>2 DEF SlotChosen
  <2>4. ButtonHasContact'
    BY <1>2, <1>3 DEF PathInv, ButtonHasContact, InContact
  <2>5. QED
    BY <2>1, <2>2, <2>3, <2>4 DEF Always
<1>5. Gesture'
  <2>1. (~Sound \/ stage \in {"exited", "dead"} => Gesture)'
    BY NoGesture, PTL
  <2>2. CASE st # "press"
    <3>1. st \in {"exited", "dead"} \/ ~TouchedBy(c)
      BY <1>1, <2>2 DEF Stages, Primitives, Fingered
    <3>2. QED
      BY <1>2, <1>3, <2>1, <3>1 DEF Sound
  <2>3. CASE st = "press" /\ Sound'
    <3>1. faults' = 0 => AllUp
      BY <1>2, UpBetweenGestures DEF IndInv, Fingered
    <3>2. faults' = 0 => "BTN_TOUCH" \notin seen.keys
      BY <3>1 DEF AllUp
    <3>3. faults' = 0 => \A s \in Slots' : ~InContact(abs, s)' /\ ~InContact(seen.abs, s)'
      BY <1>2, <1>3, <3>1 DEF AllUp, InContact
    <3>4. Fingers' \subseteq Finger /\ \A f \in Fingers' : Target(f)' \in Slots' /\ ~(f < 0)
      <4>1. (TypeOK => \A f \in Finger : Target(f) \in Slots)'
        BY SlotFacts, PTL
      <4>2. Fingers' \subseteq Finger
        BY DEF Fingers, Finger
      <4>3. QED
        BY <4>1, <4>2 DEF IndInv, Finger
    <3>5. Settled(stage, finger, iter)'
      BY <1>2, <2>3, <3>2, <3>3, <3>4 DEF Settled
    <3>6. (TypeOK /\ Control /\ Sound /\ stage \in Fingered /\ pos = 1 /\ Settled(stage, finger, iter)
             => Gesture)'
      BY SettledFirst, PTL
    <3>7. QED
      BY <1>2, <2>3, <3>5, <3>6 DEF IndInv, Fingered
  <2>4. QED
    BY <2>1, <2>2, <2>3
<1>6. (PathInv <=> Always /\ Gesture)'
  BY PathInvIs, PTL
<1>7. QED
  BY <1>4, <1>5, <1>6

\* A run that begins or ends, or that fails, says nothing of a gesture.
LEMMA OutsidePath ==
  ASSUME IndInv, IndInv', PathInv, Start \/ Exit \/ Kill \/ write_event_fails
  PROVE  PathInv'
<1>1. ~Sound' \/ stage' \in {"exited", "dead"}
  <2>1. CASE Start
    <3>1. cmd' = NoCmd
      BY <2>1 DEF Start
    <3>2. NoCmd.op = "none"
      BY DEF NoCmd
    <3>3. ~TouchedBy(cmd)'
      BY <3>1, <3>2 DEF TouchedBy, Gestures
    <3>4. QED
      BY <3>3 DEF Sound
  <2>2. CASE Exit \/ Kill
    BY <2>2 DEF Exit, Kill
  <2>3. CASE write_event_fails
    BY <2>3 DEF write_event_fails, Sound
  <2>4. QED
    BY <2>1, <2>2, <2>3
<1>2. (~Sound \/ stage \in {"exited", "dead"} => Gesture)'
  BY NoGesture, PTL
<1>3. UNCHANGED devVars /\ dev' = dev /\ Slots' = Slots /\ Probed' = Probed /\ abs' = abs /\ seen' = seen
  BY DEF Start, Exit, Kill, write_event_fails, devVars, Slots, Probed
<1>4. faults \in Nat /\ faults' \in Nat
  BY FaultsType DEF IndInv, TypeOK
<1>5. /\ faults' = 0 => faults = 0 /\ ok'
      /\ faults' = 0 /\ stage' \in Primitives \cup {"idle"} => flags' = Probed
  <2>1. CASE Start
    <3>1. PICK K, A, name :
            /\ flags' = figure_out_events_device_reports(K, A, name)
            /\ faults' = IF <<K, A, name>> = <<dev.keys, dev.abs, dev.name>> THEN faults ELSE faults + 1
      BY <2>1 DEF Start
    <3>2. CASE <<K, A, name>> = <<dev.keys, dev.abs, dev.name>>
      <4>1. faults' = faults /\ K = dev.keys /\ A = dev.abs /\ name = dev.name
        BY <3>1, <3>2
      <4>2. flags' = Probed /\ ok' = TRUE
        BY <2>1, <3>1, <4>1 DEF Start, Probed
      <4>3. QED
        BY <4>1, <4>2
    <3>3. CASE <<K, A, name>> # <<dev.keys, dev.abs, dev.name>>
      <4>1. faults' = faults + 1
        BY <3>1, <3>3
      <4>2. QED
        BY <1>4, <4>1
    <3>4. QED
      BY <3>2, <3>3
  <2>2. CASE Exit
    BY <2>2 DEF Exit, PathInv, Unharmed, Primitives, history
  <2>3. CASE Kill \/ write_event_fails
    BY <1>4, <2>3 DEF Kill, write_event_fails
  <2>4. QED
    BY <2>1, <2>2, <2>3
<1>6. Unharmed'
  BY <1>3, <1>5 DEF PathInv, Unharmed, InContact
<1>7. Counted'
  <2>1. CASE write_event_fails
    <3>1. UNCHANGED <<cmd, stage, iter>>
      BY <2>1 DEF write_event_fails, NextEvent
    <3>2. QED
      BY <3>1 DEF PathInv, Counted, TouchedBy
  <2>2. CASE Start \/ Exit \/ Kill
    BY <2>2 DEF Start, Exit, Kill, Counted, Primitives, Fingered
  <2>3. QED
    BY <2>1, <2>2
<1>8. ok' => SlotChosen'
  BY DEF Start, Exit, Kill, write_event_fails, SlotChosen, Fingered
<1>9. ButtonHasContact'
  <2>1. CASE Start
    <3>1. faults' = 0 => AllUp
      BY <1>5, <2>1, UpBetweenGestures DEF Start, IndInv, Fingered
    <3>2. QED
      BY <1>3, <3>1 DEF AllUp, ButtonHasContact
  <2>2. CASE Exit
    BY <1>3, <2>2 DEF Exit, history, PathInv, ButtonHasContact, InContact
  <2>3. CASE Kill \/ write_event_fails
    BY <1>4, <2>3 DEF Kill, write_event_fails, ButtonHasContact
  <2>4. QED
    BY <2>1, <2>2, <2>3
<1>10. (PathInv <=> Always /\ Gesture)'
  BY PathInvIs, PTL
<1>11. QED
  BY <1>1, <1>2, <1>6, <1>7, <1>8, <1>9, <1>10 DEF Always

\* Every step keeps the invariant.
LEMMA NextPathInv == IndInv /\ PathInv /\ [Next]_vars => PathInv'
<1> SUFFICES ASSUME IndInv, PathInv, [Next]_vars PROVE PathInv'
  OBVIOUS
<1>1. IndInv' /\ TypeOK /\ Control /\ TypeOK' /\ Control'
  BY NextIndInv DEF IndInv
<1>2. CASE Start \/ Exit \/ Kill \/ write_event_fails
  BY <1>1, <1>2, OutsidePath
<1>3. CASE BeginCommand
  BY <1>1, <1>3, BeginsPath
<1>4. CASE write_event
  BY <1>1, <1>4, WritePath
<1>5. CASE Return
  <2>1. Always /\ Gesture
    BY PathInvIs
  <2>2. Always' /\ Gesture'
    BY <1>1, <1>5, <2>1, ReturnAlways, ReturnGesture
  <2>3. (PathInv <=> Always /\ Gesture)'
    BY PathInvIs, PTL
  <2>4. QED
    BY <2>2, <2>3
<1>6. CASE UNCHANGED vars
  <2>1. UNCHANGED <<dev, slot, abs, keys, seen, flags, trackingId, stage, cmd, finger, iter, pos,
                    ok, done, faults, runs>>
    BY <1>6 DEF vars, devVars, gestureVars, history
  <2>2. /\ Slots' = Slots /\ Probed' = Probed /\ Prefix' = Prefix /\ Fingers' = Fingers
        /\ Len(Calls)' = Len(Calls) /\ (Apart' <=> Apart) /\ (Sound' <=> Sound)
        /\ \A f : Target(f)' = Target(f)
    BY <2>1 DEF Slots, Probed, Prefix, Fingers, Calls, Body, Apart, Sound, TouchedBy, Target
  <2>3. /\ \A f : Tracked(f)' = Tracked(f) /\ Reported(f)' = Reported(f)
        /\ \A k : Written(k)' = Written(k)
        /\ Playable' = Playable
    BY <2>1, <2>2 DEF Tracked, Reported, Past, Written, Playable, TouchedBy
  <2>4. Always'
    BY <2>1, <2>2 DEF PathInv, Always, Unharmed, Counted, SlotChosen, ButtonHasContact, InContact,
                      TouchedBy, Target
  <2>5. ContactsMade' /\ ContactsLifted' /\ ButtonWritten' /\ NotYetDown' /\ AllReported'
    BY <2>1, <2>2, <2>3 DEF PathInv, ContactsMade, ContactsLifted, ButtonWritten, NotYetDown,
                            AllReported, InContact
  <2>6. SeenDown'
    BY <2>1, <2>2, <2>3 DEF PathInv, SeenDown, Shown, InContact
  <2>7. OnKernelPath'
    <3>1. \A f, k : /\ Placed(f, Written(k))' = Placed(f, Written(k))
                    /\ MovesBy(f, Written(k))' = MovesBy(f, Written(k))
      BY <2>1, <2>3 DEF Placed, MovesBy, Past
    <3>2. \A f, k : /\ Place(abs, Target(f))' = Place(abs, Target(f))
                    /\ After(f, MovesBy(f, Written(k)))' = After(f, MovesBy(f, Written(k)))
      BY <2>1, <2>2, <3>1 DEF Place, After
    <3>3. QED
      BY <2>1, <2>2, <3>1, <3>2 DEF PathInv, OnKernelPath
  <2>8. OnSeenPath'
    BY <2>1, <2>2, <2>3, ZenonT(30) DEF PathInv, OnSeenPath, Placed, MovesBy, Past, Place, After
  <2>9. QED
    BY <2>4, <2>5, <2>6, <2>7, <2>8 DEF PathInv, Always
<1>7. QED
  BY <1>2, <1>3, <1>4, <1>5, <1>6 DEF Next

\* A device that nothing has happened to.
LEMMA InitPathInv == Init => PathInv
<1> SUFFICES ASSUME Init PROVE PathInv
  OBVIOUS
<1>1. \A s \in Slots : Contact(s) = -1
  BY DEF Init, DeviceInit, Contact, Axes, MTAxes
<1>2. Always
  BY <1>1 DEF Init, DeviceInit, Always, Unharmed, Counted, SlotChosen, ButtonHasContact, InContact,
              Contact, Primitives, Fingered
<1>3. Gesture
  BY NoGesture DEF Init
<1>4. QED
  BY <1>2, <1>3, PathInvIs

\* What the invariant says of a gesture holds in every reachable state: after each event,
\* where its fingers are in the kernel and for the readers.
THEOREM PathInductive == Spec => []PathInv
<1>1. IndInv /\ IndInv' /\ PathInv /\ [Next]_vars => PathInv'
  BY NextPathInv
<1>2. QED
  BY <1>1, InitPathInv, Inductive, PTL DEF Spec

---------------------------------------------------------------------------
(* Where the points of a path lie.                                         *)

\* The integer quotient times less than the divisor stays below the dividend.
LEMMA QuotientTimes ==
  ASSUME NEW a \in Nat, NEW n \in Nat \ {0}, NEW i \in Nat, i <= n
  PROVE  (a \div n) * i \in 0..a
<1>1. PICK q \in Nat : q = a \div n /\ q * n <= a
  OBVIOUS
<1>2. q * i <= q * n /\ q * i \in Nat /\ q * n \in Nat
  <2>1. n - i \in Nat /\ q * (n - i) \in Nat
    OBVIOUS
  <2>2. q * (n - i) = q * n - q * i
    OBVIOUS
  <2>3. q * n \in Nat /\ q * i \in Nat
    OBVIOUS
  <2>4. QED
    BY <2>1, <2>2, <2>3
<1>3. QED
  BY <1>1, <1>2

\* A step of C's division, taken no more often than the divisor, does not pass the end.
LEMMA StepsBetween ==
  ASSUME NEW a \in Int, NEW c \in Int, NEW n \in Nat \ {0}, NEW i \in Nat, i <= n
  PROVE  Between(a, a + CDiv(c - a, n) * i, c)
<1>1. CASE c - a < 0
  <2>1. PICK d \in Nat : d = a - c
    BY <1>1
  <2>2. CDiv(c - a, n) = -(d \div n)
    BY <1>1, <2>1 DEF CDiv
  <2>3. PICK m \in 0..d : m = (d \div n) * i
    BY QuotientTimes
  <2>4. CDiv(c - a, n) * i = -m
    <3>1. d \div n \in Int
      OBVIOUS
    <3>2. \A q \in Int : (-q) * i = -(q * i)
      OBVIOUS
    <3>3. QED
      BY <2>2, <2>3, <3>1, <3>2
  <2>5. QED
    BY <2>1, <2>3, <2>4 DEF Between
<1>2. CASE ~(c - a < 0)
  <2>1. PICK d \in Nat : d = c - a
    BY <1>2
  <2>2. CDiv(c - a, n) = d \div n
    BY <1>2, <2>1 DEF CDiv
  <2>3. PICK m \in 0..d : m = (d \div n) * i
    BY QuotientTimes
  <2>4. QED
    BY <2>1, <2>2, <2>3 DEF Between
<1>3. QED
  BY <1>1, <1>2

\* Every point of a path is between its ends.
LEMMA AfterBetween ==
  ASSUME TypeOK, NEW f \in Finger, NEW m \in Nat, m > 0 => m <= cmd.n, NEW k \in {1, 2}
  PROVE  Between(cmd.from[f][k], After(f, m)[k], cmd.to[f][k])
<1>1. cmd.from[f] \in Int \X Int /\ cmd.to[f] \in Int \X Int /\ cmd.n \in Int
  BY CommandTypes DEF CommandType
<1> DEFINE a == cmd.from[f][k]
           c == cmd.to[f][k]
<1>2. a \in Int /\ c \in Int
  BY <1>1
<1>3. CASE m = 0
  <2>1. After(f, m)[k] = a
    BY <1>3 DEF After
  <2>2. QED
    BY <1>2, <2>1 DEF Between
<1>4. CASE m # 0
  <2>1. m - 1 \in Nat /\ m - 1 <= cmd.n /\ cmd.n \in Nat \ {0} /\ ~(m <= 0)
    BY <1>1, <1>4
  <2>2. After(f, m)[k] = a + CDiv(c - a, cmd.n) * (m - 1)
    BY <1>1, <2>1 DEF After, Waypoint, Delta
  <2>3. QED
    BY <1>2, <2>1, <2>2, StepsBetween
<1>5. QED
  BY <1>3, <1>4

---------------------------------------------------------------------------
(* What the readers see of a gesture.                                      *)

\* Everything a completed gesture wrote has been reported to the readers.
THEOREM AllIsReported == Spec => []GestureReported
<1>1. PathInv => GestureReported
  BY DEF PathInv, AllReported, GestureReported, Completed, Sound
<1>2. QED
  BY <1>1, PathInductive, PTL

\* A gesture that ends without a fault leaves the slots it used and the button released,
\* even if an earlier run died with a finger down.
THEOREM GesturesHeal == Spec => []GestureHeals
<1>1. TypeOK /\ PathInv => GestureHeals
  <2> SUFFICES ASSUME TypeOK, PathInv, Completed, TouchedBy(cmd)
               PROVE  /\ "TOUCH" \in flags => "BTN_TOUCH" \notin seen.keys
                      /\ "MT" \in flags => \A s \in Targets : ~InContact(seen.abs, s)
    BY DEF GestureHeals
  <2>1. "MT" \in flags => "TOUCH" \in flags
    BY DEF TypeOK, Classes
  <2>2. "TOUCH" \in flags => Sound /\ stage = "idle"
    BY DEF Completed, Sound
  <2>3. "TOUCH" \in flags => seen = [abs |-> abs, keys |-> keys] /\ "BTN_TOUCH" \notin keys
    BY <2>2 DEF PathInv, AllReported, ButtonWritten
  <2>4. "MT" \in flags => \A f \in Fingers : ~InContact(abs, Target(f))
    BY <2>1, <2>2 DEF PathInv, ContactsLifted
  <2>5. QED
    BY <2>1, <2>3, <2>4 DEF Targets
<1>2. QED
  BY <1>1, TypeCorrect, PathInductive, PTL

\* On a multi-touch device the readers never see the button down without a contact.
THEOREM ButtonWithContact == Spec => []ButtonHasContact
<1>1. PathInv => ButtonHasContact
  BY DEF PathInv
<1>2. QED
  BY <1>1, PathInductive, PTL

\* A gesture that a device can show, without a fault so far.
LEMMA OnPathIs ==
  ASSUME OnPath
  PROVE  Sound /\ Apart /\ cmd.op # "tap"
BY DEF OnPath, Sound, Apart, TouchedBy, Gestures

\* When the next primitive starts, the readers have seen each finger at the end of the
\* moves made so far.
THEOREM FingersKeepUp == Spec => []FingersFollowPath
<1>1. IndInv /\ PathInv => FingersFollowPath
  <2> SUFFICES ASSUME TypeOK, Control, PathInv, OnPath, stage \in {"move", "release"}, pos = 1,
                      NEW f \in Fingers
               PROVE  Place(seen.abs, Target(f)) =
                        After(f, iter + (IF stage = "move" /\ f < finger THEN 1 ELSE 0))
    BY DEF FingersFollowPath, IndInv
  <2>1. Sound /\ Apart /\ cmd.op # "tap" /\ stage \in Fingered /\ "TOUCH" \in flags /\ f \in Finger
    BY OnPathIs, FingerFacts DEF Fingered, Sound
  <2>2. Past(f, pos > Len(Calls)) <=> f < finger
    BY <2>1, AtFirst
  <2>3. /\ Placed(f, pos > Len(Calls))
        /\ MovesBy(f, pos > Len(Calls)) = iter + (IF stage = "move" /\ f < finger THEN 1 ELSE 0)
    BY <2>1, <2>2 DEF Placed, MovesBy
  <2>4. QED
    BY <2>1, <2>3 DEF PathInv, OnSeenPath
<1>2. QED
  BY <1>1, Inductive, PathInductive, PTL

\* No report shows a finger in contact off its path, such as with the X of one step and
\* the Y of another.
THEOREM ReportsOnPath == Spec => []ReportedOnPath
<1>1. IndInv /\ PathInv => ReportedOnPath
  <2> SUFFICES ASSUME TypeOK, Control, PathInv, OnPath, stage \in Fingered, faults = 0,
                      NEW f \in Fingers, Shown(f)
               PROVE  \E m \in 0..iter + 1 : Place(seen.abs, Target(f)) = After(f, m)
    BY DEF ReportedOnPath, IndInv
  <2>1. Sound /\ Apart /\ cmd.op # "tap" /\ iter \in Nat
    BY OnPathIs DEF TypeOK
  <2>2. stage = "press" => Reported(f)
    BY <2>1 DEF PathInv, NotYetDown, Shown
  <2>3. Placed(f, pos > Len(Calls))
    BY <2>2 DEF Placed, Reported
  <2>4. Place(seen.abs, Target(f)) = After(f, MovesBy(f, pos > Len(Calls)))
    BY <2>1, <2>3 DEF PathInv, OnSeenPath
  <2>5. MovesBy(f, pos > Len(Calls)) \in 0..iter + 1
    BY <2>1 DEF MovesBy
  <2>6. QED
    BY <2>4, <2>5
<1>2. QED
  BY <1>1, Inductive, PathInductive, PTL

\* A finger never overshoots: rounding keeps it between start and end.
THEOREM NeverPast == Spec => []NoOvershoot
<1>1. IndInv /\ PathInv => NoOvershoot
  <2> SUFFICES ASSUME TypeOK, Control, PathInv, OnPath, stage \in {"move", "release"},
                      NEW f \in Fingers, NEW k \in {1, 2}
               PROVE  Between(cmd.from[f][k], Place(seen.abs, Target(f))[k], cmd.to[f][k])
    BY DEF NoOvershoot, IndInv
  <2>1. Sound /\ Apart /\ cmd.op # "tap" /\ iter \in Nat /\ cmd.n \in Int /\ f \in Finger
        /\ stage \in Fingered
    BY OnPathIs, CommandTypes, FingerFacts DEF TypeOK, CommandType, Fingered
  <2>2. PICK m : m = MovesBy(f, pos > Len(Calls))
    OBVIOUS
  <2>3. Place(seen.abs, Target(f)) = After(f, m)
    BY <2>1, <2>2 DEF PathInv, OnSeenPath, Placed
  <2>4. m \in Nat /\ (m > 0 => m <= cmd.n)
    <3>1. /\ stage = "move" => iter < cmd.n
          /\ stage = "release" => iter = IF cmd.n > 0 THEN cmd.n ELSE 0
      BY <2>1 DEF PathInv, Counted
    <3>2. m = iter \/ (m = iter + 1 /\ stage = "move")
      BY <2>1, <2>2 DEF MovesBy
    <3>3. QED
      BY <2>1, <3>1, <3>2
  <2>5. QED
    BY <2>1, <2>3, <2>4, AfterBetween
<1>2. QED
  BY <1>1, Inductive, PathInductive, PTL

---------------------------------------------------------------------------
(* The state of Touchscreen.                                               *)

GestureSeen == IF Playing THEN Asked(cmd) ELSE NoCmd
ScreenSeen  == [f \in Finger |-> IF Playable /\ f \in Fingers /\ Shown(f)
                                 THEN Place(seen.abs, Target(f)) ELSE << >>]
LeftSeen    == [f \in Finger |-> ContactsLeft(f)]
MovesSeen   == [f \in Finger |-> StepsSeen(f)]

\* These are the variables of Touchscreen.
LEMMA ReadersVars ==
  UNCHANGED <<GestureSeen, ScreenSeen, LeftSeen, MovesSeen>> => UNCHANGED Readers!vars
BY DEF Readers!vars, GestureSeen, ScreenSeen, LeftSeen, MovesSeen

\* A gesture as the readers know it.
LEMMA AskedIs ==
  ASSUME TypeOK
  PROVE  /\ Asked(cmd) # NoCmd
         /\ Asked(cmd).fingers = Fingers
         /\ Asked(cmd).contacts = IF cmd.op = "tap" THEN cmd.n ELSE 1
         /\ Asked(cmd).steps = IF cmd.op = "tap" \/ cmd.n < 0 THEN 0 ELSE cmd.n
         /\ Asked(cmd).steps \in Nat
         /\ \A f \in Finger, m \in 0..Asked(cmd).steps : Asked(cmd).path[f][m] = After(f, m)
<1> DEFINE g == Asked(cmd)
<1>1. cmd.n \in Int
  BY CommandTypes DEF CommandType
<1>2. /\ g.contacts = IF cmd.op = "tap" THEN cmd.n ELSE 1
      /\ g.steps = IF cmd.op = "tap" \/ cmd.n < 0 THEN 0 ELSE cmd.n
      /\ g.fingers = Fingers
  BY DEF Asked, Fingers
<1>3. g.steps \in Nat
  BY <1>1, <1>2
<1>4. g # NoCmd
  <2>1. "fingers" \in DOMAIN g
    BY DEF Asked
  <2>2. "fingers" \notin DOMAIN NoCmd
    BY DEF NoCmd
  <2>3. QED
    BY <2>1, <2>2
<1>5. ASSUME NEW f \in Finger, NEW m \in 0..g.steps
      PROVE  g.path[f][m] = After(f, m)
  <2>1. m \in Int /\ m >= 0 /\ (m <= 0 <=> m = 0)
    BY <1>3
  <2>2. g.path[f][m] = IF m = 0 THEN cmd.from[f] ELSE Waypoint(cmd.from[f], cmd.to[f], cmd.n, m - 1)
    BY <1>2 DEF Asked
  <2>3. QED
    BY <2>1, <2>2 DEF After
<1>6. QED
  BY <1>2, <1>3, <1>4, <1>5

---------------------------------------------------------------------------
(* The steps of Touchscreen, in terms of the gesture played.               *)

\* A finger comes down at its start.
LEMMA ReadersDown ==
  ASSUME TypeOK, Playing, NEW f \in Fingers,
         ScreenSeen[f] = << >>, LeftSeen[f] > 0, \A e \in Fingers : e < f => LeftSeen[e] = 0,
         ScreenSeen' = [ScreenSeen EXCEPT ![f] = After(f, 0)],
         LeftSeen' = [LeftSeen EXCEPT ![f] = @ - 1],
         GestureSeen' = GestureSeen, MovesSeen' = MovesSeen
  PROVE  Readers!Next
<1>1. /\ GestureSeen = Asked(cmd) /\ Asked(cmd) # NoCmd /\ Asked(cmd).fingers = Fingers
      /\ f \in Finger /\ Asked(cmd).path[f][0] = After(f, 0)
  BY AskedIs DEF GestureSeen, Fingers, Finger
<1>2. Readers!Down(f)
  BY <1>1 DEF Readers!Down, Readers!Up, GestureSeen, ScreenSeen, LeftSeen, MovesSeen
<1>3. QED
  BY <1>1, <1>2 DEF Readers!Next, GestureSeen

\* It takes its next step.
LEMMA ReadersMove ==
  ASSUME TypeOK, Playing, NEW f \in Fingers, NEW m \in Nat, m + 1 <= Asked(cmd).steps,
         ScreenSeen[f] # << >>, MovesSeen[f] = m,
         \A e \in Fingers : LeftSeen[e] = 0 /\ MovesSeen[e] = m + (IF e < f THEN 1 ELSE 0),
         MovesSeen' = [MovesSeen EXCEPT ![f] = @ + 1],
         ScreenSeen' = [ScreenSeen EXCEPT ![f] = After(f, m + 1)],
         GestureSeen' = GestureSeen, LeftSeen' = LeftSeen
  PROVE  Readers!Next
<1>1. /\ GestureSeen = Asked(cmd) /\ Asked(cmd) # NoCmd /\ Asked(cmd).fingers = Fingers
      /\ f \in Finger /\ Asked(cmd).steps \in Nat
      /\ Asked(cmd).path[f][m + 1] = After(f, m + 1)
  BY AskedIs DEF GestureSeen, Fingers, Finger
<1>2. MovesSeen'[f] = m + 1 /\ m < Asked(cmd).steps
  BY <1>1 DEF MovesSeen
<1>3. Readers!Move(f)
  BY <1>1, <1>2 DEF Readers!Move, Readers!Up, GestureSeen, ScreenSeen, LeftSeen, MovesSeen
<1>4. QED
  BY <1>1, <1>3 DEF Readers!Next, GestureSeen

\* It goes up at the end.
LEMMA ReadersLift ==
  ASSUME TypeOK, Playing, NEW f \in Fingers, ScreenSeen[f] # << >>,
         \A e \in Fingers : /\ MovesSeen[e] = Asked(cmd).steps
                            /\ e < f => ScreenSeen[e] = << >>
                            /\ e # f => LeftSeen[e] = 0,
         ScreenSeen' = [ScreenSeen EXCEPT ![f] = << >>],
         GestureSeen' = GestureSeen, LeftSeen' = LeftSeen, MovesSeen' = MovesSeen
  PROVE  Readers!Next
<1>1. GestureSeen = Asked(cmd) /\ Asked(cmd) # NoCmd /\ Asked(cmd).fingers = Fingers
  BY AskedIs DEF GestureSeen
<1>2. Readers!Lift(f)
  BY <1>1 DEF Readers!Lift, Readers!Up, GestureSeen, ScreenSeen, LeftSeen, MovesSeen
<1>3. QED
  BY <1>1, <1>2 DEF Readers!Next, GestureSeen

\* A gesture begins where there is none.
LEMMA ReadersBegin ==
  ASSUME NEW c \in Commands, TouchedBy(c), GestureSeen = NoCmd, GestureSeen' = Asked(c),
         ScreenSeen' = ScreenSeen, MovesSeen' = MovesSeen,
         LeftSeen' = [f \in Finger |-> IF f \in Asked(c).fingers THEN Asked(c).contacts ELSE 0]
  PROVE  Readers!Next
<1>1. Readers!Begin(Asked(c))
  BY DEF Readers!Begin, Readers!Finger, Finger, GestureSeen, ScreenSeen, LeftSeen, MovesSeen
<1>2. QED
  BY <1>1 DEF Readers!Next

\* A gesture ends when all its fingers are up for the last time.
LEMMA ReadersEnd ==
  ASSUME TypeOK, Playing, GestureSeen' = NoCmd,
         \A f \in Finger : ScreenSeen[f] = << >> /\ LeftSeen[f] = 0,
         ScreenSeen' = ScreenSeen, LeftSeen' = LeftSeen, MovesSeen' = [f \in Finger |-> 0]
  PROVE  Readers!Next
<1>1. GestureSeen # NoCmd
  BY AskedIs DEF GestureSeen
<1>2. Readers!End
  BY <1>1 DEF Readers!End, Readers!Finger, Readers!Up, Finger, GestureSeen, ScreenSeen, LeftSeen,
              MovesSeen
<1>3. QED
  BY <1>2 DEF Readers!Next

---------------------------------------------------------------------------
(* Where the script has got to determines what the readers see.            *)

\* The rounds of the gesture that all its fingers have done.
Rounds == IF cmd.op = "tap" THEN 0 ELSE iter

\* What the readers see of finger f, by the progress of the gesture.
ScreenAt(f) ==
  IF ~Playing \/ f \notin Fingers THEN << >>
  ELSE IF stage = "press" THEN IF Reported(f) THEN After(f, 0) ELSE << >>
  ELSE IF stage = "move" THEN After(f, IF Reported(f) THEN iter + 1 ELSE iter)
  ELSE IF Reported(f) THEN << >> ELSE After(f, Rounds)

\* A gesture that is played while nothing has failed is as the invariant describes.
LEMMA PlayingIs ==
  ASSUME IndInv, PathInv, faults = 0, Playing
  PROVE  /\ Sound /\ Apart /\ Playable /\ stage \in {"press", "move", "release"} /\ "TOUCH" \in flags
         /\ TypeOK /\ Control /\ Touch /\ iter \in Nat /\ cmd.n \in Int
         /\ Fingers \subseteq {0, 1} /\ finger \in Fingers /\ finger \in {0, 1}
         /\ cmd.op = "tap" => stage # "move" /\ iter < cmd.n
         /\ cmd.op # "tap" => /\ stage = "press" => iter = 0
                              /\ stage = "move" => iter < cmd.n
                              /\ stage = "release" => iter = IF cmd.n > 0 THEN cmd.n ELSE 0
         /\ stage = "press" => Rounds = 0
<1>1. /\ Playable /\ Apart /\ stage \in Fingered /\ TouchedBy(cmd) /\ "TOUCH" \in flags
      /\ TypeOK /\ Control /\ Touch
  BY DEF Playing, Playable, IndInv
<1>2. Sound
  BY <1>1 DEF Sound, PathInv, Unharmed, Fingered, Primitives
<1>3. Fingers \subseteq {0, 1} /\ finger \in Fingers /\ finger \in {0, 1} /\ iter \in Nat
  BY <1>1, FingerFacts DEF Finger, TypeOK
<1>4. cmd.n \in Int
  BY <1>1, CommandTypes DEF CommandType
<1>5. /\ cmd.op = "tap" => stage # "move" /\ iter < cmd.n
      /\ cmd.op # "tap" => /\ stage = "press" => iter = 0
                           /\ stage = "move" => iter < cmd.n
                           /\ stage = "release" => iter = IF cmd.n > 0 THEN cmd.n ELSE 0
  BY <1>1 DEF PathInv, Counted
<1>6. stage = "press" => Rounds = 0
  BY <1>5 DEF Rounds
<1>7. QED
  BY <1>1, <1>2, <1>3, <1>4, <1>5, <1>6 DEF Fingered

\* Once a finger's release has been reported, the readers see it no more.
LEMMA ReleasedIsUp ==
  ASSUME IndInv, PathInv, faults = 0, Playing, stage = "release", NEW f \in Fingers, Reported(f)
  PROVE  ~Shown(f)
<1>1. /\ Touch /\ TypeOK /\ Control /\ Fingers \subseteq {0, 1} /\ finger \in {0, 1} /\ Apart
      /\ Sound /\ "TOUCH" \in flags
  BY PlayingIs
<1>2. f < finger \/ (f = finger /\ pos > Len(Calls))
  BY DEF Reported, Past
<1>3. CASE "MT" \in flags
  <2>1. Target(f) \notin HeldSeen
    BY <1>1, <1>2, <1>3 DEF HeldSeen, HeldUntil, Fingered
  <2>2. Target(f) \in Slots
    BY <1>1, SlotFacts DEF Finger
  <2>3. QED
    BY <1>1, <1>3, <2>1, <2>2 DEF Touch, ContactsSeen, Shown
<1>4. CASE "MT" \notin flags
  <2>1. f = 0 /\ finger = 0
    BY <1>1, <1>4, FingerFacts
  <2>2. pos > Len(Calls)
    BY <1>2, <2>1
  <2>3. Len(Calls) \in Nat /\ pos \in Nat
    BY <1>1, GestureLength DEF Fingered
  <2>4. ~(pos <= Len(Calls))
    BY <2>2, <2>3
  <2>5. QED
    BY <1>1, <1>4, <2>4 DEF Touch, ButtonSeen, Shown
<1>5. QED
  BY <1>3, <1>4

\* What the readers see is determined by the progress of the gesture.
LEMMA ScreenIs == IndInv /\ PathInv /\ faults = 0 => \A f \in Finger : ScreenSeen[f] = ScreenAt(f)
<1> SUFFICES ASSUME IndInv, PathInv, faults = 0, NEW f \in Finger
             PROVE  ScreenSeen[f] = ScreenAt(f)
  OBVIOUS
<1>1. ScreenSeen[f] = IF Playable /\ f \in Fingers /\ Shown(f) THEN Place(seen.abs, Target(f)) ELSE << >>
  BY DEF ScreenSeen
<1>2. CASE ~Playable \/ f \notin Fingers
  BY <1>1, <1>2 DEF ScreenAt, Playing
<1>3. CASE Playable /\ f \in Fingers /\ ~Playing
  <2>1. AllUp
    BY <1>3, UpBetweenGestures DEF Playing, IndInv
  <2>2. Target(f) \in Slots
    BY SlotFacts DEF IndInv
  <2>3. ~Shown(f)
    BY <2>1, <2>2 DEF AllUp, Shown
  <2>4. QED
    BY <1>1, <1>3, <2>3 DEF ScreenAt
<1>4. CASE Playing /\ f \in Fingers
  <2>1. /\ Sound /\ Apart /\ Playable /\ stage \in {"press", "move", "release"} /\ stage \in Fingered
        /\ iter \in Nat /\ (stage = "press" => Rounds = 0) /\ (cmd.op = "tap" => stage # "move")
    BY <1>4, PlayingIs DEF Fingered
  <2>2. Shown(f) <=> \/ stage = "press" /\ Reported(f)
                     \/ stage = "move"
                     \/ stage = "release" /\ ~Reported(f)
    <3>1. \/ stage = "press" /\ Reported(f)
          \/ stage = "move"
          \/ stage = "release" /\ ~Reported(f)
          => Shown(f)
      BY <1>4, <2>1 DEF PathInv, SeenDown
    <3>2. stage = "press" /\ ~Reported(f) => ~Shown(f)
      BY <1>4, <2>1 DEF PathInv, NotYetDown, Shown
    <3>3. stage = "release" /\ Reported(f) => ~Shown(f)
      BY <1>4, ReleasedIsUp
    <3>4. QED
      BY <2>1, <3>1, <3>2, <3>3
  <2>3. (stage = "press" => Reported(f)) =>
          Place(seen.abs, Target(f)) = After(f, MovesBy(f, pos > Len(Calls)))
    BY <1>4, <2>1 DEF PathInv, OnSeenPath, Placed, Reported
  <2>4. MovesBy(f, pos > Len(Calls)) = Rounds + (IF stage = "move" /\ Reported(f) THEN 1 ELSE 0)
    BY DEF MovesBy, Rounds, Reported
  <2>5. CASE stage = "press"
    <3>1. MovesBy(f, pos > Len(Calls)) = 0
      BY <2>1, <2>4, <2>5
    <3>2. QED
      BY <1>1, <1>4, <2>1, <2>2, <2>3, <2>5, <3>1 DEF ScreenAt
  <2>6. CASE stage = "move"
    <3>1. MovesBy(f, pos > Len(Calls)) = IF Reported(f) THEN iter + 1 ELSE iter
      BY <2>1, <2>4, <2>6 DEF Rounds
    <3>2. QED
      BY <1>1, <1>4, <2>1, <2>2, <2>3, <2>6, <3>1 DEF ScreenAt
  <2>7. CASE stage = "release"
    <3>1. MovesBy(f, pos > Len(Calls)) = Rounds
      BY <2>1, <2>4, <2>7 DEF Rounds
    <3>2. QED
      BY <1>1, <1>4, <2>1, <2>2, <2>3, <2>7, <3>1 DEF ScreenAt
  <2>8. QED
    BY <2>1, <2>5, <2>6, <2>7
<1>5. QED
  BY <1>2, <1>3, <1>4 DEF Playing

---------------------------------------------------------------------------
(* Every step of orng is a step of Touchscreen or none.                    *)

\* The state of Touchscreen is made of the screen, the contacts left and the steps seen.
LEMMA SeenAt ==
  ASSUME IndInv, PathInv, faults = 0
  PROVE  /\ ScreenSeen = [f \in Finger |-> ScreenAt(f)]
         /\ LeftSeen = [f \in Finger |-> ContactsLeft(f)]
         /\ MovesSeen = [f \in Finger |-> StepsSeen(f)]
         /\ \A f \in Finger : ~Playing \/ f \notin Fingers =>
              ScreenAt(f) = << >> /\ ContactsLeft(f) = 0 /\ StepsSeen(f) = 0
<1>1. \A f \in Finger : ScreenSeen[f] = ScreenAt(f)
  BY ScreenIs
<1>2. QED
  BY <1>1 DEF ScreenSeen, LeftSeen, MovesSeen, ScreenAt, ContactsLeft, StepsSeen

\* The same of the next state.
LEMMA SeenAtNext ==
  ASSUME IndInv', PathInv', faults' = 0
  PROVE  /\ ScreenSeen' = [f \in Finger |-> ScreenAt(f)']
         /\ LeftSeen' = [f \in Finger |-> ContactsLeft(f)']
         /\ MovesSeen' = [f \in Finger |-> StepsSeen(f)']
         /\ \A f \in Finger : ~Playing' \/ f \notin Fingers' =>
              ScreenAt(f)' = << >> /\ ContactsLeft(f)' = 0 /\ StepsSeen(f)' = 0
<1>1. (IndInv /\ PathInv /\ faults = 0 => \A f \in Finger : ScreenSeen[f] = ScreenAt(f))'
  BY ScreenIs, PTL
<1>2. \A f \in Finger : ScreenSeen'[f] = ScreenAt(f)'
  BY <1>1
<1>3. QED
  BY <1>2 DEF ScreenSeen, LeftSeen, MovesSeen, ScreenAt, ContactsLeft, StepsSeen

\* A step that does not change the progress of any finger changes nothing that is seen.
LEMMA SeenKept ==
  ASSUME IndInv, PathInv, faults = 0, IndInv', PathInv', faults' = 0,
         Playing' <=> Playing, Playing => cmd' = cmd /\ Fingers' = Fingers,
         \A f \in Fingers : Playing =>
           /\ ScreenAt(f)' = ScreenAt(f)
           /\ ContactsLeft(f)' = ContactsLeft(f)
           /\ StepsSeen(f)' = StepsSeen(f)
  PROVE  UNCHANGED Readers!vars
<1>1. GestureSeen' = GestureSeen
  BY DEF GestureSeen, Asked
<1>2. \A f \in Finger : /\ ScreenAt(f)' = ScreenAt(f)
                        /\ ContactsLeft(f)' = ContactsLeft(f)
                        /\ StepsSeen(f)' = StepsSeen(f)
  BY SeenAt, SeenAtNext
<1>3. ScreenSeen' = ScreenSeen /\ LeftSeen' = LeftSeen /\ MovesSeen' = MovesSeen
  BY <1>2, SeenAt, SeenAtNext
<1>4. QED
  BY <1>1, <1>3, ReadersVars

\* The progress that a report makes: of the finger of the primitive, and of no other.
LEMMA Reporting ==
  ASSUME IndInv, PathInv, faults = 0, IndInv', Playing, write_event
  PROVE  /\ Playing' /\ Fingers' = Fingers /\ GestureSeen' = GestureSeen /\ faults' = faults
         /\ UNCHANGED <<cmd, stage, finger, iter>>
         /\ \A f, m : After(f, m)' = After(f, m)
         /\ \A f \in Fingers : Reported(f) <=> f < finger
         /\ \/ \A f \in Fingers : Reported(f)' <=> f < finger
            \/ \A f \in Fingers : Reported(f)' <=> f < finger \/ f = finger
<1>1. Going
  BY PlayingIs, GoingOn DEF Fingered
<1>2. /\ UNCHANGED <<flags, cmd, stage, finger, iter, faults>> /\ pos' = pos + 1 /\ dev' = dev
      /\ Apart' = Apart /\ Fingers' = Fingers /\ Len(Calls)' = Len(Calls)
  BY <1>1 DEF Going
<1>3. Playing' /\ GestureSeen' = GestureSeen
  BY <1>2 DEF Playing, Playable, TouchedBy, GestureSeen, Asked
<1>4. PICK n \in Nat : n = Len(Calls)
  BY <1>1, GoingEffect DEF IndInv
<1>5. pos <= n /\ pos \in Nat
  BY <1>1, <1>4, GoingEffect DEF IndInv
<1>6. \A f, m : After(f, m)' = After(f, m)
  BY <1>2 DEF After
<1>7. \A f : Reported(f) <=> f < finger \/ (f = finger /\ pos > n)
  BY <1>4 DEF Reported, Past
<1>8. \A f : Reported(f)' <=> f < finger \/ (f = finger /\ pos + 1 > n)
  BY <1>2, <1>4 DEF Reported, Past
<1>9. QED
  BY <1>2, <1>3, <1>5, <1>6, <1>7, <1>8

\* The report of a press is a finger coming down.
LEMMA PressReported ==
  ASSUME IndInv, PathInv, faults = 0, IndInv', PathInv', Playing, write_event, stage = "press",
         Reported(finger)'
  PROVE  Readers!Next
<1>1. PICK g \in Fingers : g = finger
  BY PlayingIs
<1>2. /\ Playing' /\ Fingers' = Fingers /\ GestureSeen' = GestureSeen /\ faults' = 0
      /\ UNCHANGED <<cmd, stage, finger, iter>>
      /\ \A f, m : After(f, m)' = After(f, m)
      /\ \A f \in Fingers : Reported(f) <=> f < g
      /\ \A f \in Fingers : Reported(f)' <=> f < g \/ f = g
      /\ ~(g < g) /\ g \in {0, 1} /\ Fingers \subseteq {0, 1} /\ iter \in Nat /\ cmd.n \in Int
      /\ cmd.op = "tap" => iter < cmd.n
      /\ cmd.op = "tap" => Fingers = {0}
  <2>1. g \in {0, 1} /\ Fingers \subseteq {0, 1} /\ iter \in Nat /\ cmd.n \in Int
        /\ (cmd.op = "tap" => iter < cmd.n)
    BY <1>1, PlayingIs
  <2>2. ~(g < g)
    BY <2>1
  <2>3. QED
    BY <1>1, <2>1, <2>2, Reporting DEF Fingers
<1>3. \A f \in Fingers :
        /\ ScreenAt(f) = IF f < g THEN After(f, 0) ELSE << >>
        /\ ScreenAt(f)' = IF f < g \/ f = g THEN After(f, 0) ELSE << >>
        /\ StepsSeen(f) = 0 /\ StepsSeen(f)' = 0
  BY <1>2 DEF ScreenAt, StepsSeen
<1>4. \A f \in Fingers :
        /\ ContactsLeft(f) = (IF cmd.op = "tap" THEN cmd.n - iter - 1 ELSE 0) + (IF f < g THEN 0 ELSE 1)
        /\ ContactsLeft(f)' = (IF cmd.op = "tap" THEN cmd.n - iter - 1 ELSE 0)
                                + (IF f < g \/ f = g THEN 0 ELSE 1)
  BY <1>2 DEF ContactsLeft
<1>5. /\ ScreenSeen = [f \in Finger |-> ScreenAt(f)]
      /\ LeftSeen = [f \in Finger |-> ContactsLeft(f)]
      /\ MovesSeen = [f \in Finger |-> StepsSeen(f)]
      /\ ScreenSeen' = [f \in Finger |-> ScreenAt(f)']
      /\ LeftSeen' = [f \in Finger |-> ContactsLeft(f)']
      /\ MovesSeen' = [f \in Finger |-> StepsSeen(f)']
      /\ \A f \in Finger : f \notin Fingers =>
           /\ ScreenAt(f) = << >> /\ ContactsLeft(f) = 0 /\ StepsSeen(f) = 0
           /\ ScreenAt(f)' = << >> /\ ContactsLeft(f)' = 0 /\ StepsSeen(f)' = 0
  BY <1>2, SeenAt, SeenAtNext
<1>6. Finger = {0, 1} /\ Fingers \subseteq Finger
  BY <1>2 DEF Finger
<1>7. MovesSeen' = MovesSeen
  BY <1>3, <1>5
<1>8. ScreenSeen[g] = << >> /\ ScreenSeen' = [ScreenSeen EXCEPT ![g] = After(g, 0)]
  BY <1>2, <1>3, <1>5, <1>6
<1>9. /\ LeftSeen[g] > 0 /\ LeftSeen' = [LeftSeen EXCEPT ![g] = @ - 1]
      /\ \A e \in Fingers : e < g => LeftSeen[e] = 0
  <2>1. \A f \in Fingers : f # g => ContactsLeft(f)' = ContactsLeft(f)
    BY <1>4
  <2>2. ContactsLeft(g)' = ContactsLeft(g) - 1 /\ ContactsLeft(g) > 0
    BY <1>2, <1>4
  <2>3. \A e \in Fingers : e < g => ContactsLeft(e) = 0
    BY <1>2, <1>4
  <2>4. QED
    BY <1>5, <1>6, <2>1, <2>2, <2>3
<1>10. QED
  BY <1>2, <1>7, <1>8, <1>9, ReadersDown DEF IndInv

\* The report of a move is a finger's next step.
LEMMA MoveReported ==
  ASSUME IndInv, PathInv, faults = 0, IndInv', PathInv', Playing, write_event, stage = "move",
         Reported(finger)'
  PROVE  Readers!Next
<1>1. PICK g \in Fingers : g = finger
  BY PlayingIs
<1>2. /\ Playing' /\ Fingers' = Fingers /\ GestureSeen' = GestureSeen /\ faults' = 0
      /\ UNCHANGED <<cmd, stage, finger, iter>>
      /\ \A f, m : After(f, m)' = After(f, m)
      /\ \A f \in Fingers : Reported(f) <=> f < g
      /\ \A f \in Fingers : Reported(f)' <=> f < g \/ f = g
      /\ ~(g < g) /\ g \in {0, 1} /\ Fingers \subseteq {0, 1} /\ iter \in Nat /\ cmd.n \in Int
      /\ cmd.op # "tap" /\ iter < cmd.n /\ TypeOK
  <2>1. g \in {0, 1} /\ Fingers \subseteq {0, 1} /\ iter \in Nat /\ cmd.n \in Int
        /\ cmd.op # "tap" /\ iter < cmd.n /\ TypeOK
    BY <1>1, PlayingIs
  <2>2. ~(g < g)
    BY <2>1
  <2>3. QED
    BY <1>1, <2>1, <2>2, Reporting
<1>3. \A f \in Fingers :
        /\ ScreenAt(f) = After(f, IF f < g THEN iter + 1 ELSE iter)
        /\ ScreenAt(f)' = After(f, IF f < g \/ f = g THEN iter + 1 ELSE iter)
        /\ ContactsLeft(f) = 0 /\ ContactsLeft(f)' = 0
  BY <1>2 DEF ScreenAt, ContactsLeft
<1>4. \A f \in Fingers :
        /\ StepsSeen(f) = iter + (IF f < g THEN 1 ELSE 0)
        /\ StepsSeen(f)' = iter + (IF f < g \/ f = g THEN 1 ELSE 0)
  BY <1>2 DEF StepsSeen
<1>5. /\ ScreenSeen = [f \in Finger |-> ScreenAt(f)]
      /\ LeftSeen = [f \in Finger |-> ContactsLeft(f)]
      /\ MovesSeen = [f \in Finger |-> StepsSeen(f)]
      /\ ScreenSeen' = [f \in Finger |-> ScreenAt(f)']
      /\ LeftSeen' = [f \in Finger |-> ContactsLeft(f)']
      /\ MovesSeen' = [f \in Finger |-> StepsSeen(f)']
      /\ \A f \in Finger : f \notin Fingers =>
           /\ ScreenAt(f) = << >> /\ ContactsLeft(f) = 0 /\ StepsSeen(f) = 0
           /\ ScreenAt(f)' = << >> /\ ContactsLeft(f)' = 0 /\ StepsSeen(f)' = 0
  BY <1>2, SeenAt, SeenAtNext
<1>6. Finger = {0, 1} /\ Fingers \subseteq Finger
  BY <1>2 DEF Finger
<1>7. LeftSeen' = LeftSeen /\ \A e \in Fingers : LeftSeen[e] = 0
  BY <1>3, <1>5, <1>6
<1>8. ScreenSeen' = [ScreenSeen EXCEPT ![g] = After(g, iter + 1)]
  BY <1>2, <1>3, <1>5, <1>6
<1>9. /\ MovesSeen[g] = iter /\ MovesSeen' = [MovesSeen EXCEPT ![g] = @ + 1]
      /\ \A e \in Fingers : MovesSeen[e] = iter + (IF e < g THEN 1 ELSE 0)
  <2>1. \A f \in Fingers : f # g => StepsSeen(f)' = StepsSeen(f)
    BY <1>4
  <2>2. StepsSeen(g) = iter /\ StepsSeen(g)' = StepsSeen(g) + 1
    BY <1>2, <1>4
  <2>3. QED
    BY <1>4, <1>5, <1>6, <2>1, <2>2
<1>10. ScreenSeen[g] # << >>
  <2>1. ScreenSeen[g] = After(g, iter)
    BY <1>2, <1>3, <1>5, <1>6
  <2>2. iter > 0 => cmd.n > 0
    BY <1>2
  <2>3. After(g, iter) = <<After(g, iter)[1], After(g, iter)[2]>>
    BY <1>2, <1>6, <2>2, AfterType
  <2>4. QED
    BY <2>1, <2>3
<1>11. iter + 1 <= Asked(cmd).steps
  BY <1>2, AskedIs
<1>12. QED
  BY <1>2, <1>7, <1>8, <1>9, <1>10, <1>11, ReadersMove

\* The report of a release is a finger going up.
LEMMA ReleaseReported ==
  ASSUME IndInv, PathInv, faults = 0, IndInv', PathInv', Playing, write_event, stage = "release",
         Reported(finger)'
  PROVE  Readers!Next
<1>1. PICK g \in Fingers : g = finger
  BY PlayingIs
<1>2. /\ Playing' /\ Fingers' = Fingers /\ GestureSeen' = GestureSeen /\ faults' = 0
      /\ UNCHANGED <<cmd, stage, finger, iter>>
      /\ \A f, m : After(f, m)' = After(f, m)
      /\ \A f \in Fingers : Reported(f) <=> f < g
      /\ \A f \in Fingers : Reported(f)' <=> f < g \/ f = g
      /\ ~(g < g) /\ g \in {0, 1} /\ Fingers \subseteq {0, 1} /\ iter \in Nat /\ cmd.n \in Int
      /\ (cmd.op # "tap" => iter = IF cmd.n > 0 THEN cmd.n ELSE 0) /\ TypeOK
      /\ cmd.op = "tap" => Fingers = {0}
  <2>1. g \in {0, 1} /\ Fingers \subseteq {0, 1} /\ iter \in Nat /\ cmd.n \in Int
        /\ (cmd.op # "tap" => iter = IF cmd.n > 0 THEN cmd.n ELSE 0) /\ TypeOK
    BY <1>1, PlayingIs
  <2>2. ~(g < g)
    BY <2>1
  <2>3. QED
    BY <1>1, <2>1, <2>2, Reporting DEF Fingers
<1>3. \A f \in Fingers :
        /\ ScreenAt(f) = IF f < g THEN << >> ELSE After(f, Rounds)
        /\ ScreenAt(f)' = IF f < g \/ f = g THEN << >> ELSE After(f, Rounds)
        /\ StepsSeen(f) = IF cmd.op = "tap" THEN 0 ELSE iter
        /\ StepsSeen(f)' = StepsSeen(f)
  BY <1>2 DEF ScreenAt, StepsSeen, Rounds
<1>4. \A f \in Fingers :
        /\ ContactsLeft(f) = IF cmd.op = "tap" THEN cmd.n - iter - 1 ELSE 0
        /\ ContactsLeft(f)' = ContactsLeft(f)
  BY <1>2 DEF ContactsLeft
<1>5. /\ ScreenSeen = [f \in Finger |-> ScreenAt(f)]
      /\ LeftSeen = [f \in Finger |-> ContactsLeft(f)]
      /\ MovesSeen = [f \in Finger |-> StepsSeen(f)]
      /\ ScreenSeen' = [f \in Finger |-> ScreenAt(f)']
      /\ LeftSeen' = [f \in Finger |-> ContactsLeft(f)']
      /\ MovesSeen' = [f \in Finger |-> StepsSeen(f)']
      /\ \A f \in Finger : f \notin Fingers =>
           /\ ScreenAt(f) = << >> /\ ContactsLeft(f) = 0 /\ StepsSeen(f) = 0
           /\ ScreenAt(f)' = << >> /\ ContactsLeft(f)' = 0 /\ StepsSeen(f)' = 0
  BY <1>2, SeenAt, SeenAtNext
<1>6. Finger = {0, 1} /\ Fingers \subseteq Finger
  BY <1>2 DEF Finger
<1>7. LeftSeen' = LeftSeen /\ MovesSeen' = MovesSeen
  BY <1>3, <1>4, <1>5
<1>8. ScreenSeen' = [ScreenSeen EXCEPT ![g] = << >>] /\ \A e \in Fingers : e < g => ScreenSeen[e] = << >>
  BY <1>2, <1>3, <1>5, <1>6
<1>9. \A e \in Fingers : e # g => LeftSeen[e] = 0
  BY <1>2, <1>4, <1>5, <1>6
<1>10. \A e \in Fingers : MovesSeen[e] = Asked(cmd).steps
  <2>1. Asked(cmd).steps = IF cmd.op = "tap" THEN 0 ELSE iter
    BY <1>2, AskedIs
  <2>2. QED
    BY <1>3, <1>5, <1>6, <2>1
<1>11. ScreenSeen[g] # << >>
  <2>1. ScreenSeen[g] = After(g, Rounds)
    BY <1>2, <1>3, <1>5, <1>6
  <2>2. Rounds \in Int /\ (Rounds > 0 => cmd.n > 0)
    BY <1>2 DEF Rounds
  <2>3. After(g, Rounds) = <<After(g, Rounds)[1], After(g, Rounds)[2]>>
    BY <1>2, <1>6, <2>2, AfterType
  <2>4. QED
    BY <2>1, <2>3
<1>12. QED
  BY <1>2, <1>7, <1>8, <1>9, <1>10, <1>11, ReadersLift

\* Writing an event is silent or a step of a finger.
LEMMA WriteIsStep ==
  ASSUME IndInv, PathInv, faults = 0, IndInv', PathInv', write_event
  PROVE  Readers!Next \/ UNCHANGED Readers!vars
<1>1. /\ UNCHANGED <<flags, cmd, stage, finger, iter, faults>> /\ dev' = dev /\ Fingers' = Fingers
  BY WriteFrame DEF IndInv
<1>2. Playing' <=> Playing
  BY <1>1 DEF Playing, Playable, Apart, TouchedBy
<1>3. CASE ~Playing
  BY <1>1, <1>2, <1>3, SeenKept
<1>4. CASE Playing /\ Reported(finger)'
  <2>1. stage \in {"press", "move", "release"}
    BY <1>4, PlayingIs
  <2>2. QED
    BY <1>4, <2>1, PressReported, MoveReported, ReleaseReported
<1>5. CASE Playing /\ ~Reported(finger)'
  <2>1. /\ \A f, m : After(f, m)' = After(f, m)
        /\ \A f \in Fingers : Reported(f)' <=> Reported(f)
    BY <1>5, Reporting, PlayingIs
  <2>2. \A f \in Fingers : /\ ScreenAt(f)' = ScreenAt(f)
                           /\ ContactsLeft(f)' = ContactsLeft(f)
                           /\ StepsSeen(f)' = StepsSeen(f)
    BY <1>1, <1>2, <1>5, <2>1 DEF ScreenAt, ContactsLeft, StepsSeen, Rounds
  <2>3. QED
    BY <1>1, <1>2, <1>5, <2>2, SeenKept
<1>6. QED
  BY <1>3, <1>4, <1>5

\* At the first event of a primitive the fingers before have been reported.
LEMMA FirstReported ==
  TypeOK /\ Control /\ stage \in Fingered /\ "TOUCH" \in flags /\ pos = 1 =>
    \A f \in Finger : Reported(f) <=> f < finger
BY AtFirst

\* A primitive that follows another shows what that one has shown; the last one of a
\* gesture ends it.
LEMMA ReturnIsStep ==
  ASSUME IndInv, PathInv, faults = 0, IndInv', PathInv', Return
  PROVE  Readers!Next \/ UNCHANGED Readers!vars
<1>1. /\ pos > Len(Calls) /\ pos' = 1 /\ stage \in Primitives
      /\ UNCHANGED <<dev, flags, cmd, faults>>
      /\ stage \notin Fingered => stage' = "idle"
  BY ReturnFrame DEF devVars
<1>2. /\ Playable' = Playable /\ Fingers' = Fingers /\ Asked(cmd)' = Asked(cmd) /\ faults' = 0
      /\ \A f, m : After(f, m)' = After(f, m)
  BY <1>1 DEF Playable, Apart, TouchedBy, Fingers, Asked, After
<1>3. CASE ~Playing
  <2>1. ~Playing'
    BY <1>1, <1>2, <1>3 DEF Playing, Fingered
  <2>2. QED
    BY <1>2, <1>3, <2>1, SeenKept
<1>4. CASE Playing
  <2>1. /\ Follows /\ stage \in {"press", "move", "release"} /\ TypeOK /\ Control /\ "TOUCH" \in flags
        /\ iter \in Nat /\ cmd.n \in Int /\ Fingers \subseteq {0, 1} /\ finger \in {0, 1}
        /\ cmd.op = "tap" => stage # "move" /\ iter < cmd.n
        /\ cmd.op # "tap" => (stage = "press" => iter = 0)
        /\ TypeOK' /\ Control' /\ stage \in Fingered
    BY <1>4, PlayingIs, FollowsIs DEF Fingered, IndInv
  <2>2. \A f \in Fingers : Reported(f) <=> f < finger + 1
    BY <1>1, <2>1, AtLast DEF Finger
  <2>3. stage' \in Fingered => \A f \in Fingers : Reported(f)' <=> f < finger'
    <3>1. (TypeOK /\ Control /\ stage \in Fingered /\ "TOUCH" \in flags /\ pos = 1 =>
             \A f \in Finger : Reported(f) <=> f < finger)'
      BY FirstReported, PTL
    <3>2. QED
      BY <1>1, <2>1, <3>1 DEF Finger
  <2>4. ~HasOtherFinger => \A f \in Fingers : Reported(f)
    <3>1. CASE cmd.op = "pinch"
      BY <2>1, <2>2, <3>1 DEF HasOtherFinger
    <3>2. CASE cmd.op # "pinch"
      BY <2>1, <2>2, <3>2 DEF Fingers
    <3>3. QED
      BY <3>1, <3>2
  <2>5. ASSUME stage' \in Fingered
        PROVE  \A f \in Fingers : /\ ScreenAt(f)' = ScreenAt(f)
                                  /\ ContactsLeft(f)' = ContactsLeft(f)
                                  /\ StepsSeen(f)' = StepsSeen(f)
    <3>1. Playing' /\ \A f \in Fingers : Reported(f)' <=> f < finger'
      BY <1>2, <1>4, <2>3, <2>5 DEF Playing
    <3>2. CASE HasOtherFinger /\ stage' = stage /\ finger' = 1 /\ iter' = iter
      <4>1. \A f \in Fingers : Reported(f)' <=> Reported(f)
        BY <2>2, <3>1, <3>2 DEF HasOtherFinger
      <4>2. QED
        BY <1>1, <1>2, <1>4, <3>1, <3>2, <4>1 DEF ScreenAt, ContactsLeft, StepsSeen, Rounds
    <3>3. CASE ~HasOtherFinger /\ finger' = 0
      <4>1. \A f \in Fingers : Reported(f) /\ ~Reported(f)'
        BY <2>1, <2>4, <3>1, <3>3
      <4>2. CASE stage = "press" /\ iter' = iter
                 /\ stage' = IF cmd.op \in {"drag", "pinch"} /\ cmd.n > 0 THEN "move" ELSE "release"
        <5>1. cmd.op = "tap" => stage' = "release"
          BY <4>2
        <5>2. Rounds' = 0 /\ (cmd.op # "tap" => iter = 0)
          BY <1>1, <2>1, <4>2 DEF Rounds
        <5>3. \A f \in Fingers : ScreenAt(f)' = ScreenAt(f)
          BY <1>1, <1>2, <1>4, <3>1, <4>1, <4>2, <5>1, <5>2 DEF ScreenAt
        <5>4. \A f \in Fingers : ContactsLeft(f)' = ContactsLeft(f)
          BY <1>1, <1>2, <1>4, <3>1, <4>1, <4>2 DEF ContactsLeft
        <5>5. \A f \in Fingers : StepsSeen(f)' = StepsSeen(f)
          BY <1>1, <1>2, <1>4, <3>1, <4>1, <4>2, <5>2 DEF StepsSeen
        <5>6. QED
          BY <5>3, <5>4, <5>5
      <4>3. CASE stage = "move" /\ iter' = iter + 1
                 /\ stage' = IF iter + 1 < cmd.n THEN "move" ELSE "release"
        <5>1. cmd.op # "tap" /\ stage' \in {"move", "release"}
          BY <2>1, <4>3
        <5>2. \A f \in Fingers : ScreenAt(f)' = ScreenAt(f)
          BY <1>1, <1>2, <1>4, <3>1, <4>1, <4>3, <5>1 DEF ScreenAt, Rounds
        <5>3. \A f \in Fingers : ContactsLeft(f)' = ContactsLeft(f)
          BY <1>1, <1>2, <1>4, <3>1, <4>1, <4>3, <5>1 DEF ContactsLeft
        <5>4. \A f \in Fingers : StepsSeen(f)' = StepsSeen(f)
          BY <1>1, <1>2, <1>4, <2>1, <3>1, <4>1, <4>3, <5>1 DEF StepsSeen
        <5>5. QED
          BY <5>2, <5>3, <5>4
      <4>4. CASE stage = "release" /\ cmd.op = "tap" /\ stage' = "press" /\ iter' = iter + 1
        <5>1. \A f \in Fingers : ScreenAt(f)' = ScreenAt(f)
          BY <1>1, <1>2, <1>4, <3>1, <4>1, <4>4 DEF ScreenAt
        <5>2. \A f \in Fingers : ContactsLeft(f)' = ContactsLeft(f)
          BY <1>1, <1>2, <1>4, <2>1, <3>1, <4>1, <4>4 DEF ContactsLeft
        <5>3. \A f \in Fingers : StepsSeen(f)' = StepsSeen(f)
          BY <1>1, <1>2, <1>4, <3>1, <4>1, <4>4 DEF StepsSeen
        <5>4. QED
          BY <5>1, <5>2, <5>3
      <4>5. QED
        BY <2>1, <2>5, <3>3, <4>2, <4>3, <4>4 DEF Follows, Fingered
    <3>4. QED
      BY <2>1, <3>2, <3>3 DEF Follows
  <2>6. CASE stage' \in Fingered
    <3>1. Playing'
      BY <1>2, <1>4, <2>6 DEF Playing
    <3>2. QED
      BY <1>1, <1>2, <1>4, <2>5, <2>6, <3>1, SeenKept
  <2>7. CASE stage' \notin Fingered
    <3>1. /\ ~HasOtherFinger /\ stage = "release" /\ stage' = "idle"
          /\ cmd.op = "tap" => ~(iter + 1 < cmd.n)
      BY <2>1, <2>7 DEF Follows, Fingered
    <3>2. ~Playing' /\ GestureSeen' = NoCmd
      BY <2>7 DEF Playing, GestureSeen
    <3>3. \A f \in Fingers : ScreenAt(f) = << >> /\ ContactsLeft(f) = 0
      <4>1. \A f \in Fingers : Reported(f)
        BY <2>4, <3>1
      <4>2. cmd.op = "tap" => cmd.n - iter - 1 = 0
        BY <2>1, <3>1
      <4>3. QED
        BY <1>4, <3>1, <4>1, <4>2 DEF ScreenAt, ContactsLeft
    <3>4. \A f \in Finger : ScreenAt(f) = << >> /\ ContactsLeft(f) = 0
      BY <3>3, SeenAt
    <3>5. \A f \in Finger : ScreenSeen[f] = << >> /\ LeftSeen[f] = 0
      BY <3>4, SeenAt
    <3>6. /\ ScreenSeen' = ScreenSeen /\ LeftSeen' = LeftSeen
          /\ MovesSeen' = [f \in Finger |-> 0]
      BY <1>2, <3>2, <3>4, SeenAt, SeenAtNext
    <3>7. QED
      BY <1>4, <2>1, <3>2, <3>5, <3>6, ReadersEnd
  <2>8. QED
    BY <2>6, <2>7
<1>5. QED
  BY <1>3, <1>4

\* A command begins a gesture, if it is one that the device can show.
LEMMA BeginIsStep ==
  ASSUME IndInv, PathInv, faults = 0, IndInv', PathInv', BeginCommand
  PROVE  Readers!Next \/ UNCHANGED Readers!vars
<1>1. PICK c \in Commands, st \in Stages \ {"move", "release"} :
        /\ Begin(c, st)
        /\ st = "press" => TouchedBy(c)
  BY BeginKinds
<1>2. /\ stage = "idle" /\ cmd' = c /\ stage' = st /\ finger' = 0 /\ iter' = 0 /\ pos' = 1
      /\ UNCHANGED <<dev, flags, faults>>
  BY <1>1 DEF Begin, devVars
<1>3. ~Playing /\ faults' = 0
  BY <1>2 DEF Playing, Fingered
<1>4. CASE ~Playing'
  BY <1>3, <1>4, SeenKept
<1>5. CASE Playing'
  <2>1. st = "press" /\ TouchedBy(c) /\ c.n \in Int
    BY <1>1, <1>2, <1>5, CommandsAssumption DEF Playing, Fingered, CommandType
  <2>2. GestureSeen = NoCmd /\ GestureSeen' = Asked(c)
    BY <1>2, <1>3, <1>5 DEF GestureSeen, Asked
  <2>3. Fingers' = Asked(c).fingers /\ Fingers' \subseteq {0, 1}
    BY <1>2 DEF Fingers, Asked, Finger
  <2>4. \A f \in Fingers' : ~Reported(f)'
    <3>1. (TypeOK /\ Control /\ stage \in Fingered /\ "TOUCH" \in flags /\ pos = 1 =>
             \A f \in Finger : Reported(f) <=> f < finger)'
      BY FirstReported, PTL
    <3>2. \A f \in Finger : Reported(f)' <=> f < 0
      BY <1>2, <1>5, <2>1, <3>1 DEF IndInv, Playing, Playable, Fingered
    <3>3. QED
      BY <2>3, <3>2 DEF Finger
  <2>5. \A f \in Fingers' :
          /\ ScreenAt(f)' = << >>
          /\ ContactsLeft(f)' = Asked(c).contacts
          /\ StepsSeen(f)' = 0
    <3>1. Asked(c).contacts = IF c.op = "tap" THEN c.n ELSE 1
      BY DEF Asked
    <3>2. \A f \in Fingers' : ContactsLeft(f)' = Asked(c).contacts
      BY <1>2, <1>5, <2>1, <2>4, <3>1 DEF ContactsLeft
    <3>3. \A f \in Fingers' : ScreenAt(f)' = << >> /\ StepsSeen(f)' = 0
      BY <1>2, <1>5, <2>1, <2>4 DEF ScreenAt, StepsSeen
    <3>4. QED
      BY <3>2, <3>3
  <2>6. /\ ScreenSeen' = ScreenSeen /\ MovesSeen' = MovesSeen
        /\ LeftSeen' = [f \in Finger |-> IF f \in Asked(c).fingers THEN Asked(c).contacts ELSE 0]
    BY <1>3, <2>3, <2>5, SeenAt, SeenAtNext
  <2>7. QED
    BY <2>1, <2>2, <2>6, ReadersBegin
<1>6. QED
  BY <1>4, <1>5

\* Every step keeps the promise as long as nothing fails.
LEMMA StepKeepsPromise ==
  IndInv /\ IndInv' /\ PathInv /\ PathInv' /\ faults = 0 /\ faults' = 0 /\ [Next]_vars =>
    [Readers!Next]_(Readers!vars)
<1> SUFFICES ASSUME IndInv, IndInv', PathInv, PathInv', faults = 0, faults' = 0, [Next]_vars
             PROVE  Readers!Next \/ UNCHANGED Readers!vars
  OBVIOUS
<1>1. CASE Start \/ Exit
  <2>1. ~Playing /\ ~Playing'
    BY <1>1 DEF Start, Exit, Playing, Fingered
  <2>2. QED
    BY <2>1, SeenKept
<1>2. CASE Kill \/ write_event_fails
  BY <1>2 DEF Kill, write_event_fails
<1>3. CASE BeginCommand
  BY <1>3, BeginIsStep
<1>4. CASE write_event
  BY <1>4, WriteIsStep
<1>5. CASE Return
  BY <1>5, ReturnIsStep
<1>6. CASE UNCHANGED vars
  <2>1. UNCHANGED <<dev, slot, abs, keys, seen, flags, trackingId, stage, cmd, finger, iter, pos>>
    BY <1>6 DEF vars, devVars, gestureVars
  <2>2. Playing' = Playing /\ Fingers' = Fingers
    BY <2>1 DEF Playing, Playable, Apart, TouchedBy, Fingers
  <2>3. \A f : Reported(f)' = Reported(f) /\ \A m : After(f, m)' = After(f, m)
    <3>1. Len(Calls)' = Len(Calls)
      BY <2>1 DEF Calls, Body
    <3>2. \A f : Reported(f)' = Reported(f)
      BY <2>1, <3>1, Zenon DEF Reported, Past
    <3>3. \A f, m : After(f, m)' = After(f, m)
      BY <2>1 DEF After
    <3>4. QED
      BY <3>2, <3>3
  <2>4. \A f \in Fingers : /\ ScreenAt(f)' = ScreenAt(f)
                           /\ ContactsLeft(f)' = ContactsLeft(f)
                           /\ StepsSeen(f)' = StepsSeen(f)
    BY <2>1, <2>2, <2>3 DEF ScreenAt, ContactsLeft, StepsSeen, Rounds
  <2>5. QED
    BY <2>1, <2>2, <2>4, SeenKept
<1>7. QED
  BY <1>1, <1>2, <1>3, <1>4, <1>5, <1>6 DEF Next

\* Before anything runs the readers see nothing.
LEMMA InitKeepsPromise == Init => Readers!Init
<1> SUFFICES ASSUME Init PROVE Readers!Init
  OBVIOUS
<1>1. ~Playing /\ ~Playable
  BY DEF Init, Playing, Playable, TouchedBy, NoCmd, Gestures
<1>2. QED
  BY <1>1 DEF Readers!Init, Readers!Up, Readers!Finger, Finger, GestureSeen, ScreenSeen, LeftSeen, MovesSeen,
              ContactsLeft, StepsSeen

\* On every device and for every script, as long as nothing fails, the readers see the
\* gestures of the script and nothing else: orng implements Touchscreen.
THEOREM FaultlessPlays == Spec /\ [](faults = 0) => PlaysGestures
<1>1. Init => Readers!Init
  BY InitKeepsPromise
<1>2. IndInv /\ IndInv' /\ PathInv /\ PathInv' /\ faults = 0 /\ (faults = 0)' /\ [Next]_vars =>
        [Readers!Next]_(Readers!vars)
  BY StepKeepsPromise
<1>3. QED
  BY <1>1, <1>2, Inductive, PathInductive, PTL DEF Spec, PlaysGestures, Readers!Spec

\* In particular where no fault is ever allowed, as in the runs.
THEOREM PlaysAsAsked == ASSUME MaxFaults = 0 PROVE Spec => PlaysGestures
<1>1. TypeOK => faults = 0
  BY FaultsType DEF TypeOK
<1>2. QED
  BY <1>1, TypeCorrect, FaultlessPlays, PTL

===========================================================================
