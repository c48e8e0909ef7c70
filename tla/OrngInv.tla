------------------------------ MODULE OrngInv ------------------------------
(***************************************************************************)
(* The inductive invariant behind NoStuckContact: at each event of each    *)
(* primitive, the slots that may be in contact and the button.             *)
(***************************************************************************)
EXTENDS Orng

\* The number of events before the body of the primitive: the slot change.
Prefix == IF cmd.op = "pinch" /\ stage \in Fingered THEN 1 ELSE 0

\* The slots the gesture is responsible for: those of its fingers, until the
\* release of the finger; "lifted" says that the current one has taken effect.
HeldUntil(lifted) ==
  LET Lifted == (IF finger = 1 THEN {Target(0)} ELSE {})
                  \cup (IF lifted THEN {Target(finger)} ELSE {})
  IN  IF "MT" \notin flags \/ stage \notin Fingered THEN {}
      ELSE IF stage # "release" THEN Targets
      ELSE Targets \ Lifted

\* In the kernel a release takes effect at the tracking id, its first event; for
\* the readers, at the report, its last.
Held     == HeldUntil(pos > Prefix + 1)
HeldSeen == HeldUntil(pos > Len(Calls))

Control ==
  /\ stage = "move" => cmd.n > 0
  /\ finger = 1 => cmd.op = "pinch" /\ stage \in Fingered \cup {"dead"}

\* A pinch's events go to the slot of its finger once that is selected.
SlotChosen ==
  cmd.op = "pinch" /\ stage \in Fingered /\ pos > 1 => slot = Target(finger)

ContactsHeld ==
  \A s \in Slots : InContact(abs, s) => s \in Held /\ "ABS_MT_TRACKING_ID" \in dev.abs
ContactsSeen == \A s \in Slots : InContact(seen.abs, s) => s \in HeldSeen

\* A gesture may find the button down from a keydown, and releases it all the same.
ButtonHeld ==
  "BTN_TOUCH" \in keys =>
    /\ keyed \/ (stage \in Fingered /\ "TOUCH" \in flags)
    /\ stage = "release" /\ "TOUCH" \in flags => pos < Len(Calls)
ButtonSeen ==
  "BTN_TOUCH" \in seen.keys =>
    stage \in Fingered /\ "TOUCH" \in flags /\ (stage = "release" => pos <= Len(Calls))

Touch == SlotChosen /\ ContactsHeld /\ ContactsSeen /\ ButtonHeld /\ ButtonSeen

IndInv == TypeOK /\ Control /\ (faults = 0 => Touch)

---------------------------------------------------------------------------
(* The invariant behind FreshContact: ids in use are below the next one.   *)

IdsBelow ==
  runs <= 1 \/ faults = 0 => \A s \in Slots : Contact(s) < trackingId

Untouched ==
  runs = 0 => stage = "exited" /\ \A s \in Slots : Contact(s) = -1

IdInv == IdsBelow /\ Untouched

---------------------------------------------------------------------------
(* What a process has yet to do on a device that it shares with another.   *)

\* It knows the device, unless its probe failed.
Known == faults = 0 /\ stage \in Primitives \cup {"idle"} => flags = Probed

\* A contact of the kernel or of the readers.
TouchAt(s) == InContact(abs, s) \/ InContact(seen.abs, s)

\* Only who takes the device for a multi-touch one makes contacts.
TouchNeedsMT ==
  (\E s \in Slots : TouchAt(s)) => "MT" \in Probed /\ "ABS_MT_TRACKING_ID" \in dev.abs

\* It is at a finger, the last one not yet past a point of its release.
Before(point) == stage \in Fingered /\ (stage = "release" /\ ~HasOtherFinger => point)

\* It will drop the button, and report that.
DropsButton == "TOUCH" \in flags /\ Before(pos < Len(Calls))
ReportsDrop == "TOUCH" \in flags /\ Before(pos <= Len(Calls))

\* It will lift a contact, from the slot that is selected then, and report that.
LiftsContact == "MT" \in flags /\ Before(pos <= Prefix + 1)
ReportsLift  == "MT" \in flags /\ Before(pos <= Len(Calls))

\* It will select the slot of its second finger.
SelectsLast == "MT" \in flags /\ cmd.op = "pinch" /\ Before(pos = 1)

===========================================================================
