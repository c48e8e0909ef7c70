------------------------------ MODULE OrngPath ------------------------------
(***************************************************************************)
(* The inductive invariant of a gesture that nothing disturbs: after each  *)
(* event, where each finger is for the kernel and where the readers see    *)
(* it, whatever earlier runs have left on the device.                      *)
(***************************************************************************)
EXTENDS OrngInv, OrngRefines

\* A gesture that this run plays, or has just played, without a fault.
Sound == ok /\ flags = Probed /\ "TOUCH" \in flags /\ TouchedBy(cmd)

\* The device and the run know each other until something fails, and a device without
\* tracking ids never has a contact.
Unharmed ==
  /\ faults = 0 => ok /\ (stage \in Primitives \cup {"idle"} => flags = Probed)
  /\ "ABS_MT_TRACKING_ID" \notin dev.abs =>
       \A s \in Slots : ~InContact(abs, s) /\ ~InContact(seen.abs, s)

\* Which primitives a gesture comes to, and with which counter.
Counted ==
  /\ stage \in Primitives \ Fingered => ~TouchedBy(cmd)
  /\ stage \in Fingered =>
       /\ TouchedBy(cmd)
       /\ cmd.op = "tap" => stage # "move" /\ iter < cmd.n
       /\ cmd.op # "tap" => /\ stage = "press" => iter = 0
                            /\ stage = "move" => iter < cmd.n
                            /\ stage = "release" => iter = IF cmd.n > 0 THEN cmd.n ELSE 0

---------------------------------------------------------------------------
(* Contacts and the button.                                                *)

\* In the kernel, the tracking id of finger f has been written.
Tracked(f) == Past(f, pos > Prefix + 1)

ContactsMade ==
  Sound /\ "MT" \in flags /\ "ABS_MT_TRACKING_ID" \in dev.abs =>
    \A f \in Fingers :
      \/ stage = "press" /\ Tracked(f)
      \/ stage = "move"
      \/ stage = "release" /\ ~Tracked(f) /\ Apart
      => InContact(abs, Target(f))

ContactsLifted ==
  Sound /\ "MT" \in flags =>
    \A f \in Fingers :
      stage = "idle" \/ (stage = "release" /\ Tracked(f)) => ~InContact(abs, Target(f))

ButtonWritten ==
  Sound =>
    /\ \/ stage = "press" /\ pos >= Len(Calls)
       \/ stage = "move"
       \/ stage = "release" /\ pos < Len(Calls) /\ Apart
       => "BTN_TOUCH" \in keys \/ "MT" \in flags
    /\ stage = "idle" \/ (stage = "release" /\ pos >= Len(Calls)) => "BTN_TOUCH" \notin keys

\* While nothing has ever failed, a finger that has not been pressed is not down, though the
\* button may be, from a keydown that the readers have not seen.
NotYetDown ==
  faults = 0 /\ Sound /\ Apart /\ stage = "press" =>
    \A f \in Fingers :
      /\ "MT" \in flags /\ ~Tracked(f) => ~InContact(abs, Target(f))
      /\ "MT" \in flags /\ ~Reported(f) => ~InContact(seen.abs, Target(f))
      /\ "MT" \notin flags /\ ~Reported(f) => "BTN_TOUCH" \notin seen.keys

\* The readers see a finger from the report of its press to that of its release.
SeenDown ==
  Sound /\ Playable =>
    \A f \in Fingers :
      \/ stage = "press" /\ Reported(f)
      \/ stage = "move"
      \/ stage = "release" /\ ~Reported(f)
      => Shown(f)

---------------------------------------------------------------------------
(* Places.                                                                 *)

\* The current primitive has written coordinate k (1 for X, 2 for Y).
Written(k) == pos > Prefix + k + (IF stage = "press" /\ "MT" \in flags THEN 1 ELSE 0)

\* A press puts a finger somewhere only when it has come past the point in question; a
\* move takes it a step further there.
Placed(f, point)  == stage = "press" => Past(f, point)
MovesBy(f, point) ==
  (IF cmd.op = "tap" THEN 0 ELSE iter) + (IF stage = "move" /\ Past(f, point) THEN 1 ELSE 0)

OnKernelPath ==
  Sound /\ Apart /\ stage \in Fingered =>
    \A f \in Fingers, k \in {1, 2} :
      Placed(f, Written(k)) =>
        Place(abs, Target(f))[k] = After(f, MovesBy(f, Written(k)))[k]

OnSeenPath ==
  Sound /\ Apart /\ stage \in Fingered =>
    \A f \in Fingers :
      Placed(f, pos > Len(Calls)) =>
        Place(seen.abs, Target(f)) = After(f, MovesBy(f, pos > Len(Calls)))

\* After its last event the readers know all that a primitive has written.
AllReported ==
  Sound /\ (stage = "idle" \/ (stage \in Fingered /\ pos > Len(Calls))) =>
    seen = [abs |-> abs, keys |-> keys]

PathInv ==
  /\ Unharmed /\ Counted
  /\ ok => SlotChosen
  /\ ContactsMade /\ ContactsLifted /\ ButtonWritten /\ NotYetDown /\ SeenDown
  /\ ButtonHasContact
  /\ OnKernelPath /\ OnSeenPath /\ AllReported

===========================================================================
