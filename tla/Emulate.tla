----------------------------- MODULE Emulate -----------------------------
(***************************************************************************)
(* From a device to its simulation: mkdevinfo prints an entry, the kernel  *)
(* module is built with it and sets a device up from it.                   *)
(***************************************************************************)
EXTENDS MkDevInfo, SetupBits

vars == <<mkvars, setupvars>>

Init == MkInit /\ SetupInit

\* The entry is appended to the table and the module is built and loaded.
Build ==
  /\ status = "exited"
  /\ Identify(out[1])
  /\ UNCHANGED mkvars

Next ==
  \/ MkNext /\ UNCHANGED setupvars
  \/ Build
  \/ SetupNext /\ UNCHANGED mkvars

Spec == Init /\ [][Next]_vars

---------------------------------------------------------------------------

\* The bits of an array of the simulated device.
Simulated(a) ==
  {b \in 0..(BITS_PER_BYTE * Size[a] - 1) : BITS_PER_BYTE * Kernel[a] + b \in indev.memory}

\* The event type an array belongs to: what a device says of another type means nothing.
TypeOf == [keybit |-> EV_KEY, relbit |-> EV_REL, absbit |-> EV_ABS, mscbit |-> EV_MSC,
           ledbit |-> EV_LED, led |-> EV_LED, sndbit |-> EV_SND, ffbit |-> EV_FF,
           swbit |-> EV_SW, rep |-> EV_REP, key |-> EV_KEY, snd |-> EV_SND, sw |-> EV_SW]

\* What a description says of the array of a type it has.
Says(info, a) ==
  IF a = "evbit" \/ TypeOf[a] \in info.bits["evbit"] THEN info.bits[a] ELSE {}

\* The variables have their types, and no description, read, printed or built in, says more
\* than its arrays hold (sizeof in read_devinfo and write_devinfo).
TypeOK ==
  /\ device \in Devices
  /\ args \subseteq Options
  /\ status \in Statuses
  /\ query \in 1..(Len(Queries) + 1)
  /\ \A info \in {devinfo, entry} \cup {out[n] : n \in 1..Len(out)} :
       IsInfo(info) /\ WithinArrays(info)
  /\ stage \in Setups
  /\ copied \in 0..Len(Sections)
  /\ indev.memory \cup indev.spilled \subseteq Nat

\* What mkdevinfo prints agrees with the device in its id, its names, the arrays that fit
\* a row of write_u8_buf, the first row of its keys, its repeat rate and its limits,
\* although every one of them passes two lists of conditions.  The states of switches and
\* sounds are printed as they are or not at all: it hangs on one switch each, as the number
\* of an event type is looked up among the states, that of sounds even behind theirs.
RowsSurvive ==
  out # << >> =>
    /\ out[1].id = device.id /\ out[1].phys = device.phys /\ out[1].uniq = device.uniq
    /\ \A a \in {"evbit", "relbit", "absbit", "mscbit", "ledbit", "led", "sndbit", "swbit", "rep"} :
         out[1].bits[a] = Says(device, a)
    /\ \A a \in {"keybit", "key"} :
         out[1].bits[a] \cap 0..63 = Says(device, a) \cap 0..63
    /\ out[1].bits["sw"]  = IF 5 \in Says(device, "sw") THEN Says(device, "sw") ELSE {}
    /\ out[1].bits["snd"] = IF 10 \in Says(device, "sw") THEN Says(device, "snd") ELSE {}
    /\ \A i \in Says(device, "absbit") : out[1].limits[i] = device.limits[i]

\* A simulated device that is ready has every capability, every state and every limit that
\* its entry gives it: no loop of orng_setup_device undoes the work of another.
NothingLost ==
  stage = "ready" =>
    /\ \A a \in DOMAIN Kernel : Says(entry, a) \subseteq Simulated(a)
    /\ indev.rep = Says(entry, "rep")
    /\ \A i \in Says(entry, "absbit") : indev.limits[i] = entry.limits[i]

\* Its keys and event types are exactly those of its entry.  The loop over evbit runs on
\* into keybit, and this holds as the two structures lay out these arrays alike.
KeysAsDescribed ==
  stage = "ready" =>
    /\ Simulated("evbit") = entry.bits["evbit"]
    /\ Simulated("keybit") = entry.bits["keybit"]

\* The loops, each eight times too long, set nothing behind the arrays of a device that is
\* described without states and scan codes, and without a repeat rate if it has effects or
\* switches: behind an array of its entry they find only arrays that keep a distance.
Stateless(info) == \A a \in {"key", "led", "snd", "sw", "keymap"} : info.bits[a] = {}
StaysInside ==
  /\ stage = "ready" /\ Stateless(entry)
  /\ entry.bits["rep"] = {} \/ entry.bits["evbit"] \cap {EV_FF, EV_SW} = {}
  => indev.spilled = {}

\* It has the keys and the axes of the device that mkdevinfo read, as README.md:69 promises
\* to emulate arbitrary devices: write_u8_buf leaves out every ninth byte of the keys, and
\* the loop of orng_setup_device over them runs on into the axes.
SameDevice ==
  stage = "ready" =>
    /\ Simulated("keybit") = Says(device, "keybit")
    /\ Simulated("absbit") = Says(device, "absbit")

---------------------------------------------------------------------------
(* The inductive invariant: what has been read, printed and copied so far. *)

\* Whether a query is made of the device, and whether a field has been asked for.
Applicable(q) == q.types \subseteq device.bits["evbit"] /\ (q.field = "keymap" => "s" \in args)
Got(field)    == \E j \in 1..(query - 1) : Queries[j].field = field /\ Applicable(Queries[j])

ReadSoFar ==
  /\ \A a \in Arrays : devinfo.bits[a] = IF Got(a) THEN device.bits[a] ELSE {}
  /\ \A f \in {"id", "phys", "uniq"} : Got(f) => devinfo[f] = device[f]
  /\ Got("limits") => \A i \in devinfo.bits["absbit"] :
       i \in DOMAIN devinfo.limits /\ devinfo.limits[i] = device.limits[i]

\* How far the two programs are, and what the entry is.
Progress ==
  /\ status \in {"starting", "reading"} => query \in 1..Len(Queries)
  /\ status \in {"naming", "writing"} => query = Len(Queries) + 1
  /\ out = IF status = "exited" THEN << out[1] >> ELSE << >>
  /\ IF stage = "absent" THEN copied = 0 /\ indev.memory = {} /\ indev.spilled = {}
                         ELSE status = "exited" /\ entry = out[1]
  /\ stage = "copying" => copied < Len(Sections)
  /\ stage = "ready" => copied = Len(Sections)

\* The entry has no keys unless it has the event type, and limits for all of its axes.
EntryComplete ==
  out # << >> =>
    /\ out[1].bits["keybit"] # {} => EV_KEY \in out[1].bits["evbit"]
    /\ Says(out[1], "absbit") \subseteq DOMAIN out[1].limits

\* What is set behind the arrays comes from an array that was copied.
SpilledSoFar ==
  indev.spilled \subseteq
    UNION {Spilled(Sections[j].field) :
             j \in {k \in 1..copied : Applies(Sections[k]) /\ Sections[k].field # "rep"}}

CopiedSoFar ==
  /\ \A j \in 1..copied :
       Applies(Sections[j]) /\ Sections[j].field # "rep" => Placed(Sections[j].field) \subseteq indev.memory
  /\ copied >= 5 /\ Applies(Sections[5]) => indev.limits = Limits
  /\ indev.rep = IF stage = "ready" THEN Says(entry, "rep") ELSE {}

\* Where the event types and the keys are, the memory of the simulated device agrees with
\* the entry: they lie at the same places in both.
KeysInPlace ==
  \A p \in indev.memory :
    /\ p < BITS_PER_BYTE * Kernel["keybit"] => p \in entry.bits["evbit"]
    /\ p \in BITS_PER_BYTE * Kernel["keybit"]..(BITS_PER_BYTE * Kernel["relbit"] - 1)
         => p - BITS_PER_BYTE * Kernel["keybit"] \in entry.bits["keybit"]

EmulateInv ==
  /\ TypeOK /\ DOMAIN indev = {"id", "name", "phys", "uniq", "memory", "spilled", "rep", "limits"}
  /\ Progress /\ ReadSoFar /\ RowsSurvive /\ EntryComplete /\ CopiedSoFar
  /\ KeysInPlace /\ SpilledSoFar

===========================================================================
