---------------------------- MODULE SetupBits ----------------------------
(***************************************************************************)
(* orng_setup_device: the simulated device takes over, array by array,     *)
(* what its entry in the table says.                                       *)
(***************************************************************************)
EXTENDS DevBits

VARIABLES
  stage,   \* how far the setup is
  entry,   \* the description of the device in the table
  copied,  \* the arrays that were copied, or passed over
  indev    \* the simulated device: its names and id, its arrays and what was set behind
           \* them, its axes' limits

setupvars == <<stage, entry, copied, indev>>

Setups == {"absent", "copying", "ready", "failed"}

SetupInit ==
  /\ stage = "absent"
  /\ entry = Blank
  /\ copied = 0
  /\ indev = [id |-> 0, name |-> FALSE, phys |-> FALSE, uniq |-> FALSE,
              memory |-> {}, spilled |-> {}, rep |-> {}, limits |-> << >>]

\* An array is copied if the entry has the event type, evbit always.
Section(a, types) == [field |-> a, types |-> types]

Sections ==
  << Section("evbit", {}), Section("keybit", {EV_KEY}), Section("key", {EV_KEY}),
     Section("relbit", {EV_REL}), Section("absbit", {EV_ABS}), Section("mscbit", {EV_MSC}),
     Section("ledbit", {EV_LED}), Section("led", {EV_LED}),
     Section("sndbit", {EV_SND}), Section("snd", {EV_SND}), Section("ffbit", {EV_FF}),
     Section("swbit", {EV_SW}), Section("sw", {EV_SW}), Section("rep", {EV_REP}) >>

\* A variant that takes the bytes of an array for its bits.
Found_Bytes(a) ==
  LET memory == Memory(entry)
  IN  {i \in 0..(Size[a] - 1) : BITS_PER_BYTE * Start[a] + i \in memory}

\* The bits of the structure that a loop of NBITS_IN_ARRAY rounds finds set.
Found(a) ==
  LET memory == Memory(entry)
  IN  {i \in 0..(NBITS_IN_ARRAY(a) - 1) : BITS_PER_BYTE * Start[a] + i \in memory}

\* A variant that counts the bits from one.
Reached_FromOne(a) == {BITS_PER_BYTE * Kernel[a] + i + 1 : i \in Found(a)}

\* Where they end up: in an array of the simulated device, or in whatever lies behind the
\* last one.
Reached(a) == {BITS_PER_BYTE * Kernel[a] + i : i \in Found(a)}
Placed(a)  == {p \in Reached(a) : p < End(a)}
Spilled(a) == Reached(a) \ Placed(a)

\* The limits of the axes that are copied, read from the table or zero if it has none.
Limits ==
  [i \in Found("absbit") \cap Axes |-> IF i \in DOMAIN entry.limits THEN entry.limits[i] ELSE 0]

\* The id and the names come before the arrays.
Identify(description) ==
  /\ stage = "absent"
  /\ stage' = "copying"
  /\ entry' = description
  /\ indev' = [indev EXCEPT !.id = description.id, !.name = description.name,
                            !.phys = description.phys, !.uniq = description.uniq]
  /\ UNCHANGED copied

\* A variant that does not look at the event types.
Applies_Always(s) == TRUE

Applies(s) == \A t \in s.types : TEST_ARRAY_BIT(entry, "evbit", t)

Done == copied' = copied + 1 /\ stage' = IF copied' = Len(Sections) THEN "ready" ELSE "copying"

Skip ==
  /\ stage = "copying"
  /\ ~Applies(Sections[copied + 1])
  /\ Done
  /\ UNCHANGED <<entry, indev>>

Copy ==
  /\ stage = "copying"
  /\ Applies(Sections[copied + 1])
  /\ LET a == Sections[copied + 1].field
     IN  indev' = IF a = "rep" THEN [indev EXCEPT !.rep = entry.bits["rep"]]
                  ELSE [indev EXCEPT !.memory  = @ \cup Placed(a),
                                     !.spilled = @ \cup Spilled(a),
                                     !.limits  = IF a = "absbit" THEN Limits ELSE @]
  /\ Done
  /\ UNCHANGED entry

\* There may be no memory for the limits.
kzalloc_fails ==
  /\ stage = "copying"
  /\ Sections[copied + 1].field = "absbit"
  /\ Applies(Sections[copied + 1])
  /\ stage' = "failed"
  /\ UNCHANGED <<entry, copied, indev>>

SetupNext == Skip \/ Copy \/ kzalloc_fails

===========================================================================
