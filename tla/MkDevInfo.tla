---------------------------- MODULE MkDevInfo ----------------------------
(***************************************************************************)
(* The program mkdevinfo: it asks a device, one ioctl after the other, for *)
(* what the device can do, and prints an entry for the table of the kernel *)
(* module.                                                                 *)
(***************************************************************************)
EXTENDS DevBits

CONSTANT Devices    \* the devices it may be run on

ASSUME DevicesAssumption ==
  \A d \in Devices : IsInfo(d) /\ WithinArrays(d) /\ d.bits["absbit"] \subseteq DOMAIN d.limits

VARIABLES
  device,   \* the device behind the input file
  args,     \* the options given on the command line
  status,   \* how far the program is
  query,    \* the next query of read_devinfo
  devinfo,  \* the description read so far
  out       \* what was printed: an entry as the compiler reads it, or nothing

mkvars == <<device, args, status, query, devinfo, out>>

Options == {"d", "i", "s"}
Statuses == {"starting", "reading", "naming", "writing", "exited", "failed", "crashed"}

MkInit ==
  /\ device \in Devices
  /\ args \in SUBSET Options
  /\ status = "starting"
  /\ query = 1
  /\ devinfo = Blank
  /\ out = << >>

---------------------------------------------------------------------------
(* Reading the device.                                                     *)

\* A query for an array, made if the device has all the event types of the set.
Query(a, types) == [field |-> a, types |-> types]

Queries ==
  << Query("id", {}), Query("evbit", {}),
     Query("keybit", {EV_KEY}), Query("key", {EV_KEY}), Query("keymap", {EV_KEY}),
     Query("relbit", {EV_REL}), Query("absbit", {EV_ABS}), Query("limits", {EV_ABS}),
     Query("mscbit", {EV_MSC}), Query("ledbit", {EV_LED}), Query("led", {EV_LED}),
     Query("sndbit", {EV_SND}), Query("snd", {EV_SND, EV_SW}),
     Query("ffbit", {EV_FF}), Query("swbit", {EV_SW}), Query("sw", {EV_SW}),
     Query("rep", {EV_REP}), Query("name", {}), Query("phys", {}), Query("uniq", {}) >>

Asked(q) ==
  /\ \A t \in q.types : TEST_ARRAY_BIT(devinfo, "evbit", t)
  /\ q.field = "keymap" => "s" \in args

\* The description with the answer: the limits are asked for axis by axis.
Answered(q) ==
  CASE q.field \in Arrays  -> [devinfo EXCEPT !.bits[q.field] = device.bits[q.field]]
    [] q.field = "limits"  -> [devinfo EXCEPT !.limits =
                                 [i \in devinfo.bits["absbit"] |-> device.limits[i]]]
    [] OTHER               -> [devinfo EXCEPT ![q.field] = device[q.field]]

\* The program needs a name and an input file that opens.
open ==
  /\ status = "starting"
  /\ \/ {"d", "i"} \subseteq args /\ status' = "reading"
     \/ status' = "failed"
  /\ UNCHANGED <<device, args, query, devinfo, out>>

\* An interrupted query for a name is made again, any other that fails ends the program.
read_devinfo ==
  /\ status = "reading"
  /\ \/ /\ Asked(Queries[query])
        /\ devinfo' = Answered(Queries[query])
        /\ query' = query + 1
     \/ /\ ~Asked(Queries[query])
        /\ query' = query + 1
        /\ UNCHANGED devinfo
     \/ /\ Asked(Queries[query])
        /\ UNCHANGED <<query, devinfo>>
  /\ status' = IF query' = query THEN "failed"
               ELSE IF query = Len(Queries) THEN "naming" ELSE "reading"
  /\ UNCHANGED <<device, args, out>>

\* A device without a name gives a null pointer, whose length is asked for.
cname_of_dev ==
  /\ status = "naming"
  /\ status' \in IF devinfo.name THEN {"writing", "failed"} ELSE {"crashed"}
  /\ UNCHANGED <<device, args, query, devinfo, out>>

---------------------------------------------------------------------------
(* Printing the entry.                                                     *)

\* A variant whose rows have seven elements.
Rows_Seven(bits, width) ==
  {LET e == b \div width IN (e - e \div 8) * width + (b % width) :
     b \in {c \in bits : (c \div width) % 8 # 7}}

\* The elements as the compiler counts them: both loops of write_u8_buf and write_u32_buf
\* step on at the end of a row of eight, over the element behind it.
Rows(bits, width) ==
  {LET e == b \div width IN (e - e \div 9) * width + (b % width) :
     b \in {c \in bits : (c \div width) % 9 # 8}}

\* A variant that prints all of the field.
Source_Uncut(a) == devinfo.bits[IF a = "ffbit" THEN "keybit" ELSE a]

\* What is printed under the name of an array, as much as the array holds: keys for effects.
Source(a) ==
  {b \in devinfo.bits[IF a = "ffbit" THEN "keybit" ELSE a] : b < BITS_PER_BYTE * Size[a]}

\* The condition under which an array is printed.
Printed(a) ==
  LET has(type) == TEST_ARRAY_BIT(devinfo, "evbit", type)
  IN  CASE a = "evbit"                -> TRUE
        [] a \in {"keybit", "key"}    -> has(EV_KEY)
        [] a = "keymap"               -> has(EV_KEY) /\ "s" \in args
        [] a = "relbit"               -> has(EV_REL)
        [] a = "absbit"               -> has(EV_ABS)
        [] a = "mscbit"               -> has(EV_MSC)
        [] a \in {"ledbit", "led"}    -> has(EV_LED)
        [] a = "sndbit"               -> has(EV_SND)
        [] a = "ffbit"                -> has(EV_FF)
        [] a = "swbit"                -> has(EV_SW)
        [] a = "rep"                  -> has(EV_REP)
        [] a = "snd"                  -> TEST_ARRAY_BIT(devinfo, "snd", EV_SND)
        [] a = "sw"                   -> TEST_ARRAY_BIT(devinfo, "sw", EV_SW)

\* The two numbers of rep are printed one by one, all other arrays in rows.
Compiled(a) ==
  IF ~Printed(a) THEN {}
  ELSE CASE a = "rep"    -> Source(a)
         [] a = "keymap" -> Rows(Source(a), 4 * BITS_PER_BYTE)
         [] OTHER        -> Rows(Source(a), BITS_PER_BYTE)

write_devinfo ==
  /\ status = "writing"
  /\ out' = << [devinfo EXCEPT !.bits = [a \in Arrays |-> Compiled(a)],
                               !.limits = IF TEST_ARRAY_BIT(devinfo, "evbit", EV_ABS)
                                          THEN devinfo.limits ELSE << >>] >>
  /\ status' = "exited"
  /\ UNCHANGED <<device, args, query, devinfo>>

MkNext == open \/ read_devinfo \/ cname_of_dev \/ write_devinfo

===========================================================================
