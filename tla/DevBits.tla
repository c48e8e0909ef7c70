----------------------------- MODULE DevBits -----------------------------
(***************************************************************************)
(* The bit arrays of a device description, struct orng_device_info, and of *)
(* struct input_dev.  An array is the set of its bits that are 1, a bit of *)
(* a structure is counted from the structure's evbit, so that a read or a  *)
(* write that leaves its array meets the array that lies there.            *)
(***************************************************************************)
EXTENDS Integers, Sequences

EV_KEY == 1
EV_REL == 2
EV_ABS == 3
EV_MSC == 4
EV_SW  == 5
EV_LED == 17
EV_SND == 18
EV_REP == 20
EV_FF  == 21

BITS_PER_BYTE == 8

\* The arrays of a description: their sizes in bytes, and the bytes they start at.
Size == [evbit |-> 4, keybit |-> 96, relbit |-> 2, absbit |-> 8, mscbit |-> 1, ledbit |-> 2,
         sndbit |-> 1, ffbit |-> 16, swbit |-> 2, rep |-> 8, key |-> 96, led |-> 2,
         snd |-> 1, sw |-> 2, keymap |-> 6144]
Start == [evbit |-> 0, keybit |-> 4, relbit |-> 100, absbit |-> 102, mscbit |-> 110,
          ledbit |-> 111, sndbit |-> 113, ffbit |-> 114, swbit |-> 130, rep |-> 132,
          key |-> 140, led |-> 236, snd |-> 238, sw |-> 239, keymap |-> 244]

Arrays == DOMAIN Size
Axes == 0..63

Fields == {"id", "name", "phys", "uniq", "bits", "limits"}

IsInfo(info) ==
  /\ DOMAIN info = Fields
  /\ info.id \in Nat
  /\ {info.name, info.phys, info.uniq} \subseteq BOOLEAN
  /\ info.bits \in [Arrays -> SUBSET Nat]
  /\ DOMAIN info.limits \subseteq Axes
  /\ \A i \in DOMAIN info.limits : info.limits[i] \in Nat

\* What a description is before anything is known of the device.
Blank == [id |-> 0, name |-> FALSE, phys |-> FALSE, uniq |-> FALSE,
          bits |-> [a \in Arrays |-> {}], limits |-> << >>]

\* Every bit of an array lies in the array.
WithinArrays(info) ==
  \A a \in Arrays : info.bits[a] \subseteq 0..(BITS_PER_BYTE * Size[a] - 1)

---------------------------------------------------------------------------

Memory(info) == UNION {{BITS_PER_BYTE * Start[a] + b : b \in info.bits[a]} : a \in Arrays}

\* The macro does not compare the bit with the size of the array.
TEST_ARRAY_BIT(info, a, bit) == BITS_PER_BYTE * Start[a] + bit \in Memory(info)

\* It multiplies by the bits of a byte twice.
NBITS_IN_ARRAY(a) == (Size[a] * BITS_PER_BYTE) * BITS_PER_BYTE

\* The arrays of struct input_dev on a machine whose longs have 4 bytes.  The states of
\* keys, LEDs, sounds and switches lie together elsewhere: counted from there, on a
\* line of their own that starts behind the capabilities.
Capabilities == [evbit |-> 0, keybit |-> 4, relbit |-> 100, absbit |-> 104, mscbit |-> 112,
                 ledbit |-> 116, sndbit |-> 120, ffbit |-> 124, swbit |-> 140]
CapabilityBytes == 144
States == [key |-> 144, led |-> 240, snd |-> 244, sw |-> 248]
StateBytes == 108

Kernel == [a \in DOMAIN Capabilities \cup DOMAIN States |->
             IF a \in DOMAIN Capabilities THEN Capabilities[a] ELSE States[a]]

\* Where the arrays end that lie together: a bit that is put behind is another field's.
End(a) == BITS_PER_BYTE * (CapabilityBytes + IF a \in DOMAIN States THEN StateBytes ELSE 0)

===========================================================================
