---------------------------- MODULE MCEmulate ----------------------------
(***************************************************************************)
(* The first touchscreen of the table as the device had it, a handset with *)
(* sounds and switches, a keyboard, a mouse, one without a name, and one   *)
(* device for every set of six of the event types.                         *)
(***************************************************************************)
EXTENDS Emulate

Device(name, bits, limits) ==
  [id |-> 1, name |-> name, phys |-> TRUE, uniq |-> FALSE, limits |-> limits,
   bits |-> [a \in Arrays |-> IF a \in DOMAIN bits THEN bits[a] ELSE {}]]

Touchscreen ==
  Device(TRUE, [evbit |-> {0, EV_KEY, EV_ABS}, keybit |-> {102, 158, 217}, key |-> {158},
                absbit |-> {48, 50, 52, 53, 54, 57, 58}],
         [i \in {48, 50, 52, 53, 54, 57, 58} |-> i + 200])

Handset ==
  Device(TRUE, [evbit |-> {0, EV_KEY, EV_SW, EV_SND, EV_LED}, keybit |-> {1, 63, 107, 116},
                swbit |-> {2, 5, 10}, sw |-> {5, 10}, sndbit |-> {1, 2}, snd |-> {1},
                ledbit |-> {0, 9}, led |-> {9}], << >>)

Keyboard ==
  Device(TRUE, [evbit |-> {0, EV_KEY, EV_MSC, EV_LED, EV_REP, EV_FF}, keybit |-> {1, 30, 70, 767},
                key |-> {30}, mscbit |-> {4}, ledbit |-> {0, 1}, led |-> {1},
                rep |-> {1, 3, 37}, ffbit |-> {80}, keymap |-> {0, 257, 320}], << >>)

Mouse ==
  Device(TRUE, [evbit |-> {0, EV_KEY, EV_REL, EV_SND}, keybit |-> {272, 273}, relbit |-> {0, 1, 8},
                sndbit |-> {2}, snd |-> {2}], << >>)

Nameless ==
  Device(FALSE, [evbit |-> {0, EV_ABS}, absbit |-> {0, 1}], [i \in {0, 1} |-> 9])

\* It has bits of all types, whether it has the type or not.
Mixed(types) ==
  Device(TRUE, [evbit |-> {0} \cup types, keybit |-> {2, 63, 64, 72, 300}, key |-> {2, 64},
                absbit |-> {0, 8, 63}, swbit |-> {0, 5, 15}, sw |-> {5}, sndbit |-> {0, 7},
                snd |-> {7}, ledbit |-> {3, 15}, led |-> {15}, rep |-> {0, 33}],
         [i \in {0, 8, 63} |-> i + 1])

OneDevice == {Touchscreen}

AllDevices ==
  {Touchscreen, Handset, Keyboard, Mouse, Nameless}
    \cup {Mixed(types) : types \in SUBSET {EV_KEY, EV_ABS, EV_SW, EV_SND, EV_LED, EV_REP}}

===========================================================================
