--------------------------- MODULE InputDevice ---------------------------
(***************************************************************************)
(* The kernel's side of /dev/input/eventN, as orng.c relies on it.  It is  *)
(* not in this repository: the input core keeps the last value of every    *)
(* axis and key, one set of multi-touch axes per slot, drops events the    *)
(* device does not announce and values that do not change, and shows the   *)
(* readers (the window system) the whole state at each SYN_REPORT.         *)
(***************************************************************************)
EXTENDS Integers

CONSTANTS
  KeyCodes,    \* the codes of keys, but for that of a touch, BTN_TOUCH
  Devices      \* the touchscreens and keypads a system may have

MTAxes == {"ABS_MT_POSITION_X", "ABS_MT_POSITION_Y", "ABS_MT_PRESSURE",
           "ABS_MT_TOUCH_MAJOR", "ABS_MT_WIDTH_MAJOR", "ABS_MT_TRACKING_ID"}
Axes   == MTAxes \cup {"ABS_X", "ABS_Y"}
Codes  == Axes \cup {"ABS_MT_SLOT", "SYN_REPORT", "SYN_MT_REPORT"}

\* A device: how many contacts it tracks, the axes (with ABS_MT_SLOT) and the
\* keys it announces, and its name.  One without slots has a single contact; one
\* with several announces the axis that selects among them.
DeviceType == [slots: Nat \ {0}, abs: SUBSET (Axes \cup {"ABS_MT_SLOT"}),
               keys: SUBSET (KeyCodes \cup {"BTN_TOUCH"}), name: STRING]

ASSUME KeyCodesAssumption == KeyCodes \cap (Codes \cup {"BTN_TOUCH", "none"}) = {}
ASSUME DevicesAssumption ==
  /\ Devices \subseteq DeviceType
  /\ \A d \in Devices : d.slots > 1 => "ABS_MT_SLOT" \in d.abs

VARIABLES
  dev,     \* the device that is plugged in
  slot,    \* the slot that axis events go to, kept between processes
  abs,     \* the last value of every axis, by slot
  keys,    \* the keys that are down
  seen     \* what the readers know: abs and keys at the last SYN_REPORT

devVars == <<dev, slot, abs, keys, seen>>

Slots == 0..(dev.slots - 1)

DeviceTypeOK ==
  /\ dev \in Devices
  /\ slot \in Slots
  /\ abs \in [Slots -> [Axes -> Int]]
  /\ keys \subseteq dev.keys
  /\ seen \in [abs: [Slots -> [Axes -> Int]], keys: SUBSET dev.keys]

DeviceInit ==
  /\ dev \in Devices
  /\ slot = 0
  /\ abs = [s \in Slots |-> [a \in Axes |-> IF a = "ABS_MT_TRACKING_ID" THEN -1 ELSE 0]]
  /\ keys = {}
  /\ seen = [abs |-> abs, keys |-> keys]

---------------------------------------------------------------------------
(* One event written to the device node, by its kind.                      *)

SelectSlot(ev) ==
  /\ ev.code = "ABS_MT_SLOT"
  /\ slot' = IF ev.code \in dev.abs /\ ev.value \in Slots THEN ev.value ELSE slot
  /\ UNCHANGED <<abs, keys, seen>>

SetAxis(ev) ==
  /\ ev.code \in Axes
  /\ abs' = IF ev.code \in dev.abs THEN [abs EXCEPT ![slot][ev.code] = ev.value] ELSE abs
  /\ UNCHANGED <<slot, keys, seen>>

SetKey(ev) ==
  /\ ev.code \notin Codes
  /\ keys' = IF ev.code \in dev.keys /\ ev.value # 0
             THEN keys \cup {ev.code} ELSE keys \ {ev.code}
  /\ UNCHANGED <<slot, abs, seen>>

Report(ev) ==
  /\ ev.code \in {"SYN_REPORT", "SYN_MT_REPORT"}
  /\ seen' = IF ev.code = "SYN_REPORT" THEN [abs |-> abs, keys |-> keys] ELSE seen
  /\ UNCHANGED <<slot, abs, keys>>

Deliver(ev) ==
  /\ SelectSlot(ev) \/ SetAxis(ev) \/ SetKey(ev) \/ Report(ev)
  /\ UNCHANGED dev

\* A contact is down in a slot, or was in the last report.
InContact(values, s) == values[s]["ABS_MT_TRACKING_ID"] # -1

===========================================================================
