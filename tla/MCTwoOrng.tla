----------------------------- MODULE MCTwoOrng -----------------------------
(***************************************************************************)
(* Two short scripts on one device.                                        *)
(***************************************************************************)
EXTENDS TwoOrng

TwoSlots == [slots |-> 2, abs |-> MTAxes \cup {"ABS_MT_SLOT"}, keys |-> {"BTN_TOUCH"},
             name |-> "touch"]
SingleTouch == [slots |-> 1, abs |-> {"ABS_X", "ABS_Y"}, keys |-> {"BTN_TOUCH"}, name |-> "touch"]
SharedDevices == {TwoSlots, SingleTouch}

At(p) == [f \in Finger |-> p]
Tap   == [NoCmd EXCEPT !.op = "tap", !.from = At(<<1, 1>>), !.to = At(<<1, 1>>), !.n = 2]
Drag  == [NoCmd EXCEPT !.op = "drag", !.from = At(<<2, 2>>), !.to = At(<<4, 4>>), !.n = 1]
Pinch == [NoCmd EXCEPT !.op = "pinch", !.from = At(<<3, 3>>), !.to = At(<<5, 5>>), !.n = 1]

\* A keydown of BTN_TOUCH, which no report follows.
Press == [NoCmd EXCEPT !.op = "keydown", !.key = "BTN_TOUCH"]

SharedScript == {Tap, Drag, Pinch, Press}

===========================================================================
