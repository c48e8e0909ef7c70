---------------------------- MODULE Orng_proofs ----------------------------
(***************************************************************************)
(* Proofs about Orng, for every device, script and bound: types, the       *)
(* inductive invariant of OrngInv, and that nothing stays touched.         *)
(***************************************************************************)
EXTENDS OrngInv, TLAPS, SequenceTheorems

---------------------------------------------------------------------------
(* What the primitives of orng write, for every point, id and key.         *)

\* The events a process may write; "none" is the key of a command without one.
EventType == [code: Codes \cup KeyCodes \cup {"BTN_TOUCH", "none"}, value: Int]
\* The codes that say which contact is meant or whether there is one.
SlotCodes == {"ABS_MT_SLOT", "ABS_MT_TRACKING_ID"}

\* Tuples of members of S are sequences over S.
LEMMA SingleType == ASSUME NEW S, NEW a \in S PROVE <<a>> \in Seq(S)
OBVIOUS

\* The same for pairs.
LEMMA PairType == ASSUME NEW S, NEW a \in S, NEW b \in S PROVE <<a, b>> \in Seq(S)
OBVIOUS

\* The same for triples.
LEMMA TripleType ==
  ASSUME NEW S, NEW a \in S, NEW b \in S, NEW c \in S PROVE <<a, b, c>> \in Seq(S)
OBVIOUS

\* Every primitive is a sequence of events.
LEMMA PrimitiveTypes ==
  ASSUME NEW f, NEW id \in Int, NEW p \in Int \X Int, NEW k \in KeyCodes \cup {"BTN_TOUCH", "none"}
  PROVE  /\ execute_press(f, id, p) \in Seq(EventType)
         /\ execute_move(f, p) \in Seq(EventType)
         /\ execute_release(f) \in Seq(EventType)
         /\ execute_reset(f) \in Seq(EventType)
         /\ execute_keydown(k) \in Seq(EventType)
         /\ execute_keyup(k) \in Seq(EventType)
<1>1. \A v \in Int, c \in Codes \cup KeyCodes \cup {"BTN_TOUCH", "none"} : Ev(c, v) \in EventType
  BY DEF Ev, EventType
<1>2. \A q \in Int \X Int : Point(f, q) \in Seq(EventType)
  <2>1. XAxis(f) \in Codes /\ YAxis(f) \in Codes
    BY DEF XAxis, YAxis, Codes, Axes, MTAxes
  <2>2. \A q \in Int \X Int : Ev(XAxis(f), q[1]) \in EventType /\ Ev(YAxis(f), q[2]) \in EventType
    BY <1>1, <2>1
  <2>3. QED
    BY <2>2, PairType DEF Point
<1>3. \A x, y, z \in Int : Contour(x, y, z) \in Seq(EventType)
  <2>1. ASSUME NEW x \in Int, NEW y \in Int, NEW z \in Int
        PROVE  /\ Ev("ABS_MT_PRESSURE", x) \in EventType
               /\ Ev("ABS_MT_TOUCH_MAJOR", y) \in EventType
               /\ Ev("ABS_MT_WIDTH_MAJOR", z) \in EventType
    BY <1>1 DEF Codes, Axes, MTAxes
  <2>2. QED
    BY <2>1, TripleType DEF Contour
<1>4. Touching \in Seq(EventType) /\ Lifting \in Seq(EventType)
  <2>1. /\ Ev("BTN_TOUCH", 1) \in EventType /\ Ev("BTN_TOUCH", 0) \in EventType
        /\ Ev("SYN_REPORT", 0) \in EventType
    BY <1>1 DEF Codes
  <2>2. QED
    BY <2>1, PairType DEF Touching, Lifting
<1>5. MtReport(f) \in Seq(EventType)
  <2>1. Ev("SYN_MT_REPORT", 0) \in EventType
    BY <1>1 DEF Codes
  <2>2. QED
    BY <2>1, SingleType DEF MtReport
<1>6. /\ \A x \in Int : <<Ev("ABS_MT_TRACKING_ID", x)>> \in Seq(EventType)
      /\ <<Ev("SYN_REPORT", 0)>> \in Seq(EventType)
  <2>1. /\ \A x \in Int : Ev("ABS_MT_TRACKING_ID", x) \in EventType
        /\ Ev("SYN_REPORT", 0) \in EventType
    BY <1>1 DEF Codes, Axes, MTAxes
  <2>2. QED
    BY <2>1, SingleType
<1> DEFINE contour == Contour(127, 127, 4)
           zero == Contour(0, 0, 0)
<1>7. contour \in Seq(EventType) /\ zero \in Seq(EventType) /\ Point(f, <<0, 0>>) \in Seq(EventType)
  BY <1>2, <1>3, <<0, 0>> \in Int \X Int
<1>8. execute_press(f, id, p) \in Seq(EventType)
  BY <1>2, <1>4, <1>5, <1>6, <1>7, ConcatProperties DEF execute_press
<1>9. execute_move(f, p) \in Seq(EventType)
  <2>1. Point(f, p) \o contour \in Seq(EventType)
    BY <1>2, <1>7, ConcatProperties
  <2>2. Point(f, p) \o contour \o MtReport(f) \in Seq(EventType)
    BY <1>5, <2>1, ConcatProperties
  <2>3. QED
    BY <1>2, <1>6, <2>2, ConcatProperties DEF execute_move
<1>10. execute_release(f) \in Seq(EventType)
  BY <1>4, <1>5, <1>6, ConcatProperties DEF execute_release
<1>11. execute_reset(f) \in Seq(EventType)
  BY <1>7, ConcatProperties DEF execute_reset
<1>12. execute_keydown(k) \in Seq(EventType) /\ execute_keyup(k) \in Seq(EventType)
  <2>1. Ev(k, 1) \in EventType /\ Ev(k, 0) \in EventType
    BY <1>1
  <2>2. QED
    BY <2>1, SingleType DEF execute_keydown, execute_keyup
<1>13. QED
  BY <1>8, <1>9, <1>10, <1>11, <1>12

\* A press starts with the tracking id and ends with the report.
LEMMA PressEvents ==
  ASSUME NEW f \in Classes, NEW id \in Nat, NEW p \in Int \X Int,
         NEW b, b = execute_press(f, id, p)
  PROVE  /\ \A j \in 1..Len(b) :
              /\ b[j].code \in Codes \cup {"BTN_TOUCH"}
              /\ "TOUCH" \in f
              /\ b[j].code \in SlotCodes <=> "MT" \in f /\ j = 1
              /\ b[j].code = "ABS_MT_TRACKING_ID" => b[j].value = id
              /\ b[j].code # "ABS_MT_SLOT"
              /\ b[j].code = "SYN_REPORT" => j = Len(b)
<1>1. CASE f = {}
  BY <1>1 DEF execute_press
<1>2. CASE f = {"TOUCH"}
  <2>1. Len(b) = 4
    BY <1>2 DEF execute_press, Point, XAxis, YAxis, Touching
  <2>2. /\ b[1] = Ev("ABS_X", p[1]) /\ b[2] = Ev("ABS_Y", p[2])
        /\ b[3] = Ev("BTN_TOUCH", 1) /\ b[4] = Ev("SYN_REPORT", 0)
    BY <1>2 DEF execute_press, Point, XAxis, YAxis, Touching
  <2>3. \A j \in 1..Len(b) : b[j].code \in Codes \cup {"BTN_TOUCH"}
    BY <2>1, <2>2 DEF Ev, Codes, Axes, MTAxes
  <2>4. \A j \in 1..Len(b) : b[j].code \in SlotCodes <=> FALSE
    BY <2>1, <2>2 DEF Ev, SlotCodes
  <2>5. \A j \in 1..Len(b) : b[j].code = "ABS_MT_TRACKING_ID" => b[j].value = id
    BY <2>1, <2>2 DEF Ev
  <2>6. \A j \in 1..Len(b) : b[j].code # "ABS_MT_SLOT"
    BY <2>1, <2>2 DEF Ev
  <2>7. \A j \in 1..Len(b) : b[j].code = "SYN_REPORT" => j = Len(b)
    BY <2>1, <2>2 DEF Ev
  <2>8. QED
    BY <1>2, <2>1, <2>2, <2>3, <2>4, <2>5, <2>6, <2>7 DEF Ev
<1>3. CASE f = {"TOUCH", "MT"}
  <2>1. Len(b) = 8
    BY <1>3 DEF execute_press, Point, XAxis, YAxis, Contour, MtReport, Touching
  <2>2. /\ b[1] = Ev("ABS_MT_TRACKING_ID", id) /\ b[2] = Ev("ABS_MT_POSITION_X", p[1])
        /\ b[3] = Ev("ABS_MT_POSITION_Y", p[2]) /\ b[4] = Ev("ABS_MT_PRESSURE", 127)
        /\ b[5] = Ev("ABS_MT_TOUCH_MAJOR", 127) /\ b[6] = Ev("ABS_MT_WIDTH_MAJOR", 4)
        /\ b[7] = Ev("BTN_TOUCH", 1) /\ b[8] = Ev("SYN_REPORT", 0)
    BY <1>3 DEF execute_press, Point, XAxis, YAxis, Contour, MtReport, Touching
  <2>3. \A j \in 1..Len(b) : b[j].code \in Codes \cup {"BTN_TOUCH"}
    BY <2>1, <2>2 DEF Ev, Codes, Axes, MTAxes
  <2>4. \A j \in 1..Len(b) : b[j].code \in SlotCodes <=> j = 1
    BY <2>1, <2>2 DEF Ev, SlotCodes
  <2>5. \A j \in 1..Len(b) : b[j].code = "ABS_MT_TRACKING_ID" => b[j].value = id
    BY <2>1, <2>2 DEF Ev
  <2>6. \A j \in 1..Len(b) : b[j].code # "ABS_MT_SLOT"
    BY <2>1, <2>2 DEF Ev
  <2>7. \A j \in 1..Len(b) : b[j].code = "SYN_REPORT" => j = Len(b)
    BY <2>1, <2>2 DEF Ev
  <2>8. QED
    BY <1>3, <2>1, <2>2, <2>3, <2>4, <2>5, <2>6, <2>7, SMTT(30) DEF Ev
<1>4. CASE f = {"TOUCH", "MT", "MT_SYNC"}
  <2>1. Len(b) = 9
    BY <1>4 DEF execute_press, Point, XAxis, YAxis, Contour, MtReport, Touching
  <2>2. /\ b[1] = Ev("ABS_MT_TRACKING_ID", id) /\ b[2] = Ev("ABS_MT_POSITION_X", p[1])
        /\ b[3] = Ev("ABS_MT_POSITION_Y", p[2]) /\ b[4] = Ev("ABS_MT_PRESSURE", 127)
        /\ b[5] = Ev("ABS_MT_TOUCH_MAJOR", 127) /\ b[6] = Ev("ABS_MT_WIDTH_MAJOR", 4)
        /\ b[7] = Ev("SYN_MT_REPORT", 0) /\ b[8] = Ev("BTN_TOUCH", 1)
        /\ b[9] = Ev("SYN_REPORT", 0)
    BY <1>4 DEF execute_press, Point, XAxis, YAxis, Contour, MtReport, Touching
  <2>3. \A j \in 1..Len(b) : b[j].code \in Codes \cup {"BTN_TOUCH"}
    BY <2>1, <2>2 DEF Ev, Codes, Axes, MTAxes
  <2>4. \A j \in 1..Len(b) : b[j].code \in SlotCodes <=> j = 1
    BY <2>1, <2>2 DEF Ev, SlotCodes
  <2>5. \A j \in 1..Len(b) : b[j].code = "ABS_MT_TRACKING_ID" => b[j].value = id
    BY <2>1, <2>2 DEF Ev
  <2>6. \A j \in 1..Len(b) : b[j].code # "ABS_MT_SLOT"
    BY <2>1, <2>2 DEF Ev
  <2>7. \A j \in 1..Len(b) : b[j].code = "SYN_REPORT" => j = Len(b)
    BY <2>1, <2>2 DEF Ev
  <2>8. QED
    BY <1>4, <2>1, <2>2, <2>3, <2>4, <2>5, <2>6, <2>7, SMTT(30) DEF Ev
<1>5. QED
  BY <1>1, <1>2, <1>3, <1>4 DEF Classes

\* A move touches neither slot, contact nor button, and ends with the report.
LEMMA MoveEvents ==
  ASSUME NEW f \in Classes, NEW p \in Int \X Int,
         NEW b, b = execute_move(f, p)
  PROVE  /\ \A j \in 1..Len(b) :
              /\ b[j].code \in Codes \ SlotCodes
              /\ b[j].code = "SYN_REPORT" => j = Len(b)
<1>1. CASE f = {}
  BY <1>1 DEF execute_move
<1>2. CASE f = {"TOUCH"}
  <2>1. Len(b) = 3
    BY <1>2 DEF execute_move, Point, XAxis, YAxis
  <2>2. /\ b[1] = Ev("ABS_X", p[1]) /\ b[2] = Ev("ABS_Y", p[2])
        /\ b[3] = Ev("SYN_REPORT", 0)
    BY <1>2 DEF execute_move, Point, XAxis, YAxis
  <2>3. \A j \in 1..Len(b) : b[j].code \in Codes \ SlotCodes
    BY <2>1, <2>2 DEF Ev, Codes, Axes, MTAxes, SlotCodes
  <2>4. \A j \in 1..Len(b) : b[j].code = "SYN_REPORT" => j = Len(b)
    BY <2>1, <2>2 DEF Ev
  <2>5. QED
    BY <1>2, <2>1, <2>2, <2>3, <2>4 DEF Ev
<1>3. CASE f = {"TOUCH", "MT"}
  <2>1. Len(b) = 6
    BY <1>3 DEF execute_move, Point, XAxis, YAxis, Contour, MtReport
  <2>2. /\ b[1] = Ev("ABS_MT_POSITION_X", p[1]) /\ b[2] = Ev("ABS_MT_POSITION_Y", p[2])
        /\ b[3] = Ev("ABS_MT_PRESSURE", 127) /\ b[4] = Ev("ABS_MT_TOUCH_MAJOR", 127)
        /\ b[5] = Ev("ABS_MT_WIDTH_MAJOR", 4) /\ b[6] = Ev("SYN_REPORT", 0)
    BY <1>3 DEF execute_move, Point, XAxis, YAxis, Contour, MtReport
  <2>3. \A j \in 1..Len(b) : b[j].code \in Codes \ SlotCodes
    BY <2>1, <2>2 DEF Ev, Codes, Axes, MTAxes, SlotCodes
  <2>4. \A j \in 1..Len(b) : b[j].code = "SYN_REPORT" => j = Len(b)
    BY <2>1, <2>2 DEF Ev
  <2>5. QED
    BY <1>3, <2>1, <2>2, <2>3, <2>4 DEF Ev
<1>4. CASE f = {"TOUCH", "MT", "MT_SYNC"}
  <2>1. Len(b) = 7
    BY <1>4 DEF execute_move, Point, XAxis, YAxis, Contour, MtReport
  <2>2. /\ b[1] = Ev("ABS_MT_POSITION_X", p[1]) /\ b[2] = Ev("ABS_MT_POSITION_Y", p[2])
        /\ b[3] = Ev("ABS_MT_PRESSURE", 127) /\ b[4] = Ev("ABS_MT_TOUCH_MAJOR", 127)
        /\ b[5] = Ev("ABS_MT_WIDTH_MAJOR", 4) /\ b[6] = Ev("SYN_MT_REPORT", 0)
        /\ b[7] = Ev("SYN_REPORT", 0)
    BY <1>4 DEF execute_move, Point, XAxis, YAxis, Contour, MtReport
  <2>3. \A j \in 1..Len(b) : b[j].code \in Codes \ SlotCodes
    BY <2>1, <2>2 DEF Ev, Codes, Axes, MTAxes, SlotCodes
  <2>4. \A j \in 1..Len(b) : b[j].code = "SYN_REPORT" => j = Len(b)
    BY <2>1, <2>2 DEF Ev
  <2>5. QED
    BY <1>4, <2>1, <2>2, <2>3, <2>4 DEF Ev
<1>5. QED
  BY <1>1, <1>2, <1>3, <1>4 DEF Classes

\* A release starts with tracking id -1, and ends with the button and the report.
LEMMA ReleaseEvents ==
  ASSUME NEW f \in Classes, NEW b, b = execute_release(f)
  PROVE  /\ \A j \in 1..Len(b) :
              /\ b[j].code \in Codes \cup {"BTN_TOUCH"}
              /\ b[j].code \in SlotCodes <=> "MT" \in f /\ j = 1
              /\ b[j].code = "ABS_MT_TRACKING_ID" => b[j].value = -1
              /\ b[j].code = "BTN_TOUCH" => b[j].value = 0 /\ j = Len(b) - 1
              /\ b[j].code = "SYN_REPORT" => j = Len(b)
         /\ "TOUCH" \in f => /\ Len(b) > 1
                            /\ b[Len(b) - 1] = Ev("BTN_TOUCH", 0)
                            /\ b[Len(b)] = Ev("SYN_REPORT", 0)
         /\ "MT" \in f => Len(b) > 2 /\ b[1] = Ev("ABS_MT_TRACKING_ID", -1)
<1>1. CASE f = {}
  BY <1>1 DEF execute_release
<1>2. CASE f = {"TOUCH"}
  <2>1. Len(b) = 2
    BY <1>2 DEF execute_release, Lifting
  <2>2. /\ b[1] = Ev("BTN_TOUCH", 0) /\ b[2] = Ev("SYN_REPORT", 0)
    BY <1>2 DEF execute_release, Lifting
  <2>3. \A j \in 1..Len(b) : b[j].code \in Codes \cup {"BTN_TOUCH"}
    BY <2>1, <2>2 DEF Ev, Codes, Axes, MTAxes
  <2>4. \A j \in 1..Len(b) : b[j].code \in SlotCodes <=> FALSE
    BY <2>1, <2>2 DEF Ev, SlotCodes
  <2>5. \A j \in 1..Len(b) : b[j].code = "ABS_MT_TRACKING_ID" => b[j].value = -1
    BY <2>1, <2>2 DEF Ev
  <2>6. \A j \in 1..Len(b) : b[j].code = "BTN_TOUCH" => b[j].value = 0 /\ j = Len(b) - 1
    BY <2>1, <2>2 DEF Ev
  <2>7. \A j \in 1..Len(b) : b[j].code = "SYN_REPORT" => j = Len(b)
    BY <2>1, <2>2 DEF Ev
  <2>8. QED
    BY <1>2, <2>1, <2>2, <2>3, <2>4, <2>5, <2>6, <2>7 DEF Ev
<1>3. CASE f = {"TOUCH", "MT"}
  <2>1. Len(b) = 3
    BY <1>3 DEF execute_release, MtReport, Lifting
  <2>2. /\ b[1] = Ev("ABS_MT_TRACKING_ID", -1) /\ b[2] = Ev("BTN_TOUCH", 0)
        /\ b[3] = Ev("SYN_REPORT", 0)
    BY <1>3 DEF execute_release, MtReport, Lifting
  <2>3. \A j \in 1..Len(b) : b[j].code \in Codes \cup {"BTN_TOUCH"}
    BY <2>1, <2>2 DEF Ev, Codes, Axes, MTAxes
  <2>4. \A j \in 1..Len(b) : b[j].code \in SlotCodes <=> j = 1
    BY <2>1, <2>2 DEF Ev, SlotCodes
  <2>5. \A j \in 1..Len(b) : b[j].code = "ABS_MT_TRACKING_ID" => b[j].value = -1
    BY <2>1, <2>2 DEF Ev
  <2>6. \A j \in 1..Len(b) : b[j].code = "BTN_TOUCH" => b[j].value = 0 /\ j = Len(b) - 1
    BY <2>1, <2>2 DEF Ev
  <2>7. \A j \in 1..Len(b) : b[j].code = "SYN_REPORT" => j = Len(b)
    BY <2>1, <2>2 DEF Ev
  <2>8. QED
    BY <1>3, <2>1, <2>2, <2>3, <2>4, <2>5, <2>6, <2>7 DEF Ev
<1>4. CASE f = {"TOUCH", "MT", "MT_SYNC"}
  <2>1. Len(b) = 4
    BY <1>4 DEF execute_release, MtReport, Lifting
  <2>2. /\ b[1] = Ev("ABS_MT_TRACKING_ID", -1) /\ b[2] = Ev("SYN_MT_REPORT", 0)
        /\ b[3] = Ev("BTN_TOUCH", 0) /\ b[4] = Ev("SYN_REPORT", 0)
    BY <1>4 DEF execute_release, MtReport, Lifting
  <2>3. \A j \in 1..Len(b) : b[j].code \in Codes \cup {"BTN_TOUCH"}
    BY <2>1, <2>2 DEF Ev, Codes, Axes, MTAxes
  <2>4. \A j \in 1..Len(b) : b[j].code \in SlotCodes <=> j = 1
    BY <2>1, <2>2 DEF Ev, SlotCodes
  <2>5. \A j \in 1..Len(b) : b[j].code = "ABS_MT_TRACKING_ID" => b[j].value = -1
    BY <2>1, <2>2 DEF Ev
  <2>6. \A j \in 1..Len(b) : b[j].code = "BTN_TOUCH" => b[j].value = 0 /\ j = Len(b) - 1
    BY <2>1, <2>2 DEF Ev
  <2>7. \A j \in 1..Len(b) : b[j].code = "SYN_REPORT" => j = Len(b)
    BY <2>1, <2>2 DEF Ev
  <2>8. QED
    BY <1>4, <2>1, <2>2, <2>3, <2>4, <2>5, <2>6, <2>7 DEF Ev
<1>5. QED
  BY <1>1, <1>2, <1>3, <1>4 DEF Classes

\* A reset only writes axes, and not the tracking id.
LEMMA ResetEvents ==
  ASSUME NEW f \in Classes, NEW b, b = execute_reset(f)
  PROVE  /\ \A j \in 1..Len(b) : b[j].code \in Axes \ SlotCodes
<1>1. CASE f = {}
  BY <1>1 DEF execute_reset
<1>2. CASE f = {"TOUCH"}
  <2>1. Len(b) = 2
    BY <1>2 DEF execute_reset, Point, XAxis, YAxis
  <2>2. /\ b[1] = Ev("ABS_X", 0) /\ b[2] = Ev("ABS_Y", 0)
    BY <1>2 DEF execute_reset, Point, XAxis, YAxis
  <2>3. \A j \in 1..Len(b) : b[j].code \in Axes \ SlotCodes
    BY <2>1, <2>2 DEF Ev, Axes, MTAxes, SlotCodes
  <2>4. QED
    BY <1>2, <2>1, <2>2, <2>3 DEF Ev
<1>3. CASE f = {"TOUCH", "MT"}
  <2>1. Len(b) = 5
    BY <1>3 DEF execute_reset, Point, XAxis, YAxis, Contour
  <2>2. /\ b[1] = Ev("ABS_MT_POSITION_X", 0) /\ b[2] = Ev("ABS_MT_POSITION_Y", 0)
        /\ b[3] = Ev("ABS_MT_PRESSURE", 0) /\ b[4] = Ev("ABS_MT_TOUCH_MAJOR", 0)
        /\ b[5] = Ev("ABS_MT_WIDTH_MAJOR", 0)
    BY <1>3 DEF execute_reset, Point, XAxis, YAxis, Contour
  <2>3. \A j \in 1..Len(b) : b[j].code \in Axes \ SlotCodes
    BY <2>1, <2>2 DEF Ev, Axes, MTAxes, SlotCodes
  <2>4. QED
    BY <1>3, <2>1, <2>2, <2>3 DEF Ev
<1>4. CASE f = {"TOUCH", "MT", "MT_SYNC"}
  <2>1. Len(b) = 5
    BY <1>4 DEF execute_reset, Point, XAxis, YAxis, Contour
  <2>2. /\ b[1] = Ev("ABS_MT_POSITION_X", 0) /\ b[2] = Ev("ABS_MT_POSITION_Y", 0)
        /\ b[3] = Ev("ABS_MT_PRESSURE", 0) /\ b[4] = Ev("ABS_MT_TOUCH_MAJOR", 0)
        /\ b[5] = Ev("ABS_MT_WIDTH_MAJOR", 0)
    BY <1>4 DEF execute_reset, Point, XAxis, YAxis, Contour
  <2>3. \A j \in 1..Len(b) : b[j].code \in Axes \ SlotCodes
    BY <2>1, <2>2 DEF Ev, Axes, MTAxes, SlotCodes
  <2>4. QED
    BY <1>4, <2>1, <2>2, <2>3 DEF Ev
<1>5. QED
  BY <1>1, <1>2, <1>3, <1>4 DEF Classes

---------------------------------------------------------------------------
(* The events of a gesture on a touchscreen, one by one: each primitive    *)
(* writes the tracking id, the point, what nothing here tells apart, the   *)
(* button and the report, as far as it has them, in this order.            *)

Silent == {"ABS_MT_PRESSURE", "ABS_MT_TOUCH_MAJOR", "ABS_MT_WIDTH_MAJOR", "SYN_MT_REPORT"}

\* The number of events of a primitive, by the class of the device.
PressLength(f)   == (IF "MT" \in f THEN 8 ELSE 4) + (IF "MT_SYNC" \in f THEN 1 ELSE 0)
MoveLength(f)    == (IF "MT" \in f THEN 6 ELSE 3) + (IF "MT_SYNC" \in f THEN 1 ELSE 0)
ReleaseLength(f) == (IF "MT" \in f THEN 3 ELSE 2) + (IF "MT_SYNC" \in f THEN 1 ELSE 0)

\* The places of the point in a press: a tracking id comes before it.
PressPoint(f) == IF "MT" \in f THEN 2 ELSE 1

\* The event in place j of each primitive.
PressEvent(e, j, f, id, p) ==
  \/ "MT" \in f /\ j = 1 /\ e = Ev("ABS_MT_TRACKING_ID", id)
  \/ j = PressPoint(f) /\ e = Ev(XAxis(f), p[1])
  \/ j = PressPoint(f) + 1 /\ e = Ev(YAxis(f), p[2])
  \/ PressPoint(f) + 1 < j /\ j < PressLength(f) - 1 /\ e.code \in Silent
  \/ j = PressLength(f) - 1 /\ e = Ev("BTN_TOUCH", 1)
  \/ j = PressLength(f) /\ e = Ev("SYN_REPORT", 0)

MoveEvent(e, j, f, p) ==
  \/ j = 1 /\ e = Ev(XAxis(f), p[1])
  \/ j = 2 /\ e = Ev(YAxis(f), p[2])
  \/ 2 < j /\ j < MoveLength(f) /\ e.code \in Silent
  \/ j = MoveLength(f) /\ e = Ev("SYN_REPORT", 0)

ReleaseEvent(e, j, f) ==
  \/ "MT" \in f /\ j = 1 /\ e = Ev("ABS_MT_TRACKING_ID", -1)
  \/ "MT" \in f /\ 1 < j /\ j < ReleaseLength(f) - 1 /\ e.code \in Silent
  \/ j = ReleaseLength(f) - 1 /\ e = Ev("BTN_TOUCH", 0)
  \/ j = ReleaseLength(f) /\ e = Ev("SYN_REPORT", 0)

\* A press: a tracking id, the point, and the button before the report.
LEMMA PressPlan ==
  ASSUME NEW f \in Classes, "TOUCH" \in f, NEW id \in Nat,
         NEW p \in Int \X Int, NEW b, b = execute_press(f, id, p)
  PROVE  Len(b) = PressLength(f) /\ \A j \in 1..Len(b) : PressEvent(b[j], j, f, id, p)
<1>1. CASE f = {"TOUCH"}
  <2>1. Len(b) = 4
    BY <1>1 DEF execute_press, Point, XAxis, YAxis, Contour, MtReport, Touching
  <2>2. /\ b[1] = Ev("ABS_X", p[1]) /\ b[2] = Ev("ABS_Y", p[2])
        /\ b[3] = Ev("BTN_TOUCH", 1) /\ b[4] = Ev("SYN_REPORT", 0)
    BY <1>1 DEF execute_press, Point, XAxis, YAxis, Contour, MtReport, Touching
  <2>3. PressLength(f) = 4 /\ PressPoint(f) = 1
    BY <1>1 DEF PressLength, PressPoint
  <2>4. \A j \in 1..4 : j = 1 \/ j = 2 \/ j = 3 \/ j = 4
    OBVIOUS
  <2>5. ASSUME NEW j \in 1..4 PROVE PressEvent(b[j], j, f, id, p)
    BY <1>1, <2>2, <2>3, <2>4 DEF PressEvent, XAxis, YAxis
  <2>6. QED
    BY <2>1, <2>3, <2>5
<1>2. CASE f = {"TOUCH", "MT"}
  <2>1. Len(b) = 8
    BY <1>2 DEF execute_press, Point, XAxis, YAxis, Contour, MtReport, Touching
  <2>2. /\ b[1] = Ev("ABS_MT_TRACKING_ID", id) /\ b[2] = Ev("ABS_MT_POSITION_X", p[1])
        /\ b[3] = Ev("ABS_MT_POSITION_Y", p[2]) /\ b[4] = Ev("ABS_MT_PRESSURE", 127)
        /\ b[5] = Ev("ABS_MT_TOUCH_MAJOR", 127) /\ b[6] = Ev("ABS_MT_WIDTH_MAJOR", 4)
        /\ b[7] = Ev("BTN_TOUCH", 1) /\ b[8] = Ev("SYN_REPORT", 0)
    BY <1>2 DEF execute_press, Point, XAxis, YAxis, Contour, MtReport, Touching
  <2>3. PressLength(f) = 8 /\ PressPoint(f) = 2
    BY <1>2 DEF PressLength, PressPoint
  <2>4. \A k \in {4, 5, 6} : b[k].code \in Silent
    BY <2>2 DEF Ev, Silent
  <2>5. \A j \in 1..8 : j = 1 \/ j = 2 \/ j = 3 \/ j = 4 \/ j = 5 \/ j = 6 \/ j = 7 \/ j = 8
    OBVIOUS
  <2>6. ASSUME NEW j \in 1..8 PROVE PressEvent(b[j], j, f, id, p)
    BY <1>2, <2>2, <2>3, <2>4, <2>5 DEF PressEvent, XAxis, YAxis
  <2>7. QED
    BY <2>1, <2>3, <2>6
<1>3. CASE f = {"TOUCH", "MT", "MT_SYNC"}
  <2>1. Len(b) = 9
    BY <1>3 DEF execute_press, Point, XAxis, YAxis, Contour, MtReport, Touching
  <2>2. /\ b[1] = Ev("ABS_MT_TRACKING_ID", id) /\ b[2] = Ev("ABS_MT_POSITION_X", p[1])
        /\ b[3] = Ev("ABS_MT_POSITION_Y", p[2]) /\ b[4] = Ev("ABS_MT_PRESSURE", 127)
        /\ b[5] = Ev("ABS_MT_TOUCH_MAJOR", 127) /\ b[6] = Ev("ABS_MT_WIDTH_MAJOR", 4)
        /\ b[7] = Ev("SYN_MT_REPORT", 0) /\ b[8] = Ev("BTN_TOUCH", 1)
        /\ b[9] = Ev("SYN_REPORT", 0)
    BY <1>3 DEF execute_press, Point, XAxis, YAxis, Contour, MtReport, Touching
  <2>3. PressLength(f) = 9 /\ PressPoint(f) = 2
    BY <1>3 DEF PressLength, PressPoint
  <2>4. \A k \in {4, 5, 6, 7} : b[k].code \in Silent
    BY <2>2 DEF Ev, Silent
  <2>5. \A j \in 1..9 : j = 1 \/ j = 2 \/ j = 3 \/ j = 4 \/ j = 5 \/ j = 6 \/ j = 7 \/ j = 8 \/ j = 9
    OBVIOUS
  <2>6. ASSUME NEW j \in 1..9 PROVE PressEvent(b[j], j, f, id, p)
    BY <1>3, <2>2, <2>3, <2>4, <2>5 DEF PressEvent, XAxis, YAxis
  <2>7. QED
    BY <2>1, <2>3, <2>6
<1>4. QED
  BY <1>1, <1>2, <1>3 DEF Classes

\* A move: the point, and neither contact nor button.
LEMMA MovePlan ==
  ASSUME NEW f \in Classes, "TOUCH" \in f, NEW p \in Int \X Int,
         NEW b, b = execute_move(f, p)
  PROVE  Len(b) = MoveLength(f) /\ \A j \in 1..Len(b) : MoveEvent(b[j], j, f, p)
<1>1. CASE f = {"TOUCH"}
  <2>1. Len(b) = 3
    BY <1>1 DEF execute_move, Point, XAxis, YAxis, Contour, MtReport
  <2>2. /\ b[1] = Ev("ABS_X", p[1]) /\ b[2] = Ev("ABS_Y", p[2])
        /\ b[3] = Ev("SYN_REPORT", 0)
    BY <1>1 DEF execute_move, Point, XAxis, YAxis, Contour, MtReport
  <2>3. MoveLength(f) = 3
    BY <1>1 DEF MoveLength
  <2>4. \A j \in 1..3 : j = 1 \/ j = 2 \/ j = 3
    OBVIOUS
  <2>5. ASSUME NEW j \in 1..3 PROVE MoveEvent(b[j], j, f, p)
    BY <1>1, <2>2, <2>3, <2>4 DEF MoveEvent, XAxis, YAxis
  <2>6. QED
    BY <2>1, <2>3, <2>5
<1>2. CASE f = {"TOUCH", "MT"}
  <2>1. Len(b) = 6
    BY <1>2 DEF execute_move, Point, XAxis, YAxis, Contour, MtReport
  <2>2. /\ b[1] = Ev("ABS_MT_POSITION_X", p[1]) /\ b[2] = Ev("ABS_MT_POSITION_Y", p[2])
        /\ b[3] = Ev("ABS_MT_PRESSURE", 127) /\ b[4] = Ev("ABS_MT_TOUCH_MAJOR", 127)
        /\ b[5] = Ev("ABS_MT_WIDTH_MAJOR", 4) /\ b[6] = Ev("SYN_REPORT", 0)
    BY <1>2 DEF execute_move, Point, XAxis, YAxis, Contour, MtReport
  <2>3. MoveLength(f) = 6
    BY <1>2 DEF MoveLength
  <2>4. \A k \in {3, 4, 5} : b[k].code \in Silent
    BY <2>2 DEF Ev, Silent
  <2>5. \A j \in 1..6 : j = 1 \/ j = 2 \/ j = 3 \/ j = 4 \/ j = 5 \/ j = 6
    OBVIOUS
  <2>6. ASSUME NEW j \in 1..6 PROVE MoveEvent(b[j], j, f, p)
    BY <1>2, <2>2, <2>3, <2>4, <2>5 DEF MoveEvent, XAxis, YAxis
  <2>7. QED
    BY <2>1, <2>3, <2>6
<1>3. CASE f = {"TOUCH", "MT", "MT_SYNC"}
  <2>1. Len(b) = 7
    BY <1>3 DEF execute_move, Point, XAxis, YAxis, Contour, MtReport
  <2>2. /\ b[1] = Ev("ABS_MT_POSITION_X", p[1]) /\ b[2] = Ev("ABS_MT_POSITION_Y", p[2])
        /\ b[3] = Ev("ABS_MT_PRESSURE", 127) /\ b[4] = Ev("ABS_MT_TOUCH_MAJOR", 127)
        /\ b[5] = Ev("ABS_MT_WIDTH_MAJOR", 4) /\ b[6] = Ev("SYN_MT_REPORT", 0)
        /\ b[7] = Ev("SYN_REPORT", 0)
    BY <1>3 DEF execute_move, Point, XAxis, YAxis, Contour, MtReport
  <2>3. MoveLength(f) = 7
    BY <1>3 DEF MoveLength
  <2>4. \A k \in {3, 4, 5, 6} : b[k].code \in Silent
    BY <2>2 DEF Ev, Silent
  <2>5. \A j \in 1..7 : j = 1 \/ j = 2 \/ j = 3 \/ j = 4 \/ j = 5 \/ j = 6 \/ j = 7
    OBVIOUS
  <2>6. ASSUME NEW j \in 1..7 PROVE MoveEvent(b[j], j, f, p)
    BY <1>3, <2>2, <2>3, <2>4, <2>5 DEF MoveEvent, XAxis, YAxis
  <2>7. QED
    BY <2>1, <2>3, <2>6
<1>4. QED
  BY <1>1, <1>2, <1>3 DEF Classes

\* A release: the tracking id -1, no point, and the button before the report.
LEMMA ReleasePlan ==
  ASSUME NEW f \in Classes, "TOUCH" \in f, NEW b, b = execute_release(f)
  PROVE  Len(b) = ReleaseLength(f) /\ \A j \in 1..Len(b) : ReleaseEvent(b[j], j, f)
<1>1. CASE f = {"TOUCH"}
  <2>1. Len(b) = 2
    BY <1>1 DEF execute_release, MtReport, Lifting
  <2>2. /\ b[1] = Ev("BTN_TOUCH", 0) /\ b[2] = Ev("SYN_REPORT", 0)
    BY <1>1 DEF execute_release, MtReport, Lifting
  <2>3. ReleaseLength(f) = 2
    BY <1>1 DEF ReleaseLength
  <2>4. \A j \in 1..2 : j = 1 \/ j = 2
    OBVIOUS
  <2>5. ASSUME NEW j \in 1..2 PROVE ReleaseEvent(b[j], j, f)
    BY <1>1, <2>2, <2>3, <2>4 DEF ReleaseEvent
  <2>6. QED
    BY <2>1, <2>3, <2>5
<1>2. CASE f = {"TOUCH", "MT"}
  <2>1. Len(b) = 3
    BY <1>2 DEF execute_release, MtReport, Lifting
  <2>2. /\ b[1] = Ev("ABS_MT_TRACKING_ID", -1) /\ b[2] = Ev("BTN_TOUCH", 0)
        /\ b[3] = Ev("SYN_REPORT", 0)
    BY <1>2 DEF execute_release, MtReport, Lifting
  <2>3. ReleaseLength(f) = 3
    BY <1>2 DEF ReleaseLength
  <2>4. \A j \in 1..3 : j = 1 \/ j = 2 \/ j = 3
    OBVIOUS
  <2>5. ASSUME NEW j \in 1..3 PROVE ReleaseEvent(b[j], j, f)
    BY <1>2, <2>2, <2>3, <2>4 DEF ReleaseEvent
  <2>6. QED
    BY <2>1, <2>3, <2>5
<1>3. CASE f = {"TOUCH", "MT", "MT_SYNC"}
  <2>1. Len(b) = 4
    BY <1>3 DEF execute_release, MtReport, Lifting
  <2>2. /\ b[1] = Ev("ABS_MT_TRACKING_ID", -1) /\ b[2] = Ev("SYN_MT_REPORT", 0)
        /\ b[3] = Ev("BTN_TOUCH", 0) /\ b[4] = Ev("SYN_REPORT", 0)
    BY <1>3 DEF execute_release, MtReport, Lifting
  <2>3. ReleaseLength(f) = 4
    BY <1>3 DEF ReleaseLength
  <2>4. \A k \in {2} : b[k].code \in Silent
    BY <2>2 DEF Ev, Silent
  <2>5. \A j \in 1..4 : j = 1 \/ j = 2 \/ j = 3 \/ j = 4
    OBVIOUS
  <2>6. ASSUME NEW j \in 1..4 PROVE ReleaseEvent(b[j], j, f)
    BY <1>3, <2>2, <2>3, <2>4, <2>5 DEF ReleaseEvent
  <2>7. QED
    BY <2>1, <2>3, <2>6
<1>4. QED
  BY <1>1, <1>2, <1>3 DEF Classes

---------------------------------------------------------------------------
(* The events of the primitive being executed.                             *)

\* Waypoints are integer points: the division is by a positive number of steps.
LEMMA WaypointType ==
  ASSUME NEW p \in Int \X Int, NEW q \in Int \X Int, NEW n \in Int, n > 0, NEW i \in Int
  PROVE  Waypoint(p, q, n, i) \in Int \X Int
<1>1. \A a \in Int : CDiv(a, n) \in Int
  BY DEF CDiv
<1>2. /\ CDiv(q[1] - p[1], n) \in Int
      /\ CDiv(q[2] - p[2], n) \in Int
  BY <1>1
<1>3. QED
  BY <1>2 DEF Waypoint, Delta

\* The command being executed is a command, also before the first one.
LEMMA CommandTypes ==
  ASSUME TypeOK
  PROVE  cmd \in CommandType
BY CommandsAssumption DEF TypeOK, NoCmd, CommandType, Op, Finger

\* The calls are the slot change of a pinch, if any, and the body.
LEMMA CallsAt ==
  ASSUME TypeOK, Control
  PROVE  /\ Body \in Seq(EventType)
         /\ Calls \in Seq(EventType)
         /\ Len(Calls) = Prefix + Len(Body)
         /\ \A j \in 1..Len(Calls) :
              Calls[j] = IF j <= Prefix THEN change_mt_slot(finger) ELSE Body[j - Prefix]
         /\ Prefix \in {0, 1}
         /\ Prefix = 1 => Calls[1] = Ev("ABS_MT_SLOT", finger)
<1>1. /\ cmd.from[finger] \in Int \X Int /\ cmd.to[finger] \in Int \X Int
      /\ cmd.n \in Int /\ cmd.key \in KeyCodes \cup {"BTN_TOUCH", "none"}
  BY CommandTypes DEF CommandType, TypeOK
<1>2. Body \in Seq(EventType)
  <2>1. CASE stage = "press"
    <3>1. Body = execute_press(flags, trackingId, cmd.from[finger]) /\ trackingId \in Int
      BY <2>1 DEF Body, TypeOK
    <3>2. QED
      BY <1>1, <3>1, PrimitiveTypes
  <2>2. CASE stage = "move"
    <3>1. Waypoint(cmd.from[finger], cmd.to[finger], cmd.n, iter) \in Int \X Int
      <4>1. cmd.n > 0 /\ iter \in Int
        BY <2>2 DEF Control, TypeOK
      <4>2. QED
        BY <1>1, <4>1, WaypointType
    <3>2. Body = execute_move(flags, Waypoint(cmd.from[finger], cmd.to[finger], cmd.n, iter))
      BY <2>2 DEF Body
    <3>3. QED
      BY <3>1, <3>2, PrimitiveTypes, <1>1
  <2>3. CASE stage = "release"
    BY <1>1, <2>3, PrimitiveTypes DEF Body, TypeOK
  <2>4. CASE stage = "reset"
    BY <1>1, <2>4, PrimitiveTypes DEF Body, TypeOK
  <2>5. CASE stage = "keydown"
    BY <1>1, <2>5, PrimitiveTypes DEF Body, TypeOK
  <2>6. CASE stage = "keyup"
    BY <1>1, <2>6, PrimitiveTypes DEF Body, TypeOK
  <2>7. CASE stage \in {"idle", "exited", "dead"}
    <3>1. Body = << >>
      BY <2>7 DEF Body
    <3>2. QED
      BY <3>1
  <2>8. QED
    BY <2>1, <2>2, <2>3, <2>4, <2>5, <2>6, <2>7 DEF TypeOK, Stages, Primitives
<1>3. <<change_mt_slot(finger)>> \in Seq(EventType)
  <2>1. change_mt_slot(finger) \in EventType
    BY DEF change_mt_slot, Ev, EventType, Codes, TypeOK, Finger
  <2>2. QED
    BY <2>1, SingleType
<1>4. CASE cmd.op = "pinch" /\ stage \in Fingered
  <2>1. Calls = <<change_mt_slot(finger)>> \o Body /\ Prefix = 1
    BY <1>4 DEF Calls, Prefix
  <2>2. QED
    BY <1>2, <1>3, <2>1, ConcatProperties DEF change_mt_slot
<1>5. CASE ~(cmd.op = "pinch" /\ stage \in Fingered)
  <2>1. Calls = Body /\ Prefix = 0
    BY <1>5 DEF Calls, Prefix
  <2>2. QED
    BY <1>2, <2>1
<1>6. QED
  BY <1>4, <1>5

\* What the next event can be, by the primitive and the position in it.
LEMMA NextEventIs ==
  ASSUME TypeOK, Control, stage \in Primitives, pos \in 1..Len(Calls),
         NEW e, e = Calls[pos]
  PROVE  /\ e \in EventType
         /\ e.code = "ABS_MT_SLOT" => Prefix = 1 /\ pos = 1
         /\ Prefix = 1 /\ pos = 1 => e = Ev("ABS_MT_SLOT", finger)
         /\ e.code = "ABS_MT_TRACKING_ID" =>
              /\ "MT" \in flags /\ stage \in {"press", "release"} /\ pos = Prefix + 1
              /\ stage = "release" => e.value = -1
              /\ stage = "press" => e.value = trackingId
         /\ e.code = "BTN_TOUCH" /\ stage \in Fingered =>
              /\ "TOUCH" \in flags /\ stage \in {"press", "release"}
              /\ stage = "release" => e.value = 0 /\ pos = Len(Calls) - 1
         /\ e.code = "SYN_REPORT" => stage \in Fingered /\ "TOUCH" \in flags /\ pos = Len(Calls)
         /\ stage = "release" /\ "TOUCH" \in flags =>
              /\ Len(Calls) >= Prefix + 2
              /\ pos = Len(Calls) - 1 => e = Ev("BTN_TOUCH", 0)
              /\ pos = Len(Calls) => e = Ev("SYN_REPORT", 0)
         /\ stage = "release" /\ "MT" \in flags =>
              /\ Len(Calls) >= Prefix + 3
              /\ pos = Prefix + 1 => e = Ev("ABS_MT_TRACKING_ID", -1)
<1> DEFINE j == pos - Prefix
<1>1. /\ Body \in Seq(EventType)
      /\ Len(Calls) = Prefix + Len(Body)
      /\ Prefix \in {0, 1}
      /\ e = IF pos <= Prefix THEN change_mt_slot(finger) ELSE Body[j]
      /\ Len(Body) \in Nat
      /\ e \in EventType
  BY CallsAt
<1>2. /\ flags \in Classes /\ finger \in Finger
      /\ cmd.from[finger] \in Int \X Int /\ cmd.to[finger] \in Int \X Int
      /\ cmd.n \in Int /\ cmd.key \in KeyCodes \cup {"BTN_TOUCH", "none"}
      /\ pos \in Nat /\ trackingId \in Nat /\ iter \in Int
  BY CommandTypes DEF CommandType, TypeOK
<1>3. CASE pos <= Prefix
  <2>1. Prefix = 1 /\ pos = 1 /\ e = Ev("ABS_MT_SLOT", finger)
    BY <1>1, <1>2, <1>3 DEF change_mt_slot
  <2>2. ASSUME stage = "release"
        PROVE  /\ "TOUCH" \in flags => Len(Body) > 1
               /\ "MT" \in flags => Len(Body) > 2
    <3>1. Body = execute_release(flags)
      BY <2>2 DEF Body
    <3>2. QED
      BY <3>1, <1>2, ReleaseEvents
  <2>3. e.code = "ABS_MT_SLOT"
    BY <2>1 DEF Ev
  <2>4. /\ stage = "release" /\ "TOUCH" \in flags => Len(Calls) >= Prefix + 2
        /\ stage = "release" /\ "MT" \in flags => Len(Calls) >= Prefix + 3
    BY <1>1, <2>2
  <2>5. pos # Prefix + 1 /\ (Len(Calls) >= Prefix + 2 => pos # Len(Calls) - 1 /\ pos # Len(Calls))
    <3>1. PICK n \in Nat : n = Len(Calls)
      BY <1>1
    <3>2. QED
      BY <2>1, <3>1
  <2>6. QED
    BY <1>1, <2>1, <2>3, <2>4, <2>5
<1>4. CASE pos > Prefix
  <2>1. /\ e = Body[j] /\ j \in 1..Len(Body)
        /\ j = Len(Body) <=> pos = Len(Calls)
        /\ j = 1 <=> pos = Prefix + 1
        /\ j = Len(Body) - 1 <=> pos = Len(Calls) - 1
        /\ ~(Prefix = 1 /\ pos = 1)
    <3>1. PICK m \in Nat : m = Len(Body) /\ Len(Calls) = Prefix + m
      BY <1>1
    <3>2. e = Body[j] /\ pos \in 1..(Prefix + m) /\ Prefix \in {0, 1}
      BY <1>1, <1>4, <3>1
    <3>3. /\ j \in 1..m /\ (j = m <=> pos = Prefix + m)
          /\ j = 1 <=> pos = Prefix + 1
          /\ j = m - 1 <=> pos = Prefix + m - 1
          /\ ~(Prefix = 1 /\ pos = 1)
      BY <1>2, <1>4, <3>2
    <3>4. QED
      BY <3>1, <3>2, <3>3
  <2>2. CASE stage = "press"
    <3>1. Body = execute_press(flags, trackingId, cmd.from[finger])
      BY <2>2 DEF Body
    <3>2. /\ "TOUCH" \in flags
          /\ e.code \in SlotCodes <=> "MT" \in flags /\ j = 1
          /\ e.code # "ABS_MT_SLOT"
          /\ e.code = "ABS_MT_TRACKING_ID" => e.value = trackingId
          /\ e.code = "SYN_REPORT" => j = Len(Body)
      <4>1. \A i \in 1..Len(Body) :
              /\ "TOUCH" \in flags
              /\ Body[i].code \in SlotCodes <=> "MT" \in flags /\ i = 1
              /\ Body[i].code # "ABS_MT_SLOT"
              /\ Body[i].code = "ABS_MT_TRACKING_ID" => Body[i].value = trackingId
              /\ Body[i].code = "SYN_REPORT" => i = Len(Body)
        <5>1. flags \in Classes /\ trackingId \in Nat /\ cmd.from[finger] \in Int \X Int
          BY <1>2
        <5>2. QED
          BY ONLY <3>1, <5>1, PressEvents
      <4>2. QED
        BY <2>1, <4>1
    <3>3. QED
      BY <1>1, <2>1, <2>2, <3>2 DEF SlotCodes, Fingered
  <2>3. CASE stage = "move"
    <3>1. Waypoint(cmd.from[finger], cmd.to[finger], cmd.n, iter) \in Int \X Int
      <4>1. cmd.n > 0
        BY <2>3 DEF Control
      <4>2. QED
        BY <1>2, <4>1, WaypointType
    <3>2. Body = execute_move(flags, Waypoint(cmd.from[finger], cmd.to[finger], cmd.n, iter))
      BY <2>3 DEF Body
    <3>3. e.code \in Codes \ SlotCodes /\ (e.code = "SYN_REPORT" => j = Len(Body))
      BY <1>2, <2>1, <3>1, <3>2, MoveEvents, SMTT(30)
    <3>4. "TOUCH" \in flags
      <4>1. flags # {}
        BY <2>1, <3>2 DEF execute_move
      <4>2. QED
        BY <1>2, <4>1 DEF Classes
    <3>5. QED
      BY <1>1, <2>1, <2>3, <3>3, <3>4 DEF SlotCodes, Fingered, Codes, Axes, MTAxes
  <2>4. CASE stage = "release"
    <3>1. Body = execute_release(flags)
      BY <2>4 DEF Body
    <3>2. /\ e.code \in SlotCodes <=> "MT" \in flags /\ j = 1
          /\ e.code = "ABS_MT_TRACKING_ID" => e.value = -1
          /\ e.code = "BTN_TOUCH" => e.value = 0 /\ j = Len(Body) - 1
          /\ e.code = "SYN_REPORT" => j = Len(Body)
          /\ "TOUCH" \in flags => /\ Len(Body) > 1
                                  /\ j = Len(Body) - 1 => e = Ev("BTN_TOUCH", 0)
                                  /\ j = Len(Body) => e = Ev("SYN_REPORT", 0)
          /\ "MT" \in flags => /\ Len(Body) > 2
                               /\ j = 1 => e = Ev("ABS_MT_TRACKING_ID", -1)
      BY <1>2, <2>1, <3>1, ReleaseEvents, SMTT(30)
    <3>3. "TOUCH" \in flags
      <4>1. flags # {}
        BY <2>1, <3>1 DEF execute_release
      <4>2. QED
        BY <1>2, <4>1 DEF Classes
    <3>4. QED
      BY <1>1, <2>1, <2>4, <3>2, <3>3 DEF SlotCodes, Fingered, Ev
  <2>5. CASE stage = "reset"
    <3>1. Body = execute_reset(flags)
      BY <2>5 DEF Body
    <3>2. e.code \in Axes \ SlotCodes
      BY <1>2, <2>1, <3>1, ResetEvents
    <3>3. QED
      BY <1>1, <2>1, <2>5, <3>2 DEF SlotCodes, Axes, MTAxes, Prefix, Fingered
  <2>6. CASE stage \in {"keydown", "keyup"}
    <3>1. e.code = cmd.key
      BY <2>1, <2>6 DEF Body, execute_keydown, execute_keyup, Ev
    <3>2. e.code \notin Codes
      BY <1>2, <3>1, KeyCodesAssumption DEF Codes, Axes, MTAxes
    <3>3. QED
      BY <1>1, <2>1, <2>6, <3>2 DEF Codes, Axes, MTAxes, Fingered
  <2>7. QED
    BY <2>2, <2>3, <2>4, <2>5, <2>6 DEF Primitives
<1>5. QED
  BY <1>1, <1>2, <1>3, <1>4

---------------------------------------------------------------------------
(* Types and control.                                                      *)

\* The probe yields one of the four classes of device, whatever it reads.
LEMMA ClassesType ==
  ASSUME NEW K, NEW A, NEW name
  PROVE  figure_out_events_device_reports(K, A, name) \in Classes
<1>1. CASE name \in SyncNames
  BY <1>1 DEF figure_out_events_device_reports, Classes
<1>2. CASE name \notin SyncNames
  BY <1>2 DEF figure_out_events_device_reports, Classes
<1>3. QED
  BY <1>1, <1>2

\* The kernel's state keeps its type under every event orng writes.
LEMMA DeliverType ==
  ASSUME DeviceTypeOK, NEW e \in EventType, Deliver(e)
  PROVE  DeviceTypeOK'
<1>1. dev' = dev /\ Slots' = Slots
  BY DEF Deliver, Slots
<1>2. CASE SelectSlot(e)
  BY <1>1, <1>2 DEF SelectSlot, DeviceTypeOK
<1>3. CASE SetAxis(e)
  <2>1. e.value \in Int
    BY DEF EventType
  <2>2. abs' \in [Slots -> [Axes -> Int]]
    BY <1>3, <2>1 DEF SetAxis, DeviceTypeOK
  <2>3. QED
    BY <1>1, <1>3, <2>2 DEF SetAxis, DeviceTypeOK
<1>4. CASE SetKey(e)
  BY <1>1, <1>4 DEF SetKey, DeviceTypeOK
<1>5. CASE Report(e)
  BY <1>1, <1>5 DEF Report, DeviceTypeOK
<1>6. QED
  BY <1>2, <1>3, <1>4, <1>5 DEF Deliver

\* The initial state is well typed.
LEMMA InitTypeOK == Init => TypeOK /\ Control
<1> SUFFICES ASSUME Init PROVE TypeOK /\ Control
  OBVIOUS
<1>1. DeviceTypeOK
  <2>1. dev \in DeviceType
    BY DevicesAssumption DEF Init, DeviceInit
  <2>2. 0 \in Slots
    BY <2>1 DEF DeviceType, Slots
  <2>3. abs \in [Slots -> [Axes -> Int]]
    BY DEF Init, DeviceInit
  <2>4. QED
    BY <2>2, <2>3 DEF Init, DeviceInit, DeviceTypeOK
<1>2. QED
  <2>1. keyed \in BOOLEAN /\ keyedSeen \in BOOLEAN
    BY DEF Init
  <2>2. QED
    BY <1>1, <2>1, BoundsAssumption DEF Init, TypeOK, Control, Classes, Stages, Primitives, Finger

\* The steps that leave the device alone, apart from their effect on the stage.
\* A command that begins keeps types and control.
LEMMA BeginType ==
  ASSUME TypeOK, NEW c \in Commands, NEW st \in Stages, Begin(c, st),
         st # "move"
  PROVE  TypeOK' /\ Control'
<1>1. DeviceTypeOK'
  BY DEF Begin, TypeOK, DeviceTypeOK, devVars, Slots
<1>2. QED
  BY <1>1, BoundsAssumption DEF Begin, TypeOK, Control, Finger, keyVars

\* A jump to a primitive keeps types and control if it is a legal one.
LEMMA GotoType ==
  ASSUME TypeOK, NEW st \in Stages, NEW f \in Finger, NEW it \in Nat, Goto(st, f, it),
         st = "move" => cmd.n > 0,
         f = 1 => cmd.op = "pinch" /\ st \in Fingered
  PROVE  TypeOK' /\ Control'
<1>1. DeviceTypeOK'
  BY DEF Goto, TypeOK, DeviceTypeOK, devVars, Slots
<1>2. QED
  BY <1>1 DEF Goto, TypeOK, Control, history, keyVars

\* Where each command and each return of a primitive goes.
\* A command begins with one of these primitives, or is over at once.
LEMMA BeginCommandIs ==
  ASSUME BeginCommand
  PROVE  \E c \in Commands, st \in Stages \ {"move", "release"} : Begin(c, st)
BY DEF BeginCommand, execute_tap, execute_drag, execute_pinch, BeginPath, BeginPrimitive,
       execute_sleep, Stages, Primitives

\* What follows a primitive keeps types and control.
LEMMA ReturnType ==
  ASSUME TypeOK, Control, Return
  PROVE  TypeOK' /\ Control'
<1>1. iter \in Nat /\ iter + 1 \in Nat /\ 0 \in Finger /\ 1 \in Finger
  BY DEF TypeOK, Finger
<1>2. {"press", "move", "release", "idle"} \subseteq Stages
  BY DEF Stages, Primitives
<1>3. cmd.n \in Int
  BY CommandTypes DEF CommandType
<1>4. CASE OtherFinger
  <2>1. stage \in Fingered /\ cmd.op = "pinch" /\ Goto(stage, 1, iter)
    BY <1>4 DEF OtherFinger, Returned, HasOtherFinger
  <2>2. stage \in Stages /\ (stage = "move" => cmd.n > 0)
    BY DEF TypeOK, Control
  <2>3. QED
    BY <1>1, <2>1, <2>2, GotoType
<1>5. CASE PressReturns
  <2>1. CASE cmd.op \in {"drag", "pinch"} /\ cmd.n > 0
    <3>1. Goto("move", 0, iter)
      BY <1>5, <2>1 DEF PressReturns
    <3>2. QED
      BY <1>1, <1>2, <2>1, <3>1, GotoType
  <2>2. CASE ~(cmd.op \in {"drag", "pinch"} /\ cmd.n > 0)
    <3>1. Goto("release", 0, iter)
      BY <1>5, <2>2 DEF PressReturns
    <3>2. QED
      BY <1>1, <1>2, <3>1, GotoType
  <2>3. QED
    BY <2>1, <2>2
<1>6. CASE MoveReturns
  <2>1. cmd.n > 0
    BY <1>6 DEF MoveReturns, Returned, Control
  <2>2. Goto("move", 0, iter + 1) \/ Goto("release", 0, iter + 1)
    BY <1>6 DEF MoveReturns
  <2>3. QED
    BY <1>1, <1>2, <2>1, <2>2, GotoType
<1>7. CASE ReleaseReturns
  <2>1. Goto("press", 0, iter + 1) \/ Goto("idle", 0, iter + 1) \/ Goto("idle", 0, iter)
    BY <1>7 DEF ReleaseReturns
  <2>2. QED
    BY <1>1, <1>2, <2>1, GotoType
<1>8. CASE PrimitiveReturns
  <2>1. Goto("idle", 0, iter)
    BY <1>8 DEF PrimitiveReturns
  <2>2. QED
    BY <1>1, <1>2, <2>1, GotoType
<1>9. QED
  BY <1>4, <1>5, <1>6, <1>7, <1>8 DEF Return

\* The event about to be written is an event, and the position stays one.
LEMMA NextEventType ==
  ASSUME TypeOK, Control, NextEvent
  PROVE  /\ pos \in 1..Len(Calls)
         /\ Calls[pos] \in EventType
         /\ pos' \in Nat \ {0} /\ trackingId' \in Nat \ {0}
         /\ UNCHANGED <<flags, cmd, stage, finger, iter, done, runs>>
<1>1. Calls \in Seq(EventType)
  BY CallsAt
<1>2. pos \in 1..Len(Calls)
  BY <1>1 DEF NextEvent, TypeOK
<1>3. Calls[pos] \in EventType
  BY <1>1, <1>2
<1>4. QED
  BY <1>2, <1>3 DEF NextEvent, TypeOK

\* The fault counter stays within its bound.
LEMMA FaultsType ==
  ASSUME TypeOK
  PROVE  /\ faults \in Nat /\ MaxFaults \in Nat
         /\ \A n : (n = faults \/ n = faults + 1) /\ n <= MaxFaults => n \in 0..MaxFaults
         /\ faults < MaxFaults => faults + 1 \in 0..MaxFaults
<1>1. faults \in Nat /\ MaxFaults \in Nat
  BY BoundsAssumption DEF TypeOK
<1>2. QED
  BY <1>1

\* Every step keeps types and control.
LEMMA NextTypeOK == TypeOK /\ Control /\ [Next]_vars => TypeOK' /\ Control'
<1> SUFFICES ASSUME TypeOK, Control, [Next]_vars PROVE TypeOK' /\ Control'
  OBVIOUS
<1>1. CASE Start
  <2>1. DeviceTypeOK'
    BY <1>1 DEF Start, TypeOK, DeviceTypeOK, devVars, Slots
  <2>2. PICK K, A, name :
             /\ flags' = figure_out_events_device_reports(K, A, name)
             /\ faults' = faults \/ faults' = faults + 1
             /\ faults' <= MaxFaults
    BY <1>1 DEF Start
  <2>3. flags' \in Classes
    BY <2>2, ClassesType
  <2>4. faults' \in 0..MaxFaults
    BY <2>2, FaultsType, Zenon
  <2>5. runs' \in 0..MaxRuns
    <3>1. runs \in Nat /\ MaxRuns \in Nat
      BY BoundsAssumption DEF TypeOK
    <3>2. runs < MaxRuns /\ runs' = runs + 1
      BY <1>1 DEF Start
    <3>3. QED
      BY <3>1, <3>2
  <2>6. /\ trackingId' = 1 /\ stage' = "idle" /\ cmd' = NoCmd /\ finger' = 0
        /\ iter' = 0 /\ pos' = 1 /\ ok' = TRUE /\ done' = done /\ UNCHANGED <<keyed, keyedSeen>>
    BY <1>1 DEF Start, keyVars
  <2>7. QED
    BY <2>1, <2>3, <2>4, <2>5, <2>6 DEF TypeOK, Control, Stages, Finger
<1>2. CASE Exit
  <2>1. DeviceTypeOK'
    BY <1>2 DEF Exit, TypeOK, DeviceTypeOK, devVars, Slots
  <2>2. QED
    BY <1>2, <2>1 DEF Exit, TypeOK, Control, Stages, Fingered, history, keyVars
<1>3. CASE Kill
  <2>1. DeviceTypeOK'
    BY <1>3 DEF Kill, TypeOK, DeviceTypeOK, devVars, Slots
  <2>2. QED
    BY <1>3, <2>1, FaultsType DEF Kill, TypeOK, Control, Stages, keyVars
<1>4. CASE BeginCommand
  BY <1>4, BeginCommandIs, BeginType
<1>5. CASE write_event
  <2>1. DeviceTypeOK'
    BY <1>5, NextEventType, DeliverType DEF write_event, TypeOK
  <2>2. QED
    BY <1>5, <2>1, NextEventType DEF write_event, TypeOK, Control
<1>6. CASE write_event_fails
  <2>1. DeviceTypeOK'
    BY <1>6 DEF write_event_fails, TypeOK, DeviceTypeOK, devVars, Slots
  <2>2. faults' \in 0..MaxFaults
    BY <1>6, FaultsType DEF write_event_fails
  <2>3. QED
    BY <1>6, <2>1, <2>2, NextEventType DEF write_event_fails, TypeOK, Control, keyVars
<1>7. CASE Return
  BY <1>7, ReturnType
<1>8. CASE UNCHANGED vars
  BY <1>8 DEF vars, devVars, keyVars, gestureVars, history, TypeOK, DeviceTypeOK, Slots, Control
<1>9. QED
  BY <1>1, <1>2, <1>3, <1>4, <1>5, <1>6, <1>7, <1>8 DEF Next

\* Every variable has its type in every reachable state.
THEOREM TypeCorrect == Spec => []TypeOK
<1>1. TypeOK /\ Control /\ [Next]_vars => (TypeOK /\ Control)'
  BY NextTypeOK
<1>2. QED
  BY InitTypeOK, <1>1, PTL DEF Spec

---------------------------------------------------------------------------
(* Contacts and the button.                                                *)

\* The positions in a release at which contact and button are gone.
ReleaseShape ==
  stage = "release" =>
    /\ Prefix \in {0, 1}
    /\ \E n \in Nat :
         /\ n = Len(Calls)
         /\ "TOUCH" \in flags => n >= Prefix + 2
         /\ "MT" \in flags => n >= Prefix + 3

\* A release on a touchscreen has the events ReleaseShape promises.
LEMMA ReleaseShaped == TypeOK /\ Control => ReleaseShape
<1> SUFFICES ASSUME TypeOK, Control, stage = "release" PROVE ReleaseShape
  BY DEF ReleaseShape
<1>1. Body = execute_release(flags) /\ flags \in Classes
  BY DEF Body, TypeOK
<1>2. /\ "TOUCH" \in flags => Len(Body) > 1
      /\ "MT" \in flags => Len(Body) > 2
  BY <1>1, ReleaseEvents
<1>3. PICK m \in Nat : m = Len(Body) /\ Len(Calls) = Prefix + m /\ Prefix \in {0, 1}
  BY CallsAt
<1>4. QED
  BY <1>2, <1>3 DEF ReleaseShape

\* A device has slots, and every finger of a command is tracked in one.
LEMMA SlotFacts ==
  ASSUME TypeOK
  PROVE  /\ dev.slots \in Nat \ {0} /\ Slots = 0..(dev.slots - 1) /\ slot \in Slots
         /\ dev.slots > 1 => "ABS_MT_SLOT" \in dev.abs
         /\ \A f \in Finger : Target(f) \in Slots
<1>1. dev \in DeviceType /\ slot \in Slots
  BY DevicesAssumption DEF TypeOK, DeviceTypeOK
<1>2. QED
  BY <1>1, DevicesAssumption DEF TypeOK, DeviceTypeOK, DeviceType, Slots, Target

\* Nothing is down, neither in the kernel nor as seen, but for a button that a keydown
\* has pressed and nobody has seen.
AllUp ==
  /\ "BTN_TOUCH" \in keys => keyed
  /\ "BTN_TOUCH" \notin seen.keys
  /\ \A s \in Slots : ~InContact(abs, s) /\ ~InContact(seen.abs, s)

\* Outside press, move and release the invariant says that nothing is down.
LEMMA UpBetweenGestures ==
  ASSUME Touch, stage \notin Fingered
  PROVE  AllUp
BY DEF Touch, AllUp, ContactsHeld, ContactsSeen, ButtonHeld, ButtonSeen, Held, HeldSeen, HeldUntil

\* After the last release of a gesture nothing is down.
LEMMA UpAfterRelease ==
  ASSUME TypeOK, Control, Touch, Returned("release"), ~HasOtherFinger
  PROVE  AllUp
<1>1. PICK n \in Nat : /\ n = Len(Calls)
                       /\ "TOUCH" \in flags => n >= Prefix + 2
                       /\ "MT" \in flags => n >= Prefix + 3
                       /\ Prefix \in {0, 1}
  BY ReleaseShaped DEF ReleaseShape, Returned
<1>2. stage = "release" /\ pos > n /\ pos \in Nat
  BY <1>1 DEF Returned, TypeOK
<1>3. ("BTN_TOUCH" \in keys => keyed) /\ "BTN_TOUCH" \notin seen.keys
  <2>1. ~(pos < n) /\ ~(pos <= n)
    BY <1>2
  <2>2. QED
    BY <1>1, <1>2, <2>1 DEF Touch, ButtonHeld, ButtonSeen
<1>4. HeldUntil(TRUE) = {}
  <2>1. CASE cmd.op = "pinch"
    <3>1. finger = 1
      BY <2>1 DEF HasOtherFinger, TypeOK, Finger
    <3>2. Targets = {Target(0), Target(1)}
      BY <2>1 DEF Targets, Fingers, Finger
    <3>3. QED
      BY <1>2, <3>1, <3>2 DEF HeldUntil
  <2>2. CASE cmd.op # "pinch"
    <3>1. finger = 0
      BY <2>2 DEF Control, TypeOK, Finger
    <3>2. Targets = {Target(0)}
      BY <2>2 DEF Targets, Fingers
    <3>3. QED
      BY <1>2, <3>1, <3>2 DEF HeldUntil
  <2>3. QED
    BY <2>1, <2>2
<1>5. HeldSeen = {}
  BY <1>1, <1>2, <1>4 DEF HeldSeen, HeldUntil
<1>6. Held = {}
  <2>1. "MT" \in flags => pos > Prefix + 1
    BY <1>1, <1>2
  <2>2. CASE "MT" \in flags
    BY <1>4, <2>1, <2>2 DEF Held, HeldUntil
  <2>3. CASE "MT" \notin flags
    BY <2>3 DEF Held, HeldUntil
  <2>4. QED
    BY <2>2, <2>3
<1>7. QED
  BY <1>3, <1>5, <1>6 DEF AllUp, Touch, ContactsHeld, ContactsSeen

\* Nothing is down and the device is left alone: nothing is down after the step.
LEMMA StaysUp ==
  ASSUME AllUp, UNCHANGED <<devVars, keyVars>>, pos' = 1 \/ stage' \notin Fingered,
         stage' # "release"
  PROVE  Touch'
<1>1. /\ "BTN_TOUCH" \in keys' => keyed'
      /\ "BTN_TOUCH" \notin seen'.keys
      /\ \A s \in Slots' : ~InContact(abs, s)' /\ ~InContact(seen.abs, s)'
  BY DEF AllUp, devVars, keyVars, Slots, InContact
<1>2. SlotChosen'
  BY DEF SlotChosen
<1>3. ContactsHeld' /\ ContactsSeen'
  BY <1>1 DEF ContactsHeld, ContactsSeen
<1>4. ButtonHeld' /\ ButtonSeen'
  BY <1>1 DEF ButtonHeld, ButtonSeen
<1>5. QED
  BY <1>2, <1>3, <1>4 DEF Touch

\* From one primitive of a gesture to the next: what is held stays held.
LEMMA NextPrimitive ==
  ASSUME TypeOK, Control, TypeOK', Control', Touch, stage \in Fingered, pos > Len(Calls),
         NEW st \in Fingered, NEW f \in Finger, NEW it, Goto(st, f, it),
         \/ st # "release" /\ stage # "release"
         \/ st = "release" /\ stage # "release" /\ f = 0
         \/ st = "release" /\ stage = "release" /\ finger = 0 /\ f = 1
  PROVE  Touch'
<1>1. /\ stage' = st /\ finger' = f /\ pos' = 1 /\ flags' = flags /\ cmd' = cmd
      /\ UNCHANGED <<dev, slot, abs, keys, seen, keyed>>
  BY DEF Goto, devVars, keyVars
<1>2. Slots' = Slots /\ Targets' = Targets /\ Target(0)' = Target(0) /\ Prefix' = Prefix
  BY <1>1 DEF Slots, Targets, Fingers, Target, Prefix
<1>3. PICK n \in Nat : stage = "release" =>
                         /\ n = Len(Calls) /\ Prefix \in {0, 1}
                         /\ "TOUCH" \in flags => n >= Prefix + 2
                         /\ "MT" \in flags => n >= Prefix + 3
  BY ReleaseShaped DEF ReleaseShape
<1>4. PICK m \in Nat : st = "release" =>
                         /\ m = Len(Calls)' /\ Prefix \in {0, 1}
                         /\ "TOUCH" \in flags => m >= Prefix + 2
                         /\ "MT" \in flags => m >= Prefix + 3
  <2>1. ReleaseShape'
    BY ReleaseShaped, PTL
  <2>2. QED
    BY <1>1, <1>2, <2>1 DEF ReleaseShape
<1>5. SlotChosen'
  BY <1>1 DEF SlotChosen
<1>6. "MT" \in flags => Held \subseteq Held' /\ HeldSeen \subseteq HeldSeen'
  <2> SUFFICES ASSUME "MT" \in flags PROVE Held \subseteq Held' /\ HeldSeen \subseteq HeldSeen'
    OBVIOUS
  <2>1. CASE st # "release"
    BY <1>1, <1>2, <2>1 DEF Held, HeldSeen, HeldUntil
  <2>2. CASE st = "release" /\ stage # "release" /\ f = 0
    <3>1. ~(pos' > Prefix' + 1) /\ ~(pos' > Len(Calls)')
      BY <1>1, <1>2, <1>4, <2>2
    <3>2. Held' = Targets /\ HeldSeen' = Targets
      BY <1>1, <1>2, <2>2, <3>1 DEF Held, HeldSeen, HeldUntil
    <3>3. QED
      BY <2>2, <3>2 DEF Held, HeldSeen, HeldUntil
  <2>3. CASE st = "release" /\ stage = "release" /\ finger = 0 /\ f = 1
    <3>1. ~(pos' > Prefix' + 1) /\ ~(pos' > Len(Calls)')
      BY <1>1, <1>2, <1>4, <2>3
    <3>2. Held' = Targets \ {Target(0)} /\ HeldSeen' = Targets \ {Target(0)}
      BY <1>1, <1>2, <2>3, <3>1 DEF Held, HeldSeen, HeldUntil
    <3>3. pos > Prefix + 1
      <4>1. pos \in Nat /\ pos > n /\ n >= Prefix + 3 /\ Prefix \in {0, 1}
        BY <1>3, <2>3 DEF TypeOK
      <4>2. QED
        BY <4>1
    <3>4. Held = Targets \ {Target(0)} /\ HeldSeen = Targets \ {Target(0)}
      BY <2>3, <3>3 DEF Held, HeldSeen, HeldUntil
    <3>5. QED
      BY <3>2, <3>4
  <2>4. QED
    BY <2>1, <2>2, <2>3
<1>7. "MT" \notin flags => Held = {} /\ HeldSeen = {}
  BY DEF Held, HeldSeen, HeldUntil
<1>8. ContactsHeld' /\ ContactsSeen'
  BY <1>1, <1>2, <1>6, <1>7 DEF Touch, ContactsHeld, ContactsSeen, InContact
<1>9. ButtonHeld' /\ ButtonSeen'
  <2>1. st = "release" /\ "TOUCH" \in flags => 1 < Len(Calls)' /\ 1 <= Len(Calls)'
    BY <1>4
  <2>2. QED
    BY <1>1, <2>1 DEF Touch, ButtonHeld, ButtonSeen
<1>10. QED
  BY <1>5, <1>8, <1>9 DEF Touch

\* What follows a primitive keeps the invariant about contacts.
LEMMA ReturnTouch ==
  ASSUME TypeOK, Control, TypeOK', Control', Touch, Return
  PROVE  Touch'
<1>1. finger \in Finger /\ 0 \in Finger /\ 1 \in Finger
  BY DEF TypeOK, Finger
<1>2. CASE OtherFinger
  <2>1. stage \in Fingered /\ pos > Len(Calls) /\ finger = 0 /\ Goto(stage, 1, iter)
    BY <1>2 DEF OtherFinger, Returned, HasOtherFinger
  <2>2. QED
    BY <1>1, <2>1, NextPrimitive
<1>3. CASE PressReturns
  <2>1. /\ stage = "press" /\ stage \in Fingered /\ pos > Len(Calls)
        /\ Goto("move", 0, iter) \/ Goto("release", 0, iter)
    BY <1>3 DEF PressReturns, Returned, Fingered
  <2>2. "move" \in Fingered /\ "release" \in Fingered
    BY DEF Fingered
  <2>3. QED
    BY <1>1, <2>1, <2>2, NextPrimitive
<1>4. CASE MoveReturns
  <2>1. /\ stage = "move" /\ stage \in Fingered /\ pos > Len(Calls)
        /\ Goto("move", 0, iter + 1) \/ Goto("release", 0, iter + 1)
    BY <1>4 DEF MoveReturns, Returned, Fingered
  <2>2. "move" \in Fingered /\ "release" \in Fingered
    BY DEF Fingered
  <2>3. QED
    BY <1>1, <2>1, <2>2, NextPrimitive
<1>5. CASE ReleaseReturns
  <2>1. AllUp
    BY <1>5, UpAfterRelease DEF ReleaseReturns
  <2>2. UNCHANGED <<devVars, keyVars>> /\ pos' = 1 /\ stage' # "release"
    BY <1>5 DEF ReleaseReturns, Goto
  <2>3. QED
    BY <2>1, <2>2, StaysUp
<1>6. CASE PrimitiveReturns
  <2>1. stage \notin Fingered /\ UNCHANGED <<devVars, keyVars>> /\ pos' = 1 /\ stage' # "release"
    BY <1>6 DEF PrimitiveReturns, Returned, Goto, Fingered
  <2>2. QED
    BY <2>1, UpBetweenGestures, StaysUp
<1>7. QED
  BY <1>2, <1>3, <1>4, <1>5, <1>6 DEF Return

\* Who wrote the button last, for the kernel and as reported.
LEMMA KeyedIs ==
  ASSUME TypeOK, write_event
  PROVE  /\ Calls[pos].code = "BTN_TOUCH" => (keyed' <=> stage \notin Fingered)
         /\ Calls[pos].code # "BTN_TOUCH" => (keyed' <=> keyed)
         /\ Calls[pos].code = "SYN_REPORT" => (keyedSeen' <=> keyed)
         /\ Calls[pos].code # "SYN_REPORT" => (keyedSeen' <=> keyedSeen)
BY Zenon DEF write_event

\* An event changes only what it is about.
LEMMA DeliverIs ==
  ASSUME NEW e, Deliver(e)
  PROVE  /\ dev' = dev
         /\ e.code = "ABS_MT_SLOT" =>
              slot' = IF e.code \in dev.abs /\ e.value \in Slots THEN e.value ELSE slot
         /\ e.code # "ABS_MT_SLOT" => slot' = slot
         /\ e.code \in Axes =>
              abs' = IF e.code \in dev.abs THEN [abs EXCEPT ![slot][e.code] = e.value] ELSE abs
         /\ e.code \notin Axes => abs' = abs
         /\ e.code = "BTN_TOUCH" /\ e.value = 0 => "BTN_TOUCH" \notin keys'
         /\ e.code # "BTN_TOUCH" => ("BTN_TOUCH" \in keys' => "BTN_TOUCH" \in keys)
         /\ e.code = "SYN_REPORT" => seen' = [abs |-> abs, keys |-> keys]
         /\ e.code # "SYN_REPORT" => seen' = seen
<1>1. CASE SelectSlot(e)
  BY <1>1 DEF Deliver, SelectSlot, Axes, MTAxes
<1>2. CASE SetAxis(e)
  BY <1>2 DEF Deliver, SetAxis, Axes, MTAxes
<1>3. CASE SetKey(e)
  BY <1>3 DEF Deliver, SetKey, Codes, Axes, MTAxes
<1>4. CASE Report(e)
  BY <1>4 DEF Deliver, Report, Axes, MTAxes
<1>5. QED
  BY <1>1, <1>2, <1>3, <1>4 DEF Deliver

\* Writing an event moves on by one event and leaves the control of the gesture alone;
\* each finger stays in its slot.
LEMMA WriteFrame ==
  ASSUME TypeOK, Control, TypeOK', write_event
  PROVE  /\ pos \in 1..Len(Calls) /\ stage \in Primitives /\ pos' = pos + 1
         /\ UNCHANGED <<flags, cmd, stage, finger, iter, ok, faults, runs>>
         /\ Deliver(Calls[pos])
         /\ Slots' = Slots /\ Prefix' = Prefix /\ dev' = dev
         /\ \A f \in Finger : Target(f)' = Target(f)
         /\ Fingers' = Fingers /\ Targets' = Targets
<1> DEFINE e == Calls[pos]
<1>1. /\ pos \in 1..Len(Calls) /\ stage \in Primitives /\ pos' = pos + 1
      /\ UNCHANGED <<flags, cmd, stage, finger, iter, ok, faults, runs>> /\ Deliver(e)
      /\ pos \in Nat /\ finger \in Finger /\ 0 \in Finger
  BY NextEventType DEF write_event, NextEvent, TypeOK, Finger
<1>2. Slots' = Slots /\ Prefix' = Prefix /\ Prefix \in {0, 1} /\ dev' = dev
  BY <1>1, DeliverIs DEF Slots, Prefix
<1>3. \A f \in Finger : Target(f)' = Target(f)
  <2>1. CASE cmd.op = "pinch"
    <3>1. \A f \in Finger \ Slots : f = 1 /\ dev.slots = 1 /\ slot = 0 /\ slot' = 0
      <4>1. slot' \in Slots
        BY <1>2 DEF TypeOK, DeviceTypeOK
      <4>2. QED
        BY <4>1, SlotFacts DEF Finger
    <3>2. QED
      BY <1>1, <1>2, <2>1, <3>1 DEF Target
  <2>2. CASE cmd.op # "pinch"
    <3>1. e.code # "ABS_MT_SLOT"
      BY <1>1, <2>2, NextEventIs DEF Prefix
    <3>2. QED
      BY <1>1, <2>2, <3>1, DeliverIs DEF Target
  <2>3. QED
    BY <2>1, <2>2
<1>4. Fingers' = Fingers /\ Targets' = Targets
  BY <1>1, <1>3 DEF Targets, Fingers, Finger
<1>5. QED
  BY <1>1, <1>2, <1>3, <1>4

\* A pinch's event goes to the slot of its finger, also after it has been written.
LEMMA WriteSlot ==
  ASSUME TypeOK, Control, TypeOK', write_event, SlotChosen
  PROVE  SlotChosen'
<1> DEFINE e == Calls[pos]
<1>1. /\ pos \in 1..Len(Calls) /\ stage \in Primitives /\ finger \in Finger
      /\ UNCHANGED <<cmd, stage, finger>> /\ Deliver(e) /\ Target(finger)' = Target(finger)
  BY WriteFrame DEF TypeOK
<1> SUFFICES ASSUME cmd.op = "pinch", stage \in Fingered PROVE slot' = Target(finger)'
  BY <1>1 DEF SlotChosen
<1>2. Prefix = 1
  BY DEF Prefix
<1>3. CASE pos = 1
  <2>1. e = Ev("ABS_MT_SLOT", finger)
    BY <1>1, <1>2, <1>3, NextEventIs
  <2>2. slot' = IF "ABS_MT_SLOT" \in dev.abs /\ finger \in Slots THEN finger ELSE slot
    BY <1>1, <2>1, DeliverIs DEF Ev
  <2>3. finger \in Slots => "ABS_MT_SLOT" \in dev.abs \/ slot = finger
    BY <1>1, SlotFacts DEF Finger
  <2>4. QED
    BY <1>1, <2>2, <2>3 DEF Target
<1>4. CASE pos # 1
  <2>1. e.code # "ABS_MT_SLOT"
    BY <1>1, <1>4, NextEventIs
  <2>2. slot' = slot /\ slot = Target(finger)
    BY <1>1, <1>4, <2>1, DeliverIs DEF SlotChosen
  <2>3. QED
    BY <1>1, <2>2
<1>5. QED
  BY <1>3, <1>4

\* Writing an event keeps the invariant about contacts.
LEMMA WriteTouch ==
  ASSUME TypeOK, Control, TypeOK', Control', Touch, write_event
  PROVE  Touch'
<1> DEFINE e == Calls[pos]
<1>1. /\ pos \in 1..Len(Calls) /\ stage \in Primitives /\ pos' = pos + 1
      /\ UNCHANGED <<flags, cmd, stage, finger>> /\ Deliver(e)
      /\ pos \in Nat /\ finger \in Finger /\ 0 \in Finger
  BY WriteFrame DEF TypeOK, Finger
<1>2. Slots' = Slots /\ Prefix' = Prefix /\ Prefix \in {0, 1} /\ dev' = dev
  BY WriteFrame DEF Prefix
<1>3. \A f \in Finger : Target(f)' = Target(f)
  BY WriteFrame
<1>4. Targets' = Targets
  BY <1>1, <1>3 DEF Targets, Fingers, Finger
<1>5. stage = "release" => Calls' = Calls
  BY <1>1 DEF Calls, Body
<1>6. SlotChosen'
  BY WriteSlot DEF Touch
<1>7. "MT" \notin flags \/ stage \notin Fingered => Held = {} /\ Held' = {} /\ HeldSeen = {} /\ HeldSeen' = {}
  BY <1>1 DEF Held, HeldSeen, HeldUntil
<1>8. "MT" \in flags /\ stage \in Fingered /\ stage # "release" =>
        Held = Targets /\ Held' = Targets /\ HeldSeen = Targets /\ HeldSeen' = Targets
  BY <1>1, <1>4 DEF Held, HeldSeen, HeldUntil
<1> DEFINE L == IF finger = 1 THEN {Target(0)} ELSE {}
<1>9. "MT" \in flags /\ stage = "release" =>
        /\ Held  = Targets \ (L \cup (IF pos > Prefix + 1 THEN {Target(finger)} ELSE {}))
        /\ Held' = Targets \ (L \cup (IF pos + 1 > Prefix + 1 THEN {Target(finger)} ELSE {}))
        /\ HeldSeen  = Targets \ (L \cup (IF pos > Len(Calls) THEN {Target(finger)} ELSE {}))
        /\ HeldSeen' = Targets \ (L \cup (IF pos + 1 > Len(Calls) THEN {Target(finger)} ELSE {}))
  BY <1>1, <1>2, <1>3, <1>4, <1>5 DEF Held, HeldSeen, HeldUntil, Fingered
<1>10. PICK n \in Nat : /\ n = Len(Calls)
                        /\ stage = "release" /\ "TOUCH" \in flags => n >= Prefix + 2
                        /\ stage = "release" /\ "MT" \in flags => n >= Prefix + 3
                        /\ pos <= n
  <2>1. Len(Calls) \in Nat /\ pos <= Len(Calls)
    BY <1>1, CallsAt
  <2>2. QED
    BY <2>1, ReleaseShaped DEF ReleaseShape
<1>11. /\ stage = "release" /\ "MT" \in flags /\ pos = Prefix + 1 => e = Ev("ABS_MT_TRACKING_ID", -1)
       /\ stage = "release" /\ "TOUCH" \in flags /\ pos = n - 1 => e = Ev("BTN_TOUCH", 0)
       /\ stage = "release" /\ "TOUCH" \in flags /\ pos = n => e = Ev("SYN_REPORT", 0)
       /\ e.code = "SYN_REPORT" => stage \in Fingered /\ "TOUCH" \in flags /\ pos = n
  BY <1>1, <1>10, NextEventIs
<1>12. ASSUME NEW s \in Slots, e.code # "ABS_MT_TRACKING_ID" \/ s # slot \/ "ABS_MT_TRACKING_ID" \notin dev.abs
       PROVE  InContact(abs', s) => InContact(abs, s)
  <2>1. abs \in [Slots -> [Axes -> Int]] /\ slot \in Slots /\ "ABS_MT_TRACKING_ID" \in Axes
    BY DEF TypeOK, DeviceTypeOK, Axes, MTAxes
  <2>2. CASE abs' = abs
    BY <2>2
  <2>3. CASE e.code \in Axes /\ e.code \in dev.abs /\ abs' = [abs EXCEPT ![slot][e.code] = e.value]
    BY <1>12, <2>1, <2>3 DEF InContact
  <2>4. QED
    BY <1>1, <2>2, <2>3, DeliverIs
<1>13. ContactsHeld'
  <2> SUFFICES ASSUME NEW s \in Slots, InContact(abs', s)
               PROVE  s \in Held' /\ "ABS_MT_TRACKING_ID" \in dev.abs
    BY <1>2 DEF ContactsHeld, InContact
  <2>1. CASE e.code # "ABS_MT_TRACKING_ID" \/ "ABS_MT_TRACKING_ID" \notin dev.abs
    <3>1. s \in Held /\ "ABS_MT_TRACKING_ID" \in dev.abs
      BY <1>12, <2>1 DEF Touch, ContactsHeld
    <3>2. "MT" \in flags /\ stage = "release" => (pos > Prefix + 1 <=> pos + 1 > Prefix + 1)
      <4>1. "MT" \in flags /\ stage = "release" => pos # Prefix + 1
        BY <1>11, <2>1, <3>1 DEF Ev
      <4>2. QED
        BY <1>1, <1>2, <4>1
    <3>3. QED
      BY <1>7, <1>8, <1>9, <3>1, <3>2
  <2>2. CASE e.code = "ABS_MT_TRACKING_ID" /\ "ABS_MT_TRACKING_ID" \in dev.abs
    <3>1. /\ "MT" \in flags /\ stage \in {"press", "release"} /\ pos = Prefix + 1
          /\ stage = "release" => e.value = -1
      BY <1>1, <2>2, NextEventIs
    <3>2. slot = Target(finger)
      BY <1>1, <1>2, <3>1 DEF Touch, SlotChosen, Target, Prefix, Fingered
    <3>3. Target(finger) \in Targets
      BY <1>1 DEF Targets, Fingers, Control, Finger
    <3>4. CASE s = slot
      <4>1. abs'[s]["ABS_MT_TRACKING_ID"] = e.value
        <5>1. abs \in [Slots -> [Axes -> Int]] /\ slot \in Slots /\ "ABS_MT_TRACKING_ID" \in Axes
          BY DEF TypeOK, DeviceTypeOK, Axes, MTAxes
        <5>2. abs' = [abs EXCEPT ![slot]["ABS_MT_TRACKING_ID"] = e.value]
          BY <1>1, <2>2, <5>1, DeliverIs
        <5>3. QED
          BY <3>4, <5>1, <5>2
      <4>2. stage = "press"
        BY <3>1, <4>1 DEF InContact
      <4>3. QED
        BY <1>8, <2>2, <3>1, <3>2, <3>3, <3>4, <4>2 DEF Fingered
    <3>5. CASE s # slot
      <4>1. s \in Held
        BY <1>12, <3>5 DEF Touch, ContactsHeld
      <4>2. QED
        BY <1>8, <1>9, <2>2, <3>1, <3>2, <3>5, <4>1 DEF Fingered
    <3>6. QED
      BY <3>4, <3>5
  <2>3. QED
    BY <2>1, <2>2
<1>14. ContactsSeen'
  <2> SUFFICES ASSUME NEW s \in Slots, InContact(seen'.abs, s) PROVE s \in HeldSeen'
    BY <1>2 DEF ContactsSeen, InContact
  <2>1. CASE e.code # "SYN_REPORT"
    <3>1. s \in HeldSeen
      BY <1>1, <2>1, DeliverIs DEF Touch, ContactsSeen
    <3>2. "MT" \in flags /\ stage = "release" => ~(pos + 1 > n)
      <4>1. "MT" \in flags /\ stage = "release" => pos # n
        BY <1>11, <2>1 DEF Ev, TypeOK, Classes
      <4>2. QED
        BY <1>1, <1>10, <4>1
    <3>3. "MT" \in flags /\ stage = "release" => ~(pos > n)
      BY <1>1, <1>10
    <3>4. QED
      BY <1>7, <1>8, <1>9, <1>10, <3>1, <3>2, <3>3
  <2>2. CASE e.code = "SYN_REPORT"
    <3>1. seen'.abs = abs /\ pos = n /\ stage \in Fingered
      BY <1>1, <1>11, <2>2, DeliverIs
    <3>2. s \in Held
      BY <3>1 DEF Touch, ContactsHeld
    <3>3. "MT" \in flags /\ stage = "release" => pos > Prefix + 1
      BY <1>1, <1>2, <1>10, <3>1
    <3>4. QED
      BY <1>7, <1>8, <1>9, <3>1, <3>2, <3>3
  <2>3. QED
    BY <2>1, <2>2
<1>15. ButtonHeld'
  <2> SUFFICES ASSUME "BTN_TOUCH" \in keys'
               PROVE  /\ keyed' \/ (stage \in Fingered /\ "TOUCH" \in flags)
                      /\ stage = "release" /\ "TOUCH" \in flags => pos' < Len(Calls)
    BY <1>1, <1>5 DEF ButtonHeld
  <2>0. /\ e.code = "BTN_TOUCH" => (keyed' <=> stage \notin Fingered)
        /\ e.code # "BTN_TOUCH" => (keyed' <=> keyed)
    BY KeyedIs
  <2>1. CASE e.code = "BTN_TOUCH"
    <3>1. /\ stage \in Fingered => "TOUCH" \in flags
          /\ stage = "release" => e.value = 0
      BY <1>1, <2>1, NextEventIs DEF Fingered
    <3>2. e.value # 0
      BY <1>1, <2>1, DeliverIs
    <3>3. stage # "release"
      BY <3>1, <3>2
    <3>4. keyed' \/ (stage \in Fingered /\ "TOUCH" \in flags)
      BY <2>0, <2>1, <3>1, Zenon
    <3>5. QED
      BY <3>3, <3>4
  <2>2. CASE e.code # "BTN_TOUCH"
    <3>1. /\ keyed \/ (stage \in Fingered /\ "TOUCH" \in flags)
          /\ stage = "release" /\ "TOUCH" \in flags => pos < n
      BY <1>1, <1>10, <2>2, DeliverIs DEF Touch, ButtonHeld
    <3>2. stage = "release" /\ "TOUCH" \in flags => pos # n - 1
      BY <1>11, <2>2, <3>1 DEF Ev
    <3>3. keyed' \/ (stage \in Fingered /\ "TOUCH" \in flags)
      BY <2>0, <2>2, <3>1, Zenon
    <3>4. stage = "release" /\ "TOUCH" \in flags => pos' < Len(Calls)
      BY <1>1, <1>10, <3>1, <3>2
    <3>5. QED
      BY <3>3, <3>4
  <2>3. QED
    BY <2>1, <2>2
<1>16. ButtonSeen'
  <2> SUFFICES ASSUME "BTN_TOUCH" \in seen'.keys
               PROVE  /\ stage \in Fingered /\ "TOUCH" \in flags
                      /\ stage = "release" => pos' <= Len(Calls)
    BY <1>1, <1>5 DEF ButtonSeen
  <2>1. CASE e.code = "SYN_REPORT"
    <3>1. pos = n /\ "BTN_TOUCH" \in keys /\ stage \in Fingered /\ "TOUCH" \in flags
      BY <1>1, <1>11, <2>1, DeliverIs
    <3>2. QED
      BY <1>10, <3>1 DEF Touch, ButtonHeld
  <2>2. CASE e.code # "SYN_REPORT"
    <3>1. /\ stage \in Fingered /\ "TOUCH" \in flags
      BY <1>1, <2>2, DeliverIs DEF Touch, ButtonSeen
    <3>2. stage = "release" => pos # n
      BY <1>11, <2>2, <3>1 DEF Ev
    <3>3. QED
      BY <1>1, <1>10, <3>1, <3>2
  <2>3. QED
    BY <2>1, <2>2
<1>17. QED
  BY <1>6, <1>13, <1>14, <1>15, <1>16 DEF Touch

---------------------------------------------------------------------------
(* The theorem.                                                            *)

\* Nothing is down at first.
LEMMA InitTouch == Init => Touch
<1> SUFFICES ASSUME Init PROVE Touch
  OBVIOUS
<1>1. AllUp
  <2>1. /\ keys = {} /\ seen = [abs |-> abs, keys |-> keys]
        /\ abs = [s \in Slots |-> [a \in Axes |-> IF a = "ABS_MT_TRACKING_ID" THEN -1 ELSE 0]]
    BY DEF Init, DeviceInit
  <2>2. \A s \in Slots : abs[s]["ABS_MT_TRACKING_ID"] = -1
    BY <2>1 DEF Axes, MTAxes
  <2>3. QED
    BY <2>1, <2>2 DEF AllUp, InContact
<1>2. stage = "exited"
  BY DEF Init
<1>3. QED
  BY <1>1, <1>2 DEF AllUp, Touch, SlotChosen, ContactsHeld, ContactsSeen, ButtonHeld, ButtonSeen,
                    Fingered

\* Every step keeps the inductive invariant.
LEMMA NextIndInv == IndInv /\ [Next]_vars => IndInv'
<1> SUFFICES ASSUME TypeOK, Control, faults = 0 => Touch, [Next]_vars
             PROVE  IndInv'
  BY DEF IndInv
<1>1. TypeOK' /\ Control'
  BY NextTypeOK
<1> SUFFICES ASSUME faults' = 0 PROVE Touch'
  BY <1>1 DEF IndInv
<1>2. CASE Start
  <2>1. faults = 0 /\ stage \notin Fingered /\ UNCHANGED <<devVars, keyVars>> /\ pos' = 1 /\ stage' # "release"
    <3>1. faults' = faults \/ faults' = faults + 1
      BY <1>2 DEF Start
    <3>2. faults \in Nat
      BY FaultsType
    <3>3. faults = 0
      BY <3>1, <3>2
    <3>4. stage \notin Fingered /\ UNCHANGED <<devVars, keyVars>> /\ pos' = 1 /\ stage' # "release"
      BY <1>2 DEF Start, Fingered
    <3>5. QED
      BY <3>3, <3>4
  <2>2. QED
    BY <2>1, UpBetweenGestures, StaysUp
<1>3. CASE Exit
  <2>1. faults = 0 /\ stage \notin Fingered /\ UNCHANGED <<devVars, keyVars>> /\ stage' \notin Fingered
        /\ stage' # "release"
    BY <1>3 DEF Exit, Fingered, history
  <2>2. QED
    BY <2>1, UpBetweenGestures, StaysUp
<1>4. CASE Kill
  BY <1>4, FaultsType DEF Kill
<1>5. CASE BeginCommand
  <2>1. faults = 0 /\ stage \notin Fingered /\ UNCHANGED <<devVars, keyVars>> /\ pos' = 1 /\ stage' # "release"
    BY <1>5, BeginCommandIs DEF Begin, Fingered
  <2>2. QED
    BY <2>1, UpBetweenGestures, StaysUp
<1>6. CASE write_event
  BY <1>1, <1>6, WriteTouch DEF write_event
<1>7. CASE write_event_fails
  BY <1>7, FaultsType DEF write_event_fails
<1>8. CASE Return
  <2>1. faults = 0
    BY <1>8 DEF Return, OtherFinger, PressReturns, MoveReturns, ReleaseReturns,
                PrimitiveReturns, Goto, history
  <2>2. QED
    BY <1>1, <1>8, <2>1, ReturnTouch
<1>9. CASE UNCHANGED vars
  <2>1. /\ UNCHANGED <<dev, slot, abs, keys, seen, flags, trackingId, stage, cmd, finger, iter, pos, keyed>>
        /\ faults = 0
    BY <1>9 DEF vars, devVars, keyVars, gestureVars, history
  <2>2. Slots' = Slots /\ Prefix' = Prefix /\ Targets' = Targets /\ Calls' = Calls
    BY <2>1 DEF Slots, Prefix, Targets, Fingers, Target, Calls, Body
  <2>3. Held' = Held /\ HeldSeen' = HeldSeen
    BY <2>1, <2>2 DEF Held, HeldSeen, HeldUntil, Target, Slots
  <2>4. QED
    BY <2>1, <2>2, <2>3 DEF Touch, SlotChosen, ContactsHeld, ContactsSeen, ButtonHeld, ButtonSeen,
                            InContact, Target
<1>10. QED
  BY <1>2, <1>3, <1>4, <1>5, <1>6, <1>7, <1>8, <1>9 DEF Next

\* The inductive invariant holds in every reachable state.
THEOREM Inductive == Spec => []IndInv
<1>1. Init => IndInv
  BY InitTypeOK, InitTouch DEF IndInv
<1>2. QED
  BY <1>1, NextIndInv, PTL DEF Spec

\* Between two commands, and when orng is gone, the readers see no touch and the kernel has
\* no contact, unless a write failed or orng was killed; and the kernel's button is up
\* unless it was a keydown that wrote it last.
THEOREM NothingStuck == Spec => []NoStuckContact
<1>1. IndInv => NoStuckContact
  <2> SUFFICES ASSUME Touch, stage \notin Primitives PROVE AllUp
    BY DEF IndInv, NoStuckContact, AllUp
  <2>1. stage \notin Fingered
    BY DEF Primitives, Fingered
  <2>2. QED
    BY <2>1, UpBetweenGestures
<1>2. QED
  BY <1>1, Inductive, PTL

---------------------------------------------------------------------------
(* Contact ids.                                                            *)

\* What writing an event does to the contact of a slot, and to the next id.
LEMMA WriteContact ==
  ASSUME TypeOK, Control, write_event, NEW s \in Slots
  PROVE  /\ Slots' = Slots
         /\ Contact(s)' \in {Contact(s), -1, trackingId}
         /\ Contact(s)' = trackingId /\ Contact(s)' # Contact(s) => trackingId' = trackingId + 1
         /\ trackingId' \in {trackingId, trackingId + 1}
<1> DEFINE e == Calls[pos]
<1>1. /\ pos \in 1..Len(Calls) /\ stage \in Primitives /\ Deliver(e)
      /\ trackingId' = IF stage = "press" /\ e.code = "ABS_MT_TRACKING_ID"
                       THEN trackingId + 1 ELSE trackingId
  BY NextEventType DEF write_event, NextEvent
<1>2. Slots' = Slots
  BY <1>1, DeliverIs DEF Slots
<1>3. abs \in [Slots -> [Axes -> Int]] /\ slot \in Slots /\ "ABS_MT_TRACKING_ID" \in Axes
  BY DEF TypeOK, DeviceTypeOK, Axes, MTAxes
<1>4. CASE abs' = abs
  BY <1>1, <1>2, <1>4 DEF Contact
<1>5. CASE e.code \in Axes /\ abs' = [abs EXCEPT ![slot][e.code] = e.value]
  <2>1. CASE e.code = "ABS_MT_TRACKING_ID"
    <3>1. /\ stage \in {"press", "release"}
          /\ stage = "release" => e.value = -1
          /\ stage = "press" => e.value = trackingId
      BY <1>1, <2>1, NextEventIs
    <3>2. abs'[s]["ABS_MT_TRACKING_ID"] \in {abs[s]["ABS_MT_TRACKING_ID"], e.value}
      BY <1>3, <1>5, <2>1
    <3>3. trackingId' = IF stage = "press" THEN trackingId + 1 ELSE trackingId
      BY <1>1, <2>1
    <3>4. trackingId \in Nat \ {0}
      BY DEF TypeOK
    <3>5. QED
      BY <1>2, <3>1, <3>2, <3>3, <3>4 DEF Contact
  <2>2. CASE e.code # "ABS_MT_TRACKING_ID"
    <3>1. abs'[s]["ABS_MT_TRACKING_ID"] = abs[s]["ABS_MT_TRACKING_ID"]
      BY <1>3, <1>5, <2>2
    <3>2. QED
      BY <1>1, <1>2, <3>1 DEF Contact
  <2>3. QED
    BY <2>1, <2>2
<1>6. QED
  BY <1>1, <1>4, <1>5, DeliverIs

\* Every step keeps the invariant about ids.
LEMMA NextIdInv == IndInv /\ IdInv /\ [Next]_vars => IdInv'
<1> SUFFICES ASSUME IndInv, IdInv, [Next]_vars PROVE IdInv'
  OBVIOUS
<1>1. /\ TypeOK /\ Control /\ (faults = 0 => Touch)
      /\ faults \in Nat /\ runs \in Nat /\ trackingId \in Nat \ {0}
      /\ \A s \in Slots : Contact(s) \in Int
  <2>1. \A s \in Slots : Contact(s) \in Int
    BY DEF IndInv, TypeOK, DeviceTypeOK, Contact, Axes, MTAxes
  <2>2. QED
    BY <2>1 DEF IndInv, TypeOK
<1>2. CASE Start
  <2>1. /\ UNCHANGED devVars /\ trackingId' = 1 /\ runs' = runs + 1 /\ stage \notin Fingered
        /\ faults' = faults \/ faults' = faults + 1
    BY <1>2 DEF Start, Fingered
  <2>2. Slots' = Slots /\ \A s \in Slots : Contact(s)' = Contact(s)
    BY <2>1 DEF devVars, Slots, Contact
  <2>3. runs' # 0 /\ (runs' <= 1 => runs = 0) /\ (faults' = 0 => faults = 0)
    BY <1>1, <2>1
  <2>4. faults = 0 => \A s \in Slots : Contact(s) = -1
    BY <1>1, <2>1, UpBetweenGestures DEF AllUp, InContact, Contact
  <2>5. runs' <= 1 \/ faults' = 0 => \A s \in Slots : Contact(s) = -1
    BY <2>3, <2>4 DEF IdInv, Untouched
  <2>6. QED
    BY <2>1, <2>2, <2>3, <2>5 DEF IdInv, IdsBelow, Untouched
<1>3. CASE write_event
  <2>1. runs' = runs /\ faults' = faults /\ stage \in Primitives
    BY <1>1, <1>3, NextEventType DEF write_event, NextEvent
  <2>2. runs # 0
    BY <2>1 DEF IdInv, Untouched, Primitives
  <2>3. ASSUME NEW s \in Slots, Contact(s) < trackingId
        PROVE  Contact(s)' < trackingId'
    BY <1>1, <1>3, <2>3, WriteContact
  <2>4. Slots' = Slots
    BY <1>3, DeliverIs DEF write_event, Slots
  <2>5. QED
    BY <2>1, <2>2, <2>3, <2>4 DEF IdInv, IdsBelow, Untouched
<1>4. CASE write_event_fails \/ Kill \/ Exit \/ BeginCommand \/ Return \/ UNCHANGED vars
  <2>1. /\ UNCHANGED devVars /\ runs' = runs
        /\ faults' = faults \/ faults' = faults + 1
    BY <1>4, BeginCommandIs
       DEF write_event_fails, NextEvent, Kill, Exit, Begin, Return, OtherFinger, PressReturns,
           MoveReturns, ReleaseReturns, PrimitiveReturns, Goto, history, vars, devVars
  <2>2. trackingId' \in {trackingId, trackingId + 1}
    BY <1>4, BeginCommandIs
       DEF write_event_fails, NextEvent, Kill, Exit, Begin, Return, OtherFinger, PressReturns,
           MoveReturns, ReleaseReturns, PrimitiveReturns, Goto, history, vars
  <2>3. runs = 0 => stage' = stage
    BY <1>4, BeginCommandIs
       DEF IdInv, Untouched, write_event_fails, NextEvent, Kill, Exit, Begin, Return, OtherFinger,
           PressReturns, MoveReturns, ReleaseReturns, PrimitiveReturns, Returned, vars, gestureVars,
           Primitives, Fingered
  <2>4. Slots' = Slots /\ \A s \in Slots : Contact(s)' = Contact(s)
    BY <2>1 DEF devVars, Slots, Contact
  <2>5. faults' = 0 => faults = 0
    BY <1>1, <2>1
  <2>6. ASSUME NEW s \in Slots, Contact(s) < trackingId PROVE Contact(s) < trackingId'
    BY <1>1, <2>2, <2>6
  <2>7. QED
    BY <2>1, <2>3, <2>4, <2>5, <2>6 DEF IdInv, IdsBelow, Untouched
<1>5. QED
  BY <1>2, <1>3, <1>4 DEF Next

\* As long as no killed or failing run has left a contact behind, the ids that the slots
\* hold are below the next one.
THEOREM IdsStayBelow == Spec => []IdInv
<1>1. Init => IdInv
  <2> SUFFICES ASSUME Init PROVE IdInv
    OBVIOUS
  <2>1. \A s \in Slots : Contact(s) = -1
    BY DEF Init, DeviceInit, Contact, Axes, MTAxes
  <2>2. QED
    BY <2>1 DEF Init, IdInv, IdsBelow, Untouched
<1>2. QED
  BY <1>1, Inductive, NextIdInv, PTL DEF Spec

\* As long as no killed or failing run has left a contact behind, every press
\* starts a contact with an id that no slot holds.
THEOREM EveryPressIsFresh == Spec => FreshContact
<1>1. IndInv /\ IdInv /\ [Next]_vars =>
        [write_event /\ stage = "press" /\ (runs = 1 \/ faults = 0)
           /\ Calls[pos].code = "ABS_MT_TRACKING_ID" /\ "ABS_MT_TRACKING_ID" \in dev.abs
         => \A s \in Slots : Contact(s) # Contact(slot)']_vars
  <2> SUFFICES ASSUME IndInv, IdInv, write_event, stage = "press", runs = 1 \/ faults = 0,
                      Calls[pos].code = "ABS_MT_TRACKING_ID", "ABS_MT_TRACKING_ID" \in dev.abs,
                      NEW s \in Slots
               PROVE  Contact(s) # Contact(slot)'
    OBVIOUS
  <2>1. TypeOK /\ Control
    BY DEF IndInv
  <2>2. Deliver(Calls[pos]) /\ Calls[pos].value = trackingId
    BY <2>1, NextEventType, NextEventIs DEF write_event, NextEvent
  <2>3. abs \in [Slots -> [Axes -> Int]] /\ slot \in Slots /\ "ABS_MT_TRACKING_ID" \in Axes
    BY <2>1 DEF TypeOK, DeviceTypeOK, Axes, MTAxes
  <2>4. slot' = slot /\ abs' = [abs EXCEPT ![slot]["ABS_MT_TRACKING_ID"] = trackingId]
    BY <2>2, <2>3, DeliverIs
  <2>5. Contact(slot)' = trackingId
    BY <2>3, <2>4 DEF Contact
  <2>6. Contact(s) < trackingId /\ Contact(s) \in Int /\ trackingId \in Int
    <3>1. Contact(s) \in Int /\ trackingId \in Int
      BY <2>1, <2>3 DEF TypeOK, Contact
    <3>2. Contact(s) < trackingId
      BY DEF IdInv, IdsBelow
    <3>3. QED
      BY <3>1, <3>2
  <2>7. QED
    BY <2>5, <2>6
<1>2. QED
  BY <1>1, IdsStayBelow, Inductive, PTL DEF Spec, FreshContact

---------------------------------------------------------------------------
(* A process on a shared device: what a step of it means to the other.     *)

\* Whatever is down after a step, this process will lift it, or it was down before and
\* this process would not have lifted it.
StepShares ==
  /\ slot' \in {0, 1}
  /\ "BTN_TOUCH" \in keys' /\ ~keyed' =>
       DropsButton' \/ ("BTN_TOUCH" \in keys /\ ~keyed /\ ~DropsButton)
  /\ "BTN_TOUCH" \in seen'.keys /\ ~keyedSeen' =>
       \/ ReportsDrop'
       \/ "BTN_TOUCH" \in seen.keys /\ ~keyedSeen /\ ~ReportsDrop
       \/ "BTN_TOUCH" \in keys /\ ~keyed /\ ~DropsButton
  /\ InContact(abs', slot') => LiftsContact' \/ (InContact(abs, slot) /\ ~LiftsContact)
  /\ InContact(seen'.abs, slot') =>
       \/ ReportsLift'
       \/ InContact(seen.abs, slot) /\ ~ReportsLift
       \/ InContact(abs, slot) /\ ~LiftsContact
  /\ \A s \in Slots \ {0, slot'} :
       TouchAt(s)' => /\ TouchAt(s)
                      /\ SelectsLast' \/ (s # slot /\ (~SelectsLast \/ slot' = 1))

\* A step that leaves the device alone only adds to what the process will do.
LEMMA QuietShares ==
  ASSUME UNCHANGED <<devVars, keyVars>>, slot \in {0, 1},
         DropsButton => DropsButton', ReportsDrop => ReportsDrop',
         LiftsContact => LiftsContact', ReportsLift => ReportsLift', SelectsLast => SelectsLast'
  PROVE  StepShares /\ (TouchNeedsMT => TouchNeedsMT')
BY DEF StepShares, TouchAt, TouchNeedsMT, InContact, devVars, keyVars, Slots, Probed

\* Outside press, move and release a process has nothing to lift.
LEMMA NothingToDo ==
  ASSUME stage \notin Fingered
  PROVE  ~DropsButton /\ ~ReportsDrop /\ ~LiftsContact /\ ~ReportsLift /\ ~SelectsLast
BY DEF DropsButton, ReportsDrop, LiftsContact, ReportsLift, SelectsLast, Before

\* At the first event of a primitive everything is still to be done.
LEMMA EverythingToDo ==
  TypeOK /\ Control /\ stage \in Fingered /\ pos = 1 =>
    /\ "TOUCH" \in flags => DropsButton /\ ReportsDrop
    /\ "MT" \in flags => LiftsContact /\ ReportsLift /\ (cmd.op = "pinch" => SelectsLast)
<1> SUFFICES ASSUME TypeOK, Control, stage \in Fingered, pos = 1
             PROVE  /\ "TOUCH" \in flags => DropsButton /\ ReportsDrop
                    /\ "MT" \in flags => LiftsContact /\ ReportsLift /\ (cmd.op = "pinch" => SelectsLast)
  OBVIOUS
<1>1. Prefix \in {0, 1} /\ ("MT" \in flags => "TOUCH" \in flags)
  BY DEF Prefix, TypeOK, Classes
<1>2. stage = "release" /\ "TOUCH" \in flags => pos < Len(Calls) /\ pos <= Len(Calls)
  <2> SUFFICES ASSUME stage = "release", "TOUCH" \in flags
               PROVE  pos < Len(Calls) /\ pos <= Len(Calls)
    OBVIOUS
  <2>1. PICK n \in Nat : n = Len(Calls) /\ n >= Prefix + 2
    BY ReleaseShaped DEF ReleaseShape
  <2>2. QED
    BY <1>1, <2>1
<1>3. QED
  BY <1>1, <1>2 DEF DropsButton, ReportsDrop, LiftsContact, ReportsLift, SelectsLast, Before

\* What a process will lift, it will report as lifted.
LEMMA ReportsWhatItLifts ==
  TypeOK /\ Control => (DropsButton => ReportsDrop) /\ (LiftsContact => ReportsLift)
<1> SUFFICES ASSUME TypeOK, Control
             PROVE  (DropsButton => ReportsDrop) /\ (LiftsContact => ReportsLift)
  OBVIOUS
<1>1. stage = "release" => /\ pos < Len(Calls) => pos <= Len(Calls)
                           /\ "MT" \in flags /\ pos <= Prefix + 1 => pos <= Len(Calls)
  <2> SUFFICES ASSUME stage = "release"
               PROVE  /\ pos < Len(Calls) => pos <= Len(Calls)
                      /\ "MT" \in flags /\ pos <= Prefix + 1 => pos <= Len(Calls)
    OBVIOUS
  <2>1. PICK n \in Nat : /\ n = Len(Calls) /\ Prefix \in {0, 1}
                         /\ "MT" \in flags => n >= Prefix + 3
                         /\ pos \in Nat
    BY ReleaseShaped DEF ReleaseShape, TypeOK
  <2>2. QED
    BY <2>1
<1>2. QED
  BY <1>1 DEF DropsButton, ReportsDrop, LiftsContact, ReportsLift, Before

\* When the last primitive of a gesture is over there is nothing left to lift.
LEMMA NothingLeft ==
  ASSUME TypeOK, Control, Returned("release"), ~HasOtherFinger
  PROVE  ~DropsButton /\ ~ReportsDrop /\ ~LiftsContact /\ ~ReportsLift /\ ~SelectsLast
<1>1. PICK n \in Nat : /\ n = Len(Calls) /\ Prefix \in {0, 1}
                       /\ "MT" \in flags => n >= Prefix + 3
                       /\ pos > n /\ pos \in Nat
  BY ReleaseShaped DEF ReleaseShape, Returned, TypeOK
<1>2. stage = "release"
  BY DEF Returned
<1>3. ~(pos < Len(Calls)) /\ ~(pos <= Len(Calls)) /\ ("MT" \in flags => pos > Prefix + 1 /\ pos # 1)
  BY <1>1
<1>4. ~Before(pos < Len(Calls)) /\ ~Before(pos <= Len(Calls))
  BY <1>2, <1>3 DEF Before
<1>5. "MT" \in flags => ~Before(pos <= Prefix + 1) /\ ~Before(pos = 1)
  <2>1. "MT" \in flags => ~(pos <= Prefix + 1)
    BY <1>1
  <2>2. QED
    BY <1>2, <1>3, <2>1 DEF Before
<1>6. QED
  BY <1>4, <1>5 DEF DropsButton, ReportsDrop, LiftsContact, ReportsLift, SelectsLast

\* Going on to the next primitive.
LEMMA ReturnShares ==
  ASSUME TypeOK, Control, TypeOK', Control', Return, slot \in {0, 1}
  PROVE  StepShares /\ (TouchNeedsMT => TouchNeedsMT')
<1>1. UNCHANGED <<devVars, keyVars, flags, cmd>> /\ pos' = 1
  BY DEF Return, OtherFinger, PressReturns, MoveReturns, ReleaseReturns, PrimitiveReturns, Goto
<1>2. CASE stage' \in Fingered
  <2>1. (TypeOK /\ Control /\ stage \in Fingered /\ pos = 1 =>
           /\ "TOUCH" \in flags => DropsButton /\ ReportsDrop
           /\ "MT" \in flags => LiftsContact /\ ReportsLift /\ (cmd.op = "pinch" => SelectsLast))'
    BY EverythingToDo, PTL
  <2>2. /\ DropsButton => DropsButton'
        /\ ReportsDrop => ReportsDrop'
        /\ LiftsContact => LiftsContact'
        /\ ReportsLift => ReportsLift'
        /\ SelectsLast => SelectsLast'
    <3>1. /\ DropsButton \/ ReportsDrop => "TOUCH" \in flags
          /\ LiftsContact \/ ReportsLift \/ SelectsLast => "MT" \in flags
          /\ SelectsLast => cmd.op = "pinch"
      BY DEF DropsButton, ReportsDrop, LiftsContact, ReportsLift, SelectsLast
    <3>2. /\ "TOUCH" \in flags => DropsButton' /\ ReportsDrop'
          /\ "MT" \in flags => LiftsContact' /\ ReportsLift' /\ (cmd.op = "pinch" => SelectsLast')
      BY <1>1, <1>2, <2>1
    <3>3. QED
      BY <3>1, <3>2
  <2>3. QED
    BY <1>1, <2>2, QuietShares
<1>3. CASE stage' \notin Fingered
  <2>1. ReleaseReturns \/ PrimitiveReturns
    BY <1>3 DEF Return, OtherFinger, PressReturns, MoveReturns, Goto, Returned, Fingered
  <2>2. ~DropsButton /\ ~ReportsDrop /\ ~LiftsContact /\ ~ReportsLift /\ ~SelectsLast
    BY <2>1, NothingLeft, NothingToDo DEF ReleaseReturns, PrimitiveReturns, Returned, Fingered
  <2>3. QED
    BY <1>1, <2>2, QuietShares
<1>4. QED
  BY <1>2, <1>3

\* Writing an event, on a device that the process knows.
LEMMA WriteShares ==
  ASSUME TypeOK, Control, TypeOK', write_event, slot \in {0, 1}, TouchNeedsMT, flags = Probed
  PROVE  StepShares /\ TouchNeedsMT'
<1> DEFINE e == Calls[pos]
<1>1. /\ pos \in 1..Len(Calls) /\ stage \in Primitives /\ pos' = pos + 1 /\ Deliver(e)
      /\ UNCHANGED <<flags, cmd, stage, finger>>
      /\ Slots' = Slots /\ Prefix' = Prefix /\ dev' = dev
      /\ pos \in Nat /\ finger \in Finger /\ Prefix \in {0, 1}
  BY WriteFrame DEF TypeOK, Prefix
<1>2. /\ HasOtherFinger' = HasOtherFinger /\ Probed' = Probed
      /\ stage = "release" => Calls' = Calls
  BY <1>1 DEF HasOtherFinger, Probed, Calls, Body
<1> DEFINE final == stage = "release" /\ ~HasOtherFinger
<1>3. PICK n \in Nat : /\ n = Len(Calls) /\ pos <= n
                       /\ stage = "release" /\ "TOUCH" \in flags => n >= Prefix + 2
                       /\ stage = "release" /\ "MT" \in flags => n >= Prefix + 3
  <2>1. Len(Calls) \in Nat /\ pos <= Len(Calls)
    BY <1>1, CallsAt
  <2>2. QED
    BY <2>1, ReleaseShaped DEF ReleaseShape
<1>4. /\ stage \in Fingered /\ (final => pos < n) => Before(pos < Len(Calls))
      /\ stage \in Fingered /\ (final => pos + 1 < n) => Before(pos < Len(Calls))'
      /\ stage \in Fingered /\ (final => pos + 1 <= n) => Before(pos <= Len(Calls))'
      /\ stage \in Fingered /\ (final => pos + 1 <= Prefix + 1) => Before(pos <= Prefix + 1)'
      /\ stage \in Fingered /\ ~final => Before(pos = 1)'
  BY <1>1, <1>2, <1>3 DEF Before
<1>5. /\ final /\ pos >= n => ~Before(pos < Len(Calls))
      /\ final /\ pos > Prefix + 1 => ~Before(pos <= Prefix + 1)
      /\ final /\ pos # 1 => ~Before(pos = 1)
      /\ stage \notin Fingered => \A point \in BOOLEAN : ~Before(point)
  BY <1>1, <1>3 DEF Before
<1>6. /\ e.code = "BTN_TOUCH" /\ stage \in Fingered =>
           /\ "TOUCH" \in flags /\ stage \in {"press", "release"}
           /\ stage = "release" => e.value = 0 /\ pos = n - 1
      /\ e.code = "SYN_REPORT" => stage \in Fingered /\ pos = n
      /\ stage = "release" /\ "TOUCH" \in flags =>
           /\ pos = n - 1 => e = Ev("BTN_TOUCH", 0)
           /\ pos = n => e = Ev("SYN_REPORT", 0)
      /\ stage = "release" /\ "MT" \in flags /\ pos = Prefix + 1 => e = Ev("ABS_MT_TRACKING_ID", -1)
      /\ e.code = "ABS_MT_TRACKING_ID" =>
           /\ "MT" \in flags /\ stage \in {"press", "release"}
           /\ stage = "release" => e.value = -1
      /\ e.code = "ABS_MT_SLOT" => Prefix = 1 /\ pos = 1
      /\ Prefix = 1 /\ pos = 1 => e = Ev("ABS_MT_SLOT", finger)
  BY <1>1, <1>3, NextEventIs
<1>7. /\ abs \in [Slots -> [Axes -> Int]] /\ slot \in Slots /\ "ABS_MT_TRACKING_ID" \in Axes
      /\ "MT" \in flags => "TOUCH" \in flags
  BY DEF TypeOK, DeviceTypeOK, Axes, MTAxes, Classes

\* The button, for the kernel and for the readers.
<1>8. "BTN_TOUCH" \in keys' /\ ~keyed' =>
        DropsButton' \/ ("BTN_TOUCH" \in keys /\ ~keyed /\ ~DropsButton)
  <2> SUFFICES ASSUME "BTN_TOUCH" \in keys', ~keyed',
                      DropsButton \/ "BTN_TOUCH" \notin keys \/ keyed
               PROVE  DropsButton'
    OBVIOUS
  <2>1. "TOUCH" \in flags /\ stage \in Fingered /\ (final => pos + 1 < n)
    <3>1. CASE e.code = "BTN_TOUCH"
      <4>1. stage \in Fingered
        BY <3>1, KeyedIs
      <4>2. stage # "release"
        BY <1>1, <1>6, <3>1, <4>1, DeliverIs
      <4>3. QED
        BY <1>6, <3>1, <4>1, <4>2
    <3>2. CASE e.code # "BTN_TOUCH"
      <4>1. DropsButton
        BY <1>1, <3>2, DeliverIs, KeyedIs
      <4>2. "TOUCH" \in flags /\ stage \in Fingered /\ (final => pos < n)
        BY <1>3, <4>1 DEF DropsButton, Before
      <4>3. final => pos # n - 1
        BY <1>6, <3>2, <4>2 DEF Ev
      <4>4. QED
        BY <1>1, <1>3, <4>2, <4>3
    <3>3. QED
      BY <3>1, <3>2
  <2>2. QED
    BY <1>1, <1>4, <2>1 DEF DropsButton
<1>9. "BTN_TOUCH" \in seen'.keys /\ ~keyedSeen' =>
        \/ ReportsDrop'
        \/ "BTN_TOUCH" \in seen.keys /\ ~keyedSeen /\ ~ReportsDrop
        \/ "BTN_TOUCH" \in keys /\ ~keyed /\ ~DropsButton
  <2>1. CASE e.code = "SYN_REPORT"
    <3>1. seen'.keys = keys /\ pos = n /\ stage \in Fingered
      BY <1>1, <1>6, <2>1, DeliverIs
    <3>2. "TOUCH" \in flags /\ ~final => ReportsDrop'
      BY <1>1, <1>4, <3>1 DEF ReportsDrop
    <3>3. final \/ "TOUCH" \notin flags => ~DropsButton
      BY <1>3, <1>5, <3>1 DEF DropsButton
    <3>4. keyedSeen' <=> keyed
      BY <2>1, KeyedIs
    <3>5. QED
      BY <3>1, <3>2, <3>3, <3>4
  <2>2. CASE e.code # "SYN_REPORT"
    <3>1. seen' = seen /\ (keyedSeen' <=> keyedSeen)
      BY <1>1, <2>2, DeliverIs, KeyedIs
    <3>2. ReportsDrop => ReportsDrop'
      <4> SUFFICES ASSUME ReportsDrop PROVE ReportsDrop'
        OBVIOUS
      <4>1. "TOUCH" \in flags /\ stage \in Fingered
        BY DEF ReportsDrop, Before
      <4>2. final => pos # n
        BY <1>6, <2>2, <4>1 DEF Ev
      <4>3. final => pos + 1 <= n
        BY <1>1, <1>3, <4>2
      <4>4. QED
        BY <1>1, <1>4, <4>1, <4>3 DEF ReportsDrop
    <3>3. QED
      BY <3>1, <3>2
  <2>3. QED
    BY <2>1, <2>2

\* The contacts: selecting a slot.
<1>10. ASSUME e.code = "ABS_MT_SLOT"
       PROVE  /\ slot' \in {0, 1} /\ TouchNeedsMT'
              /\ InContact(abs', slot') => LiftsContact'
              /\ InContact(seen'.abs, slot') => ReportsLift'
              /\ \A s \in Slots \ {0, slot'} :
                   TouchAt(s)' => TouchAt(s) /\ (SelectsLast' \/ (s # slot /\ slot' = 1))
  <2>1. /\ Prefix = 1 /\ pos = 1 /\ e.value = finger
        /\ cmd.op = "pinch" /\ stage \in Fingered
    BY <1>6, <1>10 DEF Ev, Prefix
  <2>2. abs' = abs /\ seen' = seen
    BY <1>1, <1>10, DeliverIs DEF Axes, MTAxes
  <2>3. /\ slot' = IF finger \in Slots THEN finger ELSE slot
        /\ finger = 1 /\ finger \notin Slots => Slots = {0}
    <3>1. slot' = IF "ABS_MT_SLOT" \in dev.abs /\ finger \in Slots THEN finger ELSE slot
      BY <1>1, <1>10, <2>1, DeliverIs
    <3>2. finger \in Slots => "ABS_MT_SLOT" \in dev.abs \/ slot = finger
      BY <1>1, SlotFacts DEF Finger
    <3>3. finger = 1 /\ finger \notin Slots => Slots = {0}
      BY SlotFacts
    <3>4. QED
      BY <3>1, <3>2, <3>3
  <2>4. slot' \in {0, 1}
    BY <1>1, <2>3 DEF Finger
  <2>5. TouchNeedsMT' /\ \A s \in Slots : TouchAt(s)' <=> TouchAt(s)
    BY <1>1, <1>2, <2>2 DEF TouchNeedsMT, TouchAt, InContact
  <2>6. "MT" \in flags => LiftsContact' /\ ReportsLift' /\ (~final => SelectsLast')
    <3> SUFFICES ASSUME "MT" \in flags PROVE LiftsContact' /\ ReportsLift' /\ (~final => SelectsLast')
      OBVIOUS
    <3>1. pos + 1 <= Prefix + 1 /\ (final => pos + 1 <= n)
      BY <1>3, <1>7, <2>1
    <3>2. QED
      BY <1>1, <1>4, <2>1, <3>1 DEF LiftsContact, ReportsLift, SelectsLast
  <2>7. (\E s \in Slots : TouchAt(s)) => "MT" \in flags
    BY DEF TouchNeedsMT
  <2>8. slot' \in Slots
    BY <1>1 DEF TypeOK, DeviceTypeOK
  <2>9. /\ InContact(abs', slot') => LiftsContact'
        /\ InContact(seen'.abs, slot') => ReportsLift'
    BY <2>2, <2>6, <2>7, <2>8 DEF TouchAt
  <2>10. ASSUME NEW s \in Slots \ {0, slot'}, TouchAt(s), ~SelectsLast'
         PROVE  s # slot /\ slot' = 1
    <3>1. final
      BY <2>6, <2>7, <2>10
    <3>2. finger = 1
      BY <1>1, <2>1, <3>1 DEF HasOtherFinger, Finger
    <3>3. slot' = 1
      BY <2>3, <2>10, <3>2
    <3>4. QED
      BY <2>10, <3>3
  <2>11. QED
    BY <2>4, <2>5, <2>9, <2>10

\* The contacts: every other event.
<1>11. ASSUME e.code # "ABS_MT_SLOT"
       PROVE  /\ slot' \in {0, 1} /\ TouchNeedsMT'
              /\ InContact(abs', slot') => LiftsContact' \/ (InContact(abs, slot) /\ ~LiftsContact)
              /\ InContact(seen'.abs, slot') =>
                   \/ ReportsLift'
                   \/ InContact(seen.abs, slot) /\ ~ReportsLift
                   \/ InContact(abs, slot) /\ ~LiftsContact
              /\ \A s \in Slots \ {0, slot'} :
                   TouchAt(s)' => TouchAt(s) /\ (SelectsLast' \/ (s # slot /\ ~SelectsLast))
  <2>1. slot' = slot
    BY <1>1, <1>11, DeliverIs
  <2>2. ASSUME NEW s \in Slots, InContact(abs', s), ~InContact(abs, s)
        PROVE  /\ s = slot /\ stage = "press" /\ e.code = "ABS_MT_TRACKING_ID"
               /\ "ABS_MT_TRACKING_ID" \in dev.abs /\ "MT" \in flags
    <3>1. /\ e.code \in Axes /\ e.code \in dev.abs
          /\ abs' = [abs EXCEPT ![slot][e.code] = e.value]
      BY <1>1, <2>2, DeliverIs
    <3>2. s = slot /\ e.code = "ABS_MT_TRACKING_ID" /\ e.value # -1
      BY <1>7, <2>2, <3>1 DEF InContact
    <3>3. QED
      BY <1>6, <3>1, <3>2
  <2>3. seen' = seen \/ (seen'.abs = abs /\ pos = n /\ stage \in Fingered)
    BY <1>1, <1>6, DeliverIs
  <2>4. TouchNeedsMT'
    <3> SUFFICES ASSUME NEW s \in Slots, TouchAt(s)'
                 PROVE  "MT" \in Probed /\ "ABS_MT_TRACKING_ID" \in dev.abs
      BY <1>1, <1>2 DEF TouchNeedsMT
    <3>1. CASE TouchAt(s)
      BY <3>1 DEF TouchNeedsMT
    <3>2. CASE ~TouchAt(s)
      <4>1. InContact(abs', s)
        BY <2>3, <3>2 DEF TouchAt, InContact
      <4>2. QED
        BY <2>2, <3>2, <4>1 DEF TouchAt
    <3>3. QED
      BY <3>1, <3>2
  <2>5. ASSUME InContact(abs', slot'), ~LiftsContact'
        PROVE  InContact(abs, slot) /\ ~LiftsContact
    <3>1. InContact(abs, slot)
      <4> SUFFICES ASSUME ~InContact(abs, slot) PROVE FALSE
        OBVIOUS
      <4>1. stage = "press" /\ "MT" \in flags
        BY <1>7, <2>1, <2>2, <2>5
      <4>2. LiftsContact'
        BY <1>1, <1>4, <4>1 DEF LiftsContact, Fingered
      <4>3. QED
        BY <2>5, <4>2
    <3>2. "MT" \in flags /\ "ABS_MT_TRACKING_ID" \in dev.abs
      BY <1>7, <3>1 DEF TouchNeedsMT, TouchAt
    <3> SUFFICES ASSUME LiftsContact PROVE FALSE
      BY <3>1
    <3>3. stage \in Fingered /\ (final => pos <= Prefix + 1)
      BY DEF LiftsContact, Before
    <3>4. final /\ pos = Prefix + 1
      BY <1>1, <1>4, <2>5, <3>2, <3>3 DEF LiftsContact
    <3>5. e = Ev("ABS_MT_TRACKING_ID", -1)
      BY <1>6, <3>2, <3>4
    <3>6. abs' = [abs EXCEPT ![slot]["ABS_MT_TRACKING_ID"] = -1]
      BY <1>1, <1>7, <3>2, <3>5, DeliverIs DEF Ev
    <3>7. QED
      BY <1>7, <2>1, <2>5, <3>6 DEF InContact
  <2>6. ASSUME InContact(seen'.abs, slot'), ~ReportsLift'
        PROVE  \/ InContact(seen.abs, slot) /\ ~ReportsLift
               \/ InContact(abs, slot) /\ ~LiftsContact
    <3>1. "MT" \in flags
      <4>1. TouchAt(slot)'
        BY <2>6, <2>1 DEF TouchAt, InContact
      <4>2. QED
        BY <1>1, <1>2, <1>7, <2>1, <2>4, <4>1 DEF TouchNeedsMT
    <3>2. stage \notin Fingered \/ (final /\ pos + 1 > n)
      BY <1>1, <1>3, <1>4, <2>6, <3>1 DEF ReportsLift
    <3>3. CASE stage \notin Fingered
      BY <2>1, <2>3, <2>6, <3>3, NothingToDo
    <3>4. CASE final /\ pos + 1 > n
      <4>1. pos = n /\ e.code = "SYN_REPORT"
        BY <1>1, <1>3, <1>6, <1>7, <3>1, <3>4 DEF Ev
      <4>2. seen'.abs = abs
        BY <1>1, <4>1, DeliverIs
      <4>3. pos > Prefix + 1
        BY <1>1, <1>3, <1>7, <3>1, <3>4, <4>1
      <4>4. QED
        BY <1>5, <2>1, <2>6, <3>4, <4>2, <4>3 DEF LiftsContact
    <3>5. QED
      BY <3>2, <3>3, <3>4
  <2>7. ASSUME NEW s \in Slots \ {0, slot'}, TouchAt(s)'
        PROVE  TouchAt(s) /\ (SelectsLast' \/ (s # slot /\ ~SelectsLast))
    <3>1. s # slot
      BY <2>1, <2>7
    <3>2. TouchAt(s)
      BY <2>2, <2>3, <2>7, <3>1 DEF TouchAt, InContact
    <3>3. SelectsLast => SelectsLast'
      <4> SUFFICES ASSUME SelectsLast PROVE SelectsLast'
        OBVIOUS
      <4>1. "MT" \in flags /\ cmd.op = "pinch" /\ stage \in Fingered /\ (final => pos = 1)
        BY DEF SelectsLast, Before
      <4>2. ~(pos = 1)
        BY <1>6, <1>11, <4>1 DEF Prefix, Ev
      <4>3. QED
        BY <1>1, <1>4, <4>1, <4>2 DEF SelectsLast
    <3>4. QED
      BY <3>1, <3>2, <3>3
  <2>8. QED
    BY <2>1, <2>4, <2>5, <2>6, <2>7
<1>12. QED
  <2>1. CASE e.code = "ABS_MT_SLOT"
    BY <1>8, <1>9, <1>10, <2>1 DEF StepShares
  <2>2. CASE e.code # "ABS_MT_SLOT"
    BY <1>8, <1>9, <1>11, <2>2 DEF StepShares
  <2>3. QED
    BY <2>1, <2>2

\* No event changes the device itself.
LEMMA WriteKeepsDevice == write_event => dev' = dev
BY DEF write_event, Deliver

\* The device that is plugged in stays the same.
LEMMA DeviceStays == [Next]_vars => dev' = dev
BY BeginCommandIs, WriteKeepsDevice
   DEF Next, Start, Exit, Kill, Begin, Return, OtherFinger, PressReturns, MoveReturns,
       ReleaseReturns, PrimitiveReturns, Goto, write_event_fails, devVars, vars

\* Where nothing has failed yet after a step, nothing had failed before it.
LEMMA FaultsStay == TypeOK /\ [Next]_vars /\ faults' = 0 => faults = 0
<1>1. [Next]_vars => faults' = faults \/ faults' = faults + 1
  BY BeginCommandIs DEF Next, Start, Exit, Kill, Begin, write_event, write_event_fails, Return,
         OtherFinger, PressReturns, MoveReturns, ReleaseReturns, PrimitiveReturns, Goto, history, vars
<1>2. QED
  BY <1>1, FaultsType

\* Once it has probed the device, a process knows it.
LEMMA KnownKept ==
  ASSUME TypeOK, Known, [Next]_vars
  PROVE  Known'
<1> SUFFICES ASSUME faults' = 0, stage' \in Primitives \cup {"idle"} PROVE flags' = Probed'
  BY DEF Known
<1>1. dev' = dev /\ Probed' = Probed
  BY DeviceStays DEF Probed
<1>2. faults = 0
  BY FaultsStay
<1>3. CASE Start
  <2>1. PICK K, A, name : /\ flags' = figure_out_events_device_reports(K, A, name)
                          /\ faults' = IF <<K, A, name>> = <<dev.keys, dev.abs, dev.name>>
                                       THEN faults ELSE faults + 1
    BY <1>3 DEF Start
  <2>2. K = dev.keys /\ A = dev.abs /\ name = dev.name
    BY <1>2, <2>1
  <2>3. QED
    BY <1>1, <2>1, <2>2 DEF Probed
<1>4. CASE ~Start
  <2>1. flags' = flags /\ stage \in Primitives \cup {"idle"}
    BY <1>4, BeginCommandIs
       DEF Next, Exit, Kill, Begin, write_event, write_event_fails, NextEvent, Return, OtherFinger,
           PressReturns, MoveReturns, ReleaseReturns, PrimitiveReturns, Goto, Returned, gestureVars,
           vars, Primitives, Fingered
  <2>2. QED
    BY <1>1, <1>2, <2>1 DEF Known
<1>5. QED
  BY <1>3, <1>4

\* Every step of a process that goes well.
LEMMA NextShares ==
  ASSUME TypeOK, Control, Known, TypeOK', Control', [Next]_vars, faults = 0, faults' = 0,
         slot \in {0, 1}, TouchNeedsMT
  PROVE  dev' = dev /\ StepShares /\ TouchNeedsMT'
<1>1. dev' = dev
  BY DeviceStays
<1>2. CASE Start \/ Exit \/ BeginCommand
  <2>1. stage \notin Fingered /\ UNCHANGED <<devVars, keyVars>>
    BY <1>2, BeginCommandIs DEF Start, Exit, Begin, Fingered
  <2>2. QED
    BY <1>1, <2>1, NothingToDo, QuietShares
<1>3. CASE Kill \/ write_event_fails
  BY <1>3 DEF Kill, write_event_fails
<1>4. CASE write_event
  <2>1. flags = Probed
    BY <1>4 DEF write_event, NextEvent, Known
  <2>2. QED
    BY <1>1, <1>4, <2>1, WriteShares
<1>5. CASE Return
  BY <1>1, <1>5, ReturnShares
<1>6. CASE UNCHANGED vars
  <2>1. UNCHANGED <<devVars, keyVars, flags, trackingId, stage, cmd, finger, iter, pos>>
    BY <1>6 DEF vars, gestureVars
  <2>2. Calls' = Calls /\ Prefix' = Prefix /\ HasOtherFinger' = HasOtherFinger
    BY <2>1 DEF Calls, Body, Prefix, HasOtherFinger
  <2>3. /\ DropsButton' = DropsButton /\ ReportsDrop' = ReportsDrop /\ SelectsLast' = SelectsLast
        /\ LiftsContact' = LiftsContact /\ ReportsLift' = ReportsLift
    BY <2>1, <2>2 DEF DropsButton, ReportsDrop, SelectsLast, LiftsContact, ReportsLift, Before
  <2>4. QED
    BY <1>1, <2>1, <2>3, QuietShares
<1>7. QED
  BY <1>2, <1>3, <1>4, <1>5, <1>6 DEF Next

===========================================================================
