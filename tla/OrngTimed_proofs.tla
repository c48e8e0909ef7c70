------------------------- MODULE OrngTimed_proofs -------------------------
(***************************************************************************)
(* Proofs about OrngTimed, for every device, script, duration and width of *)
(* a word: how long each command takes.                                    *)
(***************************************************************************)
EXTENDS OrngTimed, Orng_proofs

---------------------------------------------------------------------------
(* Events and pauses.                                                      *)

\* The number of events depends on the class of the device only.
LEMMA LengthsAre ==
  ASSUME NEW f \in Classes, NEW id \in Nat, NEW p \in Int \X Int
  PROVE  /\ Len(execute_press(f, id, p)) = IF f = {} THEN 0 ELSE PressLength(f)
         /\ Len(execute_move(f, p)) = IF f = {} THEN 0 ELSE MoveLength(f)
         /\ Len(execute_release(f)) = IF f = {} THEN 0 ELSE ReleaseLength(f)
<1>1. CASE f = {}
  BY <1>1 DEF execute_press, execute_move, execute_release
<1>2. CASE f # {}
  <2>1. "TOUCH" \in f
    BY <1>2 DEF Classes
  <2>2. QED
    BY <1>2, <2>1, PressPlan, MovePlan, ReleasePlan
<1>3. QED
  BY <1>1, <1>2

\* So every call of a primitive of a gesture writes the same number of events.
LEMMA LengthType ==
  ASSUME TypeOK, Control
  PROVE  /\ Length("press") \in Nat /\ Length("move") \in Nat /\ Length("release") \in Nat
         /\ stage \in Fingered => Len(Calls) = Length(stage)
<1>1. /\ PressLength(flags) \in Nat /\ MoveLength(flags) \in Nat /\ ReleaseLength(flags) \in Nat
      /\ flags \in Classes /\ 1 \in Nat /\ <<0, 0>> \in Int \X Int /\ trackingId \in Nat
      /\ cmd.from[finger] \in Int \X Int /\ cmd.to[finger] \in Int \X Int
      /\ cmd.n \in Int /\ iter \in Int
  BY CommandTypes DEF PressLength, MoveLength, ReleaseLength, TypeOK, CommandType
<1>2. /\ Len(execute_press(flags, 1, <<0, 0>>)) = IF flags = {} THEN 0 ELSE PressLength(flags)
      /\ Len(execute_move(flags, <<0, 0>>)) = IF flags = {} THEN 0 ELSE MoveLength(flags)
      /\ Len(execute_release(flags)) = IF flags = {} THEN 0 ELSE ReleaseLength(flags)
  BY <1>1, LengthsAre
<1>3. /\ Length("press") = (IF cmd.op = "pinch" THEN 1 ELSE 0) + Len(execute_press(flags, 1, <<0, 0>>))
      /\ Length("move") = (IF cmd.op = "pinch" THEN 1 ELSE 0) + Len(execute_move(flags, <<0, 0>>))
      /\ Length("release") = (IF cmd.op = "pinch" THEN 1 ELSE 0) + Len(execute_release(flags))
  BY DEF Length
<1>4. ASSUME stage \in Fingered
      PROVE  Len(Calls) = Length(stage)
  <2>1. Len(Calls) = (IF cmd.op = "pinch" THEN 1 ELSE 0) + Len(Body)
    BY <1>4, CallsAt DEF Prefix
  <2>2. CASE stage = "press"
    <3>1. Body = execute_press(flags, trackingId, cmd.from[finger])
      BY <2>2 DEF Body
    <3>2. Len(Body) = Len(execute_press(flags, 1, <<0, 0>>))
      BY <1>1, <1>2, <3>1, LengthsAre
    <3>3. QED
      BY <1>3, <2>1, <2>2, <3>2
  <2>3. CASE stage = "move"
    <3>1. Body = execute_move(flags, Waypoint(cmd.from[finger], cmd.to[finger], cmd.n, iter))
      BY <2>3 DEF Body
    <3>2. Waypoint(cmd.from[finger], cmd.to[finger], cmd.n, iter) \in Int \X Int
      BY <1>1, <2>3, WaypointType DEF Control
    <3>3. Len(Body) = Len(execute_move(flags, <<0, 0>>))
      BY <1>1, <1>2, <3>1, <3>2, LengthsAre
    <3>4. QED
      BY <1>3, <2>1, <2>3, <3>3
  <2>4. CASE stage = "release"
    <3>1. Body = execute_release(flags)
      BY <2>4 DEF Body
    <3>2. QED
      BY <1>3, <2>1, <2>4, <3>1
  <2>5. QED
    BY <1>4, <2>2, <2>3, <2>4 DEF Fingered
<1>5. QED
  BY <1>1, <1>2, <1>3, <1>4

\* The same, in a form that holds of the next state as well.
LEMMA LengthInNat ==
  TypeOK /\ Control =>
    Length("press") \in Nat /\ Length("move") \in Nat /\ Length("release") \in Nat
BY LengthType

\* Of the next state.
LEMMA LengthInNatNext ==
  (TypeOK /\ Control =>
     Length("press") \in Nat /\ Length("move") \in Nat /\ Length("release") \in Nat)'
BY LengthInNat, PTL

\* They do not change within a command.
LEMMA LengthStays ==
  ASSUME UNCHANGED <<flags, cmd>>, NEW st \in Fingered
  PROVE  Length(st)' = Length(st)
BY DEF Length, Fingered

\* The pauses that the code gives in numbers, and those of a duration that fits.
LEMMA SleepsAre ==
  /\ execute_sleep_for(1) = UsPerMs /\ execute_sleep_for(50) = 50 * UsPerMs
  /\ execute_sleep_for(100) = 100 * UsPerMs
  /\ \A m \in Int : execute_sleep_for(m) \in Nat
  /\ \A m \in Int : m * UsPerMs \in 0..(Word - 1) => execute_sleep_for(m) = m * UsPerMs
<1>1. UsPerMs \in Nat \ {0} /\ Word \in Nat /\ 100 * UsPerMs < Word /\ Word > 0
  BY TimeAssumption
<1>2. \A x \in 0..(Word - 1) : x % Word = x
  BY <1>1
<1>3. \A x \in Int : x % Word \in Nat
  BY <1>1
<1>4. \A m \in Int : m * UsPerMs \in Int
  BY <1>1
<1>5. /\ 1 * UsPerMs = UsPerMs /\ 1 * UsPerMs \in 0..(Word - 1)
      /\ 50 * UsPerMs \in 0..(Word - 1) /\ 100 * UsPerMs \in 0..(Word - 1)
  BY <1>1
<1>6. QED
  BY <1>2, <1>3, <1>4, <1>5 DEF execute_sleep_for

---------------------------------------------------------------------------
(* The steps.                                                              *)

\* A command begins with no event written and no pause made.
LEMMA BeginsOnTime ==
  ASSUME TypeOK, TimedBegin, TypeOK', Control'
  PROVE  TimedInv'
<1> USE DEF Gestures, Fingered, Primitives
<1>1. PICK c \in Commands, st \in Stages \ {"move", "release"} :
        /\ Begin(c, st)
        /\ c.op = "tap" => st = IF c.n > 0 THEN "press" ELSE "idle"
        /\ c.op \in {"drag", "pinch"} => st = "press" \/ st = "dead"
        /\ c.op = "sleep" => st = "idle"
        /\ c.op \in {"reset", "keydown", "keyup"} => st = c.op
        /\ c.op # "none"
  BY DEF TimedBegin, BeginCommand, execute_tap, execute_drag, execute_pinch, BeginPath,
         BeginPrimitive, execute_sleep, Stages
<1>2. /\ cmd' = c /\ stage' = st /\ finger' = 0 /\ iter' = 0 /\ pos' = 1
      /\ c.n \in Int /\ c.op \in Op
  BY <1>1, CommandsAssumption DEF Begin, CommandType
<1>3. /\ Length("press")' \in Nat /\ Length("move")' \in Nat /\ Length("release")' \in Nat
  BY LengthInNatNext
<1>4. /\ duration' \in Durations \cup {0} /\ duration' \in Int
      /\ now' = IF c.op = "sleep" THEN execute_sleep_for(duration') ELSE 0
  BY <1>2, TimeAssumption DEF TimedBegin
<1>5. now' \in Nat
  BY <1>4, SleepsAre
<1>6. Looping'
  BY <1>1, <1>2, <1>3 DEF Looping, Op
<1>7. NoAverage'
  BY <1>1, <1>2 DEF NoAverage
<1>8. OnTime'
  <2>1. cmd'.op = "sleep" /\ Fits' => now' = duration' * UsPerMs
    BY <1>2, <1>4, SleepsAre DEF Fits
  <2>2. ASSUME cmd'.op \in Gestures, stage' \in Fingered \cup {"idle"}, Touches' >= 0
        PROVE  now' = Sent' * UsPerMs + Paused'
    <3>1. now' = 0 /\ UsPerMs \in Nat
      BY <1>2, <1>4, <2>2, TimeAssumption
    <3>2. CASE stage' = "press"
      <4>1. Preceding("press")' = 0
        <5>1. c.op = "tap" => 0 * (Length("press")' + Length("release")') = 0
          BY <1>3
        <5>2. QED
          BY <1>2, <2>2, <5>1 DEF Preceding
      <4>2. Sent' = 0
        BY <1>2, <1>3, <3>2, <4>1 DEF Sent
      <4>3. Paused' = 0
        BY <1>2, <1>4, <2>2, <3>1, <3>2 DEF Paused
      <4>4. QED
        BY <3>1, <4>2, <4>3
    <3>3. CASE stage' = "idle"
      <4>1. c.op = "tap" /\ c.n = 0
        BY <1>1, <1>2, <2>2, <3>3 DEF Touches
      <4>2. Sent' = 0
        BY <1>2, <1>3, <3>3, <4>1 DEF Sent, Events, Hands, Touches, Moves
      <4>3. Paused' = 0
        BY <1>2, <1>4, <3>1, <3>3, <4>1 DEF Paused
      <4>4. QED
        BY <3>1, <4>2, <4>3
    <3>4. QED
      BY <1>1, <1>2, <2>2, <3>2, <3>3
  <2>3. QED
    BY <2>1, <2>2 DEF OnTime
<1>9. QED
  BY <1>4, <1>5, <1>6, <1>7, <1>8 DEF TimedInv

\* Every write takes a millisecond and is one event more.
LEMMA WritesOnTime ==
  ASSUME TypeOK, Control, TimedInv, TimedWrite
  PROVE  TimedInv'
<1> USE DEF Gestures, Fingered, Primitives
<1>1. /\ UNCHANGED <<duration, last, avg, flags, cmd, stage, finger, iter>>
      /\ pos' = pos + 1 /\ stage \in Primitives /\ pos <= Len(Calls)
      /\ now' = now + UsPerMs
  BY SleepsAre DEF TimedWrite, write_event, write_event_fails, NextEvent
<1>2. /\ UsPerMs \in Nat /\ now \in Nat /\ pos \in Nat /\ finger \in Nat /\ iter \in Nat
      /\ Looping /\ OnTime /\ NoAverage /\ cmd.n \in Int
  BY TimeAssumption, CommandTypes DEF TimedInv, TypeOK, Finger, CommandType
<1>3. \A st \in Fingered : Length(st)' = Length(st) /\ Length(st) \in Nat
  BY <1>1, LengthStays, LengthType
<1>4. Looping'
  <2>1. stage \in Fingered => pos' <= Length(stage)' + 1
    BY <1>1, <1>2, <1>3, LengthType
  <2>2. Moves' = Moves
    BY <1>1 DEF Moves
  <2>3. QED
    BY <1>1, <1>2, <2>1, <2>2 DEF Looping
<1>5. OnTime'
  <2>1. Fits' <=> Fits
    BY <1>1 DEF Fits
  <2>2. Touches' = Touches /\ Hands' = Hands /\ Moves' = Moves
    BY <1>1 DEF Touches, Hands, Moves
  <2>3. cmd.op # "sleep"
    BY <1>1, <1>2 DEF Looping
  <2>4. ASSUME cmd.op \in Gestures, stage \in Fingered, Fits, Touches >= 0
        PROVE  now' = Sent' * UsPerMs + Paused'
    <3>1. now = Sent * UsPerMs + Paused
      BY <1>2, <2>4 DEF OnTime
    <3>2. Preceding(stage)' = Preceding(stage)
      BY <1>1, <1>3, <2>2, <2>4 DEF Preceding
    <3>3. Preceding(stage) \in Int
      <4>1. /\ Hands \in Int /\ Moves \in Int
            /\ \A x, y \in Int : x * y \in Int /\ x + y \in Int
        BY <1>2 DEF Hands, Moves
      <4>2. QED
        BY <1>2, <1>3, <2>4, <4>1 DEF Preceding
    <3>4. finger * Length(stage) \in Int
      BY <1>2, <1>3, <2>4
    <3>5. Sent' = Sent + 1 /\ Sent \in Int
      <4>1. stage # "idle" /\ stage' = stage /\ finger' = finger
        BY <1>1, <2>4
      <4>2. Length(stage)' = Length(stage)
        BY <1>1, LengthStays, <2>4
      <4>3. Sent = Preceding(stage) + finger * Length(stage) + (pos - 1)
        BY <4>1 DEF Sent
      <4>4. Sent' = Preceding(stage) + finger * Length(stage) + (pos' - 1)
        BY <4>1, <4>2, <3>2 DEF Sent
      <4>5. QED
        BY <1>1, <1>2, <3>3, <3>4, <4>3, <4>4
    <3>6. Paused' = Paused
      BY <1>1 DEF Paused
    <3>7. Sent' * UsPerMs = Sent * UsPerMs + UsPerMs
      BY <1>2, <3>5
    <3>8. Paused = now - Sent * UsPerMs /\ Sent * UsPerMs \in Int
      <4> DEFINE x == Sent * UsPerMs
      <4>1. x \in Int
        BY <1>2, <3>5
      <4>2. Paused \in Int
        <5>1. /\ duration \in Int /\ \A m \in Int : execute_sleep_for(m) \in Nat
              /\ \A y, z \in Int : y * z \in Int
          BY TimeAssumption, SleepsAre DEF TimedInv
        <5>2. cmd.n > 0 => execute_sleep_for(CDiv(duration, cmd.n)) \in Int
          BY <1>2, <5>1 DEF CDiv
        <5>3. QED
          BY <1>2, <2>4, <5>1, <5>2 DEF Paused
      <4>3. QED
        BY <1>2, <3>1, <4>1, <4>2
    <3>9. QED
      BY <1>1, <1>2, <3>6, <3>7, <3>8
  <2>5. QED
    BY <1>1, <1>2, <2>1, <2>2, <2>3, <2>4 DEF OnTime, Looping
<1>6. QED
  BY <1>1, <1>2, <1>4, <1>5 DEF TimedInv, NoAverage

\* What a return leaves alone, and that it comes after the last event of its primitive.
LEMMA ReturnFrame ==
  ASSUME TypeOK, Control, TimedInv, TimedReturn
  PROVE  /\ UNCHANGED <<duration, flags, cmd>> /\ pos' = 1 /\ finger' \in {0, 1} /\ iter' \in Nat
         /\ stage \in Primitives /\ (stage \in Fingered => pos = Length(stage) + 1)
         /\ Moves' = Moves /\ Hands' = Hands /\ Touches' = Touches /\ (Fits' <=> Fits)
         /\ Events' = Events /\ iter \in Nat /\ pos \in Nat /\ cmd.n \in Int /\ Moves \in Nat
         /\ \A st \in Fingered : Length(st)' = Length(st) /\ Length(st) \in Nat
<1>1. /\ UNCHANGED <<duration, flags, cmd>> /\ pos' = 1 /\ finger' \in {0, 1} /\ iter' \in Nat
      /\ iter \in Nat /\ pos \in Nat /\ cmd.n \in Int
  <2>1. iter \in Nat /\ pos \in Nat /\ cmd.n \in Int
    BY CommandTypes DEF TypeOK, CommandType
  <2>2. UNCHANGED <<duration, flags, cmd>> /\ pos' = 1 /\ finger' \in {0, 1} /\ iter' \in {iter, iter + 1}
    BY DEF TimedReturn, Return, OtherFinger, PressReturns, MoveReturns, ReleaseReturns,
           PrimitiveReturns, Goto
  <2>3. QED
    BY <2>1, <2>2
<1>2. stage \in Primitives /\ (stage \in Fingered => pos > Len(Calls))
  BY DEF TimedReturn, Return, OtherFinger, PressReturns, MoveReturns, ReleaseReturns,
         PrimitiveReturns, Returned, Fingered, Primitives
<1>3. Moves' = Moves /\ Hands' = Hands /\ Touches' = Touches /\ (Fits' <=> Fits)
  BY <1>1 DEF Moves, Hands, Touches, Fits
<1>4. \A st \in Fingered : Length(st)' = Length(st) /\ Length(st) \in Nat
  BY <1>1, LengthStays, LengthType DEF Fingered
<1>5. Events' = Events
  BY <1>3, <1>4 DEF Events, Fingered
<1>6. stage \in Fingered => pos = Length(stage) + 1
  <2>1. stage \in Fingered => pos <= Length(stage) + 1 /\ Len(Calls) = Length(stage)
    BY LengthType DEF TimedInv, Looping
  <2>2. QED
    BY <1>1, <1>2, <1>4, <2>1
<1>7. Moves \in Nat
  BY <1>1 DEF Moves
<1>8. QED
  BY <1>1, <1>2, <1>3, <1>4, <1>5, <1>6, <1>7

\* A return of a gesture writes nothing: the loops count on as the events do.
LEMMA ReturnCounts ==
  ASSUME TypeOK, Control, TimedInv, TimedReturn, cmd.op \in Gestures, Touches >= 0
  PROVE  Looping' /\ Sent' = Sent
<1> DEFINE P == Length("press")
           M == Length("move")
           R == Length("release")
<1>1. /\ cmd' = cmd /\ pos' = 1 /\ iter' \in Nat /\ stage \in Fingered /\ pos = Length(stage) + 1
      /\ Moves' = Moves /\ Hands' = Hands /\ Events' = Events
      /\ iter \in Nat /\ cmd.n \in Int /\ Moves \in Nat /\ cmd.op \in {"tap", "drag", "pinch"}
      /\ Looping /\ finger \in {0, 1} /\ (finger = 1 => cmd.op = "pinch")
      /\ cmd.op = "tap" => cmd.n >= 0
  BY ReturnFrame DEF TimedInv, Looping, Touches, Gestures, Control, TypeOK, Finger
<1>2. /\ P \in Nat /\ M \in Nat /\ R \in Nat /\ P' = P /\ M' = M /\ R' = R
  BY ReturnFrame DEF Fingered
<1>3. \A x, y \in Nat : x * y \in Nat /\ (x + 1) * y = x * y + y
  OBVIOUS
<1>4. /\ iter * (P + R) \in Nat /\ (iter + 1) * (P + R) = iter * (P + R) + (P + R)
      /\ iter * M \in Nat /\ iter * (2 * M) \in Nat /\ Moves * M \in Nat
      /\ Moves * (2 * M) = 2 * (Moves * M)
      /\ (iter + 1) * M = iter * M + M /\ (iter + 1) * (2 * M) = iter * (2 * M) + 2 * M
  BY <1>1, <1>2, <1>3
<1>5. \/ OtherFinger \/ PressReturns \/ MoveReturns \/ ReleaseReturns
  BY <1>1 DEF TimedReturn, Return, PrimitiveReturns, Returned, Fingered
<1>6. /\ Events = IF cmd.op = "tap" THEN cmd.n * (P + R)
                   ELSE Hands * (P + R) + Hands * (Moves * M)
      /\ Hands = IF cmd.op = "pinch" THEN 2 ELSE 1
  <2>1. Hands = IF cmd.op = "pinch" THEN 2 ELSE 1
    BY DEF Hands
  <2>2. CASE cmd.op = "tap"
    <3>1. Hands = 1 /\ Touches = cmd.n /\ Moves = 0
      BY <2>2 DEF Hands, Touches, Moves
    <3>2. cmd.n * (P + R) \in Int
      BY <1>1, <1>2
    <3>3. QED
      BY <1>2, <2>1, <2>2, <3>1, <3>2 DEF Events
  <2>3. CASE cmd.op # "tap"
    <3>1. Touches = 1 /\ Hands \in {1, 2}
      BY <2>3 DEF Touches, Hands
    <3>2. QED
      BY <1>2, <1>4, <2>1, <2>3, <3>1 DEF Events
  <2>4. QED
    BY <2>2, <2>3
<1>7. /\ cmd.op = "tap" => /\ Preceding("press") = iter * (P + R)
                           /\ Preceding("release") = iter * (P + R) + P
                           /\ Preceding("press")' = iter' * (P + R)
                           /\ Preceding("release")' = iter' * (P + R) + P
      /\ cmd.op # "tap" => /\ Preceding("press") = 0 /\ Preceding("press")' = 0
                           /\ Preceding("move") = Hands * P + iter * (Hands * M)
                           /\ Preceding("move")' = Hands * P + iter' * (Hands * M)
                           /\ Preceding("release") = Hands * P + Moves * (Hands * M)
                           /\ Preceding("release")' = Hands * P + Moves * (Hands * M)
  <2>1. iter' * (P + R) \in Nat
    BY <1>1, <1>2, <1>3
  <2>2. CASE cmd.op = "tap"
    <3>1. /\ Preceding("press") = iter * (P + R) + 0
          /\ Preceding("release") = iter * (P + R) + P
      BY <2>2 DEF Preceding
    <3>2. /\ Preceding("press")' = iter' * (P' + R') + 0
          /\ Preceding("release")' = iter' * (P' + R') + P'
      BY <1>1, <2>2 DEF Preceding
    <3> HIDE DEF P, R
    <3>3. QED
      BY <1>2, <1>4, <2>1, <2>2, <3>1, <3>2
  <2>3. CASE cmd.op # "tap"
    <3>1. /\ Preceding("press") = 0
          /\ Preceding("move") = Hands * P + iter * (Hands * M)
          /\ Preceding("release") = Hands * P + Moves * (Hands * M)
      BY <2>3 DEF Preceding
    <3>2. /\ Preceding("press")' = 0
          /\ Preceding("move")' = Hands' * P' + iter' * (Hands' * M')
          /\ Preceding("release")' = Hands' * P' + Moves' * (Hands' * M')
      BY <1>1, <2>3 DEF Preceding
    <3> HIDE DEF P, M, R
    <3>3. QED
      BY <1>1, <1>2, <2>3, <3>1, <3>2
  <2>4. QED
    BY <2>2, <2>3
<1>8. /\ Sent = Preceding(stage) + finger * Length(stage) + Length(stage)
      /\ stage' = "idle" => Sent' = Events
      /\ stage' # "idle" => Sent' = Preceding(stage)' + finger' * Length(stage)' + 0
  <2>1. stage # "idle"
    BY <1>1 DEF Fingered
  <2>2. pos - 1 = Length(stage) /\ pos' - 1 = 0
    BY <1>1, <1>2 DEF Fingered
  <2>3. QED
    BY <1>1, <2>1, <2>2 DEF Sent
<1> HIDE DEF P, M, R
<1>9. /\ stage = "press" => Length(stage) = P
      /\ stage = "move" => Length(stage) = M
      /\ stage = "release" => Length(stage) = R
      /\ stage' = "press" => Length(stage)' = P
      /\ stage' = "move" => Length(stage)' = M
      /\ stage' = "release" => Length(stage)' = R
  BY <1>2 DEF P, M, R
<1>10. CASE OtherFinger
  <2>1. stage' = stage /\ finger = 0 /\ finger' = 1 /\ cmd.op = "pinch" /\ iter' = iter
    BY <1>10 DEF OtherFinger, HasOtherFinger, Goto
  <2>2. Preceding(stage)' = Preceding(stage)
    BY <1>1, <1>7, <2>1 DEF Fingered
  <2>3. Preceding(stage) \in Nat
    BY <1>1, <1>2, <1>4, <1>6, <1>7, <2>1 DEF Fingered
  <2>4. Length(stage)' = Length(stage) /\ Length(stage) \in Nat /\ stage' # "idle"
    BY <1>1, <1>2, <1>9, <2>1 DEF Fingered
  <2>5. Sent' = Sent
    BY <1>8, <2>1, <2>2, <2>3, <2>4
  <2>6. Looping'
    BY <1>1, <2>1, <2>4 DEF Looping, Fingered, Primitives
  <2>7. QED
    BY <2>5, <2>6
<1>11. CASE PressReturns
  <2>1. /\ stage = "press" /\ finger' = 0 /\ iter' = iter /\ (cmd.op = "pinch" => finger = 1)
        /\ stage' = IF cmd.op \in {"drag", "pinch"} /\ cmd.n > 0 THEN "move" ELSE "release"
    BY <1>1, <1>11 DEF PressReturns, Returned, HasOtherFinger, Goto
  <2>2. cmd.op # "tap" => iter = 0
    BY <1>1, <2>1 DEF Looping
  <2>3. cmd.op # "tap" /\ cmd.n <= 0 => Moves = 0
    BY <1>1 DEF Moves
  <2>4. Sent' = Sent
    <3>1. CASE cmd.op = "tap"
      BY <1>1, <1>2, <1>4, <1>6, <1>7, <1>8, <1>9, <2>1, <3>1
    <3>2. CASE cmd.op # "tap" /\ cmd.n > 0
      <4>1. 0 * (Hands * M) = 0 /\ Hands \in {1, 2} /\ stage' = "move"
        BY <1>1, <1>2, <1>6, <2>1, <3>2
      <4>2. Sent' = Hands * P /\ Sent = finger * P + P
        BY <1>1, <1>2, <1>7, <1>8, <1>9, <2>1, <2>2, <3>2, <4>1
      <4>3. QED
        BY <1>1, <1>2, <1>6, <2>1, <3>2, <4>2
    <3>3. CASE cmd.op # "tap" /\ cmd.n <= 0
      <4>1. 0 * (Hands * M) = 0 /\ Hands \in {1, 2} /\ stage' = "release"
        BY <1>1, <1>2, <1>6, <2>1, <3>3
      <4>2. Sent' = Hands * P /\ Sent = finger * P + P
        BY <1>1, <1>2, <1>7, <1>8, <1>9, <2>1, <2>3, <3>3, <4>1
      <4>3. QED
        BY <1>1, <1>2, <1>6, <2>1, <3>3, <4>2
    <3>4. QED
      BY <1>1, <3>1, <3>2, <3>3
  <2>5. Looping'
    <3>1. Length(stage)' \in Nat
      BY <1>2, <1>9, <2>1
    <3>2. QED
      BY <1>1, <2>1, <2>2, <2>3, <3>1 DEF Looping, Fingered, Primitives, Gestures
  <2>6. QED
    BY <2>4, <2>5
<1>12. CASE MoveReturns
  <2>1. /\ stage = "move" /\ finger' = 0 /\ iter' = iter + 1 /\ (cmd.op = "pinch" => finger = 1)
        /\ stage' = IF iter + 1 < cmd.n THEN "move" ELSE "release"
    BY <1>1, <1>12 DEF MoveReturns, Returned, HasOtherFinger, Goto
  <2>2. cmd.op # "tap" /\ iter < cmd.n
    BY <1>1, <2>1 DEF Looping, Fingered
  <2>3. Moves = cmd.n
    BY <1>1, <2>2 DEF Moves
  <2>4. stage' = "release" => Moves = iter + 1
    BY <1>1, <2>1, <2>2, <2>3
  <2>5. Sent' = Sent
    <3>1. Sent' = Hands * P + (iter + 1) * (Hands * M)
      <4>1. CASE stage' = "move"
        BY <1>1, <1>2, <1>4, <1>6, <1>7, <1>8, <1>9, <2>1, <2>2, <4>1
      <4>2. CASE stage' = "release"
        <5>1. Sent' = Hands * P + Moves * (Hands * M) + 0 * R + 0
          BY <1>1, <1>7, <1>8, <1>9, <2>1, <2>2, <4>2
        <5>2. 0 * R = 0 /\ (iter + 1) * (Hands * M) \in Nat /\ Hands * P \in Nat
          BY <1>1, <1>2, <1>6
        <5>3. QED
          BY <2>4, <4>2, <5>1, <5>2
      <4>3. QED
        BY <2>1, <4>1, <4>2
    <3>2. Sent = Hands * P + iter * (Hands * M) + finger * M + M
      BY <1>7, <1>8, <1>9, <2>1, <2>2
    <3>3. CASE cmd.op = "pinch"
      BY <1>1, <1>2, <1>4, <1>6, <2>1, <3>1, <3>2, <3>3
    <3>4. CASE cmd.op # "pinch"
      BY <1>1, <1>2, <1>4, <1>6, <2>1, <3>1, <3>2, <3>4
    <3>5. QED
      BY <3>3, <3>4
  <2>6. Looping'
    <3>1. Length(stage)' \in Nat
      BY <1>2, <1>9, <2>1
    <3>2. QED
      BY <1>1, <2>1, <2>2, <2>4, <3>1 DEF Looping, Fingered, Primitives, Gestures
  <2>7. QED
    BY <2>5, <2>6
<1>13. CASE ReleaseReturns
  <2>1. /\ stage = "release" /\ finger' = 0 /\ (cmd.op = "pinch" => finger = 1)
        /\ IF cmd.op = "tap"
           THEN iter' = iter + 1 /\ stage' = IF iter + 1 < cmd.n THEN "press" ELSE "idle"
           ELSE iter' = iter /\ stage' = "idle"
    BY <1>1, <1>13 DEF ReleaseReturns, Returned, HasOtherFinger, Goto
  <2>2. IF cmd.op = "tap" THEN iter < cmd.n ELSE iter = Moves
    BY <1>1, <2>1 DEF Looping, Fingered
  <2>3. Sent' = Sent
    <3>1. CASE cmd.op = "tap"
      <4>1. stage' = "idle" => cmd.n = iter + 1
        BY <1>1, <2>1, <2>2, <3>1
      <4>2. QED
        BY <1>1, <1>2, <1>4, <1>6, <1>7, <1>8, <1>9, <2>1, <3>1, <4>1
    <3>2. CASE cmd.op = "drag"
      BY <1>1, <1>2, <1>4, <1>6, <1>7, <1>8, <1>9, <2>1, <3>2
    <3>3. CASE cmd.op = "pinch"
      BY <1>1, <1>2, <1>4, <1>6, <1>7, <1>8, <1>9, <2>1, <3>3
    <3>4. QED
      BY <1>1, <3>1, <3>2, <3>3
  <2>4. Looping'
    <3>1. stage' = "press" => Length(stage)' \in Nat
      BY <1>2, <1>9
    <3>2. QED
      BY <1>1, <2>1, <2>2, <3>1 DEF Looping, Fingered, Primitives, Gestures
  <2>5. QED
    BY <2>3, <2>4
<1>14. QED
  BY <1>5, <1>10, <1>11, <1>12, <1>13

\* A drag never sleeps between its moves: its average begins with a division by zero.
LEMMA PaceNeverSleeps ==
  ASSUME NEW i \in Nat, Pace(i), i = 0 \/ avg \in {Infinite, NaN}
  PROVE  now' = now /\ avg' \in {Infinite, NaN}
<1>1. Infinite.kind # "num" /\ NaN.kind # "num" /\ Infinite # NaN
  BY DEF Infinite, NaN
<1>2. avg' = Average(avg, i, now - last)
  BY DEF Pace
<1>3. avg' \in {Infinite, NaN}
  <2>1. CASE i = 0
    BY <1>2, <2>1 DEF Average
  <2>2. CASE avg \in {Infinite, NaN}
    BY <1>1, <1>2, <2>2 DEF Average
  <2>3. QED
    BY <2>1, <2>2
<1>4. avg'.kind # "num"
  BY <1>1, <1>3
<1>5. now' = now
  BY <1>2, <1>4 DEF Pace
<1>6. QED
  BY <1>3, <1>5

\* What the other returns sleep.
LEMMA PauseIs ==
  ASSUME TypeOK, Control, TimedInv, TimedReturn
  PROVE  /\ Pause \in Nat
         /\ cmd.op = "tap" /\ Fits =>
              /\ stage = "press" => Pause = duration * UsPerMs
              /\ stage = "release" => Pause = 150 * UsPerMs
         /\ cmd.op = "drag" => Pause = IF stage' = "idle" THEN 100 * UsPerMs ELSE 0
         /\ cmd.op = "pinch" =>
              Pause = IF stage' = "idle" THEN 100 * UsPerMs
                      ELSE IF stage' = "move" /\ finger' = 0
                           THEN execute_sleep_for(CDiv(duration, cmd.n)) ELSE 0
<1>1. /\ UsPerMs \in Nat /\ duration \in Int /\ cmd.n \in Int
      /\ execute_sleep_for(50) = 50 * UsPerMs /\ execute_sleep_for(100) = 100 * UsPerMs
      /\ \A m \in Int : execute_sleep_for(m) \in Nat
      /\ Fits => execute_sleep_for(duration) = duration * UsPerMs
  BY TimeAssumption, CommandTypes, SleepsAre DEF TimedInv, CommandType, Fits
<1>2. stage' = "move" => cmd.n > 0
  <2>1. iter \in Nat /\ cmd.n \in Int
    BY ReturnFrame
  <2>2. OtherFinger => (stage' = "move" => cmd.n > 0)
    BY DEF OtherFinger, Goto, Control
  <2>3. PressReturns => (stage' = "move" => cmd.n > 0)
    BY DEF PressReturns, Goto
  <2>4. MoveReturns => (stage' = "move" => cmd.n > 0)
    BY <2>1 DEF MoveReturns, Goto
  <2>5. ReleaseReturns \/ PrimitiveReturns => stage' # "move"
    BY DEF ReleaseReturns, PrimitiveReturns, Goto
  <2>6. QED
    BY <2>2, <2>3, <2>4, <2>5 DEF TimedReturn, Return
<1>3. cmd.n > 0 => execute_sleep_for(CDiv(duration, cmd.n)) \in Nat
  BY <1>1 DEF CDiv
<1>4. CASE cmd.op = "tap"
  <2>1. stage = "press" => Pause = execute_sleep_for(duration)
    BY <1>4 DEF Pause
  <2>2. stage = "release" => Pause = execute_sleep_for(100) + execute_sleep_for(50)
    BY <1>4 DEF Pause
  <2>3. stage \notin {"press", "release"} => Pause = 0
    BY <1>4 DEF Pause
  <2>4. QED
    BY <1>1, <1>4, <2>1, <2>2, <2>3
<1>5. CASE cmd.op = "drag"
  <2>1. Pause = IF stage' = "idle" THEN execute_sleep_for(100) ELSE 0
    BY <1>5 DEF Pause
  <2>2. QED
    BY <1>1, <1>5, <2>1
<1>6. CASE cmd.op = "pinch"
  <2>1. Pause = IF stage' = "idle" THEN execute_sleep_for(100)
                ELSE IF stage' = "move" /\ finger' = 0
                     THEN execute_sleep_for(CDiv(duration, cmd.n)) ELSE 0
    BY <1>6 DEF Pause
  <2>2. QED
    BY <1>1, <1>2, <1>3, <1>6, <2>1
<1>7. CASE cmd.op \notin {"tap", "drag", "pinch"}
  <2>1. Pause = 0
    BY <1>7 DEF Pause
  <2>2. QED
    BY <1>7, <2>1
<1>8. QED
  BY <1>4, <1>5, <1>6, <1>7

\* A return takes the time of its pause, and the average of a drag is no number.
LEMMA ReturnPauses ==
  ASSUME TypeOK, Control, TimedInv, TimedReturn
  PROVE  /\ now' \in Nat /\ NoAverage'
         /\ cmd.op \in Gestures /\ Fits => Paused \in Int /\ Paused' = Paused + (now' - now)
<1>1. /\ UNCHANGED <<duration, flags, cmd>> /\ finger' \in {0, 1} /\ iter' \in Nat
      /\ iter \in Nat /\ cmd.n \in Int /\ now \in Nat /\ Looping /\ NoAverage
      /\ UsPerMs \in Nat /\ duration \in Int
      /\ finger \in {0, 1} /\ (finger = 1 => cmd.op = "pinch")
  BY ReturnFrame, TimeAssumption DEF TimedInv, Control, TypeOK, Finger
<1>2. CASE cmd.op = "drag" /\ stage' = "move"
  <2>1. Pace(iter')
    BY <1>2 DEF TimedReturn
  <2>2. iter' = 0 \/ avg \in {Infinite, NaN}
    <3>1. stage \in {"press", "move"} /\ (stage = "press" => iter' = iter)
      BY <1>1, <1>2 DEF TimedReturn, Return, OtherFinger, PressReturns, MoveReturns, ReleaseReturns,
         PrimitiveReturns, Goto, Returned, HasOtherFinger
    <3>2. QED
      BY <1>1, <1>2, <3>1 DEF Looping, NoAverage
  <2>3. now' = now /\ avg' \in {Infinite, NaN}
    BY <1>1, <2>1, <2>2, PaceNeverSleeps
  <2>4. Paused = 0 /\ Paused' = 0
    <3>1. stage # "idle"
      BY ReturnFrame DEF Primitives
    <3>2. QED
      BY <1>1, <1>2, <3>1 DEF Paused
  <2>5. QED
    BY <1>1, <2>3, <2>4 DEF NoAverage
<1>3. CASE ~(cmd.op = "drag" /\ stage' = "move")
  <2>1. now' = now + Pause /\ Pause \in Nat
    BY <1>3, PauseIs DEF TimedReturn
  <2>2. NoAverage' /\ now' \in Nat /\ now' - now = Pause
    BY <1>1, <1>3, <2>1 DEF NoAverage
  <2>3. ASSUME cmd.op \in Gestures, Fits
        PROVE  Paused \in Int /\ Paused' = Paused + Pause
    <3>1. stage \in Fingered
      BY <2>3, ReturnFrame DEF TimedInv, Looping
    <3>2. CASE cmd.op = "tap"
      <4> DEFINE X == (duration + 150) * UsPerMs
      <4>1. /\ Paused = iter * X + (IF stage = "release" THEN duration * UsPerMs ELSE 0)
            /\ Paused' = iter' * X + (IF stage' = "release" THEN duration * UsPerMs ELSE 0)
        BY <1>1, <3>2 DEF Paused
      <4>2. X = duration * UsPerMs + 150 * UsPerMs /\ X \in Int /\ duration * UsPerMs \in Int
        BY <1>1
      <4> HIDE DEF X
      <4>3. iter * X \in Int /\ (iter + 1) * X = iter * X + X
        BY <1>1, <4>2
      <4>4. \/ stage = "press" /\ stage' = "release" /\ iter' = iter
            \/ stage = "release" /\ stage' \in {"press", "idle"} /\ iter' = iter + 1
        BY <1>1, <3>1, <3>2 DEF TimedReturn, Return, OtherFinger, PressReturns, MoveReturns,
           ReleaseReturns, PrimitiveReturns, Goto, Returned, HasOtherFinger, Looping, Fingered
      <4>5. CASE stage = "press"
        BY <1>1, <2>3, <3>2, <4>1, <4>2, <4>3, <4>4, <4>5, PauseIs
      <4>6. CASE stage = "release"
        BY <1>1, <2>3, <3>2, <4>1, <4>2, <4>3, <4>4, <4>6, PauseIs
      <4>7. QED
        BY <4>4, <4>5, <4>6
    <3>3. CASE cmd.op = "drag"
      <4>1. Paused = 0 /\ Paused' = IF stage' = "idle" THEN 100 * UsPerMs ELSE 0
        BY <1>1, <3>1, <3>3 DEF Paused, Fingered
      <4>2. QED
        BY <1>1, <3>3, <4>1, PauseIs
    <3>4. CASE cmd.op = "pinch"
      <4> DEFINE S == execute_sleep_for(CDiv(duration, cmd.n))
      <4>1. /\ Paused = (IF stage = "press" \/ cmd.n <= 0 THEN 0
                         ELSE (IF stage = "move" THEN iter + 1 ELSE cmd.n) * S)
            /\ Paused' = (IF stage' = "press" \/ cmd.n <= 0 THEN 0
                          ELSE (IF stage' = "move" THEN iter' + 1 ELSE cmd.n) * S)
                           + (IF stage' = "idle" THEN 100 * UsPerMs ELSE 0)
        <5>1. Paused = (IF stage = "press" \/ cmd.n <= 0 THEN 0
                        ELSE (IF stage = "move" THEN iter + 1 ELSE cmd.n) * S) + 0
          BY <3>1, <3>4 DEF Paused, Fingered
        <5>2. cmd.n > 0 => S \in Nat
          BY <1>1, SleepsAre DEF CDiv
        <5>3. Paused' = (IF stage' = "press" \/ cmd.n <= 0 THEN 0
                         ELSE (IF stage' = "move" THEN iter' + 1 ELSE cmd.n) * S)
                           + (IF stage' = "idle" THEN 100 * UsPerMs ELSE 0)
          BY <1>1, <3>4 DEF Paused, execute_sleep_for
        <5> HIDE DEF S
        <5>4. QED
          BY <1>1, <5>1, <5>2, <5>3
      <4>2. cmd.n > 0 => S \in Nat
        BY <1>1, SleepsAre DEF CDiv
      <4>3. Pause = IF stage' = "idle" THEN 100 * UsPerMs
                    ELSE IF stage' = "move" /\ finger' = 0 THEN S ELSE 0
        BY <3>4, PauseIs
      <4> HIDE DEF S
      <4>4. cmd.n > 0 =>
              /\ (iter + 1) * S \in Nat /\ cmd.n * S \in Nat
              /\ (iter + 2) * S = (iter + 1) * S + S /\ (0 + 1) * S = S
              /\ iter + 1 + 1 = iter + 2
        BY <1>1, <4>2
      <4>5. \/ /\ stage' = stage /\ iter' = iter /\ finger' = 1
            \/ /\ stage = "press" /\ finger' = 0 /\ iter' = 0
               /\ stage' = IF cmd.n > 0 THEN "move" ELSE "release"
            \/ /\ stage = "move" /\ finger' = 0 /\ iter' = iter + 1 /\ cmd.n > 0
               /\ stage' = IF iter + 1 < cmd.n THEN "move" ELSE "release"
               /\ stage' = "release" => cmd.n = iter + 1
            \/ /\ stage = "release" /\ stage' = "idle" /\ iter' = iter
        BY <1>1, <3>1, <3>4 DEF TimedReturn, Return, OtherFinger, PressReturns, MoveReturns,
           ReleaseReturns, PrimitiveReturns, Goto, Returned, HasOtherFinger, Looping, Fingered
      <4>6. CASE stage' = stage /\ iter' = iter /\ finger' = 1
        BY <1>1, <3>1, <4>1, <4>2, <4>3, <4>4, <4>6 DEF Fingered
      <4>7. CASE stage = "press" /\ finger' = 0 /\ iter' = 0
                 /\ stage' = IF cmd.n > 0 THEN "move" ELSE "release"
        BY <1>1, <4>1, <4>2, <4>3, <4>4, <4>7
      <4>8. CASE /\ stage = "move" /\ finger' = 0 /\ iter' = iter + 1 /\ cmd.n > 0
                 /\ stage' = IF iter + 1 < cmd.n THEN "move" ELSE "release"
                 /\ stage' = "release" => cmd.n = iter + 1
        BY <1>1, <4>1, <4>2, <4>3, <4>4, <4>8
      <4>9. CASE stage = "release" /\ stage' = "idle" /\ iter' = iter
        BY <1>1, <4>1, <4>2, <4>3, <4>4, <4>9
      <4>10. QED
        BY <4>5, <4>6, <4>7, <4>8, <4>9
    <3>5. QED
      BY <2>3, <3>2, <3>3, <3>4 DEF Gestures
  <2>4. QED
    BY <2>2, <2>3
<1>4. QED
  BY <1>2, <1>3

\* The events written so far are a number.
LEMMA SentType ==
  ASSUME TypeOK, Control, cmd.op \in Gestures
  PROVE  Events \in Int /\ (stage \in Fingered => Sent \in Int)
<1>1. /\ iter \in Nat /\ pos \in Nat /\ cmd.n \in Int /\ finger \in Nat
      /\ \A x, y \in Int : x * y \in Int /\ x + y \in Int
  BY CommandTypes DEF TypeOK, Finger, CommandType
<1>2. /\ Length("press") \in Int /\ Length("move") \in Int /\ Length("release") \in Int
      /\ Hands \in Int /\ Moves \in Int /\ Touches \in Int
  BY <1>1, LengthInNat DEF Hands, Moves, Touches
<1>3. Events \in Int
  BY <1>1, <1>2 DEF Events
<1>4. ASSUME stage \in Fingered
      PROVE  Sent \in Int
  <2>1. Preceding(stage) \in Int
    BY <1>1, <1>2, <1>4 DEF Preceding, Fingered
  <2>2. finger * Length(stage) \in Int
    BY <1>1, <1>2, <1>4 DEF Fingered
  <2>3. stage # "idle"
    BY <1>4 DEF Fingered
  <2>4. QED
    BY <1>1, <2>1, <2>2, <2>3 DEF Sent
<1>5. QED
  BY <1>3, <1>4

\* So a command is on time after each of its returns.
LEMMA ReturnsOnTime ==
  ASSUME TypeOK, Control, TimedInv, TimedReturn
  PROVE  TimedInv'
<1>1. /\ UNCHANGED <<duration, cmd>> /\ Touches' = Touches /\ (Fits' <=> Fits)
      /\ stage \in Primitives /\ iter \in Nat /\ cmd.n \in Int /\ UsPerMs \in Nat
      /\ Looping /\ OnTime /\ now \in Nat /\ duration \in Durations \cup {0}
      /\ cmd.op # "sleep" /\ (stage \in Fingered <=> cmd.op \in Gestures)
  BY ReturnFrame, TimeAssumption DEF TimedInv, Looping
<1>2. now' \in Nat /\ NoAverage'
  BY ReturnPauses
<1>3. CASE cmd.op \in Gestures
  <2>1. stage \in Fingered /\ Touches >= 0
    BY <1>1, <1>3 DEF Looping, Touches
  <2>2. Looping' /\ Sent' = Sent
    BY <1>3, <2>1, ReturnCounts
  <2>3. ASSUME Fits
        PROVE  now' = Sent' * UsPerMs + Paused'
    <3>1. now = Sent * UsPerMs + Paused
      BY <1>1, <1>3, <2>1, <2>3 DEF OnTime
    <3>2. Paused \in Int /\ Paused' = Paused + (now' - now)
      BY <1>3, <2>3, ReturnPauses
    <3>3. Sent \in Int /\ Sent * UsPerMs \in Int
      BY <1>1, <1>3, <2>1, SentType
    <3> DEFINE x == Sent * UsPerMs
    <3>4. x \in Int /\ now = x + Paused /\ Sent' * UsPerMs = x
      BY <2>2, <3>1, <3>3
    <3> HIDE DEF x
    <3>5. QED
      BY <1>1, <1>2, <3>2, <3>4
  <2>4. OnTime'
    BY <1>1, <1>3, <2>3 DEF OnTime
  <2>5. QED
    BY <1>1, <1>2, <2>2, <2>4 DEF TimedInv
<1>4. CASE cmd.op \notin Gestures
  <2>1. stage' = "idle"
    BY <1>1, <1>4 DEF TimedReturn, Return, OtherFinger, PressReturns, MoveReturns, ReleaseReturns,
       PrimitiveReturns, Goto, Returned, Fingered
  <2>2. Looping'
    BY <1>1, <1>4, <2>1 DEF Looping, Gestures, Primitives, Fingered
  <2>3. OnTime'
    BY <1>1, <1>4 DEF OnTime
  <2>4. QED
    BY <1>1, <1>2, <2>2, <2>3 DEF TimedInv
<1>5. QED
  BY <1>3, <1>4

\* The invariant holds before the first run.
LEMMA TimedInitInv == TimedInit => TimedInv
<1> SUFFICES ASSUME TimedInit PROVE TimedInv
  OBVIOUS
<1>1. stage = "exited" /\ cmd.op = "none" /\ duration = 0 /\ now = 0
  BY DEF TimedInit, Init, NoCmd
<1>2. Looping /\ OnTime /\ NoAverage
  BY <1>1 DEF Looping, OnTime, NoAverage, Primitives, Fingered, Gestures
<1>3. QED
  BY <1>1, <1>2 DEF TimedInv

\* Each step of the timed specification is one of Orng.
LEMMA TimedNextIsNext == [TimedNext]_<<vars, timeVars>> => [Next]_vars
<1>1. TimedNext => Next
  BY DEF TimedNext, TimedBegin, TimedWrite, TimedReturn, Next
<1>2. UNCHANGED <<vars, timeVars>> => UNCHANGED vars
  OBVIOUS
<1>3. QED
  BY <1>1, <1>2

\* Every step of the timed specification keeps the invariant.
LEMMA NextTimedInv ==
  TypeOK /\ Control /\ TimedInv /\ [TimedNext]_<<vars, timeVars>> => TimedInv'
<1> SUFFICES ASSUME TypeOK, Control, TimedInv, [TimedNext]_<<vars, timeVars>>
             PROVE  TimedInv'
  OBVIOUS
<1>1. TypeOK' /\ Control'
  BY TimedNextIsNext, NextTypeOK
<1>2. CASE TimedBegin
  BY <1>1, <1>2, BeginsOnTime
<1>3. CASE TimedWrite
  BY <1>3, WritesOnTime
<1>4. CASE TimedReturn
  BY <1>4, ReturnsOnTime
<1>5. CASE (Start \/ Exit \/ Kill) /\ UNCHANGED timeVars
  <2>1. duration' = duration /\ now' = now
    BY <1>5 DEF timeVars
  <2>2. \/ stage' = "idle" /\ cmd'.op = "none"
        \/ stage' \in {"exited", "dead"} /\ cmd' = cmd
    <3>1. Start => stage' = "idle" /\ cmd' = NoCmd
      BY DEF Start
    <3>2. Exit \/ Kill => stage' \in {"exited", "dead"} /\ cmd' = cmd
      BY DEF Exit, Kill
    <3>3. QED
      BY <1>5, <3>1, <3>2 DEF NoCmd
  <2>3. Looping'
    BY <2>2 DEF Looping, Primitives, Fingered
  <2>4. OnTime'
    BY <2>1, <2>2 DEF TimedInv, OnTime, Gestures, Fingered, Fits
  <2>5. NoAverage'
    BY <2>2 DEF NoAverage
  <2>6. QED
    BY <2>1, <2>3, <2>4, <2>5 DEF TimedInv
<1>6. CASE UNCHANGED <<vars, timeVars>>
  <2>1. UNCHANGED <<dev, flags, cmd, stage, finger, iter, pos, duration, now, avg>>
    BY <1>6 DEF vars, devVars, gestureVars, timeVars
  <2>2. UNCHANGED <<Moves, Touches, Hands>> /\ (Fits' <=> Fits)
    BY <2>1 DEF Moves, Touches, Hands, Fits
  <2>3. \A st \in Fingered : Length(st)' = Length(st)
    BY <2>1, LengthStays
  <2>4. Looping'
    BY <2>1, <2>2, <2>3 DEF TimedInv, Looping
  <2>5. UNCHANGED <<Events, Paused>>
    BY <2>1, <2>2, <2>3 DEF Events, Paused, Fingered, execute_sleep_for, CDiv
  <2>6. stage \in Fingered \cup {"idle"} => Sent' = Sent
    BY <2>1, <2>2, <2>3, <2>5 DEF Sent, Preceding, Fingered
  <2>7. OnTime'
    BY <2>1, <2>2, <2>5, <2>6 DEF TimedInv, OnTime
  <2>8. NoAverage'
    BY <2>1 DEF TimedInv, NoAverage
  <2>9. QED
    BY <2>1, <2>4, <2>7, <2>8 DEF TimedInv
<1>7. QED
  BY <1>2, <1>3, <1>4, <1>5, <1>6 DEF TimedNext

---------------------------------------------------------------------------
(* The results.                                                            *)

\* At every event of every command, the clock shows the events written and the pauses
\* made so far, and the loops are where the events say.
THEOREM TimedInductive == TimedSpec => [](TypeOK /\ TimedInv)
<1>1. TimedInit => TypeOK /\ Control /\ TimedInv
  BY InitTypeOK, TimedInitInv DEF TimedInit
<1>2. /\ TypeOK /\ Control /\ TimedInv /\ [TimedNext]_<<vars, timeVars>>
      => TypeOK' /\ Control' /\ TimedInv'
  BY TimedNextIsNext, NextTypeOK, NextTimedInv
<1>3. QED
  BY <1>1, <1>2, PTL DEF TimedSpec

\* What a step of n rounds off of a duration: less than n.
LEMMA StepsRoundOff ==
  ASSUME NEW d \in Nat, NEW n \in Nat \ {0}
  PROVE  CDiv(d, n) \in 0..d /\ n * CDiv(d, n) \in (d - n + 1)..d
<1> DEFINE q == d \div n
<1>1. q \in Nat /\ n * q <= d /\ d < n * q + n
  OBVIOUS
<1>2. CDiv(d, n) = q
  BY DEF CDiv
<1>3. q <= n * q /\ n * q \in Nat
  BY <1>1
<1> HIDE DEF q
<1>4. QED
  BY <1>1, <1>2, <1>3

\* The conclusions from the invariant.
LEMMA InTime == TypeOK /\ Control /\ TimedInv => TakesItsTime
<1> SUFFICES ASSUME TypeOK, Control, TimedInv PROVE TakesItsTime
  OBVIOUS
<1>1. /\ cmd.n \in Int /\ duration \in Int /\ now \in Nat /\ UsPerMs \in Nat /\ UsPerMs > 0
      /\ execute_sleep_for(1) = UsPerMs /\ Looping /\ OnTime /\ Word \in Nat
      /\ \A m \in Int : m * UsPerMs \in 0..(Word - 1) => execute_sleep_for(m) = m * UsPerMs
  BY CommandTypes, TimeAssumption, SleepsAre DEF TimedInv, CommandType
<1>2. ASSUME Completed, Fits, cmd.op \in Gestures, Touches >= 0
      PROVE  Slept = Paused \/ Paused \notin Int
  <2>1. stage = "idle"
    BY <1>2 DEF Completed
  <2>2. now = Events * UsPerMs + Paused
    BY <1>1, <1>2, <2>1 DEF OnTime, Sent
  <2>3. Events \in Int /\ Events * UsPerMs \in Int
    BY <1>1, <1>2, SentType
  <2>4. Slept = now - Events * UsPerMs
    BY <1>1 DEF Slept
  <2> DEFINE x == Events * UsPerMs
  <2> HIDE DEF x
  <2>5. now = x + Paused /\ x \in Int /\ Slept = now - x
    BY <2>2, <2>3, <2>4 DEF x
  <2>6. QED
    BY <1>1, <2>5
<1>3. ASSUME Completed, Fits, cmd.op = "tap", cmd.n >= 0
      PROVE  Slept = cmd.n * (duration + 150) * UsPerMs
  <2>1. stage = "idle" /\ iter = cmd.n
    BY <1>1, <1>3 DEF Completed, Looping
  <2>2. (duration + 150) * UsPerMs \in Int
    BY <1>1
  <2>3. Paused = cmd.n * ((duration + 150) * UsPerMs) + 0
    BY <1>3, <2>1 DEF Paused
  <2>4. cmd.n * ((duration + 150) * UsPerMs) \in Int
    BY <1>1, <2>2
  <2>5. cmd.n * (duration + 150) * UsPerMs = cmd.n * ((duration + 150) * UsPerMs)
    BY <1>1
  <2>6. Slept = Paused
    BY <1>1, <1>2, <1>3, <2>3, <2>4 DEF Touches, Gestures
  <2>7. QED
    BY <2>3, <2>4, <2>5, <2>6
<1>4. ASSUME Completed, Fits, cmd.op = "pinch", cmd.n > 0
      PROVE  Slept \in ((duration - cmd.n + 101) * UsPerMs)..((duration + 100) * UsPerMs)
  <2> DEFINE q == CDiv(duration, cmd.n)
             m == cmd.n * q
  <2>1. stage = "idle"
    BY <1>4 DEF Completed
  <2>2. duration * UsPerMs \in 0..(Word - 1) /\ duration \in Nat
    BY <1>1, <1>4 DEF Fits
  <2>3. q \in 0..duration /\ m \in (duration - cmd.n + 1)..duration
    <3>1. cmd.n \in Nat \ {0}
      BY <1>1, <1>4
    <3> HIDE DEF q, m
    <3>2. CDiv(duration, cmd.n) \in 0..duration
          /\ cmd.n * CDiv(duration, cmd.n) \in (duration - cmd.n + 1)..duration
      BY <2>2, <3>1, StepsRoundOff
    <3>3. QED
      BY <3>2 DEF q, m
  <2>4. Paused = cmd.n * execute_sleep_for(q) + 100 * UsPerMs
    BY <1>1, <1>4, <2>1 DEF Paused
  <2> HIDE DEF q
  <2>5. q * UsPerMs <= duration * UsPerMs /\ q * UsPerMs \in Nat
    BY <1>1, <2>2, <2>3
  <2>6. execute_sleep_for(q) = q * UsPerMs
    BY <1>1, <2>2, <2>3, <2>5
  <2>7. cmd.n * (q * UsPerMs) = m * UsPerMs /\ m \in Int
    BY <1>1, <2>3
  <2> HIDE DEF m
  <2>8. Paused = m * UsPerMs + 100 * UsPerMs
    BY <2>4, <2>6, <2>7
  <2>9. (duration - cmd.n + 1) * UsPerMs <= m * UsPerMs /\ m * UsPerMs <= duration * UsPerMs
    BY <1>1, <2>3, <2>7
  <2>10. /\ (duration - cmd.n + 101) * UsPerMs = (duration - cmd.n + 1) * UsPerMs + 100 * UsPerMs
         /\ (duration + 100) * UsPerMs = duration * UsPerMs + 100 * UsPerMs
         /\ m * UsPerMs \in Int /\ (duration - cmd.n + 1) * UsPerMs \in Int
         /\ duration * UsPerMs \in Int
    BY <1>1, <2>7
  <2>11. Slept = Paused
    BY <1>1, <1>2, <1>4, <2>8, <2>10 DEF Touches, Gestures
  <2>12. QED
    BY <1>1, <2>8, <2>9, <2>10, <2>11
<1>5. ASSUME Fits, cmd.op = "sleep"
      PROVE  now = duration * UsPerMs
  BY <1>1, <1>5 DEF OnTime
<1>6. ASSUME Completed, Fits, cmd.op = "drag"
      PROVE  Slept <= 100 * UsPerMs
  <2>1. Paused = 100 * UsPerMs
    BY <1>6 DEF Completed, Paused
  <2>2. Slept = Paused
    BY <1>1, <1>2, <1>6, <2>1 DEF Touches, Gestures
  <2>3. QED
    BY <1>1, <2>1, <2>2
<1>7. QED
  BY <1>3, <1>4, <1>5, <1>6 DEF TakesItsTime

\* Taps, pinches and sleeps take their events and the time they are given, less what the
\* steps round off, and a drag no more than its events and the hundred milliseconds at its
\* end, or than its duration, for every duration that fits the word of usleep.
THEOREM CommandsTakeTheirTime == TimedSpec => []TakesItsTime
<1>1. TimedInit => TypeOK /\ Control /\ TimedInv
  BY InitTypeOK, TimedInitInv DEF TimedInit
<1>2. /\ TypeOK /\ Control /\ TimedInv /\ [TimedNext]_<<vars, timeVars>>
      => TypeOK' /\ Control' /\ TimedInv'
  BY TimedNextIsNext, NextTypeOK, NextTimedInv
<1>3. QED
  BY <1>1, <1>2, InTime, PTL DEF TimedSpec

===========================================================================
