----------------------------- MODULE OrngTimed -----------------------------
(***************************************************************************)
(* How long the commands of Orng take.  Every event and every return of    *)
(* Orng advances a clock by the sleeps that the code makes there; a drag   *)
(* paces itself by an average of the time its moves take.  The processor   *)
(* takes no time: a command takes as long as it sleeps.                    *)
(***************************************************************************)
EXTENDS OrngInv

CONSTANTS
  Durations,    \* the durations a script may hold, in milliseconds
  UsPerMs,      \* microseconds in a millisecond, scaled down
  Word          \* how many values useconds_t has, scaled down

ASSUME TimeAssumption ==
  /\ Durations \subseteq Int
  /\ UsPerMs \in Nat \ {0} /\ Word \in Nat /\ 100 * UsPerMs < Word

VARIABLES
  duration,    \* duration_msec of the command
  now,         \* the time since the command began, in microseconds
  last,        \* time_before_last_move of a drag
  avg          \* avg_event_dispatch_time_msec of a drag, in microseconds

timeVars == <<duration, now, last, avg>>

\* A double: a number, or what a division by zero gives.
Num(us)  == [kind |-> "num", us |-> us]
Infinite == [kind |-> "inf", us |-> 0]
NaN      == [kind |-> "nan", us |-> 0]

---------------------------------------------------------------------------

\* The product is an int, the argument of usleep is unsigned.
execute_sleep_for(msec) == (msec * UsPerMs) % Word

\* A variant in which the average is always zero.
Average_Zero(a, i, t) == Num(0)

\* (a * i + t) / i in doubles: with i = 0 it is infinite or not a number, and so is
\* every average made from it.
Average(a, i, t) ==
  IF a = NaN \/ (a = Infinite /\ i = 0) THEN NaN
  ELSE IF a = Infinite THEN Infinite
  ELSE IF i > 0 THEN Num((a.us * i + t) \div i)
  ELSE IF t > 0 THEN Infinite ELSE NaN

\* The head of a drag's loop, before the move of that number: sleep unless the events
\* have taken long enough.  A double that is not a number is less than nothing.
Pace(i) ==
  LET desired == CDiv(duration, cmd.n) * UsPerMs
      a       == Average(avg, i, now - last)
  IN  /\ avg' = a
      /\ last' = now
      /\ now' = IF desired > 0 /\ a.kind = "num" /\ a.us < desired
                THEN now + execute_sleep_for(CDiv(desired - a.us, UsPerMs)) ELSE now

\* A variant that sleeps for the whole duration at each step.
Pause_Whole ==
  CASE cmd.op = "tap" /\ stage = "press"   -> execute_sleep_for(duration)
    [] cmd.op = "tap" /\ stage = "release" -> execute_sleep_for(100) + execute_sleep_for(50)
    [] cmd.op = "pinch" /\ stage' = "move" /\ finger' = 0 -> execute_sleep_for(duration)
    [] cmd.op \in {"drag", "pinch"} /\ stage' = "idle" -> execute_sleep_for(100)
    [] OTHER -> 0

\* What the other gestures sleep between two primitives, or at their end.
Pause ==
  CASE cmd.op = "tap" /\ stage = "press"   -> execute_sleep_for(duration)
    [] cmd.op = "tap" /\ stage = "release" -> execute_sleep_for(100) + execute_sleep_for(50)
    [] cmd.op = "pinch" /\ stage' = "move" /\ finger' = 0 ->
         execute_sleep_for(CDiv(duration, cmd.n))
    [] cmd.op \in {"drag", "pinch"} /\ stage' = "idle" -> execute_sleep_for(100)
    [] OTHER -> 0

---------------------------------------------------------------------------

TimedInit ==
  /\ Init
  /\ duration = 0 /\ now = 0 /\ last = 0 /\ avg = Num(0)

\* The average of a drag is not initialised.
TimedBegin ==
  /\ BeginCommand
  /\ duration' \in IF cmd'.op \in Gestures \cup {"sleep"} THEN Durations ELSE {0}
  /\ now' = IF cmd'.op = "sleep" THEN execute_sleep_for(duration') ELSE 0
  /\ last' = 0
  /\ avg' \in IF cmd'.op = "drag" THEN {Num(0), NaN} ELSE {Num(0)}

\* Before it writes an event, write_event sleeps a millisecond.
TimedWrite ==
  /\ write_event \/ write_event_fails
  /\ now' = now + execute_sleep_for(1)
  /\ UNCHANGED <<duration, last, avg>>

TimedReturn ==
  /\ Return
  /\ IF cmd.op = "drag" /\ stage' = "move" THEN Pace(iter')
     ELSE now' = now + Pause /\ UNCHANGED <<last, avg>>
  /\ UNCHANGED duration

TimedNext ==
  \/ TimedBegin \/ TimedWrite \/ TimedReturn
  \/ (Start \/ Exit \/ Kill) /\ UNCHANGED timeVars

TimedSpec == TimedInit /\ [][TimedNext]_<<vars, timeVars>>

---------------------------------------------------------------------------

\* How often a command touches and moves, and with how many fingers.
Touches == IF cmd.op = "tap" THEN cmd.n ELSE 1
Moves   == IF cmd.op = "tap" \/ cmd.n < 0 THEN 0 ELSE cmd.n
Hands   == IF cmd.op = "pinch" THEN 2 ELSE 1

\* The events of a primitive with its slot change, and of a command that nothing stops.
Length(primitive) ==
  (IF cmd.op = "pinch" THEN 1 ELSE 0)
    + CASE primitive = "press"   -> Len(execute_press(flags, 1, <<0, 0>>))
        [] primitive = "move"    -> Len(execute_move(flags, <<0, 0>>))
        [] primitive = "release" -> Len(execute_release(flags))
Events ==
  Hands * (Touches * (Length("press") + Length("release")) + Moves * Length("move"))

\* A duration that usleep can be told: longer ones and negative ones wrap around.
Fits == duration * UsPerMs \in 0..(Word - 1)

Slept == now - Events * execute_sleep_for(1)

\* Taps, pinches and sleeps take their events and the time they are given, and no more
\* than what each step rounds off, however close that is to the width of usleep.  A drag
\* that is behind its time does not sleep: it takes no longer than its duration or its
\* events, whichever is longer, with the hundred milliseconds it waits at the end.
TakesItsTime ==
  Completed /\ Fits =>
    /\ cmd.op = "tap" /\ cmd.n >= 0 => Slept = cmd.n * (duration + 150) * UsPerMs
    /\ cmd.op = "pinch" /\ cmd.n > 0 =>
         Slept \in ((duration - cmd.n + 101) * UsPerMs)..((duration + 100) * UsPerMs)
    /\ cmd.op = "sleep" => now = duration * UsPerMs
    /\ cmd.op = "drag" => Slept <= 100 * UsPerMs \/ now <= (duration + 100) * UsPerMs

\* README: "drag [start x] [start y] [end x] [end y] [num steps] [duration in msec]".
DragAsDocumented ==
  Completed /\ cmd.op = "drag" /\ "TOUCH" \in flags /\ cmd.n > 0 =>
    /\ Place(seen.abs, slot) = cmd.to[0]
    /\ now >= duration * UsPerMs

---------------------------------------------------------------------------
(* The inductive invariant: at each event, the time is that of the events  *)
(* written and the pauses made so far.                                     *)

\* Where the loops of a command are.
Looping ==
  /\ stage \in Primitives =>
       cmd.op \notin {"sleep", "none"} /\ (stage \in Fingered <=> cmd.op \in Gestures)
  /\ stage \in Fingered => pos <= Length(stage) + 1
  /\ cmd.op = "tap" =>
       /\ stage \in Fingered => stage # "move" /\ iter < cmd.n
       /\ stage = "idle" /\ cmd.n >= 0 => iter = cmd.n
  /\ cmd.op \in {"drag", "pinch"} =>
       /\ stage = "press" => iter = 0
       /\ stage = "move" => iter < cmd.n
       /\ stage \in {"release", "idle"} => iter = Moves

\* The events before the current primitive, and those of its fingers so far.
Preceding(primitive) ==
  IF cmd.op = "tap"
  THEN iter * (Length("press") + Length("release"))
         + IF primitive = "release" THEN Length("press") ELSE 0
  ELSE CASE primitive = "press"   -> 0
         [] primitive = "move"    -> Hands * Length("press") + iter * (Hands * Length("move"))
         [] primitive = "release" -> Hands * Length("press") + Moves * (Hands * Length("move"))
Sent == IF stage = "idle" THEN Events ELSE Preceding(stage) + finger * Length(stage) + (pos - 1)

\* The pauses so far: a drag makes none but the last, a pinch one before each of its moves.
Paused ==
  CASE cmd.op = "tap"  -> iter * ((duration + 150) * UsPerMs)
                            + IF stage = "release" THEN duration * UsPerMs ELSE 0
    [] cmd.op = "drag" -> IF stage = "idle" THEN 100 * UsPerMs ELSE 0
    [] cmd.op = "pinch" ->
         (IF stage = "press" \/ cmd.n <= 0 THEN 0
          ELSE (IF stage = "move" THEN iter + 1 ELSE cmd.n) * execute_sleep_for(CDiv(duration, cmd.n)))
           + IF stage = "idle" THEN 100 * UsPerMs ELSE 0

OnTime ==
  /\ cmd.op \in Gestures /\ stage \in Fingered \cup {"idle"} /\ Fits /\ Touches >= 0
       => now = Sent * UsPerMs + Paused
  /\ cmd.op = "sleep" /\ Fits => now = duration * UsPerMs

\* From the first move of a drag on, its average is no number.
NoAverage == cmd.op = "drag" /\ stage = "move" => avg \in {Infinite, NaN}

TimedInv ==
  /\ duration \in Durations \cup {0} /\ now \in Nat
  /\ Looping /\ OnTime /\ NoAverage

===========================================================================
