----------------------------- MODULE Controller -----------------------------
(***************************************************************************)
(* test-orng.py: from a request on its standard input to the lines of a    *)
(* script.  An argument is a word; a word that is a number can be computed *)
(* with, any other raises an exception where the code calls int or float.  *)
(***************************************************************************)
EXTENDS Integers, Sequences, TLC

CONSTANTS
  dimensions,      \* of the device: width and height
  swipe_padding,   \* four distances from its edges
  Numerals,        \* the numbers there are
  Second           \* milliseconds in a second, scaled down

\* The words that are numbers, and what they count.
Words       == {ToString(n) : n \in Numerals}
NumberOf(w) == CHOOSE n \in Numerals : ToString(n) = w

Raises       == [ok |-> FALSE, lines |-> << >>]
Lines(lines) == [ok |-> TRUE, lines |-> lines]

\* An optional argument of a call.
Argument(args, i, default) == IF i <= Len(args) THEN args[i] ELSE default

\* Its parameters are given in another order than the command takes them.
get_drag_event(x1, y1, x2, y2, duration, num_steps) ==
  <<"drag", x1, y1, x2, y2, num_steps, duration>>

get_sleep_event(duration) == <<"sleep", ToString(NumberOf(duration) * Second)>>
get_tap_event(x, y, times) == <<"tap", x, y, times, "100">>

\* A swipe of a fixed path, given (numtimes, numsteps, duration) or fewer.  Where there is
\* nothing to repeat the number of steps is never looked at.
Swipes(from, to, args) ==
  LET times == Argument(args, 1, "1")
      steps == Argument(args, 2, "10")
      event == get_drag_event(from[1], from[2], to[1], to[2], Argument(args, 3, "100"), steps)
  IN  IF Len(args) > 3 \/ times \notin Words \/ (times # "0" /\ steps \notin Words) THEN Raises
      ELSE Lines([i \in 1..NumberOf(times) |-> event])

get_scroll_events(direction, args) ==
  LET x       == ToString(dimensions[1] \div 2)
      ybottom == ToString(dimensions[2] - swipe_padding[4])
      ytop    == ToString(swipe_padding[1])
  IN  IF direction = "up" THEN Swipes(<<x, ytop>>, <<x, ybottom>>, args)
      ELSE Swipes(<<x, ybottom>>, <<x, ytop>>, args)

get_swipe_events(direction, args) ==
  LET y  == ToString(dimensions[2] \div 2)
      x1 == ToString(swipe_padding[3])
      x2 == ToString(dimensions[1] - swipe_padding[1])
  IN  IF direction = "left" THEN Swipes(<<x2, y>>, <<x1, y>>, args)
      ELSE Swipes(<<x1, y>>, <<x2, y>>, args)

\* The first few arguments must be numbers, and there must not be too few or too many.
OneLine(args, fewest, most, numbers, line) ==
  IF Len(args) \in fewest..most /\ \A i \in 1..numbers : args[i] \in Words
  THEN Lines(<<line>>) ELSE Raises

AnyNumber == 99    \* further arguments are not looked at

\* The lines of a request.
get_cmd_events(cmd, args) ==
  LET A(i, default) == Argument(args, i, default)
      Drag  == get_drag_event(A(1, ""), A(2, ""), A(3, ""), A(4, ""), A(5, "1000"), A(6, "5"))
      Pinch == <<"pinch">> \o args \o SubSeq(<<"10", "1000">>, Len(args) - 7, 2)
  IN  CASE cmd = "scroll_down" -> get_scroll_events("down", args)
        [] cmd = "scroll_up"   -> get_scroll_events("up", args)
        [] cmd = "swipe_left"  -> get_swipe_events("left", args)
        [] cmd = "swipe_right" -> get_swipe_events("right", args)
        [] cmd = "drag"        -> OneLine(args, 4, 6, 4, Drag)
        [] cmd = "tap"         -> OneLine(args, 2, 3, 2, get_tap_event(A(1, ""), A(2, ""), A(3, "1")))
        [] cmd = "double_tap"  -> OneLine(args, 2, 2, 2, get_tap_event(A(1, ""), A(2, ""), "2"))
        [] cmd = "pinch"       -> OneLine(args, 8, 10, 0, Pinch)
        [] cmd \in {"keydown", "keyup"} -> OneLine(args, 1, AnyNumber, 0, <<cmd, A(1, "")>>)
        [] cmd = "sleep"       -> OneLine(args, 0, AnyNumber, IF args = << >> THEN 0 ELSE 1,
                                          get_sleep_event(A(1, "1")))
        [] OTHER               -> Raises

===========================================================================
