----------------------------- MODULE MCSession -----------------------------
(***************************************************************************)
(* Requests, documented scripts and other scripts for TLC.                 *)
(***************************************************************************)
EXTENDS Session

NumberWords == Words
WordCuts == {<<"100", "10", "0">>, <<"noreset", "no", "reset">>}
SomeNumbers == (0..31) \cup {50, 100, 1000}

Screen  == <<20, 30>>
Padding == <<2, 3, 4, 5>>

\* The words a request may hold besides numbers.
R(c, words) == [cmd |-> c, args |-> words]
Eight == <<"1", "2", "3", "4", "5", "6", "7", "8">>

AllRequests ==
  {R(c, a) : c \in {"scroll_down", "scroll_up", "swipe_left", "swipe_right"},
               a \in {<< >>, <<"0", "x">>, <<"2", "3">>, <<"1", "3", "#">>}}
    \cup {R("drag", <<"1", "2", "3", "4">> \o rest) :
            rest \in {<< >>, <<"50">>, <<"50", "6">>, <<"50", ";">>, <<";", "6">>, <<"x", "6">>}}
    \cup {R("tap", a) : a \in {<<"1">>, <<"1", "2">>, <<"1", "2", "x">>, <<"1", "2", "{">>}}
    \cup {R("pinch", a) : a \in {Eight, Eight \o <<"9", "10">>, Eight \o <<"{", "}">>, <<"1">>}}
    \cup {R("keydown", a) : a \in {<< >>, <<"5", "6">>, <<"#">>, <<"{">>, <<";">>}}
    \cup {R("double_tap", <<"1", "2">>), R("sleep", << >>), R("sleep", <<"2">>),
          R("sleep", <<"x">>), R("keyup", <<"5">>), R("reset", << >>)}

\* How su may be told to run orng, as root and as somebody else, and told something else.
AllSuCalls ==
  {<<"-c", "orng">>, <<"--shell", "/system/bin/sh", "-c", "orng">>,
   <<"-s", "/bin/none", "--command", "orng">>, <<"-c", "orng", "-", "root">>,
   <<"-c", "orng", "shell">>, <<"-c", "orng", "17">>, <<"-c", "orng", "nobody">>, <<"-c", "orng", "17", "18">>, <<"-c">>, <<"-v">>, <<"root">>}
Ids == "root" :> 0 @@ "shell" :> 2000 @@ "17" :> 17

---------------------------------------------------------------------------
(* Scripts.                                                                *)

TapWords   == <<"tap", "7", "8", "1", "5">>
SleepWords == <<"sleep", "9">>
ResetWords == <<"reset">>
DragWords  == <<"drag", "1", "2", "3", "4", "5", "6">>

Plain(words) == [words |-> words, comment |-> << >>, at |-> -1]
Commented(words, texts) ==
  {Plain(words)} \cup {[words |-> words, comment |-> text, at |-> at] :
                         text \in texts, at \in 0..Len(words)}

Line(commands, remark) == [commands |-> commands, remark |-> remark]

Texts   == {<<"sleep", "9">>, <<";">>}
Remarks == {<< >>, <<"{", "reset">>}

\* One command with a comment anywhere, two commands chained, and two lines of which one
\* may hold nothing but a comment, or nothing.
SomeCommands == Commented(TapWords, Texts) \cup Commented(SleepWords, Texts) \cup Commented(ResetWords, Texts)
OneLiner(c) == {<<Line(c, remark)>> : remark \in Remarks}
AllDocuments ==
  UNION {OneLiner(<<c>>) : c \in SomeCommands}
    \cup UNION {OneLiner(<<c, d>>) : c \in SomeCommands, d \in Commented(SleepWords, Texts)}
    \cup {<<Line(<<Plain(TapWords), Plain(DragWords)>>, <<"x">>), Line(<<>>, r), Line(<<Plain(ResetWords)>>, << >>)>> :
            r \in Remarks}

\* A block comment with nothing in it.
EmptyComments == {<<Line(<<c>>, << >>)>> : c \in Commented(TapWords, {<< >>})}

\* The longest line just fits the buffer, with the zero behind its end.
BufferSize == 1 + Max({Len(Text(<<LineWords(l)>>)) : l \in UNION {Range(d) : d \in AllDocuments}})

ASSUME JustFits == MAX_COMMAND_LEN = BufferSize

\* All of them are in the syntax of the README.
ASSUME AllWellFormed == \A d \in AllDocuments : WellFormed(d)

\* Any cells in front of a command, with and without spaces between them; between two
\* commands of which the second lacks its argument; in front of more arguments than there
\* is room for; and in front of a line that is too long.
Soup(n)   == [1..n -> {"reset", "{", "}", ";", "#", " ", "\n"}]
Sleep     == <<" ", "sleep", " ", "9">>
End       == <<"\n">>
Nines(n)  == FlattenSeq([i \in 1..n |-> <<" ", "9">>])
TooMany   == <<" ", "pinch">> \o Nines(11) \o End
TooLong   == Nines(18) \o <<" ", "reset", ";", "}">> \o Sleep \o End

\* The end of the buffer falls into the argument of a command behind a long comment, and
\* into the last word of a remark.
CutShort  == {<<" ", "{">> \o Nines(15) \o <<" ", "}">> \o <<" ", "sleep", " ", "100", "\n">>,
              <<" ", "#">> \o Nines(17) \o <<" ", "noreset">> \o End}

AllSoups  == {s \o Sleep \o End : s \in Soup(4)}
               \cup {Sleep \o s \o <<"keyup", "\n">> : s \in Soup(3)}
               \cup {s \o t : s \in Soup(2), t \in {TooMany, TooLong}}
               \cup CutShort

===========================================================================
