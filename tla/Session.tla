------------------------------ MODULE Session ------------------------------
(***************************************************************************)
(* Scripts on their way to orng.  The test controller turns each request   *)
(* into a script, pushes it to the device, has it run and removes it; an   *)
(* exception ends it, and somebody starts it again.  It runs orng itself   *)
(* or through su, as the shell of the device demands.  An operator may     *)
(* run scripts of his own from a shell.                                    *)
(***************************************************************************)
EXTENDS Script, Controller, Su, SequencesExt

CONSTANTS
  Requests,      \* the lines on the standard input of the controller
  SuCalls,       \* the arguments su may be called with to run orng
  Documents,     \* scripts in the syntax of the README, line by line
  Soups,         \* any other scripts
  MaxRequests,   \* bound: requests read
  MaxCrashes,    \* bound: exceptions, after which a controller is started again
  MaxByHand      \* bound: scripts run by the operator

\* Sequences of whatever is in them.
IsSequence(s) == s \in Seq(Range(s))

\* The arguments of a request and the numbers the controller writes are words; a second is
\* a number.
Measures == {dimensions[1] \div 2, dimensions[2] \div 2, dimensions[1] - swipe_padding[1],
             dimensions[2] - swipe_padding[4], swipe_padding[1], swipe_padding[3]}
              \cup {n * Second : n \in Numerals}

VARIABLES
  controller,    \* what execute_script does next
  events,        \* the lines of the request
  remote,        \* the scripts that lie on the device
  idle,          \* su has run something other than orng for the controller, or nothing
  author,        \* history: who started orng last, and what he wanted of it
  requests, crashes, byHand    \* history

ctlVars == <<controller, events, remote, idle, requests, crashes, byHand>>
vars    == <<scriptVars, ctlVars, author>>

Nobody == [who |-> "nobody", wants |-> << >>]

Init ==
  /\ ScriptInit
  /\ controller = "reading" /\ events = << >> /\ remote = 0 /\ idle = FALSE
  /\ author = Nobody
  /\ requests = 0 /\ crashes = 0 /\ byHand = 0

---------------------------------------------------------------------------
(* The text of scripts.                                                    *)

\* Words with a space between them, and the end of the line.
Joined(words) ==
  [i \in 1..(2 * Len(words)) |->
    IF i % 2 = 1 THEN words[(i + 1) \div 2] ELSE IF i = 2 * Len(words) THEN "\n" ELSE " "]

Text(lines) == FlattenSeq([i \in 1..Len(lines) |-> Joined(lines[i])])

\* A command that is complete.
Complete(words) ==
  /\ Len(words) > 0 /\ words[1] \in DOMAIN Arity /\ Len(words) = Arity[words[1]] + 1
  /\ Range(words) \cap (Blank \cup {NUL}) = {}

\* A documented command may have a block comment before, within or after it; commands are
\* chained with ';' and a remark may end the line.
CommandWords(c) ==
  IF c.at < 0 THEN c.words
  ELSE SubSeq(c.words, 1, c.at) \o <<"{">> \o c.comment \o <<"}">>
         \o SubSeq(c.words, c.at + 1, Len(c.words))

LineWords(l) ==
  FlattenSeq([i \in 1..Len(l.commands) |->
               (IF i > 1 THEN <<";">> ELSE << >>) \o CommandWords(l.commands[i])])
    \o (IF l.remark = << >> THEN << >> ELSE <<"#">> \o l.remark)

\* A line without a word is nothing but its end.
LineCells(l) == IF LineWords(l) = << >> THEN <<"\n">> ELSE Joined(LineWords(l))

\* A document is a sequence of lines.
Document(d) ==
  [text  |-> FlattenSeq([i \in 1..Len(d) |-> LineCells(d[i])]),
   wants |-> FlattenSeq([i \in 1..Len(d) |->
                          [j \in 1..Len(d[i].commands) |-> d[i].commands[j].words]])]

\* A document in the syntax of the README: each command has its arguments, and no more than
\* there is room for; a comment is not empty and ends at its first brace, nor does it hold a
\* remark; a line fits the buffer.
WrittenCommand(c) ==
  /\ IsSequence(c.words) /\ Complete(c.words)
  /\ Range(c.words) \cap Marks = {} /\ Len(c.words) <= MAX_COMMAND_ARGS + 1
  /\ IsSequence(c.comment) /\ Range(c.comment) \cap (Blank \cup {NUL, "}", "#"}) = {}
  /\ c.at \in Int /\ c.at <= Len(c.words) /\ (c.at >= 0 => Len(c.comment) > 0)

WrittenLine(l) ==
  /\ IsSequence(l.commands) /\ \A j \in 1..Len(l.commands) : WrittenCommand(l.commands[j])
  /\ IsSequence(l.remark) /\ Range(l.remark) \cap (Blank \cup {NUL}) = {}
  /\ 2 * Len(LineWords(l)) < MAX_COMMAND_LEN

WellFormed(d) == IsSequence(d) /\ \A i \in 1..Len(d) : WrittenLine(d[i])

ASSUME SessionAssumption ==
  /\ \A f \in Soups \cup {Document(d).text : d \in Documents} : IsSequence(f)
  /\ \A r \in Requests : IsSequence(r.args) /\ Range(r.args) \cap (Blank \cup {NUL}) = {}
  /\ Numerals \subseteq Int /\ "1" \in Words
  /\ \A n \in Measures : ToString(n) \notin Blank \cup {NUL}

---------------------------------------------------------------------------
(* The controller.                                                         *)

Step(from, to) == controller = from /\ controller' = to

\* An exception ends the controller.
Raise == controller' = "dead" /\ crashes' = crashes + 1

\* One orng at a time: two are the subject of TwoOrng.
Request ==
  /\ controller = "reading" /\ stage = "off" /\ requests < MaxRequests
  /\ \E r \in Requests :
       LET result == get_cmd_events(r.cmd, r.args)
       IN  /\ events' = result.lines
           /\ IF ~result.ok THEN Raise
              ELSE /\ controller' = IF result.lines = << >> THEN "reading" ELSE "push"
                   /\ UNCHANGED crashes
  /\ requests' = requests + 1
  /\ UNCHANGED <<scriptVars, remote, idle, author, byHand>>

\* The end of the input, or an interrupt between two requests.
Quit ==
  /\ Step("reading", "ended")
  /\ UNCHANGED <<scriptVars, events, remote, idle, author, requests, crashes, byHand>>

\* A push that fails may have created the file.
pushFile ==
  /\ controller = "push"
  /\ \/ remote' = remote + 1 /\ controller' = "run" /\ UNCHANGED crashes
     \/ Raise /\ remote' \in {remote, remote + 1}
  /\ UNCHANGED <<scriptVars, events, idle, author, requests, byHand>>

\* orng is started, as whom it takes to open the device or not; su may run something else.
shellCheckOutput ==
  /\ controller = "run" /\ stage = "off"
  /\ \E p \in {Becomes("orng", su_to, 0)} \cup UNION {su(argv) : argv \in SuCalls} :
       IF p.runs = "orng"
       THEN /\ Start(Text(events), p.uid = 0)
            /\ author' = [who |-> "controller", wants |-> events]
            /\ controller' = "wait" /\ UNCHANGED <<idle, crashes>>
       ELSE /\ idle' = TRUE
            /\ IF p.code = 0 THEN controller' = "remove" /\ UNCHANGED crashes ELSE Raise
            /\ UNCHANGED <<scriptVars, author>>
  /\ UNCHANGED <<events, remote, requests, byHand>>

\* A variant that does not look at the exit code.
Checked_Ignored ==
  /\ controller = "wait"
  /\ \E outcome \in Ended : Reap(outcome)
  /\ controller' = "remove"
  /\ UNCHANGED <<executed, events, remote, idle, author, requests, crashes, byHand>>

\* An exit code other than zero raises an exception.
Checked ==
  /\ controller = "wait"
  /\ \E outcome \in Ended :
       /\ Reap(outcome)
       /\ IF outcome = "done" THEN controller' = "remove" /\ UNCHANGED crashes ELSE Raise
  /\ UNCHANGED <<executed, events, remote, idle, author, requests, byHand>>

\* A variant that forgets the file.
removeFile_Keeps ==
  /\ controller = "remove"
  /\ controller' = "reading" /\ UNCHANGED crashes
  /\ idle' = FALSE /\ events' = << >> /\ executed' = << >> /\ author' = Nobody
  /\ UNCHANGED <<file, read, line, save, fresh, cmd, args, more, stage, remote, requests, byHand>>

\* The request is over.
removeFile ==
  /\ controller = "remove"
  /\ \/ remote' = remote - 1 /\ controller' = "reading" /\ UNCHANGED crashes
     \/ Raise /\ UNCHANGED remote
  /\ idle' = FALSE /\ events' = << >> /\ executed' = << >> /\ author' = Nobody
  /\ UNCHANGED <<file, read, line, save, fresh, cmd, args, more, stage, requests, byHand>>

execute_script == pushFile \/ shellCheckOutput \/ Checked \/ removeFile

Restart ==
  /\ Step("dead", "reading") /\ crashes <= MaxCrashes
  /\ idle' = FALSE /\ events' = << >> /\ executed' = << >> /\ author' = Nobody
  /\ UNCHANGED <<file, read, line, save, fresh, cmd, args, more, stage, remote, requests, crashes, byHand>>

---------------------------------------------------------------------------
(* The operator.                                                           *)

ByHand ==
  /\ controller \in {"reading", "ended"}
  /\ byHand < MaxByHand /\ byHand' = byHand + 1
  /\ \/ \E d \in Documents :
          /\ Start(Document(d).text, TRUE)
          /\ author' = [who |-> "operator", wants |-> Document(d).wants]
     \/ \E f \in Soups :
          /\ Start(f, TRUE)
          /\ author' = [who |-> "soup", wants |-> << >>]
  /\ UNCHANGED <<controller, events, remote, idle, requests, crashes>>

Finished ==
  /\ author.who # "controller"
  /\ \E outcome \in Ended : Reap(outcome)
  /\ executed' = << >> /\ author' = Nobody
  /\ UNCHANGED ctlVars

orng == main /\ UNCHANGED <<ctlVars, author>>

---------------------------------------------------------------------------

\* Nobody has anything left to do.
Over == controller \in {"ended", "dead"} /\ stage = "off" /\ UNCHANGED vars

Next == Request \/ Quit \/ execute_script \/ Restart \/ ByHand \/ Finished \/ orng \/ Over

Spec == Init /\ [][Next]_vars

---------------------------------------------------------------------------

\* A number is written as it is meant; any other word is 0 to atoi.
Meant(words) == <<words[1]>> \o [i \in 1..(Len(words) - 1) |-> atoi(<<words[i + 1]>>)]
Wanted(lines) == [i \in 1..Len(lines) |-> Meant(lines[i])]

\* A script in the syntax of the README is executed command by command as it was written,
\* comments have no effect, and it comes to its end (main, parseComment).
AsWritten ==
  author.who = "operator" =>
    /\ IsPrefix(executed, Wanted(author.wants))
    /\ stage \in Ended => stage = "done" /\ executed = Wanted(author.wants)

\* What orng may make of a cell: itself, as the name of a command, or a number, as an
\* argument.
Reads(cell, word) == word \in {cell, atoi(<<cell>>)}

\* How many of the words, in their order, the first so many cells hold.
Within(words, cells) ==
  LET held[i \in 0..Len(cells)] ==
        IF i = 0 THEN 0
        ELSE LET n == held[i - 1]
             IN  IF n < Len(words) /\ Reads(cells[i], words[n + 1]) THEN n + 1 ELSE n
  IN  held[Len(cells)] = Len(words)

\* What is executed stands in the script, in this order: no token is taken twice, or put
\* together from two (main, parseComment).  A word that fgets cuts at the end of the buffer
\* counts as the two pieces it makes of it: of "sleep 2000" may come a "sleep 20".
NothingInvented == stage # "off" => Within(FlattenSeq(executed), file)

\* When the controller goes on after a run, orng has executed the script of the request from
\* its first to its last command, unless su never came to run it; provided that its lines fit
\* the buffer.
Fitting(lines) == \A i \in 1..Len(lines) : 2 * Len(lines[i]) < MAX_COMMAND_LEN
PlayedAsAsked ==
  controller = "remove" /\ Fitting(events) => idle \/ executed = Wanted(events)

\* A script stays on the device only if a controller died over it.
LeftBehind ==
  remote <= crashes + (IF controller \in {"run", "wait", "remove"} THEN 1 ELSE 0)

\* The place of the line at which orng goes on.
InLine == stage \in {"command", "argument", "execute"}
Place  == IF fresh THEN 1 ELSE save

\* How much orng has yet to do: a cell of the file counts until it is read, and once more
\* until it is taken from the line.
Unread ==
  LET Left == 2 * (Len(file) - read) + (IF InLine THEN Len(line) + 1 - Place ELSE 0)
  IN  4 * Left + CASE stage = "argument" -> 3 [] stage = "execute" -> 2 [] stage = "command" -> 1
                   [] stage = "line" -> 0 [] OTHER -> -1

\* No comment, token or command makes orng go round in circles: each of its steps leaves it
\* less to do, so that it comes to an end of the script whatever stands in it.
Advances == [][stage \notin Ended \cup {"off"} => Unread' < Unread]_scriptVars

---------------------------------------------------------------------------
(* The inductive invariant.                                                *)

\* What orng handles comes from the script, in which a word may have been cut since.
Cells == Range(file) \cup {c[1] : c \in Cuts} \cup {NUL, "0"}

ReaderTypes ==
  /\ stage \in {"off", "line", "command", "argument", "execute"} \cup Ended
  /\ IsSequence(file) /\ read \in 0..Len(file)
  /\ line \in Seq(Cells) /\ cmd \in Seq(Cells)
  /\ args \in Seq(Cells) /\ Len(args) <= MAX_COMMAND_ARGS
  /\ fresh \in BOOLEAN /\ more \in BOOLEAN

ExecutedType == stage # "off" => executed \in Seq(Seq(Cells))

\* The rest of its line is the rest of the script up to where it has been read, or has been
\* cut off.
LineInv ==
  /\ stage = "off" => line = << >> /\ cmd = << >> /\ args = << >>
  /\ stage \in {"argument", "execute"} => ~fresh /\ Len(cmd) > 0
  /\ InLine => /\ Place \in 1..(Len(line) + 1) /\ Len(line) <= read
               /\ \A j \in Place..Len(line) : line[j] \in {file[read - Len(line) + j], NUL}

ReaderInv == ReaderTypes /\ ExecutedType /\ LineInv

\* A controller is busy with one request, and its lines are commands that are complete.
Commands(lines) ==
  /\ lines \in Seq(Seq(UNION {Range(words) : words \in Range(lines)}))
  /\ \A i \in 1..Len(lines) : Complete(lines[i])

ControllerInv ==
  /\ controller \in {"reading", "push", "run", "wait", "remove", "dead", "ended"}
  /\ controller \in {"push", "run", "remove", "dead"} => stage = "off"
  /\ remote \in Int /\ crashes \in Nat
  /\ Commands(events)

SessionInv == ReaderInv /\ ControllerInv /\ LeftBehind

===========================================================================
