------------------------------- MODULE Script -------------------------------
(***************************************************************************)
(* How orng reads a script: the loop of main over lines, comments, tokens, *)
(* commands and their arguments.                                           *)
(*                                                                         *)
(* A file is a sequence of cells: a word or a number, one of the           *)
(* characters { } ; #, a space or the end of a line.  The tokens are       *)
(* strtok's, with the zeros that it and the comments write into the line.  *)
(***************************************************************************)
EXTENDS Integers, Sequences, FiniteSetsExt

CONSTANTS
  Numbers,             \* the cells that atoi takes for numbers
  Cuts,                \* where a word may be cut in two: <<word, head, tail>>
  MAX_COMMAND_LEN,     \* the size of the line buffer, in cells
  MAX_COMMAND_ARGS     \* the size of the array of arguments

NUL   == "NUL"
Blank == {" ", "\n"}
Marks == {"{", "}", ";", "#"}

ASSUME ScriptAssumption ==
  /\ MAX_COMMAND_LEN \in Nat /\ MAX_COMMAND_LEN > 3 /\ MAX_COMMAND_ARGS \in Nat
  /\ \A c \in Cuts : {c[1], c[2], c[3]} \cap (Blank \cup Marks \cup {NUL}) = {}

VARIABLES
  file,        \* the script; a word that was cut at the end of the buffer is two cells
  read,        \* how many of its cells have been read
  line,        \* the line buffer
  save,        \* where strtok goes on
  fresh,       \* tempLine is the line: strtok starts anew
  cmd,         \* the token of the command
  args,        \* its arguments
  more,        \* hasNextCmd: a ';' ended the command
  stage,       \* what main does next, or how it ended
  executed     \* history: the commands executed, with their arguments

scriptVars == <<file, read, line, save, fresh, cmd, args, more, stage, executed>>

Ended == {"done", "failed", "aborted"}

\* The arguments a command takes.
Arity == [tap |-> 4, drag |-> 6, sleep |-> 1, pinch |-> 10, keyup |-> 1, keydown |-> 1,
          reset |-> 0]

ScriptInit ==
  /\ file = << >> /\ read = 0
  /\ line = << >> /\ save = 1 /\ fresh = TRUE
  /\ cmd = << >> /\ args = << >> /\ more = FALSE
  /\ stage = "off" /\ executed = << >>

---------------------------------------------------------------------------
(* The C library.                                                          *)

Cell(l, i) == IF i <= Len(l) THEN l[i] ELSE NUL

\* The first place from i on that holds one of these cells, or the end of the string.
Find(l, i, cells) ==
  CHOOSE j \in i..(Len(l) + 1) :
    Cell(l, j) \in cells \cup {NUL} /\ \A k \in i..(j - 1) : Cell(l, k) \notin cells \cup {NUL}

\* The first place from i on that holds another cell.
Skip(l, i, cells) ==
  CHOOSE j \in i..(Len(l) + 1) : Cell(l, j) \notin cells /\ \A k \in i..(j - 1) : Cell(l, k) \in cells

Zero(l, i) == IF i <= Len(l) THEN [l EXCEPT ![i] = NUL] ELSE l

\* strtok from place i: skips delimiters, ends the token with a zero and remembers the
\* place behind it.  A token that starts at the end is none.
strtok(l, i, delimiters) ==
  LET start == Skip(l, i, delimiters)
      end   == Find(l, start, delimiters)
  IN  [found |-> Cell(l, start) # NUL, at |-> start, text |-> SubSeq(l, start, end - 1),
       line |-> Zero(l, end), save |-> IF Cell(l, end) = NUL THEN end ELSE end + 1]

\* A word that is no number is 0, and what follows a number is dropped.
atoi(token) == IF token[1] \in Numbers THEN token[1] ELSE "0"

\* fgets: up to the end of the line, if that fits.
Fetched(f) ==
  LET rest == SubSeq(f, read + 1, Len(f))
      end  == Find(rest, 1, {"\n"})
  IN  SubSeq(rest, 1, Min({end, Len(rest), MAX_COMMAND_LEN - 1}))

\* The buffer that is full may end behind its last word or within it.
AsCut ==
  LET last == read + MAX_COMMAND_LEN - 1
  IN  {file} \cup
      {SubSeq(file, 1, last - 1) \o <<c[2], c[3]>> \o SubSeq(file, last + 1, Len(file)) :
         c \in {d \in Cuts : Len(Fetched(file)) = MAX_COMMAND_LEN - 1 /\ file[last] = d[1]}}

---------------------------------------------------------------------------
(* main.                                                                   *)

\* main up to its loop; opening the device or the script may fail.
Start(f, opens) ==
  /\ stage = "off"
  /\ file' = f /\ read' = 0 /\ executed' = << >>
  /\ stage' = IF opens THEN "line" ELSE "failed"
  /\ UNCHANGED <<line, save, fresh, cmd, args, more>>

\* A variant that cuts no end-of-line comment.
ReadLine_NoCut ==
  /\ stage = "line" /\ read < Len(file)
  /\ file' \in AsCut
  /\ read' = read + Len(Fetched(file'))
  /\ line' = Fetched(file')
  /\ fresh' = TRUE /\ stage' = "command"
  /\ UNCHANGED <<save, cmd, args, more, executed>>

ReadLine ==
  /\ stage = "line" /\ read < Len(file)
  /\ file' \in AsCut
  /\ read' = read + Len(Fetched(file'))
  /\ line' = Zero(Fetched(file'), Find(Fetched(file'), 1, {"#"}))
  /\ fresh' = TRUE /\ stage' = "command"
  /\ UNCHANGED <<save, cmd, args, more, executed>>

EndOfFile ==
  /\ stage = "line" /\ read = Len(file)
  /\ stage' = "done"
  /\ UNCHANGED <<file, read, line, save, fresh, cmd, args, more, executed>>

\* The next token of the line.
Token == strtok(line, IF fresh THEN 1 ELSE save, Blank)

\* A variant that gives strtok the line again.
Take_StartsAgain(t) == line' = t.line /\ save' = t.save /\ UNCHANGED fresh

Take(t) == line' = t.line /\ save' = t.save /\ fresh' = FALSE

\* A comment either ends within its token, or with the next token that ends in a brace:
\* strtok skips the braces in front of that.  One that is never closed takes the rest of
\* the line, and is an error only if there is none.
parseComment ==
  /\ stage \in {"command", "argument"}
  /\ \E t \in {Token} :
       LET within == Find(t.line, t.at, {"}"})
           rest   == strtok(t.line, t.save, {"}"})
       IN  /\ t.found /\ t.text[1] = "{"
           /\ IF Cell(t.line, within) = "}"
              THEN Take([t EXCEPT !.line = Zero(t.line, within)]) /\ UNCHANGED stage
              ELSE Take(rest) /\ stage' = IF rest.found THEN stage ELSE "failed"
  /\ UNCHANGED <<file, read, cmd, args, more, executed>>

\* A variant that does not forget the arguments of the last command.
ParseCommand_KeepsArguments ==
  /\ stage = "command"
  /\ \E t \in {Token} :
       /\ t.found => t.text[1] # "{"
       /\ Take(t)
       /\ cmd' = t.text /\ more' = FALSE
       /\ stage' = IF t.found THEN "argument" ELSE "line"
  /\ UNCHANGED <<file, read, args, executed>>

\* A variant that looks for one more command on the line, whether a ';' was seen or not.
ParseCommand_OneMore ==
  /\ stage = "command"
  /\ \E t \in {Token} :
       /\ t.found => t.text[1] # "{"
       /\ Take(t)
       /\ cmd' = t.text /\ args' = << >> /\ more' = FALSE
       /\ stage' = IF t.found THEN "argument" ELSE "command"
  /\ UNCHANGED <<file, read, executed>>

ParseCommand ==
  /\ stage = "command"
  /\ \E t \in {Token} :
       /\ t.found => t.text[1] # "{"
       /\ Take(t)
       /\ cmd' = t.text /\ args' = << >> /\ more' = FALSE
       /\ stage' = IF t.found THEN "argument" ELSE "line"
  /\ UNCHANGED <<file, read, executed>>

\* A variant that does not stop at the end of the array of arguments.
ParseArgument_NoBound ==
  /\ stage = "argument"
  /\ \E t \in {Token} :
       /\ t.found => t.text[1] # "{"
       /\ Take(t)
       /\ more' = (t.found /\ t.text[1] = ";")
       /\ args' = IF t.found /\ ~more' THEN Append(args, atoi(t.text)) ELSE args
       /\ stage' = IF ~t.found \/ more' THEN "execute" ELSE "argument"
  /\ UNCHANGED <<file, read, cmd, executed>>

ParseArgument ==
  /\ stage = "argument"
  /\ \E t \in {Token} :
       /\ t.found => t.text[1] # "{"
       /\ Take(t)
       /\ more' = (t.found /\ t.text[1] = ";")
       /\ args' = IF t.found /\ ~more' /\ Len(args) < MAX_COMMAND_ARGS
                  THEN Append(args, atoi(t.text)) ELSE args
       /\ stage' = IF ~t.found \/ more' THEN "execute"
                   ELSE IF Len(args) < MAX_COMMAND_ARGS THEN "argument" ELSE "aborted"
  /\ UNCHANGED <<file, read, cmd, executed>>

\* The name and the number of arguments are checked; then a gesture of Orng is played.
Execute ==
  /\ stage = "execute"
  /\ LET known == cmd \in {<<name>> : name \in DOMAIN Arity}
         fits  == known /\ Len(args) = Arity[cmd[1]]
     IN  /\ executed' = IF fits THEN Append(executed, cmd \o args) ELSE executed
         /\ stage' = IF ~known THEN "failed" ELSE IF ~fits THEN "aborted"
                     ELSE IF more THEN "command" ELSE "line"
  /\ UNCHANGED <<file, read, line, save, fresh, cmd, args, more>>

main == ReadLine \/ EndOfFile \/ parseComment \/ ParseCommand \/ ParseArgument \/ Execute

\* Its caller sees how main ended, and the process is gone.
Reap(outcome) ==
  /\ stage = outcome /\ stage' = "off"
  /\ file' = << >> /\ read' = 0
  /\ line' = << >> /\ save' = 1 /\ fresh' = TRUE
  /\ cmd' = << >> /\ args' = << >> /\ more' = FALSE

===========================================================================
