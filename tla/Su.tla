--------------------------------- MODULE Su ---------------------------------
(***************************************************************************)
(* su.c: from its arguments to the shell it becomes.                       *)
(*                                                                         *)
(* Without --shell the buffer for its name is not initialised: what stands *)
(* there may be the empty name, which means the default, or anything else. *)
(***************************************************************************)
EXTENDS Integers, Sequences

CONSTANTS
  Users,     \* names and numbers that stand for users: a function to their ids
  Shells     \* the paths that can be executed

SYSTEM_SHELL    == "/system/bin/sh"
DEFAULT_COMMAND == "echo"
Garbage         == {"", "garbage"}

su_to == [uid |-> 0, command |-> DEFAULT_COMMAND, shell |-> "uninitialised", next |-> 1,
          options |-> TRUE, exits |-> FALSE]

\* usage and the version are printed, and that is all.
usage(to) == [to EXCEPT !.exits = TRUE]

\* The next argument, if it may be an option.
Option(argv, to) ==
  LET i     == to.next
      Value == [to EXCEPT !.next = i + 2]
  IN  IF ~to.options \/ to.exits \/ i > Len(argv) THEN to ELSE
      CASE argv[i] \in {"-c", "--command"} ->
             IF i < Len(argv) THEN [Value EXCEPT !.command = argv[i + 1]] ELSE usage(to)
        [] argv[i] \in {"-s", "--shell"} ->
             IF i < Len(argv) THEN [Value EXCEPT !.shell = argv[i + 1]] ELSE usage(to)
        [] argv[i] \in {"-v", "--version", "-V", "-h", "--help"} -> usage(to)
        [] argv[i] \in {"-", "-l", "--login"} -> [to EXCEPT !.next = i + 1, !.options = FALSE]
        [] OTHER -> [to EXCEPT !.options = FALSE]

\* There are no more options than arguments.
Options(argv) ==
  LET after[n \in 0..Len(argv)] == IF n = 0 THEN su_to ELSE Option(argv, after[n - 1])
  IN  after[Len(argv)]

\* The user is the one named behind the options; a name that is neither a user's nor a
\* number is 0 to atoi, which is root.
Parsed(argv) ==
  LET to == Options(argv)
  IN  IF to.next < Len(argv) THEN usage(to)
      ELSE IF to.next = Len(argv) /\ argv[to.next] \in DOMAIN Users
           THEN [to EXCEPT !.uid = Users[argv[to.next]]]
           ELSE to

\* What a process of su becomes: what it runs, as whom, and the exit code if it runs nothing.
Becomes(runs, to, code) == [runs |-> runs, uid |-> to.uid, code |-> code]

\* The shell is told to run the command.  If it cannot be executed su exits, as it does
\* after usage, with success.
allow(to, shell) ==
  LET path == IF shell = "" THEN SYSTEM_SHELL ELSE shell
  IN  IF path \notin Shells THEN Becomes("nothing", to, 0)
      ELSE IF to.command = DEFAULT_COMMAND THEN Becomes("login", to, 0)
      ELSE Becomes(to.command, to, 0)

\* Finding out who called may fail; nobody looks at what it finds.
from_init == {0, -1}

\* What a call of su may become.
su(argv) ==
  LET to     == Parsed(argv)
      shells == IF to.shell = "uninitialised" THEN Garbage ELSE {to.shell}
  IN  IF to.exits THEN {Becomes("nothing", to, 0)}
      ELSE UNION {IF found < 0 THEN {Becomes("nothing", to, 1)}
                  ELSE {allow(to, shell) : shell \in shells} : found \in from_init}

===========================================================================
