# Verification of Orangutan

Orangutan plays scripts of taps, drags and pinches on an Android device by writing
input events to `/dev/input`; a kernel module can simulate the device. This directory
holds TLA+ models of it, TLC configurations that check them on small instances, and
proofs that TLAPS checks for every instance.

    tlc -config OrngClean.cfg MCTimed     # any run: its cfg and its module
    tlapm Orng_proofs.tla                 # any proof module

## The system

| Component | Source | State | Operations |
|---|---|---|---|
| event writer | `orng.c` `write_event` | the bytes still to be written | write one event, retry after a short or interrupted write, give up |
| gestures | `orng.c` `execute_*`, `change_mt_slot` | `global_tracking_id`, loop counters | tap, drag, pinch, reset, keydown, keyup, sleep: nests of loops over press, move, release and slot changes |
| drag pacing | `orng.c` `execute_drag` | running average of the dispatch time | decide how long to sleep before a move |
| device classification | `orng.c` `figure_out_events_device_reports` | `device_flags` | read the capability bits and the name |
| script interpreter | `orng.c` `main`, `parseComment` | line, token position, arguments | split lines into commands, drop comments, check argument counts |
| kernel input core | outside the repository | current slot, axis values per slot, keys, last report | accept an event, show the state at a report |
| module life cycle | `kernel/module.c` `orng_init`, `add_device`, `orng_exit` | `indev[]`, heap | allocate, set up, register, undo, unregister |
| device setup | `kernel/module.c` `orng_setup_device`, `devinfo.h` | bit arrays | copy the capability bits |
| device lookup | `kernel/devinfo.c` | none (constant table) | first match by canonical name, name or id |
| device table | `kernel/devspec.h` | constant data | none |
| mkdevinfo | `mkdevinfo.c` | one device description | read a device, print a table entry |
| su | `su.c` | user id, command, shell | parse options, change identity, exec |
| test controller | `test-orng.py` | files on the device | turn commands into a script, push it, run orng, remove it |

How they interact: the interpreter calls a gesture with the class of the device; a
gesture calls `write_event` once per event, and a sleep of at least a millisecond
precedes every write, so that the window system, other processes and the death of orng
can come between any two events. The kernel keeps the slots, axes and keys when orng
exits. The module registers devices from the table, which programs (orng, the window
system) open and close while the module is loaded and unloaded.

What is hard: the device's state outlives the process (a killed run leaves a finger
down and the ids start over); events go to the *current* slot, chosen by an earlier
event; nothing is seen before a report; write errors are ignored; steps are integers;
and in the kernel module any step of the initialisation may fail while readers hold
some of the devices.

What makes each component correct:

* gestures: nothing stays on the screen; what was written was reported; each finger
  follows its own path in its own slot; a press is a new contact; commands end.
* classification: the class fits the device; a gesture writes only for that class.
* interpreter: each command of the script is executed once with its arguments, and
  nothing of a comment is.
* event writer: an event reaches the device whole, once, or not at all.
* drag pacing: a drag takes about the duration it is given.
* module: all devices asked for or none; nothing leaks, is freed twice or in use.
* setup and mkdevinfo: the simulated device describes itself as the original did.
* controller: no script is left behind on the device.

## The modules

| Module | Models |
|---|---|
| `InputDevice` | the input core as orng relies on it (external) |
| `OrngEvents` | pure: device classes, the event sequence of each primitive, waypoints |
| `Orng` | orng playing scripts on an `InputDevice`, event by event |
| `Touchscreen` | abstract: what a script promises its readers, report by report |
| `OrngRefines` | the refinement mapping from `Orng` to `Touchscreen` |
| `OrngTimed` | `Orng` with a clock: the sleeps of every command, the pacing of a drag |
| `TwoOrng`, `MCTwoOrng` | two processes of `Orng` on one device; their scripts |
| `OrngInv` | the inductive invariants of contacts and ids; what a process has yet to do on a shared device |
| `OrngPath` | the inductive invariant of an undisturbed gesture: where each finger is after each event |
| `MCOrng`, `MCTimed` | devices and scripts for TLC, without and with durations |
| `Orng_proofs` | lemmas on the sequences of events; theorems on `Orng` |
| `OrngPath_proofs` | theorems on gestures; proof of the refinement |
| `OrngTimed_proofs`, `TwoOrng_proofs` | theorems on time; on two processes |
| `DevInfo` | the device table and its three searches |
| `OrngModule` | loading and unloading of the kernel module, with its readers |
| `MCModule` | the real table (`devspec.h` and `devinfo.c`) and parameter lists |
| `OrngModule_proofs`, `Emulate_proofs` | theorems on `OrngModule`; on `Emulate` |
| `DevBits` | pure: the layout of the bit arrays, in the description and in `struct input_dev` |
| `MkDevInfo` | mkdevinfo reading a device and printing an entry |
| `SetupBits` | `orng_setup_device`, array by array |
| `Emulate`, `MCEmulate` | the two composed: from a device to its simulation; the devices |
| `Script` | `main` and `parseComment`: from the cells of a file to executed commands |
| `Controller` | pure: the script lines of a request to `test-orng.py` |
| `Su` | pure: what a call of `su` becomes |
| `Session`, `MCSession` | the three composed: who writes scripts, how they get to orng; the scripts |
| `Session_proofs`, `Document_proofs` | theorems on whatever gets to orng; on scripts in the syntax of the README |

### Orng

The control state of a run is the call stack of the C program, flattened: `cmd` (the
arguments of the gesture), `stage` (the primitive being executed), `finger` (which finger
of a pinch it is for), `iter` (the loop counter `i`) and `pos` (the next call of
`write_event`). `Calls` is the list of the primitive's events, from the same calls in the
same order as in the code; `write_event` delivers the next one, `write_event_fails` loses it, and in both cases
orng goes on, as the code does after its message on stderr. The `...Returns` actions are
the loops: what the gesture does when a primitive has written its last event.
`global_tracking_id` is `trackingId`; it is read and incremented with the event it is an
argument of. `Start` is `main` up to the first line: it probes the device, each ioctl
failing or not, and resets everything that is static. `Exit` may happen between any two
commands (the script ends, or a line makes `main` return or abort), `Kill` anywhere.

A script is any sequence of commands with any arguments in `Commands`. A zero `num_steps` divides by
zero: the model lets the process die or go on with a quotient that no move uses. A key is any number:
that of `BTN_TOUCH` makes `keydown` press the button, with no report and no release to follow. `keyed`
and `keyedSeen` remember whether such a command or a gesture wrote the button last, for the kernel and
for the readers. Sleeps have no effect on this state, so they are not steps of their own; `OrngTimed`
counts them.

### Touchscreen and OrngRefines

`Touchscreen` knows gestures and fingers, and nothing of events, slots, ids or device classes: a
finger comes down at its start, the fingers step in turn along their paths, and go up in order
when all have arrived. `OrngRefines` maps `Orng` to it: what is on the screen is what the readers
were shown (`seen`), so that every event is silent except the `SYN_REPORT`s, and each of those
is exactly one step of one finger. A gesture the device cannot show (a pinch on a single-touch
device, anything on a keypad, a finger on a device that orng takes for multi-touch but that has no
tracking ids) maps to no gesture. `PlaysGestures` is the refinement.

### OrngTimed

`now` counts the microseconds since the command began, advanced by the same actions as the
state: a millisecond before every event, and the sleeps between primitives at the return that
makes them. The processor takes no time, so `now` is what the code asks for; a slower machine
takes longer. `execute_sleep_for` is the product of ints and the unsigned argument of `usleep`,
scaled down to a word of 4096. `avg` is a double: a number, infinite, or not a number, and
`Average` follows the arithmetic of doubles through the division by `i = 0`. A drag begins with
whatever `avg` finds on the stack, a number or not.

### TwoOrng

Each process has its own flags, ids, loop counters and position; the device, with its selected
slot, is one. Every event of one may come between any two of the other.

### Script, Controller, Su and Session

A file is a sequence of cells: a word or a number, one of `{ } ; #`, a space, the end of a line.
That is as fine as strtok, atoi and the comments tell characters apart, but for `fgets`, whose buffer may end
within a word. `Cuts` says which words may be cut and into which pieces, and a word at the end of a full buffer
is cut or not (`AsCut`): from then on it is two cells of the file, each of which is read as a word or a number
of its own. `strtok` writes its zeros into `line`, as the
library does; comments write theirs (`Zero`), and look only as far as the next one. `stage` is
the position in `main`; `fresh` says that `tempLine` is the line, so that strtok starts anew.
How `main` can end: `done` (exit 0), `failed` (exit 1), `aborted` (an assertion). Executing a
command is one step here; its events are the subject of `Orng`, which for its part takes any
sequence of commands.

`Controller` is `get_cmd_events` with the optional arguments of each request and the exceptions
of `int` and `float`; words that it does not convert go into the script as they are. `Session`
has the calls of `execute_script` one by one, each of which may raise, after which somebody may
start a controller again; orng run directly or by one of the calls of `su`, which may become orng, another
program or nothing; and an operator who runs scripts by hand. mozdevice and the shell of the
device are outside the repository: a push that fails may have left a file, `shellCheckOutput`
raises if the exit code is not zero.

`InputDevice` keeps what the kernel keeps: it drops events for axes and keys the device
does not have, moves to another slot only if the device has it, and shows the readers
(`seen`) the whole state at each `SYN_REPORT`. That readers see events in packets is how
evdev has delivered them since Linux 3.x; the kernels of the first devices passed them on
one by one. Fuzz filtering and the frames of slotless multi-touch devices (protocol A,
`SYN_MT_REPORT`) are left out: such a device is one with a single contact. `DevicesAssumption`
says that a device with several slots announces the axis that selects among them.

### OrngModule

`stage` is the program counter of `orng_init`, `add_device` and `orng_exit`; `i` their loop
counter; `indev` the static array; `cur` the local pointer of `add_device`. Memory is a
set of `Blocks` that are used again as soon as they are free, so that a stale pointer would
reach another device. Each call into the input core is one action with its failure beside
it. `kfree(absinfo)` and the assignment of NULL after it are two steps, because the input
core frees what the pointer says when the device goes. `Open` and `Close` are programs
using the device nodes; a device that is unregistered lives on until the last of them
closes it (the comment at `module.c:337` relies on that). The bits that `orng_setup_device`
copies decide nothing here (`SetupBits` has them); only the memory for the axis limits is
modelled. `module_param_array` refuses more names than the array has room for, which
`ParamsAssumption` states.

### MkDevInfo, SetupBits and Emulate

A description is kept as the set of the 1 bits of each array. `Queries` and `Sections` are the lists of
conditions of `read_devinfo` and `orng_setup_device` in the order of the code, each element one step that
succeeds, fails or is passed over; `Printed` holds those of `write_devinfo`. A failing query ends
mkdevinfo; one that is interrupted is made again, which changes nothing. `out` is the entry as the
compiler reads it: what is printed is positional, so `Rows` says at which index each byte lands. `Memory`
puts the arrays where the structure has them, so that reads past the end of an array (`TEST_ARRAY_BIT`,
`NBITS_IN_ARRAY`) find what lies there. The layout of `struct input_dev` is that of kernels with 4-byte
longs, as on the armv7 devices of the repository's README. A loop that runs on sets bits in the arrays
that follow (`Placed`) and behind the last of them, in other fields of the structure, which `spilled`
collects (`Spilled`). Names are present or absent, their characters are left out. A device without a name
makes mkdevinfo take the length of a null pointer: the model ends it as `crashed`.

## The runs

| Run | Question | Bounds |
|---|---|---|
| `orng_clean` | is everything right when nothing fails, does it take its time, and does it implement `Touchscreen`? | six devices (single touch, two and three slots, slots with sync, slotless 720p, keypad), 16 commands of 300 ms, 3 begun over 2 processes |
| `orng_faults` | what does the next gesture repair after failures, and does every command end? | two devices, 6 commands (a tap, a drag, a drag of −1 steps, a pinch, a keydown of `BTN_TOUCH`, a sleep), 3 begun over 2 processes, 2 faults of any kind at any event |
| `two_writers` | what can two processes leave behind? | two devices, a double tap, a drag, a pinch and a keydown of `BTN_TOUCH`, one command each |
| `module` | loading, failing and unloading | the real table, 8 parameter lists, 3 places, 3 blocks, 1 reader each; loads unbounded |
| `emulate` | what of a device survives mkdevinfo and the setup? | 69 devices: the first touchscreen of the table, four others, and one for each set of six event types; all sizes are the real ones |
| `emulate_same` | is the simulated device the original? (no) | the first touchscreen of the table |
| `session` | is what was asked for what is executed? | 41 requests, 11 calls of su, 402 documented scripts, 2844 others, in two of which the end of the buffer falls into a word; 2 requests, 1 exception survived, 1 script by hand; lines of 38 cells and 10 arguments |
| `script_comment` | is an empty block comment one? (no) | one command, a comment at each of its places |
| `orng_reset`, `orng_key`, `orng_drag_end`, `orng_restart` | do these lines of the README hold? (no) | as small as shows it |

The bounds are enough for the cases that matter: a command leaves behind nothing but the
current slot, the axis values and what is down, so that three commands cover a pinch (which
leaves slot 1) before a tap before anything; two processes cover a state inherited from a
run that was killed; two faults cover a lost press followed by a lost release. Three
places of `indev` give a first, a middle and a last failing device; three blocks make
memory run out when an old device is still open. 300 ms lie in the upper half of `usleep`'s word and are longer
than the events of any gesture of the script, so that a pacing that sleeps at all shows. The buffer of `session`
just fits its longest documented line (`JustFits`), and holds just the arguments of a pinch; other
scripts are longer than both. All strings of four cells in front of a command cover every way a
comment can begin, end, nest or fail to end there.

What they show. With no fault, for every script: between commands there is no contact in the kernel, and
neither a contact nor the button for its readers (`NoStuckContact`). The kernel's button is up as well,
with one exception: `keydown 330` presses it and the code does nothing about it, so that it stays down,
unreported, until something releases it; the property says that it takes a keydown to leave it down. A
multi-touch reader never sees the button without a contact (`ButtonHasContact`), fingers keep to their
slots (`FingersFollowPath`), no report shows a finger between two waypoints (`ReportedOnPath`) or beyond
its end (`NoOvershoot`). With faults: the next gesture that completes cleans up its own slots and the
button (`GestureHeals`); contacts left by a killed run in *other* slots stay, which is why it says no
more. All that it wrote was reported (`GestureReported`). `FreshContact`: unless an earlier process was
hurt, each press has an id no slot holds. A tap, a pinch and a sleep take the time they are given up to
what each step rounds off, and a drag is never late (`TakesItsTime`), but see below.

Of two processes that mix their events no gesture leaves the button down, for the kernel or for the
readers: if it is down when both are between commands, a keydown wrote it last, and the report of the
other process may have shown it (`SharedButtonReleased`). Nor do they leave a contact as long as slot 0
is the selected one (`SharedContactsReleased`), which it is until somebody pinches. With a pinch they
can: one process presses in slot 0, the other selects slot 1, and the release goes there. But slot 0 is
the only place where this happens (`LastSlotReleased`).

A script in the syntax of the README is executed as it is written (`AsWritten`); whatever a script holds,
no token is used twice (`NothingInvented`) and each step leaves less to do (`Advances`), so that every
script comes to an end: the run checks for deadlock, too. What `fgets` does with a line that is too long
is no exception, but changes what it means that a token stands in the script: a word at the end of the
buffer stands there as its two pieces, so that behind a long comment `sleep 2000` may be executed as
`sleep 20`. The controller goes on only when orng has executed its whole script, although arguments such
as `;` reach the script as they are (`PlayedAsAsked`), if their lines fit the buffer: the one exception
is an `su` that exits with success without having run it. It leaves a script behind only when it dies
over it (`LeftBehind`).

A device that goes through mkdevinfo keeps its id, names, limits, repeat rate and all arrays that fit one
row, and the first row of its keys (`RowsSurvive`). The states of switches and sounds are printed as they
are or not at all, which hangs on switches 5 and 10: the number of the event type is looked up among the
states of switches, and among those of sounds, behind which lie the switches'. The setup loses nothing of
an entry (`NothingLost`) and adds no keys (`KeysAsDescribed`), the latter only because the first two
arrays lie alike in both structures. Behind the arrays of the simulated device it sets nothing if the
entry has no states and no scan codes, and no repeat rate together with effects or switches
(`StaysInside`); with them it may. Of several entries with the name or id asked for, the first is taken
(`AsAsked`).

The inductive invariants of the proofs are checked by TLC as well: `IndInv`, `IdInv` and
`PathInv` in `orng_faults`, `TimedInv` in `orng_clean`, `SharedInv` in `two_writers`, `EmulateInv` in `emulate`,
`SessionInv` in `session`.

What the README of the repository says and the code does not do: `reset` clears one slot
(`ResetClearsCache`), `keydown` is not reported (`KeyDownReported`), a drag stops one step short of its
end and ignores its duration, as its average is infinite or not a number from the first step on
(`DragAsDocumented`), after a killed run the first press may be no new contact (`PressIsNewContact`), and
an empty block comment takes the rest of its line with it, without an error (`AsWritten` in
`script_comment`). "Lets you emulate arbitrary input devices" fails twice (`SameDevice`): `write_u8_buf`
leaves out every ninth byte (the entries in `devspec.h` have 86 of 96 bytes of `keybit`, so that the home
key 102 of the Otoro is 94 there), and the loop over `keybit` runs on into the axes.

**Fairness.** `orng_faults` assumes weak fairness of orng's own steps within a command: the next write
(delivered or failed) or the next return. The code justifies it: a write that is interrupted is retried,
every other outcome leads on, and nothing in a gesture waits for anybody. It assumes nothing of scripts,
starts or kills. The module's run assumes that the kernel runs the initialisation and the exit to their
ends (`WF` of `Module`), and nothing of the readers. No other run needs fairness: that scripts end is
shown by a measure that every step lowers. Deadlock is checked in the runs of the module and the session;
in those of `Orng` a script may end and the bounds run out, so the system may stop, as it does when a
device is set up or mkdevinfo has failed.

## The proofs

All for arbitrary devices, scripts, durations, bounds, tables, parameters and memory, from the assumptions on
the constants that the modules name. `TypeCorrect`, `ModuleTypeCorrect` and `EmulateTypeCorrect` are
type correctness; the other theorems, by module:

**`Orng_proofs`**: `Inductive`, `NothingStuck`, `IdsStayBelow`, `EveryPressIsFresh`. `NoStuckContact` is
not inductive: it says nothing while a gesture runs. `IndInv` says for every event of every primitive
which slots may be in contact: those of the fingers whose release has not been written yet (`Held`), and
for the readers those whose release has not been reported (`HeldSeen`); likewise for the button, which
may also be down because a keydown wrote it last (`keyed`); and that once a pinch has selected a slot it
is the finger's (`SlotChosen`). At the end of a command that set is empty. Each action is checked against
each part; the four sequences of events are dealt with once, by what stands at each place of them.
`FreshContact` follows from `IdInv`: all ids in use are below the next one, as long as the process is the
first or nothing has failed.

**`OrngPath_proofs`**: `PathInductive`, `AllIsReported`, `GesturesHeal`, `ButtonWithContact`,
`FingersKeepUp`, `ReportsOnPath`, `NeverPast`. `IndInv` bounds what may be down and knows nothing of a
gesture that inherits contacts from a killed run; `PathInv` says what must be there: for each finger,
whether its id has been written (`Tracked`), each of its coordinates (`Written`) and its report
(`Reported`), and what the kernel and the readers hold then, after how many moves. It speaks of one
command that nothing has disturbed since it began (`Sound`), so that it holds whatever failed before;
only `NotYetDown`, which the refinement needs, and `ButtonHasContact` ask for no fault at all. The proof
has two halves. Inside a primitive, `WriteEffect` lists what one event changes, and one lemma per
conjunct follows it. Between primitives, `Settled` (in the proof module) says what all fingers have in
common when a primitive is over, and each return leads from one such state to the next. `NeverPast` needs
that the steps of a path, rounded towards zero, do not add up to more than the path (`StepsBetween`).

The same module proves the refinement: `FaultlessPlays` (`Spec /\ [](faults = 0) => PlaysGestures`) and,
as an instance, `PlaysAsAsked` for `MaxFaults = 0`. With `IndInv` and `PathInv`, where the script has got
to determines what the readers see (`ScreenIs`), so that each action is matched with the step of
`Touchscreen` that makes the same difference. Faults are excluded because they break the promise: a lost
event shows up as a missing step or a finger that stays.

**`OrngTimed_proofs`**: `TimedInductive`, `CommandsTakeTheirTime`. `TimedInv` says at
each event that the clock shows the events written (`Sent`) and the pauses made (`Paused`), as functions
of the loop counters; at the end of a command the former are all its events and the latter its duration.
From its first move on a drag's average is no number (`NoAverage`), so that a drag makes no pause between
its moves: that a drag is not late holds because it never sleeps. Durations that wrap around in `usleep` are
left out of the claim (`Fits`).

**`TwoOrng_proofs`**: `SharedInductive`, `ButtonIsShared`, `ContactsAreShared`, `LastSlotIsShared`.
Neither process keeps `IndInv` when the other writes. `SharedInv` asks less of each and more of both:
whatever a gesture has put down, one of the two has yet to lift it (`SomeoneLifts`), or to select the
slot where it is (`SomeoneReturns`). The lemmas about the one that writes are those of `Orng_proofs`,
taken a second time for the variables of the second process; the other keeps what it promised because
that depends on its own state alone.

**`OrngModule_proofs`**: `LoadsAllOrNothing`, `LoadsAsAsked`, `BlocksOwned`, `NothingReleasedTwice`,
`ReadersAreSafe`, `LimitsAreKept`, all from `ModuleInv`: the array holds the registered
devices, each once and only below the loop counter (`ArrayOK`); they are the ones asked for
(`ProgressOK`); `add_device` has a block of its own (`CurOK`); every other block is free or open
(`BlockOK`). Distinctness in `ArrayOK` is what keeps the undoing loop from meeting a device twice.

**`Emulate_proofs`**: `EmulateInductive`, `PrintsWhatItRead`, `SetupLosesNothing`, `SetupAddsNoKey`,
`SetupStaysInside`. `EmulateInv` adds to the properties how far the two programs are: each field that has
been asked for is the device's, and the others are empty (`ReadSoFar`); each section that has been copied
is in the simulated device (`CopiedSoFar`); where event types and keys lie, its memory agrees with the
entry (`KeysInPlace`); and what was set behind its arrays comes from a section that was copied
(`SpilledSoFar`). All rests on the layout: a bit of the description lies in one array only (`BitAt`),
printing in rows leaves the first row alone and moves nothing up (`RowsKeep`, `RowsShrink`), and both
structures begin with the same two arrays. That the setup stays inside is arithmetic on what lies within
reach of each loop: behind an array of the description, as far as the loop goes, there are only arrays
that are empty or end up inside.

**`Session_proofs`**: `SessionInductive`, `FewLeftBehind`, `AlwaysAdvances`, `NothingIsInvented`,
`PlaysAllAsAsked`, for every file, request, user and call of su, every size of the buffer above three
cells and of the array of arguments, and every way to cut words at the buffer's end. Of `Find` and `Skip`
the proofs know that they return the first place of a kind (`FindPlace`, `SkipPlace`). `SessionInv` says
of the reader that what is left of its line is what was read of the file last, except for zeros
(`LineInv`), that no argument is stored behind the array (`ReaderTypes`), and of the controller that the
lines of a request are complete commands (`Commands`). From it:

* `AlwaysAdvances`: a token lies behind the one before, and a comment takes at least its own, so that
  `Unread` falls with every step.
* `NothingIsInvented`: `WordsInv` says that what has been executed, with the command at hand, is
  `Embeds`-embedded in the cells taken so far. A cut changes only cells that have not been taken.
* `PlaysAllAsAsked`: while the controller waits, orng `Follows` the request: it has executed as many
  commands as it has read lines. A word of a request may be `;`, `{` or `#`. Then words are lost to a
  comment or a command ends too soon, and what the proof shows is that orng never makes up for it
  (`Lost`): it has too few arguments, and is aborted. The lines of the request fit the buffer by
  hypothesis (`Fitting`): one that does not could have its last number cut, and a command be executed
  with a part of it.

What the model defines by recursion (`FlattenSeq`, `Within`) is a recursive function, and the induction
over it is an argument about the least number for which the claim fails (`Least`, from the
well-foundedness of finite sets): the library's induction theorems take an operator, which the provers
cannot instantiate.

**`Document_proofs`**: `ExecutedAsWritten`, for all documents that are `WellFormed`. It is a hypothesis
because `script_comment` has documents with an empty comment, for which `AsWritten` is false; the
documents of `session` satisfy it, which TLC evaluates (`AllWellFormed`). `WellFormed` is the README's
syntax with what the code adds to it: a comment is not empty and ends at its first brace, there are at
most `MAX_COMMAND_ARGS` arguments, and a line fits the buffer. Where a document's lines lie in the file
(`DocumentLaid`), and its commands in a line (`LineShapes`), is worked out once. The invariant then says
where orng is: in which line, how many words of which command it has taken, and whether it has passed
that command's comment (`Reached`); and that the rest of the line still spells the rest of the words up
to the remark (`Legible`), although strtok and the comments have written zeros in front of it. A comment
is passed over as a whole (`CommentPassed`), the next token is the next word (`NextWord`), and a line
without a word has none (`NothingThere`).

Only model-checked: liveness (`CommandEnds`, `LoadEnds`), which is out of the prover's reach. The lines of
the documentation that do not hold have runs and no theorems.

## Not modelled

What is left of the system:

* the hardware driver as another writer on the device, protocol A frames and fuzz in the input core;
* what the bits that are set behind the arrays of `struct input_dev` do to the fields there;
* option parsing of orng (`-i`, `-t`) and what it prints;
* an interrupted sleep: `usleep` is not repeated, and no signal handler is installed that would interrupt it.

The event writer has no module of its own: a write to an input device takes whole events, so that of its
loop only the failure and the repetition remain, and the latter changes nothing.

Not planned: `linux_input.h` (the kernel's header), the bits of `devspec.h` (data), build files.
