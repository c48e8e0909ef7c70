---------------------------- MODULE OrngModule ----------------------------
(***************************************************************************)
(* The life of the kernel module: it is loaded with a list of devices to   *)
(* simulate, registers them one by one and is unloaded again.  Any step of *)
(* the initialisation may fail, and then everything done so far is undone. *)
(* Meanwhile programs open and close the devices that are registered.      *)
(*                                                                         *)
(* Memory is a set of blocks that may be used again once they are free, so *)
(* that a pointer kept for too long points at somebody else's device.      *)
(***************************************************************************)
EXTENDS DevInfo

CONSTANTS
  ORNG_NDEVICES,   \* the most devices the module can simulate
  Params,          \* the module parameters it may be loaded with
  Blocks,          \* the blocks of memory for input devices
  Null,            \* the null pointer
  MaxReaders       \* bound: programs that have a device open

ParamsType == [devices: Seq(STRING), names: Seq(STRING), id: input_id]

ASSUME SizeAssumption   == ORNG_NDEVICES \in Nat \ {0} /\ MaxReaders \in Nat
ASSUME ParamsAssumption ==
  /\ Params \subseteq ParamsType
  /\ \A p \in Params : Len(p.devices) <= ORNG_NDEVICES /\ Len(p.names) <= ORNG_NDEVICES
ASSUME BlocksAssumption == Null \notin Blocks

VARIABLES
  param,    \* the parameters of the current load
  stage,    \* the next step of the module, "out" when it is not loaded
  i,        \* the loop counter of orng_init and orng_exit
  indev,    \* the static array of the registered devices
  cur,      \* the device add_device is working on
  heap      \* for each block: its use, its entry, its absinfo, its readers

loadVars == <<param, stage, i, indev, cur>>
vars == <<loadVars, heap>>

Indices == 0..(ORNG_NDEVICES - 1)
Adding  == {"setup", "register", "kfree", "clear", "free"}
Undoing == {"cleanup", "exit"}
Stages  == {"out", "find", "allocate", "live"} \cup Adding \cup Undoing

Block == [use: {"free", "allocated", "registered", "unregistered"},
          entry: 0..Len(Table), absinfo: {"null", "live", "dangling"},
          readers: 0..MaxReaders]
FreeBlock == [use |-> "free", entry |-> 0, absinfo |-> "null", readers |-> 0]

TypeOK ==
  /\ param \in Params
  /\ stage \in Stages
  /\ i \in 0..ORNG_NDEVICES
  /\ indev \in [Indices -> Blocks \cup {Null}]
  /\ cur \in Blocks \cup {Null}
  /\ heap \in [Blocks -> Block]

Init ==
  /\ param \in Params
  /\ stage = "out" /\ i = 0 /\ cur = Null
  /\ indev = [k \in Indices |-> Null]
  /\ heap = [b \in Blocks |-> FreeBlock]

---------------------------------------------------------------------------
(* What the module is asked for.                                           *)

\* Canonical names come before names, names before the id.
Count(p) ==
  IF p.devices # << >> THEN Len(p.devices) ELSE IF p.names # << >> THEN Len(p.names) ELSE 1

Wanted(p, k) ==
  IF p.devices # << >> THEN orng_find_device_by_cname(p.devices[k + 1])
  ELSE IF p.names # << >> THEN orng_find_device_by_name(p.names[k + 1])
  ELSE orng_find_device_by_id(p.id)

---------------------------------------------------------------------------
(* orng_init: one device after the other.                                  *)

Goto(st) == stage' = st /\ UNCHANGED <<param, i, indev, cur>>

\* A variant that does not look at the last device.
Cleanup_SkipsLast ==
  /\ stage' = "cleanup" /\ i' = (IF i = 0 THEN 0 ELSE i - 1) /\ cur' = Null
  /\ UNCHANGED <<param, indev>>
Cleanup  == stage' = "cleanup" /\ i' = ORNG_NDEVICES /\ cur' = Null /\ UNCHANGED <<param, indev>>

\* The static data of the module is new with every load.
Insmod ==
  /\ stage = "out" /\ stage' = "find"
  /\ param' \in Params
  /\ i' = 0 /\ cur' = Null /\ indev' = [k \in Indices |-> Null]
  /\ UNCHANGED heap

orng_init ==
  /\ stage = "find"
  /\ IF i = Count(param) THEN Goto("live")
     ELSE IF Wanted(param, i) = 0 THEN Cleanup
     ELSE Goto("allocate")
  /\ UNCHANGED heap

---------------------------------------------------------------------------
(* add_device.                                                             *)

input_allocate_device ==
  /\ stage = "allocate"
  /\ \/ \E b \in Blocks :
          /\ heap[b].use = "free"
          /\ heap' = [heap EXCEPT ![b] = [FreeBlock EXCEPT !.use = "allocated"]]
          /\ cur' = b /\ stage' = "setup"
          /\ UNCHANGED <<param, i, indev>>
     \/ Cleanup /\ UNCHANGED heap

\* A variant that ignores that there is no memory for the limits.
orng_setup_device_Unchecked ==
  /\ stage = "setup"
  /\ \E a \in {"live", "null"} :
       heap' = [heap EXCEPT ![cur].entry = Wanted(param, i), ![cur].absinfo = a]
  /\ Goto("register")

\* The description is copied; the limits of the axes need memory of their own.
orng_setup_device ==
  /\ stage = "setup"
  /\ LET e == Wanted(param, i) IN
     \/ /\ heap' = [heap EXCEPT ![cur].entry = e,
                                ![cur].absinfo = IF Table[e].abs THEN "live" ELSE "null"]
        /\ Goto("register")
     \/ /\ Table[e].abs
        /\ heap' = [heap EXCEPT ![cur].entry = e]
        /\ Goto("free")

input_register_device ==
  /\ stage = "register"
  /\ \/ /\ heap' = [heap EXCEPT ![cur].use = "registered"]
        /\ indev' = [indev EXCEPT ![i] = cur]
        /\ i' = i + 1 /\ cur' = Null /\ stage' = "find"
        /\ UNCHANGED param
     \/ Goto("kfree") /\ UNCHANGED heap

\* A variant that leaves the pointer.
kfree_absinfo_Keeps ==
  /\ stage = "kfree"
  /\ heap' = [heap EXCEPT ![cur].absinfo = IF @ = "null" THEN "null" ELSE "dangling"]
  /\ Goto("free")

\* Registration has failed: absinfo goes, and then the pointer to it.
kfree_absinfo ==
  /\ stage = "kfree"
  /\ heap' = [heap EXCEPT ![cur].absinfo = IF @ = "null" THEN "null" ELSE "dangling"]
  /\ Goto("clear")

clear_absinfo ==
  /\ stage = "clear"
  /\ heap' = [heap EXCEPT ![cur].absinfo = "null"]
  /\ Goto("free")

\* A variant that forgets the device.
input_free_device_Leaks == stage = "free" /\ Cleanup /\ UNCHANGED heap

\* The input core frees the device, and the absinfo it still points to.
input_free_device ==
  /\ stage = "free"
  /\ heap' = [heap EXCEPT ![cur] = FreeBlock]
  /\ Cleanup

add_device ==
  \/ input_allocate_device \/ orng_setup_device \/ input_register_device
  \/ kfree_absinfo \/ clear_absinfo \/ input_free_device

---------------------------------------------------------------------------
(* Undoing: the end of a failed orng_init, and orng_exit.                  *)

\* Variants: a loop that starts one too far, one that frees a device in use, and one
\* that stops at the first empty place.
Rmmod_OneMore ==
  /\ stage = "live" /\ stage' = "exit" /\ i' = ORNG_NDEVICES + 1
  /\ UNCHANGED <<param, indev, cur, heap>>
Unregistered_Frees(b) == [FreeBlock EXCEPT !.readers = heap[b].readers]

Rmmod ==
  /\ stage = "live" /\ stage' = "exit" /\ i' = ORNG_NDEVICES
  /\ UNCHANGED <<param, indev, cur, heap>>

\* A device goes when it is unregistered and nobody has it open any more.
Unregistered(b) ==
  IF heap[b].readers = 0 THEN FreeBlock ELSE [heap[b] EXCEPT !.use = "unregistered"]

UnregisterNext_Stops ==
  /\ stage \in Undoing /\ i > 0
  /\ i' = (IF indev[i - 1] = Null THEN i ELSE i - 1)
  /\ heap' = IF indev[i - 1] = Null THEN heap
             ELSE [heap EXCEPT ![indev[i - 1]] = Unregistered(indev[i - 1])]
  /\ UNCHANGED <<param, stage, indev, cur>>

UnregisterNext ==
  /\ stage \in Undoing /\ i > 0
  /\ i' = i - 1
  /\ heap' = IF indev[i - 1] = Null THEN heap
             ELSE [heap EXCEPT ![indev[i - 1]] = Unregistered(indev[i - 1])]
  /\ UNCHANGED <<param, stage, indev, cur>>

Unloaded ==
  /\ stage \in Undoing /\ i = 0
  /\ Goto("out") /\ UNCHANGED heap

---------------------------------------------------------------------------
(* The programs that use the devices.                                      *)

Open(b) ==
  /\ heap[b].use = "registered" /\ heap[b].readers < MaxReaders
  /\ heap' = [heap EXCEPT ![b].readers = @ + 1]
  /\ UNCHANGED loadVars

Closed(b) ==
  IF heap[b].use = "unregistered" /\ heap[b].readers = 1 THEN FreeBlock
  ELSE [heap[b] EXCEPT !.readers = @ - 1]

Close(b) ==
  /\ heap[b].readers > 0
  /\ heap' = [heap EXCEPT ![b] = Closed(b)]
  /\ UNCHANGED loadVars

---------------------------------------------------------------------------

Module == orng_init \/ add_device \/ UnregisterNext \/ Unloaded
Reader == \E b \in Blocks : Open(b) \/ Close(b)

Next == Insmod \/ Rmmod \/ Module \/ Reader
Spec == Init /\ [][Next]_vars

\* The kernel runs a module's initialisation and exit to their ends.
FairSpec == Spec /\ WF_vars(Module)

---------------------------------------------------------------------------
(* Safety.                                                                 *)

\* Once the module is out, and already when its initialisation has failed, none
\* of its devices is registered; while it is in use, as many as were asked for are.
AllOrNothing ==
  /\ stage = "out" => \A b \in Blocks : heap[b].use \notin {"allocated", "registered"}
  /\ stage = "live" =>
       /\ \A k \in 0..(Count(param) - 1) :
            indev[k] # Null /\ heap[indev[k]].use = "registered"
       /\ \A b \in Blocks : heap[b].use = "registered" =>
            \E k \in 0..(Count(param) - 1) : indev[k] = b

\* The devices in use are the ones that were asked for, in that order, by the names
\* if there are any and by the id if not: of several entries with that name or id the
\* first one in the table.
IsAskedFor(d, k) ==
  IF param.devices # << >> THEN d.cname = param.devices[k + 1]
  ELSE IF param.names # << >> THEN d.name = param.names[k + 1]
  ELSE d.id = param.id
AsAsked ==
  stage = "live" =>
    \A k \in 0..(Count(param) - 1) :
      LET e == heap[indev[k]].entry
      IN  /\ IsAskedFor(Table[e], k)
          /\ \A other \in 1..(e - 1) : ~IsAskedFor(Table[other], k)

\* Every block that is not free has exactly one owner who will free it: add_device,
\* the array of registered devices, or the programs that still have it open.
Owned ==
  \A b \in Blocks :
    CASE heap[b].use = "free"         -> heap[b] = FreeBlock
      [] heap[b].use = "allocated"    -> stage \in Adding /\ b = cur
      [] heap[b].use = "registered"   -> \E k \in Indices : indev[k] = b
      [] heap[b].use = "unregistered" -> heap[b].readers > 0

\* Nothing is freed or unregistered twice: the loops that undo meet devices that
\* are registered, and add_device never frees a device whose absinfo is gone.
ReleasedOnce ==
  /\ stage \in Undoing /\ i > 0 /\ indev[i - 1] # Null =>
       heap[indev[i - 1]].use = "registered" /\ heap[indev[i - 1]].absinfo # "dangling"
  /\ stage = "free" => heap[cur].use = "allocated" /\ heap[cur].absinfo # "dangling"

\* A device that a program has open is never freed under it.
ReaderSafe ==
  \A b \in Blocks : heap[b].readers > 0 => heap[b].use \in {"registered", "unregistered"}

\* A registered device has the limits of its axes if and only if it has axes.
LimitsKept ==
  \A b \in Blocks : heap[b].use = "registered" =>
    (heap[b].absinfo = "live" <=> Table[heap[b].entry].abs)

---------------------------------------------------------------------------
(* The inductive invariant behind these.                                   *)

Loading == stage \in {"find", "allocate", "live"} \cup Adding

\* The array holds exactly the registered devices, up to the loop counter, each once.
ArrayOK ==
  stage # "out" =>
    /\ \A k \in Indices : indev[k] # Null /\ k < i => heap[indev[k]].use = "registered"
    /\ \A k, l \in Indices : indev[k] = indev[l] /\ indev[k] # Null => k = l

\* What has been registered so far is what was asked for, and the rest is empty.
ProgressOK ==
  Loading =>
    /\ i <= Count(param)
    /\ stage = "live" => i = Count(param)
    /\ stage \notin {"find", "live"} => i < Count(param) /\ Wanted(param, i) # 0
    /\ \A k \in Indices :
         /\ k < i => /\ indev[k] # Null
                     /\ heap[indev[k]].entry = Wanted(param, k) /\ Wanted(param, k) # 0
         /\ k >= i => indev[k] = Null

CurOK ==
  /\ IF stage \in Adding THEN cur # Null /\ heap[cur].use = "allocated" ELSE cur = Null
  /\ stage = "register" =>
       /\ heap[cur].entry = Wanted(param, i)
       /\ heap[cur].absinfo = "live" <=> Table[heap[cur].entry].abs

BlockOK(b) ==
  /\ heap[b].use = "free" => heap[b] = FreeBlock
  /\ heap[b].use = "allocated" => stage \in Adding /\ b = cur /\ heap[b].readers = 0
  /\ heap[b].use = "registered" =>
       /\ stage # "out" /\ \E k \in Indices : k < i /\ indev[k] = b
       /\ heap[b].absinfo = "live" <=> Table[heap[b].entry].abs
  /\ heap[b].use = "unregistered" => heap[b].readers > 0
  /\ heap[b].absinfo = "dangling" => stage = "clear" /\ b = cur

ModuleInv == TypeOK /\ ArrayOK /\ ProgressOK /\ CurOK /\ \A b \in Blocks : BlockOK(b)

---------------------------------------------------------------------------
(* Liveness.                                                               *)

\* Loading and unloading end, whatever fails.
LoadEnds == stage \notin {"out", "live"} ~> stage \in {"out", "live"}

===========================================================================
