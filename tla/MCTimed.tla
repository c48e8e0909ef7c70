------------------------------ MODULE MCTimed ------------------------------
(***************************************************************************)
(* The scripts of MCOrng with durations.                                   *)
(***************************************************************************)
EXTENDS MCOrng, OrngTimed

\* A duration that no gesture's events exceed, in the upper half of usleep's word.
AllDurations == {300}

Drags == {Drag(<<0, 4>>, <<7, 1>>, 2), Drag(<<3, 3>>, <<1, 4>>, 3)}

===========================================================================
