------------------------------ MODULE RunPhases -------------------------------
(***************************************************************************)
(* What the run state promises its readers: one record that comes into      *)
(* being CREATED in generation 0 and changes only by a transition RunStore  *)
(* allows, each change taking the next sequence number.  Nothing is said    *)
(* of files, of processes or of when a change happens.                      *)
(***************************************************************************)
EXTENDS RunState

VARIABLE run

Init == run = Missing

Create == run = Missing /\ run' = created

Change == Readable(run) /\ Readable(run') /\ Derives(run, run')

Next == Create \/ Change

Spec == Init /\ [][Next]_run
===============================================================================
