----------------------------- MODULE MCLiveTasks -----------------------------
(***************************************************************************)
(* Small instances of LiveTasks: one page (pages share only the tables), a  *)
(* task it shows and one of another service of the church.                  *)
(***************************************************************************)
EXTENDS LiveTasks

CONSTANTS g1, s1, s2, t1, t2

MCServiceOf == [t \in Task |-> IF t = t2 THEN s2 ELSE s1]
MCShows == [g \in Page |-> s1]
=============================================================================
