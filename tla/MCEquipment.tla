----------------------------- MODULE MCEquipment -----------------------------
(***************************************************************************)
(* A small instance of Equipment; requests are interchangeable.             *)
(***************************************************************************)
EXTENDS Equipment, TLC

Symmetry == Permutations(Request) \cup Permutations(Reservation)
=============================================================================
