---------------------------- MODULE MCOnboarding ----------------------------
(***************************************************************************)
(* A small instance of Onboarding; requests and addresses are               *)
(* interchangeable.                                                         *)
(***************************************************************************)
EXTENDS Onboarding, TLC

Symmetry == Permutations(Request) \cup Permutations(Email)
=============================================================================
