---------------------------- MODULE MCScheduling ----------------------------
(***************************************************************************)
(* Small instances of Scheduling: two services on one day whose roles       *)
(* compete for the same volunteers.  r1 requires nobody (and is filled all  *)
(* the same), r2 requires more volunteers than it allows, r3 takes two.     *)
(***************************************************************************)
EXTENDS Scheduling, TLC

CONSTANTS v1, v2, v3, s1, s2, r1, r2, r3, d1

MCServiceOf == [r \in Role |-> IF r = r3 THEN s2 ELSE s1]
MCDateOf == [s \in Service |-> d1]
MCQualified ==
    [r \in Role |-> Volunteer \cap CASE r = r1 -> {v1, v2, v3}
                                     [] r = r2 -> {v2, v3}
                                     [] r = r3 -> {v1, v3}]
MCMinRequired == [r \in Role |-> CASE r = r1 -> 0 [] r = r2 -> 2 [] r = r3 -> 2]
MCMaxAllowed == [r \in Role |-> IF r = r3 THEN 2 ELSE 1]

Symmetry == Permutations(Request)
=============================================================================
