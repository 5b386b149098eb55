--------------------------- MODULE MCWebMessaging ---------------------------
(* Instances of WebMessaging for TLC. *)
EXTENDS WebMessaging, TLC

CONSTANTS r1, r2, u1, u2,
          MaxTold       \* bound on the members that calls at work read, together

\* One page of each kind: the other lists have the descriptor of the volunteers'.
kinds == Page \ {"home", "ministries", "equipment", "services"}

Few == Cardinality(call[r1].to) + Cardinality(call[r2].to) <= MaxTold
Symmetric == Permutations(Request) \cup Permutations(User)
=============================================================================
