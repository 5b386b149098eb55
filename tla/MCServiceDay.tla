---------------------------- MODULE MCServiceDay ----------------------------
(* Instances of ServiceDay for TLC. *)
EXTENDS ServiceDay, TLC

CONSTANT MaxRows        \* bound on the rows of all the tables and the calls at work

\* A service that repeats every moment; its copies are those without a rule.
created == {[date |-> 0, start |-> 0, rule |-> 1]}

FewRows == Len(services) + Len(runs) + Len(instances) + Cardinality(DOMAIN attendance)
           + Cardinality(DOMAIN loc) <= MaxRows

Symmetric == Permutations(Volunteer) \cup Permutations(Item) \cup Permutations(Request)
=============================================================================
