------------------------------ MODULE MCRoster ------------------------------
(* Instances of Roster for TLC. *)
EXTENDS Roster, TLC

CONSTANTS v1, v2, r1, r2, s1, s2, band,
          MaxOffers,    \* bound on the rows of availability; UNAVAILABLE ones count twice
          MaxRows       \* bound on the rest of the tables but roles, calls at work and days gone by;
                        \* skills count twice, edited profiles three times

\* Two services ten days apart: within eight weeks and not within one.
days == s1 :> 0 @@ s2 :> 10
members == {<<v1, band>>, <<v2, band>>}
ministries == [r \in Role |-> band]
rules == {{0, 10}}
sizes == {<<2, 2>>}
reliability == [v \in Volunteer |-> 85]

FewOffers == BagCardinality(availability)
             + Cardinality({a \in BagToSet(availability) : a.answer = "UNAVAILABLE"}) <= MaxOffers

FewRows == Cardinality(DOMAIN runs) + BagCardinality(assigned) + Cardinality(DOMAIN solve) + (IF now = 0 THEN 0 ELSE 1)
           + 2 * (Cardinality(DOMAIN loc) + Cardinality(DOMAIN level) + Cardinality(DOMAIN needs))
           + 3 * (Cardinality(trained) + Cardinality({v \in Volunteer : preferred[v] # {}})
                  + Cardinality({v \in Volunteer : status[v] # "ACTIVE"})) <= MaxRows

Few == FewOffers /\ FewRows
Symmetric == Permutations(Volunteer) \cup Permutations(Role) \cup Permutations(Request) \cup Permutations(Run)
=============================================================================
