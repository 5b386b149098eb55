---------------------------- MODULE RosterProofs ----------------------------
(***************************************************************************)
(* Proofs about Roster, for any volunteers, services, skills and clock.      *)
(***************************************************************************)
EXTENDS Roster, TLAPS, FiniteSetTheorems

-----------------------------------------------------------------------------
(* Numbers: a finite set of them has a place for each rank, so a least and a *)
(* greatest one, and what holds of 0 and of each next number holds of all.   *)

Rank(D, d) == Cardinality({e \in D : e < d})

\* A finite set of numbers has an i-th one: ranks are distinct, and as many as
\* there are places.
LEMMA RanksOf ==
    ASSUME NEW D \in SUBSET Nat, IsFiniteSet(D), NEW i \in 1..Cardinality(D)
    PROVE  \E d \in D : Rank(D, d) = i - 1
<1>. DEFINE places == 0..(Cardinality(D) - 1)
            at == [d \in D |-> Rank(D, d)]
<1>0. Cardinality(D) \in Nat
  BY FS_CardinalityType
<1>1. \A d \in D : /\ IsFiniteSet({e \in D : e < d})
                   /\ Rank(D, d) \in Nat /\ Rank(D, d) < Cardinality(D)
  <2>. SUFFICES ASSUME NEW d \in D
                PROVE  /\ IsFiniteSet({e \in D : e < d})
                       /\ Rank(D, d) \in Nat /\ Rank(D, d) < Cardinality(D)
    OBVIOUS
  <2>. DEFINE below == {e \in D : e < d}
  <2>1. below \in SUBSET D /\ d \notin below
    OBVIOUS
  <2>. HIDE DEF below
  <2>2. IsFiniteSet(below) /\ Cardinality(below) <= Cardinality(D) /\ Cardinality(below) # Cardinality(D)
    BY <2>1, FS_Subset
  <2>3. Cardinality(below) \in Nat
    BY <2>2, FS_CardinalityType
  <2>. QED
    BY <2>2, <2>3, <1>0 DEF Rank, below
<1>2. \A c, d \in D : c < d => Rank(D, c) # Rank(D, d)
  <2>. SUFFICES ASSUME NEW c \in D, NEW d \in D, c < d PROVE Rank(D, c) # Rank(D, d)
    OBVIOUS
  <2>. DEFINE low == {e \in D : e < c}
              high == {e \in D : e < d}
  <2>1. (\A e \in D : e < c => e < d) /\ ~(c < c)
    OBVIOUS
  <2>2. low \in SUBSET high /\ c \in high /\ c \notin low
    BY <2>1, Zenon
  <2>3. IsFiniteSet(high)
    BY <1>1
  <2>. HIDE DEF low, high
  <2>4. Cardinality(low) # Cardinality(high)
    BY <2>2, <2>3, FS_Subset
  <2>. QED
    BY <2>4 DEF Rank, low, high
<1>3. at \in Injection(D, places)
  <2>1. at \in [D -> places]
    <3>1. \A d \in D : Rank(D, d) \in Nat /\ Rank(D, d) < Cardinality(D)
      BY <1>1, Zenon
    <3>2. \A d \in D : Rank(D, d) \in places
      BY <1>0, <3>1
    <3>. QED
      BY <3>2, Zenon
  <2>2. \A c, d \in D : c = d \/ c < d \/ d < c
    OBVIOUS
  <2>3. \A c, d \in D : Rank(D, c) = Rank(D, d) => c = d
    BY <1>2, <2>2, Zenon
  <2>4. \A c, d \in DOMAIN at : at[c] = at[d] => c = d
    BY <2>3
  <2>. HIDE DEF at
  <2>. QED
    BY <2>1, <2>4 DEF Injection, IsInjective
<1>4. IsFiniteSet(places) /\ Cardinality(places) = Cardinality(D)
  <2>1. 0 \in Int /\ Cardinality(D) - 1 \in Int
    BY <1>0
  <2>2. /\ IsFiniteSet(places)
        /\ Cardinality(places) = IF 0 > Cardinality(D) - 1 THEN 0 ELSE (Cardinality(D) - 1) - 0 + 1
    BY <2>1, FS_Interval
  <2>. QED
    BY <1>0, <2>2
<1>. HIDE DEF places
<1>5. at \in Surjection(D, places)
  BY <1>3, <1>4, FS_Injection
<1>6. i - 1 \in places
  BY <1>0 DEF places
<1>7. \E d \in D : at[d] = i - 1
  BY <1>5, <1>6 DEF Surjection
<1>. QED
  BY <1>7


LEMMA LeastOf ==
    ASSUME NEW S \in SUBSET Nat, S # {}
    PROVE  \E m \in S : \A n \in S : m <= n
<1>1. PICK k \in S : TRUE
  OBVIOUS
<1>. DEFINE D == {n \in S : n <= k}
<1>2. D \in SUBSET Nat /\ \A n \in D : n <= k
  OBVIOUS
<1>3. IsFiniteSet(D)
  BY <1>1, <1>2, FS_BoundedSetOfNaturals
<1>4. k \in D
  BY <1>1
<1>5. Cardinality(D) \in Nat /\ Cardinality(D) # 0
  BY <1>3, <1>4, FS_CardinalityType, FS_EmptySet
<1>6. 1 \in 1..Cardinality(D)
  BY <1>5
<1>. HIDE DEF D
<1>7. PICK m \in D : Rank(D, m) = 1 - 1
  BY <1>2, <1>3, <1>6, RanksOf
<1>8. {e \in D : e < m} = {}
  <2>1. IsFiniteSet({e \in D : e < m})
    BY <1>3, FS_Subset
  <2>2. Cardinality({e \in D : e < m}) = 0
    BY <1>7 DEF Rank
  <2>. QED
    BY <2>1, <2>2, FS_EmptySet
<1>9. m \in S /\ m \in Nat /\ k \in Nat /\ m <= k
  BY <1>1, <1>7 DEF D
<1>10. ASSUME NEW n \in S PROVE m <= n
  <2>1. CASE n <= k
    <3>1. n \in D /\ n \in Nat
      BY <2>1 DEF D
    <3>2. ~(n < m)
      BY <1>8, <3>1
    <3>. QED
      BY <1>9, <3>1, <3>2
  <2>2. CASE ~(n <= k)
    BY <1>9, <2>2
  <2>. QED
    BY <2>1, <2>2
<1>. QED
  BY <1>9, <1>10

\* Induction over a set of numbers.
LEMMA SetInduction ==
    ASSUME NEW S, 0 \in S, \A n \in Nat : n \in S => n + 1 \in S
    PROVE  \A n \in Nat : n \in S
<1>. DEFINE C == {n \in Nat : n \notin S}
<1>. SUFFICES ASSUME C # {} PROVE FALSE
  OBVIOUS
<1>1. PICK m \in C : \A n \in C : m <= n
  BY LeastOf
<1>2. m \in Nat /\ m # 0 /\ m \notin S
  BY <1>1
<1>3. m - 1 \in Nat /\ m - 1 \notin C
  BY <1>1, <1>2
<1>4. (m - 1) + 1 \in S
  BY <1>3
<1>. QED
  BY <1>2, <1>4

\* A finite set of numbers that is not empty has a greatest one: the last rank.
LEMMA GreatestOf ==
    ASSUME NEW S \in SUBSET Nat, IsFiniteSet(S), S # {}
    PROVE  \E m \in S : \A n \in S : n <= m
<1>1. Cardinality(S) \in Nat /\ Cardinality(S) # 0
  BY FS_CardinalityType, FS_EmptySet
<1>2. PICK m \in S : Rank(S, m) = Cardinality(S) - 1
  <2>1. Cardinality(S) \in 1..Cardinality(S)
    BY <1>1
  <2>. QED
    BY <2>1, RanksOf
<1>3. ASSUME NEW n \in S, m < n PROVE FALSE
  <2>. DEFINE below == {e \in S : e < m}
              two == below \cup {m}
  <2>1. below \in SUBSET S /\ m \notin below /\ n \notin two /\ two \in SUBSET S
    BY <1>3
  <2>2. IsFiniteSet(below) /\ Cardinality(below) = Cardinality(S) - 1
    BY <1>2, <2>1, FS_Subset DEF Rank
  <2>. HIDE DEF below
  <2>3. Cardinality(two) = Cardinality(S)
    <3>1. Cardinality(two) = Cardinality(below) + 1
      BY <2>1, <2>2, FS_AddElement
    <3>. QED
      BY <1>1, <2>2, <3>1
  <2>. HIDE DEF two
  <2>4. two = S
    BY <2>1, <2>3, FS_Subset
  <2>. QED
    BY <2>1, <2>4
<1>4. \A n \in S : n <= m
  BY <1>3
<1>. QED
  BY <1>4

LEMMA QuotientIs ==
    ASSUME NEW x \in Nat, NEW d \in Nat \ {0}
    PROVE  x \div d \in Nat /\ (x \div d) * d <= x /\ x < (x \div d + 1) * d
OBVIOUS

LEMMA Products ==
    ASSUME NEW x \in Nat, NEW y \in Nat, NEW z \in Nat, x <= y
    PROVE  x * z <= y * z
OBVIOUS

LEMMA QuotientsOrdered ==
    ASSUME NEW x \in Nat, NEW y \in Nat, NEW d \in Nat \ {0}, NEW e \in Nat \ {0}, x * e <= y * d
    PROVE  x \div d <= y \div e
<1>. DEFINE q == x \div d
            r == y \div e
<1>1. q \in Nat /\ q * d <= x
  BY QuotientIs
<1>2. r \in Nat /\ y < (r + 1) * e
  BY QuotientIs
<1>. HIDE DEF q, r
<1>. SUFFICES ASSUME r < q PROVE FALSE
  BY <1>1, <1>2 DEF q, r
<1>3. (q * d) * e <= x * e
  BY <1>1
<1>4. (r + 1) * e <= q * e
  BY <1>1, <1>2
<1>5. y < q * e
  BY <1>1, <1>2, <1>4
<1>6. y * d < (q * e) * d
  BY <1>1, <1>5
<1>7. (q * e) * d = (q * d) * e
  BY <1>1
<1>. QED
  BY <1>1, <1>3, <1>6, <1>7

-----------------------------------------------------------------------------
(* Sums over a finite set: the fold takes one element at a time. *)

Chosen(s) == CHOOSE x \in s : TRUE
SumStep(f, g, s) == IF s = {} THEN 0 ELSE f[Chosen(s)] + g[s \ {Chosen(s)}]
IsSum(f, S, g) == g = [s \in SUBSET S |-> SumStep(f, g, s)]

LEMMA ChosenIs == \A s : s # {} => Chosen(s) \in s
BY DEF Chosen

\* The fold is a function that takes its steps, if there is one.
LEMMA SumIsFold ==
    ASSUME NEW S, NEW f, NEW g, IsSum(f, S, g)
    PROVE  \E h : IsSum(f, S, h) /\ SumFunctionOnSet(f, S) = h[S]
<1>. DEFINE h == CHOOSE k : IsSum(f, S, k)
<1>1. IsSum(f, S, h)
  BY Zenon
<1>2. SumFunctionOnSet(f, S) = h[S]
  BY Zenon DEF SumFunctionOnSet, FoldFunctionOnSet, MapThenFoldSet, IsSum, SumStep, Chosen
<1>. QED
  BY <1>1, <1>2

\* The subsets of S with at most n elements.
Small(S, n) == {s \in SUBSET S : Cardinality(s) <= n}

\* Some function takes the steps: on sets of at most n elements, by induction.
LEMMA SumExists ==
    ASSUME NEW S, IsFiniteSet(S), NEW f
    PROVE  \E g : IsSum(f, S, g)
<1>. DEFINE Fits(n, g) == g = [s \in Small(S, n) |-> SumStep(f, g, s)]
            N == {n \in Nat : \E g : Fits(n, g)}
<1>0. \A s \in SUBSET S : IsFiniteSet(s) /\ Cardinality(s) \in Nat /\ Cardinality(s) <= Cardinality(S)
  BY FS_Subset, FS_CardinalityType
<1>1. 0 \in N
  <2>. DEFINE g == [s \in Small(S, 0) |-> 0]
  <2>1. \A s \in Small(S, 0) : s = {}
    <3>1. \A s \in Small(S, 0) : IsFiniteSet(s) /\ Cardinality(s) = 0
      BY <1>0 DEF Small
    <3>. QED
      BY <3>1, FS_EmptySet
  <2>2. Fits(0, g)
    BY <2>1 DEF SumStep
  <2>. QED
    BY <2>2
<1>2. ASSUME NEW n \in Nat, n \in N PROVE n + 1 \in N
  <2>1. PICK g : Fits(n, g)
    BY <1>2
  <2>. DEFINE h == [s \in Small(S, n + 1) |-> SumStep(f, g, s)]
  <2>2. \A s \in Small(S, n) : s \in Small(S, n + 1) /\ h[s] = g[s]
    <3>1. \A s \in Small(S, n) : s \in Small(S, n + 1)
      BY <1>0 DEF Small
    <3>2. \A s \in Small(S, n) : g[s] = SumStep(f, g, s)
      BY <2>1
    <3>. QED
      BY <3>1, <3>2
  <2>3. \A s \in Small(S, n + 1) : s # {} => s \ {Chosen(s)} \in Small(S, n)
    <3>. SUFFICES ASSUME NEW s \in Small(S, n + 1), s # {} PROVE s \ {Chosen(s)} \in Small(S, n)
      OBVIOUS
    <3>1. s \in SUBSET S /\ IsFiniteSet(s) /\ Cardinality(s) \in Nat /\ Cardinality(s) <= n + 1
      BY <1>0 DEF Small
    <3>2. Cardinality(s \ {Chosen(s)}) = Cardinality(s) - 1
      BY <3>1, ChosenIs, FS_RemoveElement
    <3>. QED
      BY <3>1, <3>2 DEF Small
  <2>4. \A s \in Small(S, n + 1) : SumStep(f, g, s) = SumStep(f, h, s)
    BY <2>2, <2>3 DEF SumStep
  <2>5. Fits(n + 1, h)
    BY <2>4
  <2>6. n + 1 \in Nat
    OBVIOUS
  <2>. HIDE DEF Fits, h
  <2>. QED
    BY <2>5, <2>6
<1>. HIDE DEF N
<1>3. Cardinality(S) \in N
  <2>1. \A n \in Nat : n \in N
    BY <1>1, <1>2, SetInduction
  <2>. QED
    BY <2>1, FS_CardinalityType
<1>4. PICK g : Fits(Cardinality(S), g)
  BY <1>3 DEF N
<1>5. Small(S, Cardinality(S)) = SUBSET S
  BY <1>0 DEF Small
<1>6. IsSum(f, S, g)
  BY <1>4, <1>5 DEF IsSum
<1>. QED
  BY <1>6

\* What such a function returns, on subsets of at most n elements.
LEMMA SumOfNaturals ==
    ASSUME NEW S, IsFiniteSet(S), NEW f, \A x \in S : f[x] \in Nat
    PROVE  SumFunctionOnSet(f, S) \in Nat
<1>1. PICK g : IsSum(f, S, g) /\ SumFunctionOnSet(f, S) = g[S]
  BY SumExists, SumIsFold
<1>. DEFINE N == {n \in Nat : \A s \in Small(S, n) : g[s] \in Nat}
<1>0. \A s \in SUBSET S : IsFiniteSet(s) /\ Cardinality(s) \in Nat /\ Cardinality(s) <= Cardinality(S)
  BY FS_Subset, FS_CardinalityType
<1>2. \A s \in SUBSET S : g[s] = SumStep(f, g, s)
  BY <1>1 DEF IsSum
<1>3. 0 \in N
  <2>1. \A s \in Small(S, 0) : s = {} /\ s \in SUBSET S
    <3>1. \A s \in Small(S, 0) : s \in SUBSET S /\ IsFiniteSet(s) /\ Cardinality(s) = 0
      BY <1>0 DEF Small
    <3>. QED
      BY <3>1, FS_EmptySet
  <2>2. SumStep(f, g, {}) = 0
    BY DEF SumStep
  <2>3. \A s \in Small(S, 0) : g[s] = 0
    BY <1>2, <2>1, <2>2, Zenon
  <2>. QED
    BY <2>3
<1>4. ASSUME NEW n \in Nat, n \in N PROVE n + 1 \in N
  <2>. SUFFICES ASSUME NEW s \in Small(S, n + 1) PROVE g[s] \in Nat
    OBVIOUS
  <2>1. s \in SUBSET S /\ IsFiniteSet(s) /\ Cardinality(s) \in Nat /\ Cardinality(s) <= n + 1
    BY <1>0 DEF Small
  <2>2. CASE s = {}
    BY <1>2, <2>1, <2>2 DEF SumStep
  <2>3. CASE s # {}
    <3>1. Chosen(s) \in s /\ Cardinality(s \ {Chosen(s)}) = Cardinality(s) - 1
      BY <2>1, <2>3, ChosenIs, FS_RemoveElement
    <3>2. s \ {Chosen(s)} \in Small(S, n)
      BY <2>1, <3>1 DEF Small
    <3>3. g[s \ {Chosen(s)}] \in Nat /\ f[Chosen(s)] \in Nat
      BY <1>4, <2>1, <3>1, <3>2
    <3>. QED
      BY <1>2, <2>1, <2>3, <3>3 DEF SumStep
  <2>. QED
    BY <2>2, <2>3
<1>. HIDE DEF N
<1>5. \A n \in Nat : n \in N
  BY <1>3, <1>4, SetInduction
<1>6. S \in Small(S, Cardinality(S)) /\ Cardinality(S) \in Nat
  BY <1>0 DEF Small
<1>. QED
  BY <1>1, <1>5, <1>6 DEF N

LEMMA SumOfNothing ==
    ASSUME NEW f
    PROVE  SumFunctionOnSet(f, {}) = 0
<1>1. IsFiniteSet({})
  BY FS_EmptySet
<1>2. PICK g : IsSum(f, {}, g) /\ SumFunctionOnSet(f, {}) = g[{}]
  BY <1>1, SumExists, SumIsFold
<1>. QED
  BY <1>2 DEF IsSum, SumStep

-----------------------------------------------------------------------------
(* The invariant: types, tables are finite, and the factors of the candidates *)
(* are read one after the other.                                              *)

Table(S, T) == UNION {[D -> T] : D \in SUBSET S}

Held == [owner : Volunteer \cup DOMAIN roles, skill : Skill, level : Level, known : BOOLEAN]
Staffing == [job : Job, run : Run, todo : Table(Role, RoleRow), taken : SUBSET Volunteer]
Ranking == [role : Role, slots : Nat \ {0}, cands : SUBSET Volunteer, prefer : SUBSET Volunteer,
            load : Table(Volunteer, Nat), tired : Table(Volunteer, BOOLEAN),
            skill : Table(Volunteer, Nat \X (Nat \ {0}))]

\* A call that found the name of its skill finds it still: names are not deleted.
Calls ==
    \A p \in DOMAIN loc :
        /\ loc[p] \in Held
        /\ loc[p].known => loc[p].skill \in skills

Rows ==
    /\ IsABag(assigned) /\ IsFiniteSet(DOMAIN assigned)
    /\ \A a \in DOMAIN assigned : a \in Asg /\ a.role \in DOMAIN roles /\ a.run \in DOMAIN runs

Staffings ==
    /\ solve \in Table(Request, Staffing)
    /\ \A p \in DOMAIN solve : solve[p].run \in DOMAIN runs /\ DOMAIN solve[p].todo \subseteq DOMAIN roles

Rankings ==
    /\ rank \in Table(Request, Ranking)
    /\ \A p \in DOMAIN rank : rank[p].role \in DOMAIN roles

\* The next factor is read when the one before it is there for every candidate.
InOrder(c) ==
    /\ DOMAIN c.load \subseteq c.cands /\ DOMAIN c.tired \subseteq c.cands /\ DOMAIN c.skill \subseteq c.cands
    /\ DOMAIN c.tired # {} => DOMAIN c.load = c.cands
    /\ DOMAIN c.skill # {} => DOMAIN c.tired = c.cands

\* Who has a role at hand has listed who is taken.
Ranked ==
    /\ DOMAIN rank \subseteq DOMAIN solve
    /\ \A p \in DOMAIN rank : solve[p].job # "list" /\ InOrder(rank[p])

FiniteTables ==
    /\ IsFiniteSet(DOMAIN roles) /\ IsFiniteSet(DOMAIN needs) /\ IsFiniteSet(DOMAIN availability)

IInv == TypeOK /\ Calls /\ Rows /\ Staffings /\ Rankings /\ Ranked /\ FiniteTables

LEMMA TableIs ==
    ASSUME NEW S, NEW T, NEW t
    PROVE  t \in Table(S, T) <=> t \in [DOMAIN t -> T] /\ DOMAIN t \subseteq S
BY DEF Table

LEMMA EnteredIn ==
    ASSUME NEW S, NEW T, NEW t \in Table(S, T), NEW key \in S, NEW val \in T
    PROVE  Entered(t, key, val) \in Table(S, T)
<1>1. t \in [DOMAIN t -> T] /\ DOMAIN t \subseteq S
  BY TableIs
<1>2. Entered(t, key, val) \in [DOMAIN t \cup {key} -> T]
  BY <1>1 DEF Entered
<1>. QED
  BY <1>1, <1>2, TableIs

LEMMA ReplacedIn ==
    ASSUME NEW S, NEW T, NEW t \in Table(S, T), NEW key \in DOMAIN t, NEW val \in T
    PROVE  [t EXCEPT ![key] = val] = Entered(t, key, val)
<1>1. t \in [DOMAIN t -> T] /\ DOMAIN t \cup {key} = DOMAIN t
  BY TableIs
<1>. QED
  BY <1>1 DEF Entered

LEMMA WithoutIn ==
    ASSUME NEW S, NEW T, NEW t \in Table(S, T), NEW key
    PROVE  /\ Without(t, key) \in Table(S, T) /\ DOMAIN Without(t, key) = DOMAIN t \ {key}
           /\ \A k \in DOMAIN t \ {key} : Without(t, key)[k] = t[k]
<1>1. t \in [DOMAIN t -> T] /\ DOMAIN t \subseteq S
  BY TableIs
<1>2. Without(t, key) \in [DOMAIN t \ {key} -> T]
  BY <1>1 DEF Without
<1>. QED
  BY <1>1, <1>2, TableIs DEF Without

LEMMA NothingIn ==
    ASSUME NEW S, NEW T
    PROVE  <<>> \in Table(S, T) /\ DOMAIN <<>> = {}
<1>1. <<>> \in [{} -> T] /\ DOMAIN <<>> = {}
  OBVIOUS
<1>. QED
  BY <1>1, TableIs

LEMMA EnteredIs ==
    ASSUME NEW t, NEW key, NEW val
    PROVE  /\ DOMAIN Entered(t, key, val) = DOMAIN t \cup {key}
           /\ Entered(t, key, val)[key] = val
           /\ \A k \in DOMAIN t : k # key => Entered(t, key, val)[k] = t[k]
           /\ Range(Entered(t, key, val)) \subseteq Range(t) \cup {val}
BY DEF Entered, Range

\* Adding rows to a bag, and replacing one.
LEMMA BagWithSet ==
    ASSUME NEW b, IsABag(b), IsFiniteSet(DOMAIN b), NEW S, IsFiniteSet(S)
    PROVE  /\ IsABag(b (+) SetToBag(S)) /\ IsFiniteSet(DOMAIN (b (+) SetToBag(S)))
           /\ DOMAIN (b (+) SetToBag(S)) = DOMAIN b \cup S
           /\ \A a \in DOMAIN b \cup S : (b (+) SetToBag(S))[a] = IF a \in S THEN IF a \in DOMAIN b THEN b[a] + 1 ELSE 1
                                                                  ELSE b[a]
<1>. DEFINE c == b (+) SetToBag(S)
<1>1. /\ DOMAIN c = DOMAIN b \cup S
      /\ \A a \in DOMAIN c : c[a] = (IF a \in DOMAIN b THEN b[a] ELSE 0) + (IF a \in S THEN 1 ELSE 0)
      /\ c = [a \in DOMAIN c |-> c[a]]
  BY DEF SetToBag, (+)
<1>. HIDE DEF c
<1>2. \A a \in DOMAIN b : b[a] \in Nat /\ b[a] > 0
  BY DEF IsABag
<1>3. \A a \in DOMAIN c : c[a] \in Nat /\ c[a] > 0
  BY <1>1, <1>2
<1>4. IsABag(c)
  BY <1>1, <1>3 DEF IsABag
<1>5. IsFiniteSet(DOMAIN c)
  BY <1>1, FS_Union
<1>6. \A a \in DOMAIN b \cup S : c[a] = IF a \in S THEN IF a \in DOMAIN b THEN b[a] + 1 ELSE 1 ELSE b[a]
  BY <1>1, <1>2
<1>. QED
  BY <1>1, <1>4, <1>5, <1>6 DEF c

LEMMA BagWithout ==
    ASSUME NEW b, IsABag(b), IsFiniteSet(DOMAIN b), NEW x
    PROVE  /\ IsABag(b (-) SetToBag({x})) /\ IsFiniteSet(DOMAIN (b (-) SetToBag({x})))
           /\ DOMAIN (b (-) SetToBag({x})) \subseteq DOMAIN b
           /\ \A a \in DOMAIN (b (-) SetToBag({x})) : (b (-) SetToBag({x}))[a] <= b[a]
           /\ \A a \in DOMAIN b : a # x => a \in DOMAIN (b (-) SetToBag({x}))
<1>. DEFINE left == [a \in DOMAIN b |-> IF a \in {x} THEN b[a] - 1 ELSE b[a]]
            c == b (-) SetToBag({x})
<1>1. \A a \in DOMAIN b : b[a] \in Nat /\ b[a] > 0
  BY DEF IsABag
<1>2. c = [a \in {d \in DOMAIN left : left[d] > 0} |-> left[a]]
  <2>1. DOMAIN SetToBag({x}) = {x} /\ SetToBag({x})[x] = 1
    BY DEF SetToBag
  <2>2. left = [a \in DOMAIN b |-> IF a \in DOMAIN SetToBag({x}) THEN b[a] - SetToBag({x})[a] ELSE b[a]]
    BY <2>1
  <2>. QED
    BY <2>2, Zenon DEF (-)
<1>. HIDE DEF c
<1>3. \A a \in DOMAIN b : left[a] \in Int /\ left[a] <= b[a] /\ (a # x => left[a] > 0)
  BY <1>1
<1>4. DOMAIN left = DOMAIN b
  OBVIOUS
<1>. HIDE DEF left
<1>5. /\ DOMAIN c \subseteq DOMAIN b
      /\ \A a \in DOMAIN c : c[a] = left[a] /\ left[a] > 0
      /\ \A a \in DOMAIN b : a # x => a \in DOMAIN c
      /\ c = [a \in DOMAIN c |-> c[a]]
  BY <1>2, <1>3, <1>4
<1>6. \A a \in DOMAIN c : c[a] \in Nat /\ c[a] > 0 /\ c[a] <= b[a]
  BY <1>3, <1>5
<1>7. IsABag(c)
  BY <1>5, <1>6 DEF IsABag
<1>8. IsFiniteSet(DOMAIN c)
  BY <1>5, FS_Subset
<1>. QED
  BY <1>5, <1>6, <1>7, <1>8 DEF c

LEMMA BagReplaced ==
    ASSUME NEW b, IsABag(b), IsFiniteSet(DOMAIN b), NEW old, NEW new
    PROVE  /\ IsABag(Replaced(b, old, new)) /\ IsFiniteSet(DOMAIN Replaced(b, old, new))
           /\ DOMAIN Replaced(b, old, new) \subseteq DOMAIN b \cup {new}
           /\ \A a \in DOMAIN Replaced(b, old, new) : a # new => Replaced(b, old, new)[a] <= b[a]
<1>. DEFINE c == b (-) SetToBag({old})
            d == c (+) SetToBag({new})
<1>1. /\ IsABag(c) /\ IsFiniteSet(DOMAIN c) /\ DOMAIN c \subseteq DOMAIN b
      /\ \A a \in DOMAIN c : c[a] <= b[a]
  BY BagWithout
<1>. HIDE DEF c
<1>2. IsFiniteSet({new})
  BY FS_Singleton
<1>3. /\ IsABag(d) /\ IsFiniteSet(DOMAIN d) /\ DOMAIN d = DOMAIN c \cup {new}
      /\ \A a \in DOMAIN c \cup {new} : d[a] = IF a \in {new} THEN IF a \in DOMAIN c THEN c[a] + 1 ELSE 1
                                               ELSE c[a]
  BY <1>1, <1>2, BagWithSet
<1>. HIDE DEF d
<1>4. Replaced(b, old, new) = d
  BY DEF Replaced, c, d
<1>5. \A a \in DOMAIN d : a # new => a \in DOMAIN c /\ d[a] = c[a]
  BY <1>3
<1>. QED
  BY <1>1, <1>3, <1>4, <1>5

-----------------------------------------------------------------------------
(* Every step keeps the invariant. *)

LEMMA InitInv == Init => IInv
<1>. SUFFICES ASSUME Init PROVE IInv
  OBVIOUS
<1>1. /\ status = [v \in Volunteer |-> "ACTIVE"] /\ preferred = [v \in Volunteer |-> {}]
      /\ trained = {} /\ skills = {} /\ availability = SetToBag({}) /\ assigned = SetToBag({})
      /\ level = <<>> /\ roles = <<>> /\ needs = <<>> /\ runs = <<>>
      /\ loc = <<>> /\ solve = <<>> /\ rank = <<>>
  BY DEF Init, EmptyBag
<1>2. now \in Clock
  <2>1. \E m \in Clock : \A n \in Clock : m <= n
    BY RosterAssumption, LeastOf
  <2>. QED
    BY <2>1 DEF Init, Min
<1>3. /\ DOMAIN availability = {} /\ DOMAIN assigned = {} /\ DOMAIN level = {} /\ DOMAIN roles = {}
      /\ DOMAIN needs = {} /\ DOMAIN loc = {} /\ DOMAIN runs = {} /\ DOMAIN solve = {} /\ DOMAIN rank = {}
      /\ Range(level) = {} /\ Range(roles) = {} /\ Range(needs) = {}
  BY <1>1 DEF SetToBag, Range
<1>4. IsABag(availability) /\ IsABag(assigned) /\ runs \in [DOMAIN runs -> BOOLEAN]
  BY <1>1 DEF SetToBag, IsABag
<1>5. FiniteTables /\ Rows
  BY <1>3, <1>4, FS_EmptySet DEF FiniteTables, Rows
<1>6. TypeOK
  BY <1>1, <1>2, <1>3, <1>4 DEF TypeOK, Statuses, BagToSet
<1>7. Staffings /\ Rankings /\ Ranked
  BY <1>1, <1>3, NothingIn DEF Staffings, Rankings, Ranked
<1>. QED
  BY <1>3, <1>5, <1>6, <1>7 DEF IInv, Calls

\* What the schedule keeps while something else is written.
LEMMA ScheduleKept ==
    ASSUME IInv, UNCHANGED schedule, DOMAIN roles \subseteq DOMAIN roles'
    PROVE  /\ Rows' /\ Staffings' /\ Rankings' /\ Ranked'
           /\ runs' = runs /\ assigned' = assigned /\ solve' = solve /\ rank' = rank
<1>1. runs' = runs /\ assigned' = assigned /\ solve' = solve /\ rank' = rank
  BY DEF schedule
<1>2. Rows'
  BY <1>1 DEF IInv, Rows
<1>3. Staffings'
  BY <1>1 DEF IInv, Staffings
<1>4. Rankings'
  BY <1>1 DEF IInv, Rankings
<1>5. Ranked'
  BY <1>1 DEF IInv, Ranked
<1>. QED
  BY <1>1, <1>2, <1>3, <1>4, <1>5

\* The types of everything else, and that the schedule has its type.
Others ==
    /\ now \in Clock
    /\ status \in [Volunteer -> Statuses]
    /\ preferred \in [Volunteer -> SUBSET Role]
    /\ trained \subseteq Volunteer
    /\ IsABag(availability) /\ BagToSet(availability) \subseteq Offer
    /\ skills \subseteq Skill
    /\ DOMAIN level \subseteq Volunteer \X skills /\ Range(level) \subseteq Level
    /\ DOMAIN roles \subseteq Role /\ Range(roles) \subseteq RoleRow
    /\ DOMAIN needs \subseteq (DOMAIN roles) \X skills /\ Range(needs) \subseteq Level
    /\ runs \in [DOMAIN runs -> BOOLEAN] /\ DOMAIN runs \subseteq Run
    /\ DOMAIN loc \subseteq Request

LEMMA TypeParts == Others /\ Rows /\ Staffings /\ Rankings /\ Ranked => TypeOK
<1>. SUFFICES ASSUME Others, Rows, Staffings, Rankings, Ranked PROVE TypeOK
  OBVIOUS
<1>1. IsABag(assigned) /\ \A a \in BagToSet(assigned) : a \in Asg /\ a.role \in DOMAIN roles /\ a.run \in DOMAIN runs
  BY DEF Rows, BagToSet
<1>2. solve \in [DOMAIN solve -> Staffing] /\ DOMAIN solve \subseteq Request
  BY TableIs DEF Staffings
<1>3. rank \in [DOMAIN rank -> Ranking] /\ DOMAIN rank \subseteq Request
  BY TableIs DEF Rankings
<1>4. \A p \in DOMAIN solve : /\ solve[p].job \in Job /\ solve[p].run \in DOMAIN runs
                              /\ solve[p].taken \subseteq Volunteer
                              /\ DOMAIN solve[p].todo \subseteq DOMAIN roles
                              /\ Range(solve[p].todo) \subseteq RoleRow
  <2>. SUFFICES ASSUME NEW p \in DOMAIN solve
                PROVE  /\ solve[p].job \in Job /\ solve[p].run \in DOMAIN runs
                       /\ solve[p].taken \subseteq Volunteer
                       /\ DOMAIN solve[p].todo \subseteq DOMAIN roles
                       /\ Range(solve[p].todo) \subseteq RoleRow
    OBVIOUS
  <2>1. /\ solve[p].job \in Job /\ solve[p].taken \subseteq Volunteer /\ solve[p].todo \in Table(Role, RoleRow)
    BY <1>2 DEF Staffing
  <2>2. solve[p].todo \in [DOMAIN solve[p].todo -> RoleRow]
    BY <2>1, TableIs
  <2>3. Range(solve[p].todo) \subseteq RoleRow
    BY <2>2 DEF Range
  <2>. QED
    BY <2>1, <2>3 DEF Staffings
<1>5. \A p \in DOMAIN rank : /\ rank[p].role \in DOMAIN roles /\ rank[p].slots \in Nat \ {0}
                             /\ rank[p].cands \subseteq Volunteer
                             /\ Range(rank[p].load) \subseteq Nat
  <2>. SUFFICES ASSUME NEW p \in DOMAIN rank
                PROVE  /\ rank[p].role \in DOMAIN roles /\ rank[p].slots \in Nat \ {0}
                       /\ rank[p].cands \subseteq Volunteer
                       /\ Range(rank[p].load) \subseteq Nat
    OBVIOUS
  <2>1. rank[p].slots \in Nat \ {0} /\ rank[p].cands \subseteq Volunteer /\ rank[p].load \in Table(Volunteer, Nat)
    BY <1>3 DEF Ranking
  <2>2. rank[p].load \in [DOMAIN rank[p].load -> Nat]
    BY <2>1, TableIs
  <2>3. Range(rank[p].load) \subseteq Nat
    BY <2>2 DEF Range
  <2>. QED
    BY <2>1, <2>3 DEF Rankings
<1>6. DOMAIN rank \subseteq DOMAIN solve
  BY DEF Ranked
<1>. QED
  BY <1>1, <1>2, <1>3, <1>4, <1>5, <1>6 DEF Others, TypeOK

LEMMA TypePartsNext == Others' /\ Rows' /\ Staffings' /\ Rankings' /\ Ranked' => TypeOK'
<1>1. (Others /\ Rows /\ Staffings /\ Rankings /\ Ranked => TypeOK)'
  BY TypeParts, PTL
<1>. QED
  BY <1>1

LEMMA OthersAre == ASSUME IInv PROVE Others
BY DEF IInv, TypeOK, Others

LEMMA AvailabilityWritten ==
    ASSUME IInv, IsABag(availability'), IsFiniteSet(DOMAIN availability'), DOMAIN availability' \subseteq Offer,
           UNCHANGED <<now, profile, asked, schedule, loc>>
    PROVE  IInv'
<1>1. UNCHANGED <<now, status, preferred, trained, skills, level, roles, needs, loc>>
  BY DEF profile, asked
<1>2. Rows' /\ Staffings' /\ Rankings' /\ Ranked' /\ runs' = runs
  BY <1>1, ScheduleKept
<1>3. Others'
  BY <1>1, <1>2, OthersAre DEF Others, BagToSet
<1>4. TypeOK'
  BY <1>2, <1>3, TypePartsNext
<1>5. Calls'
  BY <1>1 DEF IInv, Calls, Held
<1>6. FiniteTables'
  BY <1>1 DEF IInv, FiniteTables
<1>. QED
  BY <1>2, <1>4, <1>5, <1>6 DEF IInv

LEMMA AvailabilityKept == ASSUME IInv, AvailabilityStep PROVE IInv'
<1>0. IsABag(availability) /\ IsFiniteSet(DOMAIN availability) /\ DOMAIN availability \subseteq Offer
  BY DEF IInv, TypeOK, FiniteTables, BagToSet
<1>1. ASSUME NEW v \in Volunteer, NEW d \in Days, NEW answer \in Answers, Submit(v, d, answer) PROVE IInv'
  <2>. DEFINE S == {[v |-> v, day |-> d, answer |-> answer]}
  <2>1. IsFiniteSet(S)
    BY FS_Singleton
  <2>2. d \in Nat
    BY RosterAssumption DEF Days
  <2>3. S \subseteq Offer
    BY <2>2 DEF Offer
  <2>4. availability' = availability (+) SetToBag(S) /\ UNCHANGED <<now, profile, asked, schedule, loc>>
    BY <1>1 DEF Submit
  <2>. HIDE DEF S
  <2>5. IsABag(availability') /\ IsFiniteSet(DOMAIN availability') /\ DOMAIN availability' = DOMAIN availability \cup S
    BY <1>0, <2>1, <2>4, BagWithSet
  <2>. QED
    BY <1>0, <2>3, <2>4, <2>5, AvailabilityWritten
<1>2. ASSUME NEW v \in Volunteer, NEW days \in Rules, NEW answer \in Answers, SubmitRecurring(v, days, answer)
      PROVE  IInv'
  <2>. DEFINE S == {[v |-> v, day |-> d, answer |-> answer] : d \in days}
  <2>1. IsFiniteSet(S)
    <3>. DEFINE f == [d \in days |-> [v |-> v, day |-> d, answer |-> answer]]
    <3>1. f \in Surjection(days, S)
      BY DEF Surjection
    <3>2. IsFiniteSet(days)
      BY RosterAssumption
    <3>. QED
      BY <3>1, <3>2, FS_Surjection
  <2>2. \A d \in days : d \in Nat
    BY RosterAssumption
  <2>3. S \subseteq Offer
    BY <2>2 DEF Offer
  <2>4. availability' = availability (+) SetToBag(S) /\ UNCHANGED <<now, profile, asked, schedule, loc>>
    BY <1>2 DEF SubmitRecurring
  <2>. HIDE DEF S
  <2>5. IsABag(availability') /\ IsFiniteSet(DOMAIN availability') /\ DOMAIN availability' = DOMAIN availability \cup S
    BY <1>0, <2>1, <2>4, BagWithSet
  <2>. QED
    BY <1>0, <2>3, <2>4, <2>5, AvailabilityWritten
<1>3. ASSUME NEW a \in BagToSet(availability), NEW answer \in Answers, UpdateAvailability(a, answer) PROVE IInv'
  <2>. DEFINE new == [a EXCEPT !.answer = answer]
  <2>1. new \in Offer
    BY <1>0 DEF Offer, BagToSet
  <2>2. availability' = Replaced(availability, a, new) /\ UNCHANGED <<now, profile, asked, schedule, loc>>
    BY <1>3 DEF UpdateAvailability
  <2>. HIDE DEF new
  <2>3. /\ IsABag(availability') /\ IsFiniteSet(DOMAIN availability')
        /\ DOMAIN availability' \subseteq DOMAIN availability \cup {new}
    BY <1>0, <2>2, BagReplaced
  <2>. QED
    BY <1>0, <2>1, <2>2, <2>3, AvailabilityWritten
<1>. QED
  BY <1>1, <1>2, <1>3 DEF AvailabilityStep

LEMMA ProfileKept == ASSUME IInv, ProfileStep PROVE IInv'
<1>1. ASSUME UNCHANGED <<now, availability, asked, schedule, loc>>,
             status' \in [Volunteer -> Statuses], preferred' \in [Volunteer -> SUBSET Role],
             trained' \subseteq Volunteer
      PROVE  IInv'
  <2>1. UNCHANGED <<now, availability, skills, level, roles, needs, loc>>
    BY <1>1 DEF asked
  <2>2. Rows' /\ Staffings' /\ Rankings' /\ Ranked' /\ runs' = runs
    BY <1>1, <2>1, ScheduleKept
  <2>3. Others'
    BY <1>1, <2>1, <2>2, OthersAre DEF Others, BagToSet
  <2>4. TypeOK'
    BY <2>2, <2>3, TypePartsNext
  <2>5. Calls' /\ FiniteTables'
    BY <2>1 DEF IInv, Calls, Held, FiniteTables
  <2>. QED
    BY <2>2, <2>4, <2>5 DEF IInv
<1>2. ASSUME NEW v \in Volunteer, NEW new \in Statuses, UpdateStatus(v, new) PROVE IInv'
  BY <1>1, <1>2 DEF UpdateStatus, IInv, TypeOK
<1>3. ASSUME NEW v \in Volunteer, NEW r \in Role, AddPreferredRole(v, r) PROVE IInv'
  BY <1>1, <1>3 DEF AddPreferredRole, IInv, TypeOK
<1>4. ASSUME NEW v \in Volunteer, AddTraining(v) PROVE IInv'
  BY <1>1, <1>4 DEF AddTraining, IInv, TypeOK
<1>. QED
  BY <1>2, <1>3, <1>4 DEF ProfileStep

\* Roles are added or changed: what names a role names it still.
LEMMA RolesWritten ==
    ASSUME IInv, NEW r \in Role, DOMAIN roles' = DOMAIN roles \cup {r}, Range(roles') \subseteq RoleRow,
           UNCHANGED <<now, profile, availability, skills, level, needs, schedule, loc>>
    PROVE  IInv'
<1>1. UNCHANGED <<now, status, preferred, trained, availability, skills, level, needs, loc>>
  BY DEF profile
<1>2. DOMAIN roles \subseteq DOMAIN roles' /\ DOMAIN roles' \subseteq Role
  BY DEF IInv, TypeOK
<1>3. Rows' /\ Staffings' /\ Rankings' /\ Ranked' /\ runs' = runs
  BY <1>2, ScheduleKept
<1>4. Others'
  <2>1. DOMAIN needs' \subseteq (DOMAIN roles') \X skills'
    BY <1>1, <1>2 DEF IInv, TypeOK
  <2>. QED
    BY <1>1, <1>2, <1>3, <2>1, OthersAre DEF Others, BagToSet
<1>5. TypeOK'
  BY <1>3, <1>4, TypePartsNext
<1>6. Calls'
  <2>1. \A c \in Held : c \in Held'
    BY <1>2 DEF Held
  <2>. QED
    BY <1>1, <2>1 DEF IInv, Calls
<1>7. FiniteTables'
  BY <1>1, FS_AddElement DEF IInv, FiniteTables
<1>. QED
  BY <1>3, <1>5, <1>6, <1>7 DEF IInv

LEMMA RolesKept == ASSUME IInv, RoleStep PROVE IInv'
<1>1. ASSUME NEW r \in Role, NEW s \in Service, NEW size \in Size, CreateRole(r, s, size) PROVE IInv'
  <2>. DEFINE row == [service |-> s, min |-> size[1], max |-> size[2]]
  <2>1. row \in RoleRow
    BY RosterAssumption DEF RoleRow
  <2>2. /\ roles' = Entered(roles, r, row)
        /\ UNCHANGED <<now, profile, availability, skills, level, needs, schedule, loc>>
    BY <1>1 DEF CreateRole
  <2>. HIDE DEF row
  <2>3. DOMAIN roles' = DOMAIN roles \cup {r} /\ Range(roles') \subseteq Range(roles) \cup {row}
    BY <2>2, EnteredIs
  <2>4. Range(roles') \subseteq RoleRow
    BY <2>1, <2>3 DEF IInv, TypeOK
  <2>. QED
    BY <2>2, <2>3, <2>4, RolesWritten
<1>2. ASSUME NEW r \in DOMAIN roles, NEW size \in Size, UpdateRole(r, size) PROVE IInv'
  <2>1. roles[r] \in RoleRow /\ r \in Role /\ size[1] \in Nat /\ size[2] \in Nat
    BY RosterAssumption DEF IInv, TypeOK, Range
  <2>. DEFINE row == [roles[r] EXCEPT !.min = size[1], !.max = size[2]]
  <2>2. row \in RoleRow
    BY <2>1 DEF RoleRow
  <2>3. /\ roles' = [roles EXCEPT ![r] = row]
        /\ UNCHANGED <<now, profile, availability, skills, level, needs, schedule, loc>>
    BY <1>2 DEF UpdateRole
  <2>. HIDE DEF row
  <2>4. DOMAIN roles' = DOMAIN roles \cup {r}
    BY <2>3
  <2>5. Range(roles') \subseteq RoleRow
    BY <2>2, <2>3 DEF Range, IInv, TypeOK
  <2>. QED
    BY <2>1, <2>3, <2>4, <2>5, RolesWritten
<1>. QED
  BY <1>1, <1>2 DEF RoleStep

LEMMA SkillsKept == ASSUME IInv, SkillStep PROVE IInv'
<1>1. ASSUME NEW p \in Request, NEW owner \in Volunteer \cup DOMAIN roles, NEW k \in Skill, NEW l \in Level,
             SelectSkill(p, owner, k, l)
      PROVE  IInv'
  <2>. DEFINE known == k \in skills
              c == [owner |-> owner, skill |-> k, level |-> l, known |-> known]
  <2>1. known \in BOOLEAN
    OBVIOUS
  <2>2. loc' = Entered(loc, p, c) /\ UNCHANGED <<now, profile, availability, asked, schedule>>
    BY <1>1 DEF SelectSkill
  <2>3. c.known => c.skill \in skills
    OBVIOUS
  <2>. HIDE DEF known
  <2>4. c \in Held
    BY <2>1 DEF Held
  <2>. HIDE DEF c
  <2>5. /\ DOMAIN loc' = DOMAIN loc \cup {p} /\ loc'[p] = c
        /\ \A q \in DOMAIN loc : q # p => loc'[q] = loc[q]
    BY <2>2 DEF Entered
  <2>6. UNCHANGED <<now, status, preferred, trained, availability, skills, level, roles, needs>>
    BY <2>2 DEF profile, asked
  <2>7. Calls'
    BY <2>3, <2>4, <2>5, <2>6 DEF IInv, Calls, Held
  <2>8. Rows' /\ Staffings' /\ Rankings' /\ Ranked' /\ runs' = runs
    BY <2>2, <2>6, ScheduleKept
  <2>9. Others'
    BY <2>5, <2>6, <2>8, OthersAre DEF Others, BagToSet
  <2>10. TypeOK'
    BY <2>8, <2>9, TypePartsNext
  <2>11. FiniteTables'
    BY <2>6 DEF IInv, FiniteTables
  <2>. QED
    BY <2>7, <2>8, <2>10, <2>11 DEF IInv
<1>2. ASSUME NEW p \in DOMAIN loc, StoreSkill(p) PROVE IInv'
  <2>. DEFINE c == loc[p]
              key == <<c.owner, c.skill>>
  <2>1. c \in Held /\ c.owner \in Volunteer \cup DOMAIN roles /\ c.skill \in Skill /\ c.level \in Level
    BY DEF IInv, Calls, Held
  <2>2. /\ skills' = WithSkill(c) /\ UNCHANGED <<now, profile, availability, roles, schedule>>
        /\ loc' = [q \in DOMAIN loc \ {p} |-> loc[q]]
        /\ IF c.owner \in Volunteer
           THEN level' = Entered(level, key, c.level) /\ UNCHANGED needs
           ELSE needs' = Entered(needs, key, c.level) /\ UNCHANGED level
    BY <1>2, Zenon DEF StoreSkill, Leave, Without
  <2>3. skills \subseteq skills' /\ c.skill \in skills' /\ skills' \subseteq Skill
    BY <2>1, <2>2 DEF WithSkill, IInv, Calls, TypeOK
  <2>4. UNCHANGED <<now, status, preferred, trained, availability, roles>>
    BY <2>2 DEF profile
  <2>5. /\ DOMAIN level' \subseteq Volunteer \X skills' /\ Range(level') \subseteq Level
        /\ DOMAIN needs' \subseteq (DOMAIN roles) \X skills' /\ Range(needs') \subseteq Level
        /\ IsFiniteSet(DOMAIN needs')
    <3>1. /\ DOMAIN level \subseteq Volunteer \X skills' /\ Range(level) \subseteq Level
          /\ DOMAIN needs \subseteq (DOMAIN roles) \X skills' /\ Range(needs) \subseteq Level
          /\ IsFiniteSet(DOMAIN needs)
      BY <2>3 DEF IInv, TypeOK, FiniteTables
    <3>2. CASE c.owner \in Volunteer
      <4>1. level' = Entered(level, key, c.level) /\ needs' = needs /\ key \in Volunteer \X skills'
        BY <2>2, <2>3, <3>2
      <4>. HIDE DEF key, c
      <4>2. DOMAIN level' = DOMAIN level \cup {key} /\ Range(level') \subseteq Range(level) \cup {c.level}
        BY <4>1, EnteredIs
      <4>. QED
        BY <2>1, <3>1, <4>1, <4>2
    <3>3. CASE c.owner \notin Volunteer
      <4>1. needs' = Entered(needs, key, c.level) /\ level' = level /\ key \in (DOMAIN roles) \X skills'
        BY <2>1, <2>2, <2>3, <3>3
      <4>. HIDE DEF key, c
      <4>2. DOMAIN needs' = DOMAIN needs \cup {key} /\ Range(needs') \subseteq Range(needs) \cup {c.level}
        BY <4>1, EnteredIs
      <4>3. IsFiniteSet(DOMAIN needs')
        BY <3>1, <4>2, FS_AddElement
      <4>. QED
        BY <2>1, <3>1, <4>1, <4>2, <4>3
    <3>. QED
      BY <3>2, <3>3
  <2>6. Calls'
    BY <2>2, <2>3, <2>4 DEF IInv, Calls, Held
  <2>7. Rows' /\ Staffings' /\ Rankings' /\ Ranked' /\ runs' = runs
    BY <2>2, <2>4, ScheduleKept
  <2>8. Others'
    <3>1. DOMAIN loc' \subseteq Request
      BY <2>2 DEF IInv, TypeOK
    <3>. QED
      BY <2>3, <2>4, <2>5, <2>7, <3>1, OthersAre DEF Others, BagToSet
  <2>9. TypeOK'
    BY <2>7, <2>8, TypePartsNext
  <2>10. FiniteTables'
    BY <2>4, <2>5 DEF IInv, FiniteTables
  <2>. QED
    BY <2>6, <2>7, <2>9, <2>10 DEF IInv
<1>3. ASSUME NEW p \in DOMAIN loc, SkillThrows(p) PROVE IInv'
  <2>1. loc' = [q \in DOMAIN loc \ {p} |-> loc[q]] /\ UNCHANGED <<now, profile, availability, asked, schedule>>
    BY <1>3 DEF SkillThrows, Leave, Without
  <2>2. UNCHANGED <<now, status, preferred, trained, availability, skills, level, roles, needs>>
    BY <2>1 DEF profile, asked
  <2>3. Rows' /\ Staffings' /\ Rankings' /\ Ranked' /\ runs' = runs
    BY <2>1, <2>2, ScheduleKept
  <2>4. Others'
    BY <2>1, <2>2, <2>3, OthersAre DEF Others, BagToSet
  <2>5. TypeOK'
    BY <2>3, <2>4, TypePartsNext
  <2>6. Calls' /\ FiniteTables'
    BY <2>1, <2>2 DEF IInv, Calls, Held, FiniteTables
  <2>. QED
    BY <2>3, <2>5, <2>6 DEF IInv
<1>. QED
  BY <1>1, <1>2, <1>3 DEF SkillStep

\* The schedule is written, and nothing else.
LEMMA ScheduleWritten ==
    ASSUME IInv, UNCHANGED <<now, profile, availability, asked, loc>>,
           runs' \in [DOMAIN runs' -> BOOLEAN], DOMAIN runs' \subseteq Run,
           Rows', Staffings', Rankings', Ranked'
    PROVE  IInv'
<1>1. UNCHANGED <<now, status, preferred, trained, availability, skills, level, roles, needs, loc>>
  BY DEF profile, asked
<1>2. Others'
  BY <1>1, OthersAre DEF Others, BagToSet
<1>3. TypeOK'
  BY <1>2, TypePartsNext
<1>4. Calls' /\ FiniteTables'
  BY <1>1 DEF IInv, Calls, Held, FiniteTables
<1>. QED
  BY <1>3, <1>4 DEF IInv

LEMMA StaffingEntered ==
    ASSUME IInv, NEW p \in Request, NEW job \in Staffing, job.run \in DOMAIN runs', DOMAIN job.todo \subseteq DOMAIN roles,
           DOMAIN runs \subseteq DOMAIN runs', UNCHANGED roles, solve' = Entered(solve, p, job)
    PROVE  /\ Staffings' /\ DOMAIN solve' = DOMAIN solve \cup {p} /\ solve'[p] = job
           /\ \A q \in DOMAIN solve \ {p} : solve'[q] = solve[q]
<1>1. solve \in Table(Request, Staffing)
  BY DEF IInv, Staffings
<1>2. solve' \in Table(Request, Staffing)
  BY <1>1, EnteredIn
<1>3. /\ DOMAIN solve' = DOMAIN solve \cup {p} /\ solve'[p] = job
      /\ \A q \in DOMAIN solve \ {p} : solve'[q] = solve[q]
  BY DEF Entered
<1>4. \A q \in DOMAIN solve' : solve'[q].run \in DOMAIN runs' /\ DOMAIN solve'[q].todo \subseteq DOMAIN roles'
  BY <1>3 DEF IInv, Staffings
<1>. QED
  BY <1>2, <1>3, <1>4 DEF Staffings

LEMMA RankingEntered ==
    ASSUME IInv, NEW p \in Request, NEW c \in Ranking, c.role \in DOMAIN roles, UNCHANGED roles,
           rank' = Entered(rank, p, c)
    PROVE  /\ Rankings' /\ DOMAIN rank' = DOMAIN rank \cup {p} /\ rank'[p] = c
           /\ \A q \in DOMAIN rank \ {p} : rank'[q] = rank[q]
<1>1. rank \in Table(Request, Ranking)
  BY DEF IInv, Rankings
<1>2. rank' \in Table(Request, Ranking)
  BY <1>1, EnteredIn
<1>3. /\ DOMAIN rank' = DOMAIN rank \cup {p} /\ rank'[p] = c
      /\ \A q \in DOMAIN rank \ {p} : rank'[q] = rank[q]
  BY DEF Entered
<1>4. \A q \in DOMAIN rank' : rank'[q].role \in DOMAIN roles'
  BY <1>3 DEF IInv, Rankings
<1>. QED
  BY <1>2, <1>3, <1>4 DEF Rankings

LEMMA StaffingLeft ==
    ASSUME IInv, NEW p, solve' = Without(solve, p), DOMAIN runs \subseteq DOMAIN runs', UNCHANGED roles
    PROVE  /\ Staffings' /\ DOMAIN solve' = DOMAIN solve \ {p}
           /\ \A q \in DOMAIN solve \ {p} : solve'[q] = solve[q]
<1>1. solve \in Table(Request, Staffing)
  BY DEF IInv, Staffings
<1>2. /\ solve' \in Table(Request, Staffing) /\ DOMAIN solve' = DOMAIN solve \ {p}
      /\ \A q \in DOMAIN solve \ {p} : solve'[q] = solve[q]
  BY <1>1, WithoutIn
<1>3. \A q \in DOMAIN solve' : solve'[q].run \in DOMAIN runs' /\ DOMAIN solve'[q].todo \subseteq DOMAIN roles'
  BY <1>2 DEF IInv, Staffings
<1>. QED
  BY <1>2, <1>3 DEF Staffings

LEMMA RankingLeft ==
    ASSUME IInv, NEW p, rank' = Without(rank, p), UNCHANGED roles
    PROVE  /\ Rankings' /\ DOMAIN rank' = DOMAIN rank \ {p}
           /\ \A q \in DOMAIN rank \ {p} : rank'[q] = rank[q]
<1>1. rank \in Table(Request, Ranking)
  BY DEF IInv, Rankings
<1>2. /\ rank' \in Table(Request, Ranking) /\ DOMAIN rank' = DOMAIN rank \ {p}
      /\ \A q \in DOMAIN rank \ {p} : rank'[q] = rank[q]
  BY <1>1, WithoutIn
<1>3. \A q \in DOMAIN rank' : rank'[q].role \in DOMAIN roles'
  BY <1>2 DEF IInv, Rankings
<1>. QED
  BY <1>2, <1>3 DEF Rankings

\* What a call holds, and the parts of it.
LEMMA HeldIs ==
    ASSUME IInv
    PROVE  /\ \A p \in DOMAIN solve : /\ p \in Request /\ solve[p] \in Staffing /\ solve[p].run \in DOMAIN runs
                                      /\ DOMAIN solve[p].todo \subseteq DOMAIN roles
           /\ \A p \in DOMAIN rank : /\ p \in DOMAIN solve /\ rank[p] \in Ranking /\ rank[p].role \in DOMAIN roles
                                     /\ solve[p].job # "list" /\ InOrder(rank[p])
           /\ runs \in [DOMAIN runs -> BOOLEAN] /\ DOMAIN runs \subseteq Run
<1>1. solve \in [DOMAIN solve -> Staffing] /\ DOMAIN solve \subseteq Request
  BY TableIs DEF IInv, Staffings
<1>2. rank \in [DOMAIN rank -> Ranking]
  BY TableIs DEF IInv, Rankings
<1>3. runs \in [DOMAIN runs -> BOOLEAN] /\ DOMAIN runs \subseteq Run
  BY DEF IInv, TypeOK
<1>. QED
  BY <1>1, <1>2, <1>3 DEF IInv, Staffings, Rankings, Ranked

\* One call moves: the others keep what they have at hand.
LEMMA OneRanked ==
    ASSUME IInv, NEW p, DOMAIN rank' \subseteq DOMAIN solve',
           \A q \in DOMAIN rank' \ {p} : q \in DOMAIN rank /\ rank'[q] = rank[q] /\ solve'[q] = solve[q],
           p \in DOMAIN rank' => solve'[p].job # "list" /\ InOrder(rank'[p])
    PROVE  Ranked'
<1>1. ASSUME NEW q \in DOMAIN rank' PROVE solve'[q].job # "list" /\ InOrder(rank'[q])
  BY DEF IInv, Ranked
<1>. QED
  BY <1>1 DEF Ranked, InOrder

LEMMA RowsKept ==
    ASSUME IInv, UNCHANGED <<assigned, roles>>, DOMAIN runs \subseteq DOMAIN runs'
    PROVE  Rows'
BY DEF IInv, Rows

LEMMA RowReplaced ==
    ASSUME IInv, NEW a, NEW new \in Asg, new.role \in DOMAIN roles, new.run \in DOMAIN runs,
           assigned' = Replaced(assigned, a, new), UNCHANGED <<roles, runs>>
    PROVE  Rows'
<1>0. /\ IsABag(assigned) /\ IsFiniteSet(DOMAIN assigned)
      /\ \A b \in DOMAIN assigned : b \in Asg /\ b.role \in DOMAIN roles /\ b.run \in DOMAIN runs
  BY DEF IInv, Rows
<1>1. IsABag(assigned') /\ IsFiniteSet(DOMAIN assigned') /\ DOMAIN assigned' \subseteq DOMAIN assigned \cup {new}
  BY <1>0, BagReplaced
<1>. QED
  BY <1>0, <1>1 DEF Rows

LEMMA RowAdded ==
    ASSUME IInv, NEW row \in Asg, row.role \in DOMAIN roles, row.run \in DOMAIN runs,
           assigned' = assigned (+) SetToBag({row}), UNCHANGED <<roles, runs>>
    PROVE  Rows'
<1>0. /\ IsABag(assigned) /\ IsFiniteSet(DOMAIN assigned)
      /\ \A b \in DOMAIN assigned : b \in Asg /\ b.role \in DOMAIN roles /\ b.run \in DOMAIN runs
  BY DEF IInv, Rows
<1>1. IsFiniteSet({row})
  BY FS_Singleton
<1>2. IsABag(assigned') /\ IsFiniteSet(DOMAIN assigned') /\ DOMAIN assigned' = DOMAIN assigned \cup {row}
  BY <1>0, <1>1, BagWithSet
<1>. QED
  BY <1>0, <1>2 DEF Rows

LEMMA GenerateKept ==
    ASSUME IInv, NEW p \in Request, NEW u \in Run, NEW s \in Service, Generate(p, u, s)
    PROVE  IInv'
<1>. DEFINE todo == Restrict(roles, {r \in DOMAIN roles : roles[r].service = s})
            job == [job |-> "generate", run |-> u, todo |-> todo, taken |-> {}]
<1>1. /\ p \notin DOMAIN solve /\ u \notin DOMAIN runs /\ runs' = Entered(runs, u, FALSE)
      /\ solve' = Entered(solve, p, job)
      /\ UNCHANGED <<now, profile, availability, asked, assigned, loc, rank>>
  BY DEF Generate, Starts, Free
<1>2. todo \in Table(Role, RoleRow) /\ DOMAIN todo \subseteq DOMAIN roles
  <2>1. DOMAIN todo \subseteq DOMAIN roles /\ DOMAIN roles \subseteq Role
    BY DEF Restrict, IInv, TypeOK
  <2>2. todo \in [DOMAIN todo -> RoleRow]
    BY DEF Restrict, IInv, TypeOK, Range
  <2>. HIDE DEF todo
  <2>. QED
    BY <2>1, <2>2, TableIs
<1>. HIDE DEF todo
<1>3. job \in Staffing /\ job.run = u /\ DOMAIN job.todo \subseteq DOMAIN roles
  BY <1>2 DEF Staffing, Job
<1>. HIDE DEF job
<1>4. /\ DOMAIN runs' = DOMAIN runs \cup {u} /\ runs' \in [DOMAIN runs' -> BOOLEAN] /\ DOMAIN runs' \subseteq Run
  <2>1. FALSE \in BOOLEAN /\ runs \in [DOMAIN runs -> BOOLEAN] /\ DOMAIN runs \subseteq Run
    BY HeldIs
  <2>. QED
    BY <1>1, <2>1, Zenon DEF Entered
<1>5. UNCHANGED <<roles, assigned, rank>>
  BY <1>1 DEF asked
<1>6. job.run \in DOMAIN runs' /\ DOMAIN runs \subseteq DOMAIN runs'
  BY <1>3, <1>4
<1>7. /\ Staffings' /\ DOMAIN solve' = DOMAIN solve \cup {p}
      /\ \A q \in DOMAIN solve \ {p} : solve'[q] = solve[q]
  BY <1>1, <1>3, <1>5, <1>6, StaffingEntered
<1>8. Rankings'
  BY <1>5 DEF IInv, Rankings
<1>9. Ranked'
  <2>1. DOMAIN rank \subseteq DOMAIN solve /\ p \notin DOMAIN rank
    BY <1>1 DEF IInv, Ranked
  <2>2. DOMAIN rank' \subseteq DOMAIN solve' /\ p \notin DOMAIN rank'
    BY <1>5, <1>7, <2>1
  <2>3. \A q \in DOMAIN rank' \ {p} : q \in DOMAIN rank /\ rank'[q] = rank[q] /\ solve'[q] = solve[q]
    BY <1>5, <1>7, <2>1
  <2>. QED
    BY <2>2, <2>3, OneRanked
<1>10. Rows'
  BY <1>5, <1>6, RowsKept
<1>. QED
  BY <1>1, <1>4, <1>7, <1>8, <1>9, <1>10, ScheduleWritten

LEMMA DeclineKept ==
    ASSUME IInv, NEW p \in Request, NEW a \in BagToSet(assigned), Decline(p, a)
    PROVE  IInv'
<1>. DEFINE todo == [r \in {a.role} |-> [roles[r] EXCEPT !.min = 1, !.max = 1]]
            job == [job |-> "list", run |-> a.run, todo |-> todo, taken |-> {a.v}]
            new == [a EXCEPT !.declined = TRUE]
<1>1. /\ p \notin DOMAIN solve /\ assigned' = Replaced(assigned, a, new)
      /\ solve' = Entered(solve, p, job)
      /\ UNCHANGED <<now, profile, availability, asked, runs, loc, rank>>
  BY DEF Decline, Starts, Free
<1>2. a \in Asg /\ a.role \in DOMAIN roles /\ a.run \in DOMAIN runs
  BY DEF IInv, Rows, BagToSet
<1>3. todo \in Table(Role, RoleRow) /\ DOMAIN todo \subseteq DOMAIN roles
  <2>1. DOMAIN todo \subseteq DOMAIN roles /\ DOMAIN roles \subseteq Role
    BY <1>2 DEF IInv, TypeOK
  <2>2. roles[a.role] \in RoleRow
    BY <1>2 DEF IInv, TypeOK, Range
  <2>3. [roles[a.role] EXCEPT !.min = 1, !.max = 1] \in RoleRow
    BY <2>2 DEF RoleRow
  <2>4. todo \in [DOMAIN todo -> RoleRow]
    BY <2>3
  <2>. HIDE DEF todo
  <2>. QED
    BY <2>1, <2>4, TableIs
<1>. HIDE DEF todo
<1>4. job \in Staffing /\ job.run \in DOMAIN runs /\ DOMAIN job.todo \subseteq DOMAIN roles
  BY <1>2, <1>3 DEF Staffing, Job, Asg
<1>. HIDE DEF job
<1>5. new \in Asg /\ new.role \in DOMAIN roles /\ new.run \in DOMAIN runs
  BY <1>2 DEF Asg
<1>. HIDE DEF new
<1>6. UNCHANGED <<roles, runs, rank>>
  BY <1>1 DEF asked
<1>7. /\ Staffings' /\ DOMAIN solve' = DOMAIN solve \cup {p}
      /\ \A q \in DOMAIN solve \ {p} : solve'[q] = solve[q]
  BY <1>1, <1>4, <1>6, StaffingEntered
<1>8. Rankings'
  BY <1>6 DEF IInv, Rankings
<1>9. Ranked'
  <2>1. DOMAIN rank \subseteq DOMAIN solve /\ p \notin DOMAIN rank
    BY <1>1 DEF IInv, Ranked
  <2>2. DOMAIN rank' \subseteq DOMAIN solve' /\ p \notin DOMAIN rank'
    BY <1>6, <1>7, <2>1
  <2>3. \A q \in DOMAIN rank' \ {p} : q \in DOMAIN rank /\ rank'[q] = rank[q] /\ solve'[q] = solve[q]
    BY <1>6, <1>7, <2>1
  <2>. QED
    BY <2>2, <2>3, OneRanked
<1>10. Rows'
  BY <1>1, <1>5, <1>6, RowReplaced
<1>11. runs' \in [DOMAIN runs' -> BOOLEAN] /\ DOMAIN runs' \subseteq Run
  BY <1>6, HeldIs
<1>. QED
  BY <1>1, <1>7, <1>8, <1>9, <1>10, <1>11, ScheduleWritten

LEMMA ListTakenKept ==
    ASSUME IInv, NEW p \in DOMAIN solve, ListTaken(p)
    PROVE  IInv'
<1>. DEFINE placed == {a.v : a \in {b \in BagToSet(assigned) : b.run = solve[p].run /\ ~b.declined}}
            job == [solve[p] EXCEPT !.job = "replace", !.taken = @ \cup placed]
<1>1. /\ p \in Request /\ solve[p] \in Staffing /\ solve[p].run \in DOMAIN runs
      /\ DOMAIN solve[p].todo \subseteq DOMAIN roles /\ solve \in Table(Request, Staffing)
  BY HeldIs DEF IInv, Staffings
<1>2. /\ solve[p].job = "list" /\ solve' = [solve EXCEPT ![p] = job]
      /\ UNCHANGED <<now, profile, availability, asked, runs, assigned, loc, rank>>
  BY DEF ListTaken
<1>3. placed \in SUBSET Volunteer
  BY DEF IInv, Rows, Asg, BagToSet
<1>. HIDE DEF placed
<1>4. job \in Staffing /\ job.run = solve[p].run /\ job.todo = solve[p].todo
  BY <1>1, <1>3 DEF Staffing, Job
<1>. HIDE DEF job
<1>5. solve' = Entered(solve, p, job)
  BY <1>1, <1>2, <1>4, ReplacedIn
<1>6. UNCHANGED <<roles, runs, rank, assigned>>
  BY <1>2 DEF asked
<1>7. /\ Staffings' /\ DOMAIN solve' = DOMAIN solve \cup {p}
      /\ \A q \in DOMAIN solve \ {p} : solve'[q] = solve[q]
  BY <1>1, <1>4, <1>5, <1>6, StaffingEntered
<1>8. Rankings'
  BY <1>6 DEF IInv, Rankings
<1>9. Ranked'
  <2>1. DOMAIN rank \subseteq DOMAIN solve /\ p \notin DOMAIN rank
    BY <1>2, HeldIs
  <2>2. DOMAIN rank' \subseteq DOMAIN solve' /\ p \notin DOMAIN rank'
    BY <1>6, <1>7, <2>1
  <2>3. \A q \in DOMAIN rank' \ {p} : q \in DOMAIN rank /\ rank'[q] = rank[q] /\ solve'[q] = solve[q]
    BY <1>6, <1>7, <2>1
  <2>. QED
    BY <2>2, <2>3, OneRanked
<1>10. Rows'
  BY <1>6, RowsKept
<1>11. runs' \in [DOMAIN runs' -> BOOLEAN] /\ DOMAIN runs' \subseteq Run
  BY <1>6, HeldIs
<1>. QED
  BY <1>2, <1>7, <1>8, <1>9, <1>10, <1>11, ScheduleWritten

LEMMA ResolveKept ==
    ASSUME IInv, NEW p \in DOMAIN solve, NEW r \in DOMAIN solve[p].todo, Resolve(p, r)
    PROVE  IInv'
<1>. DEFINE left == Without(solve[p].todo, r)
            job == [solve[p] EXCEPT !.todo = left]
            cands == Candidates(r) \ solve[p].taken
            slots == Slots(solve[p].todo[r], Cardinality(cands))
            c == [role |-> r, slots |-> slots, cands |-> cands, prefer |-> {v \in cands : r \in preferred[v]},
                  load |-> <<>>, tired |-> <<>>, skill |-> <<>>]
<1>1. /\ p \in Request /\ solve[p] \in Staffing /\ solve[p].run \in DOMAIN runs
      /\ DOMAIN solve[p].todo \subseteq DOMAIN roles /\ solve \in Table(Request, Staffing)
  BY HeldIs DEF IInv, Staffings
<1>2. solve[p].job # "list" /\ p \notin DOMAIN rank /\ solve' = [solve EXCEPT ![p] = job]
  BY DEF Resolve
<1>3. rank' = IF slots = 0 THEN rank ELSE Entered(rank, p, c)
  BY DEF Resolve
<1>4. UNCHANGED <<now, profile, availability, asked, runs, assigned, loc>>
  BY DEF Resolve
<1>5. left \in Table(Role, RoleRow) /\ DOMAIN left \subseteq DOMAIN roles
  <2>1. solve[p].todo \in Table(Role, RoleRow)
    BY <1>1 DEF Staffing
  <2>2. left \in Table(Role, RoleRow)
    BY <2>1, WithoutIn
  <2>3. DOMAIN left \subseteq DOMAIN solve[p].todo
    BY DEF Without
  <2>. QED
    BY <1>1, <2>2, <2>3
<1>6. cands \in SUBSET Volunteer /\ Cardinality(cands) \in Nat
  <2>1. cands \in SUBSET Volunteer
    BY DEF Candidates
  <2>. HIDE DEF cands
  <2>. QED
    BY <2>1, FS_Subset, FS_CardinalityType, RosterAssumption
<1>7. slots \in Nat
  <2>. DEFINE row == solve[p].todo[r]
              n == Cardinality(cands)
  <2>1. row \in RoleRow
    <3>1. solve[p].todo \in Table(Role, RoleRow)
      BY <1>1 DEF Staffing
    <3>. QED
      BY <3>1, TableIs
  <2>2. row.max \in Nat /\ row.min \in Nat /\ n \in Nat
    BY <1>6, <2>1 DEF RoleRow
  <2>. HIDE DEF row, n
  <2>3. Slots(row, n) \in Nat
    BY <2>2 DEF Slots, Lesser
  <2>. QED
    BY <2>3 DEF row, n
<1>. HIDE DEF left, slots
<1>8. job \in Staffing /\ job.run = solve[p].run /\ job.job = solve[p].job /\ job.todo = left
  BY <1>1, <1>5 DEF Staffing
<1>9. ASSUME slots # 0 PROVE c \in Ranking /\ c.role \in DOMAIN roles /\ InOrder(c)
  <2>1. r \in DOMAIN roles /\ r \in Role
    BY <1>1 DEF IInv, TypeOK
  <2>2. <<>> \in Table(Volunteer, Nat) /\ <<>> \in Table(Volunteer, BOOLEAN)
        /\ <<>> \in Table(Volunteer, Nat \X (Nat \ {0})) /\ DOMAIN <<>> = {}
    BY NothingIn, Zenon
  <2>. DEFINE prefer == {v \in cands : r \in preferred[v]}
  <2>3. prefer \in SUBSET Volunteer
    BY <1>6
  <2>. HIDE DEF cands, prefer
  <2>4. c \in Ranking
    BY <1>6, <1>7, <1>9, <2>1, <2>2, <2>3 DEF Ranking
  <2>5. c.role = r /\ InOrder(c)
    BY <2>2 DEF InOrder
  <2>. QED
    BY <2>1, <2>4, <2>5
<1>. HIDE DEF cands, job, c
<1>10. solve' = Entered(solve, p, job)
  BY <1>1, <1>2, <1>8, ReplacedIn
<1>11. UNCHANGED <<roles, runs, assigned>>
  BY <1>4 DEF asked
<1>12. /\ Staffings' /\ DOMAIN solve' = DOMAIN solve \cup {p} /\ solve'[p] = job
       /\ \A q \in DOMAIN solve \ {p} : solve'[q] = solve[q]
  BY <1>1, <1>5, <1>8, <1>10, <1>11, StaffingEntered
<1>13. DOMAIN rank \subseteq DOMAIN solve
  BY DEF IInv, Ranked
<1>14. Rankings' /\ Ranked'
  <2>1. CASE slots = 0
    <3>1. rank' = rank
      BY <1>3, <2>1
    <3>2. Rankings'
      BY <1>11, <3>1 DEF IInv, Rankings
    <3>3. DOMAIN rank' \subseteq DOMAIN solve' /\ p \notin DOMAIN rank'
      BY <1>2, <1>12, <1>13, <3>1
    <3>4. \A q \in DOMAIN rank' \ {p} : q \in DOMAIN rank /\ rank'[q] = rank[q] /\ solve'[q] = solve[q]
      BY <1>12, <1>13, <3>1
    <3>. QED
      BY <3>2, <3>3, <3>4, OneRanked
  <2>2. CASE slots # 0
    <3>1. rank' = Entered(rank, p, c)
      BY <1>3, <2>2
    <3>2. /\ Rankings' /\ DOMAIN rank' = DOMAIN rank \cup {p} /\ rank'[p] = c
          /\ \A q \in DOMAIN rank \ {p} : rank'[q] = rank[q]
      BY <1>1, <1>9, <1>11, <2>2, <3>1, RankingEntered
    <3>3. DOMAIN rank' \subseteq DOMAIN solve'
      BY <1>12, <1>13, <3>2
    <3>4. \A q \in DOMAIN rank' \ {p} : q \in DOMAIN rank /\ rank'[q] = rank[q] /\ solve'[q] = solve[q]
      BY <1>12, <1>13, <3>2
    <3>5. solve'[p].job # "list" /\ InOrder(rank'[p])
      BY <1>2, <1>8, <1>9, <1>12, <2>2, <3>2
    <3>. QED
      BY <3>2, <3>3, <3>4, <3>5, OneRanked
  <2>. QED
    BY <2>1, <2>2
<1>15. Rows'
  BY <1>11, RowsKept
<1>16. runs' \in [DOMAIN runs' -> BOOLEAN] /\ DOMAIN runs' \subseteq Run
  BY <1>11, HeldIs
<1>. QED
  BY <1>4, <1>12, <1>14, <1>15, <1>16, ScheduleWritten

\* Every factor of a score is a natural number or a fraction of two.
LEMMA CountsAre ==
    ASSUME Rows, NEW S \in SUBSET DOMAIN assigned
    PROVE  Count(S) \in Nat
<1>1. IsFiniteSet(S)
  BY FS_Subset DEF Rows
<1>2. \A a \in S : assigned[a] \in Nat
  BY DEF Rows, IsABag
<1>. QED
  BY <1>1, <1>2, SumOfNaturals DEF Count

LEMMA TrailingIs ==
    ASSUME IInv, NEW v, NEW day, NEW days
    PROVE  Trailing(v, day, days) \in Nat
<1>1. {a \in DOMAIN assigned : /\ a.v = v /\ ~a.declined
                               /\ RoleDay(a.role) \in (day - days)..(day - 1)} \in SUBSET DOMAIN assigned
  OBVIOUS
<1>. QED
  BY <1>1, CountsAre, Zenon DEF Trailing, BagToSet, IInv

LEMMA SkillMatchIs ==
    ASSUME IInv, NEW r, NEW v
    PROVE  SkillMatch(v, r) \in Nat \X (Nat \ {0})
<1>. DEFINE met == {n \in DOMAIN needs : n[1] = r /\ <<v, n[2]>> \in DOMAIN level}
            f == [n \in met |-> level[<<v, n[2]>>]]
<1>1. IsFiniteSet(met)
  BY FS_Subset DEF IInv, FiniteTables
<1>2. \A n \in met : f[n] \in Nat
  <2>1. \A k \in DOMAIN level : level[k] \in Level
    BY DEF IInv, TypeOK, Range
  <2>2. \A x \in Level : x \in Nat
    BY RosterAssumption
  <2>. QED
    BY <2>1, <2>2
<1>3. SkillMatch(v, r) = IF met = {} THEN <<1, 1>> ELSE <<SumFunctionOnSet(f, met), 5 * Cardinality(met)>>
  BY DEF SkillMatch
<1>. HIDE DEF met, f
<1>4. SumFunctionOnSet(f, met) \in Nat
  BY <1>1, <1>2, SumOfNaturals
<1>5. met # {} => 5 * Cardinality(met) \in Nat \ {0}
  <2>1. met # {} => Cardinality(met) \in Nat /\ Cardinality(met) # 0
    BY <1>1, FS_CardinalityType, FS_EmptySet
  <2>. QED
    BY <2>1
<1>. QED
  BY <1>3, <1>4, <1>5

LEMMA ScoreKept ==
    ASSUME IInv, NEW p \in DOMAIN rank, NEW v \in Volunteer, Score(p, v)
    PROVE  IInv'
<1>0. /\ p \in DOMAIN solve /\ p \in Request /\ rank[p] \in Ranking /\ rank[p].role \in DOMAIN roles
      /\ solve[p].job # "list" /\ InOrder(rank[p]) /\ rank \in Table(Request, Ranking)
  BY HeldIs DEF IInv, Rankings
<1>1. UNCHANGED <<now, profile, availability, asked, runs, assigned, loc, solve>>
  BY DEF Score
<1>2. UNCHANGED <<roles, runs, assigned, solve>>
  BY <1>1 DEF asked
<1>3. ASSUME NEW c \in Ranking, c.role = rank[p].role, InOrder(c), rank' = [rank EXCEPT ![p] = c]
      PROVE  IInv'
  <2>1. rank' = Entered(rank, p, c)
    BY <1>0, <1>3, ReplacedIn
  <2>2. /\ Rankings' /\ DOMAIN rank' = DOMAIN rank \cup {p} /\ rank'[p] = c
        /\ \A q \in DOMAIN rank \ {p} : rank'[q] = rank[q]
    BY <1>0, <1>2, <1>3, <2>1, RankingEntered
  <2>3. Staffings'
    BY <1>2 DEF IInv, Staffings
  <2>4. Ranked'
    <3>1. DOMAIN rank' \subseteq DOMAIN solve'
      BY <1>0, <1>2, <2>2 DEF IInv, Ranked
    <3>2. \A q \in DOMAIN rank' \ {p} : q \in DOMAIN rank /\ rank'[q] = rank[q] /\ solve'[q] = solve[q]
      BY <1>2, <2>2
    <3>3. solve'[p].job # "list" /\ InOrder(rank'[p])
      BY <1>0, <1>2, <1>3, <2>2
    <3>. QED
      BY <3>1, <3>2, <3>3, OneRanked
  <2>5. Rows'
    BY <1>2, RowsKept
  <2>6. runs' \in [DOMAIN runs' -> BOOLEAN] /\ DOMAIN runs' \subseteq Run
    BY <1>2, HeldIs
  <2>. QED
    BY <1>1, <2>2, <2>3, <2>4, <2>5, <2>6, ScheduleWritten
<1>4. /\ rank[p].load \in Table(Volunteer, Nat) /\ rank[p].tired \in Table(Volunteer, BOOLEAN)
      /\ rank[p].skill \in Table(Volunteer, Nat \X (Nat \ {0}))
  BY <1>0 DEF Ranking
<1>5. CASE ReadLoad(p, v)
  <2>. DEFINE n == Trailing(v, RoleDay(rank[p].role), 56)
              t == Entered(rank[p].load, v, n)
              c == [rank[p] EXCEPT !.load = t]
  <2>1. v \in rank[p].cands \ DOMAIN rank[p].load /\ rank' = [rank EXCEPT ![p] = c]
    BY <1>5 DEF ReadLoad
  <2>2. n \in Nat
    BY TrailingIs
  <2>. HIDE DEF n
  <2>3. t \in Table(Volunteer, Nat) /\ DOMAIN t = DOMAIN rank[p].load \cup {v}
    <3>1. t \in Table(Volunteer, Nat)
      BY <1>4, <2>2, EnteredIn, Zenon
    <3>. QED
      BY <3>1 DEF Entered
  <2>. HIDE DEF t
  <2>4. c \in Ranking /\ c.role = rank[p].role
    BY <1>0, <2>3 DEF Ranking
  <2>5. c.cands = rank[p].cands /\ c.load = t /\ c.tired = rank[p].tired /\ c.skill = rank[p].skill
    BY <1>0 DEF Ranking
  <2>. HIDE DEF c
  <2>6. DOMAIN rank[p].load # rank[p].cands
    BY <2>1
  <2>7. InOrder(c)
    BY <1>0, <2>1, <2>3, <2>5, <2>6 DEF InOrder
  <2>. QED
    BY <1>3, <2>1, <2>4, <2>7
<1>6. CASE ReadTired(p, v)
  <2>. DEFINE n == Trailing(v, RoleDay(rank[p].role), 7) > 0
              t == Entered(rank[p].tired, v, n)
              c == [rank[p] EXCEPT !.tired = t]
  <2>1. /\ DOMAIN rank[p].load = rank[p].cands
        /\ v \in rank[p].cands \ DOMAIN rank[p].tired /\ rank' = [rank EXCEPT ![p] = c]
    BY <1>6, Zenon DEF ReadTired
  <2>2. n \in BOOLEAN
    OBVIOUS
  <2>. HIDE DEF n
  <2>3. t \in Table(Volunteer, BOOLEAN) /\ DOMAIN t = DOMAIN rank[p].tired \cup {v}
    <3>1. t \in Table(Volunteer, BOOLEAN)
      BY <1>4, <2>2, EnteredIn, Zenon
    <3>. QED
      BY <3>1 DEF Entered
  <2>. HIDE DEF t
  <2>4. c \in Ranking /\ c.role = rank[p].role
    BY <1>0, <2>3 DEF Ranking
  <2>5. c.cands = rank[p].cands /\ c.load = rank[p].load /\ c.tired = t /\ c.skill = rank[p].skill
    BY <1>0 DEF Ranking
  <2>. HIDE DEF c
  <2>6. DOMAIN rank[p].tired # rank[p].cands
    BY <2>1
  <2>7. InOrder(c)
    BY <1>0, <2>1, <2>3, <2>5, <2>6 DEF InOrder
  <2>. QED
    BY <1>3, <2>1, <2>4, <2>7
<1>7. CASE ReadSkill(p, v)
  <2>. DEFINE n == SkillMatch(v, rank[p].role)
              t == Entered(rank[p].skill, v, n)
              c == [rank[p] EXCEPT !.skill = t]
  <2>1. /\ DOMAIN rank[p].tired = rank[p].cands
        /\ v \in rank[p].cands \ DOMAIN rank[p].skill /\ rank' = [rank EXCEPT ![p] = c]
    BY <1>7 DEF ReadSkill
  <2>2. n \in Nat \X (Nat \ {0})
    BY SkillMatchIs
  <2>. HIDE DEF n
  <2>3. t \in Table(Volunteer, Nat \X (Nat \ {0})) /\ DOMAIN t = DOMAIN rank[p].skill \cup {v}
    <3>1. t \in Table(Volunteer, Nat \X (Nat \ {0}))
      BY <1>4, <2>2, EnteredIn, Zenon
    <3>. QED
      BY <3>1 DEF Entered
  <2>. HIDE DEF t
  <2>4. c \in Ranking /\ c.role = rank[p].role
    BY <1>0, <2>3 DEF Ranking
  <2>5. c.cands = rank[p].cands /\ c.load = rank[p].load /\ c.tired = rank[p].tired /\ c.skill = t
    BY <1>0 DEF Ranking
  <2>. HIDE DEF c
  <2>6. InOrder(c)
    BY <1>0, <2>1, <2>3, <2>5 DEF InOrder
  <2>. QED
    BY <1>3, <2>1, <2>4, <2>6
<1>. QED
  BY <1>5, <1>6, <1>7 DEF Score

LEMMA PlaceKept ==
    ASSUME IInv, NEW p \in DOMAIN rank, NEW v \in Volunteer, Place(p, v)
    PROVE  IInv'
<1>. DEFINE c == rank[p]
            row == [v |-> v, role |-> c.role, run |-> solve[p].run, declined |-> FALSE]
            job == [solve[p] EXCEPT !.taken = @ \cup {v}]
<1>0. /\ p \in DOMAIN solve /\ p \in Request /\ c \in Ranking /\ c.role \in DOMAIN roles
      /\ solve[p].job # "list" /\ InOrder(c) /\ rank \in Table(Request, Ranking)
      /\ solve[p] \in Staffing /\ solve[p].run \in DOMAIN runs /\ DOMAIN solve[p].todo \subseteq DOMAIN roles
      /\ solve \in Table(Request, Staffing)
  BY HeldIs DEF IInv, Rankings, Staffings
<1>1. /\ assigned' = assigned (+) SetToBag({row}) /\ solve' = [solve EXCEPT ![p] = job]
      /\ UNCHANGED <<now, profile, availability, asked, runs, loc>>
  BY DEF Place
<1>2. rank' = IF c.slots = 1 THEN Without(rank, p) ELSE [rank EXCEPT ![p] = [c EXCEPT !.slots = @ - 1]]
  BY DEF Place
<1>3. UNCHANGED <<roles, runs>>
  BY <1>1 DEF asked
<1>4. job \in Staffing /\ job.run = solve[p].run /\ job.todo = solve[p].todo /\ job.job = solve[p].job
  BY <1>0 DEF Staffing
<1>5. row \in Asg /\ row.role = c.role /\ row.run = solve[p].run
  BY <1>0 DEF Asg, Ranking, Staffing
<1>. HIDE DEF row, job
<1>6. Rows'
  BY <1>0, <1>1, <1>3, <1>5, RowAdded
<1>7. solve' = Entered(solve, p, job)
  BY <1>0, <1>1, <1>4, ReplacedIn
<1>8. /\ Staffings' /\ DOMAIN solve' = DOMAIN solve \cup {p} /\ solve'[p] = job
      /\ \A q \in DOMAIN solve \ {p} : solve'[q] = solve[q]
  BY <1>0, <1>3, <1>4, <1>7, StaffingEntered
<1>9. DOMAIN rank \subseteq DOMAIN solve
  BY DEF IInv, Ranked
<1>10. Rankings' /\ Ranked'
  <2>1. CASE c.slots = 1
    <3>1. rank' = Without(rank, p)
      BY <1>2, <2>1
    <3>2. Rankings' /\ DOMAIN rank' = DOMAIN rank \ {p} /\ \A q \in DOMAIN rank \ {p} : rank'[q] = rank[q]
      BY <1>3, <3>1, RankingLeft
    <3>3. DOMAIN rank' \subseteq DOMAIN solve' /\ p \notin DOMAIN rank'
      BY <1>8, <1>9, <3>2
    <3>4. \A q \in DOMAIN rank' \ {p} : q \in DOMAIN rank /\ rank'[q] = rank[q] /\ solve'[q] = solve[q]
      BY <1>8, <1>9, <3>2
    <3>. QED
      BY <3>2, <3>3, <3>4, OneRanked
  <2>2. CASE c.slots # 1
    <3>. DEFINE d == [c EXCEPT !.slots = @ - 1]
    <3>1. rank' = [rank EXCEPT ![p] = d]
      BY <1>2, <2>2
    <3>2. d \in Ranking /\ d.role = c.role
      <4>1. c.slots \in Nat /\ c.slots - 1 \in Nat \ {0}
        BY <1>0, <2>2 DEF Ranking
      <4>. QED
        BY <1>0, <4>1 DEF Ranking
    <3>3. InOrder(d)
      <4>1. d.cands = c.cands /\ d.load = c.load /\ d.tired = c.tired /\ d.skill = c.skill
        BY <1>0 DEF Ranking
      <4>. HIDE DEF d
      <4>. QED
        BY <1>0, <4>1 DEF InOrder
    <3>. HIDE DEF d
    <3>4. rank' = Entered(rank, p, d)
      BY <1>0, <3>1, <3>2, ReplacedIn
    <3>5. d.role \in DOMAIN roles
      BY <1>0, <3>2
    <3>6. /\ Rankings' /\ DOMAIN rank' = DOMAIN rank \cup {p} /\ rank'[p] = d
          /\ \A q \in DOMAIN rank \ {p} : rank'[q] = rank[q]
      BY <1>0, <1>3, <3>2, <3>4, <3>5, RankingEntered
    <3>7. DOMAIN rank' \subseteq DOMAIN solve'
      BY <1>8, <1>9, <3>6
    <3>8. \A q \in DOMAIN rank' \ {p} : q \in DOMAIN rank /\ rank'[q] = rank[q] /\ solve'[q] = solve[q]
      BY <1>8, <1>9, <3>6
    <3>9. solve'[p].job # "list" /\ InOrder(rank'[p])
      BY <1>0, <1>4, <1>8, <3>3, <3>6
    <3>. QED
      BY <3>6, <3>7, <3>8, <3>9, OneRanked
  <2>. QED
    BY <2>1, <2>2
<1>11. runs' \in [DOMAIN runs' -> BOOLEAN] /\ DOMAIN runs' \subseteq Run
  BY <1>3, HeldIs
<1>. QED
  BY <1>1, <1>6, <1>8, <1>10, <1>11, ScheduleWritten

LEMMA FinishKept ==
    ASSUME IInv, NEW p \in DOMAIN solve, Finish(p)
    PROVE  IInv'
<1>1. /\ p \notin DOMAIN rank /\ solve' = Without(solve, p)
      /\ UNCHANGED <<now, profile, availability, asked, assigned, loc, rank>>
  BY DEF Finish
<1>2. runs' = IF solve[p].job = "generate" THEN [runs EXCEPT ![solve[p].run] = TRUE] ELSE runs
  BY DEF Finish
<1>3. runs' \in [DOMAIN runs' -> BOOLEAN] /\ DOMAIN runs' = DOMAIN runs /\ DOMAIN runs' \subseteq Run
  BY <1>2, HeldIs
<1>4. UNCHANGED <<roles, assigned, rank>>
  BY <1>1 DEF asked
<1>5. Staffings' /\ DOMAIN solve' = DOMAIN solve \ {p} /\ \A q \in DOMAIN solve \ {p} : solve'[q] = solve[q]
  BY <1>1, <1>3, <1>4, StaffingLeft
<1>6. Rankings'
  BY <1>4 DEF IInv, Rankings
<1>7. Ranked'
  <2>1. DOMAIN rank' \subseteq DOMAIN solve' /\ p \notin DOMAIN rank'
    BY <1>1, <1>4, <1>5 DEF IInv, Ranked
  <2>2. \A q \in DOMAIN rank' \ {p} : q \in DOMAIN rank /\ rank'[q] = rank[q] /\ solve'[q] = solve[q]
    BY <1>4, <1>5, <2>1
  <2>. QED
    BY <2>1, <2>2, OneRanked
<1>8. Rows'
  BY <1>3, <1>4, RowsKept
<1>. QED
  BY <1>1, <1>3, <1>5, <1>6, <1>7, <1>8, ScheduleWritten

LEMMA SolveThrowsKept ==
    ASSUME IInv, NEW p \in DOMAIN solve, SolveThrows(p)
    PROVE  IInv'
<1>1. /\ solve' = Without(solve, p) /\ rank' = Without(rank, p)
      /\ UNCHANGED <<now, profile, availability, asked, runs, assigned, loc>>
  BY DEF SolveThrows
<1>2. UNCHANGED <<roles, runs, assigned>>
  BY <1>1 DEF asked
<1>3. Staffings' /\ DOMAIN solve' = DOMAIN solve \ {p} /\ \A q \in DOMAIN solve \ {p} : solve'[q] = solve[q]
  BY <1>1, <1>2, StaffingLeft
<1>4. Rankings' /\ DOMAIN rank' = DOMAIN rank \ {p} /\ \A q \in DOMAIN rank \ {p} : rank'[q] = rank[q]
  BY <1>1, <1>2, RankingLeft
<1>5. Ranked'
  <2>1. DOMAIN rank' \subseteq DOMAIN solve' /\ p \notin DOMAIN rank'
    BY <1>3, <1>4 DEF IInv, Ranked
  <2>2. \A q \in DOMAIN rank' \ {p} : q \in DOMAIN rank /\ rank'[q] = rank[q] /\ solve'[q] = solve[q]
    BY <1>3, <1>4, <2>1
  <2>. QED
    BY <2>1, <2>2, OneRanked
<1>6. Rows'
  BY <1>2, RowsKept
<1>7. runs' \in [DOMAIN runs' -> BOOLEAN] /\ DOMAIN runs' \subseteq Run
  BY <1>2, HeldIs
<1>. QED
  BY <1>1, <1>3, <1>4, <1>5, <1>6, <1>7, ScheduleWritten

LEMMA OverrideKept ==
    ASSUME IInv, NEW a \in BagToSet(assigned), NEW v \in Volunteer, Override(a, v)
    PROVE  IInv'
<1>. DEFINE new == [a EXCEPT !.v = v]
<1>1. a \in Asg /\ a.role \in DOMAIN roles /\ a.run \in DOMAIN runs
  BY DEF IInv, Rows, BagToSet
<1>2. /\ assigned' = Replaced(assigned, a, new)
      /\ UNCHANGED <<now, profile, availability, asked, runs, solve, rank, loc>>
  BY DEF Override
<1>3. new \in Asg /\ new.role \in DOMAIN roles /\ new.run \in DOMAIN runs
  BY <1>1 DEF Asg
<1>. HIDE DEF new
<1>4. UNCHANGED <<roles, runs, solve, rank>>
  BY <1>2 DEF asked
<1>5. Rows'
  BY <1>2, <1>3, <1>4, RowReplaced
<1>6. Staffings' /\ Rankings' /\ Ranked'
  BY <1>4 DEF IInv, Staffings, Rankings, Ranked
<1>7. runs' \in [DOMAIN runs' -> BOOLEAN] /\ DOMAIN runs' \subseteq Run
  BY <1>4, HeldIs
<1>. QED
  BY <1>2, <1>5, <1>6, <1>7, ScheduleWritten

LEMMA ScheduleStepKept == ASSUME IInv, SolveStep PROVE IInv'
<1>1. CASE \E p \in Request : \/ \E u \in Run, s \in Service : Generate(p, u, s)
                              \/ \E a \in BagToSet(assigned) : Decline(p, a)
  BY <1>1, GenerateKept, DeclineKept
<1>2. CASE \E p \in DOMAIN solve : \/ ListTaken(p) \/ Finish(p) \/ SolveThrows(p)
                                   \/ \E r \in DOMAIN solve[p].todo : Resolve(p, r)
  BY <1>2, ListTakenKept, FinishKept, SolveThrowsKept, ResolveKept
<1>3. CASE \E p \in DOMAIN rank, v \in Volunteer : Score(p, v) \/ Place(p, v)
  BY <1>3, ScoreKept, PlaceKept
<1>4. CASE \E a \in BagToSet(assigned), v \in Volunteer : Override(a, v)
  BY <1>4, OverrideKept
<1>. QED
  BY <1>1, <1>2, <1>3, <1>4 DEF SolveStep

LEMMA InvStep == ASSUME IInv, [Next]_vars PROVE IInv'
<1>1. ASSUME now' \in Clock, UNCHANGED <<profile, availability, asked, schedule, loc>> PROVE IInv'
  <2>1. UNCHANGED <<status, preferred, trained, availability, skills, level, roles, needs, loc>>
    BY <1>1 DEF profile, asked
  <2>2. Rows' /\ Staffings' /\ Rankings' /\ Ranked' /\ runs' = runs
    BY <1>1, <2>1, ScheduleKept
  <2>3. Others'
    BY <1>1, <2>1, <2>2, OthersAre DEF Others, BagToSet
  <2>4. TypeOK'
    BY <2>2, <2>3, TypePartsNext
  <2>5. Calls' /\ FiniteTables'
    BY <2>1 DEF IInv, Calls, Held, FiniteTables
  <2>. QED
    BY <2>2, <2>4, <2>5 DEF IInv
<1>2. CASE Tick
  BY <1>1, <1>2 DEF Tick
<1>3. CASE UNCHANGED vars
  BY <1>1, <1>3 DEF vars, IInv, TypeOK
<1>. QED
  BY <1>2, <1>3, ProfileKept, AvailabilityKept, SkillsKept, RolesKept, ScheduleStepKept DEF Next

LEMMA Inductive == Spec => []IInv
<1>1. Init => IInv
  BY InitInv
<1>2. IInv /\ [Next]_vars => IInv'
  BY InvStep
<1>. QED
  BY <1>1, <1>2, PTL DEF Spec

\* Every table keeps its type: a level is of a volunteer and of a skill that is
\* stored, a need of a role and of a skill that are, and a call that staffs a
\* run names roles and a run that are there, whatever calls interleave.
THEOREM TypeCorrect == Spec => []TypeOK
<1>1. IInv => TypeOK
  BY DEF IInv
<1>. QED
  BY <1>1, Inductive, PTL

-----------------------------------------------------------------------------
(* The solver prefers the rested. *)

LEMMA BusiestIs ==
    ASSUME NEW c \in Ranking
    PROVE  Busiest(c) \in Nat /\ Busiest(c) > 0
<1>. DEFINE D == DOMAIN c.load
            image == Range(c.load)
            S == {1} \cup image
<1>1. c.load \in [D -> Nat] /\ D \in SUBSET Volunteer
  <2>1. c.load \in Table(Volunteer, Nat)
    BY DEF Ranking
  <2>. QED
    BY <2>1, TableIs
<1>2. IsFiniteSet(D)
  BY <1>1, FS_Subset, RosterAssumption
<1>3. IsFiniteSet(image) /\ image \subseteq Nat
  <2>1. c.load \in Surjection(D, image)
    BY <1>1 DEF Surjection, Range
  <2>2. image \subseteq Nat
    BY <1>1 DEF Range
  <2>. HIDE DEF D, image
  <2>. QED
    BY <1>2, <2>1, <2>2, FS_Surjection
<1>4. Busiest(c) = Max(S)
  BY DEF Busiest
<1>. HIDE DEF image
<1>5. IsFiniteSet(S) /\ S \in SUBSET Nat /\ 1 \in S
  <2>1. IsFiniteSet({1})
    BY FS_Singleton, Zenon
  <2>2. IsFiniteSet(S)
    BY <1>3, <2>1, FS_Union, Zenon
  <2>. QED
    BY <1>3, <2>2
<1>. HIDE DEF S
<1>6. PICK m \in S : \A n \in S : n <= m
  BY <1>5, GreatestOf
<1>7. Max(S) \in S /\ \A n \in S : Max(S) >= n
  <2>1. m \in S /\ \A n \in S : m >= n
    BY <1>5, <1>6
  <2>. QED
    BY <2>1, Zenon DEF Max
<1>8. \A y \in Nat : (\A n \in S : y >= n) => y > 0
  BY <1>5
<1>9. Max(S) \in Nat /\ Max(S) > 0
  BY <1>5, <1>7, <1>8, Zenon
<1>. QED
  BY <1>4, <1>9

LEMMA ProductsOrdered ==
    ASSUME NEW x \in Int, NEW y \in Int, NEW z \in Nat, z > 0
    PROVE  (x <= y => z * x <= z * y) /\ (x < y => z * x < z * y)
OBVIOUS

LEMMA SumsOrdered ==
    ASSUME NEW b \in Nat, b > 0, NEW w \in Nat, w > 0,
           NEW x1 \in Int, NEW x2 \in Int, x1 <= x2,
           NEW y1 \in Int, NEW y2 \in Int, y1 <= y2,
           NEW z1 \in Int, NEW z2 \in Int, z1 < z2
    PROVE  b * (3000 * x1 + w * y1) + 15 * (w * z1) < b * (3000 * x2 + w * y2) + 15 * (w * z2)
<1>1. w * y1 <= w * y2 /\ w * z1 < w * z2 /\ w * y1 \in Int /\ w * y2 \in Int /\ w * z1 \in Int /\ w * z2 \in Int
  BY ProductsOrdered
<1>. DEFINE p1 == 3000 * x1 + w * y1
            p2 == 3000 * x2 + w * y2
<1>2. p1 \in Int /\ p2 \in Int /\ p1 <= p2
  BY <1>1
<1>. HIDE DEF p1, p2
<1>3. b * p1 <= b * p2 /\ b * p1 \in Int /\ b * p2 \in Int
  BY <1>2, ProductsOrdered
<1>4. b * p1 + 15 * (w * z1) < b * p2 + 15 * (w * z2)
  BY <1>1, <1>3
<1>. QED
  BY <1>4 DEF p1, p2

\* A sum over a common denominator.
LEMMA Scaled ==
    ASSUME NEW b \in Int, NEW n \in Int, NEW d \in Int, NEW y \in Int, NEW z \in Int, NEW e \in Int
    PROVE  (b * (3000 * n + d * y) + 15 * (d * z)) * e = b * (3000 * (n * e) + (d * e) * y) + 15 * ((d * e) * z)
<1>1. (b * (3000 * n + d * y) + 15 * (d * z)) * e = (b * (3000 * n + d * y)) * e + (15 * (d * z)) * e
  OBVIOUS
<1>2. (b * (3000 * n + d * y)) * e = b * ((3000 * n + d * y) * e)
  OBVIOUS
<1>3. (3000 * n + d * y) * e = 3000 * (n * e) + (d * e) * y
  OBVIOUS
<1>4. (15 * (d * z)) * e = 15 * ((d * e) * z)
  OBVIOUS
<1>. QED
  BY <1>1, <1>2, <1>3, <1>4

\* All factors of the candidates have been read.
AllRead(c) == DOMAIN c.load = c.cands /\ DOMAIN c.tired = c.cands /\ DOMAIN c.skill = c.cands

LEMMA FactorsAre ==
    ASSUME NEW c \in Ranking, AllRead(c), NEW v \in c.cands
    PROVE  /\ v \in Volunteer /\ c.load[v] \in Nat
           /\ c.skill[v][1] \in Nat /\ c.skill[v][2] \in Nat /\ c.skill[v][2] > 0
           /\ Reliability[v] \in Nat /\ Preference(c, v) \in Nat /\ Fatigue(c, v) \in Nat
<1>1. v \in Volunteer /\ c.load \in Table(Volunteer, Nat) /\ c.skill \in Table(Volunteer, Nat \X (Nat \ {0}))
  BY DEF Ranking
<1>2. c.load \in [c.cands -> Nat] /\ c.skill \in [c.cands -> Nat \X (Nat \ {0})]
  BY <1>1, TableIs DEF AllRead
<1>3. c.load[v] \in Nat /\ c.skill[v] \in Nat \X (Nat \ {0})
  BY <1>2
<1>4. Reliability[v] \in Nat
  BY <1>1, RosterAssumption
<1>5. Preference(c, v) \in Nat /\ Fatigue(c, v) \in Nat
  BY DEF Preference, Fatigue
<1>. QED
  BY <1>1, <1>3, <1>4, <1>5

LEMMA RestedScoresMore ==
    ASSUME NEW c \in Ranking, AllRead(c), NEW v \in c.cands, NEW w \in c.cands,
           c.skill[w][1] * c.skill[v][2] >= c.skill[v][1] * c.skill[w][2],
           Reliability[w] >= Reliability[v],
           v \in c.prefer => w \in c.prefer,
           c.tired[w] => c.tired[v],
           c.load[w] < c.load[v]
    PROVE  ~ Before(c, v, w)
<1>. DEFINE rest(x) == 25 * Reliability[x] + 20 * Preference(c, x) + 10 * Fatigue(c, x)
            b == Busiest(c)
            n1 == c.skill[v][1]
            d1 == c.skill[v][2]
            n2 == c.skill[w][1]
            d2 == c.skill[w][2]
            y1 == rest(v)
            y2 == rest(w)
            z1 == Balance(c, v)
            z2 == Balance(c, w)
<1>1. /\ c.load[v] \in Nat /\ n1 \in Nat /\ d1 \in Nat /\ d1 > 0
      /\ Reliability[v] \in Nat /\ Preference(c, v) \in Nat /\ Fatigue(c, v) \in Nat
  BY FactorsAre
<1>2. /\ c.load[w] \in Nat /\ n2 \in Nat /\ d2 \in Nat /\ d2 > 0
      /\ Reliability[w] \in Nat /\ Preference(c, w) \in Nat /\ Fatigue(c, w) \in Nat
  BY FactorsAre
<1>3. b \in Nat /\ b > 0
  BY BusiestIs
<1>4. y1 \in Int /\ y2 \in Int /\ y1 <= y2
  <2>1. Preference(c, v) <= Preference(c, w)
    BY DEF Preference
  <2>2. Fatigue(c, v) <= Fatigue(c, w)
    BY DEF Fatigue
  <2>. QED
    BY <1>1, <1>2, <2>1, <2>2
<1>5. z1 \in Int /\ z2 \in Int /\ z1 < z2
  BY <1>1, <1>2, <1>3 DEF Balance
<1>6. FinalScore(c, v) = b * (3000 * n1 + d1 * y1) + 15 * (d1 * z1)
  BY DEF FinalScore
<1>7. FinalScore(c, w) = b * (3000 * n2 + d2 * y2) + 15 * (d2 * z2)
  BY DEF FinalScore
<1>8. n1 * d2 <= n2 * d1
  BY <1>1, <1>2
<1>9. Before(c, v, w) <=> FinalScore(c, w) * d1 <= FinalScore(c, v) * d2
  BY DEF Before
<1>. HIDE DEF rest, b, n1, d1, n2, d2, y1, y2, z1, z2
<1>10. FinalScore(c, v) * d2 = b * (3000 * (n1 * d2) + (d1 * d2) * y1) + 15 * ((d1 * d2) * z1)
  BY <1>1, <1>2, <1>3, <1>4, <1>5, <1>6, Scaled
<1>11. FinalScore(c, w) * d1 = b * (3000 * (n2 * d1) + (d2 * d1) * y2) + 15 * ((d2 * d1) * z2)
  BY <1>1, <1>2, <1>3, <1>4, <1>5, <1>7, Scaled
<1>12. d1 * d2 \in Nat /\ d1 * d2 > 0 /\ d2 * d1 = d1 * d2 /\ n1 * d2 \in Int /\ n2 * d1 \in Int
  <2>1. d1 * d2 \in Nat /\ d2 * d1 = d1 * d2 /\ n1 * d2 \in Int /\ n2 * d1 \in Int
    BY <1>1, <1>2
  <2>2. d1 * 0 < d1 * d2 /\ d1 * 0 = 0
    BY <1>1, <1>2, ProductsOrdered
  <2>. QED
    BY <2>1, <2>2
<1>. DEFINE e == d1 * d2
            x1 == n1 * d2
            x2 == n2 * d1
            s1 == b * (3000 * x1 + e * y1) + 15 * (e * z1)
            s2 == b * (3000 * x2 + e * y2) + 15 * (e * z2)
<1>13. FinalScore(c, v) * d2 = s1 /\ FinalScore(c, w) * d1 = s2
  BY <1>10, <1>11, <1>12
<1>14. e \in Nat /\ e > 0 /\ x1 \in Int /\ x2 \in Int /\ x1 <= x2
  BY <1>8, <1>12
<1>. HIDE DEF e, x1, x2
<1>15. s1 < s2
  BY <1>3, <1>4, <1>5, <1>14, SumsOrdered
<1>16. s1 \in Int /\ s2 \in Int
  BY <1>3, <1>4, <1>5, <1>14
<1>. HIDE DEF s1, s2
<1>17. ~(s2 <= s1)
  BY <1>15, <1>16
<1>. QED
  BY <1>9, <1>13, <1>17

\* Who a call with a role at hand takes is the best of those left, by factors
\* that have all been read.
LEMMA TakenIsBest ==
    ASSUME IInv, [Next]_vars, NEW p \in DOMAIN rank, p \in DOMAIN solve', NEW v \in solve'[p].taken \ solve[p].taken
    PROVE  /\ AllRead(rank[p]) /\ v \in rank[p].cands
           /\ \A w \in rank[p].cands \ solve'[p].taken : Before(rank[p], v, w)
<1>0. /\ p \in DOMAIN solve /\ solve \in [DOMAIN solve -> Staffing] /\ solve[p] \in Staffing
      /\ solve[p].job # "list" /\ InOrder(rank[p])
  BY HeldIs, TableIs DEF IInv, Staffings
<1>1. ASSUME solve'[p].taken = solve[p].taken PROVE FALSE
  BY <1>1
<1>2. ASSUME NEW q, NEW job, q \notin DOMAIN solve, solve' = Entered(solve, q, job) PROVE FALSE
  <2>1. solve'[p] = solve[p]
    BY <1>0, <1>2 DEF Entered
  <2>. QED
    BY <1>1, <2>1
<1>3. ASSUME NEW q, solve' = Without(solve, q) PROVE FALSE
  <2>1. solve'[p] = solve[p]
    BY <1>3 DEF Without
  <2>. QED
    BY <1>1, <2>1
<1>4. ASSUME NEW q \in DOMAIN solve, NEW r, Resolve(q, r) PROVE FALSE
  <2>1. solve' = [solve EXCEPT ![q].todo = Without(solve[q].todo, r)]
    BY <1>4 DEF Resolve
  <2>2. solve'[p].taken = solve[p].taken
    BY <1>0, <2>1 DEF Staffing
  <2>. QED
    BY <1>1, <2>2
<1>5. ASSUME NEW q \in DOMAIN solve, ListTaken(q) PROVE FALSE
  <2>. DEFINE placed == {a.v : a \in {b \in BagToSet(assigned) : b.run = solve[q].run /\ ~b.declined}}
  <2>1. solve[q].job = "list" /\ solve' = [solve EXCEPT ![q].job = "replace", ![q].taken = @ \cup placed]
    BY <1>5 DEF ListTaken
  <2>2. q # p
    BY <1>0, <2>1
  <2>. HIDE DEF placed
  <2>3. solve'[p] = solve[p]
    BY <1>0, <2>1, <2>2
  <2>. QED
    BY <1>1, <2>3
<1>6. ASSUME NEW q \in DOMAIN rank, NEW x \in Volunteer, Place(q, x)
      PROVE  /\ AllRead(rank[p]) /\ v \in rank[p].cands
             /\ \A w \in rank[p].cands \ solve'[p].taken : Before(rank[p], v, w)
  <2>1. solve' = [solve EXCEPT ![q].taken = @ \cup {x}]
    BY <1>6 DEF Place
  <2>2. CASE q # p
    <3>1. solve'[p] = solve[p]
      BY <1>0, <2>1, <2>2
    <3>. QED
      BY <1>1, <3>1
  <2>3. CASE q = p
    <3>1. solve'[p].taken = solve[p].taken \cup {x}
      BY <1>0, <2>1, <2>3 DEF Staffing
    <3>2. v = x
      BY <3>1
    <3>3. /\ DOMAIN rank[p].skill = rank[p].cands /\ x \in rank[p].cands \ solve[p].taken
          /\ \A w \in rank[p].cands \ solve[p].taken : Before(rank[p], x, w)
      BY <1>6, <2>3, Zenon DEF Place
    <3>4. AllRead(rank[p])
      BY <1>0, <3>3 DEF AllRead, InOrder
    <3>. QED
      BY <3>1, <3>2, <3>3, <3>4
  <2>. QED
    BY <2>2, <2>3
<1>7. CASE UNCHANGED solve
  BY <1>1, <1>7
<1>8. ASSUME ~UNCHANGED solve PROVE SolveStep
  BY <1>8 DEF Next, vars, schedule, ProfileStep, UpdateStatus, AddPreferredRole, AddTraining, AvailabilityStep, Submit,
         SubmitRecurring, UpdateAvailability, SkillStep, SelectSkill, StoreSkill, SkillThrows,
         RoleStep, CreateRole, UpdateRole, Tick
<1>9. CASE SolveStep
  <2>1. CASE \E q \in Request : \/ \E u \in Run, s \in Service : Generate(q, u, s)
                                \/ \E a \in BagToSet(assigned) : Decline(q, a)
    BY <1>2, <2>1 DEF Generate, Decline, Starts, Free
  <2>2. CASE \E q \in DOMAIN solve : \/ ListTaken(q) \/ Finish(q) \/ SolveThrows(q)
                                     \/ \E r \in DOMAIN solve[q].todo : Resolve(q, r)
    <3>1. ASSUME NEW q \in DOMAIN solve, Finish(q) \/ SolveThrows(q) PROVE FALSE
      BY <1>3, <3>1 DEF Finish, SolveThrows
    <3>. QED
      BY <1>4, <1>5, <2>2, <3>1
  <2>3. CASE \E q \in DOMAIN rank, x \in Volunteer : Score(q, x) \/ Place(q, x)
    <3>1. ASSUME NEW q \in DOMAIN rank, NEW x \in Volunteer, Score(q, x) PROVE UNCHANGED solve
      BY <3>1 DEF Score
    <3>. QED
      BY <1>6, <1>7, <2>3, <3>1
  <2>4. CASE \E a \in BagToSet(assigned), x \in Volunteer : Override(a, x)
    BY <1>7, <2>4 DEF Override
  <2>. QED
    BY <1>9, <2>1, <2>2, <2>3, <2>4 DEF SolveStep
<1>. QED
  BY <1>7, <1>8, <1>9

\* Whoever the solver places, nobody it leaves is as good in every factor and
\* has served less: neither the weights nor the busiest candidate nor the shares
\* of the skills turn the comparison around, for the first place of a role and
\* for the next ones, whatever the other calls have written since it read.
THEOREM SolverPrefersRested == Spec => RestedFirst
<1>. DEFINE Rests ==
         \A p \in DOMAIN rank : p \in DOMAIN solve' =>
         LET c == rank[p]
         IN  \A v \in solve'[p].taken \ solve[p].taken : ~ \E w \in c.cands \ solve'[p].taken :
               /\ c.skill[w][1] * c.skill[v][2] >= c.skill[v][1] * c.skill[w][2]
               /\ Reliability[w] >= Reliability[v]
               /\ v \in c.prefer => w \in c.prefer
               /\ c.tired[w] => c.tired[v]
               /\ c.load[w] < c.load[v]
<1>1. IInv /\ [Next]_vars => Rests
  <2>. SUFFICES ASSUME IInv, [Next]_vars, NEW p \in DOMAIN rank, p \in DOMAIN solve',
                       NEW v \in solve'[p].taken \ solve[p].taken, NEW w \in rank[p].cands \ solve'[p].taken,
                       rank[p].skill[w][1] * rank[p].skill[v][2] >= rank[p].skill[v][1] * rank[p].skill[w][2],
                       Reliability[w] >= Reliability[v],
                       v \in rank[p].prefer => w \in rank[p].prefer,
                       rank[p].tired[w] => rank[p].tired[v],
                       rank[p].load[w] < rank[p].load[v]
                PROVE  FALSE
    BY Zenon
  <2>1. AllRead(rank[p]) /\ v \in rank[p].cands /\ Before(rank[p], v, w)
    BY TakenIsBest
  <2>2. rank[p] \in Ranking
    BY HeldIs
  <2>3. ~ Before(rank[p], v, w)
    BY <2>1, <2>2, RestedScoresMore
  <2>. QED
    BY <2>1, <2>3
<1>2. IInv /\ [Next]_vars => [Rests]_solve
  BY <1>1, Zenon
<1>. QED
  BY <1>2, Inductive, PTL DEF Spec, RestedFirst

-----------------------------------------------------------------------------
(* The reports agree. *)

LEMMA LoadIs ==
    ASSUME IInv, NEW v
    PROVE  Load(v) \in Nat
<1>1. Served(v, now - 56) \in SUBSET DOMAIN assigned
  BY DEF Served, BagToSet
<1>. QED
  BY <1>1, CountsAre, Zenon DEF Load, IInv

\* Nobody who was idle for eight weeks is burning out: an idle load is none.
LEMMA IdleRest ==
    ASSUME IInv
    PROVE  Idle(8) \cap BurntOut = {}
<1>. SUFFICES ASSUME NEW v \in Volunteer, v \in Idle(8), v \in BurntOut PROVE FALSE
  BY DEF Idle
<1>1. Load(v) = 0
  <2>1. now - 7 * 8 = now - 56
    OBVIOUS
  <2>2. Served(v, now - 7 * 8) = {}
    BY DEF Idle
  <2>3. Served(v, now - 56) = {}
    BY <2>1, <2>2
  <2>. QED
    BY <2>3, SumOfNothing, Zenon DEF Load, Count
<1>. DEFINE peers(m) == {n[1] : n \in {o \in Member : o[2] = m[2]}}
            f(m) == [w \in peers(m) |-> Load(w)]
            total(m) == SumFunctionOnSet(f(m), peers(m))
<1>2. PICK m \in Member : m[1] = v /\ total(m) > 0 /\ 2 * Cardinality(peers(m)) * Load(v) >= 3 * total(m)
  BY DEF BurntOut
<1>3. peers(m) \in SUBSET Volunteer
  BY RosterAssumption
<1>4. \A w \in peers(m) : f(m)[w] \in Nat
  BY LoadIs
<1>. DEFINE P == peers(m)
            F == f(m)
<1>5. P \in SUBSET Volunteer /\ \A w \in P : F[w] \in Nat
  BY <1>3, <1>4
<1>6. SumFunctionOnSet(F, P) > 0 /\ 2 * Cardinality(P) * Load(v) >= 3 * SumFunctionOnSet(F, P)
  BY <1>2
<1>. HIDE DEF P, F
<1>7. IsFiniteSet(P) /\ Cardinality(P) \in Nat
  BY <1>5, FS_Subset, FS_CardinalityType, RosterAssumption
<1>8. SumFunctionOnSet(F, P) \in Nat
  BY <1>5, <1>7, SumOfNaturals
<1>9. 2 * Cardinality(P) * 0 = 0
  BY <1>7
<1>. QED
  BY <1>1, <1>6, <1>8, <1>9

LEMMA ShareOfAll ==
    ASSUME NEW s \in Nat, NEW n \in Nat, n > 0, s <= n
    PROVE  (200 * s + n) \div (2 * n) <= 100
<1>. DEFINE x == 200 * s + n
            d == 2 * n
            q == x \div d
<1>1. x \in Nat /\ d \in Nat \ {0} /\ x <= 100 * d + n /\ 2 * n = d
  OBVIOUS
<1>2. q \in Nat /\ q * d <= x
  BY <1>1, QuotientIs
<1>. HIDE DEF q, x, d
<1>3. q <= 100
  <2>. SUFFICES ASSUME q >= 101 PROVE FALSE
    BY <1>2
  <2>1. 101 * d <= q * d
    BY <1>1, <1>2, Products
  <2>. QED
    BY <1>1, <1>2, <2>1
<1>. QED
  BY <1>3 DEF q, x, d

\* More than all who are active answered only if one who is not active did.
LEMMA ShareNeedsInactive ==
    ASSUME IInv, NEW pct \in AvailabilityPct, pct > 100,
           \A a \in BagToSet(availability) : status[a.v] = "ACTIVE"
    PROVE  FALSE
<1>. DEFINE S == Submitted(Min({DayOf[s] : s \in Upcoming}))
<1>1. Active # {} /\ pct = (200 * Cardinality(S) + Cardinality(Active)) \div (2 * Cardinality(Active))
  BY DEF AvailabilityPct
<1>2. S \in SUBSET Active
  BY DEF Submitted, Active
<1>. HIDE DEF S
<1>3. IsFiniteSet(Active)
  BY FS_Subset, RosterAssumption DEF Active
<1>4. Cardinality(Active) \in Nat /\ Cardinality(Active) # 0
  BY <1>1, <1>3, FS_CardinalityType, FS_EmptySet
<1>5. IsFiniteSet(S) /\ Cardinality(S) <= Cardinality(Active)
  BY <1>2, <1>3, FS_Subset
<1>6. Cardinality(S) \in Nat
  BY <1>5, FS_CardinalityType
<1>. DEFINE m == Cardinality(S)
            n == Cardinality(Active)
<1>7. m \in Nat /\ n \in Nat /\ n > 0 /\ m <= n /\ pct = (200 * m + n) \div (2 * n)
  BY <1>1, <1>4, <1>5, <1>6
<1>. HIDE DEF m, n
<1>8. pct <= 100 /\ pct \in Nat
  <2>1. (200 * m + n) \div (2 * n) \in Nat
    BY <1>7, QuotientIs
  <2>. QED
    BY <1>7, <2>1, ShareOfAll
<1>. QED
  BY <1>8

\* The analytics, the assistant and the dashboard agree, of every table.
THEOREM FiguresAgree == Spec => []ReportsAgree
<1>1. IInv => ReportsAgree
  <2>1. IInv => Idle(8) \cap BurntOut = {}
    BY IdleRest
  <2>2. IInv => \A pct \in AvailabilityPct : pct > 100 =>
                    \E a \in BagToSet(availability) : status[a.v] # "ACTIVE"
    BY ShareNeedsInactive, Zenon
  <2>. QED
    BY <2>1, <2>2 DEF ReportsAgree
<1>. QED
  BY <1>1, Inductive, PTL
=============================================================================

