-------------------------- MODULE ServiceDayProofs --------------------------
(***************************************************************************)
(* Proofs about ServiceDay, for any volunteers, items, requests and bounds.  *)
(***************************************************************************)
EXTENDS ServiceDay, TLAPS, FiniteSetTheorems, SequenceTheorems

-----------------------------------------------------------------------------
(* The copies of a series: the i-th delay is the one with i - 1 before it.   *)

Rank(D, d) == Cardinality({e \in D : e < d})
Delay(D, i) == CHOOSE d \in D : Rank(D, d) = i - 1

\* A finite set of numbers has an i-th one: ranks are distinct, and as many as
\* there are places.
LEMMA Ranks ==
    ASSUME NEW D \in SUBSET Nat, IsFiniteSet(D), NEW i \in 1..Cardinality(D)
    PROVE  \E d \in D : Rank(D, d) = i - 1
<1>. DEFINE places == 0..(Cardinality(D) - 1)
            rank == [d \in D |-> Rank(D, d)]
<1>0. Cardinality(D) \in Nat
  BY FS_CardinalityType
<1>1. \A d \in D : /\ IsFiniteSet({e \in D : e < d})
                   /\ Rank(D, d) \in Nat /\ Rank(D, d) < Cardinality(D)
  <2>. SUFFICES ASSUME NEW d \in D
                PROVE  /\ IsFiniteSet({e \in D : e < d})
                       /\ Rank(D, d) \in Nat /\ Rank(D, d) < Cardinality(D)
    OBVIOUS
  <2>. DEFINE below == {e \in D : e < d}
  <2>1. below \in SUBSET D /\ d \notin below
    OBVIOUS
  <2>. HIDE DEF below
  <2>2. IsFiniteSet(below) /\ Cardinality(below) <= Cardinality(D) /\ Cardinality(below) # Cardinality(D)
    BY <2>1, FS_Subset
  <2>3. Cardinality(below) \in Nat
    BY <2>2, FS_CardinalityType
  <2>. QED
    BY <2>2, <2>3, <1>0 DEF Rank, below
<1>2. \A c, d \in D : c < d => Rank(D, c) # Rank(D, d)
  <2>. SUFFICES ASSUME NEW c \in D, NEW d \in D, c < d PROVE Rank(D, c) # Rank(D, d)
    OBVIOUS
  <2>. DEFINE low == {e \in D : e < c}
              high == {e \in D : e < d}
  <2>1. (\A e \in D : e < c => e < d) /\ ~(c < c)
    OBVIOUS
  <2>2. low \in SUBSET high /\ c \in high /\ c \notin low
    BY <2>1, Zenon
  <2>3. IsFiniteSet(high)
    BY <1>1
  <2>. HIDE DEF low, high
  <2>4. Cardinality(low) # Cardinality(high)
    BY <2>2, <2>3, FS_Subset
  <2>. QED
    BY <2>4 DEF Rank, low, high
<1>3. rank \in Injection(D, places)
  <2>1. rank \in [D -> places]
    <3>1. \A d \in D : Rank(D, d) \in Nat /\ Rank(D, d) < Cardinality(D)
      BY <1>1, Zenon
    <3>2. \A d \in D : Rank(D, d) \in places
      BY <1>0, <3>1
    <3>. QED
      BY <3>2, Zenon
  <2>2. \A c, d \in D : c = d \/ c < d \/ d < c
    OBVIOUS
  <2>3. \A c, d \in D : Rank(D, c) = Rank(D, d) => c = d
    BY <1>2, <2>2, Zenon
  <2>4. \A c, d \in DOMAIN rank : rank[c] = rank[d] => c = d
    BY <2>3
  <2>. HIDE DEF rank
  <2>. QED
    BY <2>1, <2>4 DEF Injection, IsInjective
<1>4. IsFiniteSet(places) /\ Cardinality(places) = Cardinality(D)
  <2>1. 0 \in Int /\ Cardinality(D) - 1 \in Int
    BY <1>0
  <2>2. /\ IsFiniteSet(places)
        /\ Cardinality(places) = IF 0 > Cardinality(D) - 1 THEN 0 ELSE (Cardinality(D) - 1) - 0 + 1
    BY <2>1, FS_Interval
  <2>. QED
    BY <1>0, <2>2
<1>. HIDE DEF places
<1>5. rank \in Surjection(D, places)
  BY <1>3, <1>4, FS_Injection
<1>6. i - 1 \in places
  BY <1>0 DEF places
<1>7. \E d \in D : rank[d] = i - 1
  BY <1>5, <1>6 DEF Surjection
<1>. QED
  BY <1>7

LEMMA Delays ==
    ASSUME NEW D \in SUBSET Nat, IsFiniteSet(D)
    PROVE  /\ \A i \in 1..Cardinality(D) : Delay(D, i) \in D
           /\ \A i, j \in 1..Cardinality(D) : Delay(D, i) = Delay(D, j) => i = j
<1>1. \A i \in 1..Cardinality(D) : Delay(D, i) \in D /\ Rank(D, Delay(D, i)) = i - 1
  BY Ranks DEF Delay
<1>2. Cardinality(D) \in Nat
  BY FS_CardinalityType
<1>3. \A i, j \in 1..Cardinality(D) : i - 1 = j - 1 => i = j
  BY <1>2
<1>. QED
  BY <1>1, <1>3

LEMMA OccurrencesFinite ==
    ASSUME NEW row, NEW count
    PROVE  /\ Occurrences(row, count) \in SUBSET (1..Year)
           /\ IsFiniteSet(Occurrences(row, count))
           /\ Cardinality(Occurrences(row, count)) \in Nat
<1>1. Occurrences(row, count) \in SUBSET (1..Year)
  BY DEF Occurrences
<1>2. IsFiniteSet(1..Year)
  BY FS_Interval, ServiceDayAssumption
<1>. QED
  BY <1>1, <1>2, FS_Subset, FS_CardinalityType

-----------------------------------------------------------------------------
(* Scores: a quotient grows with its share. *)

LEMMA QuotientIs ==
    ASSUME NEW x \in Nat, NEW d \in Nat \ {0}
    PROVE  x \div d \in Nat /\ (x \div d) * d <= x /\ x < (x \div d + 1) * d
OBVIOUS

LEMMA Products ==
    ASSUME NEW x \in Nat, NEW y \in Nat, NEW z \in Nat, x <= y
    PROVE  x * z <= y * z
OBVIOUS

LEMMA QuotientsOrdered ==
    ASSUME NEW x \in Nat, NEW y \in Nat, NEW d \in Nat \ {0}, NEW e \in Nat \ {0}, x * e <= y * d
    PROVE  x \div d <= y \div e
<1>. DEFINE q == x \div d
            r == y \div e
<1>1. q \in Nat /\ q * d <= x
  BY QuotientIs
<1>2. r \in Nat /\ y < (r + 1) * e
  BY QuotientIs
<1>. HIDE DEF q, r
<1>. SUFFICES ASSUME r < q PROVE FALSE
  BY <1>1, <1>2 DEF q, r
<1>3. (q * d) * e <= x * e
  BY <1>1
<1>4. (r + 1) * e <= q * e
  BY <1>1, <1>2
<1>5. y < q * e
  BY <1>1, <1>2, <1>4
<1>6. y * d < (q * e) * d
  BY <1>1, <1>5
<1>7. (q * e) * d = (q * d) * e
  BY <1>1
<1>. QED
  BY <1>1, <1>3, <1>6, <1>7

LEMMA ClampedOrdered ==
    /\ \A x, y \in Int : x <= y => Clamped(x) <= Clamped(y)
    /\ \A x \in Int : Clamped(x) \in 10..100
BY DEF Clamped

LEMMA ScoreType ==
    ASSUME NEW a \in Nat, NEW n \in Nat, NEW c \in Nat
    PROVE  ReliabilityScore(a, n, c) \in 10..100
<1>1. CASE a + n + c < MinPoints
  BY <1>1 DEF ReliabilityScore, Prior
<1>2. CASE ~(a + n + c < MinPoints)
  <2>1. 200 * a \in Nat /\ 2 * a + 2 * n + c \in Nat \ {0}
    BY <1>2, ServiceDayAssumption
  <2>2. (200 * a) \div (2 * a + 2 * n + c) \in Int
    BY <2>1, QuotientIs
  <2>. QED
    BY <1>2, <2>2, ClampedOrdered DEF ReliabilityScore
<1>. QED
  BY <1>1, <1>2

\* Of two volunteers with as many points, or both with too few for a score, the
\* one with the larger share of attendances does not score less.
LEMMA ScoresOrdered ==
    ASSUME NEW a \in Nat, NEW n \in Nat, NEW c \in Nat,
           NEW b \in Nat, NEW m \in Nat, NEW d \in Nat,
           a + n + c < MinPoints <=> b + m + d < MinPoints,
           (200 * a) * (2 * b + 2 * m + d) <= (200 * b) * (2 * a + 2 * n + c)
    PROVE  ReliabilityScore(a, n, c) <= ReliabilityScore(b, m, d)
<1>1. CASE a + n + c < MinPoints
  BY <1>1 DEF ReliabilityScore, Prior
<1>2. CASE ~(a + n + c < MinPoints)
  <2>. DEFINE x == 200 * a
              y == 200 * b
              s == 2 * a + 2 * n + c
              t == 2 * b + 2 * m + d
  <2>1. x \in Nat /\ y \in Nat /\ s \in Nat \ {0} /\ t \in Nat \ {0}
    BY <1>2, ServiceDayAssumption
  <2>2. x * t <= y * s
    OBVIOUS
  <2>3. /\ ReliabilityScore(a, n, c) = Clamped(x \div s)
        /\ ReliabilityScore(b, m, d) = Clamped(y \div t)
    BY <1>2 DEF ReliabilityScore
  <2>. HIDE DEF x, y, s, t
  <2>4. x \div s <= y \div t
    BY <2>1, <2>2, QuotientsOrdered
  <2>5. x \div s \in Int /\ y \div t \in Int
    BY <2>1, QuotientIs
  <2>. QED
    BY <2>3, <2>4, <2>5, ClampedOrdered
<1>. QED
  BY <1>1, <1>2

LEMMA FairScores ==
    ASSUME NEW a \in Nat, NEW n \in Nat, NEW c \in Nat
    PROVE  /\ n > 0 => /\ ReliabilityScore(a, n, c) <= ReliabilityScore(a + 1, n - 1, c)
                       /\ ReliabilityScore(a, n, c) <= ReliabilityScore(a, n - 1, c + 1)
           /\ c > 0 => ReliabilityScore(a, n, c) <= ReliabilityScore(a + 1, n, c - 1)
           /\ a > 0 /\ a + n + c # MinPoints
              => ReliabilityScore(a - 1, n, c) <= ReliabilityScore(a, n, c)
<1>1. ASSUME n > 0
      PROVE  /\ ReliabilityScore(a, n, c) <= ReliabilityScore(a + 1, n - 1, c)
             /\ ReliabilityScore(a, n, c) <= ReliabilityScore(a, n - 1, c + 1)
  <2>1. n - 1 \in Nat /\ a + 1 \in Nat /\ c + 1 \in Nat
    BY <1>1
  <2>2. /\ a + n + c < MinPoints <=> (a + 1) + (n - 1) + c < MinPoints
        /\ a + n + c < MinPoints <=> a + (n - 1) + (c + 1) < MinPoints
    BY ServiceDayAssumption
  <2>3. (200 * a) * (2 * (a + 1) + 2 * (n - 1) + c) <= (200 * (a + 1)) * (2 * a + 2 * n + c)
    BY <1>1
  <2>4. (200 * a) * (2 * a + 2 * (n - 1) + (c + 1)) <= (200 * a) * (2 * a + 2 * n + c)
    BY <1>1
  <2>. QED
    BY <2>1, <2>2, <2>3, <2>4, ScoresOrdered
<1>2. ASSUME c > 0
      PROVE  ReliabilityScore(a, n, c) <= ReliabilityScore(a + 1, n, c - 1)
  <2>1. c - 1 \in Nat /\ a + 1 \in Nat
    BY <1>2
  <2>2. a + n + c < MinPoints <=> (a + 1) + n + (c - 1) < MinPoints
    BY ServiceDayAssumption
  <2>3. (200 * a) * (2 * (a + 1) + 2 * n + (c - 1)) <= (200 * (a + 1)) * (2 * a + 2 * n + c)
    BY <1>2
  <2>. QED
    BY <2>1, <2>2, <2>3, ScoresOrdered
<1>3. ASSUME a > 0, a + n + c # MinPoints
      PROVE  ReliabilityScore(a - 1, n, c) <= ReliabilityScore(a, n, c)
  <2>1. a - 1 \in Nat
    BY <1>3
  <2>2. (a - 1) + n + c < MinPoints <=> a + n + c < MinPoints
    BY <1>3, ServiceDayAssumption
  <2>3. (200 * (a - 1)) * (2 * a + 2 * n + c) <= (200 * a) * (2 * (a - 1) + 2 * n + c)
    BY <1>3
  <2>. QED
    BY <2>1, <2>2, <2>3, ScoresOrdered
<1>. QED
  BY <1>1, <1>2, <1>3

-----------------------------------------------------------------------------
(* Types: what a call holds, beside TypeOK. *)

Expanding == [op : {"expand"}, row : Row, count : Nat]
CheckingIn == [op : {"checkIn"}, s : Nat, v : Volunteer, start : Int, at : Nat,
               known : BOOLEAN, stale : BOOLEAN]
Recomputing == [op : {"recompute"}, scores : [Volunteer -> 10..100]]
Instantiating == [op : {"instantiate"}, s : Nat]
Completing == [op : {"complete"}, x : Nat, item : Item, read : SUBSET Item]
Call == Expanding \cup CheckingIn \cup Recomputing \cup Instantiating \cup Completing

\* A call names rows of tables that have grown to n services and m instances.
Names(c, n, m) ==
    /\ c \in Call
    /\ c.op \in {"checkIn", "instantiate"} => c.s \in 1..n
    /\ c.op = "complete" => c.x \in 1..m
    /\ c.op = "expand" => c.row.rule # 0

Held ==
    /\ \A p \in DOMAIN loc : Names(loc[p], Len(services), Len(instances))
    /\ \A p \in DOMAIN loc : pc[p] = "seen" => loc[p].op = "checkIn"

Arrived ==
    /\ DOMAIN attendance \subseteq (DOMAIN services) \X Volunteer
    /\ attendance \in [DOMAIN attendance -> CheckIn]

SInv == TypeOK /\ Held /\ Arrived

LEMMA NamesKept ==
    ASSUME NEW c, NEW n \in Nat, NEW m \in Nat, NEW n2 \in Nat, NEW m2 \in Nat,
           n <= n2, m <= m2, Names(c, n, m)
    PROVE  Names(c, n2, m2)
BY DEF Names

LEMMA EnteredIs ==
    ASSUME NEW t, NEW key, NEW val
    PROVE  /\ DOMAIN Entered(t, key, val) = DOMAIN t \cup {key}
           /\ Entered(t, key, val)[key] = val
           /\ \A k \in DOMAIN t : k # key => Entered(t, key, val)[k] = t[k]
BY DEF Entered

LEMMA WithoutIs ==
    ASSUME NEW t, NEW keys
    PROVE  /\ DOMAIN Without(t, keys) = DOMAIN t \ keys
           /\ \A k \in DOMAIN t \ keys : Without(t, keys)[k] = t[k]
BY DEF Without

\* The lengths and the rows of the tables.
LEMMA Lengths ==
    ASSUME TypeOK
    PROVE  /\ Len(services) \in Nat /\ DOMAIN services = 1..Len(services)
           /\ \A s \in DOMAIN services : services[s] \in Row
           /\ Len(runs) \in Nat /\ DOMAIN runs = 1..Len(runs)
           /\ \A r \in DOMAIN runs : runs[r] \in Run
           /\ Len(instances) \in Nat /\ DOMAIN instances = 1..Len(instances)
           /\ \A x \in DOMAIN instances : instances[x] \in Instance
BY DEF TypeOK

\* The calls are those that are not idle, before and after one begins or ends.
LEMMA Held_Hold ==
    ASSUME TypeOK, Held, NEW p \in Request, NEW c, Hold(p, c),
           Names(c, Len(services), Len(instances)), UNCHANGED <<services, instances>>
    PROVE  /\ Held'
           /\ pc' \in [Request -> {"idle", "found", "seen"}]
           /\ DOMAIN loc' = {q \in Request : pc'[q] # "idle"}
<1>1. /\ pc' = [pc EXCEPT ![p] = "found"] /\ loc' = Entered(loc, p, c)
      /\ pc \in [Request -> {"idle", "found", "seen"}] /\ DOMAIN loc = {q \in Request : pc[q] # "idle"}
  BY DEF Hold, Goto, TypeOK
<1>2. /\ pc' \in [Request -> {"idle", "found", "seen"}]
      /\ pc'[p] = "found" /\ \A q \in Request : q # p => pc'[q] = pc[q]
  BY <1>1
<1>3. /\ DOMAIN loc' = DOMAIN loc \cup {p} /\ loc'[p] = c
      /\ \A q \in DOMAIN loc : q # p => loc'[q] = loc[q]
  <2>. DEFINE l == Entered(loc, p, c)
  <2>1. DOMAIN l = DOMAIN loc \cup {p} /\ l[p] = c /\ \A q \in DOMAIN loc : q # p => l[q] = loc[q]
    BY DEF Entered
  <2>2. loc' = l
    BY <1>1
  <2>. QED
    BY <2>1, <2>2, Zenon
<1>4. Len(services') = Len(services) /\ Len(instances') = Len(instances)
  OBVIOUS
<1>5. Held'
  BY <1>1, <1>2, <1>3, <1>4 DEF Held
<1>6. DOMAIN loc' = {q \in Request : pc'[q] # "idle"}
  BY <1>1, <1>2, <1>3
<1>. QED
  BY <1>2, <1>5, <1>6

LEMMA Held_Answer ==
    ASSUME TypeOK, Held, NEW p \in Request, Answer(p),
           Len(services) <= Len(services'), Len(services') \in Nat,
           Len(instances) <= Len(instances'), Len(instances') \in Nat
    PROVE  /\ Held'
           /\ pc' \in [Request -> {"idle", "found", "seen"}]
           /\ DOMAIN loc' = {q \in Request : pc'[q] # "idle"}
<1>1. /\ pc' = [pc EXCEPT ![p] = "idle"] /\ loc' = Without(loc, {p})
      /\ pc \in [Request -> {"idle", "found", "seen"}] /\ DOMAIN loc = {q \in Request : pc[q] # "idle"}
  BY DEF Answer, Goto, TypeOK
<1>2. /\ pc' \in [Request -> {"idle", "found", "seen"}]
      /\ pc'[p] = "idle" /\ \A q \in Request : q # p => pc'[q] = pc[q]
  BY <1>1
<1>3. DOMAIN loc' = DOMAIN loc \ {p} /\ \A q \in DOMAIN loc \ {p} : loc'[q] = loc[q]
  BY <1>1, WithoutIs
<1>4. \A q \in DOMAIN loc' : Names(loc[q], Len(services), Len(instances))
  BY <1>3 DEF Held
<1>5. \A q \in DOMAIN loc' : Names(loc'[q], Len(services'), Len(instances'))
  BY <1>3, <1>4, Lengths, NamesKept
<1>6. Held'
  <2>1. \A q \in DOMAIN loc' : pc'[q] = "seen" => loc'[q].op = "checkIn"
    BY <1>1, <1>2, <1>3 DEF Held
  <2>. QED
    BY <1>5, <2>1 DEF Held
<1>7. DOMAIN loc' = {q \in Request : pc'[q] # "idle"}
  BY <1>1, <1>2, <1>3
<1>. QED
  BY <1>2, <1>6, <1>7

\* Where no call moves: what the calls name is still there.
LEMMA Held_Stay ==
    ASSUME TypeOK, Held, UNCHANGED <<pc, loc>>,
           Len(services) <= Len(services'), Len(services') \in Nat,
           Len(instances) <= Len(instances'), Len(instances') \in Nat
    PROVE  Held'
<1>1. \A q \in DOMAIN loc : Names(loc[q], Len(services'), Len(instances'))
  BY Lengths, NamesKept DEF Held
<1>. QED
  BY <1>1 DEF Held

-----------------------------------------------------------------------------
(* Every step keeps the types. *)

LEMMA InitTypes == Init => SInv
<1>. SUFFICES ASSUME Init PROVE SInv
  OBVIOUS
<1>1. /\ services = <<>> /\ runs = <<>> /\ instances = <<>> /\ attendance = <<>> /\ loc = <<>>
      /\ now = 0 /\ score = [v \in Volunteer |-> 100] /\ pc = [p \in Request |-> "idle"]
  BY DEF Init
<1>2. /\ services \in Seq(Row) /\ runs \in Seq(Run) /\ instances \in Seq(Instance)
      /\ DOMAIN runs = {} /\ DOMAIN instances = {} /\ DOMAIN attendance = {} /\ DOMAIN loc = {}
  BY <1>1
<1>3. now \in 0..Horizon /\ score \in [Volunteer -> 10..100]
  BY <1>1, ServiceDayAssumption
<1>4. pc \in [Request -> {"idle", "found", "seen"}] /\ DOMAIN loc = {p \in Request : pc[p] # "idle"}
  BY <1>1, <1>2
<1>5. attendance \in [DOMAIN attendance -> CheckIn]
  BY <1>1
<1>. QED
  BY <1>2, <1>3, <1>4, <1>5 DEF SInv, TypeOK, Held, Arrived

\* A step that adds services, or edits one without cancelling it, keeps what
\* the other tables say of services.
LEMMA MoreServices ==
    ASSUME SInv, services' \in Seq(Row), Len(services) <= Len(services'),
           \A s \in DOMAIN services : services[s].live => services'[s].live,
           UNCHANGED <<now, runs, attendance, instances, score>>,
           pc' \in [Request -> {"idle", "found", "seen"}],
           DOMAIN loc' = {p \in Request : pc'[p] # "idle"}, Held'
    PROVE  SInv'
<1>1. DOMAIN services \subseteq DOMAIN services' /\ DOMAIN services' = 1..Len(services')
  BY Lengths DEF SInv
<1>2. TypeOK'
  <2>1. runs' \in Seq(Run) /\ \A r \in DOMAIN runs' : runs'[r].service \in DOMAIN services'
    BY <1>1 DEF SInv, TypeOK
  <2>2. instances' \in Seq(Instance) /\ \A x \in DOMAIN instances' : instances'[x].service \in DOMAIN services'
    BY <1>1 DEF SInv, TypeOK
  <2>3. \A a \in DOMAIN attendance : a[1] \in DOMAIN services
    BY DEF SInv, Arrived
  <2>4. \A a \in DOMAIN attendance' : /\ services'[a[1]].live /\ a[2] \in Volunteer
                                      /\ attendance'[a] \in CheckIn
    BY <2>3 DEF SInv, TypeOK
  <2>. QED
    BY <2>1, <2>2, <2>4 DEF SInv, TypeOK
<1>3. Arrived'
  <2>1. DOMAIN attendance' \subseteq (DOMAIN services') \X Volunteer
    BY <1>1 DEF SInv, Arrived
  <2>. QED
    BY <2>1 DEF SInv, Arrived
<1>. QED
  BY <1>2, <1>3 DEF SInv

LEMMA TypesOfCreate ==
    ASSUME SInv, NEW dto \in Created, Create(dto) PROVE SInv'
<1>1. NewRow(dto) \in Row
  <2>1. Len(services) + 1 \in Nat
    BY Lengths DEF SInv
  <2>2. dto.date \in Nat /\ dto.start \in Nat /\ dto.rule \in Nat
    BY ServiceDayAssumption
  <2>3. /\ dto.date \in Int /\ dto.start \in Int
    BY <2>2
  <2>. QED
    BY <2>1, <2>2, <2>3 DEF NewRow, Row
<1>2. services' = Append(services, NewRow(dto)) /\ UNCHANGED <<now, runs, attendance, instances, score, pc, loc>>
  BY DEF Create
<1>3. /\ services' \in Seq(Row) /\ Len(services') = Len(services) + 1
      /\ \A i \in 1..Len(services) : services'[i] = services[i]
  BY <1>1, <1>2, AppendProperties DEF SInv, TypeOK
<1>4. Len(services) <= Len(services') /\ Len(services') \in Nat
      /\ Len(instances) <= Len(instances') /\ Len(instances') \in Nat
  BY <1>2, <1>3, Lengths DEF SInv
<1>5. Held'
  BY <1>2, <1>4, Held_Stay DEF SInv
<1>6. \A s \in DOMAIN services : services[s].live => services'[s].live
  BY <1>3, Lengths DEF SInv
<1>7. pc' \in [Request -> {"idle", "found", "seen"}] /\ DOMAIN loc' = {p \in Request : pc'[p] # "idle"}
  BY <1>2 DEF SInv, TypeOK
<1>. QED
  BY <1>2, <1>3, <1>4, <1>5, <1>6, <1>7, MoreServices

\* Calls that are marked stale hold the rest of what they held.
LEMMA StaleHolds ==
    ASSUME NEW c, NEW n, NEW m, Names(c, n, m), c.op = "checkIn"
    PROVE  /\ Names([c EXCEPT !.stale = TRUE], n, m)
           /\ [c EXCEPT !.stale = TRUE].op = "checkIn"
<1>1. c \in CheckingIn
  BY DEF Names, Call, Expanding, CheckingIn, Recomputing, Instantiating, Completing
<1>2. [c EXCEPT !.stale = TRUE] \in CheckingIn /\ [c EXCEPT !.stale = TRUE].s = c.s
  BY <1>1 DEF CheckingIn
<1>3. [c EXCEPT !.stale = TRUE].op = "checkIn"
  BY <1>2 DEF CheckingIn
<1>. QED
  BY <1>2, <1>3 DEF Names, Call

LEMMA TypesOfUpdate ==
    ASSUME SInv, NEW s \in DOMAIN services, NEW t \in Moves, Update(s, t) PROVE SInv'
<1>. DEFINE row == Patched(services[s], t)
<1>1. row \in Row /\ row.live = services[s].live
  <2>1. services[s] \in Row /\ t \in Int
    BY Lengths, ServiceDayAssumption DEF SInv
  <2>. QED
    BY <2>1 DEF Patched, Row
<1>2. /\ services' = [services EXCEPT ![s] = row] /\ loc' = Overtaken(s)
      /\ UNCHANGED <<now, runs, attendance, instances, score, pc>>
  BY DEF Update
<1>. HIDE DEF row
<1>3. /\ services' \in Seq(Row) /\ Len(services') = Len(services)
      /\ \A i \in 1..Len(services) : services'[i] = IF i = s THEN row ELSE services[i]
  <2>1. s \in 1..Len(services) /\ services \in Seq(Row)
    BY Lengths DEF SInv, TypeOK
  <2>. QED
    BY <1>1, <1>2, <2>1, ExceptSeq
<1>4. \A i \in DOMAIN services : services[i].live => services'[i].live
  BY <1>1, <1>3, Lengths DEF SInv
<1>5. /\ DOMAIN loc' = DOMAIN loc
      /\ \A p \in DOMAIN loc : loc'[p] = loc[p]
                               \/ (loc[p].op = "checkIn" /\ loc'[p] = [loc[p] EXCEPT !.stale = TRUE])
  <2>. DEFINE stale(p) == [loc[p] EXCEPT !.stale = TRUE]
  <2>1. loc' = [p \in DOMAIN loc |-> IF loc[p].op = "checkIn" /\ loc[p].s = s
                                     THEN stale(p) ELSE loc[p]]
    BY <1>2, Zenon DEF Overtaken
  <2>. HIDE DEF stale
  <2>2. DOMAIN loc' = DOMAIN loc
    BY <2>1
  <2>3. ASSUME NEW p \in DOMAIN loc
        PROVE  loc'[p] = loc[p] \/ (loc[p].op = "checkIn" /\ loc'[p] = stale(p))
    <3>1. loc'[p] = IF loc[p].op = "checkIn" /\ loc[p].s = s THEN stale(p) ELSE loc[p]
      BY <2>1, Zenon
    <3>. QED
      BY <3>1
  <2>. QED
    BY <2>2, <2>3, Zenon DEF stale
<1>6. Held'
  <2>1. \A p \in DOMAIN loc : Names(loc'[p], Len(services), Len(instances))
                              /\ (loc[p].op = "checkIn" => loc'[p].op = "checkIn")
    <3>. SUFFICES ASSUME NEW p \in DOMAIN loc
                  PROVE  Names(loc'[p], Len(services), Len(instances))
                         /\ (loc[p].op = "checkIn" => loc'[p].op = "checkIn")
      OBVIOUS
    <3>1. Names(loc[p], Len(services), Len(instances))
      BY DEF SInv, Held
    <3>2. CASE loc'[p] = loc[p]
      BY <3>1, <3>2
    <3>3. CASE loc[p].op = "checkIn" /\ loc'[p] = [loc[p] EXCEPT !.stale = TRUE]
      BY <3>1, <3>3, StaleHolds
    <3>. QED
      BY <1>5, <3>2, <3>3
  <2>2. \A p \in DOMAIN loc' : Names(loc'[p], Len(services'), Len(instances'))
    BY <1>2, <1>3, <1>5, <2>1
  <2>3. \A p \in DOMAIN loc' : pc'[p] = "seen" => loc'[p].op = "checkIn"
    BY <1>2, <1>5, <2>1 DEF SInv, Held
  <2>. QED
    BY <2>2, <2>3 DEF Held
<1>7. pc' \in [Request -> {"idle", "found", "seen"}] /\ DOMAIN loc' = {p \in Request : pc'[p] # "idle"}
  BY <1>2, <1>5 DEF SInv, TypeOK
<1>8. Len(services) <= Len(services')
  BY <1>3, Lengths DEF SInv
<1>. QED
  BY <1>2, <1>3, <1>4, <1>6, <1>7, <1>8, MoreServices

LEMMA TypesOfCancel ==
    ASSUME SInv, NEW s \in DOMAIN services, Cancel(s) PROVE SInv'
<1>. DEFINE row == [services[s] EXCEPT !.live = FALSE]
<1>1. row \in Row
  <2>1. services[s] \in Row
    BY Lengths DEF SInv
  <2>. QED
    BY <2>1 DEF Row
<1>2. /\ services' = [services EXCEPT ![s] = row] /\ attendance' = Without(attendance, {s} \X Volunteer)
      /\ UNCHANGED <<now, runs, instances, score, pc, loc>>
  BY DEF Cancel
<1>. HIDE DEF row
<1>3. /\ services' \in Seq(Row) /\ Len(services') = Len(services)
      /\ \A i \in 1..Len(services) : services'[i] = IF i = s THEN row ELSE services[i]
  <2>1. s \in 1..Len(services) /\ services \in Seq(Row)
    BY Lengths DEF SInv, TypeOK
  <2>. QED
    BY <1>1, <1>2, <2>1, ExceptSeq
<1>4. DOMAIN services' = DOMAIN services
  BY <1>2
<1>5. /\ DOMAIN attendance' = DOMAIN attendance \ ({s} \X Volunteer)
      /\ \A a \in DOMAIN attendance' : attendance'[a] = attendance[a]
      /\ attendance' = [a \in DOMAIN attendance' |-> attendance'[a]]
  BY <1>2 DEF Without
<1>6. \A a \in DOMAIN attendance' : a \in (DOMAIN services) \X Volunteer /\ a[1] # s
  <2>1. \A a \in DOMAIN attendance' : a \in (DOMAIN services) \X Volunteer /\ a \notin {s} \X Volunteer
    BY <1>5 DEF SInv, Arrived
  <2>2. \A a \in (DOMAIN services) \X Volunteer : a[1] = s => a \in {s} \X Volunteer
    OBVIOUS
  <2>. QED
    BY <2>1, <2>2
<1>7. Held'
  <2>1. Len(services) <= Len(services') /\ Len(services') \in Nat
        /\ Len(instances) <= Len(instances') /\ Len(instances') \in Nat
    BY <1>2, <1>3, Lengths DEF SInv
  <2>. QED
    BY <1>2, <2>1, Held_Stay DEF SInv
<1>8. Arrived'
  <2>1. \A a \in DOMAIN attendance' : attendance'[a] \in CheckIn
    BY <1>5 DEF SInv, TypeOK
  <2>. QED
    BY <1>4, <1>5, <1>6, <2>1 DEF Arrived
<1>9. TypeOK'
  <2>1. \A a \in DOMAIN attendance' : /\ services'[a[1]].live /\ a[2] \in Volunteer
                                      /\ attendance'[a] \in CheckIn
    <3>1. \A a \in DOMAIN attendance' : services'[a[1]] = services[a[1]]
      BY <1>3, <1>6, Lengths DEF SInv
    <3>. QED
      BY <1>5, <3>1 DEF SInv, TypeOK
  <2>. QED
    BY <1>2, <1>3, <1>4, <2>1 DEF SInv, TypeOK
<1>. QED
  BY <1>7, <1>8, <1>9 DEF SInv

\* A call that only holds something, of the rows that are there.
LEMMA TypesOfHold ==
    ASSUME SInv, NEW p \in Request, NEW c, Names(c, Len(services), Len(instances)), Hold(p, c),
           UNCHANGED <<now, tables>>
    PROVE  SInv'
<1>1. UNCHANGED <<now, services, runs, attendance, instances, score>>
  BY DEF tables
<1>2. /\ Held' /\ pc' \in [Request -> {"idle", "found", "seen"}]
      /\ DOMAIN loc' = {q \in Request : pc'[q] # "idle"}
  BY <1>1, Held_Hold DEF SInv
<1>. QED
  BY <1>1, <1>2 DEF SInv, TypeOK, Arrived

LEMMA TypesOfGenerate ==
    ASSUME SInv, NEW p \in Request, NEW s \in DOMAIN services, NEW n \in 1..MaxCount,
           GenerateRecurring(p, s, n)
    PROVE  SInv'
<1>. DEFINE c == [op |-> "expand", row |-> services[s], count |-> n]
<1>1. services[s] \in Row /\ n \in Nat /\ services[s].rule # 0
  BY Lengths, ServiceDayAssumption DEF SInv, GenerateRecurring
<1>2. c \in Call
  BY <1>1 DEF Call, Expanding
<1>3. Names(c, Len(services), Len(instances))
  BY <1>1, <1>2 DEF Names
<1>4. Hold(p, c) /\ UNCHANGED <<now, tables>>
  BY DEF GenerateRecurring
<1>. QED
  BY <1>3, <1>4, TypesOfHold

LEMMA ScoresTyped == ASSUME SInv, NEW v PROVE ScoreOf(v) \in 10..100
<1>1. IsFiniteSet(DOMAIN runs)
  <2>1. DOMAIN runs = 1..Len(runs) /\ Len(runs) \in Nat
    BY Lengths DEF SInv
  <2>. QED
    BY <2>1, FS_Interval
<1>2. Attended(v) \in SUBSET DOMAIN runs /\ NoShows(v) \in SUBSET DOMAIN runs
      /\ Declines(v) \in SUBSET DOMAIN runs
  BY DEF Attended, NoShows, Declines, Counted, Kept
<1>3. Cardinality(Attended(v)) \in Nat /\ Cardinality(NoShows(v)) \in Nat
      /\ Cardinality(Declines(v)) \in Nat
  BY <1>1, <1>2, FS_Subset, FS_CardinalityType
<1>. QED
  BY <1>3, ScoreType DEF ScoreOf

LEMMA TypesOfFinding ==
    ASSUME SInv, NEW p \in Request, NEW s \in DOMAIN services,
           FindForInstance(p, s) \/ \E v \in Volunteer : FindForCheckIn(p, s, v)
    PROVE  SInv'
<1>1. s \in 1..Len(services) /\ s \in Nat /\ services[s].start \in Int
  BY Lengths DEF SInv, Row
<1>2. CASE FindForInstance(p, s)
  <2>. DEFINE c == [op |-> "instantiate", s |-> s]
  <2>1. Names(c, Len(services), Len(instances))
    BY <1>1 DEF Names, Call, Instantiating
  <2>2. Hold(p, c) /\ UNCHANGED <<now, tables>>
    BY <1>2 DEF FindForInstance
  <2>. QED
    BY <2>1, <2>2, TypesOfHold
<1>3. ASSUME NEW v \in Volunteer, FindForCheckIn(p, s, v) PROVE SInv'
  <2>. DEFINE c == [op |-> "checkIn", s |-> s, v |-> v, start |-> services[s].start,
                    at |-> 0, known |-> FALSE, stale |-> FALSE]
  <2>1. c \in CheckingIn
    BY <1>1 DEF CheckingIn
  <2>2. Names(c, Len(services), Len(instances))
    BY <1>1, <2>1 DEF Names, Call
  <2>3. Hold(p, c) /\ UNCHANGED <<now, tables>>
    BY <1>3 DEF FindForCheckIn
  <2>. QED
    BY <2>2, <2>3, TypesOfHold
<1>. QED
  BY <1>2, <1>3

LEMMA TypesOfFindInstance ==
    ASSUME SInv, NEW p \in Request, NEW x \in DOMAIN instances, NEW i \in Item, FindInstance(p, x, i)
    PROVE  SInv'
<1>. DEFINE c == [op |-> "complete", x |-> x, item |-> i, read |-> instances[x].completed]
<1>1. x \in 1..Len(instances) /\ x \in Nat /\ instances[x].completed \in SUBSET Item
  BY Lengths DEF SInv, Instance
<1>2. Names(c, Len(services), Len(instances))
  BY <1>1 DEF Names, Call, Completing
<1>3. Hold(p, c) /\ UNCHANGED <<now, tables>>
  BY DEF FindInstance
<1>. QED
  BY <1>2, <1>3, TypesOfHold

LEMMA TypesOfCounting ==
    ASSUME SInv, NEW p \in Request, CountForScores(p) PROVE SInv'
<1>. DEFINE c == [op |-> "recompute", scores |-> [v \in Volunteer |-> ScoreOf(v)]]
<1>1. c \in Recomputing
  BY ScoresTyped DEF Recomputing
<1>2. Names(c, Len(services), Len(instances))
  BY <1>1 DEF Names, Call, Recomputing
<1>3. Hold(p, c) /\ UNCHANGED <<now, tables>>
  BY DEF CountForScores
<1>. QED
  BY <1>2, <1>3, TypesOfHold

-----------------------------------------------------------------------------
(* The rest of the calls. *)

\* What CreateShiftedCopies adds, as the sequence it appends.
Added(row, n) ==
    [i \in 1..Cardinality(Occurrences(row, n)) |->
        Shifted(row, CHOOSE d \in Occurrences(row, n) :
                        Cardinality({e \in Occurrences(row, n) : e < d}) = i - 1)]

\* The i-th copy is the row, moved by the i-th of distinct delays.
LEMMA AddedCopies ==
    ASSUME NEW row \in Row, NEW n
    PROVE  /\ Added(row, n) \in Seq(Row)
           /\ Len(Added(row, n)) = Cardinality(Occurrences(row, n))
           /\ Len(Added(row, n)) \in Nat
           /\ \A i \in 1..Len(Added(row, n)) :
                 /\ Delay(Occurrences(row, n), i) \in 1..Year
                 /\ Added(row, n)[i] = Shifted(row, Delay(Occurrences(row, n), i))
                 /\ Added(row, n)[i].title = row.title /\ Added(row, n)[i].rule = 0
                 /\ Added(row, n)[i].start = row.start + Delay(Occurrences(row, n), i)
           /\ \A i, j \in 1..Len(Added(row, n)) : Added(row, n)[i].start = Added(row, n)[j].start => i = j
<1>. DEFINE D == Occurrences(row, n)
            m == Cardinality(D)
<1>1. D \in SUBSET (1..Year) /\ IsFiniteSet(D) /\ m \in Nat
  BY OccurrencesFinite
<1>2. Added(row, n) = [i \in 1..m |-> Shifted(row, Delay(D, i))]
  BY Zenon DEF Added, Delay, Rank
<1>. HIDE DEF D
<1>3. \A d \in 1..Year : /\ Shifted(row, d) \in Row
                         /\ Shifted(row, d).title = row.title /\ Shifted(row, d).rule = 0
                         /\ Shifted(row, d).start = row.start + d
  <2>. SUFFICES ASSUME NEW d \in 1..Year
                PROVE  /\ Shifted(row, d) \in Row
                       /\ Shifted(row, d).title = row.title /\ Shifted(row, d).rule = 0
                       /\ Shifted(row, d).start = row.start + d
    OBVIOUS
  <2>1. d \in Int /\ row.date \in Int /\ row.start \in Int
    BY ServiceDayAssumption DEF Row
  <2>2. row.date + d \in Int /\ row.start + d \in Int
    BY <2>1
  <2>. QED
    BY <2>2 DEF Shifted, Row
<1>4. D \in SUBSET Nat
  BY <1>1, ServiceDayAssumption
<1>5. /\ \A i \in 1..m : Delay(D, i) \in 1..Year
      /\ \A i, j \in 1..m : Delay(D, i) = Delay(D, j) => i = j
  BY <1>1, <1>4, Delays
<1>. HIDE DEF m
<1>6. /\ Added(row, n) \in Seq(Row) /\ Len(Added(row, n)) = m
      /\ \A i \in 1..m : Added(row, n)[i] = Shifted(row, Delay(D, i))
  <2>1. \A i \in 1..m : Shifted(row, Delay(D, i)) \in Row
    BY <1>3, <1>5
  <2>. QED
    BY <1>1, <1>2, <2>1
<1>7. \A i, j \in 1..m : Added(row, n)[i].start = Added(row, n)[j].start => i = j
  <2>1. row.start \in Int
    BY DEF Row
  <2>2. \A c, d \in 1..Year : row.start + c = row.start + d => c = d
    BY <2>1, ServiceDayAssumption
  <2>. QED
    BY <1>3, <1>5, <1>6, <2>2
<1>. QED
  BY <1>1, <1>3, <1>5, <1>6, <1>7 DEF D, m

LEMMA TypesOfCopies ==
    ASSUME SInv, NEW p \in Request, CreateShiftedCopies(p) PROVE SInv'
<1>1. p \in DOMAIN loc /\ loc[p] \in Expanding
  <2>1. p \in DOMAIN loc /\ loc[p].op = "expand"
    BY DEF CreateShiftedCopies, InCall, SInv, TypeOK
  <2>2. loc[p] \in Call
    BY <2>1 DEF SInv, Held, Names
  <2>. QED
    BY <2>1, <2>2 DEF Call, Expanding, CheckingIn, Recomputing, Instantiating, Completing
<1>. DEFINE row == loc[p].row
            n == loc[p].count
<1>2. row \in Row
  BY <1>1 DEF Expanding
<1>3. services' = services \o Added(row, n)
  BY Zenon DEF CreateShiftedCopies, Added
<1>4. Answer(p) /\ UNCHANGED <<now, runs, attendance, instances, score>>
  BY DEF CreateShiftedCopies
<1>. HIDE DEF row, n
<1>5. Added(row, n) \in Seq(Row) /\ Len(Added(row, n)) \in Nat
  BY <1>2, AddedCopies
<1>6. /\ services' \in Seq(Row) /\ Len(services') = Len(services) + Len(Added(row, n))
      /\ \A i \in 1..Len(services) : services'[i] = services[i]
  BY <1>3, <1>5, ConcatProperties, Lengths DEF SInv, TypeOK
<1>7. Len(services) <= Len(services') /\ Len(services') \in Nat
      /\ Len(instances) <= Len(instances') /\ Len(instances') \in Nat
  BY <1>4, <1>5, <1>6, Lengths DEF SInv
<1>8. /\ Held' /\ pc' \in [Request -> {"idle", "found", "seen"}]
      /\ DOMAIN loc' = {q \in Request : pc'[q] # "idle"}
  BY <1>4, <1>7, Held_Answer DEF SInv
<1>9. \A s \in DOMAIN services : services[s].live => services'[s].live
  BY <1>6, Lengths DEF SInv
<1>. QED
  BY <1>4, <1>6, <1>7, <1>8, <1>9, MoreServices

\* The schedule's steps write runs alone.
LEMMA RunsWritten ==
    ASSUME SInv, runs' \in Seq(Run), \A r \in DOMAIN runs' : runs'[r].service \in DOMAIN services,
           UNCHANGED <<now, services, attendance, instances, score, pc, loc>>
    PROVE  SInv'
<1>1. TypeOK'
  BY DEF SInv, TypeOK
<1>2. Held'
  BY DEF SInv, Held
<1>3. Arrived'
  BY DEF SInv, Arrived
<1>. QED
  BY <1>1, <1>2, <1>3 DEF SInv

LEMMA TypesOfRuns ==
    ASSUME SInv, RunStep PROVE SInv'
<1>0. runs \in Seq(Run) /\ DOMAIN runs = 1..Len(runs) /\ Len(runs) \in Nat
      /\ \A r \in DOMAIN runs : runs[r] \in Run /\ runs[r].service \in DOMAIN services
  BY Lengths DEF SInv, TypeOK
<1>1. ASSUME NEW s \in DOMAIN services, NEW chosen \in SUBSET Volunteer, Assign(s, chosen) PROVE SInv'
  <2>. DEFINE run == [service |-> s, done |-> 0, chosen |-> chosen, declined |-> {}]
  <2>1. run \in Run /\ run.service = s
    BY Lengths DEF SInv, Run
  <2>2. runs' = Append(runs, run) /\ UNCHANGED <<now, services, attendance, instances, score, pc, loc>>
    BY <1>1 DEF Assign
  <2>. HIDE DEF run
  <2>3. /\ runs' \in Seq(Run) /\ Len(runs') = Len(runs) + 1 /\ DOMAIN runs' = 1..Len(runs')
        /\ \A i \in 1..Len(runs) : runs'[i] = runs[i]
        /\ runs'[Len(runs) + 1] = run
    BY <1>0, <2>1, <2>2, AppendProperties
  <2>4. \A r \in DOMAIN runs' : runs'[r].service \in DOMAIN services
    BY <1>0, <2>1, <2>3
  <2>. QED
    BY <2>2, <2>3, <2>4, RunsWritten
<1>2. ASSUME NEW r \in DOMAIN runs, NEW run \in Run, run.service = runs[r].service,
             runs' = [runs EXCEPT ![r] = run],
             UNCHANGED <<now, services, attendance, instances, score, pc, loc>>
      PROVE  SInv'
  <2>1. /\ runs' \in Seq(Run) /\ Len(runs') = Len(runs) /\ DOMAIN runs' = DOMAIN runs
        /\ \A i \in 1..Len(runs) : runs'[i] = IF i = r THEN run ELSE runs[i]
    BY <1>0, <1>2, ExceptSeq
  <2>2. \A q \in DOMAIN runs' : runs'[q].service \in DOMAIN services
    BY <1>0, <1>2, <2>1
  <2>. QED
    BY <1>2, <2>1, <2>2, RunsWritten
<1>3. ASSUME NEW r \in DOMAIN runs, CompleteRun(r) PROVE SInv'
  <2>. DEFINE n == 1 + Cardinality({q \in DOMAIN runs : runs[q].done > 0})
              run == [runs[r] EXCEPT !.done = n]
  <2>1. IsFiniteSet(DOMAIN runs)
    BY <1>0, FS_Interval
  <2>2. {q \in DOMAIN runs : runs[q].done > 0} \in SUBSET DOMAIN runs
    OBVIOUS
  <2>3. n \in Nat
    BY <2>1, <2>2, FS_Subset, FS_CardinalityType
  <2>. HIDE DEF n
  <2>4. run \in Run /\ run.service = runs[r].service
    BY <1>0, <2>3 DEF Run
  <2>5. runs' = [runs EXCEPT ![r] = run] /\ UNCHANGED <<now, services, attendance, instances, score, pc, loc>>
    BY <1>3 DEF CompleteRun, n
  <2>. QED
    BY <1>2, <2>4, <2>5
<1>4. ASSUME NEW r \in DOMAIN runs, NEW v \in Volunteer, NEW w \in SUBSET Volunteer, Decline(r, v, w)
      PROVE  SInv'
  <2>. DEFINE run == [runs[r] EXCEPT !.declined = @ \cup {v}, !.chosen = @ \cup w]
  <2>1. run \in Run /\ run.service = runs[r].service
    BY <1>0 DEF Run
  <2>2. runs' = [runs EXCEPT ![r] = run] /\ UNCHANGED <<now, services, attendance, instances, score, pc, loc>>
    BY <1>4 DEF Decline
  <2>. QED
    BY <1>2, <2>1, <2>2
<1>. QED
  BY <1>1, <1>3, <1>4 DEF RunStep

\* A call of one kind holds what that kind holds.
LEMMA Kinds ==
    ASSUME SInv, NEW p \in DOMAIN loc
    PROVE  /\ loc[p].op = "checkIn" => /\ loc[p] \in CheckingIn
                                       /\ loc[p].s \in DOMAIN services
           /\ loc[p].op = "expand" => loc[p] \in Expanding /\ loc[p].row.rule # 0
           /\ loc[p].op = "recompute" => loc[p] \in Recomputing
           /\ loc[p].op = "instantiate" => loc[p].s \in DOMAIN services
           /\ loc[p].op = "complete" => /\ loc[p] \in Completing
                                        /\ loc[p].x \in DOMAIN instances
<1>1. Names(loc[p], Len(services), Len(instances)) /\ loc[p] \in Call
  BY DEF SInv, Held, Names
<1>2. DOMAIN services = 1..Len(services) /\ DOMAIN instances = 1..Len(instances)
  BY Lengths DEF SInv
<1>. QED
  BY <1>1, <1>2 DEF Names, Call, Expanding, CheckingIn, Recomputing, Instantiating, Completing

LEMMA CallAtWork ==
    ASSUME SInv, NEW p \in Request, NEW label, NEW op, label # "idle", InCall(p, label, op)
    PROVE  p \in DOMAIN loc /\ loc[p].op = op
BY DEF InCall, SInv, TypeOK

\* An answer that writes no table.
LEMMA TypesOfAnswer ==
    ASSUME SInv, NEW p \in Request, Answer(p), UNCHANGED <<now, services, runs, attendance, instances>>,
           score' \in [Volunteer -> 10..100]
    PROVE  SInv'
<1>1. Len(services) <= Len(services') /\ Len(services') \in Nat
      /\ Len(instances) <= Len(instances') /\ Len(instances') \in Nat
  BY Lengths DEF SInv
<1>2. /\ Held' /\ pc' \in [Request -> {"idle", "found", "seen"}]
      /\ DOMAIN loc' = {q \in Request : pc'[q] # "idle"}
  BY <1>1, Held_Answer DEF SInv
<1>. QED
  BY <1>2 DEF SInv, TypeOK, Arrived

LEMMA TypesOfSelect ==
    ASSUME SInv, NEW p \in Request, SelectAttendance(p) PROVE SInv'
<1>1. p \in DOMAIN loc /\ loc[p] \in CheckingIn
  BY CallAtWork, Kinds DEF SelectAttendance
<1>. DEFINE known == <<loc[p].s, loc[p].v>> \in DOMAIN attendance
            c == [loc[p] EXCEPT !.at = now, !.known = known]
<1>2. loc' = [loc EXCEPT ![p] = c] /\ pc' = [pc EXCEPT ![p] = "seen"]
      /\ UNCHANGED <<now, services, runs, attendance, instances, score>>
  BY DEF SelectAttendance, Goto, tables
<1>3. known \in BOOLEAN /\ now \in Nat
  BY ServiceDayAssumption DEF SInv, TypeOK
<1>. HIDE DEF known
<1>4. c \in CheckingIn /\ c.s = loc[p].s /\ c.op = "checkIn"
  BY <1>1, <1>3 DEF CheckingIn
<1>. HIDE DEF c
<1>5. Names(c, Len(services), Len(instances))
  BY <1>1, <1>4, Kinds, Lengths DEF Names, Call, SInv, CheckingIn
<1>6. /\ DOMAIN loc' = DOMAIN loc /\ loc'[p] = c
      /\ \A q \in DOMAIN loc : q # p => loc'[q] = loc[q]
  BY <1>1, <1>2
<1>7. /\ pc' \in [Request -> {"idle", "found", "seen"}] /\ pc'[p] = "seen" /\ pc[p] # "idle"
      /\ \A q \in Request : q # p => pc'[q] = pc[q]
  BY <1>1, <1>2 DEF SInv, TypeOK
<1>8. DOMAIN loc' = {q \in Request : pc'[q] # "idle"}
  BY <1>6, <1>7 DEF SInv, TypeOK
<1>9. Held'
  <2>1. \A q \in DOMAIN loc' : Names(loc'[q], Len(services), Len(instances))
    BY <1>5, <1>6 DEF SInv, Held
  <2>2. \A q \in DOMAIN loc' : pc'[q] = "seen" => loc'[q].op = "checkIn"
    BY <1>4, <1>6, <1>7, <1>8 DEF SInv, Held
  <2>. QED
    BY <1>2, <2>1, <2>2 DEF Held
<1>. QED
  BY <1>2, <1>7, <1>8, <1>9 DEF SInv, TypeOK, Arrived

\* What RecordCheckIn writes, spelled out.
LEMMA RecordWrites ==
    ASSUME SInv, NEW p \in Request, RecordCheckIn(p)
    PROVE  /\ p \in DOMAIN loc /\ loc[p] \in CheckingIn
           /\ loc[p].s \in DOMAIN services /\ services[loc[p].s].live
           /\ DOMAIN attendance' = DOMAIN attendance \cup {<<loc[p].s, loc[p].v>>}
           /\ attendance'[<<loc[p].s, loc[p].v>>]
                 = [at |-> loc[p].at, late |-> now > loc[p].start]
           /\ \A a \in DOMAIN attendance : a # <<loc[p].s, loc[p].v>> => attendance'[a] = attendance[a]
           /\ attendance' = [a \in DOMAIN attendance' |-> attendance'[a]]
<1>. DEFINE a == <<loc[p].s, loc[p].v>>
            new == [at |-> loc[p].at, late |-> now > loc[p].start]
<1>1. p \in DOMAIN loc /\ loc[p] \in CheckingIn /\ loc[p].s \in DOMAIN services
  BY CallAtWork, Kinds DEF RecordCheckIn
<1>2. services[loc[p].s].live
  BY DEF RecordCheckIn, Live
<1>3. attendance' = Entered(attendance, a, new)
  BY DEF RecordCheckIn, UpsertCheckIn
<1>. HIDE DEF a, new
<1>4. /\ DOMAIN attendance' = DOMAIN attendance \cup {a} /\ attendance'[a] = new
      /\ \A k \in DOMAIN attendance : k # a => attendance'[k] = attendance[k]
      /\ attendance' = [k \in DOMAIN attendance' |-> attendance'[k]]
  BY <1>3 DEF Entered
<1>. QED
  BY <1>1, <1>2, <1>4 DEF a, new

LEMMA TypesOfRecord ==
    ASSUME SInv, NEW p \in Request, RecordCheckIn(p) PROVE SInv'
<1>. DEFINE a == <<loc[p].s, loc[p].v>>
            new == [at |-> loc[p].at, late |-> now > loc[p].start]
<1>1. /\ loc[p] \in CheckingIn /\ loc[p].s \in DOMAIN services /\ services[loc[p].s].live
      /\ DOMAIN attendance' = DOMAIN attendance \cup {a} /\ attendance'[a] = new
      /\ \A k \in DOMAIN attendance : k # a => attendance'[k] = attendance[k]
      /\ attendance' = [k \in DOMAIN attendance' |-> attendance'[k]]
  BY RecordWrites
<1>2. new \in CheckIn /\ a \in (DOMAIN services) \X Volunteer /\ a[1] = loc[p].s /\ a[2] \in Volunteer
  BY <1>1 DEF CheckingIn, CheckIn
<1>3. Answer(p) /\ UNCHANGED <<now, services, runs, instances, score>>
  BY DEF RecordCheckIn
<1>. HIDE DEF a, new
<1>4. Len(services) <= Len(services') /\ Len(services') \in Nat
      /\ Len(instances) <= Len(instances') /\ Len(instances') \in Nat
  BY <1>3, Lengths DEF SInv
<1>5. /\ Held' /\ pc' \in [Request -> {"idle", "found", "seen"}]
      /\ DOMAIN loc' = {q \in Request : pc'[q] # "idle"}
  BY <1>3, <1>4, Held_Answer DEF SInv
<1>6. \A k \in DOMAIN attendance' : attendance'[k] \in CheckIn
  BY <1>1, <1>2 DEF SInv, TypeOK
<1>7. \A k \in DOMAIN attendance' : services'[k[1]].live /\ k[2] \in Volunteer
  BY <1>1, <1>2, <1>3 DEF SInv, TypeOK
<1>8. Arrived'
  BY <1>1, <1>2, <1>3, <1>6 DEF SInv, Arrived
<1>. QED
  BY <1>3, <1>5, <1>6, <1>7, <1>8 DEF SInv, TypeOK

\* The steps of a checklist write instances alone.
LEMMA InstancesWritten ==
    ASSUME SInv, NEW p \in Request, Answer(p), instances' \in Seq(Instance),
           Len(instances) <= Len(instances'),
           \A x \in DOMAIN instances' : instances'[x].service \in DOMAIN services,
           UNCHANGED <<now, services, runs, attendance, score>>
    PROVE  SInv'
<1>1. Len(services) <= Len(services') /\ Len(services') \in Nat /\ Len(instances') \in Nat
  BY Lengths DEF SInv
<1>2. /\ Held' /\ pc' \in [Request -> {"idle", "found", "seen"}]
      /\ DOMAIN loc' = {q \in Request : pc'[q] # "idle"}
  BY <1>1, Held_Answer DEF SInv
<1>. QED
  BY <1>2 DEF SInv, TypeOK, Arrived

LEMMA TypesOfInstantiate ==
    ASSUME SInv, NEW p \in Request, Instantiate(p) PROVE SInv'
<1>1. p \in DOMAIN loc /\ loc[p].s \in DOMAIN services
  BY CallAtWork, Kinds DEF Instantiate
<1>2. Answer(p) /\ UNCHANGED <<now, services, runs, attendance, score>>
  BY DEF Instantiate
<1>3. CASE loc[p].s \in Live
  <2>. DEFINE row == [service |-> loc[p].s, completed |-> {}]
  <2>1. row \in Instance /\ row.service \in DOMAIN services
    BY <1>1, Lengths DEF Instance, SInv
  <2>2. instances' = Append(instances, row)
    BY <1>3 DEF Instantiate
  <2>3. /\ instances \in Seq(Instance) /\ Len(instances) \in Nat /\ DOMAIN instances = 1..Len(instances)
        /\ \A x \in DOMAIN instances : instances[x].service \in DOMAIN services
    BY Lengths DEF SInv, TypeOK
  <2>. HIDE DEF row
  <2>4. /\ instances' \in Seq(Instance) /\ Len(instances') = Len(instances) + 1
        /\ DOMAIN instances' = 1..Len(instances')
        /\ \A i \in 1..Len(instances) : instances'[i] = instances[i]
        /\ instances'[Len(instances) + 1] = row
    BY <2>1, <2>2, <2>3, AppendProperties
  <2>5. \A x \in DOMAIN instances' : instances'[x].service \in DOMAIN services
    BY <2>1, <2>3, <2>4
  <2>6. Len(instances) <= Len(instances')
    BY <2>3, <2>4
  <2>. QED
    BY <1>2, <2>4, <2>5, <2>6, InstancesWritten
<1>4. CASE loc[p].s \notin Live
  <2>1. UNCHANGED instances
    BY <1>4 DEF Instantiate
  <2>2. score' \in [Volunteer -> 10..100]
    BY <1>2 DEF SInv, TypeOK
  <2>. QED
    BY <1>2, <2>1, <2>2, TypesOfAnswer
<1>. QED
  BY <1>3, <1>4

\* What CompleteItem writes: one more item of one instance, or nothing.
LEMMA CompleteWrites ==
    ASSUME SInv, NEW p \in Request, CompleteItem(p)
    PROVE  /\ instances' \in Seq(Instance) /\ Len(instances') = Len(instances)
           /\ \A x \in DOMAIN instances : /\ instances'[x].service = instances[x].service
                                          /\ instances[x].completed \subseteq instances'[x].completed
<1>1. p \in DOMAIN loc /\ loc[p] \in Completing /\ loc[p].x \in DOMAIN instances
  BY CallAtWork, Kinds DEF CompleteItem
<1>. DEFINE x == loc[p].x
            row == [instances[x] EXCEPT !.completed = @ \cup {loc[p].item}]
<1>2. /\ instances \in Seq(Instance) /\ Len(instances) \in Nat /\ DOMAIN instances = 1..Len(instances)
      /\ instances[x] \in Instance
  BY <1>1, Lengths DEF SInv, TypeOK
<1>3. /\ row \in Instance /\ row.service = instances[x].service
      /\ instances[x].completed \subseteq row.completed
  BY <1>1, <1>2 DEF Instance, Completing
<1>4. instances' = [instances EXCEPT ![x] = row] \/ instances' = instances
  <2>1. Merged(x, loc[p]) = instances[x].completed \cup {loc[p].item}
    BY DEF Merged
  <2>2. instances' = IF x \in Open THEN [instances EXCEPT ![x].completed = Merged(x, loc[p])]
                     ELSE instances
    BY DEF CompleteItem
  <2>. QED
    BY <2>1, <2>2
<1>. HIDE DEF x, row
<1>5. CASE instances' = [instances EXCEPT ![x] = row]
  <2>1. /\ instances' \in Seq(Instance) /\ Len(instances') = Len(instances)
        /\ \A i \in 1..Len(instances) : instances'[i] = IF i = x THEN row ELSE instances[i]
    BY <1>1, <1>2, <1>3, <1>5, ExceptSeq DEF x
  <2>. QED
    BY <1>2, <1>3, <2>1
<1>6. CASE instances' = instances
  BY <1>2, <1>6
<1>. QED
  BY <1>4, <1>5, <1>6

LEMMA TypesOfComplete ==
    ASSUME SInv, NEW p \in Request, CompleteItem(p) PROVE SInv'
<1>1. Answer(p) /\ UNCHANGED <<now, services, runs, attendance, score>>
  BY DEF CompleteItem
<1>2. /\ instances' \in Seq(Instance) /\ Len(instances') = Len(instances)
      /\ \A x \in DOMAIN instances : instances'[x].service = instances[x].service
  BY CompleteWrites
<1>3. /\ Len(instances) \in Nat /\ DOMAIN instances = 1..Len(instances)
      /\ \A x \in DOMAIN instances : instances[x].service \in DOMAIN services
  BY Lengths DEF SInv, TypeOK
<1>4. \A x \in DOMAIN instances' : instances'[x].service \in DOMAIN services
  BY <1>2, <1>3
<1>. QED
  BY <1>1, <1>2, <1>3, <1>4, InstancesWritten

LEMMA TypesOfTick ==
    ASSUME SInv, Tick PROVE SInv'
<1>1. /\ now' \in 0..Horizon /\ UNCHANGED <<services, runs, attendance, instances, score, pc>>
  BY ServiceDayAssumption DEF Tick, tables, SInv, TypeOK
<1>2. /\ DOMAIN loc' = DOMAIN loc
      /\ \A p \in DOMAIN loc : loc'[p] = loc[p]
                               \/ (pc[p] = "seen" /\ loc'[p] = [loc[p] EXCEPT !.stale = TRUE])
  <2>. DEFINE stale(p) == [loc[p] EXCEPT !.stale = TRUE]
  <2>1. loc' = [p \in DOMAIN loc |-> IF pc[p] = "seen" THEN stale(p) ELSE loc[p]]
    BY Zenon DEF Tick
  <2>. HIDE DEF stale
  <2>2. DOMAIN loc' = DOMAIN loc
    BY <2>1
  <2>3. ASSUME NEW p \in DOMAIN loc
        PROVE  loc'[p] = loc[p] \/ (pc[p] = "seen" /\ loc'[p] = stale(p))
    <3>1. loc'[p] = IF pc[p] = "seen" THEN stale(p) ELSE loc[p]
      BY <2>1, Zenon
    <3>. QED
      BY <3>1
  <2>. QED
    BY <2>2, <2>3, Zenon DEF stale
<1>3. Held'
  <2>1. ASSUME NEW p \in DOMAIN loc
        PROVE  /\ Names(loc'[p], Len(services), Len(instances))
               /\ pc[p] = "seen" => loc'[p].op = "checkIn"
    <3>1. Names(loc[p], Len(services), Len(instances)) /\ (pc[p] = "seen" => loc[p].op = "checkIn")
      BY DEF SInv, Held
    <3>2. CASE loc'[p] = loc[p]
      BY <3>1, <3>2
    <3>3. CASE pc[p] = "seen" /\ loc'[p] = [loc[p] EXCEPT !.stale = TRUE]
      BY <3>1, <3>3, StaleHolds
    <3>. QED
      BY <1>2, <3>2, <3>3
  <2>. QED
    BY <1>1, <1>2, <2>1 DEF Held
<1>4. TypeOK'
  BY <1>1, <1>2 DEF SInv, TypeOK
<1>. QED
  BY <1>1, <1>3, <1>4 DEF SInv, Arrived

LEMMA TypesStep == ASSUME SInv, [Next]_vars PROVE SInv'
<1>1. CASE ServiceStep
  BY <1>1, TypesOfCreate, TypesOfCancel, TypesOfUpdate DEF ServiceStep
<1>2. CASE RunStep
  BY <1>2, TypesOfRuns
<1>3. CASE Tick
  BY <1>3, TypesOfTick
<1>4. ASSUME NEW p \in Request, CallStep(p) PROVE SInv'
  <2>1. CASE \E s \in DOMAIN services : \/ \E n \in 1..MaxCount : GenerateRecurring(p, s, n)
                                        \/ \E v \in Volunteer : FindForCheckIn(p, s, v)
                                        \/ FindForInstance(p, s)
    BY <2>1, TypesOfGenerate, TypesOfFinding
  <2>2. CASE \E x \in DOMAIN instances, i \in Item : FindInstance(p, x, i)
    BY <2>2, TypesOfFindInstance
  <2>3. CASE CreateShiftedCopies(p)
    BY <2>3, TypesOfCopies
  <2>4. CASE SelectAttendance(p)
    BY <2>4, TypesOfSelect
  <2>5. CASE RecordCheckIn(p)
    BY <2>5, TypesOfRecord
  <2>6. CASE CheckInThrows(p)
    <3>1. Answer(p) /\ UNCHANGED <<now, services, runs, attendance, instances, score>>
      BY <2>6 DEF CheckInThrows, tables
    <3>. QED
      BY <3>1, TypesOfAnswer DEF SInv, TypeOK
  <2>7. CASE CountForScores(p)
    BY <2>7, TypesOfCounting
  <2>8. CASE UpdateScores(p)
    <3>1. Answer(p) /\ score' = loc[p].scores /\ UNCHANGED <<now, services, runs, attendance, instances>>
      BY <2>8 DEF UpdateScores
    <3>2. p \in DOMAIN loc /\ loc[p] \in Recomputing
      BY <2>8, CallAtWork, Kinds DEF UpdateScores
    <3>3. score' \in [Volunteer -> 10..100]
      BY <3>1, <3>2 DEF Recomputing
    <3>. QED
      BY <3>1, <3>3, TypesOfAnswer
  <2>9. CASE Instantiate(p)
    BY <2>9, TypesOfInstantiate
  <2>10. CASE CompleteItem(p)
    BY <2>10, TypesOfComplete
  <2>. QED
    BY <1>4, <2>1, <2>2, <2>3, <2>4, <2>5, <2>6, <2>7, <2>8, <2>9, <2>10 DEF CallStep
<1>5. CASE UNCHANGED vars
  <2>1. UNCHANGED <<now, services, runs, attendance, instances, score, pc, loc>>
    BY <1>5 DEF vars, tables
  <2>. QED
    BY <2>1 DEF SInv, TypeOK, Held, Arrived
<1>. QED
  BY <1>1, <1>2, <1>3, <1>4, <1>5 DEF Next

-----------------------------------------------------------------------------
(* What every step leaves of the rows of services. *)

Same(old, new) == /\ new.title = old.title /\ new.start = old.start
                  /\ new.rule = old.rule /\ new.patched = old.patched

RowsSame == /\ DOMAIN services \subseteq DOMAIN services'
            /\ \A s \in DOMAIN services : Same(services[s], services'[s])

LEMMA SameOfCreate == ASSUME SInv, NEW dto \in Created, Create(dto) PROVE RowsSame
<1>0. /\ services \in Seq(Row) /\ Len(services) \in Nat /\ DOMAIN services = 1..Len(services)
  BY Lengths DEF SInv, TypeOK
<1>1. NewRow(dto) \in Row
  <2>1. Len(services) + 1 \in Nat
    BY <1>0
  <2>2. dto.date \in Int /\ dto.start \in Int /\ dto.rule \in Nat
    BY ServiceDayAssumption
  <2>. QED
    BY <2>1, <2>2 DEF NewRow, Row
<1>2. services' = Append(services, NewRow(dto))
  BY DEF Create
<1>3. /\ Len(services') = Len(services) + 1 /\ services' \in Seq(Row)
      /\ \A i \in 1..Len(services) : services'[i] = services[i]
  BY <1>0, <1>1, <1>2, AppendProperties
<1>. QED
  BY <1>0, <1>3 DEF RowsSame, Same

LEMMA SameOfCancel == ASSUME SInv, NEW s \in DOMAIN services, Cancel(s) PROVE RowsSame
<1>. DEFINE row == [services[s] EXCEPT !.live = FALSE]
<1>1. Same(services[s], row)
  <2>1. services[s] \in Row
    BY Lengths DEF SInv
  <2>. QED
    BY <2>1 DEF Same, Row
<1>2. services' = [services EXCEPT ![s] = row]
  BY DEF Cancel
<1>. HIDE DEF row
<1>3. DOMAIN services' = DOMAIN services
      /\ \A i \in DOMAIN services : services'[i] = IF i = s THEN row ELSE services[i]
  BY <1>2
<1>4. \A i \in DOMAIN services : Same(services[i], services[i])
  BY DEF Same
<1>. QED
  BY <1>1, <1>3, <1>4 DEF RowsSame

\* The copies of CreateShiftedCopies, after the rows that were there.
LEMMA CopiesWritten ==
    ASSUME SInv, NEW p \in Request, CreateShiftedCopies(p)
    PROVE  /\ p \in DOMAIN loc /\ loc[p] \in Expanding
           /\ Len(services') = Len(services) + Len(Added(loc[p].row, loc[p].count))
           /\ DOMAIN services' = 1..Len(services')
           /\ \A i \in 1..Len(services) : services'[i] = services[i]
           /\ \A i \in 1..Len(Added(loc[p].row, loc[p].count)) :
                 services'[Len(services) + i] = Added(loc[p].row, loc[p].count)[i]
           /\ RowsSame
<1>1. p \in DOMAIN loc /\ loc[p] \in Expanding
  BY CallAtWork, Kinds DEF CreateShiftedCopies
<1>. DEFINE row == loc[p].row
            n == loc[p].count
<1>2. row \in Row
  BY <1>1 DEF Expanding
<1>3. services' = services \o Added(row, n)
  BY Zenon DEF CreateShiftedCopies, Added
<1>. HIDE DEF row, n
<1>4. Added(row, n) \in Seq(Row) /\ Len(Added(row, n)) \in Nat
  BY <1>2, AddedCopies
<1>5. services \in Seq(Row) /\ Len(services) \in Nat /\ DOMAIN services = 1..Len(services)
  BY Lengths DEF SInv, TypeOK
<1>6. /\ services' \in Seq(Row) /\ Len(services') = Len(services) + Len(Added(row, n))
      /\ \A i \in 1..Len(services) + Len(Added(row, n)) :
            services'[i] = IF i <= Len(services) THEN services[i]
                           ELSE Added(row, n)[i - Len(services)]
  BY <1>3, <1>4, <1>5, ConcatProperties
<1>7. \A i \in 1..Len(services) : services'[i] = services[i]
  BY <1>4, <1>5, <1>6
<1>8. ASSUME NEW i \in 1..Len(Added(row, n))
      PROVE  services'[Len(services) + i] = Added(row, n)[i]
  <2>1. /\ Len(services) + i \in 1..Len(services) + Len(Added(row, n))
        /\ ~(Len(services) + i <= Len(services)) /\ (Len(services) + i) - Len(services) = i
    BY <1>4, <1>5
  <2>. QED
    BY <1>6, <2>1
<1>9. DOMAIN services' = 1..Len(services')
  BY <1>6
<1>10. RowsSame
  BY <1>4, <1>5, <1>6, <1>7, <1>9 DEF RowsSame, Same
<1>. QED
  BY <1>1, <1>6, <1>7, <1>8, <1>9, <1>10 DEF row, n

-----------------------------------------------------------------------------
(* Lateness. *)

\* A check-in on its way that nothing has overtaken holds the start of its
\* service, and the transaction that has begun, the time.
Reading ==
    \A p \in DOMAIN loc :
        loc[p].op = "checkIn" /\ ~loc[p].stale =>
            /\ loc[p].start = services[loc[p].s].start
            /\ pc[p] = "seen" => loc[p].at = now

LInv == LatenessFits /\ Reading

\* Rows of attendance that a step takes away or leaves, as settled as they were.
LEMMA LatenessLeft ==
    ASSUME SInv, LatenessFits, RowsSame,
           \A a \in DOMAIN attendance' \ unsettled' :
               a \in DOMAIN attendance \ unsettled /\ attendance'[a] = attendance[a]
    PROVE  LatenessFits'
<1>1. \A a \in DOMAIN attendance : a[1] \in DOMAIN services
  BY DEF SInv, Arrived
<1>2. \A a \in DOMAIN attendance : services'[a[1]].start = services[a[1]].start
  BY <1>1 DEF RowsSame, Same
<1>. QED
  BY <1>2 DEF LatenessFits

LEMMA ReadingAnswer ==
    ASSUME SInv, Reading, RowsSame, now' = now, NEW p \in Request, Answer(p)
    PROVE  Reading'
<1>1. /\ pc' = [pc EXCEPT ![p] = "idle"] /\ loc' = Without(loc, {p})
  BY DEF Answer, Goto
<1>2. DOMAIN loc' = DOMAIN loc \ {p} /\ \A q \in DOMAIN loc \ {p} : loc'[q] = loc[q]
  BY <1>1, WithoutIs
<1>3. \A q \in DOMAIN loc' : pc'[q] = pc[q]
  BY <1>1, <1>2 DEF SInv, TypeOK
<1>4. \A q \in DOMAIN loc : loc[q].op = "checkIn" => services'[loc[q].s].start = services[loc[q].s].start
  BY Kinds DEF RowsSame, Same
<1>. QED
  BY <1>2, <1>3, <1>4 DEF Reading

LEMMA ReadingHold ==
    ASSUME SInv, Reading, UNCHANGED <<now, services>>, NEW p \in Request, NEW c, Hold(p, c),
           c.op = "checkIn" => c.start = services[c.s].start
    PROVE  Reading'
<1>1. pc' = [pc EXCEPT ![p] = "found"] /\ loc' = Entered(loc, p, c)
  BY DEF Hold, Goto
<1>2. /\ DOMAIN loc' = DOMAIN loc \cup {p} /\ loc'[p] = c
      /\ \A q \in DOMAIN loc : q # p => loc'[q] = loc[q]
  BY <1>1 DEF Entered
<1>3. pc'[p] = "found" /\ \A q \in DOMAIN loc : q # p => pc'[q] = pc[q]
  BY <1>1 DEF SInv, TypeOK
<1>. QED
  BY <1>2, <1>3 DEF Reading

LEMMA ReadingStay ==
    ASSUME SInv, Reading, RowsSame, UNCHANGED <<now, pc, loc>>
    PROVE  Reading'
<1>1. \A q \in DOMAIN loc : loc[q].op = "checkIn" => services'[loc[q].s].start = services[loc[q].s].start
  BY Kinds DEF RowsSame, Same
<1>. QED
  BY <1>1 DEF Reading

LEMMA LatenessOfUpdate ==
    ASSUME SInv, LInv, NEW s \in DOMAIN services, NEW t \in Moves, Update(s, t)
    PROVE  LInv'
<1>1. /\ services' = [services EXCEPT ![s] = Patched(services[s], t)] /\ loc' = Overtaken(s)
      /\ unsettled' = unsettled \cup {a \in DOMAIN attendance : a[1] = s}
      /\ UNCHANGED <<now, attendance, pc>>
  BY DEF Update
<1>2. \A i \in DOMAIN services : i # s => services'[i] = services[i]
  BY <1>1
<1>3. LatenessFits'
  <2>1. \A a \in DOMAIN attendance' \ unsettled' :
           /\ a \in DOMAIN attendance \ unsettled /\ attendance'[a] = attendance[a]
           /\ a[1] # s /\ a[1] \in DOMAIN services
    BY <1>1 DEF SInv, Arrived
  <2>. QED
    BY <1>2, <2>1 DEF LInv, LatenessFits
<1>4. Reading'
  <2>1. DOMAIN loc' = DOMAIN loc
    BY <1>1 DEF Overtaken
  <2>2. ASSUME NEW p \in DOMAIN loc, loc'[p].op = "checkIn", ~loc'[p].stale
        PROVE  /\ loc'[p].start = services'[loc'[p].s].start
               /\ pc'[p] = "seen" => loc'[p].at = now'
    <3>1. loc'[p] = IF loc[p].op = "checkIn" /\ loc[p].s = s THEN [loc[p] EXCEPT !.stale = TRUE]
                    ELSE loc[p]
      BY <1>1, Zenon DEF Overtaken
    <3>2. CASE loc[p].op = "checkIn" /\ loc[p].s = s
      <4>1. [loc[p] EXCEPT !.stale = TRUE].stale = TRUE
        BY <3>2, Kinds DEF CheckingIn
      <4>. QED
        BY <2>2, <3>1, <3>2, <4>1
    <3>3. CASE ~(loc[p].op = "checkIn" /\ loc[p].s = s)
      <4>1. loc'[p] = loc[p]
        BY <3>1, <3>3
      <4>2. loc[p].s \in DOMAIN services /\ loc[p].s # s
        BY <2>2, <3>3, <4>1, Kinds
      <4>. QED
        BY <1>1, <1>2, <2>2, <4>1, <4>2 DEF LInv, Reading
    <3>. QED
      BY <3>2, <3>3
  <2>. QED
    BY <2>1, <2>2 DEF Reading
<1>. QED
  BY <1>3, <1>4 DEF LInv

LEMMA LatenessOfRecord ==
    ASSUME SInv, LInv, NEW p \in Request, RecordCheckIn(p)
    PROVE  LInv'
<1>. DEFINE a == <<loc[p].s, loc[p].v>>
            new == [at |-> loc[p].at, late |-> now > loc[p].start]
<1>1. /\ p \in DOMAIN loc /\ loc[p] \in CheckingIn
      /\ DOMAIN attendance' = DOMAIN attendance \cup {a} /\ attendance'[a] = new
      /\ \A k \in DOMAIN attendance : k # a => attendance'[k] = attendance[k]
  BY RecordWrites
<1>2. /\ Answer(p) /\ UNCHANGED <<now, services>> /\ pc[p] = "seen" /\ loc[p].op = "checkIn"
      /\ unsettled' = IF loc[p].stale THEN unsettled \cup {a} ELSE unsettled \ {a}
  BY DEF RecordCheckIn, InCall
<1>3. RowsSame
  BY <1>2 DEF RowsSame, Same
<1>4. Reading'
  BY <1>2, <1>3, ReadingAnswer DEF LInv
<1>5. a[1] = loc[p].s /\ new.at = loc[p].at /\ new.late = (now > loc[p].start)
  OBVIOUS
<1>. HIDE DEF a, new
<1>6. ASSUME NEW k \in DOMAIN attendance' \ unsettled'
      PROVE  attendance'[k].late = (attendance'[k].at > services'[k[1]].start)
  <2>1. CASE k = a
    <3>1. ~loc[p].stale
      BY <1>2, <2>1
    <3>2. loc[p].start = services[loc[p].s].start /\ loc[p].at = now
      BY <1>1, <1>2, <3>1 DEF LInv, Reading
    <3>. QED
      BY <1>1, <1>2, <1>5, <2>1, <3>2
  <2>2. CASE k # a
    <3>1. k \in DOMAIN attendance \ unsettled /\ attendance'[k] = attendance[k]
      BY <1>1, <1>2, <2>2
    <3>. QED
      BY <1>2, <3>1 DEF LInv, LatenessFits
  <2>. QED
    BY <2>1, <2>2
<1>7. LatenessFits'
  BY <1>6 DEF LatenessFits
<1>. QED
  BY <1>4, <1>7 DEF LInv

LEMMA LatenessOfTick == ASSUME SInv, LInv, Tick PROVE LInv'
<1>1. UNCHANGED <<services, attendance, pc, unsettled>>
  BY DEF Tick, tables, history
<1>2. LatenessFits'
  BY <1>1 DEF LInv, LatenessFits
<1>3. DOMAIN loc' = DOMAIN loc
  BY DEF Tick
<1>4. ASSUME NEW p \in DOMAIN loc, loc'[p].op = "checkIn", ~loc'[p].stale
      PROVE  /\ loc'[p].start = services'[loc'[p].s].start
             /\ pc'[p] = "seen" => loc'[p].at = now'
  <2>1. loc'[p] = IF pc[p] = "seen" THEN [loc[p] EXCEPT !.stale = TRUE] ELSE loc[p]
    BY Zenon DEF Tick
  <2>2. CASE pc[p] = "seen"
    <3>1. [loc[p] EXCEPT !.stale = TRUE].stale = TRUE
      BY <2>2, Kinds DEF CheckingIn, SInv, Held
    <3>. QED
      BY <1>4, <2>1, <2>2, <3>1
  <2>3. CASE pc[p] # "seen"
    BY <1>1, <1>4, <2>1, <2>3 DEF LInv, Reading
  <2>. QED
    BY <2>2, <2>3
<1>. QED
  BY <1>2, <1>3, <1>4 DEF LInv, Reading

LEMMA LatenessOfSelect == ASSUME SInv, LInv, NEW p \in Request, SelectAttendance(p) PROVE LInv'
<1>1. /\ UNCHANGED <<now, services, attendance, unsettled>> /\ pc' = [pc EXCEPT ![p] = "seen"]
      /\ loc' = [loc EXCEPT ![p].at = now,
                            ![p].known = <<loc[p].s, loc[p].v>> \in DOMAIN attendance]
  BY DEF SelectAttendance, Goto, tables, history
<1>2. p \in DOMAIN loc /\ loc[p] \in CheckingIn /\ loc[p].op = "checkIn"
  BY CallAtWork, Kinds DEF SelectAttendance
<1>3. /\ DOMAIN loc' = DOMAIN loc /\ \A q \in DOMAIN loc : q # p => loc'[q] = loc[q]
      /\ loc'[p].start = loc[p].start /\ loc'[p].s = loc[p].s /\ loc'[p].stale = loc[p].stale
      /\ loc'[p].at = now
  BY <1>1, <1>2 DEF CheckingIn
<1>4. \A q \in DOMAIN loc : q # p => pc'[q] = pc[q]
  BY <1>1 DEF SInv, TypeOK
<1>5. LatenessFits'
  BY <1>1 DEF LInv, LatenessFits
<1>6. Reading'
  BY <1>1, <1>2, <1>3, <1>4 DEF LInv, Reading
<1>. QED
  BY <1>5, <1>6 DEF LInv

LEMMA LatenessStep == ASSUME SInv, LInv, [Next]_vars PROVE LInv'
<1>0. /\ UNCHANGED services => RowsSame
      /\ UNCHANGED <<now, services, attendance, unsettled>> => LatenessFits'
  BY DEF RowsSame, Same, LInv, LatenessFits
<1>1. ASSUME RowsSame, UNCHANGED <<now, attendance, pc, loc, unsettled>> PROVE LInv'
  <2>1. LatenessFits'
    BY <1>1, LatenessLeft DEF LInv
  <2>. QED
    BY <1>1, <2>1, ReadingStay DEF LInv
<1>2. ASSUME NEW p \in Request, NEW c, Hold(p, c), UNCHANGED <<now, tables, history>>,
             c.op = "checkIn" => c.start = services[c.s].start
      PROVE  LInv'
  <2>1. UNCHANGED <<now, services, attendance, unsettled>>
    BY <1>2 DEF tables, history
  <2>2. Reading'
    BY <1>2, <2>1, ReadingHold DEF LInv
  <2>. QED
    BY <1>0, <2>1, <2>2 DEF LInv
<1>3. ASSUME NEW p \in Request, Answer(p), UNCHANGED <<now, attendance, unsettled>>, RowsSame PROVE LInv'
  <2>1. LatenessFits'
    BY <1>3, LatenessLeft DEF LInv
  <2>. QED
    BY <1>3, <2>1, ReadingAnswer DEF LInv
<1>4. CASE ServiceStep
  <2>1. ASSUME NEW dto \in Created, Create(dto) PROVE LInv'
    <3>1. UNCHANGED <<now, attendance, pc, loc, unsettled>>
      BY <2>1 DEF Create, history
    <3>. QED
      BY <1>1, <2>1, <3>1, SameOfCreate
  <2>2. ASSUME NEW s \in DOMAIN services, Cancel(s) PROVE LInv'
    <3>1. /\ attendance' = Without(attendance, {s} \X Volunteer)
          /\ unsettled' = unsettled \ ({s} \X Volunteer) /\ UNCHANGED <<now, pc, loc>>
      BY <2>2 DEF Cancel
    <3>2. \A a \in DOMAIN attendance' \ unsettled' :
             a \in DOMAIN attendance \ unsettled /\ attendance'[a] = attendance[a]
      BY <3>1 DEF Without
    <3>3. RowsSame
      BY <2>2, SameOfCancel
    <3>. QED
      BY <3>1, <3>2, <3>3, LatenessLeft, ReadingStay DEF LInv
  <2>. QED
    BY <1>4, <2>1, <2>2, LatenessOfUpdate DEF ServiceStep
<1>5. CASE RunStep
  <2>1. UNCHANGED <<now, services, attendance, pc, loc, unsettled>>
    BY <1>5 DEF RunStep, Assign, CompleteRun, Decline, history
  <2>. QED
    BY <1>0, <1>1, <2>1
<1>6. CASE Tick
  BY <1>6, LatenessOfTick
<1>7. ASSUME NEW p \in Request, CallStep(p) PROVE LInv'
  <2>1. ASSUME NEW s \in DOMAIN services, NEW n \in 1..MaxCount, GenerateRecurring(p, s, n) PROVE LInv'
    BY <1>2, <2>1 DEF GenerateRecurring
  <2>2. ASSUME NEW s \in DOMAIN services, NEW v \in Volunteer, FindForCheckIn(p, s, v) PROVE LInv'
    BY <1>2, <2>2 DEF FindForCheckIn
  <2>3. ASSUME NEW s \in DOMAIN services, FindForInstance(p, s) PROVE LInv'
    BY <1>2, <2>3 DEF FindForInstance
  <2>4. ASSUME NEW x \in DOMAIN instances, NEW i \in Item, FindInstance(p, x, i) PROVE LInv'
    BY <1>2, <2>4 DEF FindInstance
  <2>5. CASE CreateShiftedCopies(p)
    <3>1. Answer(p) /\ UNCHANGED <<now, attendance, unsettled>>
      BY <2>5 DEF CreateShiftedCopies
    <3>. QED
      BY <1>3, <2>5, <3>1, CopiesWritten
  <2>6. CASE SelectAttendance(p)
    BY <2>6, LatenessOfSelect
  <2>7. CASE RecordCheckIn(p)
    BY <2>7, LatenessOfRecord
  <2>8. CASE CheckInThrows(p) \/ UpdateScores(p) \/ Instantiate(p) \/ CompleteItem(p)
    <3>1. Answer(p) /\ UNCHANGED <<now, services, attendance, unsettled>>
      BY <2>8 DEF CheckInThrows, UpdateScores, Instantiate, CompleteItem, tables, history
    <3>. QED
      BY <1>0, <1>3, <3>1
  <2>9. CASE CountForScores(p)
    BY <1>2, <2>9 DEF CountForScores
  <2>. QED
    BY <1>7, <2>1, <2>2, <2>3, <2>4, <2>5, <2>6, <2>7, <2>8, <2>9 DEF CallStep
<1>8. CASE UNCHANGED vars
  BY <1>0, <1>1, <1>8 DEF vars, tables, history
<1>. QED
  BY <1>4, <1>5, <1>6, <1>7, <1>8 DEF Next

-----------------------------------------------------------------------------
(* Twins: rows of one series. *)

\* Titles are positions: a row has its own, or is a copy, has no rule and
\* comes later than the row it was copied from.
Titled ==
    \A s \in DOMAIN services :
        /\ services[s].title \in 1..s
        /\ services[services[s].title].title = services[s].title
        /\ services[s].rule # 0 => services[s].title = s

\* The row a call expands: its template, as it was.
Template(row) ==
    /\ row.title \in DOMAIN services
    /\ services[row.title].title = row.title
    /\ services[row.title].patched \/ row.start = services[row.title].start

Templates == \A p \in DOMAIN loc : loc[p].op = "expand" => Template(loc[p].row)

\* A copy starts after its template, unless one of them was edited.
CopiesLater ==
    \A s \in DOMAIN services :
        LET t == services[s].title
        IN  t # s => services[t].patched \/ services[s].patched \/ services[t].start < services[s].start

\* Two copies start apart, or were edited, or the series was generated again.
CopiesApart ==
    \A s, t \in DOMAIN services :
        s # t /\ services[s].title = services[t].title /\ services[s].start = services[t].start
        => services[s].patched \/ services[t].patched \/ services[s].title \in repeated

WInv == Titled /\ Templates /\ CopiesLater /\ CopiesApart

LEMMA WInvImplies == ASSUME WInv PROVE TwinsNeedRepeat
BY DEF WInv, CopiesApart, TwinsNeedRepeat, Live

\* The calls that expand a series are among those that did.
Expanders == \A p \in DOMAIN loc' : loc'[p].op = "expand" => p \in DOMAIN loc /\ loc'[p] = loc[p]

\* Rows that stay the same stay titled, and templates of what is expanded.
LEMMA TemplatesKept ==
    ASSUME SInv, WInv, RowsSame, Expanders PROVE Templates'
<1>. SUFFICES ASSUME NEW p \in DOMAIN loc', loc'[p].op = "expand" PROVE Template(loc[p].row)'
  BY DEF Templates
<1>1. p \in DOMAIN loc /\ loc'[p] = loc[p] /\ Template(loc[p].row)
  BY DEF Expanders, WInv, Templates
<1>. QED
  BY <1>1 DEF Template, RowsSame, Same

LEMMA OldTitled ==
    ASSUME SInv, WInv, RowsSame
    PROVE  \A s \in DOMAIN services : /\ services'[s].title = services[s].title
                                      /\ services'[s].title \in DOMAIN services
                                      /\ services'[s].title \in 1..s
                                      /\ services'[services'[s].title].title = services'[s].title
                                      /\ services'[s].rule # 0 => services'[s].title = s
<1>. SUFFICES ASSUME NEW s \in DOMAIN services
              PROVE  /\ services'[s].title = services[s].title
                     /\ services'[s].title \in DOMAIN services
                     /\ services'[s].title \in 1..s
                     /\ services'[services'[s].title].title = services'[s].title
                     /\ services'[s].rule # 0 => services'[s].title = s
  OBVIOUS
<1>1. /\ services[s].title \in 1..s /\ services[services[s].title].title = services[s].title
      /\ services[s].rule # 0 => services[s].title = s
  BY DEF WInv, Titled
<1>2. services[s].title \in DOMAIN services
  BY <1>1, Lengths DEF SInv
<1>3. Same(services[s], services'[s]) /\ Same(services[services[s].title], services'[services[s].title])
  BY <1>2 DEF RowsSame
<1>. QED
  BY <1>1, <1>2, <1>3 DEF Same

LEMMA OldLater ==
    ASSUME SInv, WInv, RowsSame, NEW s \in DOMAIN services, services'[s].title # s
    PROVE  \/ services'[services'[s].title].patched \/ services'[s].patched
           \/ services'[services'[s].title].start < services'[s].start
<1>1. services[s].title \in DOMAIN services /\ services'[s].title = services[s].title
  BY OldTitled
<1>2. Same(services[s], services'[s]) /\ Same(services[services[s].title], services'[services[s].title])
  BY <1>1 DEF RowsSame
<1>. QED
  BY <1>1, <1>2 DEF Same, WInv, CopiesLater

LEMMA OldApart ==
    ASSUME SInv, WInv, RowsSame, repeated \subseteq repeated',
           NEW s \in DOMAIN services, NEW t \in DOMAIN services, s # t,
           services'[s].title = services'[t].title, services'[s].start = services'[t].start
    PROVE  services'[s].patched \/ services'[t].patched \/ services'[s].title \in repeated'
<1>1. Same(services[s], services'[s]) /\ Same(services[t], services'[t])
  BY DEF RowsSame
<1>. QED
  BY <1>1 DEF Same, WInv, CopiesApart

LEMMA TwinsStay ==
    ASSUME SInv, WInv, RowsSame, DOMAIN services' = DOMAIN services, repeated' = repeated, Expanders
    PROVE  WInv'
<1>1. Titled'
  BY OldTitled DEF Titled
<1>2. Templates'
  BY TemplatesKept
<1>3. CopiesLater'
  BY OldLater DEF CopiesLater
<1>4. CopiesApart'
  BY OldApart DEF CopiesApart
<1>. QED
  BY <1>1, <1>2, <1>3, <1>4 DEF WInv

LEMMA TwinsOfCreate ==
    ASSUME SInv, WInv, NEW dto \in Created, Create(dto) PROVE WInv'
<1>0. /\ services \in Seq(Row) /\ Len(services) \in Nat /\ DOMAIN services = 1..Len(services)
  BY Lengths DEF SInv, TypeOK
<1>. DEFINE n == Len(services) + 1
            row == NewRow(dto)
<1>1. row \in Row /\ row.title = n
  <2>1. Len(services) + 1 \in Nat
    BY <1>0
  <2>2. dto.date \in Int /\ dto.start \in Int /\ dto.rule \in Nat
    BY ServiceDayAssumption
  <2>. QED
    BY <2>1, <2>2 DEF NewRow, Row
<1>2. services' = Append(services, row) /\ UNCHANGED <<loc, repeated>>
  BY DEF Create, history
<1>. HIDE DEF row
<1>3. /\ DOMAIN services' = 1..n /\ services'[n] = row
      /\ \A i \in 1..Len(services) : services'[i] = services[i]
  BY <1>0, <1>1, <1>2, AppendProperties
<1>4. RowsSame
  BY SameOfCreate
<1>5. \A s \in DOMAIN services' : s = n \/ s \in DOMAIN services
  BY <1>0, <1>3
<1>6. services'[n].title = n /\ n \in 1..n /\ n \notin DOMAIN services
  BY <1>0, <1>1, <1>3
<1>. HIDE DEF n
<1>7. Titled'
  BY <1>5, <1>6, <1>4, OldTitled DEF Titled
<1>8. Templates'
  BY <1>2, <1>4, TemplatesKept DEF Expanders
<1>9. CopiesLater'
  BY <1>4, <1>5, <1>6, OldLater DEF CopiesLater
<1>10. CopiesApart'
  <2>1. \A s \in DOMAIN services : services'[s].title # n
    BY <1>4, <1>6, OldTitled
  <2>. QED
    BY <1>2, <1>4, <1>5, <1>6, <2>1, OldApart DEF CopiesApart
<1>. QED
  BY <1>7, <1>8, <1>9, <1>10 DEF WInv

LEMMA TwinsOfUpdate ==
    ASSUME SInv, WInv, NEW s \in DOMAIN services, NEW t \in Moves, Update(s, t) PROVE WInv'
<1>. DEFINE row == Patched(services[s], t)
<1>1. /\ row.title = services[s].title /\ row.rule = services[s].rule /\ row.patched
  <2>1. services[s] \in Row
    BY Lengths DEF SInv
  <2>. QED
    BY <2>1 DEF Patched, Row
<1>2. services' = [services EXCEPT ![s] = row] /\ loc' = Overtaken(s) /\ repeated' = repeated
  BY DEF Update
<1>. HIDE DEF row
<1>3. /\ DOMAIN services' = DOMAIN services
      /\ \A i \in DOMAIN services : /\ services'[i].title = services[i].title
                                    /\ services'[i].rule = services[i].rule
                                    /\ i # s => services'[i] = services[i]
      /\ services'[s].patched
  BY <1>1, <1>2
<1>4. \A i \in DOMAIN services : services[i].title \in DOMAIN services
  BY Lengths DEF SInv, WInv, Titled
<1>5. Expanders
  <2>1. DOMAIN loc' = DOMAIN loc
    BY <1>2 DEF Overtaken
  <2>2. ASSUME NEW p \in DOMAIN loc, loc'[p].op = "expand" PROVE loc'[p] = loc[p]
    <3>1. loc'[p] = IF loc[p].op = "checkIn" /\ loc[p].s = s THEN [loc[p] EXCEPT !.stale = TRUE]
                    ELSE loc[p]
      BY <1>2, Zenon DEF Overtaken
    <3>2. loc[p].op = "checkIn" => [loc[p] EXCEPT !.stale = TRUE].op = "checkIn"
      BY Kinds DEF CheckingIn
    <3>. QED
      BY <2>2, <3>1, <3>2
  <2>. QED
    BY <2>1, <2>2 DEF Expanders
<1>6. Titled'
  BY <1>3, <1>4 DEF WInv, Titled
<1>7. Templates'
  <2>. SUFFICES ASSUME NEW p \in DOMAIN loc', loc'[p].op = "expand" PROVE Template(loc[p].row)'
    BY DEF Templates
  <2>1. p \in DOMAIN loc /\ loc'[p] = loc[p] /\ Template(loc[p].row)
    BY <1>5 DEF Expanders, WInv, Templates
  <2>. QED
    BY <1>3, <2>1 DEF Template
<1>8. CopiesLater'
  BY <1>3, <1>4 DEF WInv, CopiesLater
<1>9. CopiesApart'
  BY <1>2, <1>3 DEF WInv, CopiesApart
<1>. QED
  BY <1>6, <1>7, <1>8, <1>9 DEF WInv

LEMMA TwinsOfCopies ==
    ASSUME SInv, WInv, NEW p \in Request, CreateShiftedCopies(p) PROVE WInv'
<1>. DEFINE row == loc[p].row
            n == Len(services)
            copies == Added(row, loc[p].count)
            T == row.title
<1>0. n \in Nat /\ DOMAIN services = 1..n
  BY Lengths DEF SInv
<1>1. /\ p \in DOMAIN loc /\ row \in Row /\ loc[p].op = "expand"
      /\ DOMAIN services' = 1..(n + Len(copies)) /\ RowsSame
      /\ \A i \in 1..Len(copies) : services'[n + i] = copies[i]
  BY CopiesWritten DEF Expanding
<1>2. /\ Len(copies) \in Nat
      /\ \A i \in 1..Len(copies) :
            /\ copies[i].title = T /\ copies[i].rule = 0 /\ row.start < copies[i].start
      /\ \A i, j \in 1..Len(copies) : copies[i].start = copies[j].start => i = j
  <2>1. row.start \in Int
    BY <1>1 DEF Row
  <2>2. \A d \in 1..Year : row.start < row.start + d
    BY <2>1, ServiceDayAssumption
  <2>. HIDE DEF row
  <2>3. /\ Len(copies) \in Nat
        /\ \A i \in 1..Len(copies) :
              /\ Delay(Occurrences(row, loc[p].count), i) \in 1..Year
              /\ copies[i].title = T /\ copies[i].rule = 0
              /\ copies[i].start = row.start + Delay(Occurrences(row, loc[p].count), i)
        /\ \A i, j \in 1..Len(copies) : copies[i].start = copies[j].start => i = j
    BY <1>1, AddedCopies
  <2>. QED
    BY <2>2, <2>3
<1>3. /\ T \in 1..n /\ services'[T].title = T
      /\ services'[T].patched \/ row.start = services'[T].start
  <2>1. Template(row)
    BY <1>1 DEF WInv, Templates
  <2>. QED
    BY <1>0, <1>1, <2>1 DEF Template, RowsSame, Same
<1>4. /\ Answer(p) /\ repeated \subseteq repeated'
      /\ \A s \in DOMAIN services : services[s].title = T /\ s # T => T \in repeated'
  <2>1. repeated' = repeated \cup (IF \E s \in DOMAIN services : services[s].title = T /\ s # T
                                   THEN {T} ELSE {})
    BY DEF CreateShiftedCopies
  <2>2. Answer(p)
    BY DEF CreateShiftedCopies
  <2>. QED
    BY <2>1, <2>2
<1>5. Expanders
  <2>1. loc' = Without(loc, {p})
    BY <1>4 DEF Answer
  <2>. QED
    BY <2>1 DEF Expanders, Without
<1>. HIDE DEF row, n, copies, T
<1>6. \A s \in DOMAIN services' : \/ s \in DOMAIN services
                                  \/ \E i \in 1..Len(copies) : s = n + i
  <2>. SUFFICES ASSUME NEW s \in 1..(n + Len(copies)), s \notin 1..n
                PROVE  \E i \in 1..Len(copies) : s = n + i
    BY <1>0, <1>1
  <2>1. n \in Nat /\ Len(copies) \in Nat
    BY <1>0, <1>2
  <2>2. s - n \in 1..Len(copies) /\ s = n + (s - n)
    BY <2>1
  <2>. QED
    BY <2>2
<1>7. Titled'
  <2>1. ASSUME NEW i \in 1..Len(copies)
        PROVE  T \in 1..(n + i) /\ services'[n + i].title = T /\ services'[n + i].rule = 0
    BY <1>0, <1>1, <1>2, <1>3
  <2>. QED
    BY <1>1, <1>3, <1>6, <2>1, OldTitled DEF Titled
<1>8. Templates'
  BY <1>1, <1>5, TemplatesKept
<1>9. CopiesLater'
  <2>. SUFFICES ASSUME NEW s \in DOMAIN services', services'[s].title # s
                PROVE  \/ services'[services'[s].title].patched \/ services'[s].patched
                       \/ services'[services'[s].title].start < services'[s].start
    BY DEF CopiesLater
  <2>1. CASE s \in DOMAIN services
    BY <1>1, <2>1, OldLater
  <2>2. ASSUME NEW i \in 1..Len(copies), s = n + i
        PROVE  \/ services'[services'[s].title].patched
               \/ services'[services'[s].title].start < services'[s].start
    BY <1>1, <1>2, <1>3, <2>2
  <2>. QED
    BY <1>6, <2>1, <2>2
<1>10. CopiesApart'
  <2>. SUFFICES ASSUME NEW s \in DOMAIN services', NEW t \in DOMAIN services', s # t,
                       services'[s].title = services'[t].title, services'[s].start = services'[t].start
                PROVE  services'[s].patched \/ services'[t].patched \/ services'[s].title \in repeated'
    BY DEF CopiesApart
  <2>1. CASE s \in DOMAIN services /\ t \in DOMAIN services
    BY <1>1, <1>4, <2>1, OldApart
  <2>2. ASSUME NEW u \in DOMAIN services, NEW i \in 1..Len(copies),
               services'[u].title = services'[n + i].title, services'[u].start = services'[n + i].start
        PROVE  services'[u].patched \/ services'[u].title \in repeated'
    <3>1. services'[u].title = T /\ services[u].title = T
      BY <1>1, <1>2, <2>2, OldTitled
    <3>2. CASE u # T
      BY <1>4, <3>1, <3>2
    <3>3. CASE u = T
      <4>1. row.start < services'[u].start /\ row.start \in Int
        BY <1>1, <1>2, <2>2 DEF Row
      <4>. QED
        BY <1>3, <3>3, <4>1
    <3>. QED
      BY <3>2, <3>3
  <2>3. CASE s \notin DOMAIN services /\ t \notin DOMAIN services
    <3>1. PICK i \in 1..Len(copies) : s = n + i
      BY <1>6, <2>3
    <3>2. PICK j \in 1..Len(copies) : t = n + j
      BY <1>6, <2>3
    <3>3. copies[i].start = copies[j].start
      BY <1>1, <3>1, <3>2
    <3>. QED
      BY <1>2, <3>1, <3>2, <3>3
  <2>. QED
    BY <1>6, <2>1, <2>2, <2>3
<1>. QED
  BY <1>7, <1>8, <1>9, <1>10 DEF WInv

LEMMA TwinsOfHold ==
    ASSUME SInv, WInv, NEW p \in Request, NEW c, Hold(p, c), UNCHANGED <<services, repeated>>,
           c.op = "expand" => Template(c.row)
    PROVE  WInv'
<1>1. /\ DOMAIN loc' = DOMAIN loc \cup {p} /\ loc'[p] = c
      /\ \A q \in DOMAIN loc : q # p => loc'[q] = loc[q]
  BY DEF Hold, Entered
<1>2. Templates'
  <2>1. \A q \in DOMAIN loc' : loc'[q].op = "expand" => Template(loc'[q].row)
    BY <1>1 DEF WInv, Templates
  <2>. QED
    BY <2>1 DEF Templates, Template
<1>3. Titled' /\ CopiesLater' /\ CopiesApart'
  BY DEF WInv, Titled, CopiesLater, CopiesApart
<1>. QED
  BY <1>2, <1>3 DEF WInv

LEMMA TwinsStep == ASSUME SInv, WInv, [Next]_vars PROVE WInv'
<1>1. ASSUME UNCHANGED <<services, repeated>>, Expanders PROVE WInv'
  <2>1. RowsSame
    BY <1>1 DEF RowsSame, Same
  <2>. QED
    BY <1>1, <2>1, TwinsStay
<1>2. ASSUME NEW p \in Request, NEW c, Hold(p, c), UNCHANGED <<now, tables, history>>,
             c.op # "expand"
      PROVE  WInv'
  BY <1>2, TwinsOfHold DEF tables, history
<1>3. ASSUME NEW p \in Request, Answer(p), UNCHANGED <<services, repeated>> PROVE WInv'
  <2>1. loc' = Without(loc, {p})
    BY <1>3 DEF Answer
  <2>2. Expanders
    BY <2>1 DEF Expanders, Without
  <2>. QED
    BY <1>1, <1>3, <2>2
<1>4. CASE ServiceStep
  <2>1. ASSUME NEW s \in DOMAIN services, Cancel(s) PROVE WInv'
    <3>1. UNCHANGED <<loc, repeated>> /\ DOMAIN services' = DOMAIN services
      BY <2>1 DEF Cancel
    <3>2. Expanders
      BY <3>1 DEF Expanders
    <3>. QED
      BY <2>1, <3>1, <3>2, SameOfCancel, TwinsStay
  <2>. QED
    BY <1>4, <2>1, TwinsOfCreate, TwinsOfUpdate DEF ServiceStep
<1>5. CASE RunStep
  <2>1. UNCHANGED <<services, loc, repeated>>
    BY <1>5 DEF RunStep, Assign, CompleteRun, Decline, history
  <2>. QED
    BY <1>1, <2>1 DEF Expanders
<1>6. CASE Tick
  <2>1. DOMAIN loc' = DOMAIN loc /\ UNCHANGED <<services, repeated>>
    BY <1>6 DEF Tick, tables, history
  <2>2. ASSUME NEW p \in DOMAIN loc, loc'[p].op = "expand" PROVE loc'[p] = loc[p]
    <3>1. loc'[p] = IF pc[p] = "seen" THEN [loc[p] EXCEPT !.stale = TRUE] ELSE loc[p]
      BY <1>6, Zenon DEF Tick
    <3>2. pc[p] = "seen" => [loc[p] EXCEPT !.stale = TRUE].op = "checkIn"
      BY Kinds DEF CheckingIn, SInv, Held
    <3>. QED
      BY <2>2, <3>1, <3>2
  <2>3. Expanders
    BY <2>1, <2>2 DEF Expanders
  <2>. QED
    BY <1>1, <2>1, <2>3
<1>7. ASSUME NEW p \in Request, CallStep(p) PROVE WInv'
  <2>1. ASSUME NEW s \in DOMAIN services, NEW n \in 1..MaxCount, GenerateRecurring(p, s, n) PROVE WInv'
    <3>. DEFINE c == [op |-> "expand", row |-> services[s], count |-> n]
    <3>1. Hold(p, c) /\ UNCHANGED <<services, repeated>> /\ services[s].rule # 0
      BY <2>1 DEF GenerateRecurring, tables, history
    <3>2. services[s].title = s
      BY <3>1 DEF WInv, Titled
    <3>3. Template(services[s])
      BY <3>2 DEF Template
    <3>4. c.op = "expand" => Template(c.row)
      BY <3>3
    <3>. HIDE DEF c
    <3>. QED
      BY <3>1, <3>4, TwinsOfHold
  <2>2. ASSUME NEW s \in DOMAIN services, NEW v \in Volunteer, FindForCheckIn(p, s, v) PROVE WInv'
    <3>. DEFINE c == [op |-> "checkIn", s |-> s, v |-> v, start |-> services[s].start,
                      at |-> 0, known |-> FALSE, stale |-> FALSE]
    <3>1. Hold(p, c) /\ UNCHANGED <<now, tables, history>> /\ c.op # "expand"
      BY <2>2 DEF FindForCheckIn
    <3>. QED
      BY <1>2, <3>1
  <2>3. ASSUME NEW s \in DOMAIN services, FindForInstance(p, s) PROVE WInv'
    <3>. DEFINE c == [op |-> "instantiate", s |-> s]
    <3>1. Hold(p, c) /\ UNCHANGED <<now, tables, history>> /\ c.op # "expand"
      BY <2>3 DEF FindForInstance
    <3>. QED
      BY <1>2, <3>1
  <2>4. ASSUME NEW x \in DOMAIN instances, NEW i \in Item, FindInstance(p, x, i) PROVE WInv'
    <3>. DEFINE c == [op |-> "complete", x |-> x, item |-> i, read |-> instances[x].completed]
    <3>1. Hold(p, c) /\ UNCHANGED <<now, tables, history>> /\ c.op # "expand"
      BY <2>4 DEF FindInstance
    <3>. QED
      BY <1>2, <3>1
  <2>5. CASE CreateShiftedCopies(p)
    BY <2>5, TwinsOfCopies
  <2>6. CASE SelectAttendance(p)
    <3>1. /\ UNCHANGED <<services, repeated>>
          /\ loc' = [loc EXCEPT ![p].at = now,
                                ![p].known = <<loc[p].s, loc[p].v>> \in DOMAIN attendance]
      BY <2>6 DEF SelectAttendance, tables, history
    <3>2. p \in DOMAIN loc /\ loc[p] \in CheckingIn /\ loc[p].op = "checkIn"
      BY <2>6, CallAtWork, Kinds DEF SelectAttendance
    <3>3. /\ DOMAIN loc' = DOMAIN loc /\ loc'[p].op = "checkIn"
          /\ \A q \in DOMAIN loc : q # p => loc'[q] = loc[q]
      BY <3>1, <3>2 DEF CheckingIn
    <3>4. Expanders
      BY <3>3 DEF Expanders
    <3>. QED
      BY <1>1, <3>1, <3>4
  <2>7. CASE RecordCheckIn(p) \/ CheckInThrows(p) \/ UpdateScores(p) \/ Instantiate(p) \/ CompleteItem(p)
    <3>1. Answer(p) /\ UNCHANGED <<services, repeated>>
      BY <2>7 DEF RecordCheckIn, CheckInThrows, UpdateScores, Instantiate, CompleteItem, tables, history
    <3>. QED
      BY <1>3, <3>1
  <2>8. CASE CountForScores(p)
    <3>. DEFINE c == [op |-> "recompute", scores |-> [v \in Volunteer |-> ScoreOf(v)]]
    <3>1. Hold(p, c) /\ UNCHANGED <<now, tables, history>> /\ c.op # "expand"
      BY <2>8 DEF CountForScores
    <3>. QED
      BY <1>2, <3>1
  <2>. QED
    BY <1>7, <2>1, <2>2, <2>3, <2>4, <2>5, <2>6, <2>7, <2>8 DEF CallStep
<1>8. CASE UNCHANGED vars
  BY <1>1, <1>8 DEF vars, tables, history, Expanders
<1>. QED
  BY <1>4, <1>5, <1>6, <1>7, <1>8 DEF Next

-----------------------------------------------------------------------------
(* Rosters and scores, of any tables. *)

LEMMA RunsFinite == ASSUME SInv PROVE IsFiniteSet(DOMAIN runs)
<1>1. DOMAIN runs = 1..Len(runs) /\ Len(runs) \in Nat
  BY Lengths DEF SInv
<1>. QED
  BY <1>1, FS_Interval

\* A set of one completed run has it as its latest.
LEMMA RosterIs ==
    ASSUME SInv, NEW v, NEW r \in NoShows(v)
    PROVE  v \in Roster(runs[r].service) \/ Cardinality(Completed(runs[r].service)) > 1
<1>. DEFINE s == runs[r].service
            C == Completed(s)
<1>1. r \in C /\ v \in runs[r].chosen /\ v \notin runs[r].declined /\ runs[r].done \in Nat
  <2>1. r \in DOMAIN runs /\ r \in Kept /\ runs[r].done > 0 /\ v \in runs[r].chosen /\ v \notin runs[r].declined
    BY DEF NoShows, Counted, Kept
  <2>2. runs[r] \in Run
    BY <2>1, Lengths DEF SInv
  <2>. QED
    BY <2>1, <2>2 DEF Completed, Run
<1>2. IsFiniteSet(C) /\ Cardinality(C) \in Nat
  <2>1. C \in SUBSET DOMAIN runs
    BY DEF Completed, Kept
  <2>. QED
    BY <2>1, RunsFinite, FS_Subset, FS_CardinalityType
<1>3. CASE Cardinality(C) > 1
  BY <1>3
<1>4. CASE Cardinality(C) = 1
  <2>1. C = {r}
    BY <1>1, <1>2, <1>4, FS_Singleton
  <2>2. Latest(s) = r
    <3>1. \A q \in C : runs[q].done <= runs[r].done
      BY <1>1, <2>1
    <3>. QED
      BY <2>1, <3>1 DEF Latest
  <2>. QED
    BY <1>1, <2>1, <2>2 DEF Roster
<1>5. Cardinality(C) # 0
  BY <1>1, <1>2, FS_EmptySet
<1>. QED
  BY <1>2, <1>3, <1>4, <1>5

LEMMA CountsTyped ==
    ASSUME SInv, NEW v
    PROVE  /\ Cardinality(Attended(v)) \in Nat
           /\ Cardinality(NoShows(v)) \in Nat
           /\ Cardinality(Declines(v)) \in Nat
<1>1. Attended(v) \in SUBSET DOMAIN runs /\ NoShows(v) \in SUBSET DOMAIN runs
      /\ Declines(v) \in SUBSET DOMAIN runs
  BY DEF Attended, NoShows, Declines, Counted, Kept
<1>. QED
  BY <1>1, RunsFinite, FS_Subset, FS_CardinalityType

-----------------------------------------------------------------------------
(* The theorems. *)

LEMMA InitInv == Init => LInv /\ WInv
<1>. SUFFICES ASSUME Init PROVE LInv /\ WInv
  OBVIOUS
<1>1. DOMAIN attendance = {} /\ DOMAIN loc = {} /\ DOMAIN services = {}
  BY DEF Init
<1>. QED
  BY <1>1 DEF LInv, LatenessFits, Reading, WInv, Titled, Templates, CopiesLater, CopiesApart

\* The inductive invariant: types, what calls hold, lateness and titles.
THEOREM Inductive == Spec => [](SInv /\ LInv /\ WInv)
<1>1. Init => SInv /\ LInv /\ WInv
  BY InitTypes, InitInv
<1>2. SInv /\ LInv /\ WInv /\ [Next]_vars => (SInv /\ LInv /\ WInv)'
  BY TypesStep, LatenessStep, TwinsStep
<1>. QED
  BY <1>1, <1>2, PTL DEF Spec

\* Every table and every call keeps its type, and a cancelled service has no
\* attendance: the schema, whatever calls interleave.
THEOREM TypeCorrect == Spec => []TypeOK
<1>1. SInv => TypeOK
  BY DEF SInv
<1>. QED
  BY <1>1, Inductive, PTL

\* A check-in is late exactly if it was made after the service's start, unless
\* the service was edited, or time passed, since the call read it.
THEOREM LatenessIsRight == Spec => []LatenessFits
<1>1. LInv => LatenessFits
  BY DEF LInv
<1>. QED
  BY <1>1, Inductive, PTL

\* A no-show is on the roster of a service whose schedule completed once.
THEOREM NoShowsAreRostered == Spec => []NoShowNeedsRoster
<1>1. SInv => NoShowNeedsRoster
  BY RosterIs DEF NoShowNeedsRoster
<1>. QED
  BY <1>1, Inductive, PTL

\* Services of a series that start together were edited, or the series was
\* generated more than once.
THEOREM OneOfASeriesAtATime == Spec => []TwinsNeedRepeat
<1>1. WInv => TwinsNeedRepeat
  BY WInvImplies
<1>. QED
  BY <1>1, Inductive, PTL

\* The score rewards attendance over a decline over a no-show, whatever the
\* counts: the rounding and the bounds never turn it around.
THEOREM ScoresAreFair == Spec => []ScoreIsFair
<1>1. SInv => ScoreIsFair
  BY CountsTyped, FairScores, Zenon DEF ScoreIsFair
<1>. QED
  BY <1>1, Inductive, PTL

\* No step takes an item out of a checklist instance.
THEOREM CompletionsAreKept == Spec => CompletionsKept
<1>. DEFINE Grow == \A x \in DOMAIN instances : instances[x].completed \subseteq instances'[x].completed
<1>1. SInv /\ [Next]_vars => [Grow]_instances
  <2>. SUFFICES ASSUME SInv, [Next]_vars, instances' # instances PROVE Grow
    BY Zenon
  <2>1. PICK p \in Request : Instantiate(p) \/ CompleteItem(p)
    BY DEF Next, vars, tables, history, ServiceStep, Create, Cancel, Update, RunStep, Assign,
           CompleteRun, Decline, Tick, CallStep, GenerateRecurring, FindForCheckIn, FindForInstance,
           FindInstance, CreateShiftedCopies, SelectAttendance, RecordCheckIn, CheckInThrows,
           CountForScores, UpdateScores
  <2>2. CASE Instantiate(p)
    <3>. DEFINE row == [service |-> loc[p].s, completed |-> {}]
    <3>1. instances' = Append(instances, row)
      BY <2>2 DEF Instantiate
    <3>2. instances \in Seq(Instance) /\ DOMAIN instances = 1..Len(instances)
      BY Lengths DEF SInv, TypeOK
    <3>3. row \in Instance
      <4>1. p \in DOMAIN loc /\ loc[p].s \in DOMAIN services
        BY <2>2, CallAtWork, Kinds DEF Instantiate
      <4>2. loc[p].s \in Nat
        BY <4>1, Lengths DEF SInv
      <4>. QED
        BY <4>2 DEF Instance
    <3>. HIDE DEF row
    <3>4. \A x \in 1..Len(instances) : Append(instances, row)[x] = instances[x]
      BY <3>2, <3>3, AppendProperties
    <3>5. \A x \in DOMAIN instances : instances'[x] = instances[x]
      BY <3>1, <3>2, <3>4
    <3>. QED
      BY <3>5
  <2>3. CASE CompleteItem(p)
    BY <2>3, CompleteWrites
  <2>. QED
    BY <2>1, <2>2, <2>3
<1>. QED
  BY <1>1, Inductive, PTL DEF Spec, CompletionsKept
=============================================================================
