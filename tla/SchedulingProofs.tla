-------------------------- MODULE SchedulingProofs --------------------------
(***************************************************************************)
(* Proofs about Scheduling, for any number of volunteers, services, roles  *)
(* and requests.                                                           *)
(***************************************************************************)
EXTENDS Scheduling, TLAPS, FiniteSetTheorems

-----------------------------------------------------------------------------
(* The inductive invariant. *)

\* A request has locals from its arrival on, and its run only after createRun.
Started ==
    /\ DOMAIN loc = {p \in Request : pc[p] # "idle"}
    /\ \A p \in DOMAIN run : pc[p] \notin {"idle", "create"}
    /\ \A a \in DOMAIN asg : pc[a[1]] # "idle"

\* What a handler remembers of the run it works on still fits the tables.
LocalsFit ==
    \A p \in DOMAIN loc :
        /\ pc[p] \in Solving => loc[p].run = p
        /\ pc[p] # "create" => pc[loc[p].run] \notin {"idle", "create"}
        /\ pc[p] # "create" /\ loc[p].run \in DOMAIN run
             => run[loc[p].run].service = loc[p].service
        /\ loc[p].todo \subseteq RolesOf(loc[p].service)
        /\ \A pick \in loc[p].picks : ServiceOf[pick[1]] = loc[p].service
        /\ pc[p] \in {"create", "list"} => loc[p].picks = {}

\* A service's latest run exists and is one of its own.
LatestFits ==
    \A s \in Service : latest[s] # NoRun =>
        latest[s] \in DOMAIN run /\ run[latest[s]].service = s

\* The history variable records every pair of calls now in flight.
MetInFlight ==
    \A p, q \in Running : p # q => Overlapped(p, q)

\* Before ListTaken, the row being declined is declined.
TargetDeclined ==
    \A p \in DOMAIN loc : pc[p] = "list" =>
        \A a \in loc[p].target \cap DOMAIN asg :
            asg[a].declined \/ Overlapped(a[1], p)

\* takenThisRun and takenVolunteerIds miss only rows of overlapping calls.
TakenCovers ==
    \A p \in DOMAIN loc : pc[p] \in {"resolve", "insert", "find", "place"} =>
        /\ \A a \in DOMAIN asg : Chosen(a) /\ asg[a].run = loc[p].run =>
             asg[a].vol \in loc[p].taken \/ Overlapped(a[1], p)
        /\ \A pick \in loc[p].picks : pick[2] \notin loc[p].taken
        /\ \A x, y \in loc[p].picks : x[2] = y[2] => x = y

\* A winner that is not inserted yet was free on that day when it was chosen.
PicksWereFree ==
    \A p \in DOMAIN loc : pc[p] \in {"insert", "place"} =>
        \A pick \in loc[p].picks : \A a \in DOMAIN asg :
            (/\ Chosen(a)
             /\ asg[a].vol = pick[2]
             /\ run[asg[a].run].service # loc[p].service
             /\ DateOf[run[asg[a].run].service] = DateOf[loc[p].service])
                => Overlapped(a[1], p)

IInv ==
    /\ TypeOK
    /\ Started
    /\ LocalsFit
    /\ LatestFits
    /\ NoOrphans
    /\ MetInFlight
    /\ TargetDeclined
    /\ TakenCovers
    /\ PicksWereFree
    /\ TwoRolesNeedOverlap
    /\ DoubleBookingNeedsOverlap

-----------------------------------------------------------------------------
(* Type correctness. *)

LEMMA CandidatesAreVolunteers ==
    ASSUME NEW r \in Role, NEW X
    PROVE  /\ Candidates(r, X) \subseteq Volunteer
           /\ Candidates(r, X) \cap X = {}
BY SchedulingAssumption DEF Candidates

LEMMA TypeInit == Init => TypeOK
BY SchedulingAssumption DEF Init, TypeOK, EmptyTable

\* Ending a handler keeps its locals well typed.
LEMMA TypeEnd ==
    ASSUME TypeOK, NEW p \in DOMAIN loc, NEW out \in {"done", "failed"}, End(p, out)
    PROVE  /\ pc' \in [Request -> {"idle", "done", "failed"} \cup InFlight]
           /\ DOMAIN loc' \subseteq Request
           /\ \A q \in DOMAIN loc' : loc'[q] \in Local
           /\ met' \in [Request -> SUBSET Request]
BY DEF TypeOK, End, Goto, Local

LEMMA TypeArrive ==
    ASSUME TypeOK, NEW p \in Request, NEW at \in InFlight, NEW l \in Local,
           Arrive(p, at, l)
    PROVE  /\ pc' \in [Request -> {"idle", "done", "failed"} \cup InFlight]
           /\ DOMAIN loc' \subseteq Request
           /\ \A q \in DOMAIN loc' : loc'[q] \in Local
           /\ met' \in [Request -> SUBSET Request]
<1>1. Running \subseteq Request
  BY DEF Running
<1>. QED
  BY <1>1 DEF TypeOK, Arrive, Inserted

LEMMA TypeInsertRow ==
    ASSUME TypeOK, NEW p \in DOMAIN loc, NEW pick \in loc[p].picks,
           InsertRow(p, pick[1], pick[2])
    PROVE  /\ DOMAIN asg' \subseteq AsgId
           /\ \A a \in DOMAIN asg' : asg'[a] \in AsgRow
BY DEF TypeOK, InsertRow, Inserted, Local, AsgRow, AsgId

LEMMA TypeSolve ==
    ASSUME TypeOK, NEW p \in Request, p \in DOMAIN loc, SolveStep(p)
    PROVE  TypeOK'
<1>1. CASE CreateRun(p)
  BY <1>1 DEF CreateRun, TypeOK, Inserted, Goto, RunRow, Local, InFlight, Solving
<1>2. CASE CreateRunThrows(p)
  BY <1>2, TypeEnd DEF CreateRunThrows, Throw, TypeOK, tables
<1>3. CASE ResolveNone(p)
  BY <1>3, SchedulingAssumption
  DEF ResolveNone, TypeOK, Goto, Local, InFlight, Solving, tables
<1>4. CASE Resolve(p)
  <2>1. PICK r \in loc[p].todo : \E winners \in SUBSET Candidates(r, loc[p].taken) :
          loc' = [loc EXCEPT ![p].todo = @ \ {r}, ![p].required = @ + MinRequired[r],
                             ![p].gaps = IF FillCount(r, Cardinality(Candidates(r, loc[p].taken)))
                                              < MinRequired[r] THEN @ \cup {r} ELSE @,
                             ![p].picks = {r} \X winners]
    BY <1>4, Zenon DEF Resolve
  <2>2. r \in Role
    BY DEF TypeOK, Local
  <2>3. PICK winners \in SUBSET Candidates(r, loc[p].taken) :
          loc' = [loc EXCEPT ![p].todo = @ \ {r}, ![p].required = @ + MinRequired[r],
                             ![p].gaps = IF FillCount(r, Cardinality(Candidates(r, loc[p].taken)))
                                              < MinRequired[r] THEN @ \cup {r} ELSE @,
                             ![p].picks = {r} \X winners]
    BY <2>1
  <2>4. {r} \X winners \in SUBSET (Role \X Volunteer)
    BY <2>2, CandidatesAreVolunteers
  <2>5. MinRequired[r] \in Nat
    BY <2>2, SchedulingAssumption
  <2>6. loc'[p] \in Local /\ DOMAIN loc' = DOMAIN loc
        /\ \A q \in DOMAIN loc : q # p => loc'[q] = loc[q]
    <3>. DEFINE newTodo == loc[p].todo \ {r}
                newRequired == loc[p].required + MinRequired[r]
                newGaps == IF FillCount(r, Cardinality(Candidates(r, loc[p].taken))) < MinRequired[r]
                             THEN loc[p].gaps \cup {r} ELSE loc[p].gaps
                newPicks == {r} \X winners
    <3>1. loc' = [loc EXCEPT ![p].todo = newTodo, ![p].required = newRequired,
                             ![p].gaps = newGaps, ![p].picks = newPicks]
      BY <2>3, Zenon
    <3>2. /\ newTodo \in SUBSET Role
          /\ newRequired \in Nat
          /\ newGaps \in SUBSET Role
          /\ newPicks \in SUBSET (Role \X Volunteer)
      BY <2>2, <2>4, <2>5 DEF TypeOK, Local
    <3>. HIDE DEF newTodo, newRequired, newGaps, newPicks
    <3>. QED
      BY <3>1, <3>2 DEF TypeOK, Local
  <2>. QED
    BY <1>4, <2>6 DEF Resolve, TypeOK, Goto, InFlight, Solving, tables
<1>5. CASE Insert(p)
  <2>1. PICK pick \in loc[p].picks :
          /\ InsertRow(p, pick[1], pick[2])
          /\ loc' = [loc EXCEPT ![p].picks = @ \ {pick}, ![p].taken = @ \cup {pick[2]},
                                ![p].made = @ + 1]
    BY <1>5 DEF Insert
  <2>2. loc'[p] \in Local
    BY <2>1 DEF TypeOK, Local
  <2>. QED
    BY <1>5, <2>1, <2>2, TypeInsertRow
    DEF Insert, TypeOK, Goto, InFlight, Solving
<1>6. CASE InsertThrows(p)
  BY <1>6, TypeEnd DEF InsertThrows, Throw, TypeOK, tables
<1>7. CASE CompleteRun(p)
  <2>1. /\ DOMAIN run' \subseteq Request
        /\ \A q \in DOMAIN run' : run'[q] \in RunRow
        /\ latest' \in [Service -> Request \cup {NoRun}]
    BY <1>7 DEF CompleteRun, TypeOK, RunRow, Local
  <2>. QED
    BY <1>7, <2>1, TypeEnd DEF CompleteRun, TypeOK
<1>8. CASE CompleteRunThrows(p)
  BY <1>8, TypeEnd DEF CompleteRunThrows, Throw, TypeOK, tables
<1>. QED
  BY <1>1, <1>2, <1>3, <1>4, <1>5, <1>6, <1>7, <1>8 DEF SolveStep

LEMMA TypeReplace ==
    ASSUME TypeOK, NEW p \in Request, p \in DOMAIN loc, ReplaceStep(p)
    PROVE  TypeOK'
<1>1. CASE ListTaken(p)
  <2>. DEFINE t == StillPlaced(p) \cup loc[p].decliner
  <2>1. t \in SUBSET Volunteer
    BY DEF StillPlaced, TypeOK, AsgRow, Local
  <2>2. loc' = [loc EXCEPT ![p].taken = t]
    BY <1>1 DEF ListTaken
  <2>. HIDE DEF t
  <2>3. loc'[p] \in Local
    BY <2>1, <2>2 DEF TypeOK, Local
  <2>. QED
    BY <1>1, <2>2, <2>3 DEF ListTaken, TypeOK, Goto, InFlight, Replacing, tables
<1>2. CASE ListTakenGone(p)
  BY <1>2, TypeEnd DEF ListTakenGone, Answer, TypeOK, tables
<1>3. CASE FindReplacement(p)
  <2>1. PICK r \in loc[p].todo : \E winner \in Candidates(r, loc[p].taken) :
          loc' = [loc EXCEPT ![p].picks = {<<r, winner>>}]
    BY <1>3 DEF FindReplacement
  <2>2. r \in Role
    BY <2>1 DEF TypeOK, Local
  <2>3. PICK winner \in Volunteer :
          loc' = [loc EXCEPT ![p].picks = {<<r, winner>>}]
    BY <2>1, <2>2, CandidatesAreVolunteers
  <2>4. loc'[p] \in Local
    BY <2>2, <2>3 DEF TypeOK, Local
  <2>. QED
    BY <1>3, <2>3, <2>4 DEF FindReplacement, TypeOK, Goto, InFlight, Replacing, tables
<1>4. CASE FindReplacementNone(p)
  BY <1>4, TypeEnd DEF FindReplacementNone, Answer, TypeOK, tables
<1>5. CASE Place(p)
  <2>1. PICK pick \in loc[p].picks :
          /\ InsertRow(p, pick[1], pick[2])
          /\ loc' = [loc EXCEPT ![p].picks = {}, ![p].made = @ + 1]
    BY <1>5 DEF Place
  <2>2. loc'[p] \in Local
    BY <2>1 DEF TypeOK, Local
  <2>. QED
    BY <1>5, <2>1, <2>2, TypeInsertRow DEF Place, TypeOK, Goto, InFlight, Replacing
<1>6. CASE PlaceThrows(p)
  BY <1>6, TypeEnd DEF PlaceThrows, Throw, TypeOK, tables
<1>7. CASE Notify(p)
  BY <1>7, TypeEnd DEF Notify, Answer, TypeOK, tables
<1>. QED
  BY <1>1, <1>2, <1>3, <1>4, <1>5, <1>6, <1>7 DEF ReplaceStep

\* The actions that are not a step of a request.
Other ==
    \/ \E a \in DOMAIN asg : Confirm(a)
    \/ \E a \in DOMAIN asg, v \in Overrides : Override(a, v)
    \/ \E s \in Cancellable : CancelService(s)
    \/ \E v \in Editors, b \in BOOLEAN : SetStatus(v, b)
    \/ \E v \in Editors, d \in Date, b \in BOOLEAN : SetAvailability(v, d, b)

\* Next, with the two kinds of calls and everything else told apart.
LEMMA NextCases ==
    Next => \/ \E p \in Request : RequestStep(p) \/ Abort(p)
            \/ \E p \in Request, s \in Service : Generate(p, s)
            \/ \E p \in Request, a \in DOMAIN asg : Decline(p, a)
            \/ Other
BY DEF Next, Other

\* Only a request in flight takes a step, and it has locals.
LEMMA StepInFlight ==
    ASSUME TypeOK, Started, NEW p \in Request, RequestStep(p) \/ Abort(p)
    PROVE  pc[p] \in InFlight /\ p \in DOMAIN loc
<1>1. pc[p] \in InFlight
  BY DEF RequestStep, SolveStep, ReplaceStep, Abort, CreateRun, CreateRunThrows, Resolve,
         ResolveNone, Insert, InsertThrows, CompleteRun, CompleteRunThrows, ListTaken,
         ListTakenGone, FindReplacement, FindReplacementNone, Place, PlaceThrows, Notify,
         InFlight, Solving, Replacing
<1>. QED
  BY <1>1 DEF Started, InFlight, Solving, Replacing

LEMMA TypeGenerate ==
    ASSUME TypeOK, NEW p \in Request, NEW s \in Service, Generate(p, s)
    PROVE  TypeOK'
<1>. DEFINE l == [service |-> s, run |-> p, todo |-> RolesOf(s), taken |-> {},
                  picks |-> {}, made |-> 0, required |-> 0, gaps |-> {},
                  target |-> {}, decliner |-> {}]
<1>1. l \in Local
  BY DEF Local, RolesOf
<1>2. Arrive(p, "create", l) /\ UNCHANGED tables
  BY DEF Generate
<1>. QED
  BY <1>1, <1>2, TypeArrive DEF InFlight, Solving, TypeOK, tables

LEMMA TypeDecline ==
    ASSUME TypeOK, NEW p \in Request, NEW a \in DOMAIN asg, Decline(p, a)
    PROVE  TypeOK'
<1>. DEFINE l == [service |-> ServiceOf[asg[a].role], run |-> asg[a].run,
                  todo |-> {asg[a].role}, taken |-> {}, picks |-> {}, made |-> 0,
                  required |-> 0, gaps |-> {},
                  target |-> {a}, decliner |-> {asg[a].vol}]
<1>1. l \in Local
  BY SchedulingAssumption DEF TypeOK, AsgRow, Local
<1>2. Arrive(p, "list", l)
  BY DEF Decline
<1>3. DOMAIN asg' \subseteq AsgId /\ \A b \in DOMAIN asg' : asg'[b] \in AsgRow
  BY DEF Decline, TypeOK, AsgRow
<1>. QED
  BY <1>1, <1>2, <1>3, TypeArrive DEF Decline, InFlight, Replacing, TypeOK

LEMMA TypeOther ==
    ASSUME TypeOK, Other
    PROVE  TypeOK'
<1>1. CASE \E a \in DOMAIN asg : Confirm(a)
  <2>1. PICK a \in DOMAIN asg : Confirm(a)
    BY <1>1
  <2>2. DOMAIN asg' \subseteq AsgId /\ \A b \in DOMAIN asg' : asg'[b] \in AsgRow
    BY <2>1 DEF Confirm, TypeOK, AsgRow
  <2>. QED
    BY <2>1, <2>2 DEF Confirm, TypeOK
<1>2. CASE \E a \in DOMAIN asg, v \in Overrides : Override(a, v)
  BY <1>2, SchedulingAssumption DEF Override, TypeOK, AsgRow
<1>3. CASE \E s \in Cancellable : CancelService(s)
  BY <1>3 DEF CancelService, Kept, TypeOK
<1>4. CASE \E v \in Editors, b \in BOOLEAN : SetStatus(v, b)
  BY <1>4, SchedulingAssumption DEF SetStatus, TypeOK
<1>5. CASE \E v \in Editors, d \in Date, b \in BOOLEAN : SetAvailability(v, d, b)
  BY <1>5, SchedulingAssumption DEF SetAvailability, TypeOK
<1>. QED
  BY <1>1, <1>2, <1>3, <1>4, <1>5 DEF Other

LEMMA TypeAbort ==
    ASSUME TypeOK, NEW p \in DOMAIN loc, Abort(p)
    PROVE  TypeOK'
BY TypeEnd DEF Abort, Throw, TypeOK, tables

LEMMA TypeNext ==
    ASSUME TypeOK, Started, Next
    PROVE  TypeOK'
BY NextCases, StepInFlight, TypeSolve, TypeReplace, TypeAbort, TypeGenerate, TypeDecline,
   TypeOther DEF RequestStep

-----------------------------------------------------------------------------
(* What each kind of step leaves alone. *)

\* A step of request p concerns nobody else's locals, and never changes the run,
\* the service or the declined row that p works on.
LEMMA StepFrame ==
    ASSUME TypeOK, Started, NEW p \in Request, RequestStep(p) \/ Abort(p)
    PROVE  /\ DOMAIN loc' = DOMAIN loc
           /\ \A q \in Request \ {p} : pc'[q] = pc[q]
           /\ \A q \in DOMAIN loc \ {p} : loc'[q] = loc[q]
           /\ loc'[p].run = loc[p].run
           /\ loc'[p].service = loc[p].service
           /\ loc'[p].todo \subseteq loc[p].todo
           /\ loc'[p].target = loc[p].target
           /\ pc'[p] \in (InFlight \ {"create", "list"}) \cup {"done", "failed"}
           /\ pc'[p] \in Solving => pc[p] \in Solving
           /\ met' = met
<1>1. p \in DOMAIN loc /\ loc[p] \in Local /\ pc \in [Request -> {"idle", "done", "failed"} \cup InFlight]
  BY StepInFlight DEF TypeOK
<1>2. ASSUME NEW out \in {"done", "failed"}, End(p, out)
      PROVE  /\ DOMAIN loc' = DOMAIN loc
             /\ \A q \in Request \ {p} : pc'[q] = pc[q]
             /\ \A q \in DOMAIN loc \ {p} : loc'[q] = loc[q]
             /\ loc'[p].run = loc[p].run
             /\ loc'[p].service = loc[p].service
             /\ loc'[p].todo = {}
             /\ loc'[p].target = loc[p].target
             /\ pc'[p] = out
             /\ met' = met
  BY <1>1, <1>2 DEF End, Goto, Local
<1>3. CASE Abort(p) \/ CreateRunThrows(p) \/ InsertThrows(p) \/ CompleteRunThrows(p)
        \/ PlaceThrows(p)
  BY <1>2, <1>3 DEF Abort, CreateRunThrows, InsertThrows, CompleteRunThrows, PlaceThrows,
     Throw, Solving
<1>4. CASE CompleteRun(p) \/ ListTakenGone(p) \/ FindReplacementNone(p) \/ Notify(p)
  BY <1>2, <1>4 DEF CompleteRun, ListTakenGone, FindReplacementNone, Notify, Answer, Solving
<1>5. CASE CreateRun(p)
  BY <1>1, <1>5 DEF CreateRun, Goto, InFlight, Solving, Replacing
<1>6. CASE ResolveNone(p)
  BY <1>1, <1>6 DEF ResolveNone, Goto, InFlight, Solving, Replacing, Local
<1>7. CASE Resolve(p)
  BY <1>1, <1>7 DEF Resolve, Goto, InFlight, Solving, Replacing, Local
<1>8. CASE Insert(p)
  BY <1>1, <1>8 DEF Insert, Goto, InFlight, Solving, Replacing, Local
<1>9. CASE ListTaken(p)
  BY <1>1, <1>9 DEF ListTaken, Goto, InFlight, Solving, Replacing, Local
<1>10. CASE FindReplacement(p)
  BY <1>1, <1>10 DEF FindReplacement, Goto, InFlight, Solving, Replacing, Local
<1>11. CASE Place(p)
  BY <1>1, <1>11 DEF Place, Goto, InFlight, Solving, Replacing, Local
<1>. QED
  BY <1>3, <1>4, <1>5, <1>6, <1>7, <1>8, <1>9, <1>10, <1>11
  DEF RequestStep, SolveStep, ReplaceStep

\* What the arrival of request p adds to the requests already there.
LEMMA ArriveFrame ==
    ASSUME TypeOK, Started, NEW p \in Request, NEW at \in {"create", "list"}, NEW l,
           pc[p] = "idle", Arrive(p, at, l)
    PROVE  /\ p \notin DOMAIN loc
           /\ DOMAIN loc' = DOMAIN loc \cup {p}
           /\ \A q \in Request \ {p} : pc'[q] = pc[q]
           /\ pc'[p] = at
           /\ \A q \in DOMAIN loc : loc'[q] = loc[q]
           /\ loc'[p] = l
           /\ \A q1, q2 \in Request \ {p} : Overlapped(q1, q2) => Overlapped(q1, q2)'
           /\ \A q \in Running : Overlapped(p, q)' /\ Overlapped(q, p)'
<1>1. p \notin DOMAIN loc
  BY DEF Started
<1>2. p \notin Running /\ Running \subseteq Request
  BY DEF Running, InFlight, Solving, Replacing
<1>. QED
  BY <1>1, <1>2 DEF Arrive, Inserted, TypeOK, Overlapped

LEMMA OtherFrame ==
    ASSUME Other
    PROVE  UNCHANGED <<pc, loc, met>>
BY DEF Other, Confirm, Override, CancelService, SetStatus, SetAvailability

\* The requests in flight together stay recorded.
LEMMA MetGrows ==
    ASSUME TypeOK, Started, Next
    PROVE  \A q1, q2 \in Request :
             pc[q1] # "idle" /\ pc[q2] # "idle" /\ Overlapped(q1, q2) => Overlapped(q1, q2)'
<1>1. CASE \E p \in Request : RequestStep(p) \/ Abort(p)
  BY <1>1, StepFrame DEF Overlapped
<1>2. CASE \E p \in Request, s \in Service : Generate(p, s)
  BY <1>2, ArriveFrame DEF Generate
<1>3. CASE \E p \in Request, a \in DOMAIN asg : Decline(p, a)
  BY <1>3, ArriveFrame DEF Decline
<1>4. CASE Other
  BY <1>4, OtherFrame DEF Overlapped
<1>. QED
  BY <1>1, <1>2, <1>3, <1>4, NextCases

\* Every row outside new was there before; declined rows stay declined, and the
\* volunteer the solver chose for a row stays as long as the row counts as chosen.
RowsFrom(new) ==
    \A a \in DOMAIN asg' \ new :
        /\ a \in DOMAIN asg
        /\ asg'[a].run = asg[a].run
        /\ asg'[a].role = asg[a].role
        /\ asg[a].declined => asg'[a].declined
        /\ Chosen(a)' => Chosen(a) /\ asg'[a].vol = asg[a].vol

\* A table is unchanged but for the row inserted.
LEMMA RowsInserted ==
    ASSUME TypeOK, NEW p \in DOMAIN loc, NEW pick \in loc[p].picks,
           InsertRow(p, pick[1], pick[2])
    PROVE  /\ RowsFrom({<<p, loc[p].made>>})
           /\ <<p, loc[p].made>> \in DOMAIN asg'
           /\ asg'[<<p, loc[p].made>>].run = loc[p].run
           /\ asg'[<<p, loc[p].made>>].role = pick[1]
           /\ asg'[<<p, loc[p].made>>].vol = pick[2]
           /\ pick \in Role \X Volunteer
<1>1. pick \in Role \X Volunteer
  BY DEF TypeOK, Local
<1>. DEFINE n == <<p, loc[p].made>>
<1>2. DOMAIN asg' = DOMAIN asg \cup {n} /\ \A a \in DOMAIN asg' \ {n} : asg'[a] = asg[a]
  BY DEF InsertRow, Inserted
<1>3. asg'[n].run = loc[p].run /\ asg'[n].role = pick[1] /\ asg'[n].vol = pick[2]
  BY DEF InsertRow, Inserted
<1>4. RowsFrom({n})
  BY <1>2 DEF RowsFrom, Chosen
<1>. QED
  BY <1>1, <1>2, <1>3, <1>4

LEMMA RowsKept ==
    ASSUME TypeOK, Next, \A p \in Request : ~Insert(p) /\ ~Place(p)
    PROVE  RowsFrom({})
<1>1. ASSUME UNCHANGED asg
      PROVE  RowsFrom({})
  BY <1>1 DEF RowsFrom, Chosen
<1>2. CASE \E p \in Request : RequestStep(p) \/ Abort(p)
  BY <1>1, <1>2 DEF RequestStep, SolveStep, ReplaceStep, Abort, CreateRun, CreateRunThrows,
     Resolve, ResolveNone, InsertThrows, CompleteRun, CompleteRunThrows, ListTaken,
     ListTakenGone, FindReplacement, FindReplacementNone, PlaceThrows, Notify, Throw, Answer,
     tables
<1>3. CASE \E p \in Request, s \in Service : Generate(p, s)
  BY <1>1, <1>3 DEF Generate, tables
<1>4. CASE \E p \in Request, a \in DOMAIN asg : Decline(p, a)
  <2>1. PICK a \in DOMAIN asg : asg' = [asg EXCEPT ![a].declined = TRUE]
    BY <1>4 DEF Decline
  <2>. QED
    BY <2>1 DEF RowsFrom, Chosen, TypeOK, AsgRow
<1>5. CASE \E a \in DOMAIN asg : Confirm(a)
  <2>1. PICK a \in DOMAIN asg : asg' = [asg EXCEPT ![a].confirmed = TRUE]
    BY <1>5 DEF Confirm
  <2>. QED
    BY <2>1 DEF RowsFrom, Chosen, TypeOK, AsgRow
<1>6. CASE \E a \in DOMAIN asg, v \in Overrides : Override(a, v)
  <2>1. PICK a \in DOMAIN asg, v \in Overrides :
          asg' = [asg EXCEPT ![a].vol = v, ![a].source = "MANUAL_OVERRIDE"]
    BY <1>6 DEF Override
  <2>. QED
    BY <2>1 DEF RowsFrom, Chosen, TypeOK, AsgRow
<1>7. CASE \E s \in Cancellable : CancelService(s)
  BY <1>7 DEF CancelService, Kept, RowsFrom, Chosen
<1>8. CASE \E v \in Editors, b \in BOOLEAN : SetStatus(v, b)
  BY <1>1, <1>8 DEF SetStatus
<1>9. CASE \E v \in Editors, d \in Date, b \in BOOLEAN : SetAvailability(v, d, b)
  BY <1>1, <1>9 DEF SetAvailability
<1>. QED
  BY <1>2, <1>3, <1>4, <1>5, <1>6, <1>7, <1>8, <1>9, NextCases DEF Other

\* A run keeps its service, and appears only when its request creates it.
LEMMA RunsKept ==
    ASSUME TypeOK, Started, Next, NEW q \in DOMAIN run'
    PROVE  \/ q \in DOMAIN run /\ run'[q].service = run[q].service
           \/ /\ pc[q] = "create"
              /\ run'[q].service = loc[q].service
              /\ loc[q].service \in services
              /\ CreateRun(q)
<1>1. CASE \E p \in Request : RequestStep(p) \/ Abort(p)
  <2>1. PICK p \in Request : RequestStep(p) \/ Abort(p)
    BY <1>1
  <2>2. CASE CreateRun(p)
    BY <2>2 DEF CreateRun, Inserted
  <2>3. CASE CompleteRun(p)
    BY <2>3 DEF CompleteRun, TypeOK, RunRow
  <2>4. CASE ~CreateRun(p) /\ ~CompleteRun(p)
    <3>. UNCHANGED run
      BY <2>1, <2>4 DEF RequestStep, SolveStep, ReplaceStep, Abort, CreateRunThrows, Resolve,
         ResolveNone, Insert, InsertThrows, CompleteRunThrows, ListTaken, ListTakenGone,
         FindReplacement, FindReplacementNone, Place, PlaceThrows, Notify, Throw, Answer, tables
    <3>. QED
      OBVIOUS
  <2>. QED
    BY <2>2, <2>3, <2>4
<1>2. CASE \E p \in Request, s \in Service : Generate(p, s)
  BY <1>2 DEF Generate, tables
<1>3. CASE \E p \in Request, a \in DOMAIN asg : Decline(p, a)
  BY <1>3 DEF Decline
<1>4. CASE Other
  BY <1>4 DEF Other, Confirm, Override, CancelService, Kept, SetStatus, SetAvailability
<1>. QED
  BY <1>1, <1>2, <1>3, <1>4, NextCases

-----------------------------------------------------------------------------
(* Each part of the invariant is preserved. *)

\* The steps that insert a row, with the row.
LEMMA InsertCases ==
    ASSUME TypeOK, Started, NEW p \in Request, Insert(p) \/ Place(p)
    PROVE  /\ p \in DOMAIN loc
           /\ UNCHANGED run
           /\ loc[p].run \in DOMAIN run \/ (pc[p] = "insert" /\ p \in DOMAIN run)
           /\ \E pick \in loc[p].picks : InsertRow(p, pick[1], pick[2])
<1>1. p \in DOMAIN loc
  BY StepInFlight DEF RequestStep, SolveStep, ReplaceStep
<1>. QED
  BY <1>1 DEF Insert, Place

\* No call starts over.
LEMMA PcGrows ==
    ASSUME TypeOK, Started, Next
    PROVE  \A q \in Request :
             /\ pc[q] # "idle" => pc'[q] # "idle"
             /\ pc[q] \notin {"idle", "create"} => pc'[q] \notin {"idle", "create"}
<1>1. CASE \E p \in Request : RequestStep(p) \/ Abort(p)
  BY <1>1, StepFrame DEF InFlight, Solving, Replacing
<1>2. CASE \E p \in Request, s \in Service : Generate(p, s)
  BY <1>2, ArriveFrame DEF Generate
<1>3. CASE \E p \in Request, a \in DOMAIN asg : Decline(p, a)
  BY <1>3, ArriveFrame DEF Decline
<1>4. CASE Other
  BY <1>4, OtherFrame
<1>. QED
  BY <1>1, <1>2, <1>3, <1>4, NextCases

LEMMA StartedNext ==
    ASSUME TypeOK, Started, Next
    PROVE  Started'
<1>1. \A a \in DOMAIN asg : a[1] \in Request
  BY DEF TypeOK, AsgId
<1>2. \A q \in Request : pc[q] # "idle" => pc'[q] # "idle"
  BY PcGrows
<1>3. \A q \in Request : pc[q] \notin {"idle", "create"} => pc'[q] \notin {"idle", "create"}
  BY PcGrows
<1>4. \A q \in Request : q \in DOMAIN loc' <=> pc'[q] # "idle"
  <2>1. CASE \E p \in Request : RequestStep(p) \/ Abort(p)
    <3>1. PICK p \in Request : RequestStep(p) \/ Abort(p)
      BY <2>1
    <3>2. p \in DOMAIN loc /\ pc'[p] # "idle"
      BY <3>1, StepInFlight, StepFrame DEF InFlight, Solving, Replacing
    <3>. QED
      BY <3>1, <3>2, StepFrame DEF Started
  <2>2. CASE \E p \in Request, s \in Service : Generate(p, s)
    <3>1. PICK p \in Request : \E s \in Service : Generate(p, s)
      BY <2>2
    <3>2. /\ DOMAIN loc' = DOMAIN loc \cup {p}
          /\ \A q \in Request \ {p} : pc'[q] = pc[q]
          /\ pc'[p] = "create"
      BY <3>1, ArriveFrame DEF Generate
    <3>. QED
      BY <3>2 DEF Started
  <2>3. CASE \E p \in Request, a \in DOMAIN asg : Decline(p, a)
    <3>1. PICK p \in Request, a \in DOMAIN asg : Decline(p, a)
      BY <2>3
    <3>2. /\ DOMAIN loc' = DOMAIN loc \cup {p}
          /\ \A q \in Request \ {p} : pc'[q] = pc[q]
          /\ pc'[p] = "list"
      BY <3>1, ArriveFrame DEF Decline
    <3>. QED
      BY <3>2 DEF Started
  <2>4. CASE Other
    BY <2>4, OtherFrame DEF Started
  <2>. QED
    BY <2>1, <2>2, <2>3, <2>4, NextCases
<1>5. \A q \in DOMAIN run' : pc'[q] \notin {"idle", "create"}
  <2>. SUFFICES ASSUME NEW q \in DOMAIN run'
                PROVE  pc'[q] \notin {"idle", "create"}
    OBVIOUS
  <2>1. CASE q \in DOMAIN run
    BY <2>1, <1>3 DEF Started, TypeOK
  <2>2. CASE CreateRun(q)
    <3>1. q \in Request /\ pc' = [pc EXCEPT ![q] = IF loc[q].todo = {} THEN "complete" ELSE "resolve"]
      BY <2>2, TypeNext DEF CreateRun, Goto, TypeOK
    <3>. QED
      BY <3>1 DEF TypeOK
  <2>. QED
    BY <2>1, <2>2, RunsKept
<1>6. \A a \in DOMAIN asg' : pc'[a[1]] # "idle"
  <2>1. CASE \E p \in Request : Insert(p) \/ Place(p)
    <3>1. PICK p \in Request : Insert(p) \/ Place(p)
      BY <2>1
    <3>2. PICK pick \in loc[p].picks : InsertRow(p, pick[1], pick[2])
      BY <3>1, InsertCases
    <3>3. p \in DOMAIN loc
      BY <3>1, InsertCases
    <3>4. RowsFrom({<<p, loc[p].made>>})
      BY <3>2, <3>3, RowsInserted
    <3>5. pc'[p] # "idle"
      BY <3>3, <1>2 DEF Started
    <3>. QED
      BY <3>4, <3>5, <1>1, <1>2 DEF RowsFrom, Started
  <2>2. CASE \A p \in Request : ~Insert(p) /\ ~Place(p)
    BY <2>2, <1>1, <1>2, RowsKept DEF RowsFrom, Started
  <2>. QED
    BY <2>1, <2>2
<1>7. DOMAIN loc' = {q \in Request : pc'[q] # "idle"}
  BY <1>4, TypeNext DEF TypeOK
<1>. QED
  BY <1>5, <1>6, <1>7 DEF Started

\* The type invariant and what it takes to prove it: a request in flight has locals.
THEOREM TypeCorrect == Spec => []TypeOK
<1>1. Init => Started
  BY DEF Init, Started, EmptyTable
<1>2. TypeOK /\ Started /\ [Next]_vars => TypeOK' /\ Started'
  <2>1. ASSUME TypeOK, Started, UNCHANGED vars
        PROVE  TypeOK' /\ Started'
    BY <2>1 DEF vars, TypeOK, Started
  <2>. QED
    BY <2>1, TypeNext, StartedNext
<1>. QED
  BY <1>1, <1>2, TypeInit, PTL DEF Spec

\* Winners come from resolveCandidates.
LEMMA PicksFrame ==
    ASSUME TypeOK, Started, NEW p \in Request, RequestStep(p) \/ Abort(p),
           NEW pick \in loc'[p].picks
    PROVE  \/ pick \in loc[p].picks
           \/ /\ Resolve(p) \/ FindReplacement(p)
              /\ pick[1] \in loc[p].todo
              /\ pick[2] \in Candidates(pick[1], loc[p].taken)
<1>1. p \in DOMAIN loc /\ loc[p] \in Local
  BY StepInFlight DEF TypeOK
<1>2. ASSUME NEW out, End(p, out)
      PROVE  loc'[p].picks = {}
  BY <1>1, <1>2 DEF End, Local
<1>3. CASE Resolve(p)
  <2>1. PICK r \in loc[p].todo : \E winners \in SUBSET Candidates(r, loc[p].taken) :
          loc'[p].picks = {r} \X winners
    BY <1>1, <1>3 DEF Resolve, Local
  <2>. QED
    BY <1>3, <2>1
<1>4. CASE FindReplacement(p)
  <2>1. PICK r \in loc[p].todo : \E winner \in Candidates(r, loc[p].taken) :
          loc'[p].picks = {<<r, winner>>}
    BY <1>1, <1>4 DEF FindReplacement, Local
  <2>. QED
    BY <1>4, <2>1
<1>5. CASE CreateRun(p) \/ ResolveNone(p) \/ Insert(p) \/ ListTaken(p) \/ Place(p)
  <2>1. loc'[p].picks \subseteq loc[p].picks
    <3>1. CASE CreateRun(p) \/ ResolveNone(p)
      BY <1>1, <3>1 DEF CreateRun, ResolveNone, Local
    <3>2. CASE Insert(p) \/ Place(p)
      <4>1. CASE Insert(p)
        <5>1. PICK x \in loc[p].picks :
                loc' = [loc EXCEPT ![p].picks = @ \ {x}, ![p].taken = @ \cup {x[2]},
                                   ![p].made = @ + 1]
          BY <4>1 DEF Insert
        <5>. QED
          BY <1>1, <5>1 DEF Local
      <4>2. CASE Place(p)
        BY <1>1, <4>2 DEF Place, Local
      <4>. QED
        BY <3>2, <4>1, <4>2
    <3>3. CASE ListTaken(p)
      BY <1>1, <3>3 DEF ListTaken, Local
    <3>. QED
      BY <1>5, <3>1, <3>2, <3>3
  <2>. QED
    BY <2>1
<1>6. CASE \E out \in {"done", "failed"} : End(p, out)
  BY <1>2, <1>6
<1>. QED
  BY <1>3, <1>4, <1>5, <1>6 DEF RequestStep, SolveStep, ReplaceStep, Abort, CreateRunThrows,
     InsertThrows, CompleteRun, CompleteRunThrows, ListTakenGone, FindReplacementNone,
     PlaceThrows, Notify, Throw, Answer

\* Except when a service is cancelled, services and runs stay, and the latest
\* run changes only when one is completed.
LEMMA TablesStay ==
    ASSUME TypeOK, Started, Next, \A s \in Cancellable : ~CancelService(s)
    PROVE  /\ services' = services
           /\ \A q \in DOMAIN run : q \in DOMAIN run' /\ run'[q].service = run[q].service
           /\ latest' = latest \/ \E p \in Request : CompleteRun(p)
<1>1. CASE \E p \in Request : RequestStep(p) \/ Abort(p)
  <2>1. PICK p \in Request : RequestStep(p) \/ Abort(p)
    BY <1>1
  <2>2. CASE CreateRun(p)
    BY <2>2 DEF CreateRun, Inserted, Started
  <2>3. CASE CompleteRun(p)
    BY <2>3 DEF CompleteRun, TypeOK, RunRow
  <2>4. CASE ~CreateRun(p) /\ ~CompleteRun(p)
    <3>. UNCHANGED <<services, run, latest>>
      BY <2>1, <2>4 DEF RequestStep, SolveStep, ReplaceStep, Abort, CreateRunThrows, Resolve,
         ResolveNone, Insert, InsertThrows, CompleteRunThrows, ListTaken, ListTakenGone,
         FindReplacement, FindReplacementNone, Place, PlaceThrows, Notify, Throw, Answer, tables
    <3>. QED
      OBVIOUS
  <2>. QED
    BY <2>2, <2>3, <2>4
<1>2. CASE \E p \in Request, s \in Service : Generate(p, s)
  BY <1>2 DEF Generate, tables
<1>3. CASE \E p \in Request, a \in DOMAIN asg : Decline(p, a)
  BY <1>3 DEF Decline
<1>4. CASE Other
  BY <1>4 DEF Other, Confirm, Override, SetStatus, SetAvailability
<1>. QED
  BY <1>1, <1>2, <1>3, <1>4, NextCases

LEMMA LocalsFitNext ==
    ASSUME TypeOK, Started, LocalsFit, NoOrphans, Next
    PROVE  LocalsFit'
<1>. SUFFICES ASSUME NEW q \in DOMAIN loc'
              PROVE  /\ pc'[q] \in Solving => loc'[q].run = q
                     /\ pc'[q] # "create" => pc'[loc'[q].run] \notin {"idle", "create"}
                     /\ pc'[q] # "create" /\ loc'[q].run \in DOMAIN run'
                          => run'[loc'[q].run].service = loc'[q].service
                     /\ loc'[q].todo \subseteq RolesOf(loc'[q].service)
                     /\ \A pick \in loc'[q].picks : ServiceOf[pick[1]] = loc'[q].service
                     /\ pc'[q] \in {"create", "list"} => loc'[q].picks = {}
  BY DEF LocalsFit, RolesOf
<1>1. q \in Request
  BY TypeNext DEF TypeOK
<1>2. ASSUME q \in DOMAIN loc,
             loc'[q].run = loc[q].run, loc'[q].service = loc[q].service,
             loc'[q].todo \subseteq loc[q].todo,
             pc'[q] \in Solving => pc[q] \in Solving,
             pc[q] = "create" => pc'[q] # "idle",
             \A pick \in loc'[q].picks : pick \in loc[q].picks \/ pick[1] \in loc[q].todo,
             pc'[q] \in {"create", "list"} => pc'[q] = pc[q] /\ loc'[q].picks = loc[q].picks
      PROVE  /\ pc'[q] \in Solving => loc'[q].run = q
             /\ pc'[q] # "create" => pc'[loc'[q].run] \notin {"idle", "create"}
             /\ pc'[q] # "create" /\ loc'[q].run \in DOMAIN run'
                  => run'[loc'[q].run].service = loc'[q].service
             /\ loc'[q].todo \subseteq RolesOf(loc'[q].service)
             /\ \A pick \in loc'[q].picks : ServiceOf[pick[1]] = loc'[q].service
             /\ pc'[q] \in {"create", "list"} => loc'[q].picks = {}
  <2>1. loc[q].run \in Request /\ loc[q] \in Local
    BY <1>2 DEF TypeOK, Local
  <2>2. pc[q] = "create" => loc[q].run = q
    BY <1>2 DEF LocalsFit, Solving
  <2>3. pc'[q] \in Solving => loc'[q].run = q
    BY <1>2 DEF LocalsFit
  <2>4. pc'[q] # "create" => pc'[loc'[q].run] \notin {"idle", "create"}
    <3>1. CASE pc[q] = "create"
      BY <1>2, <2>2, <3>1
    <3>2. CASE pc[q] # "create"
      BY <1>2, <2>1, <3>2, PcGrows DEF LocalsFit
    <3>. QED
      BY <3>1, <3>2
  <2>5. ASSUME pc'[q] # "create", loc'[q].run \in DOMAIN run'
        PROVE  run'[loc'[q].run].service = loc'[q].service
    <3>1. CASE pc[q] = "create"
      <4>1. q \notin DOMAIN run
        BY <3>1 DEF Started
      <4>. QED
        BY <1>2, <2>2, <2>5, <3>1, <4>1, RunsKept
    <3>2. CASE pc[q] # "create"
      <4>1. pc[loc[q].run] # "create"
        BY <1>2, <3>2 DEF LocalsFit
      <4>2. loc[q].run \in DOMAIN run /\ run'[loc[q].run].service = run[loc[q].run].service
        BY <1>2, <2>5, <4>1, RunsKept
      <4>. QED
        BY <1>2, <3>2, <4>2 DEF LocalsFit
    <3>. QED
      BY <3>1, <3>2
  <2>6. loc'[q].todo \subseteq RolesOf(loc'[q].service)
    BY <1>2 DEF LocalsFit
  <2>7. \A pick \in loc'[q].picks : ServiceOf[pick[1]] = loc'[q].service
    BY <1>2 DEF LocalsFit, RolesOf
  <2>8. pc'[q] \in {"create", "list"} => loc'[q].picks = {}
    BY <1>2 DEF LocalsFit
  <2>. QED
    BY <2>3, <2>4, <2>5, <2>6, <2>7, <2>8
<1>3. CASE \E p \in Request : RequestStep(p) \/ Abort(p)
  <2>1. PICK p \in Request : RequestStep(p) \/ Abort(p)
    BY <1>3
  <2>2. CASE q = p
    <3>1. pc'[q] # "idle" /\ q \in DOMAIN loc
      BY <2>1, <2>2, StepFrame, StepInFlight DEF InFlight, Solving, Replacing
    <3>2. \A pick \in loc'[q].picks : pick \in loc[q].picks \/ pick[1] \in loc[q].todo
      BY <2>1, <2>2, PicksFrame
    <3>. QED
      BY <1>2, <2>1, <2>2, <3>1, <3>2, StepFrame
  <2>3. CASE q # p
    <3>1. q \in DOMAIN loc /\ loc'[q] = loc[q] /\ pc'[q] = pc[q]
      BY <1>1, <2>1, <2>3, StepFrame
    <3>. QED
      BY <1>2, <3>1
  <2>. QED
    BY <2>2, <2>3
<1>4. CASE \E p \in Request, s \in Service : Generate(p, s)
  <2>1. PICK p \in Request, s \in Service : Generate(p, s)
    BY <1>4
  <2>. DEFINE l == [service |-> s, run |-> p, todo |-> RolesOf(s), taken |-> {},
                    picks |-> {}, made |-> 0, required |-> 0, gaps |-> {},
                    target |-> {}, decliner |-> {}]
  <2>2. pc[p] = "idle" /\ Arrive(p, "create", l)
    BY <2>1 DEF Generate
  <2>3. /\ DOMAIN loc' = DOMAIN loc \cup {p}
        /\ \A x \in Request \ {p} : pc'[x] = pc[x]
        /\ pc'[p] = "create"
        /\ \A x \in DOMAIN loc : loc'[x] = loc[x]
        /\ loc'[p] = l
        /\ p \notin DOMAIN loc
    BY <2>2, ArriveFrame
  <2>4. CASE q = p
    BY <2>3, <2>4
  <2>5. CASE q # p
    BY <1>1, <1>2, <2>3, <2>5
  <2>. QED
    BY <2>4, <2>5
<1>5. CASE \E p \in Request, a \in DOMAIN asg : Decline(p, a)
  <2>1. PICK p \in Request, a \in DOMAIN asg : Decline(p, a)
    BY <1>5
  <2>. DEFINE l == [service |-> ServiceOf[asg[a].role], run |-> asg[a].run,
                    todo |-> {asg[a].role}, taken |-> {}, picks |-> {}, made |-> 0,
                    required |-> 0, gaps |-> {},
                    target |-> {a}, decliner |-> {asg[a].vol}]
  <2>2. pc[p] = "idle" /\ Arrive(p, "list", l) /\ UNCHANGED run
    BY <2>1 DEF Decline
  <2>3. /\ DOMAIN loc' = DOMAIN loc \cup {p}
        /\ \A x \in Request \ {p} : pc'[x] = pc[x]
        /\ pc'[p] = "list"
        /\ \A x \in DOMAIN loc : loc'[x] = loc[x]
        /\ loc'[p] = l
        /\ p \notin DOMAIN loc
    BY <2>2, ArriveFrame
  <2>4. CASE q = p
    <3>1. /\ asg[a].run \in DOMAIN run
          /\ ServiceOf[asg[a].role] = run[asg[a].run].service
          /\ asg[a].role \in Role
      BY DEF NoOrphans, TypeOK, AsgRow
    <3>2. pc[asg[a].run] \notin {"idle", "create"} /\ asg[a].run \in Request
      BY <3>1 DEF Started, TypeOK
    <3>. QED
      BY <2>2, <2>3, <2>4, <3>1, <3>2, PcGrows DEF RolesOf, Solving
  <2>5. CASE q # p
    BY <1>1, <1>2, <2>3, <2>5
  <2>. QED
    BY <2>4, <2>5
<1>6. CASE Other
  BY <1>2, <1>6, OtherFrame
<1>. QED
  BY <1>3, <1>4, <1>5, <1>6, NextCases

LEMMA LatestFitsNext ==
    ASSUME TypeOK, Started, LocalsFit, LatestFits, Next
    PROVE  LatestFits'
<1>. SUFFICES ASSUME NEW s \in Service, latest'[s] # NoRun
              PROVE  latest'[s] \in DOMAIN run' /\ run'[latest'[s]].service = s
  BY DEF LatestFits
<1>1. CASE \E p \in Request : CompleteRun(p)
  <2>1. PICK p \in Request : CompleteRun(p)
    BY <1>1
  <2>2. /\ p \in DOMAIN loc
        /\ loc[p].run = p
        /\ run[p].service = loc[p].service
    BY <2>1, StepInFlight DEF RequestStep, SolveStep, CompleteRun, LocalsFit, Solving
  <2>3. DOMAIN run' = DOMAIN run /\ \A q \in DOMAIN run : run'[q].service = run[q].service
    BY <2>1 DEF CompleteRun, TypeOK, RunRow
  <2>. QED
    BY <2>1, <2>2, <2>3 DEF CompleteRun, LatestFits, TypeOK
<1>2. CASE \E c \in Cancellable : CancelService(c)
  BY <1>2 DEF CancelService, Kept, LatestFits, TypeOK
<1>3. CASE latest' = latest /\ \A c \in Cancellable : ~CancelService(c)
  BY <1>3, TablesStay DEF LatestFits
<1>. QED
  BY <1>1, <1>2, <1>3, TablesStay

LEMMA NoOrphansNext ==
    ASSUME TypeOK, Started, LocalsFit, LatestFits, NoOrphans, Next
    PROVE  NoOrphans'
<1>1. CASE \E c \in Cancellable : CancelService(c)
  <2>1. PICK c \in Cancellable : CancelService(c)
    BY <1>1
  <2>2. \A q \in DOMAIN run' : /\ q \in DOMAIN run
                               /\ run'[q] = run[q]
                               /\ run'[q].service \in services'
    BY <2>1 DEF CancelService, Kept, NoOrphans
  <2>3. \A a \in DOMAIN asg' : a \in DOMAIN asg /\ asg'[a] = asg[a] /\ asg[a].run \in DOMAIN run'
    BY <2>1 DEF CancelService, Kept
  <2>4. \A s \in services' : latest'[s] # NoRun => latest'[s] \in DOMAIN run'
    BY <2>1, SchedulingAssumption DEF CancelService, Kept, LatestFits, TypeOK
  <2>. QED
    BY <2>2, <2>3, <2>4 DEF NoOrphans
<1>2. CASE \A c \in Cancellable : ~CancelService(c)
  <2>1. \A q \in DOMAIN run' : run'[q].service \in services'
    BY <1>2, RunsKept, TablesStay DEF NoOrphans
  <2>2. \A s \in services' : latest'[s] # NoRun => latest'[s] \in DOMAIN run'
    BY LatestFitsNext, TypeNext DEF LatestFits, TypeOK
  <2>3. \A a \in DOMAIN asg' : /\ asg'[a].run \in DOMAIN run'
                               /\ ServiceOf[asg'[a].role] = run'[asg'[a].run].service
    <3>1. ASSUME NEW a \in DOMAIN asg, asg'[a].run = asg[a].run, asg'[a].role = asg[a].role
          PROVE  /\ asg'[a].run \in DOMAIN run'
                 /\ ServiceOf[asg'[a].role] = run'[asg'[a].run].service
      BY <1>2, <3>1, TablesStay DEF NoOrphans
    <3>2. CASE \E p \in Request : Insert(p) \/ Place(p)
      <4>1. PICK p \in Request : Insert(p) \/ Place(p)
        BY <3>2
      <4>2. PICK pick \in loc[p].picks : InsertRow(p, pick[1], pick[2])
        BY <4>1, InsertCases
      <4>. DEFINE n == <<p, loc[p].made>>
      <4>3. /\ p \in DOMAIN loc
            /\ UNCHANGED run
            /\ pc[p] # "create"
            /\ loc[p].run \in DOMAIN run
        BY <4>1, InsertCases DEF LocalsFit, Insert, Place, Solving
      <4>4. RowsFrom({n}) /\ asg'[n].run = loc[p].run /\ asg'[n].role = pick[1]
        BY <4>2, <4>3, RowsInserted
      <4>5. ServiceOf[pick[1]] = run[loc[p].run].service
        BY <4>2, <4>3 DEF LocalsFit
      <4>. QED
        BY <3>1, <4>3, <4>4, <4>5 DEF RowsFrom
    <3>3. CASE \A p \in Request : ~Insert(p) /\ ~Place(p)
      BY <3>1, <3>3, RowsKept DEF RowsFrom
    <3>. QED
      BY <3>2, <3>3
  <2>. QED
    BY <2>1, <2>2, <2>3 DEF NoOrphans
<1>. QED
  BY <1>1, <1>2

LEMMA MetInFlightNext ==
    ASSUME TypeOK, Started, MetInFlight, Next
    PROVE  MetInFlight'
<1>. SUFFICES ASSUME NEW q1 \in Running', NEW q2 \in Running', q1 # q2
              PROVE  Overlapped(q1, q2)'
  BY DEF MetInFlight
<1>1. q1 \in Request /\ q2 \in Request
  BY DEF Running
<1>2. ASSUME q1 \in Running, q2 \in Running
      PROVE  Overlapped(q1, q2)'
  BY <1>1, <1>2, MetGrows DEF MetInFlight, Running, InFlight, Solving, Replacing
<1>3. CASE \E p \in Request : RequestStep(p) \/ Abort(p)
  <2>1. PICK p \in Request : RequestStep(p) \/ Abort(p)
    BY <1>3
  <2>2. \A q \in Request : q \in Running' => q \in Running
    BY <2>1, StepFrame, StepInFlight DEF Running
  <2>. QED
    BY <1>1, <1>2, <2>2
<1>4. CASE \E p \in Request, s \in Service : Generate(p, s)
  <2>1. PICK p \in Request, s \in Service : Generate(p, s)
    BY <1>4
  <2>2. /\ \A x \in Request \ {p} : pc'[x] = pc[x]
        /\ \A x \in Running : Overlapped(p, x)' /\ Overlapped(x, p)'
    BY <2>1, ArriveFrame DEF Generate
  <2>. QED
    BY <1>1, <1>2, <2>2 DEF Running
<1>5. CASE \E p \in Request, a \in DOMAIN asg : Decline(p, a)
  <2>1. PICK p \in Request, a \in DOMAIN asg : Decline(p, a)
    BY <1>5
  <2>2. /\ \A x \in Request \ {p} : pc'[x] = pc[x]
        /\ \A x \in Running : Overlapped(p, x)' /\ Overlapped(x, p)'
    BY <2>1, ArriveFrame DEF Decline
  <2>. QED
    BY <1>1, <1>2, <2>2 DEF Running
<1>6. CASE Other
  BY <1>2, <1>6, OtherFrame DEF Running
<1>. QED
  BY <1>3, <1>4, <1>5, <1>6, NextCases

\* The calls in flight beside the one that inserts a row overlap with it.
LEMMA InsertOverlaps ==
    ASSUME TypeOK, Started, MetInFlight, Next,
           NEW p \in Request, Insert(p) \/ Place(p),
           NEW q \in Request \ {p}, pc[q] \in InFlight
    PROVE  Overlapped(p, q)'
<1>1. p \in Running /\ q \in Running
  BY StepInFlight DEF Running, RequestStep, SolveStep, ReplaceStep
<1>. QED
  BY <1>1, MetGrows DEF MetInFlight, Running, InFlight, Solving, Replacing

\* A call is untouched, takes a step itself, or has just arrived.
LEMMA CallCases ==
    ASSUME TypeOK, Started, Next, NEW q \in DOMAIN loc'
    PROVE  /\ q \in Request
           /\ \/ /\ q \in DOMAIN loc
                 /\ loc'[q] = loc[q]
                 /\ pc'[q] = pc[q]
              \/ RequestStep(q) \/ Abort(q)
              \/ pc'[q] = "create"
              \/ /\ pc'[q] = "list"
                 /\ \E a \in DOMAIN asg : Decline(q, a) /\ loc'[q].target = {a}
<1>1. q \in Request
  BY TypeNext DEF TypeOK
<1>2. CASE \E p \in Request : RequestStep(p) \/ Abort(p)
  BY <1>1, <1>2, StepFrame
<1>3. CASE \E p \in Request, s \in Service : Generate(p, s)
  <2>1. PICK p \in Request, s \in Service : Generate(p, s)
    BY <1>3
  <2>2. /\ DOMAIN loc' = DOMAIN loc \cup {p}
        /\ \A x \in Request \ {p} : pc'[x] = pc[x]
        /\ pc'[p] = "create"
        /\ \A x \in DOMAIN loc : loc'[x] = loc[x]
    BY <2>1, ArriveFrame DEF Generate
  <2>. QED
    BY <1>1, <2>2
<1>4. CASE \E p \in Request, a \in DOMAIN asg : Decline(p, a)
  <2>1. PICK p \in Request, a \in DOMAIN asg : Decline(p, a)
    BY <1>4
  <2>2. /\ DOMAIN loc' = DOMAIN loc \cup {p}
        /\ \A x \in Request \ {p} : pc'[x] = pc[x]
        /\ pc'[p] = "list"
        /\ \A x \in DOMAIN loc : loc'[x] = loc[x]
        /\ loc'[p].target = {a}
    BY <2>1, ArriveFrame DEF Decline
  <2>. QED
    BY <1>1, <2>1, <2>2
<1>5. CASE Other
  BY <1>1, <1>5, OtherFrame
<1>. QED
  BY <1>2, <1>3, <1>4, <1>5, NextCases

\* Where a row of the next state comes from, seen by another call q in flight.
LEMMA RowCases ==
    ASSUME TypeOK, Started, MetInFlight, Next,
           NEW q \in Request, pc[q] \in InFlight, ~Insert(q), ~Place(q),
           NEW a \in DOMAIN asg'
    PROVE  \/ Overlapped(a[1], q)'
           \/ /\ a \in DOMAIN asg
              /\ asg'[a].run = asg[a].run
              /\ asg'[a].role = asg[a].role
              /\ asg[a].declined => asg'[a].declined
              /\ Chosen(a)' => Chosen(a) /\ asg'[a].vol = asg[a].vol
<1>1. CASE \E p \in Request : Insert(p) \/ Place(p)
  <2>1. PICK p \in Request : Insert(p) \/ Place(p)
    BY <1>1
  <2>2. PICK pick \in loc[p].picks : InsertRow(p, pick[1], pick[2])
    BY <2>1, InsertCases
  <2>3. RowsFrom({<<p, loc[p].made>>})
    BY <2>1, <2>2, InsertCases, RowsInserted
  <2>4. Overlapped(p, q)'
    BY <2>1, InsertOverlaps
  <2>. QED
    BY <2>3, <2>4 DEF RowsFrom
<1>2. CASE \A p \in Request : ~Insert(p) /\ ~Place(p)
  BY <1>2, RowsKept DEF RowsFrom
<1>. QED
  BY <1>1, <1>2

\* The calls that inserted a row have arrived, so what met records of them stays.
LEMMA RowMetGrows ==
    ASSUME TypeOK, Started, Next, NEW a \in DOMAIN asg, NEW q \in Request,
           pc[q] # "idle", Overlapped(a[1], q)
    PROVE  Overlapped(a[1], q)'
<1>1. a[1] \in Request /\ pc[a[1]] # "idle"
  BY DEF TypeOK, AsgId, Started
<1>. QED
  BY <1>1, MetGrows

LEMMA TargetDeclinedNext ==
    ASSUME TypeOK, Started, MetInFlight, TargetDeclined, Next
    PROVE  TargetDeclined'
<1>. SUFFICES ASSUME NEW q \in DOMAIN loc', pc'[q] = "list",
                     NEW a \in loc'[q].target, a \in DOMAIN asg'
              PROVE  asg'[a].declined \/ Overlapped(a[1], q)'
  BY DEF TargetDeclined
<1>1. CASE \E b \in DOMAIN asg : Decline(q, b) /\ loc'[q].target = {b}
  BY <1>1 DEF Decline, TypeOK, AsgRow
<1>2. CASE q \in DOMAIN loc /\ loc'[q] = loc[q] /\ pc'[q] = pc[q]
  <2>1. asg[a].declined \/ Overlapped(a[1], q) \/ a \notin DOMAIN asg
    BY <1>2 DEF TargetDeclined
  <2>2. ~Insert(q) /\ ~Place(q) /\ pc[q] \in InFlight /\ pc[q] # "idle" /\ q \in Request
    BY <1>2, CallCases DEF Insert, Place, InFlight, Replacing
  <2>. QED
    BY <2>1, <2>2, RowCases, RowMetGrows
<1>3. CASE RequestStep(q) \/ Abort(q)
  BY <1>3, CallCases, StepFrame
<1>. QED
  BY <1>1, <1>2, <1>3, CallCases

\* The three parts of TakenCovers, for one call.
RowsCovered(q) ==
    \A a \in DOMAIN asg : Chosen(a) /\ asg[a].run = loc[q].run =>
        asg[a].vol \in loc[q].taken \/ Overlapped(a[1], q)
PicksUntaken(q) == \A pick \in loc[q].picks : pick[2] \notin loc[q].taken
PicksApart(q) == \A x, y \in loc[q].picks : x[2] = y[2] => x = y

LEMMA TakenCoversNext ==
    ASSUME TypeOK, Started, LocalsFit, NoOrphans, MetInFlight, TargetDeclined,
           TakenCovers, Next
    PROVE  TakenCovers'
<1>. SUFFICES ASSUME NEW q \in DOMAIN loc', pc'[q] \in {"resolve", "insert", "find", "place"}
              PROVE  RowsCovered(q)' /\ PicksUntaken(q)' /\ PicksApart(q)'
  BY DEF TakenCovers, RowsCovered, PicksUntaken, PicksApart
<1>0. pc[q] \in {"resolve", "insert", "find", "place"} /\ q \in DOMAIN loc
        => RowsCovered(q) /\ PicksUntaken(q) /\ PicksApart(q)
  BY DEF TakenCovers, RowsCovered, PicksUntaken, PicksApart
<1>1. CASE q \in DOMAIN loc /\ loc'[q] = loc[q] /\ pc'[q] = pc[q] /\ ~Insert(q) /\ ~Place(q)
  <2>1. q \in Request /\ pc[q] \in InFlight /\ pc[q] # "idle"
    BY <1>1, CallCases DEF InFlight, Solving, Replacing
  <2>2. RowsCovered(q)'
    BY <1>0, <1>1, <2>1, RowCases, RowMetGrows DEF RowsCovered
  <2>. QED
    BY <1>0, <1>1, <2>2 DEF PicksUntaken, PicksApart
<1>2. CASE RequestStep(q) \/ Abort(q)
  <2>1. q \in DOMAIN loc /\ loc[q] \in Local /\ q \in Request /\ loc'[q].run = loc[q].run
    BY <1>2, CallCases, StepInFlight, StepFrame DEF TypeOK
  <2>2. CASE CreateRun(q)
    <3>1. loc[q].run = q /\ q \notin DOMAIN run
      BY <2>1, <2>2 DEF CreateRun, LocalsFit, Started, Solving
    <3>2. /\ asg' = asg
          /\ loc' = loc
      BY <2>2 DEF CreateRun
    <3>3. loc[q].picks = {}
      BY <2>1, <2>2 DEF LocalsFit, CreateRun
    <3>. QED
      BY <3>1, <3>2, <3>3 DEF RowsCovered, PicksUntaken, PicksApart, NoOrphans
  <2>3. CASE ResolveNone(q)
    <3>1. /\ pc[q] = "resolve" /\ asg' = asg /\ met' = met
          /\ loc'[q].taken = loc[q].taken /\ loc'[q].picks = loc[q].picks
      BY <2>1, <2>3 DEF ResolveNone, tables, Local
    <3>. QED
      BY <1>0, <2>1, <3>1 DEF RowsCovered, PicksUntaken, PicksApart, Chosen, Overlapped
  <2>4. CASE Resolve(q)
    <3>1. pc[q] = "resolve" /\ asg' = asg /\ met' = met
      BY <2>4 DEF Resolve, tables
    <3>2. PICK r \in loc[q].todo : \E winners \in SUBSET Candidates(r, loc[q].taken) :
            loc'[q].picks = {r} \X winners /\ loc'[q].taken = loc[q].taken
      BY <2>1, <2>4 DEF Resolve, Local
    <3>3. r \in Role
      BY <2>1 DEF Local
    <3>. QED
      BY <1>0, <2>1, <3>1, <3>2, <3>3, CandidatesAreVolunteers
      DEF RowsCovered, PicksUntaken, PicksApart, Chosen, Overlapped
  <2>5. CASE FindReplacement(q)
    <3>1. pc[q] = "find" /\ asg' = asg /\ met' = met
      BY <2>5 DEF FindReplacement, tables
    <3>2. PICK r \in loc[q].todo : \E winner \in Candidates(r, loc[q].taken) :
            loc'[q].picks = {<<r, winner>>} /\ loc'[q].taken = loc[q].taken
      BY <2>1, <2>5 DEF FindReplacement, Local
    <3>3. r \in Role
      BY <2>1 DEF Local
    <3>. QED
      BY <1>0, <2>1, <3>1, <3>2, <3>3, CandidatesAreVolunteers
      DEF RowsCovered, PicksUntaken, PicksApart, Chosen, Overlapped
  <2>6. CASE ListTaken(q)
    <3>1. /\ pc[q] = "list" /\ asg' = asg /\ met' = met
          /\ StillPlaced(q) \subseteq loc'[q].taken
          /\ loc'[q].picks = loc[q].picks
      BY <2>1, <2>6 DEF ListTaken, tables, Local
    <3>2. loc[q].picks = {}
      BY <2>1, <3>1 DEF LocalsFit
    <3>3. ASSUME NEW a \in DOMAIN asg, Chosen(a), asg[a].run = loc[q].run
          PROVE  asg[a].vol \in loc'[q].taken \/ Overlapped(a[1], q)
      <4>1. CASE a \in loc[q].target
        BY <2>1, <3>1, <3>3, <4>1 DEF TargetDeclined, Chosen
      <4>2. CASE a \notin loc[q].target
        BY <3>1, <3>3, <4>2 DEF StillPlaced, Chosen
      <4>. QED
        BY <4>1, <4>2
    <3>. QED
      BY <2>1, <3>1, <3>2, <3>3 DEF RowsCovered, PicksUntaken, PicksApart, Chosen, Overlapped
  <2>7. CASE Insert(q)
    <3>1. PICK pick \in loc[q].picks :
            /\ InsertRow(q, pick[1], pick[2])
            /\ loc' = [loc EXCEPT ![q].picks = @ \ {pick}, ![q].taken = @ \cup {pick[2]},
                                  ![q].made = @ + 1]
      BY <2>7 DEF Insert
    <3>2. /\ pc[q] = "insert" /\ met' = met
          /\ loc'[q].picks = loc[q].picks \ {pick}
          /\ loc'[q].taken = loc[q].taken \cup {pick[2]}
      BY <2>1, <2>7, <3>1 DEF Insert, Local
    <3>3. RowsFrom({<<q, loc[q].made>>}) /\ asg'[<<q, loc[q].made>>].vol = pick[2]
      BY <2>1, <3>1, RowsInserted
    <3>4. RowsCovered(q)'
      BY <1>0, <2>1, <3>1, <3>2, <3>3 DEF RowsCovered, RowsFrom, Overlapped
    <3>. QED
      BY <1>0, <2>1, <3>1, <3>2, <3>4 DEF PicksUntaken, PicksApart
  <2>8. CASE \E out \in {"done", "failed"} : End(q, out)
    BY <2>1, <2>8 DEF End, Goto, TypeOK
  <2>9. CASE Place(q)
    BY <2>1, <2>9 DEF Place, Goto, TypeOK
  <2>. QED
    BY <1>2, <2>2, <2>3, <2>4, <2>5, <2>6, <2>7, <2>8, <2>9
    DEF RequestStep, SolveStep, ReplaceStep, Abort, CreateRunThrows, InsertThrows, CompleteRun,
        CompleteRunThrows, ListTakenGone, FindReplacementNone, PlaceThrows, Notify, Throw, Answer
<1>. QED
  BY <1>1, <1>2, CallCases DEF RequestStep, SolveStep, ReplaceStep

\* A row's service does not change while the row exists.
LEMMA RowServiceKept ==
    ASSUME TypeOK, Started, LocalsFit, LatestFits, NoOrphans, Next,
           NEW a \in DOMAIN asg, a \in DOMAIN asg', asg'[a].run = asg[a].run
    PROVE  run'[asg'[a].run].service = run[asg[a].run].service
<1>1. asg[a].run \in DOMAIN run /\ asg'[a].run \in DOMAIN run'
  BY NoOrphansNext DEF NoOrphans
<1>. QED
  BY <1>1, RunsKept DEF Started

\* PicksWereFree, for one call.
PicksFree(q) ==
    \A pick \in loc[q].picks : \A a \in DOMAIN asg :
        (/\ Chosen(a)
         /\ asg[a].vol = pick[2]
         /\ run[asg[a].run].service # loc[q].service
         /\ DateOf[run[asg[a].run].service] = DateOf[loc[q].service])
            => Overlapped(a[1], q)

LEMMA PicksWereFreeNext ==
    ASSUME TypeOK, Started, LocalsFit, LatestFits, NoOrphans, MetInFlight,
           PicksWereFree, Next
    PROVE  PicksWereFree'
<1>. SUFFICES ASSUME NEW q \in DOMAIN loc', pc'[q] \in {"insert", "place"}
              PROVE  PicksFree(q)'
  BY DEF PicksWereFree, PicksFree
<1>0. pc[q] \in {"insert", "place"} /\ q \in DOMAIN loc => PicksFree(q)
  BY DEF PicksWereFree, PicksFree
<1>1. CASE q \in DOMAIN loc /\ loc'[q] = loc[q] /\ pc'[q] = pc[q] /\ ~Insert(q) /\ ~Place(q)
  <2>1. q \in Request /\ pc[q] \in InFlight /\ pc[q] # "idle" /\ PicksFree(q)
    BY <1>0, <1>1, CallCases DEF InFlight, Solving, Replacing
  <2>. QED
    BY <1>1, <2>1, RowCases, RowMetGrows, RowServiceKept DEF PicksFree
<1>2. CASE RequestStep(q) \/ Abort(q)
  <2>1. q \in DOMAIN loc /\ loc[q] \in Local /\ q \in Request /\ loc'[q].service = loc[q].service
    BY <1>2, CallCases, StepInFlight, StepFrame DEF TypeOK
  <2>2. CASE Resolve(q) \/ FindReplacement(q)
    <3>1. asg' = asg /\ run' = run /\ met' = met
      BY <2>2 DEF Resolve, FindReplacement, tables
    <3>2. \A pick \in loc'[q].picks : \E r \in loc[q].todo : pick[2] \in Candidates(r, loc[q].taken)
      <4>1. CASE Resolve(q)
        <5>1. PICK r \in loc[q].todo : \E winners \in SUBSET Candidates(r, loc[q].taken) :
                loc'[q].picks = {r} \X winners
          BY <2>1, <4>1 DEF Resolve, Local
        <5>. QED
          BY <5>1
      <4>2. CASE FindReplacement(q)
        <5>1. PICK r \in loc[q].todo : \E winner \in Candidates(r, loc[q].taken) :
                loc'[q].picks = {<<r, winner>>}
          BY <2>1, <4>2 DEF FindReplacement, Local
        <5>. QED
          BY <5>1
      <4>. QED
        BY <2>2, <4>1, <4>2
    <3>3. \A r \in loc[q].todo : ServiceOf[r] = loc[q].service
      BY <2>1 DEF LocalsFit, RolesOf
    <3>4. \A pick \in loc'[q].picks : ~BookedElsewhere(pick[2], loc[q].service)
      BY <3>2, <3>3 DEF Candidates
    <3>. QED
      BY <2>1, <3>1, <3>4 DEF PicksFree, BookedElsewhere, Chosen
  <2>3. CASE Insert(q)
    <3>1. PICK pick \in loc[q].picks :
            /\ InsertRow(q, pick[1], pick[2])
            /\ loc' = [loc EXCEPT ![q].picks = @ \ {pick}, ![q].taken = @ \cup {pick[2]},
                                  ![q].made = @ + 1]
      BY <2>3 DEF Insert
    <3>2. /\ pc[q] = "insert" /\ met' = met /\ run' = run
          /\ loc'[q].picks \subseteq loc[q].picks
          /\ q \in DOMAIN run
      BY <2>1, <2>3, <3>1 DEF Insert, Local
    <3>3. loc[q].run = q /\ run[q].service = loc[q].service
      BY <2>1, <3>2 DEF LocalsFit, Solving
    <3>. DEFINE n == <<q, loc[q].made>>
    <3>4. RowsFrom({n}) /\ asg'[n].run = loc[q].run
      BY <2>1, <3>1, RowsInserted
    <3>5. ASSUME NEW x \in loc'[q].picks, NEW a \in DOMAIN asg', Chosen(a)',
                 asg'[a].vol = x[2], run'[asg'[a].run].service # loc'[q].service,
                 DateOf[run'[asg'[a].run].service] = DateOf[loc'[q].service]
          PROVE  Overlapped(a[1], q)'
      <4>1. a # n
        BY <2>1, <3>2, <3>3, <3>4, <3>5
      <4>2. a \in DOMAIN asg /\ asg'[a].run = asg[a].run /\ Chosen(a) /\ asg'[a].vol = asg[a].vol
        BY <3>4, <3>5, <4>1 DEF RowsFrom
      <4>3. Overlapped(a[1], q)
        BY <1>0, <2>1, <3>2, <3>5, <4>2 DEF PicksFree
      <4>. QED
        BY <3>2, <4>3 DEF Overlapped
    <3>. QED
      BY <3>5 DEF PicksFree
  <2>4. CASE CreateRun(q) \/ ResolveNone(q) \/ ListTaken(q) \/ Place(q)
    BY <2>1, <2>4 DEF CreateRun, ResolveNone, ListTaken, Place, Goto, TypeOK
  <2>5. CASE \E out \in {"done", "failed"} : End(q, out)
    BY <2>1, <2>5 DEF End, Goto, TypeOK
  <2>. QED
    BY <1>2, <2>2, <2>3, <2>4, <2>5
    DEF RequestStep, SolveStep, ReplaceStep, Abort, CreateRunThrows, InsertThrows, CompleteRun,
        CompleteRunThrows, ListTakenGone, FindReplacementNone, PlaceThrows, Notify, Throw, Answer
<1>. QED
  BY <1>1, <1>2, CallCases DEF RequestStep, SolveStep, ReplaceStep

\* Two rows that were both there before: what met records of them stays.
LEMMA OldRows ==
    ASSUME TypeOK, Started, Next, NEW a \in DOMAIN asg, NEW b \in DOMAIN asg,
           Overlapped(a[1], b[1])
    PROVE  Overlapped(a[1], b[1])'
<1>1. a[1] \in Request /\ b[1] \in Request /\ pc[a[1]] # "idle" /\ pc[b[1]] # "idle"
  BY DEF TypeOK, AsgId, Started
<1>. QED
  BY <1>1, MetGrows

LEMMA TwoRolesNext ==
    ASSUME TypeOK, Started, MetInFlight, TakenCovers, TwoRolesNeedOverlap, Next
    PROVE  TwoRolesNeedOverlap'
<1>. SUFFICES ASSUME NEW a \in DOMAIN asg', NEW b \in DOMAIN asg', SameVolunteerTwoRoles(a, b)'
              PROVE  Overlapped(a[1], b[1])'
  BY DEF TwoRolesNeedOverlap
<1>1. /\ Chosen(a)' /\ Chosen(b)' /\ a # b
      /\ asg'[a].vol = asg'[b].vol
      /\ asg'[a].run = asg'[b].run
  BY DEF SameVolunteerTwoRoles
<1>2. ASSUME NEW new, RowsFrom(new), a \notin new, b \notin new
      PROVE  Overlapped(a[1], b[1])'
  BY <1>1, <1>2, OldRows DEF RowsFrom, TwoRolesNeedOverlap, SameVolunteerTwoRoles
<1>3. CASE \E p \in Request : Insert(p) \/ Place(p)
  <2>1. PICK p \in Request : Insert(p) \/ Place(p)
    BY <1>3
  <2>2. PICK pick \in loc[p].picks : InsertRow(p, pick[1], pick[2])
    BY <2>1, InsertCases
  <2>. DEFINE n == <<p, loc[p].made>>
  <2>3. /\ p \in DOMAIN loc /\ pc[p] \in {"insert", "place"}
        /\ RowsFrom({n}) /\ asg'[n].run = loc[p].run /\ asg'[n].vol = pick[2]
    BY <2>1, <2>2, InsertCases, RowsInserted DEF Insert, Place
  <2>4. ASSUME NEW c \in DOMAIN asg', c # n, Chosen(c)', asg'[c].run = loc[p].run,
               asg'[c].vol = pick[2]
        PROVE  Overlapped(c[1], p)'
    <3>1. c \in DOMAIN asg /\ Chosen(c) /\ asg[c].run = loc[p].run /\ asg[c].vol = pick[2]
      BY <2>3, <2>4 DEF RowsFrom
    <3>2. Overlapped(c[1], p)
      BY <2>2, <2>3, <3>1 DEF TakenCovers
    <3>3. pc[p] # "idle"
      BY <2>3
    <3>. QED
      BY <3>1, <3>2, <3>3, RowMetGrows
  <2>5. Overlapped(a[1], b[1])' <=> Overlapped(b[1], a[1])'
    BY DEF Overlapped
  <2>. QED
    BY <1>1, <1>2, <2>3, <2>4, <2>5
<1>4. CASE \A p \in Request : ~Insert(p) /\ ~Place(p)
  BY <1>2, <1>4, RowsKept
<1>. QED
  BY <1>3, <1>4

LEMMA DoubleBookingNext ==
    ASSUME TypeOK, Started, LocalsFit, LatestFits, NoOrphans, MetInFlight, PicksWereFree,
           DoubleBookingNeedsOverlap, Next
    PROVE  DoubleBookingNeedsOverlap'
<1>. SUFFICES ASSUME NEW a \in DOMAIN asg', NEW b \in DOMAIN asg',
                     SameVolunteerTwoServices(a, b)'
              PROVE  Overlapped(a[1], b[1])'
  BY DEF DoubleBookingNeedsOverlap
<1>. DEFINE service(c) == run'[asg'[c].run].service
<1>1. /\ Chosen(a)' /\ Chosen(b)'
      /\ asg'[a].vol = asg'[b].vol
      /\ service(a) # service(b)
      /\ DateOf[service(a)] = DateOf[service(b)]
  BY DEF SameVolunteerTwoServices
<1>2. ASSUME NEW new, RowsFrom(new), a \notin new, b \notin new
      PROVE  Overlapped(a[1], b[1])'
  <2>1. /\ a \in DOMAIN asg /\ service(a) = run[asg[a].run].service
        /\ b \in DOMAIN asg /\ service(b) = run[asg[b].run].service
    BY <1>2, RowServiceKept DEF RowsFrom
  <2>2. SameVolunteerTwoServices(a, b)
    BY <1>1, <1>2, <2>1 DEF RowsFrom, SameVolunteerTwoServices
  <2>. QED
    BY <2>1, <2>2, OldRows DEF DoubleBookingNeedsOverlap
<1>3. CASE \E p \in Request : Insert(p) \/ Place(p)
  <2>1. PICK p \in Request : Insert(p) \/ Place(p)
    BY <1>3
  <2>2. PICK pick \in loc[p].picks : InsertRow(p, pick[1], pick[2])
    BY <2>1, InsertCases
  <2>. DEFINE n == <<p, loc[p].made>>
  <2>3. /\ p \in DOMAIN loc /\ pc[p] \in {"insert", "place"} /\ run' = run
        /\ RowsFrom({n}) /\ asg'[n].run = loc[p].run /\ asg'[n].vol = pick[2]
    BY <2>1, <2>2, InsertCases, RowsInserted DEF Insert, Place
  <2>4. service(n) = loc[p].service
    BY <2>1, <2>3, InsertCases DEF LocalsFit, Solving
  <2>5. ASSUME NEW c \in DOMAIN asg', c # n, Chosen(c)', asg'[c].vol = pick[2],
               service(c) # loc[p].service, DateOf[service(c)] = DateOf[loc[p].service]
        PROVE  Overlapped(c[1], p)'
    <3>1. /\ c \in DOMAIN asg /\ Chosen(c) /\ asg[c].vol = pick[2]
          /\ service(c) = run[asg[c].run].service
      BY <2>3, <2>5 DEF RowsFrom
    <3>2. Overlapped(c[1], p)
      BY <2>2, <2>3, <2>5, <3>1 DEF PicksWereFree
    <3>3. pc[p] # "idle"
      BY <2>3
    <3>. QED
      BY <3>1, <3>2, <3>3, RowMetGrows
  <2>6. Overlapped(a[1], b[1])' <=> Overlapped(b[1], a[1])'
    BY DEF Overlapped
  <2>. QED
    BY <1>1, <1>2, <2>3, <2>4, <2>5, <2>6
<1>4. CASE \A p \in Request : ~Insert(p) /\ ~Place(p)
  BY <1>2, <1>4, RowsKept
<1>. QED
  BY <1>3, <1>4

-----------------------------------------------------------------------------
(* The theorems. *)

LEMMA IInvInit == Init => IInv
<1>. SUFFICES ASSUME Init
              PROVE  IInv
  OBVIOUS
<1>1. TypeOK
  BY TypeInit
<1>2. DOMAIN loc = {} /\ DOMAIN asg = {} /\ DOMAIN run = {} /\ Running = {}
  BY DEF Init, EmptyTable, Running, InFlight, Solving, Replacing
<1>3. Started
  BY <1>2 DEF Started, Init
<1>4. LatestFits /\ \A s \in services : latest[s] = NoRun
  BY DEF LatestFits, Init
<1>5. NoOrphans
  BY <1>2, <1>4 DEF NoOrphans
<1>6. LocalsFit /\ MetInFlight /\ TargetDeclined /\ TakenCovers /\ PicksWereFree
      /\ TwoRolesNeedOverlap /\ DoubleBookingNeedsOverlap
  BY <1>2 DEF LocalsFit, MetInFlight, TargetDeclined, TakenCovers, PicksWereFree,
     TwoRolesNeedOverlap, DoubleBookingNeedsOverlap
<1>. QED
  BY <1>1, <1>3, <1>4, <1>5, <1>6 DEF IInv

LEMMA IInvNext == IInv /\ [Next]_vars => IInv'
<1>1. ASSUME IInv, Next
      PROVE  IInv'
  BY <1>1, TypeNext, StartedNext, LocalsFitNext, LatestFitsNext, NoOrphansNext,
     MetInFlightNext, TargetDeclinedNext, TakenCoversNext, PicksWereFreeNext, TwoRolesNext,
     DoubleBookingNext DEF IInv
<1>2. ASSUME IInv, UNCHANGED vars
      PROVE  IInv'
  <2>. UNCHANGED <<services, active, available, run, latest, asg, pc, loc, met>>
    BY <1>2 DEF vars, tables
  <2>. QED
    BY <1>2 DEF IInv, TypeOK, Started, LocalsFit, LatestFits, NoOrphans, MetInFlight,
       TargetDeclined, TakenCovers, PicksWereFree, TwoRolesNeedOverlap, DoubleBookingNeedsOverlap,
       Running, Overlapped, Chosen, SameVolunteerTwoRoles, SameVolunteerTwoServices
<1>. QED
  BY <1>1, <1>2

\* The inductive invariant holds in every reachable state.
THEOREM Inductive == Spec => []IInv
BY IInvInit, IInvNext, PTL DEF Spec

\* Whatever is cancelled under whatever solve or decline, no run, row or latest
\* run is left behind, and every row is of a role of its run's service.
THEOREM NothingOrphaned == Spec => []NoOrphans
<1>1. IInv => NoOrphans
  BY DEF IInv
<1>. QED
  BY <1>1, Inductive, PTL

\* Constraint 5 fails only between calls in flight together: a volunteer the
\* solver books in two services of one day was booked by two such calls.
THEOREM DoubleBookingOnlyByOverlap == Spec => []DoubleBookingNeedsOverlap
<1>1. IInv => DoubleBookingNeedsOverlap
  BY DEF IInv
<1>. QED
  BY <1>1, Inductive, PTL

\* One role per volunteer and run fails only between calls in flight together.
THEOREM TwoRolesOnlyByOverlap == Spec => []TwoRolesNeedOverlap
<1>1. IInv => TwoRolesNeedOverlap
  BY DEF IInv
<1>. QED
  BY <1>1, Inductive, PTL

-----------------------------------------------------------------------------
(* Counts: the rows of a run and the calls that made them. *)

\* A decline call never works on a run of its own, and only a decline call has
\* a row that it is for.
KindsOfCalls ==
    /\ \A p \in DOMAIN loc :
        /\ loc[p].target = {} => loc[p].run = p
        /\ pc[p] \in Solving => loc[p].target = {}
        /\ pc[p] \in Replacing => loc[p].target # {}
    /\ \A p \in DOMAIN run : loc[p].target = {}

\* Whoever declined is left out from ListTaken on; a solve leaves nobody out.
DeclinerTaken ==
    \A p \in DOMAIN loc :
        /\ pc[p] \in Solving => loc[p].decliner = {}
        /\ pc[p] = "find" => loc[p].decliner \subseteq loc[p].taken

\* The ids of the first n rows that request p inserts.
Ids(p, n) == {p} \X (0..(n - 1))

\* The rows a request inserted are in the run it works on, numbered from 0; a
\* run that is still there has all of its own.
RowsNumbered ==
    /\ \A a \in DOMAIN asg : asg[a].run = loc[a[1]].run /\ a[2] < loc[a[1]].made
    /\ \A p \in DOMAIN run : RowsOf(p) = Ids(p, loc[p].made)

\* Before its run is created, a call has done nothing.
Fresh ==
    \A p \in DOMAIN loc : pc[p] = "create" =>
        loc[p].made = 0 /\ loc[p].gaps = {} /\ loc[p].todo = RolesOf(loc[p].service)

\* The winners of role r that request p has not inserted yet, and all of them.
PicksFor(p, r) == {pick \in loc[p].picks : pick[1] = r}
Due(p, r) == Cardinality(RowsFor(p, r)) + Cardinality(PicksFor(p, r))

\* While it solves, a request has done nothing for the roles still to do, and
\* its gaps are the others that its rows and its winners do not fill.
SolveFits ==
    \A p \in DOMAIN run : pc[p] \in Solving =>
        /\ \A r \in loc[p].todo : RowsFor(p, r) = {} /\ PicksFor(p, r) = {}
        /\ \A r \in RolesOf(run[p].service) : Due(p, r) <= MaxAllowed[r]
        /\ loc[p].gaps = {r \in RolesOf(run[p].service) \ loc[p].todo : Due(p, r) < MinRequired[r]}
        /\ pc[p] # "insert" => loc[p].picks = {}
        /\ pc[p] = "complete" => loc[p].todo = {}

\* The solver never gives a role more rows than it allows.
SolverFill ==
    \A p \in DOMAIN run : \A r \in RolesOf(run[p].service) :
        Cardinality(RowsFor(p, r)) <= MaxAllowed[r]

\* What a completed run reports stays what its request counted.
Reported ==
    \A p \in DOMAIN run : run[p].status = "COMPLETED" =>
        /\ pc[p] = "done"
        /\ run[p].filled = loc[p].made
        /\ run[p].gaps = {r \in RolesOf(run[p].service) : Cardinality(RowsFor(p, r)) < MinRequired[r]}

\* A decline call is for one declined row of the run it works on and places at
\* most one row, of the same role.
ReplacementFits ==
    \A p \in DOMAIN loc : loc[p].target # {} =>
        /\ loc[p].made <= 1 /\ (pc[p] \in {"list", "find", "place"} => loc[p].made = 0)
        /\ loc[p].run \in DOMAIN run =>
             \E a \in DOMAIN asg :
                /\ loc[p].target = {a}
                /\ asg[a].run = loc[p].run /\ asg[a].declined
                /\ loc[p].todo \subseteq {asg[a].role}
                /\ \A pick \in loc[p].picks : pick[1] = asg[a].role
                /\ \A b \in RowsOf(p) : asg[b].role = asg[a].role

FiniteTables == IsFiniteSet(DOMAIN loc) /\ IsFiniteSet(DOMAIN asg)

CInv ==
    /\ KindsOfCalls /\ DeclinerTaken /\ RowsNumbered /\ SolveFits /\ SolverFill /\ Fresh
    /\ Reported /\ ReplacementFits /\ FiniteTables

-----------------------------------------------------------------------------
(* Frames. *)

\* The row of a run changes only when its request creates or completes it.
LEMMA RunRowStays ==
    ASSUME TypeOK, Started, Next, NEW p \in DOMAIN run', ~CreateRun(p), ~CompleteRun(p)
    PROVE  p \in DOMAIN run /\ run'[p] = run[p]
<1>1. CASE \E q \in Request : RequestStep(q) \/ Abort(q)
  <2>1. PICK q \in Request : RequestStep(q) \/ Abort(q)
    BY <1>1
  <2>2. CASE CreateRun(q)
    BY <2>2 DEF CreateRun, Inserted
  <2>3. CASE CompleteRun(q)
    BY <2>3 DEF CompleteRun, TypeOK
  <2>4. CASE ~CreateRun(q) /\ ~CompleteRun(q)
    <3>. UNCHANGED run
      BY <2>1, <2>4 DEF RequestStep, SolveStep, ReplaceStep, Abort, CreateRunThrows, Resolve,
         ResolveNone, Insert, InsertThrows, CompleteRunThrows, ListTaken, ListTakenGone,
         FindReplacement, FindReplacementNone, Place, PlaceThrows, Notify, Throw, Answer, tables
    <3>. QED
      OBVIOUS
  <2>. QED
    BY <2>2, <2>3, <2>4
<1>2. CASE \E q \in Request, s \in Service : Generate(q, s)
  BY <1>2 DEF Generate, tables
<1>3. CASE \E q \in Request, a \in DOMAIN asg : Decline(q, a)
  BY <1>3 DEF Decline
<1>4. CASE Other
  BY <1>4 DEF Other, Confirm, Override, CancelService, Kept, SetStatus, SetAvailability
<1>. QED
  BY <1>1, <1>2, <1>3, <1>4, NextCases

\* A row goes only with its run; its run and role never change, and it stays declined.
LEMMA RowsStay ==
    ASSUME TypeOK, Started, RowsNumbered, Next, NEW a \in DOMAIN asg, asg[a].run \in DOMAIN run'
    PROVE  /\ a \in DOMAIN asg'
           /\ asg'[a].run = asg[a].run /\ asg'[a].role = asg[a].role
           /\ asg[a].declined => asg'[a].declined
<1>1. asg[a] \in AsgRow
  BY DEF TypeOK
<1>2. CASE \E p \in Request : Insert(p) \/ Place(p)
  <2>1. PICK p \in Request : Insert(p) \/ Place(p)
    BY <1>2
  <2>2. PICK pick \in loc[p].picks : InsertRow(p, pick[1], pick[2])
    BY <2>1, InsertCases
  <2>3. a \in DOMAIN asg'
    BY <2>2 DEF InsertRow, Inserted
  <2>4. a # <<p, loc[p].made>>
    <3>1. loc[p].made \in Nat
      BY <2>1, InsertCases DEF TypeOK, Local
    <3>. QED
      BY <3>1 DEF RowsNumbered
  <2>5. asg'[a] = asg[a]
    BY <2>2, <2>3, <2>4 DEF InsertRow, Inserted
  <2>. QED
    BY <2>3, <2>5
<1>3. CASE \A p \in Request : ~Insert(p) /\ ~Place(p)
  <2>1. a \in DOMAIN asg'
    <3>1. CASE \E p \in Request : RequestStep(p) \/ Abort(p)
      BY <1>3, <3>1 DEF RequestStep, SolveStep, ReplaceStep, Abort, CreateRun, CreateRunThrows,
         Resolve, ResolveNone, InsertThrows, CompleteRun, CompleteRunThrows, ListTaken,
         ListTakenGone, FindReplacement, FindReplacementNone, PlaceThrows, Notify, Throw, Answer,
         tables
    <3>2. CASE \E p \in Request, s \in Service : Generate(p, s)
      BY <3>2 DEF Generate, tables
    <3>3. CASE \E p \in Request, b \in DOMAIN asg : Decline(p, b)
      BY <3>3 DEF Decline
    <3>4. CASE Other
      BY <3>4 DEF Other, Confirm, Override, CancelService, Kept, SetStatus, SetAvailability
    <3>. QED
      BY <3>1, <3>2, <3>3, <3>4, NextCases
  <2>. QED
    BY <1>3, <2>1, RowsKept DEF RowsFrom
<1>. QED
  BY <1>2, <1>3

\* Nobody else touches the rows of a request whose run is still there.
LEMMA OwnRowsStay ==
    ASSUME TypeOK, Started, KindsOfCalls, RowsNumbered, Next,
           NEW p \in DOMAIN run, p \in DOMAIN run', ~Insert(p)
    PROVE  /\ RowsOf(p)' = RowsOf(p)
           /\ \A r : RowsFor(p, r)' = RowsFor(p, r)
<1>1. p \in Request /\ p \in DOMAIN loc /\ loc[p].target = {} /\ loc[p].run = p /\ pc[p] # "place"
  BY DEF TypeOK, Started, KindsOfCalls, Replacing
<1>2. ASSUME NEW a \in RowsOf(p)
      PROVE  a \in RowsOf(p)' /\ asg'[a].role = asg[a].role
  BY <1>1, <1>2, RowsStay DEF RowsOf, RowsNumbered
<1>3. ASSUME NEW a \in RowsOf(p)'
      PROVE  a \in RowsOf(p)
  <2>1. CASE \E q \in Request : Insert(q) \/ Place(q)
    <3>1. PICK q \in Request : Insert(q) \/ Place(q)
      BY <2>1
    <3>2. PICK pick \in loc[q].picks : InsertRow(q, pick[1], pick[2])
      BY <3>1, InsertCases
    <3>3. q # p
      BY <1>1, <3>1 DEF Place
    <3>. QED
      BY <1>3, <3>2, <3>3 DEF InsertRow, Inserted, RowsOf
  <2>2. CASE \A q \in Request : ~Insert(q) /\ ~Place(q)
    BY <1>3, <2>2, RowsKept DEF RowsFrom, RowsOf
  <2>. QED
    BY <2>1, <2>2
<1>. QED
  BY <1>2, <1>3 DEF RowsFor

\* A row of the next state was there before or is the one that is inserted.
LEMMA NewRow ==
    ASSUME TypeOK, Started, Next, NEW a \in DOMAIN asg'
    PROVE  \/ a \in DOMAIN asg /\ asg'[a].run = asg[a].run /\ asg'[a].role = asg[a].role
           \/ \E p \in DOMAIN loc : \E pick \in loc[p].picks :
                /\ Insert(p) \/ Place(p)
                /\ a = <<p, loc[p].made>>
                /\ asg'[a].run = loc[p].run /\ asg'[a].role = pick[1]
<1>1. CASE \E p \in Request : Insert(p) \/ Place(p)
  <2>1. PICK p \in Request : Insert(p) \/ Place(p)
    BY <1>1
  <2>2. PICK pick \in loc[p].picks : InsertRow(p, pick[1], pick[2])
    BY <2>1, InsertCases
  <2>3. RowsFrom({<<p, loc[p].made>>}) /\ p \in DOMAIN loc
        /\ asg'[<<p, loc[p].made>>].run = loc[p].run /\ asg'[<<p, loc[p].made>>].role = pick[1]
    BY <2>1, <2>2, InsertCases, RowsInserted
  <2>. QED
    BY <2>1, <2>3 DEF RowsFrom
<1>2. CASE \A p \in Request : ~Insert(p) /\ ~Place(p)
  BY <1>2, RowsKept DEF RowsFrom
<1>. QED
  BY <1>1, <1>2

\* What becomes of the counters of a call.
LEMMA MadeFrame ==
    ASSUME TypeOK, Started, NEW p \in Request, RequestStep(p) \/ Abort(p)
    PROVE  /\ Insert(p) \/ Place(p) => loc'[p].made = loc[p].made + 1
           /\ ~Insert(p) /\ ~Place(p) => loc'[p].made = loc[p].made
           /\ loc'[p].decliner \in {loc[p].decliner, {}}
<1>1. p \in DOMAIN loc /\ loc[p] \in Local
  BY StepInFlight DEF TypeOK
<1>2. ASSUME NEW out, End(p, out)
      PROVE  loc'[p].made = loc[p].made /\ loc'[p].decliner = {}
  BY <1>1, <1>2 DEF End, Local
<1>3. CASE \E out \in {"done", "failed"} : End(p, out)
  <2>1. ~Insert(p) /\ ~Place(p)
    <3>1. pc'[p] \in {"done", "failed"}
      BY <1>3 DEF End, Goto, TypeOK
    <3>2. Insert(p) => pc'[p] \in {"insert", "resolve", "complete"}
      BY DEF Insert, Goto, TypeOK
    <3>3. Place(p) => pc'[p] = "notify"
      BY DEF Place, Goto, TypeOK
    <3>. QED
      BY <3>1, <3>2, <3>3
  <2>. QED
    BY <1>2, <1>3, <2>1
<1>4. CASE CreateRun(p) \/ ResolveNone(p) \/ Resolve(p)
  <2>1. pc[p] \in {"create", "resolve"}
    BY <1>4 DEF CreateRun, ResolveNone, Resolve
  <2>2. ~Insert(p) /\ ~Place(p)
    BY <2>1 DEF Insert, Place
  <2>3. loc'[p].made = loc[p].made /\ loc'[p].decliner = loc[p].decliner
    <3>1. CASE CreateRun(p)
      BY <3>1 DEF CreateRun
    <3>2. CASE ResolveNone(p)
      BY <1>1, <3>2 DEF ResolveNone, Local
    <3>3. CASE Resolve(p)
      BY <1>1, <3>3 DEF Resolve, Local
    <3>. QED
      BY <1>4, <3>1, <3>2, <3>3
  <2>. QED
    BY <2>2, <2>3
<1>5. CASE ListTaken(p) \/ FindReplacement(p)
  BY <1>1, <1>5 DEF ListTaken, FindReplacement, Local, Insert, Place
<1>6. CASE Insert(p)
  <2>1. PICK x \in loc[p].picks :
          loc' = [loc EXCEPT ![p].picks = @ \ {x}, ![p].taken = @ \cup {x[2]}, ![p].made = @ + 1]
    BY <1>6 DEF Insert
  <2>. QED
    BY <1>1, <1>6, <2>1 DEF Local
<1>7. CASE Place(p)
  BY <1>1, <1>7 DEF Place, Local
<1>. QED
  BY <1>3, <1>4, <1>5, <1>6, <1>7 DEF RequestStep, SolveStep, ReplaceStep, Abort, CreateRunThrows,
     InsertThrows, CompleteRun, CompleteRunThrows, ListTakenGone, FindReplacementNone,
     PlaceThrows, Notify, Throw, Answer

\* A call that has just arrived.
LEMMA Arrivals ==
    ASSUME TypeOK, Started, Next, NEW q \in DOMAIN loc', q \notin DOMAIN loc
    PROVE  /\ q \in Request /\ pc[q] = "idle" /\ UNCHANGED run
           /\ loc'[q].picks = {} /\ loc'[q].made = 0
           /\ \/ /\ pc'[q] = "create" /\ UNCHANGED asg
                 /\ loc'[q].run = q /\ loc'[q].target = {} /\ loc'[q].decliner = {}
                 /\ loc'[q].gaps = {} /\ loc'[q].todo = RolesOf(loc'[q].service)
              \/ \E a \in DOMAIN asg :
                 /\ pc'[q] = "list" /\ asg' = [asg EXCEPT ![a].declined = TRUE]
                 /\ loc'[q].run = asg[a].run /\ loc'[q].target = {a} /\ loc'[q].todo = {asg[a].role}
<1>1. q \in Request
  BY TypeNext DEF TypeOK
<1>2. CASE \E p \in Request : RequestStep(p) \/ Abort(p)
  BY <1>2, StepFrame
<1>3. CASE \E p \in Request, s \in Service : Generate(p, s)
  <2>1. PICK p \in Request, s \in Service : Generate(p, s)
    BY <1>3
  <2>. DEFINE l == [service |-> s, run |-> p, todo |-> RolesOf(s), taken |-> {},
                    picks |-> {}, made |-> 0, required |-> 0, gaps |-> {},
                    target |-> {}, decliner |-> {}]
  <2>2. pc[p] = "idle" /\ Arrive(p, "create", l) /\ UNCHANGED tables
    BY <2>1 DEF Generate
  <2>3. DOMAIN loc' = DOMAIN loc \cup {p} /\ pc'[p] = "create" /\ loc'[p] = l
    BY <2>2, ArriveFrame
  <2>. QED
    BY <1>1, <2>2, <2>3 DEF tables
<1>4. CASE \E p \in Request, a \in DOMAIN asg : Decline(p, a)
  <2>1. PICK p \in Request, a \in DOMAIN asg : Decline(p, a)
    BY <1>4
  <2>. DEFINE l == [service |-> ServiceOf[asg[a].role], run |-> asg[a].run,
                    todo |-> {asg[a].role}, taken |-> {}, picks |-> {}, made |-> 0,
                    required |-> 0, gaps |-> {},
                    target |-> {a}, decliner |-> {asg[a].vol}]
  <2>2. pc[p] = "idle" /\ Arrive(p, "list", l) /\ UNCHANGED run
        /\ asg' = [asg EXCEPT ![a].declined = TRUE]
    BY <2>1 DEF Decline
  <2>3. DOMAIN loc' = DOMAIN loc \cup {p} /\ pc'[p] = "list" /\ loc'[p] = l
    BY <2>2, ArriveFrame
  <2>4. q = p
    BY <2>3
  <2>5. l.run = asg[a].run /\ l.target = {a} /\ l.todo = {asg[a].role} /\ l.picks = {} /\ l.made = 0
    OBVIOUS
  <2>. HIDE DEF l
  <2>. QED
    BY <1>1, <2>2, <2>3, <2>4, <2>5
<1>5. CASE Other
  BY <1>5, OtherFrame
<1>. QED
  BY <1>2, <1>3, <1>4, <1>5, NextCases

\* A call is untouched, takes a step, or has just arrived.
LEMMA Calls ==
    ASSUME TypeOK, Started, Next, NEW q \in DOMAIN loc'
    PROVE  \/ q \in DOMAIN loc /\ loc'[q] = loc[q] /\ pc'[q] = pc[q]
           \/ q \in DOMAIN loc /\ q \in Request /\ (RequestStep(q) \/ Abort(q))
           \/ q \notin DOMAIN loc
<1>1. q \in Request
  BY TypeNext DEF TypeOK
<1>2. CASE \E p \in Request : RequestStep(p) \/ Abort(p)
  BY <1>1, <1>2, StepFrame
<1>3. CASE \E p \in Request, s \in Service : Generate(p, s)
  BY <1>1, <1>3, ArriveFrame DEF Generate
<1>4. CASE \E p \in Request, a \in DOMAIN asg : Decline(p, a)
  BY <1>1, <1>4, ArriveFrame DEF Decline
<1>5. CASE Other
  BY <1>5, OtherFrame
<1>. QED
  BY <1>2, <1>3, <1>4, <1>5, NextCases

-----------------------------------------------------------------------------
(* Each part is preserved. *)

LEMMA KindsNext ==
    ASSUME TypeOK, Started, KindsOfCalls, Next
    PROVE  KindsOfCalls'
<1>1. ASSUME NEW q \in DOMAIN loc'
      PROVE  /\ loc'[q].target = {} => loc'[q].run = q
             /\ pc'[q] \in Solving => loc'[q].target = {}
             /\ pc'[q] \in Replacing => loc'[q].target # {}
  <2>1. CASE q \in DOMAIN loc /\ loc'[q] = loc[q] /\ pc'[q] = pc[q]
    BY <2>1 DEF KindsOfCalls
  <2>2. CASE q \in DOMAIN loc /\ q \in Request /\ (RequestStep(q) \/ Abort(q))
    <3>1. pc[q] \in InFlight
      BY <2>2, StepInFlight
    <3>2. /\ loc'[q].run = loc[q].run /\ loc'[q].target = loc[q].target
          /\ pc'[q] \in Solving => pc[q] \in Solving
      BY <2>2, StepFrame
    <3>3. pc'[q] \in Replacing => pc[q] \in Replacing
      <4>1. SolveStep(q) => pc'[q] \notin Replacing
        <5>1. CASE CreateRunThrows(q) \/ InsertThrows(q) \/ CompleteRun(q) \/ CompleteRunThrows(q)
          BY <2>2, <5>1 DEF CreateRunThrows, InsertThrows, CompleteRun, CompleteRunThrows, Throw,
             End, Goto, Replacing, TypeOK
        <5>2. CASE CreateRun(q) \/ Resolve(q) \/ ResolveNone(q)
          BY <2>2, <5>2 DEF CreateRun, Resolve, ResolveNone, Goto, Replacing, TypeOK
        <5>3. CASE Insert(q)
          BY <2>2, <5>3 DEF Insert, Goto, Replacing, TypeOK
        <5>. QED
          BY <5>1, <5>2, <5>3 DEF SolveStep
      <4>2. ReplaceStep(q) => pc[q] \in Replacing
        BY DEF ReplaceStep, ListTaken, ListTakenGone, FindReplacement, FindReplacementNone,
           Place, PlaceThrows, Notify, Replacing
      <4>3. Abort(q) => pc'[q] \notin Replacing
        BY <2>2 DEF Abort, Throw, End, Goto, Replacing, TypeOK
      <4>. QED
        BY <2>2, <4>1, <4>2, <4>3 DEF RequestStep
    <3>. QED
      BY <2>2, <3>1, <3>2, <3>3 DEF KindsOfCalls
  <2>3. CASE q \notin DOMAIN loc
    BY <2>3, Arrivals DEF Solving, Replacing
  <2>. QED
    BY <1>1, <2>1, <2>2, <2>3, Calls
<1>2. ASSUME NEW q \in DOMAIN run'
      PROVE  loc'[q].target = {}
  <2>1. q \in DOMAIN loc'
    BY StartedNext, TypeNext DEF Started, TypeOK
  <2>2. CASE q \in DOMAIN run
    <3>1. q \in DOMAIN loc /\ loc[q].target = {}
      BY <2>2 DEF KindsOfCalls, Started, TypeOK
    <3>. QED
      BY <2>1, <3>1, Calls, StepFrame
  <2>3. CASE pc[q] = "create" /\ CreateRun(q)
    <3>1. q \in Request /\ q \in DOMAIN loc
      BY <2>3, TypeNext DEF TypeOK, Started
    <3>. QED
      BY <2>3, <3>1 DEF CreateRun, KindsOfCalls, Solving
  <2>. QED
    BY <1>2, <2>2, <2>3, RunsKept
<1>. QED
  BY <1>1, <1>2 DEF KindsOfCalls

LEMMA DeclinerNext ==
    ASSUME TypeOK, Started, LocalsFit, DeclinerTaken, Next
    PROVE  DeclinerTaken'
<1>. SUFFICES ASSUME NEW q \in DOMAIN loc'
              PROVE  /\ pc'[q] \in Solving => loc'[q].decliner = {}
                     /\ pc'[q] = "find" => loc'[q].decliner \subseteq loc'[q].taken
  BY DEF DeclinerTaken
<1>1. CASE q \in DOMAIN loc /\ loc'[q] = loc[q] /\ pc'[q] = pc[q]
  BY <1>1 DEF DeclinerTaken
<1>2. CASE q \in DOMAIN loc /\ q \in Request /\ (RequestStep(q) \/ Abort(q))
  <2>1. pc'[q] \in Solving => pc[q] \in Solving
    BY <1>2, StepFrame
  <2>2. loc'[q].decliner \in {loc[q].decliner, {}}
    BY <1>2, MadeFrame
  <2>3. pc'[q] = "find" => ListTaken(q)
    BY <1>2 DEF RequestStep, SolveStep, ReplaceStep, CreateRun, CreateRunThrows, Resolve,
       ResolveNone, Insert, InsertThrows, CompleteRun, CompleteRunThrows, ListTakenGone,
       FindReplacement, FindReplacementNone, Place, PlaceThrows, Notify, Abort, Throw, Answer, End,
       Goto, TypeOK
  <2>4. ListTaken(q) => loc[q].decliner \subseteq loc'[q].taken
    BY <1>2 DEF ListTaken, TypeOK, Local
  <2>. QED
    BY <1>2, <2>1, <2>2, <2>3, <2>4 DEF DeclinerTaken
<1>3. CASE q \notin DOMAIN loc
  BY <1>3, Arrivals DEF Solving
<1>. QED
  BY <1>1, <1>2, <1>3, Calls

LEMMA NotReplacedNext ==
    ASSUME TypeOK, Started, LocalsFit, DeclinerTaken, NotReplacedByDecliner, Next
    PROVE  NotReplacedByDecliner'
<1>. SUFFICES ASSUME NEW q \in DOMAIN loc', NEW pick \in loc'[q].picks
              PROVE  pick[2] \notin loc'[q].decliner
  BY DEF NotReplacedByDecliner
<1>1. CASE q \in DOMAIN loc /\ loc'[q] = loc[q] /\ pc'[q] = pc[q]
  BY <1>1 DEF NotReplacedByDecliner
<1>2. CASE q \in DOMAIN loc /\ q \in Request /\ (RequestStep(q) \/ Abort(q))
  <2>1. loc'[q].decliner \in {loc[q].decliner, {}}
    BY <1>2, MadeFrame
  <2>2. CASE pick \in loc[q].picks
    BY <1>2, <2>1, <2>2 DEF NotReplacedByDecliner
  <2>3. CASE Resolve(q)
    BY <1>2, <2>1, <2>3 DEF DeclinerTaken, Resolve, Solving
  <2>4. CASE FindReplacement(q) /\ pick[1] \in loc[q].todo
             /\ pick[2] \in Candidates(pick[1], loc[q].taken)
    <3>1. pick[1] \in Role /\ loc[q].decliner \subseteq loc[q].taken
      BY <1>2, <2>4 DEF TypeOK, Local, FindReplacement, DeclinerTaken
    <3>. QED
      BY <2>1, <2>4, <3>1, CandidatesAreVolunteers
  <2>. QED
    BY <1>2, <2>2, <2>3, <2>4, PicksFrame
<1>3. CASE q \notin DOMAIN loc
  BY <1>3, Arrivals
<1>. QED
  BY <1>1, <1>2, <1>3, Calls

LEMMA FreshNext ==
    ASSUME TypeOK, Started, Fresh, Next
    PROVE  Fresh'
<1>. SUFFICES ASSUME NEW q \in DOMAIN loc', pc'[q] = "create"
              PROVE  loc'[q].made = 0 /\ loc'[q].gaps = {} /\ loc'[q].todo = RolesOf(loc'[q].service)
  BY DEF Fresh, RolesOf
<1>1. CASE q \in DOMAIN loc /\ loc'[q] = loc[q] /\ pc'[q] = pc[q]
  BY <1>1 DEF Fresh
<1>2. CASE q \in DOMAIN loc /\ q \in Request /\ (RequestStep(q) \/ Abort(q))
  BY <1>2, StepFrame
<1>3. CASE q \notin DOMAIN loc
  BY <1>3, Arrivals
<1>. QED
  BY <1>1, <1>2, <1>3, Calls

LEMMA RowsNumberedNext ==
    ASSUME TypeOK, Started, KindsOfCalls, Fresh, RowsNumbered, Next
    PROVE  RowsNumbered'
<1>1. ASSUME NEW q \in DOMAIN loc
      PROVE  /\ loc'[q].run = loc[q].run /\ loc[q].made \in Nat
             /\ loc'[q].made = loc[q].made \/ loc'[q].made = loc[q].made + 1
             /\ Insert(q) \/ Place(q) => loc'[q].made = loc[q].made + 1
             /\ ~Insert(q) /\ ~Place(q) => loc'[q].made = loc[q].made
  <2>1. q \in DOMAIN loc' /\ q \in Request
    BY StartedNext, PcGrows DEF TypeOK, Started
  <2>2. loc[q].made \in Nat
    BY DEF TypeOK, Local
  <2>3. CASE RequestStep(q) \/ Abort(q)
    BY <2>1, <2>2, <2>3, StepFrame, MadeFrame
  <2>4. CASE ~RequestStep(q) /\ ~Abort(q)
    BY <2>1, <2>2, <2>4, Calls DEF RequestStep, SolveStep, ReplaceStep
  <2>. QED
    BY <2>3, <2>4
<1>2. ASSUME NEW a \in DOMAIN asg'
      PROVE  asg'[a].run = loc'[a[1]].run /\ a[2] < loc'[a[1]].made
  <2>1. CASE a \in DOMAIN asg /\ asg'[a].run = asg[a].run
    <3>1. a[1] \in DOMAIN loc /\ a[2] \in Nat
      BY <2>1 DEF Started, TypeOK, AsgId
    <3>2. asg[a].run = loc[a[1]].run /\ a[2] < loc[a[1]].made
      BY <2>1 DEF RowsNumbered
    <3>. QED
      BY <2>1, <3>1, <3>2, <1>1
  <2>2. ASSUME NEW p \in DOMAIN loc, Insert(p) \/ Place(p), a = <<p, loc[p].made>>,
               asg'[a].run = loc[p].run
        PROVE  asg'[a].run = loc'[a[1]].run /\ a[2] < loc'[a[1]].made
    BY <2>2, <1>1
  <2>. QED
    BY <2>1, <2>2, NewRow
<1>3. ASSUME NEW p \in DOMAIN run'
      PROVE  RowsOf(p)' = Ids(p, loc'[p].made)
  <2>1. CASE CreateRun(p)
    <3>1. p \in DOMAIN loc /\ p \in Request /\ loc[p].made = 0
      BY <2>1, TypeNext DEF CreateRun, Started, TypeOK, Fresh
    <3>2. UNCHANGED <<asg, loc>>
      BY <2>1 DEF CreateRun
    <3>3. RowsOf(p) = {}
      BY <3>1 DEF RowsOf, RowsNumbered, TypeOK, AsgId
    <3>4. 0..(0 - 1) = {}
      OBVIOUS
    <3>. QED
      BY <3>1, <3>2, <3>3, <3>4 DEF RowsOf, Ids
  <2>2. CASE p \in DOMAIN run
    <3>1. p \in Request /\ p \in DOMAIN loc /\ ~Place(p)
      BY <2>2 DEF TypeOK, Started, KindsOfCalls, Place, Replacing
    <3>2. RowsOf(p) = Ids(p, loc[p].made) /\ loc[p].made \in Nat
      BY <2>2, <3>1, <1>1 DEF RowsNumbered
    <3>3. CASE Insert(p)
      <4>1. PICK pick \in loc[p].picks : InsertRow(p, pick[1], pick[2])
        BY <3>1, <3>3, InsertCases
      <4>2. RowsOf(p)' = RowsOf(p) \cup {<<p, loc[p].made>>}
        BY <4>1 DEF InsertRow, Inserted, RowsOf
      <4>3. loc'[p].made = loc[p].made + 1
        BY <3>1, <3>3, <1>1
      <4>. QED
        BY <3>2, <4>2, <4>3 DEF Ids
    <3>4. CASE ~Insert(p)
      BY <1>1, <1>3, <2>2, <3>1, <3>2, <3>4, OwnRowsStay
    <3>. QED
      BY <3>3, <3>4
  <2>. QED
    BY <2>1, <2>2, <1>3, RunsKept
<1>. QED
  BY <1>2, <1>3 DEF RowsNumbered

LEMMA FiniteNext ==
    ASSUME TypeOK, Started, FiniteTables, Next
    PROVE  FiniteTables'
<1>1. \E x : DOMAIN loc' \subseteq DOMAIN loc \cup {x}
  <2>1. CASE \E p \in Request : RequestStep(p) \/ Abort(p)
    BY <2>1, StepFrame
  <2>2. CASE \E p \in Request, s \in Service : Generate(p, s)
    BY <2>2, ArriveFrame DEF Generate
  <2>3. CASE \E p \in Request, a \in DOMAIN asg : Decline(p, a)
    BY <2>3, ArriveFrame DEF Decline
  <2>4. CASE Other
    BY <2>4, OtherFrame
  <2>. QED
    BY <2>1, <2>2, <2>3, <2>4, NextCases
<1>2. \E x : DOMAIN asg' \subseteq DOMAIN asg \cup {x}
  <2>1. CASE \E p \in Request : Insert(p) \/ Place(p)
    <3>1. PICK p \in Request : Insert(p) \/ Place(p)
      BY <2>1
    <3>2. PICK pick \in loc[p].picks : InsertRow(p, pick[1], pick[2])
      BY <3>1, InsertCases
    <3>. QED
      BY <3>2 DEF InsertRow, Inserted
  <2>2. CASE \A p \in Request : ~Insert(p) /\ ~Place(p)
    BY <2>2, RowsKept DEF RowsFrom
  <2>. QED
    BY <2>1, <2>2
<1>3. ASSUME NEW S, NEW T, NEW x, IsFiniteSet(S), T \subseteq S \cup {x}
      PROVE  IsFiniteSet(T)
  BY <1>3, FS_AddElement, FS_Subset
<1>4. IsFiniteSet(DOMAIN loc')
  BY <1>1, <1>3 DEF FiniteTables
<1>5. IsFiniteSet(DOMAIN asg')
  BY <1>2, <1>3 DEF FiniteTables
<1>. QED
  BY <1>4, <1>5 DEF FiniteTables

-----------------------------------------------------------------------------
(* Counting the rows of a role. *)

\* The solver fills a role up to MaxAllowed and no further.
LEMMA FillBound ==
    ASSUME NEW r \in Role, NEW n \in Nat
    PROVE  FillCount(r, n) \in Nat /\ FillCount(r, n) <= MaxAllowed[r]
<1>1. MaxAllowed[r] \in Nat \ {0} /\ MinRequired[r] \in Nat
  BY SchedulingAssumption
<1>. QED
  BY <1>1 DEF FillCount, Lesser, Greater

LEMMA NumberedFinite ==
    ASSUME NEW p, NEW m \in Nat
    PROVE  IsFiniteSet(Ids(p, m)) /\ Cardinality(Ids(p, m)) = m
<1>. DEFINE T == 0..(m - 1)
<1>1. IsFiniteSet(T) /\ Cardinality(T) = m
  <2>1. 0 \in Int /\ m - 1 \in Int
    OBVIOUS
  <2>2. IsFiniteSet(T) /\ Cardinality(T) = IF 0 > m - 1 THEN 0 ELSE m - 1 - 0 + 1
    BY <2>1, FS_Interval
  <2>. QED
    BY <2>2
<1>2. IsFiniteSet({p}) /\ Cardinality({p}) = 1
  BY FS_Singleton
<1>. HIDE DEF T
<1>3. IsFiniteSet({p} \X T) /\ Cardinality({p} \X T) = 1 * m
  BY <1>1, <1>2, FS_Product
<1>. QED
  BY <1>3 DEF T, Ids

\* A run that is still there has as many rows of its own as its request counted.
LEMMA RowsCounted ==
    ASSUME TypeOK, Started, RowsNumbered, NEW p \in DOMAIN run
    PROVE  /\ IsFiniteSet(RowsOf(p)) /\ Cardinality(RowsOf(p)) = loc[p].made
           /\ \A r : IsFiniteSet(RowsFor(p, r))
<1>. p \in DOMAIN loc
  BY DEF TypeOK, Started
<1>1. loc[p].made \in Nat /\ RowsOf(p) = Ids(p, loc[p].made)
  BY DEF TypeOK, Local, RowsNumbered
<1>2. IsFiniteSet(RowsOf(p)) /\ Cardinality(RowsOf(p)) = loc[p].made
  BY <1>1, NumberedFinite
<1>3. ASSUME NEW r
      PROVE  IsFiniteSet(RowsFor(p, r))
  BY <1>2, FS_Subset DEF RowsFor
<1>. QED
  BY <1>2, <1>3

LEMMA WinnersFinite ==
    ASSUME NEW r, NEW S \in SUBSET ({r} \X Volunteer)
    PROVE  IsFiniteSet(S)
<1>1. IsFiniteSet({r} \X Volunteer)
  BY SchedulingAssumption, FS_Singleton, FS_Product
<1>. QED
  BY <1>1, FS_Subset

LEMMA PicksFinite ==
    ASSUME TypeOK, NEW p \in DOMAIN loc, NEW r
    PROVE  IsFiniteSet(PicksFor(p, r))
<1>1. PicksFor(p, r) \in SUBSET ({r} \X Volunteer)
  BY DEF PicksFor, TypeOK, Local
<1>. QED
  BY <1>1, WinnersFinite

\* SolveFits, for one request.
Solved(p) ==
    /\ \A r \in loc[p].todo : RowsFor(p, r) = {} /\ PicksFor(p, r) = {}
    /\ \A r \in RolesOf(run[p].service) : Due(p, r) <= MaxAllowed[r]
    /\ loc[p].gaps = {r \in RolesOf(run[p].service) \ loc[p].todo : Due(p, r) < MinRequired[r]}
    /\ pc[p] # "insert" => loc[p].picks = {}
    /\ pc[p] = "complete" => loc[p].todo = {}

LEMMA SolvedAfterCreate ==
    ASSUME IInv, Fresh, RowsNumbered, Next, NEW p \in Request, CreateRun(p)
    PROVE  Solved(p)'
<1>1. p \in DOMAIN loc /\ loc[p] \in Local /\ pc[p] = "create"
  BY DEF CreateRun, IInv, Started, TypeOK
<1>2. loc[p].made = 0 /\ loc[p].gaps = {} /\ loc[p].todo = RolesOf(loc[p].service) /\ loc[p].picks = {}
  BY <1>1 DEF Fresh, IInv, LocalsFit
<1>3. UNCHANGED <<asg, loc>> /\ run'[p].service = loc[p].service
      /\ pc'[p] = IF loc[p].todo = {} THEN "complete" ELSE "resolve"
  BY <1>1 DEF CreateRun, Inserted, Goto, IInv, TypeOK
<1>4. RowsOf(p) = {}
  BY <1>1, <1>2 DEF RowsOf, RowsNumbered, IInv, TypeOK, AsgId
<1>5. \A r : RowsFor(p, r)' = {} /\ PicksFor(p, r)' = {}
  BY <1>2, <1>3, <1>4 DEF RowsFor, RowsOf, PicksFor
<1>6. \A r : Due(p, r)' = 0
  BY <1>5, FS_EmptySet DEF Due
<1>7. \A r \in RolesOf(loc[p].service) : MaxAllowed[r] \in Nat
  BY SchedulingAssumption DEF RolesOf
<1>8. \A r \in RolesOf(loc[p].service) : Due(p, r)' <= MaxAllowed[r]
  BY <1>6, <1>7
<1>9. RolesOf(run[p].service)' = RolesOf(loc[p].service)
  BY <1>3 DEF RolesOf
<1>. QED
  BY <1>2, <1>3, <1>5, <1>8, <1>9 DEF Solved

\* What one more step of the loop needs of the counts of every role.
LEMMA SolvedStays ==
    ASSUME NEW p, Solved(p), RolesOf(run[p].service)' = RolesOf(run[p].service),
           \A r \in RolesOf(run[p].service) : Due(p, r)' = Due(p, r),
           loc'[p].todo = loc[p].todo, loc'[p].gaps = loc[p].gaps,
           \A r \in loc[p].todo : RowsFor(p, r)' = {} /\ PicksFor(p, r)' = {},
           pc'[p] # "insert" => loc'[p].picks = {},
           pc'[p] = "complete" => loc[p].todo = {}
    PROVE  Solved(p)'
<1>1. \A r \in RolesOf(run[p].service) : Due(p, r)' <= MaxAllowed[r]
  BY DEF Solved
<1>2. loc'[p].gaps = {r \in RolesOf(run[p].service) \ loc'[p].todo : Due(p, r)' < MinRequired[r]}
  BY DEF Solved
<1>. QED
  BY <1>1, <1>2 DEF Solved

LEMMA SolvedAfterInsert ==
    ASSUME IInv, RowsNumbered, NEW p \in DOMAIN run, Solved(p), Insert(p)
    PROVE  Solved(p)'
<1>1. p \in Request /\ p \in DOMAIN loc /\ loc[p] \in Local
  BY DEF IInv, TypeOK, Started
<1>2. PICK x \in loc[p].picks :
        /\ InsertRow(p, x[1], x[2])
        /\ loc' = [loc EXCEPT ![p].picks = @ \ {x}, ![p].taken = @ \cup {x[2]}, ![p].made = @ + 1]
        /\ Goto(p, IF loc[p].picks # {x} THEN "insert"
                   ELSE IF loc[p].todo # {} THEN "resolve" ELSE "complete")
  BY DEF Insert
<1>. DEFINE n == <<p, loc[p].made>>
<1>3. loc'[p].picks = loc[p].picks \ {x} /\ loc'[p].todo = loc[p].todo /\ loc'[p].gaps = loc[p].gaps
  BY <1>1, <1>2 DEF Local
<1>4. pc'[p] = IF loc[p].picks # {x} THEN "insert" ELSE IF loc[p].todo # {} THEN "resolve" ELSE "complete"
  BY <1>1, <1>2 DEF Goto, IInv, TypeOK
<1>5. DOMAIN asg' = DOMAIN asg \cup {n} /\ (\A a \in DOMAIN asg : a # n => asg'[a] = asg[a])
      /\ asg'[n].role = x[1]
  BY <1>2 DEF InsertRow, Inserted
<1>6. n \notin DOMAIN asg
  BY <1>1 DEF RowsNumbered, Local
<1>7. \A r : RowsFor(p, r)' = IF r = x[1] THEN RowsFor(p, r) \cup {n} ELSE RowsFor(p, r)
  BY <1>5, <1>6 DEF RowsFor, RowsOf
<1>8. \A r : PicksFor(p, r)' = IF r = x[1] THEN PicksFor(p, r) \ {x} ELSE PicksFor(p, r)
  BY <1>3 DEF PicksFor
<1>9. ASSUME NEW r
      PROVE  Due(p, r)' = Due(p, r)
  <2>1. IsFiniteSet(RowsFor(p, r)) /\ IsFiniteSet(PicksFor(p, r))
    BY <1>1, RowsCounted, PicksFinite DEF IInv
  <2>2. n \notin RowsFor(p, r) /\ (r = x[1] => x \in PicksFor(p, r))
    BY <1>6 DEF RowsFor, RowsOf, PicksFor
  <2>3. CASE r = x[1]
    <3>1. Cardinality(RowsFor(p, r)') = Cardinality(RowsFor(p, r)) + 1
      BY <1>7, <2>1, <2>2, <2>3, FS_AddElement
    <3>2. Cardinality(PicksFor(p, r)') = Cardinality(PicksFor(p, r)) - 1
      BY <1>8, <2>1, <2>2, <2>3, FS_RemoveElement
    <3>. QED
      BY <2>1, <3>1, <3>2, FS_CardinalityType DEF Due
  <2>4. CASE r # x[1]
    BY <1>7, <1>8, <2>4 DEF Due
  <2>. QED
    BY <2>3, <2>4
<1>10. \A r \in loc[p].todo : r # x[1]
  BY DEF Solved, PicksFor
<1>11. RolesOf(run[p].service)' = RolesOf(run[p].service)
  BY DEF Insert, RolesOf
<1>. QED
  BY <1>3, <1>4, <1>7, <1>8, <1>9, <1>10, <1>11, SolvedStays DEF Solved

\* What Resolve and ResolveNone have in common: role r is done.
LEMMA SolvedAfterRole ==
    ASSUME IInv, NEW p \in DOMAIN run, Solved(p), pc[p] = "resolve", UNCHANGED <<asg, run>>,
           NEW r \in loc[p].todo, NEW winners \in SUBSET Volunteer,
           loc'[p].todo = loc[p].todo \ {r},
           loc'[p].picks = {r} \X winners,
           Cardinality(winners) <= MaxAllowed[r],
           loc'[p].gaps = IF Cardinality(winners) < MinRequired[r] THEN loc[p].gaps \cup {r} ELSE loc[p].gaps,
           pc'[p] # "insert" => winners = {},
           pc'[p] = "complete" => loc[p].todo = {r}
    PROVE  Solved(p)'
<1>1. p \in DOMAIN loc /\ loc[p] \in Local /\ loc[p].picks = {}
  BY DEF IInv, TypeOK, Started, Solved
<1>2. r \in RolesOf(run[p].service)
  <2>1. loc[p].run = p /\ run[p].service = loc[p].service
    BY <1>1 DEF IInv, LocalsFit, Solving
  <2>. QED
    BY <1>1, <2>1 DEF IInv, LocalsFit
<1>3. RolesOf(run[p].service)' = RolesOf(run[p].service) /\ \A x : RowsFor(p, x)' = RowsFor(p, x)
  BY DEF RolesOf, RowsFor, RowsOf
<1>4. \A x : PicksFor(p, x)' = IF x = r THEN {r} \X winners ELSE {}
  BY DEF PicksFor
<1>5. Cardinality({r} \X winners) = Cardinality(winners) /\ Cardinality(winners) \in Nat
  <2>1. IsFiniteSet(winners) /\ IsFiniteSet({r}) /\ Cardinality({r}) = 1
    BY SchedulingAssumption, FS_Subset, FS_Singleton
  <2>2. Cardinality({r} \X winners) = 1 * Cardinality(winners) /\ Cardinality(winners) \in Nat
    BY <2>1, FS_Product, FS_CardinalityType
  <2>. QED
    BY <2>2
<1>6. \A x : Due(p, x) = Cardinality(RowsFor(p, x)) + 0
  <2>1. \A x : PicksFor(p, x) = {}
    BY <1>1 DEF PicksFor
  <2>. QED
    BY <2>1, FS_EmptySet DEF Due
<1>7. Due(p, r)' = Cardinality(winners)
  <2>1. RowsFor(p, r)' = {} /\ PicksFor(p, r)' = {r} \X winners
    BY <1>3, <1>4 DEF Solved
  <2>2. Due(p, r)' = Cardinality(RowsFor(p, r)') + Cardinality(PicksFor(p, r)')
    BY DEF Due
  <2>. QED
    BY <1>5, <2>1, <2>2, FS_EmptySet
<1>8. ASSUME NEW x, x # r
      PROVE  Due(p, x)' = Due(p, x)
  BY <1>3, <1>4, <1>6, <1>8, FS_EmptySet DEF Due
<1>9. \A x \in RolesOf(run[p].service) : Due(p, x)' <= MaxAllowed[x]
  BY <1>7, <1>8 DEF Solved
<1>10. loc'[p].gaps = {x \in RolesOf(run[p].service) \ loc'[p].todo : Due(p, x)' < MinRequired[x]}
  BY <1>2, <1>7, <1>8 DEF Solved
<1>11. \A x \in loc'[p].todo : RowsFor(p, x)' = {} /\ PicksFor(p, x)' = {}
  BY <1>3, <1>4 DEF Solved
<1>12. /\ pc'[p] # "insert" => loc'[p].picks = {}
       /\ pc'[p] = "complete" => loc'[p].todo = {}
  OBVIOUS
<1>. QED
  BY <1>3, <1>9, <1>10, <1>11, <1>12 DEF Solved

LEMMA SolvedAfterResolveNone ==
    ASSUME IInv, NEW p \in DOMAIN run, Solved(p), ResolveNone(p)
    PROVE  Solved(p)'
<1>1. p \in DOMAIN loc /\ loc[p] \in Local /\ p \in Request /\ loc[p].picks = {}
  BY DEF IInv, TypeOK, Started, Solved, ResolveNone
<1>2. PICK r \in loc[p].todo :
        /\ loc' = [loc EXCEPT ![p].todo = @ \ {r}, ![p].required = @ + MinRequired[r],
                              ![p].gaps = IF MinRequired[r] > 0 THEN @ \cup {r} ELSE @]
        /\ Goto(p, IF loc[p].todo = {r} THEN "complete" ELSE "resolve")
  BY DEF ResolveNone
<1>3. r \in Role /\ MinRequired[r] \in Nat /\ MaxAllowed[r] \in Nat
  BY <1>1, <1>2, SchedulingAssumption DEF Local
<1>4. Cardinality({}) = 0
  BY FS_EmptySet
<1>5. /\ loc'[p].todo = loc[p].todo \ {r}
      /\ loc'[p].picks = {r} \X {}
      /\ loc'[p].gaps = IF Cardinality({}) < MinRequired[r] THEN loc[p].gaps \cup {r} ELSE loc[p].gaps
  BY <1>1, <1>2, <1>3, <1>4 DEF Local
<1>6. pc[p] = "resolve" /\ UNCHANGED <<asg, run>>
      /\ pc'[p] = IF loc[p].todo = {r} THEN "complete" ELSE "resolve"
  BY <1>1, <1>2 DEF ResolveNone, tables, Goto, IInv, TypeOK
<1>7. Cardinality({}) <= MaxAllowed[r]
  BY <1>3, <1>4
<1>. QED
  BY <1>5, <1>6, <1>7, SolvedAfterRole

LEMMA SolvedAfterResolve ==
    ASSUME IInv, NEW p \in DOMAIN run, Solved(p), Resolve(p)
    PROVE  Solved(p)'
<1>1. p \in DOMAIN loc /\ loc[p] \in Local /\ p \in Request
  BY DEF IInv, TypeOK, Started
<1>2. PICK r \in loc[p].todo : \E winners \in SUBSET Candidates(r, loc[p].taken) :
        /\ Cardinality(winners) = FillCount(r, Cardinality(Candidates(r, loc[p].taken)))
        /\ loc' = [loc EXCEPT ![p].todo = @ \ {r}, ![p].required = @ + MinRequired[r],
                              ![p].gaps = IF FillCount(r, Cardinality(Candidates(r, loc[p].taken)))
                                               < MinRequired[r] THEN @ \cup {r} ELSE @,
                              ![p].picks = {r} \X winners]
  BY Zenon DEF Resolve
<1>3. PICK winners \in SUBSET Candidates(r, loc[p].taken) :
        /\ Cardinality(winners) = FillCount(r, Cardinality(Candidates(r, loc[p].taken)))
        /\ loc' = [loc EXCEPT ![p].todo = @ \ {r}, ![p].required = @ + MinRequired[r],
                              ![p].gaps = IF FillCount(r, Cardinality(Candidates(r, loc[p].taken)))
                                               < MinRequired[r] THEN @ \cup {r} ELSE @,
                              ![p].picks = {r} \X winners]
  BY <1>2
<1>4. r \in Role /\ winners \in SUBSET Volunteer
  BY <1>1, <1>2, <1>3, CandidatesAreVolunteers DEF Local
<1>5. Cardinality(winners) <= MaxAllowed[r]
  <2>1. Cardinality(Candidates(r, loc[p].taken)) \in Nat
    BY <1>4, SchedulingAssumption, CandidatesAreVolunteers, FS_Subset, FS_CardinalityType
  <2>. QED
    BY <1>3, <1>4, <2>1, FillBound
<1>6. /\ loc'[p].todo = loc[p].todo \ {r}
      /\ loc'[p].picks = {r} \X winners
      /\ loc'[p].gaps = IF Cardinality(winners) < MinRequired[r] THEN loc[p].gaps \cup {r} ELSE loc[p].gaps
  <2>. DEFINE fill == FillCount(r, Cardinality(Candidates(r, loc[p].taken)))
              won == {r} \X winners
  <2>1. /\ loc' = [loc EXCEPT ![p].todo = @ \ {r}, ![p].required = @ + MinRequired[r],
                              ![p].gaps = IF fill < MinRequired[r] THEN @ \cup {r} ELSE @,
                              ![p].picks = won]
        /\ Cardinality(winners) = fill
    BY <1>3, Zenon
  <2>. HIDE DEF fill, won
  <2>2. /\ loc'[p].todo = loc[p].todo \ {r}
        /\ loc'[p].picks = won
        /\ loc'[p].gaps = IF fill < MinRequired[r] THEN loc[p].gaps \cup {r} ELSE loc[p].gaps
    BY <1>1, <2>1 DEF Local
  <2>. QED
    BY <2>1, <2>2 DEF won
<1>7. pc[p] = "resolve" /\ UNCHANGED <<asg, run>> /\ pc'[p] = "insert"
  BY <1>1 DEF Resolve, tables, Goto, IInv, TypeOK
<1>. QED
  BY <1>4, <1>5, <1>6, <1>7, SolvedAfterRole

LEMMA SolveFitsNext ==
    ASSUME IInv, KindsOfCalls, Fresh, RowsNumbered, SolveFits, Next
    PROVE  SolveFits'
<1>. USE DEF IInv
<1>. SUFFICES ASSUME NEW p \in DOMAIN run', pc'[p] \in Solving
              PROVE  Solved(p)'
  BY DEF SolveFits, Solved
<1>1. p \in Request /\ p \in DOMAIN loc'
  BY TypeNext, StartedNext DEF TypeOK, Started
<1>2. CASE CreateRun(p)
  BY <1>1, <1>2, SolvedAfterCreate
<1>3. CASE CompleteRun(p)
  <2>1. pc'[p] = "done"
    BY <1>1, <1>3 DEF CompleteRun, End, Goto, TypeOK
  <2>. QED
    BY <2>1 DEF Solving
<1>4. CASE ~CreateRun(p) /\ ~CompleteRun(p)
  <2>1. p \in DOMAIN run /\ run'[p] = run[p]
    BY <1>4, RunRowStays
  <2>2. p \in DOMAIN loc /\ pc[p] # "create"
    BY <1>1, <2>1 DEF Started
  <2>3. CASE loc'[p] = loc[p] /\ pc'[p] = pc[p]
    <3>1. ~Insert(p)
      <4>1. Insert(p) => loc'[p].made = loc[p].made + 1
        BY <1>1, MadeFrame DEF RequestStep, SolveStep
      <4>2. loc[p].made \in Nat
        BY <2>2 DEF TypeOK, Local
      <4>. QED
        BY <2>3, <4>1, <4>2
    <3>2. \A r : RowsFor(p, r)' = RowsFor(p, r)
      BY <2>1, <3>1, OwnRowsStay
    <3>3. \A r : Due(p, r)' = Due(p, r) /\ PicksFor(p, r)' = PicksFor(p, r)
      BY <2>3, <3>2 DEF Due, PicksFor
    <3>4. Solved(p)
      BY <2>1, <2>3 DEF SolveFits, Solved
    <3>5. RolesOf(run[p].service)' = RolesOf(run[p].service)
      BY <2>1 DEF RolesOf
    <3>. QED
      BY <2>3, <3>2, <3>3, <3>4, <3>5, SolvedStays DEF Solved
  <2>4. CASE RequestStep(p) \/ Abort(p)
    <3>1. pc[p] \in Solving
      BY <1>1, <2>4, StepFrame
    <3>2. Solved(p)
      BY <2>1, <3>1 DEF SolveFits, Solved
    <3>3. Insert(p) \/ Resolve(p) \/ ResolveNone(p)
      <4>1. ASSUME NEW out \in {"done", "failed"}, End(p, out)
            PROVE  FALSE
        <5>1. pc'[p] = out
          BY <1>1, <4>1 DEF End, Goto, TypeOK
        <5>. QED
          BY <5>1 DEF Solving
      <4>2. ~ReplaceStep(p)
        BY <3>1 DEF ReplaceStep, ListTaken, ListTakenGone, FindReplacement, FindReplacementNone,
           Place, PlaceThrows, Notify, Solving
      <4>. QED
        BY <1>4, <2>4, <4>1, <4>2 DEF RequestStep, SolveStep, CreateRunThrows, InsertThrows,
           CompleteRunThrows, Abort, Throw
    <3>. QED
      BY <2>1, <3>2, <3>3, SolvedAfterInsert, SolvedAfterResolve, SolvedAfterResolveNone
  <2>. QED
    BY <1>1, <2>2, <2>3, <2>4, Calls
<1>. QED
  BY <1>2, <1>3, <1>4

LEMMA SolverFillNext ==
    ASSUME IInv, KindsOfCalls, Fresh, RowsNumbered, SolveFits, SolverFill, Next
    PROVE  SolverFill'
<1>. USE DEF IInv
<1>. SUFFICES ASSUME NEW p \in DOMAIN run', NEW r \in RolesOf(run[p].service)'
              PROVE  Cardinality(RowsFor(p, r)') <= MaxAllowed[r]
  BY DEF SolverFill
<1>1. MaxAllowed[r] \in Nat
  BY SchedulingAssumption DEF RolesOf
<1>2. p \in Request /\ p \in DOMAIN loc'
  BY TypeNext, StartedNext DEF TypeOK, Started
<1>3. CASE pc'[p] \in Solving
  <2>1. Due(p, r)' <= MaxAllowed[r]
    BY <1>3, SolveFitsNext DEF SolveFits
  <2>2. IsFiniteSet(RowsFor(p, r)') /\ IsFiniteSet(PicksFor(p, r)')
    <3>1. loc'[p] \in Local
      BY <1>2, TypeNext DEF TypeOK
    <3>2. RowsOf(p)' = Ids(p, loc'[p].made) /\ loc'[p].made \in Nat
      BY <3>1, RowsNumberedNext DEF RowsNumbered, Local
    <3>3. IsFiniteSet(RowsOf(p)')
      BY <3>2, NumberedFinite
    <3>4. PicksFor(p, r)' \in SUBSET ({r} \X Volunteer)
      BY <3>1 DEF PicksFor, Local
    <3>5. RowsFor(p, r)' \subseteq RowsOf(p)'
      BY DEF RowsFor
    <3>. QED
      BY <3>3, <3>4, <3>5, WinnersFinite, FS_Subset
  <2>3. Due(p, r)' = Cardinality(RowsFor(p, r)') + Cardinality(PicksFor(p, r)')
    BY DEF Due
  <2>. QED
    BY <1>1, <2>1, <2>2, <2>3, FS_CardinalityType
<1>4. CASE pc'[p] \notin Solving
  <2>1. ~CreateRun(p) /\ ~Insert(p)
    BY <1>2, <1>4 DEF CreateRun, Insert, Goto, Solving, TypeOK
  <2>2. p \in DOMAIN run /\ run'[p].service = run[p].service
    BY <2>1, RunsKept
  <2>3. RowsFor(p, r)' = RowsFor(p, r)
    BY <2>1, <2>2, OwnRowsStay
  <2>. QED
    BY <2>2, <2>3 DEF SolverFill, RolesOf
<1>. QED
  BY <1>3, <1>4

LEMMA ReportedNext ==
    ASSUME IInv, KindsOfCalls, RowsNumbered, SolveFits, Reported, Next
    PROVE  Reported'
<1>. USE DEF IInv
<1>. SUFFICES ASSUME NEW p \in DOMAIN run', run'[p].status = "COMPLETED"
              PROVE  /\ pc'[p] = "done" /\ run'[p].filled = loc'[p].made
                     /\ run'[p].gaps = {r \in RolesOf(run'[p].service) :
                                          Cardinality(RowsFor(p, r)') < MinRequired[r]}
  BY DEF Reported, RolesOf
<1>1. p \in Request /\ p \in DOMAIN loc'
  BY TypeNext, StartedNext DEF TypeOK, Started
<1>2. ~CreateRun(p)
  BY DEF CreateRun, Inserted
<1>3. p \in DOMAIN run /\ run'[p].service = run[p].service
  BY <1>2, RunsKept
<1>4. p \in DOMAIN loc /\ loc[p] \in Local /\ run[p] \in RunRow
  BY <1>1, <1>3 DEF Started, TypeOK
<1>5. ASSUME ~Insert(p)
      PROVE  \A r : RowsFor(p, r)' = RowsFor(p, r)
  BY <1>3, <1>5, OwnRowsStay
<1>6. CASE CompleteRun(p)
  <2>1. /\ pc[p] = "complete"
        /\ run'[p].filled = loc[p].made /\ run'[p].gaps = loc[p].gaps
        /\ pc'[p] = "done" /\ loc'[p].made = loc[p].made
    BY <1>1, <1>3, <1>4, <1>6 DEF CompleteRun, End, Goto, TypeOK, Local, RunRow
  <2>2. Solved(p) /\ loc[p].picks = {} /\ loc[p].todo = {}
    BY <1>3, <2>1 DEF SolveFits, Solved, Solving
  <2>3. ASSUME NEW r
        PROVE  Due(p, r) = Cardinality(RowsFor(p, r)')
    <3>1. PicksFor(p, r) = {} /\ IsFiniteSet(RowsFor(p, r))
      BY <1>3, <2>2, RowsCounted DEF PicksFor
    <3>2. RowsFor(p, r)' = RowsFor(p, r)
      BY <1>5, <2>1 DEF Insert
    <3>. QED
      BY <3>1, <3>2, FS_EmptySet, FS_CardinalityType DEF Due
  <2>4. loc[p].gaps = {r \in RolesOf(run[p].service) : Cardinality(RowsFor(p, r)') < MinRequired[r]}
    BY <2>2, <2>3 DEF Solved
  <2>. QED
    BY <1>3, <2>1, <2>4
<1>7. CASE ~CompleteRun(p)
  <2>1. run'[p] = run[p]
    BY <1>2, <1>7, RunRowStays
  <2>2. pc[p] = "done" /\ run[p].filled = loc[p].made
        /\ run[p].gaps = {r \in RolesOf(run[p].service) : Cardinality(RowsFor(p, r)) < MinRequired[r]}
    BY <1>3, <2>1 DEF Reported
  <2>3. loc'[p] = loc[p] /\ pc'[p] = pc[p]
    BY <1>1, <1>4, <2>2, Calls, StepInFlight DEF InFlight, Solving, Replacing
  <2>4. \A r : RowsFor(p, r)' = RowsFor(p, r)
    BY <1>5, <2>2 DEF Insert
  <2>. QED
    BY <2>1, <2>2, <2>3, <2>4
<1>. QED
  BY <1>6, <1>7

\* ReplacementFits, for one call and the row it is for.
ReplacesFor(p, a) ==
    /\ a \in DOMAIN asg
    /\ loc[p].target = {a}
    /\ asg[a].run = loc[p].run /\ asg[a].declined
    /\ loc[p].todo \subseteq {asg[a].role}
    /\ \A pick \in loc[p].picks : pick[1] = asg[a].role
    /\ \A b \in RowsOf(p) : asg[b].role = asg[a].role

LEMMA ReplacementNext ==
    ASSUME IInv, KindsOfCalls, RowsNumbered, ReplacementFits, Next
    PROVE  ReplacementFits'
<1>. USE DEF IInv
<1>. SUFFICES ASSUME NEW q \in DOMAIN loc', loc'[q].target # {}
              PROVE  /\ loc'[q].made <= 1 /\ (pc'[q] \in {"list", "find", "place"} => loc'[q].made = 0)
                     /\ loc'[q].run \in DOMAIN run' => \E a : ReplacesFor(q, a)'
  BY DEF ReplacementFits, ReplacesFor, RowsOf
<1>1. CASE q \notin DOMAIN loc
  <2>1. PICK a \in DOMAIN asg :
          /\ pc'[q] = "list" /\ asg' = [asg EXCEPT ![a].declined = TRUE]
          /\ loc'[q].run = asg[a].run /\ loc'[q].target = {a} /\ loc'[q].todo = {asg[a].role}
    BY <1>1, Arrivals
  <2>2. loc'[q].picks = {} /\ loc'[q].made = 0 /\ pc[q] = "idle"
    BY <1>1, Arrivals
  <2>3. RowsOf(q)' = {}
    <3>1. DOMAIN asg' = DOMAIN asg
      BY <2>1
    <3>. QED
      BY <2>2, <3>1 DEF RowsOf, Started
  <2>4. asg[a] \in AsgRow
    BY DEF TypeOK
  <2>5. /\ a \in DOMAIN asg' /\ asg'[a].run = asg[a].run /\ asg'[a].role = asg[a].role
        /\ asg'[a].declined
    BY <2>1, <2>4 DEF AsgRow
  <2>6. ReplacesFor(q, a)'
    BY <2>1, <2>2, <2>3, <2>5 DEF ReplacesFor
  <2>. QED
    BY <2>2, <2>6
<1>2. CASE q \in DOMAIN loc
  <2>1. q \in Request /\ loc[q] \in Local
    BY <1>2 DEF TypeOK
  <2>2. /\ loc'[q].target = loc[q].target /\ loc'[q].run = loc[q].run
        /\ loc'[q].todo \subseteq loc[q].todo
    BY <1>2, Calls, StepFrame
  <2>3. loc[q].made <= 1 /\ (pc[q] \in {"list", "find", "place"} => loc[q].made = 0)
    BY <1>2, <2>2 DEF ReplacementFits
  <2>4. ~Insert(q)
    BY <1>2, <2>2 DEF Insert, KindsOfCalls, Solving
  <2>5. loc'[q].made <= 1 /\ (pc'[q] \in {"list", "find", "place"} => loc'[q].made = 0)
    <3>1. CASE loc'[q] = loc[q] /\ pc'[q] = pc[q]
      BY <2>3, <3>1
    <3>2. CASE Place(q)
      <4>1. pc'[q] = "notify" /\ pc[q] = "place"
        BY <2>1, <3>2 DEF Place, Goto, TypeOK
      <4>2. loc'[q].made = loc[q].made + 1
        BY <2>1, <3>2, MadeFrame DEF RequestStep, ReplaceStep
      <4>. QED
        BY <2>3, <4>1, <4>2
    <3>3. CASE (RequestStep(q) \/ Abort(q)) /\ ~Place(q)
      <4>1. loc'[q].made = loc[q].made
        BY <2>1, <2>4, <3>3, MadeFrame
      <4>2. pc'[q] \in {"list", "find", "place"} => pc[q] \in {"list", "find", "place"}
        <5>1. ~SolveStep(q)
          BY <1>2, <2>2 DEF SolveStep, CreateRun, CreateRunThrows, Resolve, ResolveNone, Insert,
             InsertThrows, CompleteRun, CompleteRunThrows, KindsOfCalls, Solving
        <5>2. ReplaceStep(q) => pc[q] \in {"list", "find", "place", "notify"}
          BY DEF ReplaceStep, ListTaken, ListTakenGone, FindReplacement, FindReplacementNone,
             Place, PlaceThrows, Notify
        <5>3. Notify(q) \/ Abort(q) => pc'[q] \in {"done", "failed"}
          BY <2>1 DEF Notify, Abort, Throw, Answer, End, Goto, TypeOK
        <5>4. ReplaceStep(q) /\ pc[q] = "notify" => Notify(q)
          BY DEF ReplaceStep, ListTaken, ListTakenGone, FindReplacement, FindReplacementNone,
             Place, PlaceThrows
        <5>. QED
          BY <3>3, <5>1, <5>2, <5>3, <5>4 DEF RequestStep
      <4>. QED
        BY <2>3, <4>1, <4>2
    <3>. QED
      BY <1>2, <3>1, <3>2, <3>3, Calls
  <2>6. ASSUME loc'[q].run \in DOMAIN run'
        PROVE  \E a : ReplacesFor(q, a)'
    <3>1. loc[q].run \in DOMAIN run
      <4>1. pc[q] # "create"
        BY <1>2, <2>2 DEF KindsOfCalls, Solving
      <4>2. pc[loc[q].run] # "create"
        BY <1>2, <4>1 DEF LocalsFit
      <4>. QED
        BY <2>2, <2>6, <4>2, RunsKept
    <3>2. PICK a : ReplacesFor(q, a)
      BY <1>2, <2>2, <3>1 DEF ReplacementFits, ReplacesFor
    <3>3. /\ a \in DOMAIN asg' /\ asg'[a].run = asg[a].run /\ asg'[a].role = asg[a].role
          /\ asg'[a].declined
      BY <2>2, <2>6, <3>2, RowsStay DEF ReplacesFor
    <3>4. \A pick \in loc'[q].picks : pick[1] = asg[a].role
      <4>1. CASE loc'[q] = loc[q]
        BY <3>2, <4>1 DEF ReplacesFor
      <4>2. CASE RequestStep(q) \/ Abort(q)
        BY <2>1, <3>2, <4>2, PicksFrame DEF ReplacesFor
      <4>. QED
        BY <1>2, <4>1, <4>2, Calls
    <3>5. ASSUME NEW b \in RowsOf(q)'
          PROVE  asg'[b].role = asg[a].role
      <4>1. b \in DOMAIN asg' /\ b[1] = q
        BY <3>5 DEF RowsOf
      <4>2. CASE b \in DOMAIN asg /\ asg'[b].role = asg[b].role
        BY <3>2, <4>1, <4>2 DEF ReplacesFor, RowsOf
      <4>3. ASSUME NEW p \in DOMAIN loc, NEW pick \in loc[p].picks, b = <<p, loc[p].made>>,
                   asg'[b].role = pick[1]
            PROVE  asg'[b].role = asg[a].role
        BY <3>2, <4>1, <4>3 DEF ReplacesFor
      <4>. QED
        BY <4>1, <4>2, <4>3, NewRow
    <3>. QED
      BY <2>2, <3>2, <3>3, <3>4, <3>5 DEF ReplacesFor
  <2>. QED
    BY <2>5, <2>6
<1>. QED
  BY <1>1, <1>2

-----------------------------------------------------------------------------
LEMMA CInvInit == Init => CInv /\ NotReplacedByDecliner
<1>. SUFFICES ASSUME Init
              PROVE  CInv /\ NotReplacedByDecliner
  OBVIOUS
<1>1. DOMAIN loc = {} /\ DOMAIN asg = {} /\ DOMAIN run = {}
  BY DEF Init, EmptyTable
<1>2. FiniteTables
  BY <1>1, FS_EmptySet DEF FiniteTables
<1>. QED
  BY <1>1, <1>2 DEF CInv, KindsOfCalls, DeclinerTaken, Fresh, RowsNumbered, SolveFits, SolverFill,
     Reported, ReplacementFits, NotReplacedByDecliner

LEMMA CInvNext ==
    IInv /\ CInv /\ NotReplacedByDecliner /\ [Next]_vars => CInv' /\ NotReplacedByDecliner'
<1>1. ASSUME IInv, CInv, NotReplacedByDecliner, Next
      PROVE  CInv' /\ NotReplacedByDecliner'
  <2>1. KindsOfCalls' /\ DeclinerTaken' /\ NotReplacedByDecliner' /\ Fresh' /\ FiniteTables'
    BY <1>1, KindsNext, DeclinerNext, NotReplacedNext, FreshNext, FiniteNext DEF IInv, CInv
  <2>2. RowsNumbered' /\ SolveFits' /\ SolverFill' /\ Reported' /\ ReplacementFits'
    BY <1>1, RowsNumberedNext, SolveFitsNext, SolverFillNext, ReportedNext, ReplacementNext
    DEF IInv, CInv
  <2>. QED
    BY <2>1, <2>2 DEF CInv
<1>2. ASSUME IInv, CInv, NotReplacedByDecliner, UNCHANGED vars
      PROVE  CInv' /\ NotReplacedByDecliner'
  <2>. UNCHANGED <<services, active, available, run, latest, asg, pc, loc, met>>
    BY <1>2 DEF vars
  <2>1. \A p, r : RowsOf(p)' = RowsOf(p) /\ RowsFor(p, r)' = RowsFor(p, r)
                  /\ PicksFor(p, r)' = PicksFor(p, r) /\ Due(p, r)' = Due(p, r)
    BY DEF RowsOf, RowsFor, PicksFor, Due
  <2>2. KindsOfCalls' /\ DeclinerTaken' /\ NotReplacedByDecliner' /\ Fresh' /\ FiniteTables'
    BY <1>2 DEF CInv, KindsOfCalls, DeclinerTaken, Fresh, FiniteTables, NotReplacedByDecliner, RolesOf
  <2>3. RowsNumbered' /\ SolverFill' /\ Reported' /\ ReplacementFits'
    BY <1>2, <2>1 DEF CInv, RowsNumbered, SolverFill, Reported, ReplacementFits, RolesOf
  <2>4. SolveFits'
    <3>1. \A p, r : Due(p, r)' = Due(p, r) /\ RolesOf(run[p].service)' = RolesOf(run[p].service)
      BY <2>1 DEF RolesOf
    <3>. QED
      BY <1>2, <2>1, <3>1 DEF CInv, SolveFits
  <2>. QED
    BY <2>2, <2>3, <2>4 DEF CInv
<1>. QED
  BY <1>1, <1>2

\* The counts of rows and calls behind the figures of a run, in every reachable state.
THEOREM CountsInductive == Spec => [](CInv /\ NotReplacedByDecliner)
BY CInvInit, CInvNext, Inductive, PTL DEF Spec

\* Whoever declines is never the winner that the same call goes on to place.
THEOREM DeclinerStaysOut == Spec => []NotReplacedByDecliner
BY CountsInductive, PTL

\* The coverage and the gaps a completed run reports are those of the rows its
\* request inserted, whatever other calls, edits, declines and overrides did to the
\* tables meanwhile.
THEOREM ReportsItsRows == Spec => []CoverageIsExact
<1>1. IInv /\ CInv => CoverageIsExact
  <2>. SUFFICES ASSUME IInv, CInv, NEW p \in DOMAIN run, run[p].status = "COMPLETED"
                PROVE  /\ run[p].filled = Cardinality(RowsOf(p))
                       /\ run[p].gaps = {r \in RolesOf(run[p].service) :
                                           Cardinality(RowsFor(p, r)) < MinRequired[r]}
    BY DEF CoverageIsExact
  <2>. QED
    BY RowsCounted DEF CInv, IInv, Reported
<1>. QED
  BY <1>1, Inductive, CountsInductive, PTL

\* The rows of role r in run q, declined or not.
AllRows(q, r) == {a \in DOMAIN asg : asg[a].run = q /\ asg[a].role = r}

\* Rows of a run that its own request did not insert are one for each decline
\* call that placed a replacement.
LEMMA ReplacementsCounted ==
    ASSUME IInv, CInv, NEW q \in DOMAIN run, NEW r
    PROVE  /\ IsFiniteSet(Placed(q, r)) /\ IsFiniteSet(AllRows(q, r))
           /\ Cardinality(AllRows(q, r) \ RowsFor(q, r)) <= Cardinality(Placed(q, r))
<1>. USE DEF CInv, IInv
<1>1. IsFiniteSet(Placed(q, r)) /\ IsFiniteSet(AllRows(q, r))
  BY FS_Subset DEF FiniteTables, Placed, AllRows
<1>. DEFINE Others == AllRows(q, r) \ RowsFor(q, r)
            caller == [a \in Others |-> a[1]]
<1>2. ASSUME NEW a \in Others
      PROVE  a[1] \in Placed(q, r) /\ a = <<a[1], 0>>
  <2>1. a \in DOMAIN asg /\ asg[a].run = q /\ asg[a].role = r /\ a[1] # q
    BY <1>2 DEF AllRows, RowsFor, RowsOf
  <2>2. a[1] \in DOMAIN loc /\ a \in Request \X Nat
    BY <2>1 DEF Started, TypeOK, AsgId
  <2>3. loc[a[1]].run = q /\ a[2] < loc[a[1]].made
    BY <2>1 DEF RowsNumbered
  <2>4. loc[a[1]].target # {}
    BY <2>1, <2>2, <2>3 DEF KindsOfCalls
  <2>5. loc[a[1]].made <= 1 /\ loc[a[1]].made \in Nat
    BY <2>2, <2>4 DEF ReplacementFits, TypeOK, Local
  <2>6. loc[a[1]].made = 1 /\ a = <<a[1], 0>>
    BY <2>2, <2>3, <2>5
  <2>7. PICK b \in DOMAIN asg : loc[a[1]].target = {b} /\ \A x \in RowsOf(a[1]) : asg[x].role = asg[b].role
    BY <2>2, <2>3, <2>4 DEF ReplacementFits
  <2>8. asg[b].role = r
    BY <2>1, <2>7 DEF RowsOf
  <2>9. \A x \in loc[a[1]].target : asg[x].role = r
    BY <2>7, <2>8
  <2>. QED
    BY <2>2, <2>3, <2>4, <2>6, <2>9 DEF Placed
<1>3. caller \in Injection(Others, Placed(q, r))
  BY <1>2 DEF Injection, IsInjective
<1>. HIDE DEF Others, caller
<1>4. Cardinality(Others) <= Cardinality(Placed(q, r))
  BY <1>1, <1>3, FS_Injection
<1>. QED
  BY <1>1, <1>4 DEF Others

\* The rows that decline calls were for are declined, so they are not live.
LEMMA VacatedApart ==
    ASSUME IInv, CInv, NEW q \in DOMAIN run, NEW r
    PROVE  /\ LiveRows(q, r) \cup Vacated(q, r) \subseteq AllRows(q, r)
           /\ LiveRows(q, r) \cap Vacated(q, r) = {}
<1>1. ASSUME NEW a \in Vacated(q, r)
      PROVE  a \in AllRows(q, r) /\ asg[a].declined
  <2>1. PICK p \in Placed(q, r) : a \in loc[p].target
    BY <1>1 DEF Vacated
  <2>2. PICK b \in DOMAIN asg : loc[p].target = {b} /\ asg[b].run = loc[p].run /\ asg[b].declined
    BY <2>1 DEF Placed, CInv, ReplacementFits
  <2>. QED
    BY <2>1, <2>2 DEF Placed, AllRows
<1>. QED
  BY <1>1 DEF LiveRows, AllRows

\* A role holds more live rows than maxAllowed only by the replacements placed
\* for a row that already had one.
THEOREM OverfillOnlyByRepeats == Spec => []OverfillNeedsRepeatedDecline
<1>1. IInv /\ CInv => OverfillNeedsRepeatedDecline
  <2>. SUFFICES ASSUME IInv, CInv, NEW q \in DOMAIN run, NEW r \in RolesOf(run[q].service)
                PROVE  Cardinality(LiveRows(q, r)) + Cardinality(Vacated(q, r))
                         <= MaxAllowed[r] + Cardinality(Placed(q, r))
    BY DEF OverfillNeedsRepeatedDecline
  <2>. DEFINE all == AllRows(q, r)
              own == RowsFor(q, r)
  <2>1. IsFiniteSet(all) /\ IsFiniteSet(own)
    BY ReplacementsCounted, RowsCounted DEF IInv, CInv
  <2>2. Cardinality(own) <= MaxAllowed[r] /\ MaxAllowed[r] \in Nat
    BY SchedulingAssumption DEF CInv, SolverFill, RolesOf
  <2>3. Cardinality(all \ own) <= Cardinality(Placed(q, r)) /\ Cardinality(Placed(q, r)) \in Nat
    BY ReplacementsCounted, FS_CardinalityType
  <2>4. Cardinality(all \cap own) <= Cardinality(own) /\ Cardinality(all \cap own) \in Nat
    BY <2>1, FS_Intersection, FS_CardinalityType
  <2>5. Cardinality(all \ own) = Cardinality(all) - Cardinality(all \cap own)
    BY <2>1, FS_Difference
  <2>6. IsFiniteSet(LiveRows(q, r)) /\ IsFiniteSet(Vacated(q, r))
    BY <2>1, VacatedApart, FS_Subset
  <2>7. Cardinality(LiveRows(q, r) \cup Vacated(q, r)) <= Cardinality(all)
    BY <2>1, VacatedApart, FS_Subset
  <2>8. Cardinality(LiveRows(q, r) \cup Vacated(q, r))
          = Cardinality(LiveRows(q, r)) + Cardinality(Vacated(q, r))
    <3>1. LiveRows(q, r) \cap Vacated(q, r) = {} /\ Cardinality({}) = 0
      BY VacatedApart, FS_EmptySet
    <3>2. Cardinality(LiveRows(q, r) \cup Vacated(q, r))
            = Cardinality(LiveRows(q, r)) + Cardinality(Vacated(q, r)) - 0
      BY <2>6, <3>1, FS_Union
    <3>. QED
      BY <2>6, <3>2, FS_CardinalityType
  <2>9. Cardinality(all) \in Nat /\ Cardinality(own) \in Nat
        /\ Cardinality(LiveRows(q, r)) \in Nat /\ Cardinality(Vacated(q, r)) \in Nat
    BY <2>1, <2>6, FS_CardinalityType
  <2>. HIDE DEF all, own
  <2>. QED
    BY <2>2, <2>3, <2>4, <2>5, <2>7, <2>8, <2>9
<1>. QED
  BY <1>1, Inductive, CountsInductive, PTL
=============================================================================
