--------------------------- MODULE LiveTasksProofs ---------------------------
(***************************************************************************)
(* Proofs about LiveTasks, for any pages, tasks and requests.               *)
(***************************************************************************)
EXTENDS LiveTasks, TLAPS, SequenceTheorems

\* A request has local variables once it has arrived.
Started == DOMAIN loc = {p \in Request : pc[p] # "idle"}

\* Rows never lose a revision, and go only with their service.
Known ==
    \A p \in DOMAIN loc :
        /\ loc[p].task \in DOMAIN rows => loc[p].revision <= rows[loc[p].task]
        /\ loc[p].task \notin DOMAIN rows => ServiceOf[loc[p].task] \notin services
        /\ (pc[p] \in {"emit", "answered", "done"} /\ loc[p].revision = 0)
               => ServiceOf[loc[p].task] \notin services

\* What a load has read is not newer than the rows.
SnapshotsFit ==
    \A g \in Page : \A id \in DOMAIN loads[g] : \A t \in DOMAIN loads[g][id].tasks :
        IF t \in DOMAIN rows THEN loads[g][id].tasks[t] <= rows[t]
                             ELSE ServiceOf[t] \notin services

\* A page's load after its own call starts when the call is over.
LoadAfterCall ==
    \A g \in Page : \A p \in DOMAIN loads[g] \cap Request : pc[p] = "done"

\* A service was cancelled under an update of one of its tasks.
Cancelled ==
    \E p \in DOMAIN loc : /\ loc[p].revision = 0
                          /\ pc[p] \in {"answered", "done", "failed"}
                          /\ ServiceOf[loc[p].task] \notin services

NullsHaveCause ==
    \A g \in Page :
        (socket[g] = "crashed" \/ \E i \in DOMAIN inbox[g] : inbox[g][i] = NullEvent)
            => Cancelled

\* An event of task t.
About(e, t) == e # NullEvent /\ e.task = t

\* Page g shows the current row of t, or that row is still to come and is the
\* last of t to come.
Current(g, t) ==
    \/ \E p \in Telling(Shows[g]) : loc[p].task = t /\ loc[p].revision = rows[t]
    \/ \E i \in DOMAIN inbox[g] :
           /\ inbox[g][i] = [task |-> t, revision |-> rows[t]]
           /\ \A j \in DOMAIN inbox[g] : j > i => ~About(inbox[g][j], t)
    \/ /\ view[g][t] = rows[t]
       /\ \A i \in DOMAIN inbox[g] : ~About(inbox[g][i], t)

Follows(g) ==
    /\ socket[g] = "joined"
    /\ Shows[g] \in services =>
           /\ DOMAIN view[g] = DOMAIN TasksOf(Shows[g])
           /\ \A t \in DOMAIN view[g] : Current(g, t)

SyncedFollow == \A g \in Page : synced[g] => Follows(g)

IInv ==
    /\ TypeOK
    /\ Started
    /\ Known
    /\ SnapshotsFit
    /\ OwnChangeIsLoaded
    /\ LoadAfterCall
    /\ NullsHaveCause
    /\ SyncedFollow

-----------------------------------------------------------------------------
(* Tables. *)

LEMMA InsertedTable ==
    ASSUME NEW x, IsTable(x), NEW t \in Task, NEW n \in Nat
    PROVE  /\ IsTable(Inserted(x, t, n))
           /\ DOMAIN Inserted(x, t, n) = DOMAIN x \cup {t}
           /\ Inserted(x, t, n)[t] = n
           /\ \A u \in DOMAIN x : u # t => Inserted(x, t, n)[u] = x[u]
BY DEF IsTable, Inserted

LEMMA BumpedTable ==
    ASSUME NEW x, IsTable(x), NEW t \in DOMAIN x
    PROVE  /\ IsTable([x EXCEPT ![t] = @ + 1])
           /\ DOMAIN [x EXCEPT ![t] = @ + 1] = DOMAIN x
           /\ [x EXCEPT ![t] = @ + 1][t] = x[t] + 1
           /\ \A u \in DOMAIN x : u # t => [x EXCEPT ![t] = @ + 1][u] = x[u]
BY DEF IsTable

LEMMA KeptTable ==
    ASSUME NEW x, IsTable(x), NEW S \in SUBSET DOMAIN x
    PROVE  /\ IsTable(Kept(x, S))
           /\ DOMAIN Kept(x, S) = S
           /\ \A u \in S : Kept(x, S)[u] = x[u]
BY DEF IsTable, Kept

LEMMA TasksOfTable ==
    ASSUME IsTable(rows), NEW s
    PROVE  /\ IsTable(TasksOf(s))
           /\ DOMAIN TasksOf(s) = {t \in DOMAIN rows : ServiceOf[t] = s}
           /\ \A t \in DOMAIN TasksOf(s) : TasksOf(s)[t] = rows[t]
BY KeptTable DEF TasksOf

LEMMA AskedLoad == IsLoad(Asked) /\ Asked.tasks = EmptyTable /\ ~Asked.read
                   /\ IsTable(EmptyTable) /\ DOMAIN EmptyTable = {}
BY DEF Asked, IsLoad, IsTable, EmptyTable

-----------------------------------------------------------------------------
(* Types. *)

LEMMA TypeInit == Init => TypeOK
<1>. SUFFICES ASSUME Init PROVE TypeOK
  OBVIOUS
<1>1. IsTable(rows) /\ services \subseteq Service
  BY LiveTasksAssumption DEF Init, IsTable
<1>2. \A g \in Page : IsTable(view[g])
  BY AskedLoad DEF Init
<1>3. \A g \in Page : /\ DOMAIN loads[g] \subseteq LoadId
                      /\ \A id \in DOMAIN loads[g] : IsLoad(loads[g][id])
  BY AskedLoad DEF Init, LoadId
<1>4. DOMAIN loc = {} /\ drops \in 0 .. MaxDrops
  BY LiveTasksAssumption DEF Init, EmptyTable
<1>. QED
  BY <1>1, <1>2, <1>3, <1>4 DEF Init, TypeOK

LEMMA TypeRequest ==
    ASSUME TypeOK, NEW p \in Request, p \in DOMAIN loc, RequestStep(p) \/ Abort(p)
    PROVE  TypeOK'
<1>0. loc[p] \in Local
  BY DEF TypeOK
<1>1. CASE Update(p)
  <2>1. IsTable(rows')
    BY <1>1, BumpedTable DEF Update, TypeOK
  <2>2. rows[loc[p].task] + 1 \in Nat
    BY <1>1 DEF Update, TypeOK, IsTable
  <2>3. DOMAIN loc' = DOMAIN loc /\ \A q \in DOMAIN loc : loc'[q] \in Local
    BY <1>1, <1>0, <2>2 DEF Update, TypeOK, Local
  <2>. QED
    BY <1>1, <2>1, <2>3 DEF Update, TypeOK, Goto
<1>2. CASE UpdateGone(p)
  BY <1>2 DEF UpdateGone, TypeOK, Goto
<1>3. CASE Emit(p)
  <2>1. EventOf(p) \in Event \cup {NullEvent}
    BY <1>0 DEF EventOf, Event, Local
  <2>2. inbox' \in [Page -> Seq(Event \cup {NullEvent})]
    BY <1>3, <2>1 DEF Emit, TypeOK
  <2>3. \A g \in Page : inbox'[g] # <<>> => socket[g] = "joined"
    BY <1>3 DEF Emit, TypeOK
  <2>4. synced' \in [Page -> BOOLEAN]
    BY <1>3 DEF Emit, TypeOK, Unsynced
  <2>. QED
    BY <1>3, <2>2, <2>3, <2>4 DEF Emit, TypeOK, Goto
<1>4. CASE Answer(p)
  <2>1. DOMAIN loads' = Page
    BY <1>4 DEF Answer
  <2>2. ASSUME NEW g \in Page
        PROVE  /\ DOMAIN loads'[g] \subseteq LoadId
               /\ \A id \in DOMAIN loads'[g] : IsLoad(loads'[g][id])
    BY <1>4, AskedLoad DEF Answer, TypeOK, Inserted, LoadId
  <2>. QED
    BY <1>4, <2>1, <2>2 DEF Answer, TypeOK, Goto
<1>5. CASE Abort(p)
  <2>1. synced' \in [Page -> BOOLEAN]
    BY <1>5 DEF Abort, TypeOK, Unsynced
  <2>. QED
    BY <1>5, <2>1 DEF Abort, TypeOK, Goto
<1>. QED
  BY <1>1, <1>2, <1>3, <1>4, <1>5 DEF RequestStep

LEMMA TypeArrive ==
    ASSUME TypeOK, NEW p \in Request, NEW by \in Page \cup {Elsewhere}, NEW t \in Task,
           Patch(p, by, t) \/ Create(p, by, t)
    PROVE  TypeOK'
<1>1. CASE Patch(p, by, t)
  <2>1. DOMAIN loc' \subseteq Request /\ \A q \in DOMAIN loc' : loc'[q] \in Local
    BY <1>1 DEF Patch, TypeOK, Inserted, Local
  <2>. QED
    BY <1>1, <2>1 DEF Patch, TypeOK, Goto
<1>2. CASE Create(p, by, t)
  <2>1. DOMAIN loc' \subseteq Request /\ \A q \in DOMAIN loc' : loc'[q] \in Local
    BY <1>2 DEF Create, TypeOK, Inserted, Local
  <2>2. IsTable(rows')
    BY <1>2, InsertedTable DEF Create, TypeOK
  <2>3. synced' \in [Page -> BOOLEAN]
    BY <1>2 DEF Create, TypeOK, Unsynced
  <2>. QED
    BY <1>2, <2>1, <2>2, <2>3 DEF Create, TypeOK, Goto
<1>. QED
  BY <1>1, <1>2

LEMMA TypeSocket ==
    ASSUME TypeOK, NEW g \in Page, SocketStep(g)
    PROVE  TypeOK'
<1>1. CASE Connect(g) \/ ConnectRefused(g)
  BY <1>1 DEF Connect, ConnectRefused, TypeOK
<1>2. CASE Join(g)
  <2>1. (Quiet(g) /\ view[g] = TasksOf(Shows[g])) \in BOOLEAN
    OBVIOUS
  <2>2. synced' \in [Page -> BOOLEAN]
    BY <1>2, <2>1, Zenon DEF Join, TypeOK
  <2>. QED
    BY <1>2, <2>2 DEF Join, TypeOK
<1>3. CASE JoinRefused(g)
  BY <1>3 DEF JoinRefused, TypeOK
<1>4. CASE Drop(g)
  BY <1>4, LiveTasksAssumption DEF Drop, TypeOK
<1>5. CASE Deliver(g)
  <2>1. Head(inbox[g]) \in Event \cup {NullEvent} /\ Tail(inbox[g]) \in Seq(Event \cup {NullEvent})
    BY <1>5 DEF Deliver, TypeOK
  <2>2. DOMAIN view' = Page /\ \A h \in Page : IsTable(view'[h])
    <3>1. CASE Head(inbox[g]) # NullEvent /\ Head(inbox[g]).task \in DOMAIN view[g]
      <4>1. Head(inbox[g]).task \in Task /\ Head(inbox[g]).revision \in Nat
        BY <2>1, <3>1 DEF Event
      <4>2. IsTable(Inserted(view[g], Head(inbox[g]).task, Head(inbox[g]).revision))
        BY <4>1, InsertedTable DEF TypeOK
      <4>. QED
        BY <1>5, <3>1, <4>2 DEF Deliver, TypeOK
    <3>2. CASE ~(Head(inbox[g]) # NullEvent /\ Head(inbox[g]).task \in DOMAIN view[g])
      BY <1>5, <3>2 DEF Deliver, TypeOK
    <3>. QED
      BY <3>1, <3>2
  <2>3. inbox' = [inbox EXCEPT ![g] = Tail(inbox[g])]
    BY <1>5 DEF Deliver
  <2>4. inbox' \in [Page -> Seq(Event \cup {NullEvent})]
    BY <2>1, <2>3 DEF TypeOK
  <2>5. \A h \in Page : inbox'[h] # <<>> => socket[h] = "joined"
    BY <1>5, <2>3 DEF Deliver, TypeOK
  <2>. QED
    BY <1>5, <2>2, <2>4, <2>5 DEF Deliver, TypeOK
<1>6. CASE DeliverNull(g)
  BY <1>6, AskedLoad DEF DeliverNull, TypeOK
<1>. QED
  BY <1>1, <1>2, <1>3, <1>4, <1>5, <1>6 DEF SocketStep, Receive

LEMMA TypeLoads ==
    ASSUME TypeOK, NEW g \in Page, NEW id,
           \/ id \in Refresh /\ CheckinRecorded(g, id)
           \/ id \in DOMAIN loads[g] /\ (ReadTasks(g, id) \/ ShowTasks(g, id) \/ LoadFails(g, id))
    PROVE  TypeOK'
<1>1. CASE id \in Refresh /\ CheckinRecorded(g, id)
  BY <1>1, AskedLoad DEF CheckinRecorded, TypeOK, Inserted, LoadId
<1>2. CASE id \in DOMAIN loads[g] /\ ReadTasks(g, id)
  <2>. DEFINE l == [read |-> TRUE, tasks |-> TasksOf(Shows[g])]
  <2>1. IsLoad(l)
    BY TasksOfTable DEF TypeOK, IsLoad
  <2>2. loads' = [loads EXCEPT ![g] = Inserted(loads[g], id, l)]
    BY <1>2 DEF ReadTasks
  <2>. HIDE DEF l
  <2>3. DOMAIN loads' = Page
    BY <2>2 DEF TypeOK
  <2>4. ASSUME NEW h \in Page
        PROVE  /\ DOMAIN loads'[h] \subseteq LoadId
               /\ \A x \in DOMAIN loads'[h] : IsLoad(loads'[h][x])
    <3>1. loads'[h] = IF h = g THEN Inserted(loads[g], id, l) ELSE loads[h]
      BY <2>2 DEF TypeOK
    <3>. QED
      BY <1>2, <2>1, <3>1 DEF TypeOK, Inserted
  <2>. QED
    BY <1>2, <2>3, <2>4 DEF ReadTasks, TypeOK
<1>3. CASE id \in DOMAIN loads[g] /\ ShowTasks(g, id)
  <2>1. IsTable(loads[g][id].tasks)
    BY <1>3 DEF TypeOK, IsLoad
  <2>2. DOMAIN view' = Page /\ \A h \in Page : IsTable(view'[h])
    BY <1>3, <2>1 DEF ShowTasks, TypeOK
  <2>. DEFINE b == \/ /\ socket[g] = "joined"
                      /\ Quiet(g)
                      /\ loads[g][id].tasks = TasksOf(Shows[g])
                   \/ synced[g] /\ NotOlder(loads[g][id].tasks, view[g])
  <2>3. synced' = [synced EXCEPT ![g] = b]
    BY <1>3, Zenon DEF ShowTasks
  <2>4. b \in BOOLEAN
    OBVIOUS
  <2>. HIDE DEF b
  <2>5. synced' \in [Page -> BOOLEAN]
    BY <2>3, <2>4 DEF TypeOK
  <2>. QED
    BY <1>3, <2>2, <2>5 DEF ShowTasks, TypeOK, Kept
<1>4. CASE id \in DOMAIN loads[g] /\ LoadFails(g, id)
  BY <1>4 DEF LoadFails, TypeOK, Kept
<1>. QED
  BY <1>1, <1>2, <1>3, <1>4

LEMMA TypeTables ==
    ASSUME TypeOK, \/ \E t \in Photographed : AddPhoto(t)
                   \/ \E s \in Cancellable : Cancel(s)
    PROVE  TypeOK'
<1>1. ASSUME NEW t \in Photographed, AddPhoto(t) PROVE TypeOK'
  <2>1. IsTable(rows')
    BY <1>1, BumpedTable DEF AddPhoto, TypeOK
  <2>2. synced' \in [Page -> BOOLEAN]
    BY <1>1 DEF AddPhoto, TypeOK, Unsynced
  <2>. QED
    BY <1>1, <2>1, <2>2 DEF AddPhoto, TypeOK
<1>2. ASSUME NEW s \in Cancellable, Cancel(s) PROVE TypeOK'
  <2>1. IsTable(rows')
    BY <1>2, KeptTable DEF Cancel, TypeOK
  <2>. QED
    BY <1>2, <2>1 DEF Cancel, TypeOK
<1>. QED
  BY <1>1, <1>2

LEMMA TypeStep == ASSUME TypeOK, Started, [Next]_vars PROVE TypeOK'
<1>1. CASE UNCHANGED vars
  BY <1>1 DEF vars, TypeOK, Quiet
<1>2. ASSUME NEW p \in Request, RequestStep(p) \/ Abort(p) PROVE TypeOK'
  <2>1. pc[p] # "idle"
    BY <1>2 DEF RequestStep, Update, UpdateGone, Emit, Answer, Abort
  <2>. QED
    BY <1>2, <2>1, TypeRequest DEF Started
<1>. QED
  BY <1>1, <1>2, TypeArrive, TypeTables, TypeSocket, TypeLoads DEF Next

-----------------------------------------------------------------------------
(* How a step changes the tables and the requests. *)

RowsGrow ==
    /\ services' \subseteq services
    /\ \A t \in DOMAIN rows : IF t \in DOMAIN rows' THEN rows[t] <= rows'[t]
                                                 ELSE ServiceOf[t] \notin services'
    /\ \A t \in DOMAIN rows' \ DOMAIN rows : ServiceOf[t] \in services

LEMMA StepGrows == ASSUME TypeOK, Started, [Next]_vars PROVE RowsGrow
<1>0. IsTable(rows) /\ \A t \in DOMAIN rows : rows[t] \in Nat
  BY DEF TypeOK, IsTable
<1>1. ASSUME UNCHANGED <<services, rows>> PROVE RowsGrow
  BY <1>0, <1>1 DEF RowsGrow
<1>2. ASSUME NEW p \in Request, Update(p) PROVE RowsGrow
  <2>1. loc[p].task \in DOMAIN rows /\ rows' = [rows EXCEPT ![loc[p].task] = @ + 1]
        /\ services' = services
    BY <1>2 DEF Update
  <2>. DEFINE u == loc[p].task
  <2>2. /\ DOMAIN rows' = DOMAIN rows
        /\ rows'[u] = rows[u] + 1
        /\ \A t \in DOMAIN rows : t # u => rows'[t] = rows[t]
    BY <1>0, <2>1, BumpedTable
  <2>3. u \in DOMAIN rows /\ services' = services
    BY <2>1
  <2>. HIDE DEF u
  <2>4. \A t \in DOMAIN rows : rows[t] <= rows'[t]
    BY <1>0, <2>2, <2>3
  <2>. QED
    BY <2>2, <2>3, <2>4 DEF RowsGrow
<1>3. ASSUME NEW p \in Request, NEW by \in Page \cup {Elsewhere}, NEW t \in Task, Create(p, by, t)
      PROVE  RowsGrow
  <2>1. /\ t \notin DOMAIN rows /\ ServiceOf[t] \in services
        /\ rows' = Inserted(rows, t, 1) /\ services' = services
    BY <1>3 DEF Create
  <2>2. DOMAIN rows' = DOMAIN rows \cup {t} /\ \A u \in DOMAIN rows : rows'[u] = rows[u]
    BY <2>1 DEF Inserted
  <2>. QED
    BY <1>0, <2>1, <2>2 DEF RowsGrow
<1>4. ASSUME NEW t \in Photographed, AddPhoto(t) PROVE RowsGrow
  <2>1. t \in DOMAIN rows /\ rows' = [rows EXCEPT ![t] = @ + 1] /\ services' = services
    BY <1>4 DEF AddPhoto
  <2>. QED
    BY <1>0, <2>1, BumpedTable DEF RowsGrow
<1>5. ASSUME NEW s \in Cancellable, Cancel(s) PROVE RowsGrow
  <2>1. /\ services' = services \ {s}
        /\ rows' = Kept(rows, {t \in DOMAIN rows : ServiceOf[t] # s})
    BY <1>5 DEF Cancel
  <2>. QED
    BY <1>0, <2>1, KeptTable DEF RowsGrow
<1>6. CASE UNCHANGED vars
  BY <1>1, <1>6 DEF vars
<1>7. ASSUME NEW p \in Request, RequestStep(p) \/ Abort(p) PROVE RowsGrow
  BY <1>1, <1>2, <1>7 DEF RequestStep, UpdateGone, Emit, Answer, Abort
<1>8. ASSUME NEW p \in Request, NEW by \in Page \cup {Elsewhere}, NEW t \in Task,
             Patch(p, by, t) \/ Create(p, by, t)
      PROVE  RowsGrow
  BY <1>1, <1>3, <1>8 DEF Patch
<1>9. ASSUME NEW g \in Page,
             \/ SocketStep(g)
             \/ \E id \in Refresh : CheckinRecorded(g, id)
             \/ \E id \in DOMAIN loads[g] : ReadTasks(g, id) \/ ShowTasks(g, id) \/ LoadFails(g, id)
      PROVE  RowsGrow
  BY <1>1, <1>9 DEF SocketStep, Receive, Connect, ConnectRefused, Join, JoinRefused, Drop,
                    Deliver, DeliverNull, CheckinRecorded, ReadTasks, ShowTasks, LoadFails
<1>. QED
  BY <1>4, <1>5, <1>6, <1>7, <1>8, <1>9 DEF Next

\* Only arriving and updating changes local variables, and requests go forward.
RequestsGoOn ==
    /\ DOMAIN loc' = {p \in Request : pc'[p] # "idle"}
    /\ \A p \in DOMAIN loc :
        /\ p \in DOMAIN loc'
        /\ loc'[p].task = loc[p].task /\ loc'[p].by = loc[p].by
        /\ \/ pc'[p] = pc[p] /\ loc'[p] = loc[p]
           \/ pc[p] = "found" /\ Update(p) /\ pc'[p] = "emit"
           \/ pc[p] = "found" /\ UpdateGone(p) /\ pc'[p] = "emit" /\ loc'[p] = loc[p]
           \/ pc[p] = "emit" /\ Emit(p) /\ pc'[p] = "answered" /\ loc'[p] = loc[p]
           \/ pc[p] = "answered" /\ Answer(p) /\ pc'[p] = "done" /\ loc'[p] = loc[p]
           \/ pc[p] \in {"found", "emit", "answered"} /\ Abort(p)
                /\ pc'[p] = "failed" /\ loc'[p] = loc[p]
    /\ \A p \in DOMAIN loc' \ DOMAIN loc :
        \E by \in Page \cup {Elsewhere}, t \in Task : Patch(p, by, t) \/ Create(p, by, t)

LEMMA StepGoesOn == ASSUME TypeOK, Started, [Next]_vars PROVE RequestsGoOn
<1>1. ASSUME UNCHANGED <<pc, loc>> PROVE RequestsGoOn
  BY <1>1 DEF RequestsGoOn, Started
<1>2. ASSUME NEW p \in Request, RequestStep(p) \/ Abort(p) PROVE RequestsGoOn
  <2>0. p \in DOMAIN loc /\ loc[p] \in Local
    BY <1>2 DEF RequestStep, Update, UpdateGone, Emit, Answer, Abort, Started, TypeOK
  <2>1. CASE Update(p)
    <3>1. \A q \in DOMAIN loc \ {p} : loc'[q] = loc[q] /\ pc'[q] = pc[q]
      BY <2>1 DEF Update, Goto, TypeOK
    <3>2. pc[p] = "found" /\ pc'[p] = "emit" /\ loc'[p].task = loc[p].task
          /\ loc'[p].by = loc[p].by /\ DOMAIN loc' = DOMAIN loc
      BY <2>0, <2>1 DEF Update, Goto, TypeOK, Local
    <3>3. \A q \in Request : pc'[q] # "idle" <=> pc[q] # "idle"
      BY <2>1 DEF Update, Goto, TypeOK
    <3>. QED
      BY <2>1, <3>1, <3>2, <3>3 DEF RequestsGoOn, Started
  <2>2. CASE UpdateGone(p)
    BY <2>0, <2>2 DEF UpdateGone, Goto, TypeOK, RequestsGoOn, Started
  <2>3. CASE Emit(p)
    BY <2>0, <2>3 DEF Emit, Goto, TypeOK, RequestsGoOn, Started
  <2>4. CASE Answer(p)
    BY <2>0, <2>4 DEF Answer, Goto, TypeOK, RequestsGoOn, Started
  <2>5. CASE Abort(p)
    BY <2>0, <2>5 DEF Abort, Goto, TypeOK, RequestsGoOn, Started
  <2>. QED
    BY <1>2, <2>1, <2>2, <2>3, <2>4, <2>5 DEF RequestStep
<1>3. ASSUME NEW p \in Request, NEW by \in Page \cup {Elsewhere}, NEW t \in Task,
             Patch(p, by, t) \/ Create(p, by, t)
      PROVE  RequestsGoOn
  <2>1. /\ DOMAIN loc' = DOMAIN loc \cup {p}
        /\ p \notin DOMAIN loc
        /\ \A q \in DOMAIN loc : loc'[q] = loc[q]
        /\ \A q \in Request : pc'[q] = IF q = p THEN pc'[p] ELSE pc[q]
        /\ pc'[p] # "idle"
    BY <1>3 DEF Patch, Create, Goto, Inserted, TypeOK, Started
  <2>. QED
    BY <1>3, <2>1 DEF RequestsGoOn, Started
<1>4. ASSUME \/ UNCHANGED vars
             \/ \E t \in Photographed : AddPhoto(t)
             \/ \E s \in Cancellable : Cancel(s)
             \/ \E g \in Page :
                  \/ SocketStep(g)
                  \/ \E id \in Refresh : CheckinRecorded(g, id)
                  \/ \E id \in DOMAIN loads[g] :
                        ReadTasks(g, id) \/ ShowTasks(g, id) \/ LoadFails(g, id)
      PROVE  RequestsGoOn
  BY <1>1, <1>4 DEF vars, AddPhoto, Cancel, SocketStep, Receive, Connect, ConnectRefused, Join,
                    JoinRefused, Drop, Deliver, DeliverNull, CheckinRecorded, ReadTasks,
                    ShowTasks, LoadFails
<1>. QED
  BY <1>2, <1>3, <1>4 DEF Next

LEMMA KnownStep ==
    ASSUME TypeOK, Started, Known, RowsGrow, RequestsGoOn, IsTable(rows')
    PROVE  Known'
<1>0. /\ \A t \in DOMAIN rows : rows[t] \in Nat
      /\ \A t \in DOMAIN rows' : rows'[t] \in Nat
      /\ \A p \in DOMAIN loc : loc[p] \in Local /\ loc[p].revision \in Nat /\ p \in Request
  BY DEF TypeOK, IsTable, Local
<1>1. SUFFICES ASSUME NEW p \in DOMAIN loc'
      PROVE  /\ loc'[p].task \in DOMAIN rows' => loc'[p].revision <= rows'[loc'[p].task]
             /\ loc'[p].task \notin DOMAIN rows' => ServiceOf[loc'[p].task] \notin services'
             /\ (pc'[p] \in {"emit", "answered", "done"} /\ loc'[p].revision = 0)
                    => ServiceOf[loc'[p].task] \notin services'
  BY DEF Known
<1>2. CASE p \notin DOMAIN loc
  <2>1. PICK by \in Page \cup {Elsewhere}, t \in Task : Patch(p, by, t) \/ Create(p, by, t)
    BY <1>2 DEF RequestsGoOn
  <2>2. p \in Request
    BY DEF RequestsGoOn
  <2>3. CASE Patch(p, by, t)
    <3>1. loc'[p].task = t /\ loc'[p].revision = 0
      BY <2>3 DEF Patch, Inserted
    <3>2. t \in DOMAIN rows /\ rows' = rows /\ pc'[p] = "found"
      BY <2>2, <2>3 DEF Patch, Goto, TypeOK
    <3>. QED
      BY <1>0, <3>1, <3>2
  <2>4. CASE Create(p, by, t)
    <3>1. loc'[p].task = t /\ loc'[p].revision = 1
      BY <2>4 DEF Create, Inserted
    <3>2. rows' = Inserted(rows, t, 1)
      BY <2>4 DEF Create
    <3>3. t \in DOMAIN rows' /\ rows'[t] = 1
      BY <3>2 DEF Inserted
    <3>. QED
      BY <3>1, <3>3
  <2>. QED
    BY <2>1, <2>3, <2>4
<1>3. CASE p \in DOMAIN loc /\ Update(p)
  <2>1. /\ loc[p].task \in DOMAIN rows
        /\ rows' = [rows EXCEPT ![loc[p].task] = @ + 1]
        /\ loc' = [loc EXCEPT ![p].revision = rows[loc[p].task] + 1]
    BY <1>3 DEF Update
  <2>2. loc'[p].task = loc[p].task /\ loc'[p].revision = rows[loc[p].task] + 1
    BY <1>0, <1>3, <2>1 DEF Local
  <2>3. loc[p].task \in DOMAIN rows' /\ rows'[loc[p].task] = rows[loc[p].task] + 1
    BY <2>1, BumpedTable DEF TypeOK
  <2>. QED
    BY <1>0, <2>1, <2>2, <2>3
<1>4. CASE p \in DOMAIN loc /\ ~Update(p)
  <2>0. loc'[p] = loc[p]
    BY <1>4 DEF RequestsGoOn
  <2>1. loc[p].task \in DOMAIN rows' => loc[p].revision <= rows'[loc[p].task]
    BY <1>0, <1>4 DEF Known, RowsGrow
  <2>2. loc[p].task \notin DOMAIN rows' => ServiceOf[loc[p].task] \notin services'
    BY <1>4 DEF Known, RowsGrow
  <2>3. UpdateGone(p) => ServiceOf[loc[p].task] \notin services'
    BY <1>4 DEF UpdateGone, Known, RowsGrow
  <2>4. (pc'[p] \in {"emit", "answered", "done"} /\ loc[p].revision = 0 /\ ~UpdateGone(p))
            => ServiceOf[loc[p].task] \notin services'
    BY <1>4 DEF RequestsGoOn, Known, RowsGrow
  <2>. QED
    BY <2>0, <2>1, <2>2, <2>3, <2>4
<1>. QED
  BY <1>2, <1>3, <1>4

-----------------------------------------------------------------------------
(* The loads. *)

\* Loads in flight after a step: those before it, those asked for now, and the
\* one that has just read the tasks.
LoadsGoOn ==
    \A g \in Page : \A id \in DOMAIN loads'[g] :
        \/ id \in DOMAIN loads[g] /\ loads'[g][id] = loads[g][id]
        \/ loads'[g][id] = Asked /\ (id \in Request => pc'[id] = "done")
        \/ /\ id \in DOMAIN loads[g]
           /\ rows' = rows /\ loc' = loc /\ pc' = pc
           /\ loads'[g][id] = [read |-> TRUE, tasks |-> TasksOf(Shows[g])]

LEMMA StepLoads == ASSUME TypeOK, [Next]_vars PROVE LoadsGoOn
<1>1. ASSUME UNCHANGED loads PROVE LoadsGoOn
  BY <1>1 DEF LoadsGoOn
<1>2. ASSUME NEW p \in Request, Answer(p) PROVE LoadsGoOn
  BY <1>2 DEF Answer, Goto, TypeOK, LoadsGoOn, Inserted
<1>3. ASSUME NEW g \in Page, NEW id \in Refresh, CheckinRecorded(g, id) PROVE LoadsGoOn
  BY <1>3, LiveTasksAssumption DEF CheckinRecorded, TypeOK, LoadsGoOn, Inserted
<1>4. ASSUME NEW g \in Page, NEW id \in DOMAIN loads[g], ReadTasks(g, id) PROVE LoadsGoOn
  <2>. DEFINE l == [read |-> TRUE, tasks |-> TasksOf(Shows[g])]
  <2>1. loads' = [loads EXCEPT ![g] = Inserted(loads[g], id, l)]
        /\ rows' = rows /\ loc' = loc /\ pc' = pc
    BY <1>4 DEF ReadTasks
  <2>2. \A h \in Page : loads'[h] = IF h = g THEN Inserted(loads[g], id, l) ELSE loads[h]
    BY <2>1 DEF TypeOK
  <2>3. DOMAIN Inserted(loads[g], id, l) = DOMAIN loads[g]
    BY DEF Inserted
  <2>4. \A x \in DOMAIN loads[g] : Inserted(loads[g], id, l)[x] = IF x = id THEN l ELSE loads[g][x]
    BY DEF Inserted
  <2>. QED
    BY <2>1, <2>2, <2>3, <2>4 DEF LoadsGoOn
<1>5. ASSUME NEW g \in Page, NEW id \in DOMAIN loads[g], ShowTasks(g, id) \/ LoadFails(g, id)
      PROVE  LoadsGoOn
  <2>1. loads' = [loads EXCEPT ![g] = Kept(loads[g], DOMAIN loads[g] \ {id})]
    BY <1>5 DEF ShowTasks, LoadFails
  <2>. QED
    BY <2>1 DEF TypeOK, LoadsGoOn, Kept
<1>6. ASSUME NEW g \in Page, DeliverNull(g) PROVE LoadsGoOn
  BY <1>6, AskedLoad DEF DeliverNull, TypeOK, LoadsGoOn
<1>7. ASSUME NEW p \in Request, RequestStep(p) \/ Abort(p) PROVE LoadsGoOn
  BY <1>1, <1>2, <1>7 DEF RequestStep, Update, UpdateGone, Emit, Abort
<1>8. ASSUME \/ UNCHANGED vars
             \/ \E t \in Photographed : AddPhoto(t)
             \/ \E s \in Cancellable : Cancel(s)
             \/ \E p \in Request, by \in Page \cup {Elsewhere}, t \in Task :
                    Patch(p, by, t) \/ Create(p, by, t)
      PROVE  LoadsGoOn
  BY <1>1, <1>8 DEF vars, AddPhoto, Cancel, Patch, Create
<1>9. ASSUME NEW g \in Page, SocketStep(g) PROVE LoadsGoOn
  BY <1>1, <1>6, <1>9 DEF SocketStep, Receive, Connect, ConnectRefused, Join, JoinRefused,
                          Drop, Deliver
<1>. QED
  BY <1>3, <1>4, <1>5, <1>7, <1>8, <1>9 DEF Next

LEMMA SnapshotsStep ==
    ASSUME TypeOK, TypeOK', SnapshotsFit, RowsGrow, LoadsGoOn
    PROVE  SnapshotsFit'
<1>1. SUFFICES ASSUME NEW g \in Page, NEW id \in DOMAIN loads'[g],
                      NEW t \in DOMAIN loads'[g][id].tasks
               PROVE  IF t \in DOMAIN rows' THEN loads'[g][id].tasks[t] <= rows'[t]
                                             ELSE ServiceOf[t] \notin services'
  BY DEF SnapshotsFit
<1>2. /\ \A u \in DOMAIN rows : rows[u] \in Nat
      /\ \A u \in DOMAIN rows' : rows'[u] \in Nat
      /\ IsLoad(loads'[g][id])
  BY DEF TypeOK, IsTable
<1>3. loads'[g][id].tasks[t] \in Nat
  BY <1>2 DEF IsLoad, IsTable
<1>4. CASE id \in DOMAIN loads[g] /\ loads'[g][id] = loads[g][id]
  BY <1>2, <1>3, <1>4 DEF SnapshotsFit, RowsGrow
<1>5. CASE loads'[g][id] = Asked
  BY <1>5, AskedLoad
<1>6. CASE rows' = rows /\ loads'[g][id] = [read |-> TRUE, tasks |-> TasksOf(Shows[g])]
  <2>1. t \in DOMAIN TasksOf(Shows[g]) /\ loads'[g][id].tasks[t] = TasksOf(Shows[g])[t]
    BY <1>6
  <2>2. t \in DOMAIN rows /\ TasksOf(Shows[g])[t] = rows[t]
    BY <2>1, TasksOfTable DEF TypeOK
  <2>. QED
    BY <1>2, <1>6, <2>1, <2>2
<1>. QED
  BY <1>4, <1>5, <1>6 DEF LoadsGoOn

LEMMA OwnLoadsStep ==
    ASSUME TypeOK, TypeOK', Started, Known, LoadAfterCall, OwnChangeIsLoaded, RequestsGoOn, LoadsGoOn
    PROVE  LoadAfterCall' /\ OwnChangeIsLoaded'
<1>1. ASSUME NEW p \in Request, pc[p] = "done"
      PROVE  p \in DOMAIN loc /\ p \in DOMAIN loc' /\ loc'[p] = loc[p] /\ pc'[p] = "done"
  BY <1>1 DEF RequestsGoOn, Started
<1>2. ASSUME NEW g \in Page, NEW p \in DOMAIN loads'[g] \cap Request
      PROVE  /\ pc'[p] = "done"
             /\ (loads'[g][p].read /\ loc'[p].task \in DOMAIN loads'[g][p].tasks)
                    => loads'[g][p].tasks[loc'[p].task] >= loc'[p].revision
  <2>1. CASE p \in DOMAIN loads[g] /\ loads'[g][p] = loads[g][p]
    BY <1>1, <1>2, <2>1 DEF LoadAfterCall, OwnChangeIsLoaded
  <2>2. CASE loads'[g][p] = Asked /\ pc'[p] = "done"
    BY <2>2, AskedLoad
  <2>3. CASE /\ p \in DOMAIN loads[g]
             /\ rows' = rows /\ loc' = loc /\ pc' = pc
             /\ loads'[g][p] = [read |-> TRUE, tasks |-> TasksOf(Shows[g])]
    <3>1. pc[p] = "done" /\ p \in DOMAIN loc
      BY <1>1, <1>2, <2>3 DEF LoadAfterCall
    <3>2. ASSUME loc[p].task \in DOMAIN TasksOf(Shows[g])
          PROVE  TasksOf(Shows[g])[loc[p].task] >= loc[p].revision
      <4>1. loc[p].task \in DOMAIN rows /\ TasksOf(Shows[g])[loc[p].task] = rows[loc[p].task]
        BY <3>2 DEF TasksOf, Kept
      <4>2. rows[loc[p].task] \in Nat /\ loc[p].revision \in Nat
        BY <3>1, <4>1 DEF TypeOK, IsTable, Local
      <4>. QED
        BY <3>1, <4>1, <4>2 DEF Known
    <3>. QED
      BY <2>3, <3>1, <3>2
  <2>. QED
    BY <1>2, <2>1, <2>2, <2>3 DEF LoadsGoOn
<1>. QED
  BY <1>2 DEF LoadAfterCall, OwnChangeIsLoaded

-----------------------------------------------------------------------------
(* Events without a task. *)

LEMMA CancelledStays ==
    ASSUME RowsGrow, RequestsGoOn, Cancelled
    PROVE  Cancelled'
<1>1. PICK p \in DOMAIN loc : /\ loc[p].revision = 0
                              /\ pc[p] \in {"answered", "done", "failed"}
                              /\ ServiceOf[loc[p].task] \notin services
  BY DEF Cancelled
<1>2. p \in DOMAIN loc' /\ loc'[p] = loc[p] /\ pc'[p] \in {"answered", "done", "failed"}
  BY <1>1 DEF RequestsGoOn
<1>. QED
  BY <1>1, <1>2 DEF Cancelled, RowsGrow

LEMMA NullsStep ==
    ASSUME TypeOK, TypeOK', Started, Known, NullsHaveCause, RowsGrow, RequestsGoOn, [Next]_vars
    PROVE  NullsHaveCause'
<1>1. CASE Cancelled
  BY <1>1, CancelledStays DEF NullsHaveCause
<1>. SUFFICES ASSUME ~Cancelled,
                     NEW g \in Page,
                     \/ socket'[g] = "crashed"
                     \/ \E i \in DOMAIN inbox'[g] : inbox'[g][i] = NullEvent
              PROVE  Cancelled'
  BY <1>1 DEF NullsHaveCause
<1>2. \A h \in Page : socket[h] # "crashed" /\ \A i \in DOMAIN inbox[h] : inbox[h][i] # NullEvent
  BY DEF NullsHaveCause
<1>3. \A h \in Page : inbox[h] \in Seq(Event \cup {NullEvent})
  BY DEF TypeOK
<1>4. ASSUME UNCHANGED <<socket, inbox>> PROVE FALSE
  BY <1>2, <1>4
<1>5. ASSUME NEW p \in Request, Emit(p) PROVE Cancelled'
  <2>0. p \in DOMAIN loc /\ loc[p] \in Local /\ pc[p] = "emit"
    BY <1>5 DEF Emit, Started, TypeOK
  <2>1. socket'[g] # "crashed"
    BY <1>2, <1>5 DEF Emit
  <2>2. EventOf(p) = NullEvent
    <3>1. SUFFICES ASSUME EventOf(p) # NullEvent PROVE FALSE
      OBVIOUS
    <3>2. \A i \in DOMAIN Append(inbox[g], EventOf(p)) :
              Append(inbox[g], EventOf(p))[i] # NullEvent
      BY <1>2, <1>3, <3>1
    <3>. QED
      BY <1>2, <1>5, <2>1, <3>2 DEF Emit
  <2>3. loc[p].revision = 0
    BY <2>0, <2>2, LiveTasksAssumption DEF EventOf, Local
  <2>4. ServiceOf[loc[p].task] \notin services
    BY <2>0, <2>3 DEF Known
  <2>5. p \in DOMAIN loc' /\ loc' = loc /\ pc'[p] = "answered" /\ services' = services
    BY <1>5, <2>0 DEF Emit, Goto, TypeOK
  <2>. QED
    BY <2>0, <2>3, <2>4, <2>5 DEF Cancelled
<1>6. ASSUME NEW h \in Page, SocketStep(h) PROVE FALSE
  <2>1. ~DeliverNull(h)
    <3>1. ASSUME inbox[h] # <<>> PROVE Head(inbox[h]) # NullEvent
      BY <1>2, <1>3, <3>1
    <3>. QED
      BY <3>1 DEF DeliverNull
  <2>2. CASE Deliver(h)
    <3>1. \A i \in DOMAIN Tail(inbox[h]) : Tail(inbox[h])[i] # NullEvent
      BY <1>2, <1>3, <2>2 DEF Deliver
    <3>2. inbox' = [inbox EXCEPT ![h] = Tail(inbox[h])] /\ socket' = socket
      BY <2>2 DEF Deliver
    <3>3. inbox'[g] = IF g = h THEN Tail(inbox[h]) ELSE inbox[g]
      BY <3>2 DEF TypeOK
    <3>. QED
      BY <1>2, <3>1, <3>2, <3>3
  <2>3. CASE Drop(h)
    <3>1. socket' = [socket EXCEPT ![h] = "connecting"] /\ inbox' = [inbox EXCEPT ![h] = <<>>]
      BY <2>3 DEF Drop
    <3>2. socket'[g] # "crashed"
      BY <1>2, <3>1 DEF TypeOK
    <3>3. inbox'[g] = IF g = h THEN <<>> ELSE inbox[g]
      BY <3>1 DEF TypeOK
    <3>. QED
      BY <1>2, <3>2, <3>3
  <2>4. CASE Connect(h) \/ ConnectRefused(h) \/ Join(h) \/ JoinRefused(h)
    <3>1. inbox' = inbox /\ \E x \in {"connected", "closed", "joined", "outside"} :
                                socket' = [socket EXCEPT ![h] = x]
      BY <2>4 DEF Connect, ConnectRefused, Join, JoinRefused
    <3>2. socket'[g] # "crashed"
      BY <1>2, <3>1 DEF TypeOK
    <3>. QED
      BY <1>2, <3>1, <3>2
  <2>. QED
    BY <1>6, <2>1, <2>2, <2>3, <2>4 DEF SocketStep, Receive
<1>7. ASSUME NEW p \in Request, RequestStep(p) \/ Abort(p) PROVE Cancelled'
  BY <1>4, <1>5, <1>7 DEF RequestStep, Update, UpdateGone, Answer, Abort
<1>8. ASSUME \/ UNCHANGED vars
             \/ \E t \in Photographed : AddPhoto(t)
             \/ \E s \in Cancellable : Cancel(s)
             \/ \E p \in Request, by \in Page \cup {Elsewhere}, t \in Task :
                    Patch(p, by, t) \/ Create(p, by, t)
             \/ \E h \in Page :
                  \/ \E id \in Refresh : CheckinRecorded(h, id)
                  \/ \E id \in DOMAIN loads[h] :
                        ReadTasks(h, id) \/ ShowTasks(h, id) \/ LoadFails(h, id)
      PROVE  FALSE
  BY <1>4, <1>8 DEF vars, AddPhoto, Cancel, Patch, Create, CheckinRecorded, ReadTasks,
                    ShowTasks, LoadFails
<1>. QED
  BY <1>6, <1>7, <1>8 DEF Next

-----------------------------------------------------------------------------
(* What a synced page shows. *)

\* The tasks of service s are the same after the step, if s still exists.
SameTasks(s) ==
    s \in services' =>
        /\ s \in services
        /\ \A t \in Task : ServiceOf[t] = s =>
               /\ t \in DOMAIN rows' <=> t \in DOMAIN rows
               /\ t \in DOMAIN rows => rows'[t] = rows[t]

\* Requests that still have to tell the room about s are not affected.
SameTelling(s) ==
    \A p \in Telling(s) : p \in DOMAIN loc' /\ pc'[p] = "emit" /\ loc'[p] = loc[p]

LEMMA Unmoved ==
    ASSUME TypeOK, TypeOK', NEW g \in Page, Follows(g),
           socket'[g] = socket[g], view'[g] = view[g], inbox'[g] = inbox[g],
           SameTasks(Shows[g]), SameTelling(Shows[g])
    PROVE  Follows(g)'
<1>. SUFFICES ASSUME Shows[g] \in services'
              PROVE  /\ DOMAIN view'[g] = DOMAIN TasksOf(Shows[g])'
                     /\ \A t \in DOMAIN view'[g] : Current(g, t)'
  BY DEF Follows
<1>1. Shows[g] \in services
  BY DEF SameTasks
<1>2. DOMAIN rows \subseteq Task /\ DOMAIN rows' \subseteq Task
  BY DEF TypeOK, IsTable
<1>3. DOMAIN TasksOf(Shows[g]) = {t \in DOMAIN rows : ServiceOf[t] = Shows[g]}
  BY DEF TasksOf, Kept
<1>4. DOMAIN TasksOf(Shows[g])' = {t \in DOMAIN rows' : ServiceOf[t] = Shows[g]}
  BY DEF TasksOf, Kept
<1>5. DOMAIN TasksOf(Shows[g])' = DOMAIN TasksOf(Shows[g])
  BY <1>2, <1>3, <1>4 DEF SameTasks
<1>6. ASSUME NEW t \in DOMAIN view[g] PROVE Current(g, t)'
  <2>1. t \in DOMAIN rows /\ ServiceOf[t] = Shows[g] /\ t \in Task
    BY <1>1, <1>2, <1>3 DEF Follows
  <2>2. rows'[t] = rows[t]
    BY <2>1 DEF SameTasks
  <2>3. CASE \E p \in Telling(Shows[g]) : loc[p].task = t /\ loc[p].revision = rows[t]
    <3>1. PICK p \in Telling(Shows[g]) : loc[p].task = t /\ loc[p].revision = rows[t]
      BY <2>3
    <3>2. p \in DOMAIN loc' /\ pc'[p] = "emit" /\ loc'[p] = loc[p]
      BY DEF SameTelling
    <3>3. p \in Telling(Shows[g])'
      BY <2>1, <3>1, <3>2 DEF Telling
    <3>. QED
      BY <2>2, <3>1, <3>2, <3>3 DEF Current
  <2>4. CASE ~\E p \in Telling(Shows[g]) : loc[p].task = t /\ loc[p].revision = rows[t]
    <3>1. \/ \E i \in DOMAIN inbox[g] :
                /\ inbox[g][i] = [task |-> t, revision |-> rows[t]]
                /\ \A j \in DOMAIN inbox[g] : j > i => ~About(inbox[g][j], t)
          \/ /\ view[g][t] = rows[t]
             /\ \A i \in DOMAIN inbox[g] : ~About(inbox[g][i], t)
      BY <1>1, <2>4 DEF Follows, Current
    <3>. QED
      BY <2>2, <3>1 DEF Current, About
  <2>. QED
    BY <2>3, <2>4
<1>. QED
  BY <1>1, <1>5, <1>6 DEF Follows

\* Any step that only moves requests and tasks the page does not show.
LEMMA SyncedUnmoved ==
    ASSUME TypeOK, TypeOK', SyncedFollow,
           UNCHANGED <<socket, inbox, view>>,
           \A g \in Page : synced'[g] => synced[g] /\ SameTasks(Shows[g]) /\ SameTelling(Shows[g])
    PROVE  SyncedFollow'
BY Unmoved DEF SyncedFollow

LEMMA SyncedUpdate ==
    ASSUME TypeOK, TypeOK', Started, SyncedFollow, NEW p \in Request, Update(p)
    PROVE  SyncedFollow'
<1>. DEFINE t == loc[p].task
<1>1. /\ p \in DOMAIN loc /\ t \in Task /\ t \in DOMAIN rows /\ pc[p] = "found"
      /\ loc[p] \in Local
  BY DEF Update, Started, TypeOK, Local
<1>2. /\ DOMAIN rows' = DOMAIN rows
      /\ rows'[t] = rows[t] + 1
      /\ \A u \in DOMAIN rows : u # t => rows'[u] = rows[u]
  BY <1>1, BumpedTable DEF Update, TypeOK
<1>3. /\ DOMAIN loc' = DOMAIN loc
      /\ loc'[p].task = t /\ loc'[p].revision = rows[t] + 1
      /\ \A q \in DOMAIN loc : q # p => loc'[q] = loc[q]
  BY <1>1 DEF Update, TypeOK, Local
<1>4. pc'[p] = "emit" /\ \A q \in Request : q # p => pc'[q] = pc[q]
  BY DEF Update, Goto, TypeOK
<1>5. UNCHANGED <<services, socket, inbox, view, synced>>
  BY DEF Update
<1>. HIDE DEF t
<1>6. SUFFICES ASSUME NEW g \in Page, Follows(g) PROVE Follows(g)'
  BY <1>5 DEF SyncedFollow
<1>7. \A s : SameTelling(s)
  BY <1>1, <1>3, <1>4 DEF SameTelling, Telling, TypeOK
<1>8. CASE ServiceOf[t] # Shows[g]
  <2>1. SameTasks(Shows[g])
    BY <1>1, <1>2, <1>5, <1>8 DEF SameTasks
  <2>. QED
    BY <1>5, <1>7, <2>1, <1>6, Unmoved
<1>9. CASE ServiceOf[t] = Shows[g]
  <2>. SUFFICES ASSUME Shows[g] \in services
                PROVE  /\ DOMAIN view[g] = DOMAIN TasksOf(Shows[g])'
                       /\ \A u \in DOMAIN view[g] : Current(g, u)'
    BY <1>5, <1>6 DEF Follows
  <2>1. DOMAIN view[g] = DOMAIN TasksOf(Shows[g])'
    BY <1>2, <1>6 DEF Follows, TasksOf, Kept
  <2>2. ASSUME NEW u \in DOMAIN view[g] PROVE Current(g, u)'
    <3>1. u \in DOMAIN rows /\ Current(g, u)
      BY <1>6 DEF Follows, TasksOf, Kept
    <3>2. CASE u = t
      <4>1. p \in Telling(Shows[g])'
        BY <1>1, <1>3, <1>4, <1>9 DEF Telling
      <4>. QED
        BY <1>2, <1>3, <3>2, <4>1 DEF Current
    <3>3. CASE u # t
      <4>1. rows'[u] = rows[u]
        BY <1>2, <3>1, <3>3
      <4>2. CASE \E q \in Telling(Shows[g]) : loc[q].task = u /\ loc[q].revision = rows[u]
        <5>1. PICK q \in Telling(Shows[g]) : loc[q].task = u /\ loc[q].revision = rows[u]
          BY <4>2
        <5>2. q \in Telling(Shows[g])' /\ loc'[q] = loc[q]
          BY <1>7, <5>1 DEF SameTelling, Telling
        <5>. QED
          BY <4>1, <5>1, <5>2 DEF Current
      <4>3. CASE ~\E q \in Telling(Shows[g]) : loc[q].task = u /\ loc[q].revision = rows[u]
        <5>1. \/ \E i \in DOMAIN inbox[g] :
                    /\ inbox[g][i] = [task |-> u, revision |-> rows[u]]
                    /\ \A j \in DOMAIN inbox[g] : j > i => ~About(inbox[g][j], u)
              \/ /\ view[g][u] = rows[u]
                 /\ \A i \in DOMAIN inbox[g] : ~About(inbox[g][i], u)
          BY <3>1, <4>3 DEF Current
        <5>. QED
          BY <1>5, <4>1, <5>1 DEF Current, About
      <4>. QED
        BY <4>2, <4>3
    <3>. QED
      BY <3>2, <3>3
  <2>. QED
    BY <2>1, <2>2
<1>. QED
  BY <1>8, <1>9

LEMMA SyncedEmit ==
    ASSUME TypeOK, TypeOK', Started, Known, SyncedFollow, NEW p \in Request, Emit(p)
    PROVE  SyncedFollow'
<1>1. /\ p \in DOMAIN loc /\ pc[p] = "emit" /\ loc[p] \in Local
  BY DEF Emit, Started, TypeOK
<1>2. UNCHANGED <<services, rows, loc, socket, view>>
  BY DEF Emit
<1>3. \A q \in Request : q # p => pc'[q] = pc[q]
  BY DEF Emit, Goto, TypeOK
<1>4. SUFFICES ASSUME NEW g \in Page, synced'[g], Shows[g] \in services
               PROVE  /\ socket[g] = "joined"
                      /\ DOMAIN view[g] = DOMAIN TasksOf(Shows[g])
                      /\ \A t \in DOMAIN view[g] : Current(g, t)'
  <2>1. ASSUME NEW g \in Page, synced'[g] PROVE socket'[g] = "joined"
    <3>1. synced[g]
      BY <2>1 DEF Emit, Unsynced
    <3>. QED
      BY <1>2, <3>1 DEF SyncedFollow, Follows
  <2>2. ASSUME NEW g \in Page, synced'[g], Shows[g] \in services'
        PROVE  /\ DOMAIN view'[g] = DOMAIN TasksOf(Shows[g])'
               /\ \A t \in DOMAIN view'[g] : Current(g, t)'
    BY <1>2, <1>4, <2>2 DEF TasksOf, Kept
  <2>. QED
    BY <2>1, <2>2 DEF SyncedFollow, Follows
<1>5. Follows(g) /\ socket[g] = "joined"
  BY <1>4 DEF Emit, Unsynced, SyncedFollow, Follows
<1>6. Shows[g] = ServiceOf[loc[p].task] => ~ToldLate(p)
  BY <1>4 DEF Emit, Unsynced
<1>. DEFINE e == EventOf(p)
            box == inbox[g]
<1>7. inbox'[g] = Append(box, e) /\ box \in Seq(Event \cup {NullEvent}) /\ e \in Event \cup {NullEvent}
  BY <1>1, <1>5 DEF Emit, TypeOK, EventOf, Event, Local
<1>8. /\ DOMAIN inbox'[g] = DOMAIN box \cup {Len(box) + 1}
      /\ DOMAIN box = 1 .. Len(box)
      /\ Len(box) \in Nat
      /\ \A i \in DOMAIN box : inbox'[g][i] = box[i]
      /\ inbox'[g][Len(box) + 1] = e
  BY <1>7
<1>9. ASSUME NEW t \in DOMAIN view[g] PROVE Current(g, t)'
  <2>1. t \in DOMAIN rows /\ ServiceOf[t] = Shows[g] /\ Current(g, t)
    BY <1>4, <1>5 DEF Follows, TasksOf, Kept
  <2>2. loc[p].task = t => loc[p].revision # 0
    BY <1>1, <1>4, <2>1 DEF Known
  <2>3. e = NullEvent <=> loc[p].revision = 0
    BY <1>1, LiveTasksAssumption DEF EventOf, Local
  <2>4. e # NullEvent => e = [task |-> loc[p].task, revision |-> loc[p].revision]
    BY DEF EventOf
  <2>5. About(e, t) <=> loc[p].task = t
    BY <2>2, <2>3, <2>4 DEF About
  <2>6. ASSUME NEW q \in Telling(Shows[g]), q # p, loc[q].task = t, loc[q].revision = rows[t]
        PROVE  Current(g, t)'
    <3>1. q \in Telling(Shows[g])'
      BY <1>2, <1>3, <2>6 DEF Telling, TypeOK
    <3>. QED
      BY <1>2, <2>6, <3>1 DEF Current
  <2>. HIDE DEF e, box
  <2>7. CASE loc[p].task = t /\ loc[p].revision = rows[t]
    <3>1. inbox'[g][Len(box) + 1] = [task |-> t, revision |-> rows[t]]
      BY <1>8, <2>2, <2>3, <2>4, <2>7
    <3>2. \A j \in DOMAIN inbox'[g] : ~(j > Len(box) + 1)
      BY <1>8
    <3>3. Len(box) + 1 \in DOMAIN inbox'[g]
      BY <1>8
    <3>. QED
      BY <1>2, <3>1, <3>2, <3>3 DEF Current
  <2>8. CASE loc[p].task = t /\ loc[p].revision # rows[t]
    <3>1. PICK q \in Telling(Shows[g]) : loc[q].task = t /\ loc[q].revision = rows[t]
      BY <1>6, <2>1, <2>8 DEF ToldLate
    <3>. QED
      BY <2>6, <2>8, <3>1
  <2>9. CASE loc[p].task # t
    <3>1. CASE \E q \in Telling(Shows[g]) : loc[q].task = t /\ loc[q].revision = rows[t]
      BY <2>6, <2>9, <3>1
    <3>2. ASSUME NEW i \in DOMAIN box, box[i] = [task |-> t, revision |-> rows[t]],
                 \A j \in DOMAIN box : j > i => ~About(box[j], t)
          PROVE  Current(g, t)'
      <4>1. i \in DOMAIN inbox'[g] /\ inbox'[g][i] = [task |-> t, revision |-> rows'[t]]
        BY <1>2, <1>8, <3>2
      <4>2. \A j \in DOMAIN inbox'[g] : j > i => ~About(inbox'[g][j], t)
        BY <1>8, <2>5, <2>9, <3>2
      <4>. QED
        BY <4>1, <4>2 DEF Current, About
    <3>3. CASE view[g][t] = rows[t] /\ \A i \in DOMAIN box : ~About(box[i], t)
      <4>1. \A j \in DOMAIN inbox'[g] : ~About(inbox'[g][j], t)
        BY <1>8, <2>5, <2>9, <3>3
      <4>. QED
        BY <1>2, <3>3, <4>1 DEF Current, About
    <3>. QED
      BY <2>1, <3>1, <3>2, <3>3 DEF Current, box
  <2>. QED
    BY <2>7, <2>8, <2>9
<1>. QED
  BY <1>4, <1>5, <1>9 DEF Follows

LEMMA SyncedDeliver ==
    ASSUME TypeOK, TypeOK', SyncedFollow, NEW g \in Page, Deliver(g)
    PROVE  SyncedFollow'
<1>1. UNCHANGED <<services, rows, pc, loc, socket, synced>>
  BY DEF Deliver
<1>. DEFINE e == Head(inbox[g])
            box == inbox[g]
<1>2. /\ box \in Seq(Event \cup {NullEvent}) /\ box # <<>>
      /\ inbox' = [inbox EXCEPT ![g] = Tail(box)]
      /\ view' = IF e # NullEvent /\ e.task \in DOMAIN view[g]
                   THEN [view EXCEPT ![g] = Inserted(view[g], e.task, e.revision)] ELSE view
  BY DEF Deliver, TypeOK
<1>3. SameTasks(Shows[g]) /\ \A s : SameTasks(s) /\ SameTelling(s)
  BY <1>1 DEF SameTasks, SameTelling, Telling
<1>4. ASSUME NEW h \in Page, synced'[h] PROVE Follows(h)'
  <2>1. Follows(h)
    BY <1>1, <1>4 DEF SyncedFollow
  <2>2. CASE h # g
    <3>1. view'[h] = view[h] /\ inbox'[h] = inbox[h]
      BY <1>2, <2>2 DEF TypeOK
    <3>. QED
      BY <1>1, <1>3, <2>1, <3>1, Unmoved
  <2>3. CASE h = g
    <3>. SUFFICES ASSUME Shows[g] \in services
                  PROVE  /\ DOMAIN view'[g] = DOMAIN TasksOf(Shows[g])
                         /\ \A t \in DOMAIN view'[g] : Current(g, t)'
      BY <1>1, <2>1, <2>3 DEF Follows, TasksOf, Kept
    <3>1. /\ DOMAIN view'[g] = DOMAIN view[g]
          /\ \A t \in DOMAIN view[g] :
                view'[g][t] = IF e # NullEvent /\ e.task = t THEN e.revision ELSE view[g][t]
      <4>1. CASE e # NullEvent /\ e.task \in DOMAIN view[g]
        <5>1. view'[g] = Inserted(view[g], e.task, e.revision)
          BY <1>2, <4>1 DEF TypeOK
        <5>. QED
          BY <4>1, <5>1 DEF Inserted
      <4>2. CASE ~(e # NullEvent /\ e.task \in DOMAIN view[g])
        <5>1. view' = view
          BY <1>2, <4>2
        <5>. QED
          BY <4>2, <5>1
      <4>. QED
        BY <4>1, <4>2
    <3>2. inbox'[g] = Tail(box)
      BY <1>2 DEF TypeOK
    <3>3. /\ DOMAIN box = 1 .. Len(box) /\ Len(box) \in Nat /\ 1 \in DOMAIN box /\ e = box[1]
          /\ DOMAIN Tail(box) = 1 .. (Len(box) - 1)
          /\ \A i \in 1 .. (Len(box) - 1) : Tail(box)[i] = box[i + 1]
      BY <1>2
    <3>. HIDE DEF e, box
    <3>4. ASSUME NEW t \in DOMAIN view[g] PROVE Current(g, t)'
      <4>1. t \in DOMAIN rows /\ Current(g, t)
        BY <2>1, <2>3 DEF Follows, TasksOf, Kept
      <4>2. CASE \E q \in Telling(Shows[g]) : loc[q].task = t /\ loc[q].revision = rows[t]
        BY <1>1, <4>2 DEF Current, Telling
      <4>3. ASSUME NEW i \in DOMAIN box, box[i] = [task |-> t, revision |-> rows[t]],
                   \A j \in DOMAIN box : j > i => ~About(box[j], t)
            PROVE  Current(g, t)'
        <5>1. CASE i = 1
          <6>1. e # NullEvent
            <7>1. [task |-> t, revision |-> rows[t]] \in Event
              BY <4>1 DEF TypeOK, IsTable, Event
            <7>. QED
              BY <3>3, <4>3, <5>1, <7>1, LiveTasksAssumption DEF Event
          <6>2. view'[g][t] = rows[t]
            BY <3>1, <3>3, <4>3, <5>1, <6>1
          <6>3. \A j \in DOMAIN Tail(box) : ~About(Tail(box)[j], t)
            BY <3>3, <4>3, <5>1
          <6>. QED
            BY <1>1, <3>2, <6>2, <6>3 DEF Current, About
        <5>2. CASE i # 1
          <6>1. i - 1 \in DOMAIN Tail(box) /\ Tail(box)[i - 1] = box[i]
            BY <3>3, <5>2
          <6>2. \A j \in DOMAIN Tail(box) : j > i - 1 => ~About(Tail(box)[j], t)
            BY <3>3, <4>3
          <6>. QED
            BY <1>1, <3>2, <4>3, <6>1, <6>2 DEF Current, About
        <5>. QED
          BY <5>1, <5>2
      <4>4. CASE view[g][t] = rows[t] /\ \A i \in DOMAIN box : ~About(box[i], t)
        <5>1. ~About(e, t)
          BY <3>3, <4>4
        <5>2. view'[g][t] = rows[t]
          BY <3>1, <4>4, <5>1 DEF About
        <5>3. \A j \in DOMAIN Tail(box) : ~About(Tail(box)[j], t)
          BY <3>3, <4>4
        <5>. QED
          BY <1>1, <3>2, <5>2, <5>3 DEF Current, About
      <4>. QED
        BY <4>1, <4>2, <4>3, <4>4 DEF Current, box
    <3>. QED
      BY <2>1, <2>3, <3>1, <3>4 DEF Follows
  <2>. QED
    BY <2>2, <2>3
<1>. QED
  BY <1>4 DEF SyncedFollow

LEMMA SyncedRequest ==
    ASSUME TypeOK, TypeOK', Started, SyncedFollow, NEW p \in Request,
           UpdateGone(p) \/ Answer(p) \/ Abort(p)
    PROVE  SyncedFollow'
<1>1. UNCHANGED <<services, rows, loc, socket, inbox, view>>
  BY DEF UpdateGone, Answer, Abort
<1>2. \A q \in Request : q # p => pc'[q] = pc[q]
  BY DEF UpdateGone, Answer, Abort, Goto, TypeOK
<1>3. \A s : SameTasks(s)
  BY <1>1 DEF SameTasks
<1>4. ASSUME NEW g \in Page, synced'[g] PROVE synced[g] /\ SameTelling(Shows[g])
  <2>1. /\ synced[g]
        /\ pc[p] = "emit" => Shows[g] # ServiceOf[loc[p].task]
    BY <1>4 DEF UpdateGone, Answer, Abort, Unsynced
  <2>. QED
    BY <1>1, <1>2, <2>1 DEF SameTelling, Telling, TypeOK
<1>. QED
  BY <1>1, <1>3, <1>4, SyncedUnmoved

LEMMA SyncedArrive ==
    ASSUME TypeOK, TypeOK', Started, SyncedFollow, NEW p \in Request,
           NEW by \in Page \cup {Elsewhere}, NEW t \in Task,
           Patch(p, by, t) \/ Create(p, by, t)
    PROVE  SyncedFollow'
<1>1. UNCHANGED <<services, socket, inbox, view>>
  BY DEF Patch, Create
<1>2. /\ DOMAIN loc \subseteq DOMAIN loc' /\ p \notin DOMAIN loc
      /\ \A q \in DOMAIN loc : loc'[q] = loc[q] /\ pc'[q] = pc[q]
  BY DEF Patch, Create, Goto, Inserted, TypeOK, Started
<1>3. \A s : SameTelling(s)
  BY <1>2 DEF SameTelling, Telling
<1>4. ASSUME NEW g \in Page, synced'[g] PROVE synced[g] /\ SameTasks(Shows[g])
  <2>1. CASE Patch(p, by, t)
    BY <1>4, <2>1 DEF Patch, SameTasks
  <2>2. CASE Create(p, by, t)
    <3>1. synced[g] /\ Shows[g] # ServiceOf[t] /\ rows' = Inserted(rows, t, 1)
      BY <1>4, <2>2 DEF Create, Unsynced
    <3>. QED
      BY <1>1, <3>1 DEF SameTasks, Inserted
  <2>. QED
    BY <2>1, <2>2
<1>. QED
  BY <1>1, <1>3, <1>4, SyncedUnmoved

LEMMA SyncedTables ==
    ASSUME TypeOK, TypeOK', SyncedFollow,
           \/ \E t \in Photographed : AddPhoto(t)
           \/ \E s \in Cancellable : Cancel(s)
    PROVE  SyncedFollow'
<1>1. UNCHANGED <<pc, loc, socket, inbox, view>>
  BY DEF AddPhoto, Cancel
<1>2. \A s : SameTelling(s)
  BY <1>1 DEF SameTelling, Telling
<1>3. ASSUME NEW t \in Photographed, AddPhoto(t), NEW g \in Page, synced'[g]
      PROVE  synced[g] /\ SameTasks(Shows[g])
  <2>1. /\ synced[g] /\ Shows[g] # ServiceOf[t] /\ services' = services
        /\ t \in DOMAIN rows /\ rows' = [rows EXCEPT ![t] = @ + 1]
    BY <1>3 DEF AddPhoto, Unsynced
  <2>. QED
    BY <2>1 DEF SameTasks
<1>4. ASSUME NEW s \in Cancellable, Cancel(s), NEW g \in Page, synced'[g]
      PROVE  synced[g] /\ SameTasks(Shows[g])
  BY <1>4 DEF Cancel, SameTasks, Kept
<1>. QED
  BY <1>1, <1>2, <1>3, <1>4, SyncedUnmoved

\* A step of page g that leaves the tables and the requests alone.
LEMMA SyncedPage ==
    ASSUME TypeOK, TypeOK', SyncedFollow, NEW g \in Page,
           UNCHANGED <<services, rows, pc, loc>>,
           \A h \in Page : h # g => /\ socket'[h] = socket[h] /\ inbox'[h] = inbox[h]
                                    /\ view'[h] = view[h] /\ synced'[h] = synced[h],
           synced'[g] => Follows(g)'
    PROVE  SyncedFollow'
<1>1. \A s : SameTasks(s) /\ SameTelling(s)
  BY DEF SameTasks, SameTelling, Telling
<1>2. ASSUME NEW h \in Page, h # g, synced'[h] PROVE Follows(h)'
  BY <1>1, <1>2, Unmoved DEF SyncedFollow
<1>. QED
  BY <1>2 DEF SyncedFollow

\* A page that shows the rows as they are, with nothing on its way.
LEMMA LevelFollows ==
    ASSUME NEW g \in Page, UNCHANGED <<services, rows>>,
           socket'[g] = "joined", inbox'[g] = <<>>, view'[g] = TasksOf(Shows[g])
    PROVE  Follows(g)'
<1>1. TasksOf(Shows[g])' = TasksOf(Shows[g])
  BY DEF TasksOf, Kept
<1>2. ASSUME NEW t \in DOMAIN view'[g] PROVE Current(g, t)'
  <2>1. view'[g][t] = rows'[t]
    BY <1>2 DEF TasksOf, Kept
  <2>2. \A i \in DOMAIN inbox'[g] : ~About(inbox'[g][i], t)
    OBVIOUS
  <2>. QED
    BY <2>1, <2>2 DEF Current, About
<1>. QED
  BY <1>1, <1>2 DEF Follows

LEMMA SyncedSocket ==
    ASSUME TypeOK, TypeOK', SyncedFollow, NEW g \in Page, SocketStep(g)
    PROVE  SyncedFollow'
<1>1. CASE Connect(g) \/ ConnectRefused(g) \/ JoinRefused(g)
  <2>1. socket[g] # "joined" /\ UNCHANGED <<services, rows, pc, loc, inbox, view, synced>>
    BY <1>1 DEF Connect, ConnectRefused, JoinRefused
  <2>2. ~synced'[g]
    BY <2>1 DEF SyncedFollow, Follows
  <2>3. \A h \in Page : h # g => socket'[h] = socket[h]
    BY <1>1 DEF Connect, ConnectRefused, JoinRefused, TypeOK
  <2>. QED
    BY <2>1, <2>2, <2>3, SyncedPage
<1>2. CASE Join(g)
  <2>1. UNCHANGED <<services, rows, pc, loc, inbox, view>>
    BY <1>2 DEF Join
  <2>2. socket'[g] = "joined" /\ \A h \in Page : h # g => socket'[h] = socket[h]
    BY <1>2 DEF Join, TypeOK
  <2>. DEFINE b == Quiet(g) /\ view[g] = TasksOf(Shows[g])
  <2>3. synced' = [synced EXCEPT ![g] = b]
    BY <1>2, Zenon DEF Join
  <2>4. b => inbox[g] = <<>> /\ view[g] = TasksOf(Shows[g])
    BY DEF Quiet
  <2>. HIDE DEF b
  <2>5. synced'[g] = b /\ \A h \in Page : h # g => synced'[h] = synced[h]
    BY <2>3 DEF TypeOK
  <2>6. synced'[g] => Follows(g)'
    <3>. SUFFICES ASSUME synced'[g] PROVE Follows(g)'
      OBVIOUS
    <3>1. inbox'[g] = <<>> /\ view'[g] = TasksOf(Shows[g])
      BY <2>1, <2>4, <2>5
    <3>. QED
      BY <2>1, <2>2, <3>1, LevelFollows
  <2>. QED
    BY <2>1, <2>2, <2>5, <2>6, SyncedPage
<1>3. CASE Drop(g) \/ DeliverNull(g)
  <2>1. UNCHANGED <<services, rows, pc, loc, view>>
    BY <1>3 DEF Drop, DeliverNull
  <2>2. ~synced'[g]
    BY <1>3 DEF Drop, DeliverNull, TypeOK
  <2>3. \A h \in Page : h # g => /\ socket'[h] = socket[h] /\ inbox'[h] = inbox[h]
                                 /\ synced'[h] = synced[h]
    BY <1>3 DEF Drop, DeliverNull, TypeOK
  <2>. QED
    BY <2>1, <2>2, <2>3, SyncedPage
<1>4. CASE Deliver(g)
  BY <1>4, SyncedDeliver
<1>. QED
  BY <1>1, <1>2, <1>3, <1>4 DEF SocketStep, Receive

LEMMA SyncedShow ==
    ASSUME TypeOK, TypeOK', SyncedFollow, SnapshotsFit, NEW g \in Page,
           NEW id \in DOMAIN loads[g], ShowTasks(g, id)
    PROVE  SyncedFollow'
<1>. DEFINE new == loads[g][id].tasks
            level == socket[g] = "joined" /\ Quiet(g) /\ new = TasksOf(Shows[g])
            b == level \/ (synced[g] /\ NotOlder(new, view[g]))
<1>1. UNCHANGED <<services, rows, pc, loc, socket, inbox>>
  BY DEF ShowTasks
<1>2. view'[g] = new /\ \A h \in Page : h # g => view'[h] = view[h]
  BY DEF ShowTasks, TypeOK
<1>3. synced'[g] = b /\ \A h \in Page : h # g => synced'[h] = synced[h]
  <2>1. synced' = [synced EXCEPT ![g] = b]
    BY Zenon DEF ShowTasks
  <2>. HIDE DEF b
  <2>. QED
    BY <2>1 DEF TypeOK
<1>4. CASE level
  <2>1. inbox'[g] = <<>> /\ socket'[g] = "joined" /\ view'[g] = TasksOf(Shows[g])
    BY <1>1, <1>2, <1>4 DEF Quiet
  <2>2. Follows(g)'
    BY <1>1, <2>1, LevelFollows
  <2>. QED
    BY <1>1, <1>2, <1>3, <2>2, SyncedPage
<1>5. ASSUME synced[g], NotOlder(new, view[g]) PROVE Follows(g)'
  <2>. SUFFICES ASSUME Shows[g] \in services
                PROVE  /\ DOMAIN new = DOMAIN TasksOf(Shows[g])
                       /\ \A t \in DOMAIN new : Current(g, t)'
    BY <1>1, <1>2, <1>5 DEF SyncedFollow, Follows, TasksOf, Kept
  <2>1. Follows(g) /\ DOMAIN new = DOMAIN view[g]
    BY <1>5 DEF SyncedFollow, NotOlder
  <2>2. ASSUME NEW t \in DOMAIN new PROVE Current(g, t)'
    <3>1. t \in DOMAIN rows /\ Current(g, t)
      BY <2>1, <2>2 DEF Follows, TasksOf, Kept
    <3>2. view[g][t] <= new[t] /\ new[t] <= rows[t]
      BY <1>5, <2>1, <2>2, <3>1 DEF NotOlder, SnapshotsFit
    <3>3. view[g][t] \in Nat /\ new[t] \in Nat /\ rows[t] \in Nat
      BY <2>1, <2>2, <3>1 DEF TypeOK, IsTable, IsLoad
    <3>4. view[g][t] = rows[t] => new[t] = rows[t]
      BY <3>2, <3>3
    <3>5. \A q : q \in Telling(Shows[g])' <=> q \in Telling(Shows[g])
      BY <1>1 DEF Telling
    <3>. HIDE DEF new
    <3>6. view[g][t] = rows[t] => view'[g][t] = rows'[t]
      BY <1>1, <1>2, <3>4
    <3>. QED
      BY <1>1, <3>1, <3>5, <3>6 DEF Current, About
  <2>. QED
    BY <2>1, <2>2 DEF Follows
<1>6. CASE ~level
  <2>1. synced'[g] => Follows(g)'
    BY <1>3, <1>5, <1>6
  <2>. QED
    BY <1>1, <1>2, <1>3, <2>1, SyncedPage
<1>. QED
  BY <1>4, <1>6

LEMMA SyncedStep ==
    ASSUME TypeOK, TypeOK', Started, Known, SnapshotsFit, SyncedFollow, [Next]_vars
    PROVE  SyncedFollow'
<1>1. ASSUME UNCHANGED <<services, rows, pc, loc, socket, inbox, view, synced>>
      PROVE  SyncedFollow'
  <2>1. \A s : SameTasks(s) /\ SameTelling(s)
    BY <1>1 DEF SameTasks, SameTelling, Telling
  <2>. QED
    BY <1>1, <2>1, SyncedUnmoved
<1>2. ASSUME NEW p \in Request, RequestStep(p) \/ Abort(p) PROVE SyncedFollow'
  BY <1>2, SyncedUpdate, SyncedEmit, SyncedRequest DEF RequestStep
<1>3. ASSUME NEW g \in Page, NEW id,
             \/ CheckinRecorded(g, id)
             \/ ReadTasks(g, id)
             \/ LoadFails(g, id)
      PROVE  SyncedFollow'
  BY <1>1, <1>3 DEF CheckinRecorded, ReadTasks, LoadFails
<1>4. CASE UNCHANGED vars
  BY <1>1, <1>4 DEF vars
<1>. QED
  BY <1>2, <1>3, <1>4, SyncedArrive, SyncedTables, SyncedSocket, SyncedShow DEF Next

-----------------------------------------------------------------------------
(* The inductive invariant. *)

LEMMA InitInv == Init => IInv
<1>. SUFFICES ASSUME Init PROVE IInv
  OBVIOUS
<1>1. DOMAIN loc = {} /\ \A p \in Request : pc[p] = "idle"
  BY DEF Init, EmptyTable
<1>2. \A g \in Page : \A id \in DOMAIN loads[g] : id = "open" /\ loads[g][id] = Asked
  BY DEF Init
<1>3. "open" \notin Request
  BY LiveTasksAssumption
<1>4. \A g \in Page : ~synced[g] /\ inbox[g] = <<>> /\ socket[g] # "crashed"
  BY DEF Init
<1>5. SnapshotsFit /\ OwnChangeIsLoaded /\ LoadAfterCall
  BY <1>2, <1>3, AskedLoad DEF SnapshotsFit, OwnChangeIsLoaded, LoadAfterCall
<1>6. Started /\ Known /\ NullsHaveCause /\ SyncedFollow
  BY <1>1, <1>4 DEF Started, Known, NullsHaveCause, SyncedFollow
<1>. QED
  BY <1>5, <1>6, TypeInit DEF IInv

LEMMA NextInv == ASSUME IInv, [Next]_vars PROVE IInv'
<1>1. TypeOK' /\ RowsGrow /\ RequestsGoOn /\ LoadsGoOn
  BY TypeStep, StepGrows, StepGoesOn, StepLoads DEF IInv
<1>2. Started'
  BY <1>1 DEF RequestsGoOn, Started
<1>3. Known'
  BY <1>1, KnownStep DEF IInv, TypeOK
<1>4. SnapshotsFit' /\ LoadAfterCall' /\ OwnChangeIsLoaded'
  BY <1>1, SnapshotsStep, OwnLoadsStep DEF IInv
<1>5. NullsHaveCause'
  BY <1>1, NullsStep DEF IInv
<1>6. SyncedFollow'
  BY <1>1, SyncedStep DEF IInv
<1>. QED
  BY <1>1, <1>2, <1>3, <1>4, <1>5, <1>6 DEF IInv

\* The strengthening holds throughout, for any pages, tasks and requests.
THEOREM Inductive == Spec => []IInv
BY InitInv, NextInv, PTL DEF Spec

\* The variables keep their types; only joined pages have events on their way.
THEOREM TypeCorrect == Spec => []TypeOK
<1>1. IInv => TypeOK
  BY DEF IInv
<1>. QED
  BY <1>1, Inductive, PTL

\* A synced page with nothing on its way shows the tasks as they are, whatever
\* PATCH calls, events and reloads interleaved before.
THEOREM PageFollows == Spec => []LevelWhenQuiet
<1>1. IInv => LevelWhenQuiet
  <2>. SUFFICES ASSUME IInv, NEW g \in Page, synced[g], Quiet(g), Shows[g] \in services
                PROVE  view[g] = TasksOf(Shows[g])
    BY DEF LevelWhenQuiet
  <2>1. DOMAIN view[g] = DOMAIN TasksOf(Shows[g]) /\ \A t \in DOMAIN view[g] : Current(g, t)
    BY DEF IInv, SyncedFollow, Follows
  <2>2. inbox[g] = <<>> /\ Telling(Shows[g]) = {}
    BY DEF Quiet
  <2>3. \A t \in DOMAIN view[g] : view[g][t] = rows[t]
    BY <2>1, <2>2 DEF Current
  <2>4. view[g] = [t \in DOMAIN view[g] |-> view[g][t]]
    BY DEF IInv, TypeOK, IsTable
  <2>. QED
    BY <2>1, <2>3, <2>4 DEF TasksOf, Kept
<1>. QED
  BY <1>1, Inductive, PTL

\* The load a page starts after its own PATCH or POST shows that change or a
\* later one.
THEOREM OwnChangesLoaded == Spec => []OwnChangeIsLoaded
<1>1. IInv => OwnChangeIsLoaded
  BY DEF IInv
<1>. QED
  BY <1>1, Inductive, PTL

\* A page breaks down only after a service was cancelled between the two
\* transactions of a PATCH of one of its tasks.
THEOREM CrashOnlyByCancel == Spec => []CrashNeedsCancel
<1>1. IInv => CrashNeedsCancel
  BY DEF IInv, NullsHaveCause, Cancelled, CrashNeedsCancel
<1>. QED
  BY <1>1, Inductive, PTL
=============================================================================
