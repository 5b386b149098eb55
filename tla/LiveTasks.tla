------------------------------ MODULE LiveTasks ------------------------------
(***************************************************************************)
(* The tasks of a service as its live page shows them: the handlers of      *)
(* TasksController, the rooms of the realtime gateway, and the page         *)
(* services/[id], which loads the tasks over HTTP and merges the            *)
(* task.updated events its socket receives.                                 *)
(*                                                                         *)
(* A task's row is abstracted to its revision, the number of writes to it   *)
(* so far (1 when it is created): two copies of a row agree when their      *)
(* revisions do.  task.updated carries the whole row, so a page that        *)
(* merges it shows that revision.                                           *)
(*                                                                         *)
(* socket.io is external: the events sent to one socket arrive in order,    *)
(* those of a broken connection are lost, a client whose connection breaks  *)
(* connects again, one that the server disconnects does not.                *)
(***************************************************************************)
EXTENDS Naturals, Sequences, FiniteSets

CONSTANTS
    Service,        \* services of one church
    Task,           \* ids of their tasks
    ServiceOf,      \* the service of each task
    First,          \* the tasks that exist at first
    Page,           \* open pages services/[id]
    Shows,          \* the service of each page
    Elsewhere,      \* a client that is none of these pages
    Request,        \* the PATCH and POST calls; bounds the model
    Refresh,        \* names of reloads that check-in events start; bounds those in flight
    Photographed,   \* tasks that get photos; bounds the model
    Cancellable,    \* services that may be cancelled
    MaxRevision,    \* photos stop at this revision; bounds the model
    MaxDrops,       \* connections that break at most; bounds the model
    NullEvent       \* a task.updated event without a task

ASSUME LiveTasksAssumption ==
    /\ ServiceOf \in [Task -> Service]
    /\ First \subseteq Task
    /\ Shows \in [Page -> Service]
    /\ Elsewhere \notin Page
    /\ Cancellable \subseteq Service
    /\ MaxRevision \in Nat
    /\ MaxDrops \in Nat
    /\ NullEvent \notin [task : Task, revision : Nat]
    /\ Photographed \subseteq Task
    /\ Request \cap (Refresh \cup {"open"}) = {}

VARIABLES
    services,       \* ids in table services
    rows,           \* table tasks: the revision of each row
    pc,             \* where each request is
    loc,            \* each request's local variables
    socket,         \* each page's connection
    inbox,          \* the events on their way to each page
    view,           \* the tasks each page shows, with their revisions
    loads,          \* the calls of load() each page has in flight
    synced,         \* history: the page has missed nothing (see LevelWhenQuiet)
    drops           \* connections broken so far

vars == <<services, rows, pc, loc, socket, inbox, view, loads, synced, drops>>

-----------------------------------------------------------------------------
(* Types. *)

IsTable(x) == DOMAIN x \subseteq Task /\ x \in [DOMAIN x -> Nat]
Event == [task : Task, revision : Nat]
Local == [task : Task, by : Page \cup {Elsewhere}, revision : Nat]
LoadId == {"open"} \cup Request \cup Refresh
IsLoad(x) ==
    /\ x = [read |-> x.read, tasks |-> x.tasks]
    /\ x.read \in BOOLEAN
    /\ IsTable(x.tasks)

TypeOK ==
    /\ services \subseteq Service
    /\ IsTable(rows)
    /\ pc \in [Request -> {"idle", "found", "emit", "answered", "done", "failed"}]
    /\ DOMAIN loc \subseteq Request
    /\ \A p \in DOMAIN loc : loc[p] \in Local
    /\ socket \in [Page -> {"connecting", "connected", "joined", "outside",
                            "closed", "crashed"}]
    /\ inbox \in [Page -> Seq(Event \cup {NullEvent})]
    /\ \A g \in Page : inbox[g] # <<>> => socket[g] = "joined"
    /\ DOMAIN view = Page
    /\ \A g \in Page : IsTable(view[g])
    /\ DOMAIN loads = Page
    /\ \A g \in Page : /\ DOMAIN loads[g] \subseteq LoadId
                       /\ \A id \in DOMAIN loads[g] : IsLoad(loads[g][id])
    /\ synced \in [Page -> BOOLEAN]
    /\ drops \in 0 .. MaxDrops

-----------------------------------------------------------------------------
(* Helpers. *)

EmptyTable == [x \in {} |-> x]
Inserted(t, id, row) == [x \in DOMAIN t \cup {id} |-> IF x = id THEN row ELSE t[x]]
Kept(t, ids) == [x \in ids |-> t[x]]

\* listForService.
TasksOf(s) == Kept(rows, {t \in DOMAIN rows : ServiceOf[t] = s})

Goto(p, label) == pc' = [pc EXCEPT ![p] = label]

\* load() is called: seven GET calls at once, of which the tasks matter here.
Asked == [read |-> FALSE, tasks |-> EmptyTable]

\* Requests that have written a task of service s and not told the room yet.
Telling(s) == {p \in DOMAIN loc : pc[p] = "emit" /\ ServiceOf[loc[p].task] = s}

\* Nothing is on its way to the page.
Quiet(g) == inbox[g] = <<>> /\ Telling(Shows[g]) = {}

\* synced after something that the pages of service s are not told.
Unsynced(s) == [g \in Page |-> synced[g] /\ Shows[g] # s]

NotOlder(new, old) ==
    DOMAIN new = DOMAIN old /\ \A t \in DOMAIN old : old[t] <= new[t]

-----------------------------------------------------------------------------
(* PATCH services/:serviceId/tasks/:taskId *)

Patch_Bug(p, by, t) ==          \* the page calls load() without awaiting the answer
    /\ pc[p] = "idle"
    /\ t \in DOMAIN rows
    /\ by \in Page => socket[by] # "crashed" /\ t \in DOMAIN view[by]
    /\ loc' = Inserted(loc, p, [task |-> t, by |-> by, revision |-> 0])
    /\ loads' = [g \in Page |-> IF by = g THEN Inserted(loads[g], p, Asked) ELSE loads[g]]
    /\ Goto(p, "found")
    /\ UNCHANGED <<services, rows, socket, inbox, view, synced, drops>>

\* assertTaskExists; a page's buttons name the tasks it shows.
Patch(p, by, t) ==
    /\ pc[p] = "idle"
    /\ t \in DOMAIN rows
    /\ by \in Page => socket[by] # "crashed" /\ t \in DOMAIN view[by]
    /\ loc' = Inserted(loc, p, [task |-> t, by |-> by, revision |-> 0])
    /\ Goto(p, "found")
    /\ UNCHANGED <<services, rows, socket, inbox, view, loads, synced, drops>>

Update_Bug(p) ==                \* no `returning': rows[0] is undefined
    /\ pc[p] = "found"
    /\ loc[p].task \in DOMAIN rows
    /\ rows' = [rows EXCEPT ![loc[p].task] = @ + 1]
    /\ Goto(p, "emit")
    /\ UNCHANGED <<services, loc, socket, inbox, view, loads, synced, drops>>

\* tasks.updateStatus returns the row it wrote.
Update(p) ==
    /\ pc[p] = "found"
    /\ loc[p].task \in DOMAIN rows
    /\ rows' = [rows EXCEPT ![loc[p].task] = @ + 1]
    /\ loc' = [loc EXCEPT ![p].revision = rows[loc[p].task] + 1]
    /\ Goto(p, "emit")
    /\ UNCHANGED <<services, socket, inbox, view, loads, synced, drops>>

\* The task went with its service meanwhile: updateStatus returns null.
UpdateGone(p) ==
    /\ pc[p] = "found"
    /\ loc[p].task \notin DOMAIN rows
    /\ Goto(p, "emit")
    /\ UNCHANGED <<services, rows, loc, socket, inbox, view, loads, synced, drops>>

EventOf_Bug(p) ==               \* the row that was found, not the updated one
    [task |-> loc[p].task,
     revision |-> IF loc[p].revision > 0 THEN loc[p].revision - 1 ELSE 0]

EventOf(p) ==
    IF loc[p].revision = 0 THEN NullEvent
    ELSE [task |-> loc[p].task, revision |-> loc[p].revision]

\* A later write of the task was told to the room before p's.
ToldLate(p) ==
    LET t == loc[p].task
    IN  /\ t \in DOMAIN rows
        /\ rows[t] # loc[p].revision
        /\ \A q \in Telling(ServiceOf[t]) :
               loc[q].task = t => loc[q].revision # rows[t]

Emit_Bug(p) ==                  \* the room is not told
    /\ pc[p] = "emit"
    /\ Goto(p, "answered")
    /\ UNCHANGED <<services, rows, loc, socket, inbox, view, loads, synced, drops>>

\* emitTaskUpdated to the church's room, after the transaction and in no order
\* with other requests; then the handler returns.
Emit(p) ==
    /\ pc[p] = "emit"
    /\ inbox' = [g \in Page |-> IF socket[g] = "joined"
                                  THEN Append(inbox[g], EventOf(p)) ELSE inbox[g]]
    /\ synced' = IF ToldLate(p) THEN Unsynced(ServiceOf[loc[p].task]) ELSE synced
    /\ Goto(p, "answered")
    /\ UNCHANGED <<services, rows, loc, socket, view, loads, drops>>

\* The answer arrives; the page that called then calls load().
Answer(p) ==
    /\ pc[p] = "answered"
    /\ loads' = [g \in Page |-> IF loc[p].by = g /\ socket[g] # "crashed"
                                  THEN Inserted(loads[g], p, Asked) ELSE loads[g]]
    /\ Goto(p, "done")
    /\ UNCHANGED <<services, rows, loc, socket, inbox, view, synced, drops>>

\* The transaction fails, the process stops, or the answer is lost: the page
\* shows an error and does not load.
Abort(p) ==
    /\ pc[p] \in {"found", "emit", "answered"}
    /\ synced' = IF pc[p] = "emit" THEN Unsynced(ServiceOf[loc[p].task]) ELSE synced
    /\ Goto(p, "failed")
    /\ UNCHANGED <<services, rows, loc, socket, inbox, view, loads, drops>>

-----------------------------------------------------------------------------
(* Writes that the room is not told. *)

\* POST services/:serviceId/tasks: without its service the row is refused.
Create(p, by, t) ==
    /\ pc[p] = "idle"
    /\ ServiceOf[t] \in services
    /\ t \notin DOMAIN rows
    /\ by \in Page => socket[by] # "crashed" /\ Shows[by] = ServiceOf[t]
    /\ rows' = Inserted(rows, t, 1)
    /\ loc' = Inserted(loc, p, [task |-> t, by |-> by, revision |-> 1])
    /\ synced' = Unsynced(ServiceOf[t])
    /\ Goto(p, "answered")
    /\ UNCHANGED <<services, socket, inbox, view, loads, drops>>

\* POST services/:serviceId/tasks/:taskId/photos
AddPhoto(t) ==
    /\ t \in DOMAIN rows
    /\ rows[t] < MaxRevision
    /\ rows' = [rows EXCEPT ![t] = @ + 1]
    /\ synced' = Unsynced(ServiceOf[t])
    /\ UNCHANGED <<services, pc, loc, socket, inbox, view, loads, drops>>

\* DELETE services/:serviceId: its tasks go by cascade.
Cancel(s) ==
    /\ s \in services
    /\ services' = services \ {s}
    /\ rows' = Kept(rows, {t \in DOMAIN rows : ServiceOf[t] # s})
    /\ UNCHANGED <<pc, loc, socket, inbox, view, loads, synced, drops>>

-----------------------------------------------------------------------------
(* The page's socket. *)

\* handleConnection accepts the access token; the client asks to join.
Connect(g) ==
    /\ socket[g] = "connecting"
    /\ socket' = [socket EXCEPT ![g] = "connected"]
    /\ UNCHANGED <<services, rows, pc, loc, inbox, view, loads, synced, drops>>

\* The token has expired: the server disconnects, the client does not retry.
ConnectRefused(g) ==
    /\ socket[g] = "connecting"
    /\ socket' = [socket EXCEPT ![g] = "closed"]
    /\ UNCHANGED <<services, rows, pc, loc, inbox, view, loads, synced, drops>>

\* handleJoin, after its membership query.
Join(g) ==
    /\ socket[g] = "connected"
    /\ socket' = [socket EXCEPT ![g] = "joined"]
    /\ synced' = [synced EXCEPT ![g] = Quiet(g) /\ view[g] = TasksOf(Shows[g])]
    /\ UNCHANGED <<services, rows, pc, loc, inbox, view, loads, drops>>

\* No membership, or the query failed: the client ignores the answer.
JoinRefused(g) ==
    /\ socket[g] = "connected"
    /\ socket' = [socket EXCEPT ![g] = "outside"]
    /\ UNCHANGED <<services, rows, pc, loc, inbox, view, loads, synced, drops>>

\* The connection breaks; the client connects and joins again, without load().
Drop(g) ==
    /\ socket[g] \in {"connected", "joined", "outside"}
    /\ drops < MaxDrops
    /\ drops' = drops + 1
    /\ socket' = [socket EXCEPT ![g] = "connecting"]
    /\ inbox' = [inbox EXCEPT ![g] = <<>>]
    /\ synced' = [synced EXCEPT ![g] = FALSE]
    /\ UNCHANGED <<services, rows, pc, loc, view, loads>>

\* task.updated: setTasks(prev => prev.map(t => t.id === updated.id ? ... : t)).
Deliver(g) ==
    /\ inbox[g] # <<>>
    /\ LET e == Head(inbox[g])
       IN  /\ e # NullEvent \/ DOMAIN view[g] = {}
           /\ view' = IF e # NullEvent /\ e.task \in DOMAIN view[g]
                        THEN [view EXCEPT ![g] = Inserted(@, e.task, e.revision)]
                        ELSE view
    /\ inbox' = [inbox EXCEPT ![g] = Tail(@)]
    /\ UNCHANGED <<services, rows, pc, loc, socket, loads, synced, drops>>

\* updated is null: updated.id throws while React renders and the page unmounts.
DeliverNull(g) ==
    /\ inbox[g] # <<>>
    /\ Head(inbox[g]) = NullEvent
    /\ DOMAIN view[g] # {}
    /\ socket' = [socket EXCEPT ![g] = "crashed"]
    /\ inbox' = [inbox EXCEPT ![g] = <<>>]
    /\ loads' = [loads EXCEPT ![g] = EmptyTable]
    /\ synced' = [synced EXCEPT ![g] = FALSE]
    /\ UNCHANGED <<services, rows, pc, loc, view, drops>>

-----------------------------------------------------------------------------
(* The page's loads. *)

\* checkin.recorded: load().
CheckinRecorded(g, id) ==
    /\ socket[g] = "joined"
    /\ id \notin DOMAIN loads[g]
    /\ loads' = [loads EXCEPT ![g] = Inserted(@, id, Asked)]
    /\ UNCHANGED <<services, rows, pc, loc, socket, inbox, view, synced, drops>>

\* The API finds the service, then reads its tasks.  The two are one step: a
\* service cancelled between them only makes an empty list of a failed load.
ReadTasks(g, id) ==
    /\ ~loads[g][id].read
    /\ Shows[g] \in services
    /\ loads' = [loads EXCEPT ![g] = Inserted(@, id, [read |-> TRUE,
                                                      tasks |-> TasksOf(Shows[g])])]
    /\ UNCHANGED <<services, rows, pc, loc, socket, inbox, view, synced, drops>>

\* The answers arrive, in no order with the socket or with other loads: setTasks.
ShowTasks(g, id) ==
    LET new == loads[g][id].tasks
        level == /\ socket[g] = "joined"
                 /\ Quiet(g)
                 /\ new = TasksOf(Shows[g])
    IN  /\ loads[g][id].read
        /\ view' = [view EXCEPT ![g] = new]
        /\ synced' = [synced EXCEPT ![g] = level \/ (@ /\ NotOlder(new, view[g]))]
        /\ loads' = [loads EXCEPT ![g] = Kept(@, DOMAIN @ \ {id})]
        /\ UNCHANGED <<services, rows, pc, loc, socket, inbox, drops>>

\* One of the seven calls fails: none of their answers is shown.
LoadFails(g, id) ==
    /\ loads' = [loads EXCEPT ![g] = Kept(@, DOMAIN @ \ {id})]
    /\ UNCHANGED <<services, rows, pc, loc, socket, inbox, view, synced, drops>>

-----------------------------------------------------------------------------
\* The page has just opened: it connects and loads at once.
Init ==
    /\ services = Service
    /\ rows = [t \in First |-> 1]
    /\ pc = [p \in Request |-> "idle"]
    /\ loc = EmptyTable
    /\ socket = [g \in Page |-> "connecting"]
    /\ inbox = [g \in Page |-> <<>>]
    /\ view = [g \in Page |-> EmptyTable]
    /\ loads = [g \in Page |-> [id \in {"open"} |-> Asked]]
    /\ synced = [g \in Page |-> FALSE]
    /\ drops = 0

RequestStep(p) == Update(p) \/ UpdateGone(p) \/ Emit(p) \/ Answer(p)

Receive(g) == Deliver(g) \/ DeliverNull(g)

SocketStep(g) ==
    \/ Connect(g) \/ ConnectRefused(g)
    \/ Join(g) \/ JoinRefused(g)
    \/ Drop(g)
    \/ Receive(g)

Next ==
    \/ \E p \in Request :
        \/ RequestStep(p)
        \/ Abort(p)
        \/ \E by \in Page \cup {Elsewhere}, t \in Task : Patch(p, by, t) \/ Create(p, by, t)
    \/ \E t \in Photographed : AddPhoto(t)
    \/ \E s \in Cancellable : Cancel(s)
    \/ \E g \in Page :
        \/ SocketStep(g)
        \/ \E id \in Refresh : CheckinRecorded(g, id)
        \/ \E id \in DOMAIN loads[g] : ReadTasks(g, id) \/ ShowTasks(g, id) \/ LoadFails(g, id)

Spec == Init /\ [][Next]_vars

\* Node and the browser run their continuations, the socket delivers.
FairSpec ==
    /\ Spec
    /\ \A p \in Request : WF_vars(RequestStep(p))
    /\ \A g \in Page : WF_vars(Receive(g))

-----------------------------------------------------------------------------
(* Properties. *)

\* When nothing is on its way to a synced page, it shows the tasks as they are.
\* A page is synced by a load that answers, or a join that ends, while it shows
\* the current rows and nothing is on its way.  It stays so, whatever updates,
\* events and loads interleave, until one of these: its connection breaks, it
\* shows a load that is older than what it has, an update fails after its
\* commit or is told after a later one, a task is created or gets a photo.
LevelWhenQuiet ==
    \A g \in Page : synced[g] /\ Quiet(g) /\ Shows[g] \in services
        => view[g] = TasksOf(Shows[g])

\* await apiFetch(PATCH), then load(): the load that follows a page's own
\* change never shows an older row, however many writes interleave.
OwnChangeIsLoaded ==
    \A g \in Page : \A p \in DOMAIN loads[g] \cap Request :
        (loads[g][p].read /\ loc[p].task \in DOMAIN loads[g][p].tasks)
            => loads[g][p].tasks[loc[p].task] >= loc[p].revision

\* A page breaks down only after a service was cancelled under an update of one
\* of its tasks (not necessarily the service the page shows).
CrashNeedsCancel ==
    \A g \in Page : socket[g] = "crashed" =>
        \E p \in DOMAIN loc : /\ loc[p].revision = 0
                              /\ pc[p] \in {"answered", "done", "failed"}
                              /\ ServiceOf[loc[p].task] \notin services

\* socket.on("task.updated", (updated: Task) => ...): every event carries a task.
\* FALSE: a service cancelled between assertTaskExists and updateStatus makes
\* the controller emit null to the whole church.
EventsAreTasks ==
    \A g \in Page : inbox[g] # <<>> => Head(inbox[g]) # NullEvent

\* A synced page comes to show every change, or a later one, unless it stops
\* being synced.
ChangesAreShown ==
    \A g \in Page, t \in Task, n \in 1 .. MaxRevision + Cardinality(Request) :
        (/\ synced[g]
         /\ ServiceOf[t] = Shows[g]
         /\ t \in DOMAIN rows
         /\ rows[t] = n)
            ~> \/ ~synced[g]
               \/ Shows[g] \notin services
               \/ t \in DOMAIN view[g] /\ view[g][t] >= n
=============================================================================
