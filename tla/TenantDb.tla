------------------------------ MODULE TenantDb ------------------------------
(***************************************************************************)
(* TenantDbService.runInTenantContext over the connection pool of           *)
(* DatabaseService: every repository call takes a client, opens a           *)
(* transaction, sets app.current_church_id for that transaction, runs its   *)
(* statements, commits or rolls back, and gives the client back.  Lookups   *)
(* that belong to no church use pool.query on the same clients.             *)
(*                                                                         *)
(* The pool (node-postgres) and the database are external: a waiting        *)
(* connect() is served first come first served by an idle client or a new   *)
(* connection, a client whose connection was lost is not reused, and a       *)
(* transaction-local setting ends with its transaction.  The policies that   *)
(* read the setting filter nothing here: docker-compose.yml makes the one    *)
(* role there is the owner of the tables and a superuser, for whom they do   *)
(* not apply.  Which rows a statement asks for is left to its WHERE clause.  *)
(***************************************************************************)
EXTENDS Integers, Sequences, FiniteSets

CONSTANTS
    Scoped,         \* calls of runInTenantContext
    Unscoped,       \* calls of DatabaseService.query
    Church,
    ChurchOf,       \* the church of each scoped call
    Client,         \* the pool's connections (max: 10 in the code)
    MaxStatements,  \* statements a scoped call makes at most; bounds the model
    MaxLost,        \* connections lost at most; bounds the model
    NoChurch,       \* app.current_church_id is not set
    NoClient

ASSUME TenantDbAssumption ==
    /\ ChurchOf \in [Scoped -> Church]
    /\ Scoped \cap Unscoped = {}
    /\ MaxStatements \in Nat \ {0}
    /\ MaxLost \in Nat
    /\ NoChurch \notin Church
    /\ NoClient \notin Client

Call == Scoped \cup Unscoped

VARIABLES
    queue,          \* calls waiting for a client, first come first served
    pc,             \* where each call is
    holds,          \* the client each call holds
    slot,           \* the pool's record of each client
    up,             \* the client's connection works
    sess,           \* the database's session of each client
    table,          \* committed rows: <<c, n>> is written by c's n-th statement
    made,           \* statements each call has made
    wrote,          \* rows each call has written
    seen,           \* rows each call has read
    lost            \* connections lost so far

vars == <<queue, pc, holds, slot, up, sess, table, made, wrote, seen, lost>>

RowsOf(c) == {c} \X (1 .. MaxStatements)
Row == UNION {RowsOf(c) : c \in Scoped}

Session == [tx : {"none", "open"}, church : Church \cup {NoChurch}, writes : SUBSET Row]

Working == {"begin", "set", "work", "commit", "rollback"}
Holding == Working \cup {"query", "release_done", "release_failed"}

TypeOK ==
    /\ queue \in Seq(Call)
    /\ pc \in [Call -> {"new", "queued", "done", "failed"} \cup Holding]
    /\ holds \in [Call -> Client \cup {NoClient}]
    /\ slot \in [Client -> {"closed", "idle", "taken"}]
    /\ up \in [Client -> BOOLEAN]
    /\ sess \in [Client -> Session]
    /\ table \subseteq Row
    /\ made \in [Scoped -> 0 .. MaxStatements]
    /\ wrote \in [Scoped -> SUBSET Row]
    /\ seen \in [Call -> SUBSET Row]
    /\ lost \in 0 .. MaxLost

-----------------------------------------------------------------------------
(* The session of a client. *)

\* No transaction, and nothing set.
Fresh == [tx |-> "none", church |-> NoChurch, writes |-> {}]

AfterTx_Bug(k) ==               \* set_config(..., false): set for the session
    [tx |-> "none", church |-> sess[k].church, writes |-> {}]

\* COMMIT and ROLLBACK end what set_config(..., true) has set.
AfterTx(k) == Fresh

\* The rows a statement on client k can see, of any church: committed ones and
\* those its session has written.
Visible(k) == table \cup sess[k].writes

Goto(c, label) == pc' = [pc EXCEPT ![c] = label]

-----------------------------------------------------------------------------
(* getClient: pool.connect() *)

Connect(c) ==
    /\ pc[c] = "new"
    /\ queue' = Append(queue, c)
    /\ Goto(c, "queued")
    /\ UNCHANGED <<holds, slot, up, sess, table, made, wrote, seen, lost>>

IsNext(c) == queue # <<>> /\ Head(queue) = c

NoneIdle == \A k \in Client : slot[k] # "idle"

\* An idle client, or a new connection when there is none.
Acquire(c) ==
    /\ pc[c] = "queued"
    /\ IsNext(c)
    /\ \E k \in Client :
        /\ slot[k] = "idle" \/ (slot[k] = "closed" /\ NoneIdle)
        /\ slot' = [slot EXCEPT ![k] = "taken"]
        /\ up' = [up EXCEPT ![k] = TRUE]
        /\ holds' = [holds EXCEPT ![c] = k]
    /\ queue' = Tail(queue)
    /\ Goto(c, IF c \in Scoped THEN "begin" ELSE "query")
    /\ UNCHANGED <<sess, table, made, wrote, seen, lost>>

\* A new connection cannot be opened: connect() rejects, outside the try.
ConnectFails(c) ==
    /\ pc[c] = "queued"
    /\ IsNext(c)
    /\ NoneIdle
    /\ \E k \in Client : slot[k] = "closed"
    /\ lost < MaxLost
    /\ lost' = lost + 1
    /\ queue' = Tail(queue)
    /\ Goto(c, "failed")
    /\ UNCHANGED <<holds, slot, up, sess, table, made, wrote, seen>>

-----------------------------------------------------------------------------
(* runInTenantContext *)

Begin(c) ==
    /\ pc[c] = "begin"
    /\ up[holds[c]]
    /\ sess' = [sess EXCEPT ![holds[c]].tx = "open"]
    /\ Goto(c, "set")
    /\ UNCHANGED <<queue, holds, slot, up, table, made, wrote, seen, lost>>

SetContext(c) ==
    /\ pc[c] = "set"
    /\ up[holds[c]]
    /\ sess' = [sess EXCEPT ![holds[c]].church = ChurchOf[c]]
    /\ Goto(c, "work")
    /\ UNCHANGED <<queue, holds, slot, up, table, made, wrote, seen, lost>>

\* scopedQuery, reading.
Select(c) ==
    /\ pc[c] = "work"
    /\ up[holds[c]]
    /\ made[c] < MaxStatements
    /\ seen' = [seen EXCEPT ![c] = @ \cup Visible(holds[c])]
    /\ made' = [made EXCEPT ![c] = @ + 1]
    /\ UNCHANGED <<queue, pc, holds, slot, up, sess, table, wrote, lost>>

Write_Bug(c) ==                 \* this.db.query instead of the scoped query
    /\ pc[c] = "work"
    /\ up[holds[c]]
    /\ made[c] < MaxStatements
    /\ table' = table \cup {<<c, made[c] + 1>>}
    /\ wrote' = [wrote EXCEPT ![c] = @ \cup {<<c, made[c] + 1>>}]
    /\ made' = [made EXCEPT ![c] = @ + 1]
    /\ UNCHANGED <<queue, pc, holds, slot, up, sess, seen, lost>>

\* scopedQuery, writing: one more row, in the transaction.
Write(c) ==
    /\ pc[c] = "work"
    /\ up[holds[c]]
    /\ made[c] < MaxStatements
    /\ sess' = [sess EXCEPT ![holds[c]].writes = @ \cup {<<c, made[c] + 1>>}]
    /\ wrote' = [wrote EXCEPT ![c] = @ \cup {<<c, made[c] + 1>>}]
    /\ made' = [made EXCEPT ![c] = @ + 1]
    /\ UNCHANGED <<queue, pc, holds, slot, up, table, seen, lost>>

\* fn resolves.
Finish(c) ==
    /\ pc[c] = "work"
    /\ made[c] > 0
    /\ Goto(c, "commit")
    /\ UNCHANGED <<queue, holds, slot, up, sess, table, made, wrote, seen, lost>>

\* A statement is refused, or fn throws: on to the catch block.
WorkThrows(c) ==
    /\ pc[c] = "work"
    /\ Goto(c, "rollback")
    /\ UNCHANGED <<queue, holds, slot, up, sess, table, made, wrote, seen, lost>>

Commit(c) ==
    /\ pc[c] = "commit"
    /\ up[holds[c]]
    /\ table' = table \cup sess[holds[c]].writes
    /\ sess' = [sess EXCEPT ![holds[c]] = AfterTx(holds[c])]
    /\ Goto(c, "release_done")
    /\ UNCHANGED <<queue, holds, slot, up, made, wrote, seen, lost>>

\* COMMIT takes effect and the connection is lost before its answer.
CommitUnanswered(c) ==
    /\ pc[c] = "commit"
    /\ up[holds[c]]
    /\ lost < MaxLost
    /\ lost' = lost + 1
    /\ table' = table \cup sess[holds[c]].writes
    /\ sess' = [sess EXCEPT ![holds[c]] = Fresh]
    /\ up' = [up EXCEPT ![holds[c]] = FALSE]
    /\ UNCHANGED <<queue, pc, holds, slot, made, wrote, seen>>

\* A statement on a lost connection rejects: on to the catch block.
Rejects(c) ==
    /\ pc[c] \in {"begin", "set", "work", "commit"}
    /\ ~up[holds[c]]
    /\ Goto(c, "rollback")
    /\ UNCHANGED <<queue, holds, slot, up, sess, table, made, wrote, seen, lost>>

Rollback_Bug(c) ==              \* the catch block only rethrows
    /\ pc[c] = "rollback"
    /\ Goto(c, "release_failed")
    /\ UNCHANGED <<queue, holds, slot, up, sess, table, made, wrote, seen, lost>>

Rollback(c) ==
    /\ pc[c] = "rollback"
    /\ up[holds[c]]
    /\ sess' = [sess EXCEPT ![holds[c]] = AfterTx(holds[c])]
    /\ Goto(c, "release_failed")
    /\ UNCHANGED <<queue, holds, slot, up, table, made, wrote, seen, lost>>

RollbackRejects_Bug(c) ==       \* release() after ROLLBACK, not in a finally
    /\ pc[c] = "rollback"
    /\ ~up[holds[c]]
    /\ holds' = [holds EXCEPT ![c] = NoClient]
    /\ Goto(c, "failed")
    /\ UNCHANGED <<queue, slot, up, sess, table, made, wrote, seen, lost>>

\* ROLLBACK rejects as well, out of the catch block: on to the finally block.
RollbackRejects(c) ==
    /\ pc[c] = "rollback"
    /\ ~up[holds[c]]
    /\ Goto(c, "release_failed")
    /\ UNCHANGED <<queue, holds, slot, up, sess, table, made, wrote, seen, lost>>

Release_Bug(c) ==               \* release() only after COMMIT
    /\ pc[c] \in {"release_done", "release_failed"}
    /\ slot' = IF pc[c] = "release_done"
                 THEN [slot EXCEPT ![holds[c]] = IF up[holds[c]] THEN "idle" ELSE "closed"]
                 ELSE slot
    /\ holds' = [holds EXCEPT ![c] = NoClient]
    /\ Goto(c, IF pc[c] = "release_done" THEN "done" ELSE "failed")
    /\ UNCHANGED <<queue, up, sess, table, made, wrote, seen, lost>>

\* The finally block; the pool drops a client whose connection was lost.
Release(c) ==
    /\ pc[c] \in {"release_done", "release_failed"}
    /\ slot' = [slot EXCEPT ![holds[c]] = IF up[holds[c]] THEN "idle" ELSE "closed"]
    /\ holds' = [holds EXCEPT ![c] = NoClient]
    /\ Goto(c, IF pc[c] = "release_done" THEN "done" ELSE "failed")
    /\ UNCHANGED <<queue, up, sess, table, made, wrote, seen, lost>>

-----------------------------------------------------------------------------
(* DatabaseService.query *)

\* pool.query, of one statement (the memberships of a user, of any church).
Query(c) ==
    /\ pc[c] = "query"
    /\ seen' = IF up[holds[c]] THEN [seen EXCEPT ![c] = @ \cup Visible(holds[c])] ELSE seen
    /\ Goto(c, IF up[holds[c]] THEN "release_done" ELSE "release_failed")
    /\ UNCHANGED <<queue, holds, slot, up, sess, table, made, wrote, lost>>

-----------------------------------------------------------------------------
(* The database closes a connection: its transaction is rolled back. *)

Lose(k) ==
    /\ slot[k] # "closed"
    /\ up[k]
    /\ lost < MaxLost
    /\ lost' = lost + 1
    /\ up' = [up EXCEPT ![k] = FALSE]
    /\ sess' = [sess EXCEPT ![k] = Fresh]
    /\ slot' = [slot EXCEPT ![k] = IF @ = "idle" THEN "closed" ELSE @]
    /\ UNCHANGED <<queue, pc, holds, table, made, wrote, seen>>

-----------------------------------------------------------------------------
Init ==
    /\ queue = <<>>
    /\ pc = [c \in Call |-> "new"]
    /\ holds = [c \in Call |-> NoClient]
    /\ slot = [k \in Client |-> "closed"]
    /\ up = [k \in Client |-> FALSE]
    /\ sess = [k \in Client |-> Fresh]
    /\ table = {}
    /\ made = [c \in Scoped |-> 0]
    /\ wrote = [c \in Scoped |-> {}]
    /\ seen = [c \in Call |-> {}]
    /\ lost = 0

ScopedStep(c) ==
    \/ Begin(c) \/ SetContext(c)
    \/ Select(c) \/ Write(c) \/ Finish(c) \/ WorkThrows(c)
    \/ Commit(c)
    \/ Rejects(c) \/ Rollback(c) \/ RollbackRejects(c)

\* Steps every call makes without anybody's help once it has asked for a client.
CallStep(c) ==
    \/ Acquire(c)
    \/ c \in Scoped /\ ScopedStep(c)
    \/ Query(c)
    \/ Release(c)

Next ==
    \/ \E c \in Call : Connect(c) \/ ConnectFails(c) \/ CallStep(c)
    \/ \E c \in Scoped : CommitUnanswered(c)
    \/ \E k \in Client : Lose(k)

Spec == Init /\ [][Next]_vars

\* The pool serves its queue, the database answers, and Node runs what waited.
FairSpec == Spec /\ \A c \in Call : WF_vars(CallStep(c))

-----------------------------------------------------------------------------
(* Properties. *)

\* set_config with true "makes it transaction-local": on clients that other
\* calls used before and that broke under them, the statements of fn run in the
\* transaction of their own call, with its church set and holding its own
\* writes, and a lookup that belongs to no church finds nothing set.
OwnContext ==
    \A c \in Call : holds[c] # NoClient /\ up[holds[c]] =>
        LET session == sess[holds[c]]
        IN  /\ pc[c] \in {"work", "commit"} =>
                  session = [tx |-> "open", church |-> ChurchOf[c], writes |-> wrote[c]]
            /\ pc[c] = "query" => session = Fresh

\* Nobody acts on rows that are taken back: whatever a call has read is
\* committed for good or was written by itself, also on a client that another
\* call left in the middle of its transaction.
ReadsStand == \A c \in Call : seen[c] \subseteq table \cup RowsOf(c)

\* No client is lost to the pool and none is held twice: a taken client is the
\* client of exactly one call in flight, whatever failed before.
ClientsAccountedFor ==
    /\ \A k \in Client : slot[k] = "taken" <=> \E c \in Call : holds[c] = k
    /\ \A c, d \in Call : holds[c] = holds[d] /\ holds[c] # NoClient => c = d
    /\ \A c \in Call : holds[c] # NoClient <=> pc[c] \in Holding

\* The promise of runInTenantContext, TenantTx: a call's writes reach the table
\* all together or not at all, and before it returns.
Tx == INSTANCE TenantTx
        WITH Call <- Scoped,
             Row <- RowsOf,
             answer <- [c \in Scoped |-> IF pc[c] \in {"done", "failed"} THEN pc[c] ELSE "none"]
AllOrNothing == Tx!Spec

\* A call that throws has written nothing, unless a connection was lost (after
\* COMMIT and before its answer: then nobody can tell).
ThrownWroteNothing ==
    \A c \in Scoped : pc[c] = "failed" /\ lost = 0 => wrote[c] \cap table = {}

\* Every call that asks for a client is answered: the pool never runs dry.
EveryCallEnds ==
    \A c \in Call : (pc[c] = "queued") ~> (pc[c] \in {"done", "failed"})
=============================================================================
