--------------------------- MODULE TenantDbProofs ---------------------------
(***************************************************************************)
(* Proofs about TenantDb, for any number of calls, churches, clients and    *)
(* statements.                                                             *)
(***************************************************************************)
EXTENDS TenantDb, TLAPS

-----------------------------------------------------------------------------
(* The inductive invariant. *)

\* A client nobody holds, and a lost connection, have no transaction and no
\* setting.
CleanUnlessHeld ==
    \A k \in Client : slot[k] # "taken" \/ ~up[k] => sess[k] = Fresh

\* What the session of a call's client is at each point of the call.
SessionFits ==
    \A c \in Call : holds[c] # NoClient /\ up[holds[c]] =>
        /\ pc[c] \in {"begin", "query", "release_done", "release_failed"}
             => sess[holds[c]] = Fresh
        /\ c \in Scoped => sess[holds[c]].writes \subseteq wrote[c]
        /\ pc[c] \in {"set", "work", "commit"} => sess[holds[c]].tx = "open"
        /\ pc[c] = "set" => sess[holds[c]].writes = {}
        /\ pc[c] \in {"work", "commit"} =>
             /\ sess[holds[c]].church = ChurchOf[c]
             /\ sess[holds[c]].writes = wrote[c]

\* A call writes rows of its own, and nothing before it works.
WroteOwn ==
    \A c \in Scoped :
        /\ wrote[c] \subseteq RowsOf(c)
        /\ pc[c] \in {"new", "queued", "begin", "set"} => wrote[c] = {}

\* Nothing is in the table that no call wrote, all of a call's rows are there or
\* none, and none before COMMIT.
TableFits ==
    /\ \A row \in table : row[1] \in Scoped /\ row \in wrote[row[1]]
    /\ \A c \in Scoped :
        /\ wrote[c] \subseteq table \/ wrote[c] \cap table = {}
        /\ pc[c] \in {"release_done", "done"} => wrote[c] \subseteq table
        /\ pc[c] \in {"begin", "set", "work"} => wrote[c] \cap table = {}
        /\ pc[c] = "commit" /\ up[holds[c]] => wrote[c] \cap table = {}
        /\ pc[c] \in {"work", "commit", "rollback", "release_failed", "failed"} /\ lost = 0
             => wrote[c] \cap table = {}

\* Only a loss takes a connection down while a call holds it.
DownIsLost == \A c \in Call : holds[c] # NoClient /\ ~up[holds[c]] => lost > 0

\* Only scoped calls run transactions, and only unscoped ones pool.query.
KindFits ==
    \A c \in Call :
        /\ pc[c] \in Working => c \in Scoped
        /\ pc[c] = "query" => c \in Unscoped

IInv ==
    /\ TypeOK
    /\ ClientsAccountedFor
    /\ KindFits
    /\ CleanUnlessHeld
    /\ SessionFits
    /\ WroteOwn
    /\ TableFits
    /\ DownIsLost
    /\ ReadsStand

-----------------------------------------------------------------------------
(* The steps. *)

\* A step of call c, or a loss that c notices.
StepOf(c) == Connect(c) \/ ConnectFails(c) \/ CallStep(c) \/ (c \in Scoped /\ CommitUnanswered(c))

LEMMA NextCases ==
    Next => (\E c \in Call : StepOf(c)) \/ (\E k \in Client : Lose(k))
BY DEF Next, StepOf, Call

\* Steps that change the locals of c and nothing of the clients.
Thinks(c) == Finish(c) \/ WorkThrows(c) \/ Rejects(c) \/ RollbackRejects(c)

LEMMA StepCases ==
    ASSUME NEW c \in Call, StepOf(c)
    PROVE  \/ Connect(c) \/ ConnectFails(c) \/ Acquire(c)
           \/ c \in Scoped /\ (Begin(c) \/ SetContext(c))
           \/ c \in Scoped /\ (Select(c) \/ Write(c))
           \/ c \in Scoped /\ Thinks(c)
           \/ c \in Scoped /\ (Commit(c) \/ CommitUnanswered(c) \/ Rollback(c))
           \/ Query(c) \/ Release(c)
BY DEF StepOf, CallStep, ScopedStep, Thinks

LEMMA FreshIsSession == Fresh \in Session
BY DEF Fresh, Session

LEMMA RowsAreRows ==
    ASSUME NEW c \in Scoped
    PROVE  RowsOf(c) \subseteq Row
BY DEF Row, RowsOf

\* A call in the middle of its work holds a client.
LEMMA HolderHolds ==
    ASSUME TypeOK, ClientsAccountedFor, NEW c \in Call, pc[c] \in Holding
    PROVE  holds[c] \in Client
BY DEF TypeOK, ClientsAccountedFor

LEMMA TypeStep ==
    ASSUME TypeOK, ClientsAccountedFor, KindFits, NEW c \in Call, StepOf(c)
    PROVE  TypeOK'
<1>1. CASE Connect(c)
  BY <1>1 DEF Connect, Goto, TypeOK
<1>2. CASE ConnectFails(c)
  BY <1>2, TenantDbAssumption DEF ConnectFails, IsNext, Goto, TypeOK
<1>3. CASE Acquire(c)
  BY <1>3 DEF Acquire, IsNext, Goto, TypeOK, Holding, Working
<1>4. CASE c \in Scoped /\ (Begin(c) \/ SetContext(c))
  <2>1. holds[c] \in Client
    BY <1>4, HolderHolds DEF Begin, SetContext, Holding, Working
  <2>2. ChurchOf[c] \in Church
    BY <1>4, TenantDbAssumption
  <2>3. sess' \in [Client -> Session]
    <3>1. CASE Begin(c)
      <4>1. sess'[holds[c]] \in Session
        <5>1. sess[holds[c]] \in Session /\ DOMAIN sess = Client
          BY <2>1 DEF TypeOK
        <5>2. sess' = [sess EXCEPT ![holds[c]].tx = "open"]
          BY <3>1 DEF Begin
        <5>. QED
          BY <2>1, <5>1, <5>2 DEF Session
      <4>. QED
        BY <2>1, <3>1, <4>1 DEF Begin, TypeOK
    <3>2. CASE SetContext(c)
      <4>1. sess'[holds[c]] \in Session
        <5>1. sess[holds[c]] \in Session /\ DOMAIN sess = Client
          BY <2>1 DEF TypeOK
        <5>2. sess' = [sess EXCEPT ![holds[c]].church = ChurchOf[c]]
          BY <3>2 DEF SetContext
        <5>. QED
          BY <2>1, <2>2, <5>1, <5>2 DEF Session
      <4>. QED
        BY <2>1, <3>2, <4>1 DEF SetContext, TypeOK
    <3>. QED
      BY <1>4, <3>1, <3>2
  <2>. QED
    BY <1>4, <2>3 DEF Begin, SetContext, Goto, TypeOK, Holding, Working
<1>5. CASE c \in Scoped /\ Select(c)
  <2>1. Visible(holds[c]) \subseteq Row
    <3>1. holds[c] \in Client
      BY <1>5, HolderHolds DEF Select, Holding, Working
    <3>. QED
      BY <3>1 DEF Visible, TypeOK, Session
  <2>2. seen' \in [Call -> SUBSET Row]
    BY <1>5, <2>1 DEF Select, TypeOK
  <2>3. made' \in [Scoped -> 0 .. MaxStatements]
    BY <1>5, TenantDbAssumption DEF Select, TypeOK
  <2>. QED
    BY <1>5, <2>2, <2>3 DEF Select, TypeOK
<1>6. CASE c \in Scoped /\ Write(c)
  <2>1. holds[c] \in Client
    BY <1>6, HolderHolds DEF Write, Holding, Working
  <2>2. <<c, made[c] + 1>> \in Row
    BY <1>6, TenantDbAssumption DEF Write, TypeOK, Row, RowsOf
  <2>3. sess' \in [Client -> Session]
    <3>1. sess[holds[c]] \in Session /\ DOMAIN sess = Client
      BY <2>1 DEF TypeOK
    <3>2. PICK row \in Row : sess' = [sess EXCEPT ![holds[c]].writes = @ \cup {row}]
      BY <1>6, <2>2 DEF Write
    <3>3. sess'[holds[c]] \in Session
      BY <2>1, <3>1, <3>2 DEF Session
    <3>. QED
      BY <1>6, <2>1, <3>3 DEF Write, TypeOK
  <2>4. wrote' \in [Scoped -> SUBSET Row]
    BY <1>6, <2>2 DEF Write, TypeOK
  <2>5. made' \in [Scoped -> 0 .. MaxStatements]
    BY <1>6, TenantDbAssumption DEF Write, TypeOK
  <2>. QED
    BY <1>6, <2>3, <2>4, <2>5 DEF Write, TypeOK
<1>7. CASE Thinks(c)
  BY <1>7 DEF Thinks, Finish, WorkThrows, Rejects, RollbackRejects, Goto, TypeOK, Holding, Working
<1>8. CASE c \in Scoped /\ (Commit(c) \/ CommitUnanswered(c) \/ Rollback(c))
  <2>1. holds[c] \in Client
    BY <1>8, HolderHolds DEF Commit, CommitUnanswered, Rollback, Holding, Working
  <2>2. sess' \in [Client -> Session]
    BY <1>8, <2>1, FreshIsSession DEF Commit, CommitUnanswered, Rollback, AfterTx, TypeOK
  <2>3. sess[holds[c]].writes \subseteq Row
    BY <2>1 DEF TypeOK, Session
  <2>4. lost' \in 0 .. MaxLost /\ table' \subseteq Row
    BY <1>8, <2>3, TenantDbAssumption DEF Commit, CommitUnanswered, Rollback, TypeOK
  <2>. QED
    BY <1>8, <2>2, <2>4 DEF Commit, CommitUnanswered, Rollback, Goto, TypeOK, Holding, Working
<1>9. CASE Query(c)
  <2>1. Visible(holds[c]) \subseteq Row
    <3>1. holds[c] \in Client
      BY <1>9, HolderHolds DEF Query, Holding, Working
    <3>. QED
      BY <3>1 DEF Visible, TypeOK, Session
  <2>2. seen' \in [Call -> SUBSET Row]
    BY <1>9, <2>1 DEF Query, TypeOK
  <2>. QED
    BY <1>9, <2>2 DEF Query, Goto, TypeOK, Holding, Working
<1>10. CASE Release(c)
  BY <1>10 DEF Release, Goto, TypeOK, Holding, Working
<1>. QED
  BY <1>1, <1>2, <1>3, <1>4, <1>5, <1>6, <1>7, <1>8, <1>9, <1>10, StepCases

LEMMA TypeLose ==
    ASSUME TypeOK, NEW k \in Client, Lose(k)
    PROVE  TypeOK'
BY FreshIsSession, TenantDbAssumption DEF Lose, TypeOK

\* A step of c changes nothing of another call, or of the client it holds.
LEMMA StepFrame ==
    ASSUME TypeOK, ClientsAccountedFor, NEW c \in Call, StepOf(c), NEW d \in Call \ {c}
    PROVE  /\ pc'[d] = pc[d]
           /\ holds'[d] = holds[d]
           /\ seen'[d] = seen[d]
           /\ d \in Scoped => wrote'[d] = wrote[d]
           /\ holds[d] # NoClient =>
                /\ sess'[holds[d]] = sess[holds[d]]
                /\ up'[holds[d]] = up[holds[d]]
                /\ slot'[holds[d]] = slot[holds[d]]
<1>1. CASE Connect(c) \/ ConnectFails(c)
  BY <1>1 DEF Connect, ConnectFails, Goto, TypeOK
<1>2. CASE Acquire(c)
  <2>1. holds[d] # NoClient => slot[holds[d]] = "taken"
    BY DEF ClientsAccountedFor, TypeOK
  <2>. QED
    BY <1>2, <2>1 DEF Acquire, Goto, TypeOK
<1>3. ASSUME pc[c] \in Holding
      PROVE  holds[c] \in Client /\ (holds[d] # NoClient => holds[d] # holds[c])
  BY <1>3 DEF ClientsAccountedFor, TypeOK
<1>4. CASE Begin(c) \/ SetContext(c)
  BY <1>3, <1>4 DEF Begin, SetContext, Goto, TypeOK, Holding, Working
<1>5. CASE c \in Scoped /\ (Select(c) \/ Write(c))
  BY <1>3, <1>5 DEF Select, Write, TypeOK, Holding, Working
<1>6. CASE Thinks(c)
  BY <1>6 DEF Thinks, Finish, WorkThrows, Rejects, RollbackRejects, Goto, TypeOK
<1>7. CASE Commit(c) \/ CommitUnanswered(c) \/ Rollback(c)
  BY <1>3, <1>7 DEF Commit, CommitUnanswered, Rollback, Goto, TypeOK, Holding, Working
<1>8. CASE Query(c)
  BY <1>8 DEF Query, Goto, TypeOK
<1>9. CASE Release(c)
  BY <1>3, <1>9 DEF Release, Goto, TypeOK, Holding, Working
<1>. QED
  BY <1>1, <1>2, <1>4, <1>5, <1>6, <1>7, <1>8, <1>9, StepCases

\* What a step does to the session of the caller's client.
LEMMA SessionSteps ==
    ASSUME TypeOK, ClientsAccountedFor, NEW c \in Scoped
    PROVE  /\ Begin(c) => /\ sess'[holds[c]].writes = sess[holds[c]].writes
                          /\ sess'[holds[c]].church = sess[holds[c]].church
                          /\ sess'[holds[c]].tx = "open"
           /\ SetContext(c) => /\ sess'[holds[c]].writes = sess[holds[c]].writes
                               /\ sess'[holds[c]].church = ChurchOf[c]
                               /\ sess'[holds[c]].tx = sess[holds[c]].tx
           /\ Write(c) => /\ sess'[holds[c]].writes
                               = sess[holds[c]].writes \cup {<<c, made[c] + 1>>}
                          /\ sess'[holds[c]].church = sess[holds[c]].church
                          /\ sess'[holds[c]].tx = sess[holds[c]].tx
<1>1. c \in Call
  BY DEF Call
<1>2. pc[c] \in Holding => sess[holds[c]] \in Session /\ DOMAIN sess = Client /\ holds[c] \in Client
  BY <1>1, HolderHolds DEF TypeOK
<1>3. CASE Begin(c)
  <2>1. sess' = [sess EXCEPT ![holds[c]].tx = "open"] /\ pc[c] \in Holding
    BY <1>3 DEF Begin, Holding, Working
  <2>. QED
    BY <1>2, <1>3, <2>1 DEF Session, SetContext, Write, Begin
<1>4. CASE SetContext(c)
  <2>1. sess' = [sess EXCEPT ![holds[c]].church = ChurchOf[c]] /\ pc[c] \in Holding
    BY <1>4 DEF SetContext, Holding, Working
  <2>. QED
    BY <1>2, <1>4, <2>1 DEF Session, Begin, Write, SetContext
<1>5. CASE Write(c)
  <2>. DEFINE row == <<c, made[c] + 1>>
  <2>1. sess' = [sess EXCEPT ![holds[c]].writes = @ \cup {row}] /\ pc[c] \in Holding
    BY <1>5 DEF Write, Holding, Working
  <2>2. pc[c] = "work"
    BY <1>5 DEF Write
  <2>. HIDE DEF row
  <2>3. /\ sess'[holds[c]].writes = sess[holds[c]].writes \cup {row}
        /\ sess'[holds[c]].church = sess[holds[c]].church
        /\ sess'[holds[c]].tx = sess[holds[c]].tx
    BY <1>2, <2>1 DEF Session
  <2>. QED
    BY <2>2, <2>3 DEF row, Begin, SetContext
<1>. QED
  BY <1>3, <1>4, <1>5

-----------------------------------------------------------------------------
(* Each part of the invariant is preserved. *)

LEMMA AccountedStep ==
    ASSUME TypeOK, ClientsAccountedFor, NEW c \in Call, StepOf(c)
    PROVE  ClientsAccountedFor'
<1>1. CASE Acquire(c)
  <2>1. PICK k \in Client : /\ slot[k] # "taken"
                            /\ slot' = [slot EXCEPT ![k] = "taken"]
                            /\ holds' = [holds EXCEPT ![c] = k]
    BY <1>1 DEF Acquire
  <2>2. pc[c] = "queued" /\ pc' = [pc EXCEPT ![c] = IF c \in Scoped THEN "begin" ELSE "query"]
    BY <1>1 DEF Acquire, Goto
  <2>3. holds[c] = NoClient
    BY <2>2 DEF ClientsAccountedFor, Holding, Working
  <2>4. \A d \in Call : holds[d] # k
    BY <2>1 DEF ClientsAccountedFor
  <2>5. k # NoClient
    BY TenantDbAssumption
  <2>6. \A j \in Client : slot'[j] = "taken" <=> \E d \in Call : holds'[d] = j
    BY <2>1, <2>3, <2>4, TenantDbAssumption DEF ClientsAccountedFor, TypeOK
  <2>7. \A d1, d2 \in Call : holds'[d1] = holds'[d2] /\ holds'[d1] # NoClient => d1 = d2
    BY <2>1, <2>3, <2>4 DEF ClientsAccountedFor, TypeOK
  <2>8. \A d \in Call : holds'[d] # NoClient <=> pc'[d] \in Holding
    BY <2>1, <2>2, <2>5 DEF ClientsAccountedFor, TypeOK, Holding, Working
  <2>. QED
    BY <2>6, <2>7, <2>8 DEF ClientsAccountedFor
<1>2. CASE Release(c)
  <2>1. holds[c] \in Client /\ pc[c] \in Holding
    BY <1>2, HolderHolds DEF Release, Holding
  <2>2. \A d \in Call \ {c} : holds[d] # holds[c]
    BY <2>1, TenantDbAssumption DEF ClientsAccountedFor
  <2>3. \A j \in Client : slot'[j] = "taken" <=> \E d \in Call : holds'[d] = j
    BY <1>2, <2>1, <2>2, TenantDbAssumption DEF Release, ClientsAccountedFor, TypeOK
  <2>4. \A d1, d2 \in Call : holds'[d1] = holds'[d2] /\ holds'[d1] # NoClient => d1 = d2
    BY <1>2 DEF Release, ClientsAccountedFor, TypeOK
  <2>5. \A d \in Call : holds'[d] # NoClient <=> pc'[d] \in Holding
    BY <1>2 DEF Release, Goto, ClientsAccountedFor, TypeOK, Holding, Working
  <2>. QED
    BY <2>3, <2>4, <2>5 DEF ClientsAccountedFor
<1>3. CASE ~Acquire(c) /\ ~Release(c)
  <2>1. /\ UNCHANGED <<holds, slot>>
        /\ \A d \in Call : pc'[d] \in Holding <=> pc[d] \in Holding
    <3>1. CASE Connect(c) \/ ConnectFails(c)
      BY <3>1 DEF Connect, ConnectFails, Goto, TypeOK, Holding, Working
    <3>2. CASE Begin(c) \/ SetContext(c)
      BY <3>2 DEF Begin, SetContext, Goto, TypeOK, Holding, Working
    <3>3. CASE Select(c) \/ Write(c)
      BY <3>3 DEF Select, Write
    <3>4. CASE Thinks(c)
      BY <3>4 DEF Thinks, Finish, WorkThrows, Rejects, RollbackRejects, Goto, TypeOK, Holding,
         Working
    <3>5. CASE Commit(c) \/ CommitUnanswered(c) \/ Rollback(c)
      BY <3>5 DEF Commit, CommitUnanswered, Rollback, Goto, TypeOK, Holding, Working
    <3>6. CASE Query(c)
      BY <3>6 DEF Query, Goto, TypeOK, Holding, Working
    <3>. QED
      BY <1>3, <3>1, <3>2, <3>3, <3>4, <3>5, <3>6, StepCases
  <2>. QED
    BY <2>1 DEF ClientsAccountedFor
<1>. QED
  BY <1>1, <1>2, <1>3

LEMMA AccountedLose ==
    ASSUME TypeOK, ClientsAccountedFor, NEW k \in Client, Lose(k)
    PROVE  ClientsAccountedFor'
BY DEF Lose, ClientsAccountedFor, TypeOK

LEMMA KindStep ==
    ASSUME TypeOK, KindFits, NEW c \in Call, StepOf(c)
    PROVE  KindFits'
<1>1. CASE Connect(c) \/ ConnectFails(c) \/ Acquire(c)
  BY <1>1 DEF Connect, ConnectFails, Acquire, Goto, TypeOK, KindFits, Working, Call
<1>2. CASE c \in Scoped /\ (Begin(c) \/ SetContext(c) \/ Select(c) \/ Write(c))
  BY <1>2 DEF Begin, SetContext, Select, Write, Goto, TypeOK, KindFits, Working
<1>3. CASE c \in Scoped /\ Thinks(c)
  BY <1>3 DEF Thinks, Finish, WorkThrows, Rejects, RollbackRejects, Goto, TypeOK, KindFits, Working
<1>4. CASE Commit(c) \/ CommitUnanswered(c) \/ Rollback(c) \/ Query(c) \/ Release(c)
  BY <1>4 DEF Commit, CommitUnanswered, Rollback, Query, Release, Goto, TypeOK, KindFits, Working
<1>. QED
  BY <1>1, <1>2, <1>3, <1>4, StepCases

LEMMA CleanStep ==
    ASSUME TypeOK, ClientsAccountedFor, CleanUnlessHeld, SessionFits, NEW c \in Call, StepOf(c)
    PROVE  CleanUnlessHeld'
<1>1. pc[c] \in Holding => holds[c] \in Client /\ slot[holds[c]] = "taken"
  BY HolderHolds DEF ClientsAccountedFor
<1>2. CASE Connect(c) \/ ConnectFails(c)
  BY <1>2 DEF Connect, ConnectFails, CleanUnlessHeld
<1>3. CASE Acquire(c)
  BY <1>3 DEF Acquire, CleanUnlessHeld, TypeOK
<1>4. CASE Begin(c) \/ SetContext(c) \/ (c \in Scoped /\ Write(c))
  <2>1. pc[c] \in Holding /\ up[holds[c]] /\ UNCHANGED <<slot, up>>
    BY <1>4 DEF Begin, SetContext, Write, Holding, Working
  <2>2. \A k \in Client \ {holds[c]} : sess'[k] = sess[k]
    BY <1>4, <1>1, <2>1 DEF Begin, SetContext, Write, TypeOK
  <2>. QED
    BY <1>1, <2>1, <2>2 DEF CleanUnlessHeld
<1>5. CASE Select(c) \/ Thinks(c) \/ Query(c)
  BY <1>5 DEF Select, Thinks, Finish, WorkThrows, Rejects, RollbackRejects, Query, CleanUnlessHeld
<1>6. CASE Commit(c) \/ CommitUnanswered(c) \/ Rollback(c)
  BY <1>1, <1>6 DEF Commit, CommitUnanswered, Rollback, AfterTx, CleanUnlessHeld, TypeOK, Holding,
     Working
<1>7. CASE Release(c)
  <2>1. holds[c] \in Client /\ sess[holds[c]] = Fresh
    BY <1>1, <1>7, TenantDbAssumption DEF Release, Holding, SessionFits, CleanUnlessHeld
  <2>. QED
    BY <1>7, <2>1 DEF Release, CleanUnlessHeld, TypeOK
<1>. QED
  BY <1>2, <1>3, <1>4, <1>5, <1>6, <1>7, StepCases

\* SessionFits, for one call.
FitsOne(c) ==
    holds[c] # NoClient /\ up[holds[c]] =>
        /\ pc[c] \in {"begin", "query", "release_done", "release_failed"}
             => sess[holds[c]] = Fresh
        /\ c \in Scoped => sess[holds[c]].writes \subseteq wrote[c]
        /\ pc[c] \in {"set", "work", "commit"} => sess[holds[c]].tx = "open"
        /\ pc[c] = "set" => sess[holds[c]].writes = {}
        /\ pc[c] \in {"work", "commit"} =>
             /\ sess[holds[c]].church = ChurchOf[c]
             /\ sess[holds[c]].writes = wrote[c]

LEMMA FitsStep ==
    ASSUME TypeOK, ClientsAccountedFor, KindFits, CleanUnlessHeld, SessionFits, WroteOwn,
           NEW c \in Call, StepOf(c)
    PROVE  SessionFits'
<1>. SUFFICES ASSUME NEW d \in Call
              PROVE  FitsOne(d)'
  BY DEF SessionFits, FitsOne
<1>0. FitsOne(d)
  BY DEF SessionFits, FitsOne
<1>1. CASE d # c
  <2>1. /\ pc'[d] = pc[d] /\ holds'[d] = holds[d]
        /\ d \in Scoped => wrote'[d] = wrote[d]
        /\ holds[d] # NoClient =>
             sess'[holds[d]] = sess[holds[d]] /\ up'[holds[d]] = up[holds[d]]
    BY <1>1, StepFrame
  <2>2. pc[d] \in {"work", "commit"} => d \in Scoped
    BY DEF KindFits, Working
  <2>. QED
    BY <1>0, <2>1, <2>2 DEF FitsOne
<1>2. CASE d = c
  <2>1. pc[c] \in Holding => holds[c] \in Client
    BY HolderHolds
  <2>2. CASE Connect(c) \/ ConnectFails(c)
    BY <1>2, <2>2, AccountedStep DEF Connect, ConnectFails, Goto, TypeOK, FitsOne,
       ClientsAccountedFor, Holding, Working
  <2>3. CASE Acquire(c)
    <3>1. PICK k \in Client : /\ slot[k] # "taken"
                              /\ holds' = [holds EXCEPT ![c] = k]
      BY <2>3 DEF Acquire
    <3>2. sess'[k] = Fresh /\ holds'[c] = k
      BY <2>3, <3>1 DEF Acquire, CleanUnlessHeld, TypeOK
    <3>3. pc'[c] \in {"begin", "query"}
      BY <2>3 DEF Acquire, Goto, TypeOK
    <3>. QED
      BY <1>2, <3>2, <3>3 DEF FitsOne, Fresh
  <2>4. CASE c \in Scoped /\ Begin(c)
    <3>1. pc[c] = "begin" /\ pc'[c] = "set" /\ up[holds[c]] /\ UNCHANGED <<holds, up, wrote>>
      BY <2>4 DEF Begin, Goto, TypeOK
    <3>2. sess'[holds[c]].writes = {} /\ sess'[holds[c]].tx = "open"
      BY <1>0, <1>2, <2>1, <2>4, <3>1, SessionSteps, TenantDbAssumption
      DEF FitsOne, Fresh, Holding, Working
    <3>. QED
      BY <1>2, <3>1, <3>2 DEF FitsOne
  <2>5. CASE c \in Scoped /\ SetContext(c)
    <3>1. pc[c] = "set" /\ pc'[c] = "work" /\ up[holds[c]] /\ UNCHANGED <<holds, up, wrote>>
      BY <2>5 DEF SetContext, Goto, TypeOK
    <3>2. /\ sess'[holds[c]].writes = {} /\ sess'[holds[c]].church = ChurchOf[c]
          /\ sess'[holds[c]].tx = "open"
      BY <1>0, <1>2, <2>1, <2>5, <3>1, SessionSteps, TenantDbAssumption
      DEF FitsOne, Holding, Working
    <3>3. wrote[c] = {}
      BY <2>5, <3>1 DEF WroteOwn
    <3>. QED
      BY <1>2, <3>1, <3>2, <3>3 DEF FitsOne
  <2>6. CASE c \in Scoped /\ Write(c)
    <3>1. /\ pc[c] = "work" /\ UNCHANGED <<pc, holds, up>> /\ up[holds[c]]
          /\ wrote'[c] = wrote[c] \cup {<<c, made[c] + 1>>}
      BY <2>6 DEF Write, TypeOK
    <3>2. /\ sess'[holds[c]].writes = sess[holds[c]].writes \cup {<<c, made[c] + 1>>}
          /\ sess'[holds[c]].church = sess[holds[c]].church
          /\ sess'[holds[c]].tx = sess[holds[c]].tx
      BY <2>6, SessionSteps
    <3>. QED
      BY <1>0, <1>2, <3>1, <3>2 DEF FitsOne
  <2>7. CASE Select(c)
    BY <1>0, <1>2, <2>7 DEF Select, FitsOne
  <2>8. CASE c \in Scoped /\ Thinks(c)
    <3>1. UNCHANGED <<holds, up, sess, wrote>>
      BY <2>8 DEF Thinks, Finish, WorkThrows, Rejects, RollbackRejects
    <3>2. \/ pc[c] = "work" /\ pc'[c] \in {"commit", "rollback"}
          \/ pc'[c] = "rollback"
          \/ ~up[holds[c]]
      BY <2>8 DEF Thinks, Finish, WorkThrows, Rejects, RollbackRejects, Goto, TypeOK
    <3>. QED
      BY <1>0, <1>2, <3>1, <3>2 DEF FitsOne
  <2>9. CASE c \in Scoped /\ (Commit(c) \/ Rollback(c))
    <3>1. /\ UNCHANGED <<holds, up, wrote>>
          /\ pc'[c] \in {"release_done", "release_failed"}
          /\ sess'[holds[c]] = Fresh
      BY <2>1, <2>9 DEF Commit, Rollback, AfterTx, Goto, TypeOK, Holding, Working
    <3>. QED
      BY <1>2, <3>1 DEF FitsOne, Fresh
  <2>10. CASE CommitUnanswered(c)
    BY <1>2, <2>1, <2>10 DEF CommitUnanswered, FitsOne, TypeOK, Holding, Working
  <2>11. CASE Query(c)
    BY <1>0, <1>2, <2>11 DEF Query, Goto, TypeOK, FitsOne
  <2>12. CASE Release(c)
    BY <1>2, <2>12 DEF Release, TypeOK, FitsOne
  <2>. QED
    BY <2>2, <2>3, <2>4, <2>5, <2>6, <2>7, <2>8, <2>9, <2>10, <2>11, <2>12, StepCases
<1>. QED
  BY <1>1, <1>2

LEMMA WroteOwnStep ==
    ASSUME TypeOK, ClientsAccountedFor, WroteOwn, NEW c \in Call, StepOf(c)
    PROVE  WroteOwn'
<1>. SUFFICES ASSUME NEW d \in Scoped
              PROVE  /\ wrote'[d] \subseteq RowsOf(d)
                     /\ pc'[d] \in {"new", "queued", "begin", "set"} => wrote'[d] = {}
  BY DEF WroteOwn, RowsOf
<1>0. d \in Call
  BY DEF Call
<1>1. CASE d # c
  BY <1>0, <1>1, StepFrame DEF WroteOwn
<1>2. CASE d = c
  <2>1. CASE Write(c)
    <3>1. <<c, made[c] + 1>> \in RowsOf(c)
      BY <1>2, <2>1, TenantDbAssumption DEF Write, RowsOf, TypeOK
    <3>. QED
      BY <1>2, <2>1, <3>1 DEF Write, WroteOwn, TypeOK
  <2>2. CASE ~Write(c)
    <3>1. UNCHANGED wrote
      BY <2>2, StepCases DEF Connect, ConnectFails, Acquire, Begin, SetContext, Select, Thinks,
         Finish, WorkThrows, Rejects, RollbackRejects, Commit, CommitUnanswered, Rollback, Query,
         Release
    <3>2. pc'[c] \in {"new", "queued", "begin", "set"} => pc[c] \in {"new", "queued", "begin", "set"}
      <4>1. CASE Connect(c) \/ ConnectFails(c) \/ Acquire(c) \/ Begin(c) \/ SetContext(c) \/ Select(c)
        BY <4>1 DEF Connect, ConnectFails, Acquire, Begin, SetContext, Select, Goto, TypeOK
      <4>2. CASE Thinks(c) \/ Commit(c) \/ CommitUnanswered(c) \/ Rollback(c) \/ Query(c) \/ Release(c)
        BY <4>2 DEF Thinks, Finish, WorkThrows, Rejects, RollbackRejects, Commit,
           CommitUnanswered, Rollback, Query, Release, Goto, TypeOK
      <4>. QED
        BY <2>2, <4>1, <4>2, StepCases
    <3>. QED
      BY <1>2, <3>1, <3>2 DEF WroteOwn
  <2>. QED
    BY <2>1, <2>2
<1>. QED
  BY <1>1, <1>2

LEMMA LostGrows ==
    ASSUME TypeOK, NEW c \in Call, StepOf(c)
    PROVE  lost' \in Nat /\ (lost' = 0 => lost = 0)
<1>1. lost \in Nat
  BY TenantDbAssumption DEF TypeOK
<1>2. lost' = lost \/ lost' = lost + 1
  BY StepCases DEF Connect, ConnectFails, Acquire, Begin, SetContext, Select, Write, Thinks, Finish,
     WorkThrows, Rejects, RollbackRejects, Commit, CommitUnanswered, Rollback, Query, Release
<1>. QED
  BY <1>1, <1>2

LEMMA DownStep ==
    ASSUME TypeOK, ClientsAccountedFor, DownIsLost, NEW c \in Call, StepOf(c)
    PROVE  DownIsLost'
<1>. SUFFICES ASSUME NEW d \in Call, holds'[d] # NoClient, ~up'[holds'[d]]
              PROVE  lost' > 0
  BY DEF DownIsLost
<1>1. lost \in Nat /\ lost' \in Nat /\ (lost' = 0 => lost = 0)
  BY LostGrows, TenantDbAssumption DEF TypeOK
<1>2. CASE d # c
  <2>1. holds[d] # NoClient /\ ~up[holds[d]]
    BY <1>2, StepFrame
  <2>. QED
    BY <1>1, <2>1 DEF DownIsLost
<1>3. CASE d = c
  <2>1. CASE Acquire(c)
    <3>1. PICK k \in Client : up' = [up EXCEPT ![k] = TRUE] /\ holds' = [holds EXCEPT ![c] = k]
      BY <2>1 DEF Acquire
    <3>. QED
      BY <1>3, <3>1 DEF TypeOK
  <2>2. CASE Release(c)
    BY <1>3, <2>2 DEF Release, TypeOK
  <2>3. CASE CommitUnanswered(c)
    BY <1>1, <2>3 DEF CommitUnanswered
  <2>4. CASE ~Acquire(c) /\ ~Release(c) /\ ~CommitUnanswered(c)
    <3>1. UNCHANGED <<holds, up>>
      BY <2>4, StepCases DEF Connect, ConnectFails, Begin, SetContext, Select, Write, Thinks,
         Finish, WorkThrows, Rejects, RollbackRejects, Commit, Rollback, Query
    <3>. QED
      BY <1>1, <1>3, <3>1 DEF DownIsLost
  <2>. QED
    BY <2>1, <2>2, <2>3, <2>4
<1>. QED
  BY <1>2, <1>3

\* COMMIT, answered or not, puts all of the call's rows in the table; no other
\* step touches the table.
LEMMA TableSteps ==
    ASSUME TypeOK, ClientsAccountedFor, SessionFits, NEW c \in Call, StepOf(c)
    PROVE  \/ UNCHANGED table
           \/ /\ c \in Scoped
              /\ pc[c] = "commit"
              /\ Commit(c) \/ CommitUnanswered(c)
              /\ table' = table \cup wrote[c]
              /\ UNCHANGED wrote
<1>1. CASE c \in Scoped /\ (Commit(c) \/ CommitUnanswered(c))
  <2>1. pc[c] = "commit" /\ up[holds[c]] /\ table' = table \cup sess[holds[c]].writes
        /\ UNCHANGED wrote
    BY <1>1 DEF Commit, CommitUnanswered
  <2>2. holds[c] # NoClient
    BY <2>1 DEF ClientsAccountedFor, Holding, Working
  <2>3. sess[holds[c]].writes = wrote[c]
    BY <2>1, <2>2 DEF SessionFits
  <2>. QED
    BY <1>1, <2>1, <2>3
<1>2. CASE ~(c \in Scoped /\ (Commit(c) \/ CommitUnanswered(c)))
  BY <1>2, StepCases DEF Connect, ConnectFails, Acquire, Begin, SetContext, Select, Write, Thinks,
     Finish, WorkThrows, Rejects, RollbackRejects, Rollback, Query, Release
<1>. QED
  BY <1>1, <1>2

\* TableFits, for one call.
TableFitsOne(c) ==
    /\ wrote[c] \subseteq table \/ wrote[c] \cap table = {}
    /\ pc[c] \in {"release_done", "done"} => wrote[c] \subseteq table
    /\ pc[c] \in {"begin", "set", "work"} => wrote[c] \cap table = {}
    /\ pc[c] = "commit" /\ up[holds[c]] => wrote[c] \cap table = {}
    /\ pc[c] \in {"work", "commit", "rollback", "release_failed", "failed"} /\ lost = 0
         => wrote[c] \cap table = {}

LEMMA WroteSteps ==
    ASSUME TypeOK, NEW c \in Call, StepOf(c)
    PROVE  UNCHANGED wrote \/ (c \in Scoped /\ Write(c))
BY StepCases DEF Connect, ConnectFails, Acquire, Begin, SetContext, Select, Thinks,
   Finish, WorkThrows, Rejects, RollbackRejects, Commit, CommitUnanswered, Rollback, Query, Release

LEMMA TableStep ==
    ASSUME IInv, NEW c \in Call, StepOf(c)
    PROVE  TableFits'
<1>. USE DEF IInv
<1>1. ASSUME NEW row \in table'
      PROVE  row[1] \in Scoped /\ row \in wrote'[row[1]]
  <2>1. row[1] \in Scoped /\ row \in wrote[row[1]]
    <3>1. CASE row \in table
      BY <3>1 DEF TableFits
    <3>2. CASE row \notin table
      <4>1. c \in Scoped /\ row \in wrote[c]
        BY <1>1, <3>2, TableSteps
      <4>2. row \in RowsOf(c)
        BY <4>1 DEF WroteOwn
      <4>. QED
        BY <4>1, <4>2 DEF RowsOf
    <3>. QED
      BY <3>1, <3>2
  <2>2. wrote[row[1]] \subseteq wrote'[row[1]]
    <3>1. CASE UNCHANGED wrote
      BY <3>1
    <3>2. CASE c \in Scoped /\ Write(c)
      BY <2>1, <3>2 DEF Write, TypeOK
    <3>. QED
      BY <3>1, <3>2, WroteSteps
  <2>. QED
    BY <2>1, <2>2
<1>2. ASSUME NEW d \in Scoped
      PROVE  TableFitsOne(d)'
  <2>0. d \in Call /\ TableFitsOne(d)
    BY DEF Call, TableFits, TableFitsOne
  <2>a. lost \in Nat /\ lost' \in Nat /\ (lost' = 0 => lost = 0)
    BY LostGrows, TenantDbAssumption DEF TypeOK
  <2>1. CASE d # c
    <3>1. /\ pc'[d] = pc[d] /\ holds'[d] = holds[d] /\ wrote'[d] = wrote[d]
          /\ holds[d] # NoClient => up'[holds[d]] = up[holds[d]]
      BY <2>0, <2>1, StepFrame
    <3>2. pc[d] = "commit" => holds[d] # NoClient
      BY <2>0 DEF ClientsAccountedFor, Holding, Working
    <3>3. UNCHANGED table \/ (c \in Scoped /\ table' = table \cup wrote[c])
      BY TableSteps
    <3>4. c \in Scoped => wrote[c] \cap wrote[d] = {}
      <4>1. c \in Scoped => wrote[c] \subseteq RowsOf(c) /\ wrote[d] \subseteq RowsOf(d)
        BY DEF WroteOwn
      <4>. QED
        BY <2>1, <4>1 DEF RowsOf
    <3>. QED
      BY <2>0, <2>a, <3>1, <3>2, <3>3, <3>4 DEF TableFitsOne
  <2>2. CASE d = c
    <3>1. CASE Commit(c) \/ CommitUnanswered(c)
      <4>1. wrote'[c] \subseteq table'
        <5>1. pc[c] = "commit" /\ up[holds[c]] /\ table' = table \cup sess[holds[c]].writes
              /\ UNCHANGED wrote
          BY <3>1 DEF Commit, CommitUnanswered
        <5>2. holds[c] # NoClient
          BY <5>1 DEF ClientsAccountedFor, Holding, Working
        <5>3. sess[holds[c]].writes = wrote[c]
          BY <5>1, <5>2 DEF SessionFits
        <5>. QED
          BY <5>1, <5>3
      <4>2. pc'[c] = "release_done" \/ (pc'[c] = "commit" /\ ~up'[holds'[c]] /\ lost' # 0)
        <5>1. CASE Commit(c)
          BY <5>1 DEF Commit, Goto, TypeOK
        <5>2. CASE CommitUnanswered(c)
          <6>1. holds[c] \in Client
            BY <5>2, HolderHolds DEF CommitUnanswered, Holding, Working
          <6>. QED
            BY <2>a, <5>2, <6>1 DEF CommitUnanswered, TypeOK
        <5>. QED
          BY <3>1, <5>1, <5>2
      <4>. QED
        BY <2>2, <4>1, <4>2 DEF TableFitsOne
    <3>2. CASE Write(c)
      <4>1. /\ pc[c] = "work" /\ UNCHANGED <<pc, table>>
            /\ wrote'[c] = wrote[c] \cup {<<c, made[c] + 1>>}
        BY <2>2, <3>2 DEF Write, TypeOK
      <4>2. wrote[c] \cap table = {}
        BY <2>0, <2>2, <4>1 DEF TableFitsOne
      <4>3. <<c, made[c] + 1>> \notin table
        <5>. SUFFICES ASSUME <<c, made[c] + 1>> \in table PROVE FALSE
          OBVIOUS
        <5>1. <<c, made[c] + 1>> \in wrote[c]
          BY DEF TableFits
        <5>. QED
          BY <4>2, <5>1
      <4>. QED
        BY <2>2, <4>1, <4>2, <4>3 DEF TableFitsOne
    <3>3. CASE Acquire(c)
      <4>1. pc[c] = "queued" /\ pc'[c] = "begin" /\ UNCHANGED <<table, wrote>>
        BY <2>2, <3>3 DEF Acquire, Goto, TypeOK
      <4>2. wrote[c] = {}
        BY <2>2, <4>1 DEF WroteOwn
      <4>. QED
        BY <2>2, <4>1, <4>2 DEF TableFitsOne
    <3>4. CASE Rejects(c)
      <4>1. /\ pc[c] \in {"begin", "set", "work", "commit"} /\ ~up[holds[c]]
            /\ pc'[c] = "rollback" /\ UNCHANGED <<table, wrote, lost>>
        BY <3>4 DEF Rejects, Goto, TypeOK
      <4>2. lost # 0
        BY <2>a, <4>1 DEF DownIsLost, ClientsAccountedFor, Holding, Working
      <4>. QED
        BY <2>0, <2>2, <4>1, <4>2 DEF TableFitsOne
    <3>5. CASE ConnectFails(c)
      <4>1. pc'[c] = "failed" /\ UNCHANGED <<table, wrote>> /\ lost' # 0
        BY <2>a, <3>5 DEF ConnectFails, Goto, TypeOK
      <4>. QED
        BY <2>0, <2>2, <4>1 DEF TableFitsOne
    <3>6. CASE Connect(c) \/ Begin(c) \/ SetContext(c) \/ Select(c)
      BY <2>0, <2>2, <3>6 DEF Connect, Begin, SetContext, Select, Goto, TypeOK, TableFitsOne
    <3>7. CASE Finish(c) \/ WorkThrows(c) \/ Rollback(c) \/ RollbackRejects(c)
      BY <2>0, <2>2, <3>7 DEF Finish, WorkThrows, Rollback, RollbackRejects, Goto, TypeOK,
         TableFitsOne
    <3>8. CASE Query(c)
      BY <2>2, <3>8, TenantDbAssumption DEF Query, KindFits
    <3>9. CASE Release(c)
      BY <2>0, <2>2, <3>9 DEF Release, Goto, TypeOK, TableFitsOne
    <3>. QED
      BY <3>1, <3>2, <3>3, <3>4, <3>5, <3>6, <3>7, <3>8, <3>9, StepCases DEF Thinks
  <2>. QED
    BY <2>1, <2>2
<1>. QED
  BY <1>1, <1>2 DEF TableFits, TableFitsOne

LEMMA ReadsStep ==
    ASSUME TypeOK, ClientsAccountedFor, KindFits, SessionFits, WroteOwn, ReadsStand,
           NEW c \in Call, StepOf(c)
    PROVE  ReadsStand'
<1>0. table \subseteq table'
  BY TableSteps
<1>1. ASSUME Visible(holds[c]) \subseteq table \cup RowsOf(c), UNCHANGED table,
             seen' = [seen EXCEPT ![c] = @ \cup Visible(holds[c])]
      PROVE  ReadsStand'
  <2>1. \A d \in Call : seen'[d] = IF d = c THEN seen[c] \cup Visible(holds[c]) ELSE seen[d]
    BY <1>1 DEF TypeOK
  <2>. QED
    BY <1>1, <2>1 DEF ReadsStand
<1>2. ASSUME UNCHANGED seen PROVE ReadsStand'
  BY <1>0, <1>2 DEF ReadsStand
<1>3. CASE c \in Scoped /\ Select(c)
  <2>1. holds[c] # NoClient /\ up[holds[c]]
    BY <1>3 DEF Select, ClientsAccountedFor, Holding, Working
  <2>2. sess[holds[c]].writes \subseteq RowsOf(c)
    BY <1>3, <2>1 DEF SessionFits, WroteOwn
  <2>. QED
    BY <1>1, <1>3, <2>2 DEF Select, Visible
<1>4. CASE Query(c)
  <2>1. CASE up[holds[c]]
    <3>1. holds[c] # NoClient /\ pc[c] = "query"
      BY <1>4 DEF Query, ClientsAccountedFor, Holding, Working
    <3>2. sess[holds[c]].writes = {}
      BY <2>1, <3>1 DEF SessionFits, Fresh
    <3>. QED
      BY <1>1, <1>4, <2>1, <3>2 DEF Query, Visible
  <2>2. CASE ~up[holds[c]]
    BY <1>2, <1>4, <2>2 DEF Query
  <2>. QED
    BY <2>1, <2>2
<1>5. CASE ~(c \in Scoped /\ Select(c)) /\ ~Query(c)
  <2>1. UNCHANGED seen
    BY <1>5, StepCases DEF Connect, ConnectFails, Acquire, Begin, SetContext, Write, Thinks, Finish,
       WorkThrows, Rejects, RollbackRejects, Commit, CommitUnanswered, Rollback, Release
  <2>. QED
    BY <1>2, <2>1
<1>. QED
  BY <1>3, <1>4, <1>5

\* A lost connection takes its session with it and nothing else.
LEMMA LoseStep ==
    ASSUME IInv, NEW k \in Client, Lose(k)
    PROVE  IInv'
<1>. USE DEF IInv
<1>1. /\ UNCHANGED <<pc, holds, table, wrote, seen>>
      /\ lost \in Nat /\ lost' = lost + 1
      /\ up' = [up EXCEPT ![k] = FALSE]
      /\ sess' = [sess EXCEPT ![k] = Fresh]
      /\ slot' = [slot EXCEPT ![k] = IF @ = "idle" THEN "closed" ELSE @]
  BY TenantDbAssumption DEF Lose, TypeOK
<1>2. TypeOK' /\ ClientsAccountedFor'
  BY TypeLose, AccountedLose
<1>3. KindFits' /\ WroteOwn' /\ ReadsStand'
  BY <1>1 DEF KindFits, WroteOwn, ReadsStand
<1>4. CleanUnlessHeld'
  BY <1>1 DEF CleanUnlessHeld, TypeOK
<1>5. SessionFits'
  <2>. SUFFICES ASSUME NEW c \in Call PROVE FitsOne(c)'
    BY DEF SessionFits, FitsOne
  <2>1. FitsOne(c)
    BY DEF SessionFits, FitsOne
  <2>2. CASE holds[c] = k
    BY <1>1, <2>2 DEF FitsOne, TypeOK
  <2>3. CASE holds[c] # k
    <3>1. holds[c] # NoClient => sess'[holds[c]] = sess[holds[c]] /\ up'[holds[c]] = up[holds[c]]
      BY <1>1, <2>3 DEF TypeOK
    <3>. QED
      BY <1>1, <2>1, <3>1 DEF FitsOne
  <2>. QED
    BY <2>2, <2>3
<1>6. TableFits'
  <2>1. lost' # 0
    BY <1>1
  <2>2. \A c \in Scoped : pc[c] = "commit" /\ up'[holds[c]] => up[holds[c]]
    BY <1>1, HolderHolds DEF TypeOK, Holding, Working, Call
  <2>. QED
    BY <1>1, <2>1, <2>2 DEF TableFits
<1>7. DownIsLost'
  BY <1>1 DEF DownIsLost
<1>. QED
  BY <1>2, <1>3, <1>4, <1>5, <1>6, <1>7

-----------------------------------------------------------------------------
(* The theorems. *)

LEMMA IInvInit == Init => IInv
<1>. SUFFICES ASSUME Init PROVE IInv
  OBVIOUS
<1>. USE DEF Init
<1>1. TypeOK
  BY FreshIsSession, TenantDbAssumption DEF TypeOK
<1>2. ClientsAccountedFor
  BY TenantDbAssumption DEF ClientsAccountedFor, Holding, Working
<1>3. KindFits /\ CleanUnlessHeld /\ SessionFits /\ WroteOwn /\ TableFits /\ DownIsLost
  BY DEF KindFits, CleanUnlessHeld, SessionFits, WroteOwn, TableFits, DownIsLost, Working, Call
<1>4. ReadsStand
  BY DEF ReadsStand, Call
<1>. QED
  BY <1>1, <1>2, <1>3, <1>4 DEF IInv

LEMMA IInvNext == IInv /\ [Next]_vars => IInv'
<1>. SUFFICES ASSUME IInv, [Next]_vars PROVE IInv'
  OBVIOUS
<1>1. ASSUME NEW c \in Call, StepOf(c) PROVE IInv'
  BY <1>1, TypeStep, AccountedStep, KindStep, CleanStep, FitsStep, WroteOwnStep, TableStep,
     DownStep, ReadsStep DEF IInv
<1>2. ASSUME NEW k \in Client, Lose(k) PROVE IInv'
  BY <1>2, LoseStep
<1>3. CASE UNCHANGED vars
  <2>1. TypeOK' /\ ClientsAccountedFor' /\ KindFits' /\ CleanUnlessHeld'
    BY <1>3 DEF vars, IInv, TypeOK, ClientsAccountedFor, KindFits, CleanUnlessHeld
  <2>2. SessionFits' /\ WroteOwn'
    BY <1>3 DEF vars, IInv, SessionFits, WroteOwn
  <2>3. TableFits' /\ DownIsLost' /\ ReadsStand'
    BY <1>3 DEF vars, IInv, TableFits, DownIsLost, ReadsStand
  <2>. QED
    BY <2>1, <2>2, <2>3 DEF IInv
<1>. QED
  BY <1>1, <1>2, <1>3, NextCases

\* The invariant holds throughout every behaviour.
THEOREM Inductive == Spec => []IInv
BY IInvInit, IInvNext, PTL DEF Spec

\* Every variable keeps its type.
THEOREM TypeCorrect == Spec => []TypeOK
<1>1. IInv => TypeOK
  BY DEF IInv
<1>. QED
  BY <1>1, Inductive, PTL

\* However clients are reused and connections lost, the statements of a scoped
\* call run in its own transaction with its own church set, and those of an
\* unscoped one with nothing set.
THEOREM ContextsApart == Spec => []OwnContext
<1>1. IInv => OwnContext
  <2>. SUFFICES ASSUME IInv, NEW c \in Call, holds[c] # NoClient, up[holds[c]]
                PROVE  /\ pc[c] \in {"work", "commit"} =>
                            sess[holds[c]] = [tx |-> "open", church |-> ChurchOf[c], writes |-> wrote[c]]
                       /\ pc[c] = "query" => sess[holds[c]] = Fresh
    BY DEF OwnContext
  <2>1. sess[holds[c]] \in Session
    BY DEF IInv, TypeOK
  <2>2. CASE pc[c] \in {"work", "commit"}
    <3>1. /\ sess[holds[c]].tx = "open" /\ sess[holds[c]].church = ChurchOf[c]
          /\ sess[holds[c]].writes = wrote[c]
      BY <2>2 DEF IInv, SessionFits
    <3>. QED
      BY <2>1, <2>2, <3>1 DEF Session
  <2>. QED
    BY <2>2 DEF IInv, SessionFits
<1>. QED
  BY <1>1, Inductive, PTL

\* Nothing a call reads is taken back, whatever its client was in the middle of.
THEOREM NothingDirtyRead == Spec => []ReadsStand
<1>1. IInv => ReadsStand
  BY DEF IInv
<1>. QED
  BY <1>1, Inductive, PTL

\* The pool never loses a client or hands one out twice.
THEOREM PoolKeepsClients == Spec => []ClientsAccountedFor
<1>1. IInv => ClientsAccountedFor
  BY DEF IInv
<1>. QED
  BY <1>1, Inductive, PTL

\* While no connection is lost, a call that throws has written nothing.
THEOREM ThrowsWriteNothing == Spec => []ThrownWroteNothing
<1>1. IInv => ThrownWroteNothing
  BY DEF IInv, TableFits, ThrownWroteNothing
<1>. QED
  BY <1>1, Inductive, PTL

-----------------------------------------------------------------------------
(* TenantDb implements TenantTx. *)

\* What a call has answered, in the terms of TenantTx.
answers == [c \in Scoped |-> IF pc[c] \in {"done", "failed"} THEN pc[c] ELSE "none"]

\* What a step changes of the answers.
LEMMA AnswerStep ==
    ASSUME IInv, TypeOK', NEW c \in Call, StepOf(c), NEW a,
           c \in Scoped => a = IF pc'[c] \in {"done", "failed"} THEN pc'[c] ELSE "none"
    PROVE  answers' = IF c \in Scoped THEN [answers EXCEPT ![c] = a] ELSE answers
<1>1. \A d \in Scoped \ {c} : pc'[d] = pc[d]
  BY StepFrame DEF IInv, Call
<1>. QED
  BY <1>1 DEF answers

LEMMA TxStep ==
    ASSUME IInv, NEW c \in Call, StepOf(c)
    PROVE  [Tx!Next]_<<table, wrote, answers>>
<1>. USE DEF IInv
<1>0. TypeOK'
  BY TypeStep
<1>a. c \in Scoped => answers[c] = IF pc[c] \in {"done", "failed"} THEN pc[c] ELSE "none"
  BY DEF answers
<1>1. CASE c \notin Scoped
  <2>1. UNCHANGED answers
    BY <1>0, <1>1, AnswerStep
  <2>2. UNCHANGED <<table, wrote>>
    BY <1>1, TableSteps, WroteSteps
  <2>. QED
    BY <2>1, <2>2
<1>2. ASSUME c \in Scoped, pc'[c] \in {"done", "failed"} <=> pc[c] \in {"done", "failed"},
             pc[c] \in {"done", "failed"} => pc'[c] = pc[c]
      PROVE  UNCHANGED answers
  <2>1. \A d \in Scoped \ {c} : pc'[d] = pc[d]
    BY StepFrame DEF Call
  <2>. QED
    BY <1>2, <2>1 DEF answers
<1>3. CASE c \in Scoped /\ Write(c)
  <2>1. /\ pc[c] = "work" /\ UNCHANGED <<pc, table>>
        /\ wrote' = [wrote EXCEPT ![c] = @ \cup {<<c, made[c] + 1>>}]
    BY <1>3 DEF Write
  <2>2. wrote[c] \cap table = {}
    BY <1>3, <2>1 DEF TableFits
  <2>3. <<c, made[c] + 1>> \in RowsOf(c)
    BY <1>3, TenantDbAssumption DEF Write, RowsOf, TypeOK
  <2>4. UNCHANGED answers
    BY <2>1 DEF answers
  <2>5. answers[c] = "none"
    BY <1>3, <1>a, <2>1
  <2>6. Tx!Write(c)
    BY <2>1, <2>2, <2>3, <2>4, <2>5 DEF Tx!Write, answers
  <2>. QED
    BY <1>3, <2>6 DEF Tx!Next
<1>4. CASE c \in Scoped /\ (Commit(c) \/ CommitUnanswered(c))
  <2>1. pc[c] = "commit" /\ up[holds[c]] /\ table' = table \cup sess[holds[c]].writes
        /\ UNCHANGED wrote /\ pc'[c] \in {"commit", "release_done"}
    BY <1>4 DEF Commit, CommitUnanswered, Goto, TypeOK
  <2>2. holds[c] # NoClient
    BY <2>1 DEF ClientsAccountedFor, Holding, Working
  <2>3. sess[holds[c]].writes = wrote[c]
    BY <2>1, <2>2 DEF SessionFits
  <2>4. wrote[c] \cap table = {}
    BY <1>4, <2>1 DEF TableFits
  <2>5. UNCHANGED answers
    BY <1>2, <1>4, <2>1
  <2>6. answers[c] = "none"
    BY <1>4, <1>a, <2>1
  <2>7. Tx!Apply(c)
    BY <2>1, <2>3, <2>4, <2>5, <2>6 DEF Tx!Apply, answers
  <2>. QED
    BY <1>4, <2>7 DEF Tx!Next
<1>5. CASE c \in Scoped /\ Release(c)
  <2>1. /\ pc[c] \in {"release_done", "release_failed"}
        /\ pc'[c] = IF pc[c] = "release_done" THEN "done" ELSE "failed"
        /\ UNCHANGED <<table, wrote>>
    BY <1>5 DEF Release, Goto, TypeOK
  <2>2. answers[c] = "none"
    BY <1>5, <1>a, <2>1
  <2>3. answers' = [answers EXCEPT ![c] = pc'[c]]
    BY <1>0, <1>5, <2>1, AnswerStep
  <2>4. pc[c] = "release_done" => wrote[c] \subseteq table
    BY <1>5 DEF TableFits
  <2>5. Tx!Return(c) \/ Tx!Throw(c)
    BY <2>1, <2>2, <2>3, <2>4 DEF Tx!Return, Tx!Throw, answers
  <2>. QED
    BY <1>5, <2>5 DEF Tx!Next
<1>6. CASE c \in Scoped /\ ConnectFails(c)
  <2>1. pc[c] = "queued" /\ pc'[c] = "failed" /\ UNCHANGED <<table, wrote>>
    BY <1>6 DEF ConnectFails, Goto, TypeOK
  <2>2. answers[c] = "none"
    BY <1>6, <1>a, <2>1
  <2>3. answers' = [answers EXCEPT ![c] = "failed"]
    BY <1>0, <1>6, <2>1, AnswerStep
  <2>4. Tx!Throw(c)
    BY <2>1, <2>2, <2>3 DEF Tx!Throw, answers
  <2>. QED
    BY <1>6, <2>4 DEF Tx!Next
<1>7. CASE c \in Scoped /\ (Connect(c) \/ Acquire(c) \/ Begin(c) \/ SetContext(c) \/ Select(c)
                            \/ Thinks(c) \/ Rollback(c) \/ Query(c))
  <2>1. UNCHANGED <<table, wrote>>
    BY <1>7 DEF Connect, Acquire, Begin, SetContext, Select, Thinks, Finish, WorkThrows, Rejects,
       RollbackRejects, Rollback, Query
  <2>2. pc[c] \notin {"done", "failed"} /\ pc'[c] \notin {"done", "failed"}
    BY <1>7 DEF Connect, Acquire, Begin, SetContext, Select, Thinks, Finish, WorkThrows, Rejects,
       RollbackRejects, Rollback, Query, Goto, TypeOK
  <2>. QED
    BY <1>2, <1>7, <2>1, <2>2
<1>. QED
  BY <1>1, <1>3, <1>4, <1>5, <1>6, <1>7, StepCases

LEMMA TxInit == Init => Tx!Init
BY DEF Init, Tx!Init, Call

LEMMA TxNext == IInv /\ [Next]_vars => [Tx!Next]_<<table, wrote, answers>>
<1>. SUFFICES ASSUME IInv, [Next]_vars PROVE [Tx!Next]_<<table, wrote, answers>>
  OBVIOUS
<1>1. ASSUME NEW k \in Client, Lose(k) PROVE UNCHANGED <<table, wrote, answers>>
  BY <1>1 DEF Lose, answers
<1>2. CASE UNCHANGED vars
  BY <1>2 DEF vars, answers
<1>. QED
  BY <1>1, <1>2, TxStep, NextCases

\* runInTenantContext keeps its promise: to its callers each call is one atomic
\* write, whatever is interleaved with it, thrown or lost.
THEOREM ImplementsTx == Spec => AllOrNothing
<1>1. Init => Tx!Init
  BY TxInit
<1>2. IInv /\ [Next]_vars => [Tx!Next]_<<table, wrote, answers>>
  BY TxNext
<1>. QED
  BY <1>1, <1>2, Inductive, PTL DEF Spec, AllOrNothing, Tx!Spec, answers
=============================================================================
