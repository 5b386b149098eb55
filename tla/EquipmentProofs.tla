--------------------------- MODULE EquipmentProofs ---------------------------
(***************************************************************************)
(* Proofs about Equipment, for any items, reservations and requests.        *)
(***************************************************************************)
EXTENDS Equipment, TLAPS

\* What the calls that are setting the status of i are about to say is so; if
\* there are none, the status says it.
Agrees(i) ==
    /\ \A p \in Setting(i) : IF loc[p].op = "checkout" THEN OutOf(i) # {} ELSE OutOf(i) = {}
    /\ Setting(i) = {} => status[i] = Level(i)

IInv ==
    /\ TypeOK
    /\ \A i \in Item : ~disturbed[i] => Agrees(i)

-----------------------------------------------------------------------------
LEMMA InitInv == Init => IInv
BY DEF Init, IInv, TypeOK, Status, Agrees, Setting, OutOf, Level

LEMMA TypeStep == ASSUME TypeOK, [Next]_vars PROVE TypeOK'
<1>1. ASSUME NEW r \in Reservation, NEW i \in Item, Reserve(r, i) PROVE TypeOK'
  <2>. DEFINE row == [item |-> i, checkedOut |-> FALSE, checkedIn |-> FALSE]
  <2>1. row \in Row
    BY DEF Row
  <2>2. booked' = Inserted(booked, r, row) /\ UNCHANGED <<status, pc, loc, disturbed>>
    BY <1>1 DEF Reserve
  <2>. HIDE DEF row
  <2>3. /\ DOMAIN booked' = DOMAIN booked \cup {r}
        /\ \A x \in DOMAIN booked' : booked'[x] = IF x = r THEN row ELSE booked[x]
    BY <2>2 DEF Inserted
  <2>. QED
    BY <2>1, <2>2, <2>3 DEF TypeOK
<1>2. ASSUME NEW p \in Request, NEW call \in Call, Arrive(p, call) PROVE TypeOK'
  <2>1. /\ loc' = Inserted(loc, p, call)
        /\ pc' = [pc EXCEPT ![p] = "found"]
        /\ UNCHANGED <<status, booked, disturbed>>
    BY <1>2 DEF Arrive, Goto
  <2>2. /\ DOMAIN loc' = DOMAIN loc \cup {p}
        /\ \A q \in DOMAIN loc' : loc'[q] = IF q = p THEN call ELSE loc[q]
    BY <2>1 DEF Inserted
  <2>3. /\ DOMAIN loc' = {q \in Request : pc'[q] # "idle"}
        /\ pc' \in [Request -> {"idle", "found", "stamped", "done", "failed"}]
        /\ pc'[p] = "found" /\ \A q \in Request : q # p => pc'[q] = pc[q]
    BY <2>1, <2>2 DEF TypeOK
  <2>. QED
    BY <2>1, <2>2, <2>3 DEF TypeOK
<1>3. ASSUME NEW p \in Request, Stamp(p) PROVE TypeOK'
  <2>1. p \in DOMAIN loc /\ loc[p] \in Call /\ loc[p].res \in DOMAIN booked
    BY <1>3 DEF Stamp, TypeOK
  <2>2. Stamped(booked[loc[p].res], loc[p].op) \in Row
    <3>1. ASSUME NEW row \in Row, NEW op PROVE Stamped(row, op) \in Row
      BY DEF Stamped, Row
    <3>. QED
      BY <2>1, <3>1 DEF TypeOK
  <2>3. DOMAIN booked' = DOMAIN booked /\ \A r \in DOMAIN booked : booked'[r] \in Row
    BY <1>3, <2>1, <2>2 DEF Stamp, TypeOK
  <2>4. disturbed' \in [Item -> BOOLEAN]
    <3>1. \A i \in Item : (disturbed[i] \/ Disturbs(p, i)) \in BOOLEAN
      OBVIOUS
    <3>. QED
      BY <1>3, <3>1, Zenon DEF Stamp
  <2>. QED
    BY <1>3, <2>1, <2>3, <2>4 DEF Stamp, Goto, TypeOK
<1>4. ASSUME NEW p \in Request, SetStatus(p) PROVE TypeOK'
  <2>1. p \in DOMAIN loc /\ loc[p] \in Call
    BY <1>4 DEF SetStatus, TypeOK
  <2>2. status' \in [Item -> Status]
    BY <1>4, <2>1 DEF SetStatus, StatusFor, Status, TypeOK
  <2>. DEFINE b == disturbed[loc[p].item]
                   /\ ~(Setting(loc[p].item) = {p} /\ StatusFor(loc[p].op) = Level(loc[p].item))
  <2>3. disturbed' = [disturbed EXCEPT ![loc[p].item] = b] /\ b \in BOOLEAN
    BY <1>4, Zenon DEF SetStatus
  <2>. HIDE DEF b
  <2>4. disturbed' \in [Item -> BOOLEAN]
    BY <2>3 DEF TypeOK
  <2>5. pc' = [pc EXCEPT ![p] = "done"] /\ UNCHANGED <<booked, loc>> /\ pc[p] = "stamped"
    BY <1>4 DEF SetStatus, Goto
  <2>. QED
    BY <2>1, <2>2, <2>4, <2>5 DEF TypeOK
<1>5. ASSUME NEW p \in Request, NotFound(p) \/ Abort(p) PROVE TypeOK'
  <2>1. disturbed' \in [Item -> BOOLEAN]
    BY <1>5 DEF NotFound, Abort, TypeOK
  <2>. QED
    BY <1>5, <2>1 DEF NotFound, Abort, Goto, TypeOK
<1>6. ASSUME NEW i \in Edited, NEW new \in Status, UpdateStatus(i, new) PROVE TypeOK'
  <2>. DEFINE b == ~(Setting(i) = {} /\ new = Level(i))
  <2>1. disturbed' = [disturbed EXCEPT ![i] = b] /\ b \in BOOLEAN
    BY <1>6, Zenon DEF UpdateStatus
  <2>. HIDE DEF b
  <2>2. disturbed' \in [Item -> BOOLEAN]
    BY <2>1 DEF TypeOK
  <2>3. status' = [status EXCEPT ![i] = new] /\ UNCHANGED <<booked, pc, loc>>
    BY <1>6 DEF UpdateStatus
  <2>. QED
    BY <2>2, <2>3 DEF TypeOK
<1>7. CASE UNCHANGED vars
  BY <1>7 DEF vars, TypeOK
<1>. QED
  BY <1>1, <1>2, <1>3, <1>4, <1>5, <1>6, <1>7 DEF Next

\* A step that leaves the reservations of i, its status and the calls that are
\* setting it alone.
LEMMA Unmoved ==
    ASSUME NEW i \in Item, Agrees(i), OutOf(i)' = OutOf(i), status'[i] = status[i],
           Setting(i)' = Setting(i), \A p \in Setting(i) : loc'[p] = loc[p]
    PROVE  Agrees(i)'
BY DEF Agrees, Level

LEMMA StampAgrees ==
    ASSUME IInv, NEW p \in Request, Stamp(p), NEW i \in Item, ~disturbed'[i]
    PROVE  Agrees(i)'
<1>. DEFINE c == loc[p]
            row == booked[c.res]
<1>1. /\ p \in DOMAIN loc /\ c \in Call /\ c.res \in DOMAIN booked /\ row \in Row
      /\ pc[p] = "found"
  BY DEF IInv, Stamp, TypeOK
<1>2. /\ ~disturbed[i] /\ Agrees(i)
      /\ ~Disturbs(p, i)
  BY DEF IInv, Stamp
<1>3. /\ booked' = [booked EXCEPT ![c.res] = Stamped(row, c.op)]
      /\ UNCHANGED <<status, loc>>
      /\ pc' = [pc EXCEPT ![p] = "stamped"]
  BY DEF Stamp, Goto
<1>4. /\ DOMAIN booked' = DOMAIN booked
      /\ booked'[c.res].item = row.item
      /\ \A r \in DOMAIN booked : r # c.res => booked'[r] = booked[r]
  BY <1>1, <1>3 DEF Stamped, Row
<1>5. Setting(i)' = IF c.item = i THEN Setting(i) \cup {p} ELSE Setting(i)
  BY <1>1, <1>3 DEF Setting, IInv, TypeOK
<1>. HIDE DEF row
<1>6. CASE row.item # i
  <2>1. c.item # i
    BY <1>2, <1>6 DEF Disturbs, row
  <2>2. OutOf(i)' = OutOf(i)
    BY <1>4, <1>6 DEF OutOf, row
  <2>. QED
    BY <1>2, <1>3, <1>5, <2>1, <2>2, Unmoved
<1>7. CASE row.item = i
  <2>1. /\ c.item = i
        /\ \A q \in Setting(i) : loc[q].op = c.op
        /\ c.op = "checkin" => OutOf(i) \ {c.res} = {}
        /\ c.op = "checkout" => ~row.checkedIn
    BY <1>2, <1>7 DEF Disturbs, row
  <2>2. CASE c.op = "checkout"
    <3>1. booked'[c.res].checkedOut /\ ~booked'[c.res].checkedIn
      BY <1>1, <1>3, <2>1, <2>2 DEF Stamped, Row, row
    <3>2. c.res \in OutOf(i)'
      BY <1>1, <1>4, <1>7, <3>1 DEF OutOf
    <3>. QED
      BY <1>3, <1>5, <2>1, <2>2, <3>2 DEF Agrees
  <2>3. CASE c.op = "checkin"
    <3>1. booked'[c.res].checkedIn
      BY <1>1, <1>3, <2>3 DEF Stamped, Row, row
    <3>2. OutOf(i)' = {}
      BY <1>4, <2>1, <2>3, <3>1 DEF OutOf
    <3>. QED
      BY <1>3, <1>5, <2>1, <2>3, <3>2 DEF Agrees
  <2>. QED
    BY <1>1, <2>2, <2>3 DEF Call
<1>. QED
  BY <1>6, <1>7

LEMMA SetStatusAgrees ==
    ASSUME IInv, NEW p \in Request, SetStatus(p), NEW i \in Item, ~disturbed'[i]
    PROVE  Agrees(i)'
<1>1. /\ p \in DOMAIN loc /\ loc[p] \in Call /\ pc[p] = "stamped"
      /\ UNCHANGED <<booked, loc>>
      /\ pc' = [pc EXCEPT ![p] = "done"]
      /\ status' = [status EXCEPT ![loc[p].item] = StatusFor(loc[p].op)]
  BY DEF IInv, SetStatus, Goto, TypeOK
<1>2. Setting(i)' = Setting(i) \ {p} /\ OutOf(i)' = OutOf(i)
  BY <1>1 DEF Setting, OutOf, IInv, TypeOK
<1>3. CASE loc[p].item # i
  <2>1. ~disturbed[i] /\ Agrees(i) /\ status'[i] = status[i]
    BY <1>1, <1>3 DEF IInv, SetStatus, TypeOK
  <2>2. p \notin Setting(i)
    BY <1>3 DEF Setting
  <2>. QED
    BY <1>1, <1>2, <2>1, <2>2, Unmoved
<1>4. CASE loc[p].item = i
  <2>1. status'[i] = StatusFor(loc[p].op) /\ p \in Setting(i)
    BY <1>1, <1>4 DEF IInv, TypeOK, Setting
  <2>2. \/ ~disturbed[i]
        \/ Setting(i) = {p} /\ StatusFor(loc[p].op) = Level(i)
    BY <1>4 DEF IInv, SetStatus, TypeOK
  <2>3. CASE ~disturbed[i]
    <3>1. StatusFor(loc[p].op) = Level(i)
      BY <1>1, <2>1, <2>3 DEF IInv, Agrees, StatusFor, Level, Call
    <3>. QED
      BY <1>1, <1>2, <2>1, <2>3, <3>1 DEF IInv, Agrees, Level
  <2>4. CASE Setting(i) = {p} /\ StatusFor(loc[p].op) = Level(i)
    BY <1>1, <1>2, <2>1, <2>4 DEF Agrees, Level
  <2>. QED
    BY <2>2, <2>3, <2>4
<1>. QED
  BY <1>3, <1>4

LEMMA OtherAgrees ==
    ASSUME IInv, NEW i \in Item, ~disturbed'[i],
           \/ \E r \in Reservation, j \in Item : Reserve(r, j)
           \/ \E p \in Request : NotFound(p) \/ Abort(p) \/ \E call \in Call : Arrive(p, call)
           \/ \E j \in Edited, new \in Status : UpdateStatus(j, new)
           \/ UNCHANGED vars
    PROVE  Agrees(i)'
<1>1. ASSUME NEW r \in Reservation, NEW j \in Item, Reserve(r, j) PROVE Agrees(i)'
  <2>1. /\ r \notin DOMAIN booked /\ UNCHANGED <<status, pc, loc, disturbed>>
        /\ booked' = Inserted(booked, r, [item |-> j, checkedOut |-> FALSE, checkedIn |-> FALSE])
    BY <1>1 DEF Reserve
  <2>2. OutOf(i)' = OutOf(i)
    BY <2>1 DEF OutOf, Inserted
  <2>3. Setting(i)' = Setting(i)
    BY <2>1 DEF Setting
  <2>. QED
    BY <2>1, <2>2, <2>3, Unmoved DEF IInv
<1>2. ASSUME NEW p \in Request, NotFound(p) \/ Abort(p) PROVE Agrees(i)'
  <2>1. /\ UNCHANGED <<status, booked, loc>>
        /\ pc' = [pc EXCEPT ![p] = "failed"]
        /\ p \in DOMAIN loc /\ loc[p] \in Call
    BY <1>2 DEF NotFound, Abort, Goto, IInv, TypeOK
  <2>2. /\ ~disturbed[i]
        /\ pc[p] = "stamped" => loc[p].item # i
    BY <1>2, <2>1 DEF NotFound, Abort, IInv, TypeOK, Call
  <2>3. Setting(i)' = Setting(i) /\ OutOf(i)' = OutOf(i)
    BY <2>1, <2>2 DEF Setting, OutOf, IInv, TypeOK
  <2>. QED
    BY <2>1, <2>2, <2>3, Unmoved DEF IInv
<1>3. ASSUME NEW p \in Request, NEW call \in Call, Arrive(p, call) PROVE Agrees(i)'
  <2>1. /\ UNCHANGED <<status, booked, disturbed>>
        /\ DOMAIN loc' = DOMAIN loc \cup {p} /\ p \notin DOMAIN loc
        /\ \A q \in DOMAIN loc : loc'[q] = loc[q]
        /\ pc' = [pc EXCEPT ![p] = "found"]
    BY <1>3 DEF Arrive, Goto, Inserted, IInv, TypeOK
  <2>2. Setting(i)' = Setting(i) /\ OutOf(i)' = OutOf(i)
    BY <2>1 DEF Setting, OutOf, IInv, TypeOK
  <2>3. \A q \in Setting(i) : loc'[q] = loc[q]
    BY <2>1 DEF Setting
  <2>. QED
    BY <2>1, <2>2, <2>3, Unmoved DEF IInv
<1>4. ASSUME NEW j \in Edited, NEW new \in Status, UpdateStatus(j, new) PROVE Agrees(i)'
  <2>1. /\ UNCHANGED <<booked, pc, loc>> /\ status' = [status EXCEPT ![j] = new]
    BY <1>4 DEF UpdateStatus
  <2>2. Setting(i)' = Setting(i) /\ OutOf(i)' = OutOf(i) /\ Level(i)' = Level(i)
    BY <2>1 DEF Setting, OutOf, Level
  <2>3. CASE i = j
    <3>1. Setting(i) = {} /\ new = Level(i)
      BY <1>4, <2>3 DEF UpdateStatus, IInv, TypeOK
    <3>2. status'[i] = new
      BY <2>1, <2>3 DEF IInv, TypeOK
    <3>. QED
      BY <2>2, <3>1, <3>2 DEF Agrees
  <2>4. CASE i # j
    <3>1. ~disturbed[i] /\ status'[i] = status[i]
      BY <1>4, <2>4 DEF UpdateStatus, IInv, TypeOK
    <3>. QED
      BY <2>1, <2>2, <3>1, Unmoved DEF IInv
  <2>. QED
    BY <2>3, <2>4
<1>5. ASSUME UNCHANGED vars PROVE Agrees(i)'
  <2>1. Setting(i)' = Setting(i) /\ OutOf(i)' = OutOf(i)
    BY <1>5 DEF vars, Setting, OutOf
  <2>. QED
    BY <1>5, <2>1, Unmoved DEF IInv, vars
<1>. QED
  BY <1>1, <1>2, <1>3, <1>4, <1>5

\* The strengthening holds throughout.
THEOREM Inductive == Spec => []IInv
<1>1. ASSUME IInv, [Next]_vars PROVE IInv'
  <2>1. TypeOK'
    BY <1>1, TypeStep DEF IInv
  <2>2. \A i \in Item : ~disturbed'[i] => Agrees(i)'
    BY <1>1, StampAgrees, SetStatusAgrees, OtherAgrees DEF Next
  <2>. QED
    BY <2>1, <2>2 DEF IInv
<1>. QED
  BY <1>1, InitInv, PTL DEF Spec

\* The variables keep their types; a call that has stamped has a reservation.
THEOREM TypeCorrect == Spec => []TypeOK
<1>1. IInv => TypeOK
  BY DEF IInv
<1>. QED
  BY <1>1, Inductive, PTL

\* An item's status contradicts its reservations only after one of the causes
\* that StatusFitsUse names.
THEOREM StatusFollowsUse == Spec => []StatusFitsUse
<1>1. IInv => StatusFitsUse
  BY DEF IInv, Agrees, StatusFitsUse
<1>. QED
  BY <1>1, Inductive, PTL
=============================================================================
