------------------------------ MODULE Equipment ------------------------------
(***************************************************************************)
(* Reservations of equipment and the status of the items: the handlers of   *)
(* EquipmentController.  Checking out and checking in are two transactions  *)
(* each: the reservation is stamped, then the status of the item is set.    *)
(* Nothing else relates the two tables, and no step looks at the status.    *)
(***************************************************************************)
EXTENDS FiniteSets

CONSTANTS
    Item,           \* ids in table equipment (items are never deleted)
    Reservation,    \* ids for reservations; bounds the model
    Request,        \* the checkout and checkin calls; bounds the model
    Edited          \* items whose status PATCH may set; bounds the model

ASSUME EquipmentAssumption == Edited \subseteq Item

VARIABLES
    status,         \* table equipment
    booked,         \* table equipment_reservations: the stamps of each row
    pc,             \* where each request is
    loc,            \* each request's parameters
    disturbed       \* history: see StatusFitsUse

vars == <<status, booked, pc, loc, disturbed>>

-----------------------------------------------------------------------------
(* Types. *)

Status == {"AVAILABLE", "IN_USE", "UNDER_MAINTENANCE", "RETIRED"}
Row == [item : Item, checkedOut : BOOLEAN, checkedIn : BOOLEAN]
Call == [op : {"checkout", "checkin"}, item : Item, res : Reservation]

TypeOK ==
    /\ status \in [Item -> Status]
    /\ DOMAIN booked \subseteq Reservation
    /\ \A r \in DOMAIN booked : booked[r] \in Row
    /\ pc \in [Request -> {"idle", "found", "stamped", "done", "failed"}]
    /\ DOMAIN loc = {p \in Request : pc[p] # "idle"}
    /\ \A p \in DOMAIN loc : /\ loc[p] \in Call
                             /\ pc[p] \in {"stamped", "done"} => loc[p].res \in DOMAIN booked
    /\ disturbed \in [Item -> BOOLEAN]

-----------------------------------------------------------------------------
(* Helpers. *)

Inserted(t, id, row) == [x \in DOMAIN t \cup {id} |-> IF x = id THEN row ELSE t[x]]

Goto(p, label) == pc' = [pc EXCEPT ![p] = label]

\* The reservations the page offers to check in: the item is out with them.
OutOf(i) == {r \in DOMAIN booked :
                booked[r].item = i /\ booked[r].checkedOut /\ ~booked[r].checkedIn}

\* The status that says whether the item is out.
Level(i) == IF OutOf(i) # {} THEN "IN_USE" ELSE "AVAILABLE"

\* Calls that have stamped a reservation and not set the status of i yet.
Setting(i) == {p \in DOMAIN loc : pc[p] = "stamped" /\ loc[p].item = i}

-----------------------------------------------------------------------------
(* Handlers. *)

\* POST equipment/:equipmentId/reservations.  Ranges may overlap.
Reserve(r, i) ==
    /\ r \notin DOMAIN booked
    /\ booked' = Inserted(booked, r, [item |-> i, checkedOut |-> FALSE, checkedIn |-> FALSE])
    /\ UNCHANGED <<status, pc, loc, disturbed>>

\* POST .../reservations/:reservationId/checkout or checkin: assertExists.
Arrive(p, call) ==
    /\ pc[p] = "idle"
    /\ loc' = Inserted(loc, p, call)
    /\ Goto(p, "found")
    /\ UNCHANGED <<status, booked, disturbed>>

Stamped_Bug(row, op) ==         \* a checkin stamps checked_out_at
    [row EXCEPT !.checkedOut = TRUE]

\* reservations.checkOut, reservations.checkIn: now(), whatever was there.
Stamped(row, op) ==
    IF op = "checkout" THEN [row EXCEPT !.checkedOut = TRUE]
                       ELSE [row EXCEPT !.checkedIn = TRUE]

\* Stamping for p leaves the status of item i to somebody else: p names another
\* item, a call of the other kind is setting the status, the item stays out
\* with another reservation, or p checks a returned reservation out again.
Disturbs(p, i) ==
    LET c == loc[p]
        row == booked[c.res]
    IN  \/ i \in {c.item, row.item} /\ c.item # row.item
        \/ /\ i = row.item
           /\ \/ \E q \in Setting(i) : loc[q].op # c.op
              \/ c.op = "checkin" /\ OutOf(i) \ {c.res} # {}
              \/ c.op = "checkout" /\ row.checkedIn

\* The first transaction; the row is found by its id alone.
Stamp(p) ==
    /\ pc[p] = "found"
    /\ loc[p].res \in DOMAIN booked
    /\ booked' = [booked EXCEPT ![loc[p].res] = Stamped(@, loc[p].op)]
    /\ disturbed' = [i \in Item |-> disturbed[i] \/ Disturbs(p, i)]
    /\ Goto(p, "stamped")
    /\ UNCHANGED <<status, loc>>

\* No such reservation: 404.
NotFound(p) ==
    /\ pc[p] = "found"
    /\ loc[p].res \notin DOMAIN booked
    /\ Goto(p, "failed")
    /\ UNCHANGED <<status, booked, loc, disturbed>>

StatusFor(op) == IF op = "checkout" THEN "IN_USE" ELSE "AVAILABLE"

\* The second: equipment.updateStatus, and the answer.
SetStatus(p) ==
    LET i == loc[p].item
        new == StatusFor(loc[p].op)
    IN  /\ pc[p] = "stamped"
        /\ status' = [status EXCEPT ![i] = new]
        /\ disturbed' = [disturbed EXCEPT ![i] = @ /\ ~(Setting(i) = {p} /\ new = Level(i))]
        /\ Goto(p, "done")
        /\ UNCHANGED <<booked, loc>>

\* A transaction fails, or the process stops.
Abort(p) ==
    /\ pc[p] \in {"found", "stamped"}
    /\ disturbed' = [disturbed EXCEPT ![loc[p].item] = @ \/ pc[p] = "stamped"]
    /\ Goto(p, "failed")
    /\ UNCHANGED <<status, booked, loc>>

\* PATCH equipment/:equipmentId/status: whatever the reservations say.
UpdateStatus(i, new) ==
    /\ status' = [status EXCEPT ![i] = new]
    /\ disturbed' = [disturbed EXCEPT ![i] = ~(Setting(i) = {} /\ new = Level(i))]
    /\ UNCHANGED <<booked, pc, loc>>

-----------------------------------------------------------------------------
Init ==
    /\ status = [i \in Item |-> "AVAILABLE"]
    /\ booked = [x \in {} |-> x]
    /\ pc = [p \in Request |-> "idle"]
    /\ loc = [x \in {} |-> x]
    /\ disturbed = [i \in Item |-> FALSE]

Next ==
    \/ \E r \in Reservation, i \in Item : Reserve(r, i)
    \/ \E p \in Request :
        \/ \E call \in Call : Arrive(p, call)
        \/ Stamp(p)
        \/ NotFound(p)
        \/ SetStatus(p)
        \/ Abort(p)
    \/ \E i \in Edited, new \in Status : UpdateStatus(i, new)

Spec == Init /\ [][Next]_vars

-----------------------------------------------------------------------------
(* Properties. *)

\* When no checkout or checkin is between its two writes, an item is IN_USE if
\* it is out with some reservation and AVAILABLE if not.  This fails only after
\* a status edit, a failure between the two writes, a checkin that meets a
\* checkout there, a checkin while another reservation of the item is out, a
\* second checkout of a returned reservation, or a call that names another item
\* than the reservation's; and not after the next call that ends with both in
\* agreement.  Any other interleaving (repeated or concurrent checkouts,
\* repeated checkins, a checkin that was never checked out) is harmless.
StatusFitsUse ==
    \A i \in Item : ~disturbed[i] /\ Setting(i) = {} => status[i] = Level(i)
=============================================================================
