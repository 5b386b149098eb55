\* Three checkout or checkin calls over two items and two reservations.
SPECIFICATION Spec
CONSTANTS
    Item = {i1, i2}
    Reservation = {r1, r2}
    Request = {p1, p2, p3}
    Edited = {i1}
SYMMETRY Symmetry
INVARIANTS
    StatusFitsUse
CHECK_DEADLOCK FALSE
