\* Four calls, two addresses, one ministry.
SPECIFICATION Spec
CONSTANTS
    Email = {e1, e2}
    Ministry = {m1}
    Request = {p1, p2, p3, p4}
    NoMinistry = NoMinistry
SYMMETRY Symmetry
INVARIANTS
    TypeOK
    ChurchIsWhole
    VolunteersBelong
    MinistryTwiceNeedsOverlap
    RefreshTwiceNeedsOverlap
PROPERTY
    EmptySessionNeedsInterruption
CHECK_DEADLOCK FALSE
