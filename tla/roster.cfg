CONSTANTS
    v1 = v1
    v2 = v2
    r1 = r1
    r2 = r2
    s1 = s1
    s2 = s2
    band = band
    Volunteer = {v1, v2}
    Role = {r1, r2}
    Skill = {k1}
    Request = {p1, p2}
    Run = {u1, u2}
    Service = {s1, s2}
    DayOf <- days
    Member <- members
    MinistryOf <- ministries
    Level = {1, 2}
    Reliability <- reliability
    Rules <- rules
    Clock = {0, 11}
    Size <- sizes
    MaxRows = 4
    MaxOffers = 3
SPECIFICATION Spec
CONSTRAINT Few
SYMMETRY Symmetric
INVARIANTS
    TypeOK
    ReportsAgree
PROPERTIES
    RestedFirst
