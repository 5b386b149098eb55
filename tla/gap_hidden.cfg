\* A schedule generated twice, then a decline that nobody can take over.
SPECIFICATION Spec
CONSTANTS
    v1 = v1
    v2 = v2
    v3 = v3
    s1 = s1
    s2 = s2
    r1 = r1
    r2 = r2
    r3 = r3
    d1 = d1
    Volunteer = {v1, v3}
    Service = {s1, s2}
    Role = {r3}
    Date = {d1}
    Request = {p1, p2, p3}
    ServiceOf <- MCServiceOf
    DateOf <- MCDateOf
    Qualified <- MCQualified
    MinRequired <- MCMinRequired
    MaxAllowed <- MCMaxAllowed
    Editors = {}
    Confirmers = {}
    Overrides = {}
    Cancellable = {}
    NoRun = NoRun
INVARIANT
    GapIsVisible
CHECK_DEADLOCK FALSE
