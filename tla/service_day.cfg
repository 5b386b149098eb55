CONSTANTS
    Volunteer = {v1, v2}
    Item = {i1, i2}
    Request = {p1, p2}
    Created <- created
    Moves = {1}
    MaxServices = 3
    MaxRuns = 2
    MaxInstances = 1
    Horizon = 1
    Year = 2
    MaxCount = 2
    MinPoints = 2
    MaxRows = 4
SPECIFICATION Spec
CONSTRAINT FewRows
SYMMETRY Symmetric
INVARIANTS
    TypeOK
    LatenessFits
    NoShowNeedsRoster
    TwinsNeedRepeat
    ScoreIsFair
PROPERTY CompletionsKept
CHECK_DEADLOCK FALSE
