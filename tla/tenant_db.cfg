\* A call of each of two churches and an unscoped lookup on two clients,
\* with connections lost at any point.
SPECIFICATION FairSpec
CONSTANTS
    a1 = a1
    b1 = b1
    churchA = churchA
    churchB = churchB
    Scoped = {a1, b1}
    Unscoped = {u1}
    Church = {churchA, churchB}
    ChurchOf <- MCChurchOf
    Client = {k1, k2}
    MaxStatements = 2
    MaxLost = 2
    NoChurch = NoChurch
    NoClient = NoClient
INVARIANTS
    OwnContext
    ReadsStand
    ClientsAccountedFor
    ThrownWroteNothing
PROPERTIES
    AllOrNothing
    EveryCallEnds
CHECK_DEADLOCK FALSE
