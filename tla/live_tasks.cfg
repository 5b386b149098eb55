\* Updates by the page and by another client, with breaking connections,
\* photos, a created task, and a cancelled service; under fairness every
\* change comes to be shown.
SPECIFICATION FairSpec
CONSTANTS
    g1 = g1
    s1 = s1
    s2 = s2
    t1 = t1
    t2 = t2
    Service = {s1, s2}
    Task = {t1, t2}
    ServiceOf <- MCServiceOf
    First = {t1}
    Page = {g1}
    Shows <- MCShows
    Elsewhere = Elsewhere
    Request = {p1, p2}
    Refresh = {"open"}
    Photographed = {t1}
    Cancellable = {s1}
    MaxRevision = 2
    MaxDrops = 1
    NullEvent = NullEvent
INVARIANTS
    LevelWhenQuiet
    OwnChangeIsLoaded
    CrashNeedsCancel
PROPERTIES
    ChangesAreShown
CHECK_DEADLOCK FALSE
