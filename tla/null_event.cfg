\* A service cancelled under an update of one of its tasks.
SPECIFICATION Spec
CONSTANTS
    g1 = g1
    s1 = s1
    s2 = s2
    t1 = t1
    t2 = t2
    Service = {s1, s2}
    Task = {t1, t2, t3}
    ServiceOf <- MCServiceOf
    First = {t1, t2}
    Page = {g1}
    Shows <- MCShows
    Elsewhere = Elsewhere
    Request = {p1}
    Refresh = {"open"}
    Photographed = {t1}
    Cancellable = {s2}
    MaxRevision = 2
    MaxDrops = 1
    NullEvent = NullEvent
INVARIANT
    EventsAreTasks
CHECK_DEADLOCK FALSE
