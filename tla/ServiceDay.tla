----------------------------- MODULE ServiceDay -----------------------------
(***************************************************************************)
(* A service from planning to the figures drawn from it: creating, moving,  *)
(* repeating and cancelling services, their checklists, the roster, check-in *)
(* and the reliability scores.  A call finds what its path names in one      *)
(* transaction and writes in a later one; other calls run between the two.  *)
(* What is not found is a 404 or 400 that changes nothing: no step.          *)
(* Ids are positions: a cancelled row keeps its position and is not live.   *)
(***************************************************************************)
EXTENDS Integers, Sequences, FiniteSets

CONSTANTS
    Volunteer,      \* volunteer profiles (no code deletes one)
    Item,           \* ids of checklist items
    Request,        \* calls at work at a time; bounds the model
    Created,        \* what a POST of a service may hold: date, start and rule
    Moves,          \* the starts a PATCH may set
    MaxServices, MaxRuns, MaxInstances,     \* bounds of the tables
    Horizon,        \* the last moment; bounds the model
    Year,           \* 365 days
    MaxCount,       \* the largest count of generate-recurring; 26 in the code
    MinPoints       \* data points below which a score is the prior; 5 in the code

ASSUME ServiceDayAssumption ==
    /\ {MaxServices, MaxRuns, MaxInstances, Horizon, Year, MaxCount} \subseteq Nat
    /\ MinPoints \in Nat \ {0}         \* a score divides by the points it has
    /\ Created \subseteq [date : Nat, start : Nat, rule : Nat]
    /\ Moves \subseteq Nat

VARIABLES
    now,            \* the clock
    services,       \* table services
    runs,           \* tables schedule_runs and assignments
    attendance,     \* tables attendance and check_ins, by service and volunteer
    instances,      \* table checklist_instances
    score,          \* volunteer_profiles.reliability_score, in percent
    pc, loc,        \* where each call is, and what it holds
    unsettled,      \* history: see LatenessFits
    repeated        \* history: titles generated more than once, see TwinsNeedRepeat

tables == <<services, runs, attendance, instances, score>>
history == <<unsettled, repeated>>
vars == <<now, tables, pc, loc, history>>

-----------------------------------------------------------------------------
(* Types. *)

\* A rule is the days between occurrences, 0 when recurrence_rule is null.
Row == [title : Nat, date : Int, start : Int, rule : Nat, live : BOOLEAN, patched : BOOLEAN]
Run == [service : Nat, done : Nat, chosen : SUBSET Volunteer, declined : SUBSET Volunteer]
CheckIn == [at : Nat, late : BOOLEAN]
Instance == [service : Nat, completed : SUBSET Item]
Prior == 85

TypeOK ==
    /\ now \in 0..Horizon
    /\ services \in Seq(Row)
    /\ runs \in Seq(Run) /\ \A r \in DOMAIN runs : runs[r].service \in DOMAIN services
    /\ instances \in Seq(Instance)
    /\ \A x \in DOMAIN instances : instances[x].service \in DOMAIN services
    /\ \A a \in DOMAIN attendance : /\ services[a[1]].live /\ a[2] \in Volunteer
                                    /\ attendance[a] \in CheckIn
    /\ score \in [Volunteer -> 10..100]
    /\ pc \in [Request -> {"idle", "found", "seen"}]
    /\ DOMAIN loc = {p \in Request : pc[p] # "idle"}

-----------------------------------------------------------------------------
(* The tables. *)

Live == {s \in DOMAIN services : services[s].live}
Kept == {r \in DOMAIN runs : services[runs[r].service].live}     \* on delete cascade
Open == {x \in DOMAIN instances : services[instances[x].service].live}
Completed(s) == {r \in Kept : runs[r].service = s /\ runs[r].done > 0}

Entered(t, key, val) == [k \in DOMAIN t \cup {key} |-> IF k = key THEN val ELSE t[k]]
Without(t, keys) == [k \in DOMAIN t \ keys |-> t[k]]

Goto(p, label) == pc' = [pc EXCEPT ![p] = label]
Hold(p, call) == Goto(p, "found") /\ loc' = Entered(loc, p, call)
Answer(p) == Goto(p, "idle") /\ loc' = Without(loc, {p})
InCall(p, label, op) == pc[p] = label /\ loc[p].op = op

\* The row of a POST; its title tells its series from the others.
NewRow(dto) == [title |-> Len(services) + 1, date |-> dto.date, start |-> dto.start,
                rule |-> dto.rule, live |-> TRUE, patched |-> FALSE]

\* An edit writes the timeline and leaves the date alone.
Patched(row, start) == [row EXCEPT !.start = start, !.patched = TRUE]

Occurrences_Bug(row, count) ==      \* the template's own start is among them
    LET later == {d \in 0..Year : d % row.rule = 0}
    IN  {d \in later : Cardinality({e \in later : e < d}) < count}

\* The first count dates of the rule after the start, in 365 days: as delays.
Occurrences(row, count) ==
    LET later == {d \in 1..Year : d % row.rule = 0}
    IN  {d \in later : Cardinality({e \in later : e < d}) < count}

\* The whole timeline moves by the delay; a copy has no rule.
Shifted(row, d) == [row EXCEPT !.date = @ + d, !.start = @ + d, !.rule = 0, !.patched = FALSE]

Latest(s) == CHOOSE r \in Completed(s) : \A q \in Completed(s) : runs[q].done <= runs[r].done

\* getRoster: who the most recent completed run assigns.
Roster(s) == IF Completed(s) = {} THEN {}
             ELSE LET r == Latest(s) IN runs[r].chosen \ runs[r].declined

\* The rows recomputeForChurch counts: dates of the last year, and any decline.
Counted(v) == {r \in Kept : /\ runs[r].done > 0 /\ v \in runs[r].chosen
                            /\ services[runs[r].service].date >= now - Year}
Attended(v) == {r \in Counted(v) : /\ v \notin runs[r].declined
                                   /\ <<runs[r].service, v>> \in DOMAIN attendance}
NoShows_Bug(v) == {r \in Counted(v) : /\ <<runs[r].service, v>> \notin DOMAIN attendance
                                      /\ services[runs[r].service].date < now}
NoShows(v) == {r \in Counted(v) : /\ v \notin runs[r].declined
                                  /\ <<runs[r].service, v>> \notin DOMAIN attendance
                                  /\ services[runs[r].service].date < now}
Declines(v) == {r \in Kept : v \in runs[r].declined}

Clamped(n) == IF n < 10 THEN 10 ELSE IF n > 100 THEN 100 ELSE n

ReliabilityScore_Bug(a, n, c) ==    \* declines are no data points
    IF a + n < MinPoints THEN Prior
    ELSE Clamped((200 * a) \div (2 * a + 2 * n + c))

\* computeReliabilityScore: attended / (attended + no-shows + half the declines).
ReliabilityScore(a, n, c) ==
    IF a + n + c < MinPoints THEN Prior
    ELSE Clamped((200 * a) \div (2 * a + 2 * n + c))

ScoreOf(v) == ReliabilityScore(Cardinality(Attended(v)), Cardinality(NoShows(v)),
                               Cardinality(Declines(v)))

-----------------------------------------------------------------------------
(* Services. *)

Create(dto) ==
    /\ Len(services) < MaxServices
    /\ services' = Append(services, NewRow(dto))
    /\ UNCHANGED <<now, runs, attendance, instances, score, pc, loc, history>>

\* The check-ins of s on their way have read what is no longer so.
Overtaken(s) == [p \in DOMAIN loc |-> IF loc[p].op = "checkIn" /\ loc[p].s = s
                                      THEN [loc[p] EXCEPT !.stale = TRUE] ELSE loc[p]]

\* PATCH: check-ins of the service, made or on their way, keep what they read.
Update(s, start) ==
    /\ s \in Live
    /\ services' = [services EXCEPT ![s] = Patched(@, start)]
    /\ loc' = Overtaken(s)
    /\ unsettled' = unsettled \cup {a \in DOMAIN attendance : a[1] = s}
    /\ UNCHANGED <<now, runs, attendance, instances, score, pc, repeated>>

Cancel_Bug(s) ==                \* the check-ins stay
    /\ s \in Live
    /\ services' = [services EXCEPT ![s].live = FALSE]
    /\ UNCHANGED <<now, runs, attendance, instances, score, pc, loc, history>>

Cancel(s) ==
    /\ s \in Live
    /\ services' = [services EXCEPT ![s].live = FALSE]
    /\ attendance' = Without(attendance, {s} \X Volunteer)
    /\ unsettled' = unsettled \ ({s} \X Volunteer)
    /\ UNCHANGED <<now, runs, instances, score, pc, loc, repeated>>

\* POST generate-recurring reads the template; without a rule it is a 400.
GenerateRecurring(p, s, count) ==
    /\ pc[p] = "idle" /\ s \in Live /\ services[s].rule # 0
    /\ Hold(p, [op |-> "expand", row |-> services[s], count |-> count])
    /\ UNCHANGED <<now, tables, history>>

\* createShiftedCopies, one transaction; the template may be gone or moved.
CreateShiftedCopies(p) ==
    LET row == loc[p].row
        delays == Occurrences(row, loc[p].count)
        copies == [i \in 1..Cardinality(delays) |->
                     Shifted(row, CHOOSE d \in delays :
                                     Cardinality({e \in delays : e < d}) = i - 1)]
    IN  /\ InCall(p, "found", "expand")
        /\ Len(services) + Len(copies) <= MaxServices
        /\ services' = services \o copies
        /\ repeated' = repeated \cup (IF \E s \in DOMAIN services :
                                            services[s].title = row.title /\ s # row.title
                                      THEN {row.title} ELSE {})
        /\ Answer(p)
        /\ UNCHANGED <<now, runs, attendance, instances, score, unsettled>>

-----------------------------------------------------------------------------
(* The schedule, as far as the roster and the scores read it: module        *)
(* Scheduling has the handlers.                                             *)

Assign(s, chosen) ==
    /\ s \in Live /\ Len(runs) < MaxRuns
    /\ runs' = Append(runs, [service |-> s, done |-> 0, chosen |-> chosen, declined |-> {}])
    /\ UNCHANGED <<now, services, attendance, instances, score, pc, loc, history>>

CompleteRun(r) ==
    /\ r \in Kept /\ runs[r].done = 0
    /\ runs' = [runs EXCEPT ![r].done = 1 + Cardinality({q \in DOMAIN runs : runs[q].done > 0})]
    /\ UNCHANGED <<now, services, attendance, instances, score, pc, loc, history>>

\* handleDecline, with the replacement if there is one.
Decline(r, v, replacement) ==
    /\ r \in Kept /\ v \in runs[r].chosen
    /\ replacement \subseteq Volunteer \ runs[r].chosen /\ Cardinality(replacement) <= 1
    /\ runs' = [runs EXCEPT ![r].declined = @ \cup {v}, ![r].chosen = @ \cup replacement]
    /\ UNCHANGED <<now, services, attendance, instances, score, pc, loc, history>>

-----------------------------------------------------------------------------
(* Check-in. *)

\* POST checkin: the service, with its start, and the volunteer are found.
FindForCheckIn(p, s, v) ==
    /\ pc[p] = "idle" /\ s \in Live
    /\ Hold(p, [op |-> "checkIn", s |-> s, v |-> v, start |-> services[s].start,
                at |-> 0, known |-> FALSE, stale |-> FALSE])
    /\ UNCHANGED <<now, tables, history>>

\* The transaction begins and looks for the attendance row.
SelectAttendance(p) ==
    /\ InCall(p, "found", "checkIn")
    /\ loc' = [loc EXCEPT ![p].at = now,
                          ![p].known = <<loc[p].s, loc[p].v>> \in DOMAIN attendance]
    /\ Goto(p, "seen")
    /\ UNCHANGED <<now, tables, history>>

UpsertCheckIn_Bug(old, new) ==      \* on conflict, is_late is left as it was
    [new EXCEPT !.late = old.late]

\* The columns on conflict: all of the new ones.
UpsertCheckIn(old, new) == new

\* The insert or upsert, and checkin.recorded.
RecordCheckIn(p) ==
    LET c == loc[p]
        a == <<c.s, c.v>>
        new == [at |-> c.at, late |-> now > c.start]
    IN  /\ InCall(p, "seen", "checkIn")
        /\ c.s \in Live /\ c.known = (a \in DOMAIN attendance)
        /\ attendance' = Entered(attendance, a,
                                 IF c.known THEN UpsertCheckIn(attendance[a], new) ELSE new)
        /\ unsettled' = IF c.stale THEN unsettled \cup {a} ELSE unsettled \ {a}
        /\ Answer(p)
        /\ UNCHANGED <<now, services, runs, instances, score, repeated>>

\* 500: another first check-in has inserted the row, or the service is gone.
CheckInThrows(p) ==
    /\ InCall(p, "seen", "checkIn")
    /\ loc[p].s \notin Live \/ loc[p].known # (<<loc[p].s, loc[p].v>> \in DOMAIN attendance)
    /\ Answer(p)
    /\ UNCHANGED <<now, tables, history>>

-----------------------------------------------------------------------------
(* Reliability. *)

\* POST recompute: one transaction, which reads every volunteer's counts first.
CountForScores(p) ==
    /\ pc[p] = "idle"
    /\ Hold(p, [op |-> "recompute", scores |-> [v \in Volunteer |-> ScoreOf(v)]])
    /\ UNCHANGED <<now, tables, history>>

\* Then each score is updated, and the transaction commits.
UpdateScores(p) ==
    /\ InCall(p, "found", "recompute")
    /\ score' = loc[p].scores
    /\ Answer(p)
    /\ UNCHANGED <<now, services, runs, attendance, instances, history>>

-----------------------------------------------------------------------------
(* Checklists. *)

\* POST of an instance: the service and the template are found.
FindForInstance(p, s) ==
    /\ pc[p] = "idle" /\ s \in Live
    /\ Hold(p, [op |-> "instantiate", s |-> s])
    /\ UNCHANGED <<now, tables, history>>

Instantiate(p) ==
    /\ InCall(p, "found", "instantiate")
    /\ Len(instances) < MaxInstances
    /\ IF loc[p].s \in Live
       THEN /\ instances' = Append(instances, [service |-> loc[p].s, completed |-> {}])
            /\ Answer(p)
       ELSE Answer(p) /\ UNCHANGED instances      \* service_id, a 500
    /\ UNCHANGED <<now, services, runs, attendance, score, history>>

\* PATCH of an item: the instance is found; no id of an item is looked up.
FindInstance(p, x, i) ==
    /\ pc[p] = "idle" /\ x \in Open
    /\ Hold(p, [op |-> "complete", x |-> x, item |-> i, read |-> instances[x].completed])
    /\ UNCHANGED <<now, tables, history>>

Merged_Bug(x, c) == c.read \cup {c.item}    \* merged in the handler, not in the statement

\* completed_items || the entry: on the row as it is when the update runs.
Merged(x, c) == instances[x].completed \cup {c.item}

\* The update, which may find no row: the answer is then null.
CompleteItem(p) ==
    LET x == loc[p].x
    IN  /\ InCall(p, "found", "complete")
        /\ instances' = IF x \in Open THEN [instances EXCEPT ![x].completed = Merged(x, loc[p])]
                        ELSE instances
        /\ Answer(p)
        /\ UNCHANGED <<now, services, runs, attendance, score, history>>

-----------------------------------------------------------------------------
\* Time passes; transactions that have begun began before.
Tick ==
    /\ now < Horizon
    /\ now' = now + 1
    /\ loc' = [p \in DOMAIN loc |-> IF pc[p] = "seen" THEN [loc[p] EXCEPT !.stale = TRUE]
                                    ELSE loc[p]]
    /\ UNCHANGED <<tables, pc, history>>

Init ==
    /\ now = 0
    /\ services = <<>> /\ runs = <<>> /\ instances = <<>>
    /\ attendance = <<>>
    /\ score = [v \in Volunteer |-> 100]
    /\ pc = [p \in Request |-> "idle"] /\ loc = <<>>
    /\ unsettled = {} /\ repeated = {}

ServiceStep == \/ \E dto \in Created : Create(dto)
               \/ \E s \in DOMAIN services : Cancel(s) \/ \E t \in Moves : Update(s, t)

RunStep == \/ \E s \in DOMAIN services, chosen \in SUBSET Volunteer : Assign(s, chosen)
           \/ \E r \in DOMAIN runs : \/ CompleteRun(r)
                                     \/ \E v \in Volunteer, w \in SUBSET Volunteer : Decline(r, v, w)

CallStep(p) ==
    \/ \E s \in DOMAIN services : \/ \E n \in 1..MaxCount : GenerateRecurring(p, s, n)
                                  \/ \E v \in Volunteer : FindForCheckIn(p, s, v)
                                  \/ FindForInstance(p, s)
    \/ \E x \in DOMAIN instances, i \in Item : FindInstance(p, x, i)
    \/ CreateShiftedCopies(p)
    \/ SelectAttendance(p) \/ RecordCheckIn(p) \/ CheckInThrows(p)
    \/ CountForScores(p) \/ UpdateScores(p)
    \/ Instantiate(p) \/ CompleteItem(p)

Next == ServiceStep \/ RunStep \/ Tick \/ \E p \in Request : CallStep(p)

Spec == Init /\ [][Next]_vars

-----------------------------------------------------------------------------
(* Properties. *)

\* is_late says whether the volunteer checked in after the service started,
\* as the service is now: AttendanceController.checkIn compares with a start
\* it read earlier.  It may be wrong only if the service was edited after
\* that read or the check-in's transaction was running when the time changed,
\* and scanning again sets it right.
LatenessFits ==
    \A a \in DOMAIN attendance \ unsettled :
        attendance[a].late = (attendance[a].at > services[a[1]].start)

\* recomputeForChurch counts rows of every completed run, getRoster shows the
\* latest one: a volunteer is a no-show of a service whose roster does not
\* have them only if its schedule was completed again.
NoShowNeedsRoster ==
    \A v \in Volunteer : \A r \in NoShows(v) :
        \/ v \in Roster(runs[r].service)
        \/ Cardinality(Completed(runs[r].service)) > 1

\* generate-recurring does not look for the copies an earlier call made: two
\* services of a series start together only if it was generated again or a
\* leader moved one of them.  The template is not one of its own copies.
TwinsNeedRepeat ==
    \A s, t \in Live :
        s # t /\ services[s].title = services[t].title /\ services[s].start = services[t].start
        => services[s].patched \/ services[t].patched \/ services[s].title \in repeated

\* An item of a checklist instance that was completed stays completed, also
\* when two leaders complete items of it at once.
CompletionsKept ==
    [][\A x \in DOMAIN instances : instances[x].completed \subseteq instances'[x].completed]_instances

\* computeReliabilityScore, on the counts of each volunteer: had they attended
\* once they missed or declined, or declined once they missed, they would not
\* score less, nor score more without one of their attendances, unless that is
\* the one that ends the prior (the MinPoints-th point).
ScoreIsFair ==
    \A v \in UNION {runs[r].chosen : r \in Kept} :
        LET a == Cardinality(Attended(v))
            n == Cardinality(NoShows(v))
            c == Cardinality(Declines(v))
            new == ReliabilityScore(a, n, c)    \* ScoreOf(v)
        IN  /\ n > 0 => /\ new <= ReliabilityScore(a + 1, n - 1, c)
                        /\ new <= ReliabilityScore(a, n - 1, c + 1)
            /\ c > 0 => new <= ReliabilityScore(a + 1, n, c - 1)
            /\ a > 0 /\ a + n + c # MinPoints => ReliabilityScore(a - 1, n, c) <= new
=============================================================================
