----------------------------- MODULE WebClient -----------------------------
(***************************************************************************)
(* One browser tab of the web client (apps/web): the session it keeps, the *)
(* page it shows and the requests it has in the air.                       *)
(*                                                                         *)
(* A page is reduced to what its component does with answers: whether it   *)
(* shows nothing at all until its data came, how each of its handlers      *)
(* treats the error line, the busy flag and the reload.  What the church's *)
(* rows say is a version number.  A load is the Promise.all of the page's  *)
(* GETs: its version is that of the oldest of them, and one failing fails  *)
(* the load.                                                               *)
(*                                                                         *)
(* apiFetch has no timeout, no retry and no token refresh: an expired      *)
(* token is one more refusal.  Leaving a page does not cancel a request;   *)
(* the answers of an unmounted component change nothing.                   *)
(***************************************************************************)
EXTENDS Naturals

CONSTANTS Request,        \* requests of the tab that can be in the air at once
          Visited,        \* the pages the user goes to
          MaxVersion      \* bound: writes to the church's rows

VARIABLES session,        \* the user of AuthProvider: "none", "member" or "churchless"
          stored,         \* what sessionStorage holds
          restoring,      \* AuthProvider's loading: sessionStorage is not read yet
          view,           \* the page component that is mounted
          flight,         \* the requests in the air
          version         \* of the church's rows on the server

tab == <<session, stored, restoring, view, flight>>

-----------------------------------------------------------------------------
(* Handlers.  clears: setError(null) first; busy: a flag that is raised    *)
(* while the handler runs ("marks") and disables its button ("blocks");    *)
(* catches: failures end in setError; writes: what the server does;        *)
(* reloads: what the handler loads after its answer came.                  *)
Form(clears, busy, catches, writes, reloads) ==
    [clears |-> clears, busy |-> busy, catches |-> catches, writes |-> writes, reloads |-> reloads]

CreateForm   == Form(TRUE,  "blocks", TRUE,  "rows",    "all")
SimpleForm   == Form(FALSE, "none",   TRUE,  "rows",    "all")
BareForm     == Form(FALSE, "none",   FALSE, "rows",    "all")
SendForm_Bug == Form(FALSE, "marks",  TRUE,  "message", "all")
SendForm     == Form(FALSE, "blocks", TRUE,  "message", "all")
AskForm      == Form(FALSE, "blocks", TRUE,  "nothing", "none")
SuggestForm  == [AskForm EXCEPT !.busy = "marks"]
RecurForm    == Form(FALSE, "none",   TRUE,  "rows",    "none")
ScheduleForm == Form(TRUE,  "blocks", TRUE,  "rows",    "none")
AnswerForm   == Form(FALSE, "none",   TRUE,  "rows",    "part")
ExplainForm  == Form(FALSE, "none",   TRUE,  "nothing", "none")

(* Pages.  guarded: redirects to /login without a session; loads: fetches  *)
(* its data when it has a session with a church; held: shows "Loading..."  *)
(* and no error line until its data came; live: reloads on a socket event; *)
(* merges: puts the row of a task's event in the place of the one it has.  *)
Static == [guarded |-> FALSE, loads |-> FALSE, held |-> FALSE, live |-> FALSE, merges |-> FALSE, forms |-> {}]
Listing(forms) == [Static EXCEPT !.guarded = TRUE, !.loads = TRUE, !.forms = forms]
Detail(forms) == [Listing(forms) EXCEPT !.held = TRUE]

Home            == Static
LoginPage       == Static
RegisterPage    == Static
Dashboard       == Listing({})
Calendar        == Listing({})
Analytics       == Listing({AskForm, SuggestForm})
Volunteers      == Listing({CreateForm})
Ministries      == Listing({CreateForm})
EquipmentList   == Listing({CreateForm})
Services        == Listing({CreateForm})
Channels        == Listing({SimpleForm})
Thread          == Listing({SendForm})
Notifications   == Listing({BareForm})
VolunteerDetail == Detail({SimpleForm})
EquipmentDetail == [Detail({SimpleForm, BareForm}) EXCEPT !.live = TRUE]
ServiceHandlers == {SimpleForm, RecurForm, ScheduleForm, AnswerForm, ExplainForm}
ServiceDetail   == [Detail(ServiceHandlers) EXCEPT !.live = TRUE, !.merges = TRUE]

PageOf == [home |-> Home, login |-> LoginPage, register |-> RegisterPage, dashboard |-> Dashboard,
           calendar |-> Calendar, analytics |-> Analytics, volunteers |-> Volunteers,
           ministries |-> Ministries, equipment |-> EquipmentList, services |-> Services,
           channels |-> Channels, thread |-> Thread, notifications |-> Notifications,
           volunteer |-> VolunteerDetail, item |-> EquipmentDetail, service |-> ServiceDetail]
Page == DOMAIN PageOf
Forms == UNION {PageOf[p].forms : p \in Page}

-----------------------------------------------------------------------------
(* A mounted page.  shown: the version of the oldest row on the screen, 0  *)
(* before the first.  The rest are for the properties: wrote is the        *)
(* version of the tab's last write that is to be reloaded; excused says    *)
(* that a load failed or that an older answer or event came last; copies   *)
(* and failed tell how often the text in the box was stored and whether a  *)
(* send of it failed.                                                      *)
Mounted(p) == [page |-> p, shown |-> 0, error |-> FALSE, busy |-> FALSE,
               wrote |-> 0, excused |-> FALSE, copies |-> 0, failed |-> FALSE]

Idle == [kind |-> "idle"]
Load_Bug(of, quiet, frees) == [kind |-> "load", of |-> of, quiet |-> quiet, frees |-> frees, read |-> 1]
Load(of, quiet, frees) == [kind |-> "load", of |-> of, quiet |-> quiet, frees |-> frees, read |-> 0]
Write(form) == [kind |-> "write", form |-> form, at |-> "sent", version |-> 0, mine |-> TRUE]
SignIn(p) == [kind |-> "signin", page |-> p, mine |-> TRUE]

Left_Bug == [r \in Request |-> Idle]

\* What stays of the requests when the page is left: writes and sign-ins run on.
Left == [r \in Request |-> CASE flight[r].kind \in {"write", "signin"} -> [flight[r] EXCEPT !.mine = FALSE]
                             [] OTHER -> Idle]

Fetched_Bug(air, r, p, who) == IF PageOf[p].loads /\ who = "member"
                               THEN [air EXCEPT ![r] = Load("all", TRUE, FALSE)] ELSE air

\* The requests after page p got the session of who: its effect loads, if there is a church.
Fetched(air, r, p, who) == IF PageOf[p].loads /\ who = "member"
                           THEN [air EXCEPT ![r] = Load("all", FALSE, FALSE)] ELSE air

Acting == ~restoring /\ session = "member" /\ PageOf[view.page].guarded

TabInit ==
    /\ session = "none" /\ stored = "none" /\ restoring = TRUE
    /\ view = Mounted("home")
    /\ flight = [r \in Request |-> Idle]
    /\ version = 1

-----------------------------------------------------------------------------
(* AuthProvider and navigation.                                            *)

\* The effect of AuthProvider: the session of sessionStorage, read once.
Restore(r) ==
    /\ restoring /\ flight[r] = Idle
    /\ session' = stored /\ restoring' = FALSE
    /\ flight' = Fetched(flight, r, view.page, stored)
    /\ UNCHANGED <<stored, view, version>>

\* A link of the application.
Open(p, r) ==
    /\ ~restoring /\ p # view.page
    /\ Left[r] = Idle
    /\ view' = Mounted(p)
    /\ flight' = Fetched(Left, r, p, session)
    /\ UNCHANGED <<session, stored, restoring, version>>

\* F5: React's state is gone, the server still works on the writes.
Refresh ==
    /\ ~restoring
    /\ view' = Mounted(view.page)
    /\ flight' = [r \in Request |-> IF flight[r].kind = "write" THEN Left[r] ELSE Idle]
    /\ session' = "none" /\ restoring' = TRUE
    /\ UNCHANGED <<stored, version>>

\* The first effect of every guarded page.
Redirect ==
    /\ ~restoring /\ session = "none" /\ PageOf[view.page].guarded
    /\ view' = Mounted("login") /\ flight' = Left
    /\ UNCHANGED <<session, stored, restoring, version>>

\* Only the dashboard has the button; the API is not told.
Logout ==
    /\ view.page = "dashboard" /\ ~restoring /\ session # "none"
    /\ session' = "none" /\ stored' = "none"
    /\ view' = Mounted("login") /\ flight' = Left
    /\ UNCHANGED <<restoring, version>>

\* onSubmit of the login and of the register page.
SubmitSignIn(r) ==
    /\ view.page \in {"login", "register"} /\ ~restoring
    /\ ~view.busy /\ flight[r] = Idle
    /\ view' = [view EXCEPT !.busy = TRUE, !.error = FALSE]
    /\ flight' = [flight EXCEPT ![r] = SignIn(view.page)]
    /\ UNCHANGED <<session, stored, restoring, version>>

\* login() or register() persists the answer and the page pushes /dashboard, wherever the user is.
SignedIn(r, who) ==
    /\ flight[r].kind = "signin" /\ ~restoring
    /\ flight[r].page = "register" => who = "member"
    /\ session' = who /\ stored' = who
    /\ view' = Mounted("dashboard")
    /\ flight' = Fetched([Left EXCEPT ![r] = Idle], r, "dashboard", who)
    /\ UNCHANGED <<restoring, version>>

SignInFails(r) ==
    /\ flight[r].kind = "signin"
    /\ view' = IF flight[r].mine THEN [view EXCEPT !.error = TRUE, !.busy = FALSE] ELSE view
    /\ flight' = [flight EXCEPT ![r] = Idle]
    /\ UNCHANGED <<session, stored, restoring, version>>

-----------------------------------------------------------------------------
(* Loads.                                                                  *)

\* The calendar fetches again whenever its cursor moves, and never drops the older answer.
MoveCursor(r) ==
    /\ Acting /\ view.page = "calendar" /\ flight[r] = Idle
    /\ flight' = Fetched(flight, r, "calendar", session)
    /\ UNCHANGED <<session, stored, restoring, view, version>>

\* checkin.recorded and equipment.fault_reported: a reload whose failure nobody sees.
LiveEvent(r) ==
    /\ Acting /\ PageOf[view.page].live /\ flight[r] = Idle
    /\ flight' = [flight EXCEPT ![r] = Load("all", TRUE, FALSE)]
    /\ UNCHANGED <<session, stored, restoring, view, version>>

\* task.updated: the row is replaced by that of the event, which may be on its way for long.
\* An event as new as the page changes nothing that the version tells.
MergeTask ==
    /\ Acting /\ PageOf[view.page].merges
    /\ \E read \in 1..version :
          /\ read < view.shown
          /\ view' = [view EXCEPT !.shown = read, !.excused = @ \/ read < view.wrote]
    /\ UNCHANGED <<session, stored, restoring, flight, version>>

\* The server answers the GETs.
ReadLoad(r) ==
    /\ flight[r].kind = "load" /\ flight[r].read = 0
    /\ flight' = [flight EXCEPT ![r].read = version]
    /\ UNCHANGED <<session, stored, restoring, view, version>>

\* The answers arrive: whatever arrives last is on the screen.
ShowLoad(r) ==
    /\ flight[r].kind = "load" /\ flight[r].read > 0
    /\ LET old == flight[r].read < view.shown
           page == [view EXCEPT !.busy = @ /\ ~flight[r].frees]
       IN view' = IF flight[r].of = "part" THEN page
                  ELSE [page EXCEPT !.shown = flight[r].read,
                                    !.excused = flight[r].read < view.wrote /\ (@ \/ old)]
    /\ flight' = [flight EXCEPT ![r] = Idle]
    /\ UNCHANGED <<session, stored, restoring, version>>

\* One of the GETs is refused or lost.
LoadFails(r) ==
    /\ flight[r].kind = "load"
    /\ view' = [view EXCEPT !.error = @ \/ ~flight[r].quiet, !.busy = @ /\ ~flight[r].frees,
                            !.excused = @ \/ flight[r].of = "all"]
    /\ flight' = [flight EXCEPT ![r] = Idle]
    /\ UNCHANGED <<session, stored, restoring, version>>

-----------------------------------------------------------------------------
(* Handlers that call the API with a method of their own.                  *)

\* The buttons of a row or of a held page are there once the page has data.
Submit(form, r) ==
    /\ Acting /\ flight[r] = Idle
    /\ form \in PageOf[view.page].forms
    /\ PageOf[view.page].held \/ form = BareForm => view.shown > 0
    /\ form.busy = "blocks" => ~view.busy
    /\ view' = [view EXCEPT !.error = @ /\ ~form.clears, !.busy = @ \/ form.busy # "none"]
    /\ flight' = [flight EXCEPT ![r] = Write(form)]
    /\ UNCHANGED <<session, stored, restoring, version>>

\* The server has done what a request asks for.
Served(r) ==
    LET writes == flight[r].form.writes # "nothing"
    IN /\ writes => version < MaxVersion
       /\ version' = IF writes THEN version + 1 ELSE version
       /\ flight' = [flight EXCEPT ![r].at = "served", ![r].version = version']
       /\ view' = IF flight[r].mine /\ flight[r].form = SendForm
                  THEN [view EXCEPT !.copies = @ + 1] ELSE view
       /\ UNCHANGED <<session, stored, restoring>>

Written(r) ==
    /\ flight[r].kind = "write" /\ flight[r].at = "sent" /\ flight[r].form # SendForm
    /\ Served(r)

\* The answer of success: the handler goes on to its reload, the thread empties its box first.
WriteAnswered(r) ==
    /\ flight[r].kind = "write" /\ flight[r].at = "served"
    /\ LET form == flight[r].form
           last == form.reloads = "none"
       IN IF ~flight[r].mine
          THEN flight' = [flight EXCEPT ![r] = Idle] /\ UNCHANGED view
          ELSE /\ view' = [view EXCEPT !.wrote = IF form.reloads = "all" /\ flight[r].version > @
                                                 THEN flight[r].version ELSE @,
                                       !.busy = @ /\ ~(last /\ form.busy # "none"),
                                       !.copies = 0, !.failed = FALSE]
               /\ flight' = [flight EXCEPT ![r] = IF last THEN Idle
                                 ELSE Load(form.reloads, ~form.catches \/ form.reloads = "part",
                                           form.busy # "none")]
    /\ UNCHANGED <<session, stored, restoring, version>>

\* A refusal, or no answer at all: then the server may still be at work on the request.
WriteFails(r) ==
    /\ flight[r].kind = "write" /\ flight[r].mine
    /\ view' = [view EXCEPT !.error = @ \/ flight[r].form.catches, !.failed = TRUE,
                            !.busy = @ /\ flight[r].form.busy = "none"]
    /\ \E after \in {Idle, [flight[r] EXCEPT !.mine = FALSE]} : flight' = [flight EXCEPT ![r] = after]
    /\ UNCHANGED <<session, stored, restoring, version>>

\* Somebody else in the church.
OtherWrite ==
    /\ version < MaxVersion /\ version' = version + 1
    /\ UNCHANGED tab

LoadStep(r) == MoveCursor(r) \/ LiveEvent(r) \/ ReadLoad(r) \/ ShowLoad(r) \/ LoadFails(r)
SessionStep(r) == \/ Restore(r) \/ SubmitSignIn(r) \/ SignInFails(r)
                  \/ \E who \in {"member", "churchless"} : SignedIn(r, who)
=============================================================================
