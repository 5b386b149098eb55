------------------------- MODULE WebMessagingProofs -------------------------
(***************************************************************************)
(* Proofs about WebMessaging, for any number of requests and members.       *)
(***************************************************************************)
EXTENDS WebMessaging, TLAPS

-----------------------------------------------------------------------------
(* What the pages are.                                                     *)

FormType == [clears : BOOLEAN, busy : {"none", "marks", "blocks"}, catches : BOOLEAN,
             writes : {"rows", "message", "nothing"}, reloads : {"all", "part", "none"}]

\* What the proofs use of a page: pages that load are those behind a login,
\* the thread has no other handler, and where the error line is always shown,
\* a handler that clears it reloads everything and reports its failures.
PageFits(p) ==
    /\ p.guarded \in BOOLEAN /\ p.held \in BOOLEAN /\ p.loads = p.guarded
    /\ p.forms \subseteq FormType
    /\ p.forms # {} => p.guarded
    /\ SendForm \in p.forms => p.forms = {SendForm}
    /\ ~p.held => \A form \in p.forms : form.clears => form.catches /\ form.reloads = "all"

LEMMA SendFormFits ==
    /\ SendForm \in FormType
    /\ SendForm.busy = "blocks" /\ SendForm.writes = "message" /\ SendForm.reloads = "all"
BY DEF SendForm, Form, FormType

LEMMA StaticFits == PageFits(Static)
BY DEF Static, PageFits

LEMMA PagesFit == \A p \in Page : PageFits(PageOf[p])
<1>1. /\ {CreateForm, SimpleForm, BareForm, AskForm, SuggestForm, RecurForm, ScheduleForm,
          AnswerForm, ExplainForm, SendForm} \subseteq FormType
      /\ \A form \in {CreateForm, SimpleForm, BareForm, AskForm, SuggestForm, RecurForm,
                      ScheduleForm, AnswerForm, ExplainForm} : form # SendForm
      /\ \A form \in {CreateForm, SimpleForm, BareForm, AskForm, SuggestForm, SendForm} :
            form.clears => form.catches /\ form.reloads = "all"
  <2>1. CreateForm \in FormType /\ CreateForm # SendForm /\ CreateForm.catches
        /\ CreateForm.reloads = "all"
    BY DEF CreateForm, SendForm, Form, FormType
  <2>2. SimpleForm \in FormType /\ SimpleForm # SendForm /\ ~SimpleForm.clears
    BY DEF SimpleForm, SendForm, Form, FormType
  <2>3. BareForm \in FormType /\ BareForm # SendForm /\ ~BareForm.clears
    BY DEF BareForm, SendForm, Form, FormType
  <2>4. AskForm \in FormType /\ AskForm # SendForm /\ ~AskForm.clears
    BY DEF AskForm, SendForm, Form, FormType
  <2>5. SuggestForm \in FormType /\ SuggestForm # SendForm /\ ~SuggestForm.clears
    BY DEF SuggestForm, AskForm, SendForm, Form, FormType
  <2>6. RecurForm \in FormType /\ RecurForm # SendForm
    BY DEF RecurForm, SendForm, Form, FormType
  <2>7. ScheduleForm \in FormType /\ ScheduleForm # SendForm
    BY DEF ScheduleForm, SendForm, Form, FormType
  <2>8. AnswerForm \in FormType /\ AnswerForm # SendForm
    BY DEF AnswerForm, SendForm, Form, FormType
  <2>9. ExplainForm \in FormType /\ ExplainForm # SendForm
    BY DEF ExplainForm, SendForm, Form, FormType
  <2>10. SendForm \in FormType /\ ~SendForm.clears
    BY DEF SendForm, Form, FormType
  <2>. QED
    BY <2>1, <2>2, <2>3, <2>4, <2>5, <2>6, <2>7, <2>8, <2>9, <2>10
<1>2. ASSUME NEW forms \in SUBSET FormType,
             SendForm \in forms => forms = {SendForm},
             \A form \in forms : form.clears => form.catches /\ form.reloads = "all"
      PROVE PageFits(Listing(forms))
  BY <1>2 DEF Listing, Static, PageFits
<1>3. ASSUME NEW forms \in SUBSET FormType, SendForm \notin forms, NEW live \in BOOLEAN,
             NEW merges \in BOOLEAN
      PROVE  /\ PageFits(Detail(forms)) /\ PageFits([Detail(forms) EXCEPT !.live = live])
             /\ PageFits([Detail(forms) EXCEPT !.live = live, !.merges = merges])
  BY <1>3 DEF Detail, Listing, Static, PageFits
<1>4. /\ PageFits(Home) /\ PageFits(LoginPage) /\ PageFits(RegisterPage)
  BY StaticFits DEF Home, LoginPage, RegisterPage
<1>5. PageFits(Listing({})) /\ PageFits(Listing({CreateForm})) /\ PageFits(Listing({SimpleForm}))
      /\ PageFits(Listing({SendForm})) /\ PageFits(Listing({BareForm}))
      /\ PageFits(Listing({AskForm, SuggestForm}))
  <2>1. PageFits(Listing({})) 
    BY <1>2
  <2>2. PageFits(Listing({CreateForm}))
    BY <1>1, <1>2
  <2>3. PageFits(Listing({SimpleForm}))
    BY <1>1, <1>2
  <2>4. PageFits(Listing({SendForm}))
    BY <1>1, <1>2
  <2>5. PageFits(Listing({BareForm}))
    BY <1>1, <1>2
  <2>6. PageFits(Listing({AskForm, SuggestForm}))
    BY <1>1, <1>2
  <2>. QED
    BY <2>1, <2>2, <2>3, <2>4, <2>5, <2>6
<1>6. PageFits(VolunteerDetail) /\ PageFits(EquipmentDetail) /\ PageFits(ServiceDetail)
  <2>1. PageFits(VolunteerDetail)
    BY <1>1, <1>3 DEF VolunteerDetail
  <2>2. PageFits(EquipmentDetail)
    BY <1>1, <1>3 DEF EquipmentDetail
  <2>3. PageFits(ServiceDetail)
    BY <1>1, <1>3 DEF ServiceDetail, ServiceHandlers
  <2>. QED
    BY <2>1, <2>2, <2>3
<1>. QED
  BY <1>4, <1>5, <1>6
     DEF Page, PageOf, Dashboard, Calendar, Analytics, Volunteers, Ministries, EquipmentList,
         Services, Channels, Thread, Notifications

LEMMA SignInPages ==
    \A p \in {"login", "register"} : p \in Page /\ ~PageOf[p].guarded /\ ~PageOf[p].loads
                                    /\ PageOf[p].forms = {}
BY DEF Page, PageOf, LoginPage, RegisterPage, Static

LEMMA NamedPages == {"home", "login", "register", "dashboard", "calendar"} \subseteq Page
BY DEF Page, PageOf

-----------------------------------------------------------------------------
(* The inductive invariant.                                                *)

Session == {"none", "member", "churchless"}
CallType == [stage : {"idle", "arrived", "stored", "notifying", "returned", "threw", "answered"},
             to : SUBSET User, due : SUBSET User, created : SUBSET User, mailed : SUBSET User,
             rows : SUBSET User, accepted : SUBSET User, sentAt : SUBSET User]
LoadType == [kind : {"load"}, of : {"all", "part"}, quiet : BOOLEAN, frees : BOOLEAN, read : Nat]
WriteType == [kind : {"write"}, form : FormType, at : {"sent", "taken", "served"},
              version : Nat, mine : BOOLEAN]
SignInType == [kind : {"signin"}, page : {"login", "register"}, mine : BOOLEAN]
FlightType == {Idle} \cup LoadType \cup WriteType \cup SignInType
ViewType == [page : Page, shown : Nat, error : BOOLEAN, busy : BOOLEAN, wrote : Nat,
             excused : BOOLEAN, copies : Nat, failed : BOOLEAN]

TabTypes ==
    /\ session \in Session /\ stored \in Session /\ restoring \in BOOLEAN
    /\ version \in 1..MaxVersion
    /\ view \in ViewType
    /\ flight \in [Request -> FlightType]

\* Nothing shown, read, written or stored is newer than the rows.
Versions ==
    /\ view.shown <= version /\ view.wrote <= version /\ view.copies < version
    /\ \A r \in Request : /\ flight[r].kind = "load" => flight[r].read <= version
                          /\ flight[r].kind = "write" => flight[r].version <= version

Mine(r) == flight[r].kind = "write" /\ flight[r].mine

\* A handler that still waits is one of the page's.
OwnForms ==
    \A r \in Request :
        /\ Mine(r) => flight[r].form \in PageOf[view.page].forms
        /\ flight[r].kind = "signin" /\ flight[r].mine => view.page \in {"login", "register"}

\* The call of a request and what the tab knows of it.
Joined ==
    /\ call \in [Call -> CallType]
    /\ \A r \in Request :
          /\ call[r].stage \notin {"idle", "answered"} => Sending(r)
          /\ call[r].stage = "arrived" => flight[r].at = "taken"

-----------------------------------------------------------------------------
(* What a step does to the tab.                                            *)

Taken(r) == /\ flight[r].kind = "write" /\ flight[r].at = "sent"
            /\ flight' = [flight EXCEPT ![r].at = "taken"]
            /\ UNCHANGED <<session, stored, restoring, view, version>>

Dropped(r) == /\ flight[r].kind = "write" /\ ~flight[r].mine
              /\ flight' = [flight EXCEPT ![r] = Idle]
              /\ UNCHANGED <<session, stored, restoring, view, version>>

WebStep ==
    \/ Refresh \/ Redirect \/ Logout \/ OtherWrite \/ MergeTask
    \/ \E r \in Request :
          \/ Restore(r) \/ SubmitSignIn(r) \/ SignInFails(r)
          \/ \E who \in {"member", "churchless"} : SignedIn(r, who)
          \/ MoveCursor(r) \/ LiveEvent(r) \/ ReadLoad(r) \/ ShowLoad(r) \/ LoadFails(r)
          \/ \E p \in Page : Open(p, r)
          \/ \E form \in Forms : Submit(form, r)
          \/ flight[r].kind = "write" /\ flight[r].at # "served" /\ Served(r)
          \/ WriteAnswered(r) \/ WriteFails(r) \/ Taken(r) \/ Dropped(r)

LEMMA Projection ==
    ASSUME Joined, [Next]_vars PROVE WebStep \/ UNCHANGED <<tab, version>>
<1>. USE CallsAreRequests, VisitedArePages
<1>1. CASE TabStep
  BY <1>1 DEF TabStep, WebStep, SessionStep, LoadStep, FormStep, Written
<1>2. ASSUME NEW r \in Request, SendStep(r) PROVE WebStep
  <2>1. CASE SendArrives(r)
    BY <2>1 DEF SendArrives, Sending, WebStep, Taken
  <2>2. CASE SendStored(r)
    BY <2>2 DEF SendStored, Store, Sending, WebStep, Joined
  <2>3. CASE SendAnswered(r)
    BY <2>3 DEF SendAnswered, WebStep
  <2>4. CASE SendFails(r) \/ SendLost(r)
    BY <2>4 DEF SendFails, SendLost, WebStep
  <2>5. CASE SendDropped(r)
    BY <2>5 DEF SendDropped, Sending, WebStep, Dropped
  <2>. QED
    BY <1>2, <2>1, <2>2, <2>3, <2>4, <2>5 DEF SendStep
<1>. QED
  BY <1>1, <1>2 DEF Next, ApiStep, vars

-----------------------------------------------------------------------------
LEMMA LeftFits ==
    ASSUME TabTypes
    PROVE  /\ Left \in [Request -> FlightType]
           /\ \A r \in Request :
                 /\ flight[r].kind = "write" => Left[r] = [flight[r] EXCEPT !.mine = FALSE]
                                              /\ Left[r] \in WriteType
                 /\ flight[r].kind = "signin" => Left[r] = [flight[r] EXCEPT !.mine = FALSE]
                                               /\ Left[r] \in SignInType
                 /\ flight[r].kind \notin {"write", "signin"} => Left[r] = Idle
<1>1. \A r \in Request : flight[r] \in FlightType
  BY DEF TabTypes
<1>2. ASSUME NEW r \in Request, flight[r].kind = "write"
      PROVE  Left[r] = [flight[r] EXCEPT !.mine = FALSE] /\ Left[r] \in WriteType
  <2>1. flight[r] \in WriteType
    BY <1>1, <1>2 DEF FlightType, Idle, LoadType, SignInType
  <2>. QED
    BY <1>2, <2>1 DEF Left, WriteType
<1>3. ASSUME NEW r \in Request, flight[r].kind = "signin"
      PROVE  Left[r] = [flight[r] EXCEPT !.mine = FALSE] /\ Left[r] \in SignInType
  <2>1. flight[r] \in SignInType
    BY <1>1, <1>3 DEF FlightType, Idle, LoadType, WriteType
  <2>. QED
    BY <1>3, <2>1 DEF Left, SignInType
<1>4. ASSUME NEW r \in Request, flight[r].kind \notin {"write", "signin"} PROVE Left[r] = Idle
  BY <1>4 DEF Left
<1>5. Left \in [Request -> FlightType]
  <2>1. \A r \in Request : Left[r] \in FlightType
    BY <1>2, <1>3, <1>4 DEF FlightType
  <2>. QED
    BY <2>1 DEF Left
<1>. QED
  BY <1>2, <1>3, <1>4, <1>5

\* The load that a page begins with, and the one after an event.
FirstLoad == Load("all", FALSE, FALSE)
LiveLoad == Load("all", TRUE, FALSE)

LEMMA FetchedFits ==
    ASSUME NEW air \in [Request -> FlightType], NEW r \in Request, NEW p, NEW who
    PROVE  /\ Fetched(air, r, p, who) \in [Request -> FlightType]
           /\ \A q \in Request : q # r => Fetched(air, r, p, who)[q] = air[q]
           /\ Fetched(air, r, p, who)[r] = IF PageOf[p].loads /\ who = "member"
                                           THEN FirstLoad ELSE air[r]
           /\ FirstLoad \in LoadType
BY DEF Fetched, FirstLoad, Load, FlightType, LoadType

\* The same of whatever is fetched: new is the requests after the step.
LEMMA FetchedIs ==
    ASSUME NEW air \in [Request -> FlightType], NEW r \in Request, NEW p, NEW who,
           NEW new, new = Fetched(air, r, p, who)
    PROVE  /\ \A q \in Request : q # r => new[q] = air[q]
           /\ PageOf[p].loads /\ who = "member" => new[r] = FirstLoad
           /\ new[r] = FirstLoad \/ new[r] = air[r]
<1>1. CASE PageOf[p].loads /\ who = "member"
  BY <1>1 DEF Fetched, FirstLoad
<1>2. CASE ~(PageOf[p].loads /\ who = "member")
  BY <1>2 DEF Fetched
<1>. QED
  BY <1>1, <1>2

LEMMA TypesStep == ASSUME TabTypes, OwnForms, WebStep PROVE TabTypes'
<1>. USE NamedPages DEF TabTypes
<1>1. ASSUME NEW p \in Page PROVE Mounted(p) \in ViewType
  BY DEF Mounted, ViewType
<1>2. CASE Refresh
  BY <1>1, <1>2, LeftFits DEF Refresh, Session, ViewType, FlightType
<1>3. CASE Redirect \/ Logout
  BY <1>1, <1>3, LeftFits DEF Redirect, Logout, Session
<1>4. CASE OtherWrite
  BY <1>4, VersionsAreBounded DEF OtherWrite, tab
<1>5. ASSUME NEW r \in Request, Restore(r) PROVE TabTypes'
  BY <1>5, FetchedFits DEF Restore
<1>6. ASSUME NEW r \in Request, SubmitSignIn(r) PROVE TabTypes'
  BY <1>6 DEF SubmitSignIn, SignIn, ViewType, FlightType, SignInType
<1>7. ASSUME NEW r \in Request, SignInFails(r) PROVE TabTypes'
  BY <1>7 DEF SignInFails, ViewType, FlightType
<1>8. ASSUME NEW r \in Request, NEW who \in {"member", "churchless"}, SignedIn(r, who)
      PROVE  TabTypes'
  <2>1. [Left EXCEPT ![r] = Idle] \in [Request -> FlightType]
    BY LeftFits DEF FlightType
  <2>. QED
    BY <1>1, <1>8, <2>1, FetchedFits DEF SignedIn, Session
<1>9. ASSUME NEW r \in Request, MoveCursor(r) PROVE TabTypes'
  BY <1>9, FetchedFits DEF MoveCursor
<1>10. ASSUME NEW r \in Request, LiveEvent(r) PROVE TabTypes'
  BY <1>10 DEF LiveEvent, Load, FlightType, LoadType
<1>11. ASSUME NEW r \in Request, ReadLoad(r) PROVE TabTypes'
  <2>1. flight[r] \in LoadType
    BY <1>11 DEF ReadLoad, FlightType, Idle, WriteType, SignInType
  <2>2. [flight[r] EXCEPT !.read = version] \in LoadType
    BY <2>1 DEF LoadType
  <2>. QED
    BY <1>11, <2>2 DEF ReadLoad, FlightType
<1>12. ASSUME NEW r \in Request, ShowLoad(r) PROVE TabTypes'
  <2>1. flight[r] \in LoadType
    BY <1>12 DEF ShowLoad, FlightType, Idle, WriteType, SignInType
  <2>2. view' \in ViewType
    BY <1>12, <2>1 DEF ShowLoad, ViewType, LoadType
  <2>. QED
    BY <1>12, <2>2 DEF ShowLoad, FlightType
<1>13. ASSUME NEW r \in Request, LoadFails(r) PROVE TabTypes'
  BY <1>13 DEF LoadFails, ViewType, FlightType
<1>14. ASSUME NEW r \in Request, NEW p \in Page, Open(p, r) PROVE TabTypes'
  BY <1>1, <1>14, LeftFits, FetchedFits DEF Open
<1>15. ASSUME NEW r \in Request, NEW form \in Forms, Submit(form, r) PROVE TabTypes'
  <2>1. form \in FormType
    BY PagesFit, <1>15 DEF Submit, PageFits, ViewType
  <2>2. Write(form) \in WriteType
    BY <2>1 DEF Write, WriteType
  <2>. QED
    BY <1>15, <2>2 DEF Submit, ViewType, FlightType
<1>16. ASSUME NEW r \in Request, flight[r].kind = "write" PROVE flight[r] \in WriteType
  BY <1>16 DEF FlightType, Idle, LoadType, SignInType
<1>17. ASSUME NEW r \in Request, flight[r].kind = "write", Served(r) PROVE TabTypes'
  <2>1. version' \in 1..MaxVersion
    BY <1>17, VersionsAreBounded DEF Served
  <2>2. [flight[r] EXCEPT !.at = "served", !.version = version'] \in WriteType
    <3>1. flight[r] \in WriteType /\ version' \in Nat
      BY <1>16, <1>17, <2>1
    <3>. QED
      BY <3>1 DEF WriteType
  <2>3. view' \in ViewType
    BY <1>17 DEF Served, ViewType
  <2>4. flight' \in [Request -> FlightType]
    BY <1>17, <2>2 DEF Served, FlightType
  <2>. QED
    BY <1>17, <2>1, <2>3, <2>4 DEF Served
<1>18. ASSUME NEW r \in Request, WriteAnswered(r) PROVE TabTypes'
  <2>1. flight[r] \in WriteType /\ flight[r].form \in FormType
    BY <1>16, <1>18 DEF WriteAnswered, WriteType
  <2>2. flight[r].mine => flight[r].form.reloads \in {"all", "part", "none"}
    BY <2>1 DEF FormType
  <2>3. ASSUME flight[r].mine, flight[r].form.reloads # "none"
        PROVE Load(flight[r].form.reloads, ~flight[r].form.catches \/ flight[r].form.reloads = "part",
                   flight[r].form.busy # "none") \in FlightType
    <3>1. flight[r].form.reloads \in {"all", "part"}
      BY <2>2, <2>3
    <3>2. \A of \in {"all", "part"}, quiet, frees \in BOOLEAN : Load(of, quiet, frees) \in FlightType
      BY DEF Load, FlightType, LoadType
    <3>. DEFINE quiet == ~flight[r].form.catches \/ flight[r].form.reloads = "part"
                frees == flight[r].form.busy # "none"
    <3>3. quiet \in BOOLEAN /\ frees \in BOOLEAN
      OBVIOUS
    <3>. HIDE DEF quiet, frees
    <3>4. Load(flight[r].form.reloads, quiet, frees) \in FlightType
      BY <3>1, <3>2, <3>3
    <3>. QED
      BY <3>4 DEF quiet, frees
  <2>4. view' \in ViewType
    <3>. DEFINE wrote == IF flight[r].form.reloads = "all" /\ flight[r].version > view.wrote
                         THEN flight[r].version ELSE view.wrote
                busy == view.busy /\ ~(flight[r].form.reloads = "none" /\ flight[r].form.busy # "none")
    <3>1. wrote \in Nat /\ busy \in BOOLEAN
      BY <2>1, view \in ViewType DEF WriteType, ViewType
    <3>2. view' = view \/ view' = [view EXCEPT !.wrote = wrote, !.busy = busy, !.copies = 0, !.failed = FALSE]
      BY <1>18 DEF WriteAnswered
    <3>. HIDE DEF wrote, busy
    <3>3. [view EXCEPT !.wrote = wrote, !.busy = busy, !.copies = 0, !.failed = FALSE] \in ViewType
      BY <3>1 DEF ViewType
    <3>4. view \in ViewType
      OBVIOUS
    <3>. QED
      BY <3>2, <3>3, <3>4, Zenon
  <2>5. flight' \in [Request -> FlightType]
    <3>1. Idle \in FlightType
      BY DEF FlightType
    <3>. QED
      BY <1>18, <2>3, <3>1 DEF WriteAnswered
  <2>. QED
    BY <1>18, <2>4, <2>5 DEF WriteAnswered
<1>19. ASSUME NEW r \in Request, WriteFails(r) PROVE TabTypes'
  <2>1. flight[r] \in WriteType /\ flight[r].form \in FormType
    BY <1>16, <1>19 DEF WriteFails, WriteType
  <2>2. [flight[r] EXCEPT !.mine = FALSE] \in WriteType
    BY <2>1 DEF WriteType
  <2>3. view' \in ViewType
    BY <1>19, <2>1 DEF WriteFails, ViewType, FormType
  <2>4. flight' \in [Request -> FlightType]
    BY <1>19, <2>2 DEF WriteFails, FlightType
  <2>. QED
    BY <1>19, <2>3, <2>4 DEF WriteFails
<1>20. ASSUME NEW r \in Request, Taken(r) PROVE TabTypes'
  <2>1. [flight[r] EXCEPT !.at = "taken"] \in WriteType
    BY <1>16, <1>20 DEF Taken, WriteType
  <2>. QED
    BY <1>20, <2>1 DEF Taken, FlightType
<1>21. ASSUME NEW r \in Request, Dropped(r) PROVE TabTypes'
  BY <1>21 DEF Dropped, FlightType
<1>22. CASE MergeTask
  <2>1. PICK read \in 1..version :
           view' = [view EXCEPT !.shown = read, !.excused = @ \/ read < view.wrote]
    BY <1>22 DEF MergeTask
  <2>2. read \in Nat /\ view \in ViewType
    BY VersionsAreBounded
  <2>3. view' \in ViewType
    BY <2>1, <2>2 DEF ViewType
  <2>. QED
    BY <1>22, <2>3 DEF MergeTask
<1>. QED
  BY <1>2, <1>3, <1>4, <1>5, <1>6, <1>7, <1>8, <1>9, <1>10, <1>11, <1>12, <1>13, <1>14, <1>15,
     <1>17, <1>18, <1>19, <1>20, <1>21, <1>22 DEF WebStep

-----------------------------------------------------------------------------
(* The fields a step leaves and changes: all that the invariants need.      *)

LEMMA Kinds ==
    ASSUME TabTypes
    PROVE  /\ version \in Nat /\ version >= 1 /\ view.page \in Page
           /\ view.shown \in Nat /\ view.wrote \in Nat /\ view.copies \in Nat
           /\ \A r \in Request :
                 /\ flight[r].kind \in {"idle", "load", "write", "signin"}
                 /\ flight[r].kind = "idle" => flight[r] = Idle
                 /\ flight[r].kind = "load" => flight[r] \in LoadType /\ flight[r].read \in Nat
                 /\ flight[r].kind = "write" => /\ flight[r] \in WriteType
                                               /\ flight[r].form \in FormType
                                               /\ flight[r].version \in Nat
                 /\ flight[r].kind = "signin" => flight[r] \in SignInType
<1>1. version \in Nat /\ version >= 1
  BY VersionsAreBounded DEF TabTypes
<1>2. /\ view.page \in Page
      /\ view.shown \in Nat /\ view.wrote \in Nat /\ view.copies \in Nat
  BY DEF TabTypes, ViewType
<1>3. ASSUME NEW r \in Request
      PROVE  /\ flight[r].kind \in {"idle", "load", "write", "signin"}
             /\ flight[r].kind = "idle" => flight[r] = Idle
             /\ flight[r].kind = "load" => flight[r] \in LoadType
             /\ flight[r].kind = "write" => flight[r] \in WriteType
             /\ flight[r].kind = "signin" => flight[r] \in SignInType
  <2>1. flight[r] \in FlightType
    BY DEF TabTypes
  <2>. QED
    BY <2>1 DEF FlightType, Idle, LoadType, WriteType, SignInType
<1>4. /\ \A x \in LoadType : x.read \in Nat
      /\ \A x \in WriteType : x.form \in FormType /\ x.version \in Nat
  BY DEF LoadType, WriteType
<1>. QED
  BY <1>1, <1>2, <1>3, <1>4

LEMMA Made ==
    /\ Idle.kind = "idle"
    /\ FirstLoad.kind = "load" /\ FirstLoad.of = "all" /\ ~FirstLoad.quiet /\ ~FirstLoad.frees /\ FirstLoad.read = 0
    /\ LiveLoad.kind = "load" /\ LiveLoad.of = "all" /\ LiveLoad.quiet /\ ~LiveLoad.frees /\ LiveLoad.read = 0
    /\ \A p : SignIn(p).kind = "signin" /\ SignIn(p).mine
    /\ \A form : LET new == Write(form)
                 IN  /\ new.kind = "write" /\ new.form = form /\ new.at = "sent"
                     /\ new.version = 0 /\ new.mine
    /\ \A p : LET new == Mounted(p)
             IN  /\ new.page = p /\ new.shown = 0 /\ ~new.error /\ ~new.busy /\ new.wrote = 0
                 /\ ~new.excused /\ new.copies = 0 /\ ~new.failed
BY DEF Idle, FirstLoad, LiveLoad, Load, SignIn, Write, Mounted

\* Of a request only its handler is gone.
Abandoned(r) ==
    /\ flight[r].kind \in {"write", "signin"}
    /\ flight'[r].kind = flight[r].kind /\ ~flight'[r].mine
    /\ flight[r].kind = "write" => /\ flight'[r].form = flight[r].form
                                  /\ flight'[r].at = flight[r].at
                                  /\ flight'[r].version = flight[r].version

\* The page is another one, or anew: Refresh, Redirect, Logout, SignedIn, Open.
Remounts ==
    /\ view' = Mounted(view'.page) /\ view'.page \in Page
    /\ version' = version
    /\ \A r \in Request : \/ flight'[r] = Idle
                          \/ Abandoned(r)
                          \/ flight'[r] = FirstLoad
    /\ session' = "member" /\ ~restoring' /\ PageOf[view'.page].loads
       => \E r \in Request : flight'[r] = FirstLoad

\* A load begins, or nothing: Restore, MoveCursor, LiveEvent.
Begins(r) ==
    /\ view' = view /\ version' = version
    /\ flight[r] = Idle
    /\ \A q \in Request : q # r => flight'[q] = flight[q]
    /\ flight'[r] = Idle \/ flight'[r] = FirstLoad \/ flight'[r] = LiveLoad
    /\ \/ session' = session /\ restoring' = restoring
       \/ session' = "member" /\ PageOf[view.page].loads => flight'[r] = FirstLoad

Only(r) == /\ \A q \in Request : q # r => flight'[q] = flight[q]
           /\ session' = session /\ restoring' = restoring

SameNumbers == /\ view'.page = view.page /\ view'.shown = view.shown /\ view'.wrote = view.wrote
               /\ view'.copies = view.copies /\ version' = version
SameMarks == view'.error = view.error /\ view'.busy = view.busy /\ view'.failed = view.failed

\* A row of the page becomes an older one.
Merged == /\ flight' = flight /\ session' = session /\ restoring' = restoring /\ version' = version
          /\ view'.page = view.page /\ view'.wrote = view.wrote /\ view'.copies = view.copies
          /\ SameMarks
          /\ view'.shown \in Nat /\ 0 < view'.shown /\ view'.shown < view.shown
          /\ view'.excused = (view.excused \/ view'.shown < view.wrote)

LEMMA AbandonedFits ==
    ASSUME TabTypes, NEW r \in Request, flight[r].kind \in {"write", "signin"}, flight'[r] = Left[r]
    PROVE  Abandoned(r)
<1>1. CASE flight[r].kind = "write"
  BY <1>1, LeftFits, Kinds DEF Abandoned, WriteType
<1>2. CASE flight[r].kind = "signin"
  BY <1>2, LeftFits, Kinds DEF Abandoned, SignInType
<1>. QED
  BY <1>1, <1>2

LEMMA MountedFits == ASSUME NEW p PROVE Mounted(p).page = p
BY DEF Mounted

LEMMA RemountsFits ==
    ASSUME TabTypes,
           \/ Refresh \/ Redirect \/ Logout
           \/ \E r \in Request : \/ \E who \in {"member", "churchless"} : SignedIn(r, who)
                                \/ \E p \in Page : Open(p, r)
    PROVE  Remounts
<1>1. \A r \in Request : flight'[r] = Left[r] => flight'[r] = Idle \/ Abandoned(r)
  BY LeftFits, AbandonedFits
<1>2. CASE Refresh
  <2>1. \A r \in Request : flight'[r] = Left[r] \/ flight'[r] = Idle
    BY <1>2 DEF Refresh
  <2>2. /\ view' = Mounted(view.page) /\ view.page \in Page /\ version' = version /\ session' = "none"
    BY <1>2 DEF Refresh, TabTypes, ViewType
  <2>3. view'.page = view.page
    BY <2>2, MountedFits
  <2>4. \A r \in Request : flight'[r] = Idle \/ Abandoned(r)
    BY <1>1, <2>1
  <2>. QED
    BY <2>2, <2>3, <2>4 DEF Remounts
<1>3. CASE Redirect \/ Logout
  <2>1. /\ view' = Mounted("login") /\ flight' = Left /\ version' = version /\ session' = "none"
    BY <1>3 DEF Redirect, Logout
  <2>2. view'.page = "login"
    BY <2>1, MountedFits
  <2>3. \A r \in Request : flight'[r] = Left[r]
    BY <2>1
  <2>4. \A r \in Request : flight'[r] = Idle \/ Abandoned(r)
    BY <1>1, <2>3
  <2>. QED
    BY <2>1, <2>2, <2>4, NamedPages DEF Remounts
<1>6. ASSUME NEW air \in [Request -> FlightType], \A q \in Request : air[q] \in {Idle, Left[q]},
             NEW r \in Request, NEW p \in Page, NEW who,
             view' = Mounted(p), version' = version, session' = who,
             flight' = Fetched(air, r, p, who)
      PROVE  Remounts
  <2>1. /\ \A q \in Request : q # r => flight'[q] = air[q]
        /\ PageOf[p].loads /\ who = "member" => flight'[r] = FirstLoad
        /\ flight'[r] = FirstLoad \/ flight'[r] = air[r]
    BY <1>6, FetchedIs
  <2>2. \A q \in Request : flight'[q] = FirstLoad \/ flight'[q] = Idle \/ flight'[q] = Left[q]
    BY <1>6, <2>1
  <2>3. \A q \in Request : flight'[q] = Idle \/ Abandoned(q) \/ flight'[q] = FirstLoad
    BY <1>1, <2>2
  <2>4. view'.page = p
    BY <1>6, MountedFits
  <2>5. session' = "member" /\ PageOf[p].loads => flight'[r] = FirstLoad
    BY <1>6, <2>1
  <2>. QED
    BY <1>6, <2>3, <2>4, <2>5 DEF Remounts
<1>4. ASSUME NEW r \in Request, NEW who \in {"member", "churchless"}, SignedIn(r, who)
      PROVE  Remounts
  <2>. DEFINE air == [Left EXCEPT ![r] = Idle]
  <2>1. air \in [Request -> FlightType] /\ \A q \in Request : air[q] \in {Idle, Left[q]}
    BY LeftFits DEF FlightType
  <2>2. /\ view' = Mounted("dashboard") /\ version' = version /\ session' = who
        /\ flight' = Fetched(air, r, "dashboard", who)
    BY <1>4 DEF SignedIn
  <2>. HIDE DEF air
  <2>. QED
    BY <1>6, <2>1, <2>2, NamedPages
<1>5. ASSUME NEW r \in Request, NEW p \in Page, Open(p, r) PROVE Remounts
  <2>1. Left \in [Request -> FlightType] /\ \A q \in Request : Left[q] \in {Idle, Left[q]}
    BY LeftFits
  <2>2. /\ view' = Mounted(p) /\ version' = version /\ session' = session
        /\ flight' = Fetched(Left, r, p, session)
    BY <1>5 DEF Open
  <2>. QED
    BY <1>6, <2>1, <2>2
<1>. QED
  BY <1>2, <1>3, <1>4, <1>5

LEMMA BeginsFits ==
    ASSUME TabTypes, NEW r \in Request, Restore(r) \/ MoveCursor(r) \/ LiveEvent(r)
    PROVE  Begins(r)
<1>0. flight \in [Request -> FlightType]
  BY DEF TabTypes
<1>1. CASE Restore(r)
  <2>1. /\ flight' = Fetched(flight, r, view.page, stored) /\ flight[r] = Idle
        /\ session' = stored /\ UNCHANGED <<view, version>>
    BY <1>1 DEF Restore
  <2>2. /\ \A q \in Request : q # r => flight'[q] = flight[q]
        /\ PageOf[view.page].loads /\ stored = "member" => flight'[r] = FirstLoad
        /\ flight'[r] = FirstLoad \/ flight'[r] = flight[r]
    BY <1>0, <2>1, FetchedIs
  <2>. QED
    BY <2>1, <2>2 DEF Begins
<1>2. CASE MoveCursor(r)
  <2>1. /\ flight' = Fetched(flight, r, view.page, session) /\ flight[r] = Idle
        /\ UNCHANGED <<session, restoring, view, version>>
    BY <1>2 DEF MoveCursor
  <2>2. /\ \A q \in Request : q # r => flight'[q] = flight[q]
        /\ flight'[r] = FirstLoad \/ flight'[r] = flight[r]
    BY <1>0, <2>1, FetchedIs
  <2>. QED
    BY <2>1, <2>2 DEF Begins
<1>3. CASE LiveEvent(r)
  <2>1. /\ flight' = [flight EXCEPT ![r] = LiveLoad] /\ flight[r] = Idle
        /\ UNCHANGED <<session, restoring, view, version>>
    BY <1>3 DEF LiveEvent, LiveLoad
  <2>2. /\ \A q \in Request : q # r => flight'[q] = flight[q]
        /\ flight'[r] = LiveLoad
    BY <1>0, <2>1
  <2>. QED
    BY <2>1, <2>2 DEF Begins
<1>. QED
  BY <1>1, <1>2, <1>3

LEMMA SubmitSignInFits ==
    ASSUME TabTypes, NEW r \in Request, SubmitSignIn(r)
    PROVE  /\ Only(r) /\ SameNumbers /\ flight'[r] = SignIn(view.page) /\ flight[r] = Idle
           /\ view.page \in {"login", "register"} /\ view'.excused = view.excused
BY DEF SubmitSignIn, Only, SameNumbers, TabTypes, ViewType

LEMMA SignInFailsFits ==
    ASSUME TabTypes, NEW r \in Request, SignInFails(r)
    PROVE  /\ Only(r) /\ SameNumbers /\ flight[r].kind = "signin" /\ flight'[r] = Idle
           /\ view'.excused = view.excused
           /\ ~flight[r].mine => SameMarks
           /\ flight[r].mine => view'.error
BY DEF SignInFails, Only, SameNumbers, SameMarks, TabTypes, ViewType

LEMMA ReadLoadFits ==
    ASSUME TabTypes, NEW r \in Request, ReadLoad(r)
    PROVE  /\ Only(r) /\ view' = view /\ version' = version
           /\ flight[r].kind = "load" /\ flight'[r].kind = "load" /\ flight'[r].read = version
           /\ flight'[r].of = flight[r].of /\ flight'[r].quiet = flight[r].quiet
           /\ flight'[r].frees = flight[r].frees
<1>1. /\ flight[r] \in LoadType
      /\ flight' = [flight EXCEPT ![r] = [flight[r] EXCEPT !.read = version]]
      /\ flight \in [Request -> FlightType]
  BY Kinds DEF ReadLoad, TabTypes
<1>. QED
  BY <1>1 DEF ReadLoad, Only, LoadType

LEMMA ShowLoadFits ==
    ASSUME TabTypes, NEW r \in Request, ShowLoad(r)
    PROVE  /\ Only(r) /\ flight[r].kind = "load" /\ flight'[r] = Idle /\ flight[r].read > 0
           /\ version' = version /\ view'.page = view.page /\ view'.wrote = view.wrote
           /\ view'.copies = view.copies /\ view'.failed = view.failed /\ view'.error = view.error
           /\ view'.busy = (view.busy /\ ~flight[r].frees)
           /\ IF flight[r].of = "part" THEN view'.shown = view.shown /\ view'.excused = view.excused
              ELSE /\ view'.shown = flight[r].read
                   /\ view'.excused = (flight[r].read < view.wrote
                                       /\ (view.excused \/ flight[r].read < view.shown))
BY DEF ShowLoad, Only, TabTypes, ViewType

LEMMA LoadFailsFits ==
    ASSUME TabTypes, NEW r \in Request, LoadFails(r)
    PROVE  /\ Only(r) /\ SameNumbers /\ flight[r].kind = "load" /\ flight'[r] = Idle
           /\ view'.failed = view.failed
           /\ view'.busy = (view.busy /\ ~flight[r].frees)
           /\ view'.error = (view.error \/ ~flight[r].quiet)
           /\ view'.excused = (view.excused \/ flight[r].of = "all")
BY DEF LoadFails, Only, SameNumbers, TabTypes, ViewType

LEMMA SubmitFits ==
    ASSUME TabTypes, NEW r \in Request, NEW form, Submit(form, r)
    PROVE  /\ Only(r) /\ SameNumbers /\ flight[r] = Idle /\ flight'[r] = Write(form)
           /\ form \in PageOf[view.page].forms /\ (form.busy = "blocks" => ~view.busy)
           /\ view'.failed = view.failed /\ view'.excused = view.excused
           /\ view'.error = (view.error /\ ~form.clears)
           /\ view'.busy = (view.busy \/ form.busy # "none")
BY DEF Submit, Only, SameNumbers, TabTypes, ViewType

LEMMA ServedFits ==
    ASSUME TabTypes, NEW r \in Request, flight[r].kind = "write", Served(r)
    PROVE  /\ Only(r) /\ flight'[r].kind = "write" /\ flight'[r].at = "served"
           /\ flight'[r].version = version'
           /\ flight'[r].form = flight[r].form /\ flight'[r].mine = flight[r].mine
           /\ version' \in {version, version + 1}
           /\ flight[r].form = SendForm => version' = version + 1
           /\ view'.page = view.page /\ view'.shown = view.shown /\ view'.wrote = view.wrote
           /\ view'.excused = view.excused /\ SameMarks
           /\ view'.copies = IF flight[r].mine /\ flight[r].form = SendForm
                             THEN view.copies + 1 ELSE view.copies
<1>1. flight[r] \in WriteType /\ flight \in [Request -> FlightType] /\ view \in ViewType
  BY Kinds DEF TabTypes
<1>2. flight' = [flight EXCEPT ![r] = [flight[r] EXCEPT !.at = "served", !.version = version']]
  BY <1>1 DEF Served
<1>3. /\ flight'[r].kind = "write" /\ flight'[r].at = "served" /\ flight'[r].version = version'
      /\ flight'[r].form = flight[r].form /\ flight'[r].mine = flight[r].mine
  BY <1>1, <1>2 DEF WriteType
<1>4. version' \in {version, version + 1} /\ (flight[r].form = SendForm => version' = version + 1)
  BY SendFormFits DEF Served
<1>5. /\ view'.page = view.page /\ view'.shown = view.shown /\ view'.wrote = view.wrote
      /\ view'.excused = view.excused /\ SameMarks
      /\ view'.copies = IF flight[r].mine /\ flight[r].form = SendForm
                        THEN view.copies + 1 ELSE view.copies
  BY <1>1 DEF Served, SameMarks, ViewType
<1>. QED
  BY <1>1, <1>2, <1>3, <1>4, <1>5 DEF Served, Only

LEMMA WriteAnsweredFits ==
    ASSUME TabTypes, NEW r \in Request, WriteAnswered(r)
    PROVE  /\ Only(r) /\ flight[r].kind = "write" /\ version' = version
           /\ ~flight[r].mine => view' = view /\ flight'[r] = Idle
           /\ flight[r].mine =>
                 LET form == flight[r].form
                 IN  /\ view'.page = view.page /\ view'.shown = view.shown
                     /\ view'.error = view.error /\ view'.excused = view.excused
                     /\ view'.wrote = IF form.reloads = "all" /\ flight[r].version > view.wrote
                                      THEN flight[r].version ELSE view.wrote
                     /\ view'.busy = (view.busy /\ ~(form.reloads = "none" /\ form.busy # "none"))
                     /\ view'.copies = 0 /\ ~view'.failed
                     /\ form.reloads = "none" => flight'[r] = Idle
                     /\ form.reloads # "none" =>
                          /\ flight'[r].kind = "load" /\ flight'[r].of = form.reloads /\ flight'[r].read = 0
                          /\ flight'[r].quiet = (~form.catches \/ form.reloads = "part")
                          /\ flight'[r].frees = (form.busy # "none")
<1>1. flight \in [Request -> FlightType] /\ view \in ViewType
  BY DEF TabTypes
<1>2. CASE ~flight[r].mine
  BY <1>1, <1>2 DEF WriteAnswered, Only
<1>3. CASE flight[r].mine
  <2>1. /\ view'.page = view.page /\ view'.shown = view.shown
        /\ view'.error = view.error /\ view'.excused = view.excused
        /\ view'.wrote = IF flight[r].form.reloads = "all" /\ flight[r].version > view.wrote
                         THEN flight[r].version ELSE view.wrote
        /\ view'.busy = (view.busy /\ ~(flight[r].form.reloads = "none" /\ flight[r].form.busy # "none"))
        /\ view'.copies = 0 /\ ~view'.failed
    BY <1>1, <1>3 DEF WriteAnswered, ViewType
  <2>2. flight[r].form.reloads = "none" => flight'[r] = Idle
    BY <1>1, <1>3 DEF WriteAnswered
  <2>. DEFINE new == Load(flight[r].form.reloads, ~flight[r].form.catches \/ flight[r].form.reloads = "part",
                          flight[r].form.busy # "none")
  <2>3. flight[r].form.reloads # "none" => flight'[r] = new
    BY <1>1, <1>3 DEF WriteAnswered
  <2>4. /\ new.kind = "load" /\ new.of = flight[r].form.reloads /\ new.read = 0
        /\ new.quiet = (~flight[r].form.catches \/ flight[r].form.reloads = "part")
        /\ new.frees = (flight[r].form.busy # "none")
    BY DEF Load
  <2>. HIDE DEF new
  <2>5. Only(r) /\ flight[r].kind = "write" /\ version' = version
    BY <1>1, <1>3 DEF WriteAnswered, Only
  <2>. QED
    BY <1>3, <2>1, <2>2, <2>3, <2>4, <2>5
<1>. QED
  BY <1>2, <1>3

LEMMA WriteFailsFits ==
    ASSUME TabTypes, NEW r \in Request, WriteFails(r)
    PROVE  /\ Only(r) /\ SameNumbers /\ flight[r].kind = "write" /\ flight[r].mine
           /\ view'.excused = view.excused /\ view'.failed
           /\ view'.error = (view.error \/ flight[r].form.catches)
           /\ view'.busy = (view.busy /\ flight[r].form.busy = "none")
           /\ flight'[r] = Idle \/ Abandoned(r)
<1>1. /\ flight \in [Request -> FlightType] /\ view \in ViewType
      /\ flight[r].kind = "write" /\ flight[r].mine /\ flight[r] \in WriteType
  BY Kinds DEF TabTypes, WriteFails
<1>2. flight'[r] = Idle \/ flight'[r] = [flight[r] EXCEPT !.mine = FALSE]
  BY <1>1 DEF WriteFails
<1>3. flight'[r] = Idle \/ Abandoned(r)
  BY <1>1, <1>2 DEF Abandoned, WriteType
<1>. QED
  BY <1>1, <1>3 DEF WriteFails, Only, SameNumbers, ViewType

LEMMA TakenFits ==
    ASSUME TabTypes, NEW r \in Request, Taken(r)
    PROVE  /\ Only(r) /\ view' = view /\ version' = version
           /\ flight[r].kind = "write" /\ flight[r].at = "sent"
           /\ flight'[r].kind = "write" /\ flight'[r].at = "taken"
           /\ flight'[r].form = flight[r].form /\ flight'[r].mine = flight[r].mine
           /\ flight'[r].version = flight[r].version
<1>1. /\ flight \in [Request -> FlightType] /\ flight[r] \in WriteType
      /\ flight' = [flight EXCEPT ![r] = [flight[r] EXCEPT !.at = "taken"]]
  BY Kinds DEF Taken, TabTypes
<1>. QED
  BY <1>1 DEF Taken, Only, WriteType

LEMMA DroppedFits ==
    ASSUME TabTypes, NEW r \in Request, Dropped(r)
    PROVE  /\ Only(r) /\ view' = view /\ version' = version
           /\ flight[r].kind = "write" /\ ~flight[r].mine /\ flight'[r] = Idle
BY DEF Dropped, Only, TabTypes

LEMMA MergeTaskFits == ASSUME TabTypes, MergeTask PROVE Merged
<1>1. PICK read \in 1..version :
         read < view.shown /\ view' = [view EXCEPT !.shown = read, !.excused = @ \/ read < view.wrote]
  BY DEF MergeTask
<1>2. read \in Nat /\ 0 < read /\ view \in ViewType
  BY Kinds DEF TabTypes
<1>3. /\ view'.page = view.page /\ view'.wrote = view.wrote /\ view'.copies = view.copies
      /\ SameMarks /\ view'.shown = read
      /\ view'.excused = (view.excused \/ read < view.wrote)
  BY <1>1, <1>2 DEF SameMarks, ViewType
<1>. QED
  BY <1>1, <1>2, <1>3 DEF Merged, MergeTask

-----------------------------------------------------------------------------
(* The steps of the tab, by what they change. *)

LEMMA Steps ==
    ASSUME TabTypes, WebStep
    PROVE  \/ Remounts
           \/ UNCHANGED tab /\ version' = version + 1
           \/ Merged
           \/ \E r \in Request :
                 \/ Begins(r) \/ SubmitSignIn(r) \/ SignInFails(r)
                 \/ ReadLoad(r) \/ ShowLoad(r) \/ LoadFails(r)
                 \/ \E form \in Forms : Submit(form, r)
                 \/ flight[r].kind = "write" /\ flight[r].at # "served" /\ Served(r)
                 \/ WriteAnswered(r) \/ WriteFails(r) \/ Taken(r) \/ Dropped(r)
<1>1. CASE Refresh \/ Redirect \/ Logout
  BY <1>1, RemountsFits
<1>2. CASE OtherWrite
  BY <1>2 DEF OtherWrite
<1>3. ASSUME NEW r \in Request, NEW who \in {"member", "churchless"}, SignedIn(r, who)
      PROVE  Remounts
  BY <1>3, RemountsFits
<1>4. ASSUME NEW r \in Request, NEW p \in Page, Open(p, r) PROVE Remounts
  BY <1>4, RemountsFits
<1>5. ASSUME NEW r \in Request, Restore(r) \/ MoveCursor(r) \/ LiveEvent(r) PROVE Begins(r)
  BY <1>5, BeginsFits
<1>6. CASE MergeTask
  BY <1>6, MergeTaskFits
<1>. QED
  BY <1>1, <1>2, <1>3, <1>4, <1>5, <1>6 DEF WebStep

-----------------------------------------------------------------------------
(* Nothing is newer than the rows, and a handler belongs to its page. *)

\* An answer is as old as its rows, or older; so the text stored is too.
LEMMA VersionsStep == ASSUME TabTypes, Versions, WebStep PROVE Versions'
<1>1. CASE UNCHANGED tab /\ version' = version + 1
  BY <1>1, Kinds DEF tab, Versions
<1>2. CASE Remounts
  BY <1>2, Kinds, Made DEF Remounts, Abandoned, Versions
<1>3. ASSUME NEW r \in Request, Begins(r) PROVE Versions'
  BY <1>3, Kinds, Made DEF Begins, Versions
<1>4. ASSUME NEW r \in Request, SubmitSignIn(r) PROVE Versions'
  BY <1>4, SubmitSignInFits, Made DEF Only, SameNumbers, Versions
<1>5. ASSUME NEW r \in Request, SignInFails(r) PROVE Versions'
  BY <1>5, SignInFailsFits, Made DEF Only, SameNumbers, Versions
<1>6. ASSUME NEW r \in Request, ReadLoad(r) PROVE Versions'
  BY <1>6, ReadLoadFits, Kinds DEF Only, Versions
<1>7. ASSUME NEW r \in Request, ShowLoad(r) PROVE Versions'
  BY <1>7, ShowLoadFits, Made DEF Only, Versions
<1>8. ASSUME NEW r \in Request, LoadFails(r) PROVE Versions'
  BY <1>8, LoadFailsFits, Made DEF Only, SameNumbers, Versions
<1>9. ASSUME NEW r \in Request, NEW form \in Forms, Submit(form, r) PROVE Versions'
  BY <1>9, SubmitFits, Kinds, Made DEF Only, SameNumbers, Versions
<1>10. ASSUME NEW r \in Request, flight[r].kind = "write" /\ flight[r].at # "served" /\ Served(r)
       PROVE  Versions'
  BY <1>10, ServedFits, Kinds DEF Only, Versions
<1>11. ASSUME NEW r \in Request, WriteAnswered(r) PROVE Versions'
  BY <1>11, WriteAnsweredFits, Kinds, Made DEF Only, Versions
<1>12. ASSUME NEW r \in Request, WriteFails(r) PROVE Versions'
  BY <1>12, WriteFailsFits, Made DEF Only, SameNumbers, Abandoned, Versions
<1>13. ASSUME NEW r \in Request, Taken(r) PROVE Versions'
  BY <1>13, TakenFits DEF Only, Versions
<1>14. ASSUME NEW r \in Request, Dropped(r) PROVE Versions'
  BY <1>14, DroppedFits, Made DEF Only, Versions
<1>15. CASE Merged
  BY <1>15, Kinds DEF Merged, Versions
<1>. QED
  BY Steps, <1>1, <1>2, <1>3, <1>4, <1>5, <1>6, <1>7, <1>8, <1>9, <1>10, <1>11, <1>12, <1>13, <1>14,
     <1>15

\* A handler that waits began on the page it waits for.
LEMMA OwnFormsStep == ASSUME TabTypes, OwnForms, WebStep PROVE OwnForms'
<1>1. CASE UNCHANGED tab /\ version' = version + 1
  BY <1>1 DEF tab, OwnForms, Mine
<1>2. CASE Remounts
  BY <1>2, Made DEF Remounts, Abandoned, OwnForms, Mine
<1>3. ASSUME NEW r \in Request, Begins(r) PROVE OwnForms'
  BY <1>3, Made DEF Begins, OwnForms, Mine
<1>4. ASSUME NEW r \in Request, SubmitSignIn(r) PROVE OwnForms'
  BY <1>4, SubmitSignInFits, Made DEF Only, SameNumbers, OwnForms, Mine
<1>5. ASSUME NEW r \in Request, SignInFails(r) PROVE OwnForms'
  BY <1>5, SignInFailsFits, Made DEF Only, SameNumbers, OwnForms, Mine
<1>6. ASSUME NEW r \in Request, ReadLoad(r) PROVE OwnForms'
  BY <1>6, ReadLoadFits DEF Only, OwnForms, Mine
<1>7. ASSUME NEW r \in Request, ShowLoad(r) PROVE OwnForms'
  BY <1>7, ShowLoadFits, Made DEF Only, OwnForms, Mine
<1>8. ASSUME NEW r \in Request, LoadFails(r) PROVE OwnForms'
  BY <1>8, LoadFailsFits, Made DEF Only, SameNumbers, OwnForms, Mine
<1>9. ASSUME NEW r \in Request, NEW form \in Forms, Submit(form, r) PROVE OwnForms'
  BY <1>9, SubmitFits, Made DEF Only, SameNumbers, OwnForms, Mine
<1>10. ASSUME NEW r \in Request, flight[r].kind = "write" /\ flight[r].at # "served" /\ Served(r)
       PROVE  OwnForms'
  BY <1>10, ServedFits DEF Only, OwnForms, Mine
<1>11. ASSUME NEW r \in Request, WriteAnswered(r) PROVE OwnForms'
  BY <1>11, WriteAnsweredFits, Made DEF Only, OwnForms, Mine
<1>12. ASSUME NEW r \in Request, WriteFails(r) PROVE OwnForms'
  BY <1>12, WriteFailsFits, Made DEF Only, SameNumbers, Abandoned, OwnForms, Mine
<1>13. ASSUME NEW r \in Request, Taken(r) PROVE OwnForms'
  BY <1>13, TakenFits DEF Only, OwnForms, Mine
<1>14. ASSUME NEW r \in Request, Dropped(r) PROVE OwnForms'
  BY <1>14, DroppedFits, Made DEF Only, OwnForms, Mine
<1>15. CASE Merged
  BY <1>15, Zenon DEF Merged, OwnForms, Mine
<1>. QED
  BY Steps, <1>1, <1>2, <1>3, <1>4, <1>5, <1>6, <1>7, <1>8, <1>9, <1>10, <1>11, <1>12, <1>13, <1>14,
     <1>15

-----------------------------------------------------------------------------
(* The user's last answered write is on the screen, or a load that read it *)
(* or is going to is in the air. *)

Pending(r) == flight[r].kind = "load" /\ flight[r].of = "all"
              /\ (flight[r].read = 0 \/ flight[r].read >= view.wrote)

Shown == view.excused \/ view.shown >= view.wrote \/ \E r \in Request : Pending(r)

LEMMA PendingKept ==
    ASSUME NEW q \in Request, Pending(q), flight'[q] = flight[q], view'.wrote = view.wrote
    PROVE  Pending(q)'
BY DEF Pending

\* A load begins with the answer of a write, and reads the rows after it.
LEMMA ShownStep == ASSUME TabTypes, Versions, Shown, WebStep PROVE Shown'
<1>1. CASE UNCHANGED tab /\ version' = version + 1
  BY <1>1 DEF tab, Shown, Pending
<1>2. CASE Remounts
  BY <1>2, Made DEF Remounts, Shown
<1>3. ASSUME NEW r \in Request, Begins(r) PROVE Shown'
  BY <1>3, Made DEF Begins, Shown, Pending
<1>4. ASSUME NEW r \in Request, SubmitSignIn(r) PROVE Shown'
  BY <1>4, SubmitSignInFits, Made DEF Only, SameNumbers, Shown, Pending
<1>5. ASSUME NEW r \in Request, SignInFails(r) PROVE Shown'
  BY <1>5, SignInFailsFits DEF Only, SameNumbers, Shown, Pending
<1>6. ASSUME NEW r \in Request, ReadLoad(r) PROVE Shown'
  <2>1. /\ view' = view /\ flight[r].kind = "load" /\ flight'[r].kind = "load" /\ flight'[r].read = version
        /\ flight'[r].of = flight[r].of /\ \A q \in Request : q # r => flight'[q] = flight[q]
    BY <1>6, ReadLoadFits DEF Only
  <2>2. version >= view.wrote
    BY Kinds DEF Versions
  <2>3. ASSUME NEW q \in Request, Pending(q) PROVE \E p \in Request : Pending(p)'
    <3>1. CASE q = r
      BY <2>1, <2>2, <2>3, <3>1 DEF Pending
    <3>2. CASE q # r
      BY <2>1, <2>3, <3>2, PendingKept
    <3>. QED
      BY <3>1, <3>2
  <2>. QED
    BY <2>1, <2>3 DEF Shown
<1>7. ASSUME NEW r \in Request, ShowLoad(r) PROVE Shown'
  <2>1. /\ flight[r].kind = "load" /\ flight[r].read > 0 /\ view'.wrote = view.wrote
        /\ \A q \in Request : q # r => flight'[q] = flight[q]
        /\ flight[r].of = "part" => view'.shown = view.shown /\ view'.excused = view.excused
        /\ flight[r].of # "part" => /\ view'.shown = flight[r].read
                                   /\ view'.excused = (flight[r].read < view.wrote
                                                       /\ (view.excused \/ flight[r].read < view.shown))
    BY <1>7, ShowLoadFits DEF Only
  <2>2. flight[r].read \in Nat /\ view.wrote \in Nat /\ view.shown \in Nat
    BY <2>1, Kinds
  <2>3. ASSUME NEW q \in Request, Pending(q), q # r PROVE Shown'
    BY <2>1, <2>3, PendingKept DEF Shown
  <2>4. CASE flight[r].of = "part"
    <3>1. ~Pending(r)
      BY <2>4 DEF Pending
    <3>. QED
      BY <2>1, <2>3, <2>4, <3>1 DEF Shown
  <2>5. CASE flight[r].of # "part"
    <3>1. CASE flight[r].read >= view.wrote
      BY <2>1, <2>2, <2>5, <3>1 DEF Shown
    <3>2. CASE flight[r].read < view.wrote /\ (view.excused \/ flight[r].read < view.shown)
      BY <2>1, <2>5, <3>2 DEF Shown
    <3>3. CASE flight[r].read < view.wrote /\ ~view.excused /\ ~(flight[r].read < view.shown)
      <4>1. ~(view.shown >= view.wrote) /\ ~Pending(r)
        BY <2>1, <2>2, <3>3 DEF Pending
      <4>. QED
        BY <2>3, <3>3, <4>1 DEF Shown
    <3>. QED
      BY <2>2, <3>1, <3>2, <3>3
  <2>. QED
    BY <2>4, <2>5
<1>8. ASSUME NEW r \in Request, LoadFails(r) PROVE Shown'
  <2>1. /\ view'.wrote = view.wrote /\ view'.shown = view.shown
        /\ \A q \in Request : q # r => flight'[q] = flight[q]
        /\ view'.excused = (view.excused \/ flight[r].of = "all")
    BY <1>8, LoadFailsFits DEF Only, SameNumbers
  <2>2. ASSUME NEW q \in Request, Pending(q), q # r PROVE Shown'
    BY <2>1, <2>2, PendingKept DEF Shown
  <2>3. Pending(r) => Shown'
    BY <2>1 DEF Pending, Shown
  <2>. QED
    BY <2>1, <2>2, <2>3 DEF Shown
<1>9. ASSUME NEW r \in Request, NEW form \in Forms, Submit(form, r) PROVE Shown'
  BY <1>9, SubmitFits, Made DEF Only, SameNumbers, Shown, Pending
<1>10. ASSUME NEW r \in Request, flight[r].kind = "write" /\ flight[r].at # "served" /\ Served(r)
       PROVE  Shown'
  BY <1>10, ServedFits DEF Only, Shown, Pending
<1>11. ASSUME NEW r \in Request, WriteAnswered(r) PROVE Shown'
  BY <1>11, WriteAnsweredFits DEF Only, Shown, Pending
<1>12. ASSUME NEW r \in Request, WriteFails(r) PROVE Shown'
  BY <1>12, WriteFailsFits DEF Only, SameNumbers, Shown, Pending
<1>13. ASSUME NEW r \in Request, Taken(r) PROVE Shown'
  BY <1>13, TakenFits DEF Only, Shown, Pending
<1>14. ASSUME NEW r \in Request, Dropped(r) PROVE Shown'
  BY <1>14, DroppedFits DEF Only, Shown, Pending
<1>15. CASE Merged
  <2>1. /\ flight' = flight /\ view'.wrote = view.wrote /\ view'.shown \in Nat /\ view.wrote \in Nat
        /\ view'.excused = (view.excused \/ view'.shown < view.wrote)
    BY <1>15, Kinds DEF Merged
  <2>2. CASE view.excused \/ view'.shown < view.wrote
    BY <2>1, <2>2 DEF Shown
  <2>3. CASE ~(view'.shown < view.wrote)
    <3>1. view'.shown >= view'.wrote
      BY <2>1, <2>3
    <3>. QED
      BY <3>1 DEF Shown
  <2>. QED
    BY <2>2, <2>3
<1>. QED
  BY Steps, <1>1, <1>2, <1>3, <1>4, <1>5, <1>6, <1>7, <1>8, <1>9, <1>10, <1>11, <1>12, <1>13, <1>14,
     <1>15

-----------------------------------------------------------------------------
(* A page behind a login that has no data and says nothing waits for a load *)
(* that will show them, or for a write that ends in one; or it says         *)
(* "Loading...". *)

Waits(r) == \/ flight[r].kind = "load" /\ flight[r].of = "all" /\ ~flight[r].quiet
            \/ Mine(r) /\ flight[r].form.clears

Blank == Acting /\ view.shown = 0 /\ ~view.error /\ ~PageOf[view.page].held

Waited == Blank => \E r \in Request : Waits(r)

LEMMA WaitsKept ==
    ASSUME NEW q \in Request, Waits(q), flight'[q] = flight[q]
    PROVE  Waits(q)'
BY DEF Waits, Mine

\* A step at one request leaves who else waits; the rest is for that request.
LEMMA WaitedIf ==
    ASSUME Waited, NEW r \in Request, \A q \in Request : q # r => flight'[q] = flight[q],
           Blank' => Blank, Blank' /\ Waits(r) => Waits(r)'
    PROVE  Waited'
<1>. SUFFICES ASSUME Blank' PROVE \E q \in Request : Waits(q)'
  BY DEF Waited
<1>1. PICK q \in Request : Waits(q)
  BY DEF Waited
<1>2. CASE q = r
  BY <1>1, <1>2
<1>3. CASE q # r
  BY <1>1, <1>3, WaitsKept
<1>. QED
  BY <1>2, <1>3

LEMMA FormsFit ==
    ASSUME TabTypes, OwnForms, ~PageOf[view.page].held, NEW r \in Request, Mine(r), flight[r].form.clears
    PROVE  flight[r].form.catches /\ flight[r].form.reloads = "all"
<1>1. view.page \in Page
  BY Kinds
<1>2. PageFits(PageOf[view.page])
  BY <1>1, PagesFit
<1>. QED
  BY <1>2 DEF PageFits, OwnForms

LEMMA SignInIsOpen ==
    ASSUME TabTypes, view.page \in {"login", "register"}
    PROVE  ~PageOf[view.page].guarded /\ PageOf[view.page].forms = {}
BY SignInPages

LEMMA GuardedLoads == \A p \in Page : PageOf[p].guarded => PageOf[p].loads
BY PagesFit DEF PageFits

\* Who clears the error line loads again, and says so if it fails.
LEMMA WaitedStep == ASSUME TabTypes, OwnForms, Waited, WebStep PROVE Waited'
<1>1. CASE UNCHANGED tab /\ version' = version + 1
  BY <1>1 DEF tab, Waited, Waits, Blank, Mine, Acting
<1>2. CASE Remounts
  <2>. SUFFICES ASSUME Blank' PROVE \E r \in Request : Waits(r)'
    BY DEF Waited
  <2>1. session' = "member" /\ ~restoring' /\ PageOf[view'.page].guarded /\ view'.page \in Page
    BY <1>2 DEF Blank, Acting, Remounts
  <2>2. PICK r \in Request : flight'[r] = FirstLoad
    BY <1>2, <2>1, GuardedLoads DEF Remounts
  <2>. QED
    BY <2>2, Made DEF Waits
<1>3. ASSUME NEW r \in Request, Begins(r) PROVE Waited'
  <2>1. CASE session' = session /\ restoring' = restoring
    <3>1. view' = view /\ flight[r] = Idle /\ \A q \in Request : q # r => flight'[q] = flight[q]
      BY <1>3 DEF Begins
    <3>2. Blank' => Blank
      BY <2>1, <3>1 DEF Blank, Acting
    <3>3. ~Waits(r)
      BY <3>1, Made DEF Waits, Mine
    <3>. QED
      BY <3>1, <3>2, <3>3, WaitedIf
  <2>2. CASE session' = "member" /\ PageOf[view.page].loads => flight'[r] = FirstLoad
    <3>. SUFFICES ASSUME Blank' PROVE \E q \in Request : Waits(q)'
      BY DEF Waited
    <3>1. view' = view /\ view.page \in Page
      BY <1>3, Kinds DEF Begins
    <3>2. session' = "member" /\ PageOf[view.page].guarded
      BY <3>1 DEF Blank, Acting
    <3>3. flight'[r] = FirstLoad
      BY <2>2, <3>1, <3>2, GuardedLoads
    <3>. QED
      BY <3>3, Made DEF Waits
  <2>. QED
    BY <1>3, <2>1, <2>2 DEF Begins
<1>4. ASSUME NEW r \in Request, SubmitSignIn(r) PROVE Waited'
  <2>1. view.page \in {"login", "register"} /\ view'.page = view.page
    BY <1>4, SubmitSignInFits DEF SameNumbers
  <2>2. ~Blank'
    BY <2>1, SignInIsOpen DEF Blank, Acting
  <2>. QED
    BY <2>2 DEF Waited
<1>5. ASSUME NEW r \in Request, SignInFails(r) PROVE Waited'
  BY <1>5, SignInFailsFits DEF Only, SameNumbers, SameMarks, Waited, Waits, Blank, Mine, Acting
<1>6. ASSUME NEW r \in Request, ReadLoad(r) PROVE Waited'
  BY <1>6, ReadLoadFits DEF Only, Waited, Waits, Blank, Mine, Acting
<1>7. ASSUME NEW r \in Request, ShowLoad(r) PROVE Waited'
  BY <1>7, ShowLoadFits DEF Only, Waited, Waits, Blank, Mine, Acting
<1>8. ASSUME NEW r \in Request, LoadFails(r) PROVE Waited'
  <2>1. /\ Only(r) /\ SameNumbers /\ flight[r].kind = "load"
        /\ view'.error = (view.error \/ ~flight[r].quiet)
    BY <1>8, LoadFailsFits
  <2>2. (Blank' => Blank) /\ (Waits(r) => ~Blank')
    BY <2>1 DEF Blank, Acting, Only, SameNumbers, Waits, Mine
  <2>. QED
    BY <2>1, <2>2, WaitedIf DEF Only
<1>9. ASSUME NEW r \in Request, NEW form \in Forms, Submit(form, r) PROVE Waited'
  <2>1. /\ Only(r) /\ SameNumbers /\ flight[r] = Idle /\ flight'[r] = Write(form)
        /\ view'.error = (view.error /\ ~form.clears)
    BY <1>9, SubmitFits
  <2>2. CASE form.clears
    <3>1. Waits(r)'
      BY <2>1, <2>2, Made DEF Waits, Mine
    <3>. QED
      BY <3>1 DEF Waited
  <2>3. CASE ~form.clears
    <3>1. ~Waits(r)
      BY <2>1, Made DEF Waits, Mine
    <3>2. Blank' => Blank
      BY <2>1, <2>3 DEF Blank, Acting, Only, SameNumbers
    <3>. QED
      BY <2>1, <3>1, <3>2, WaitedIf DEF Only
  <2>. QED
    BY <2>2, <2>3
<1>10. ASSUME NEW r \in Request, flight[r].kind = "write" /\ flight[r].at # "served" /\ Served(r)
       PROVE  Waited'
  BY <1>10, ServedFits DEF Only, SameMarks, Waited, Waits, Blank, Mine, Acting
<1>11. ASSUME NEW r \in Request, WriteAnswered(r) PROVE Waited'
  <2>1. Only(r) /\ flight[r].kind = "write"
    BY <1>11, WriteAnsweredFits
  <2>2. CASE ~flight[r].mine
    <3>1. view' = view
      BY <1>11, <2>2, WriteAnsweredFits
    <3>2. ~Waits(r)
      BY <2>1, <2>2 DEF Waits, Mine
    <3>3. Blank' => Blank
      BY <2>1, <3>1 DEF Blank, Acting, Only
    <3>. QED
      BY <2>1, <3>2, <3>3, WaitedIf DEF Only
  <2>3. CASE flight[r].mine
    <3>1. /\ view'.page = view.page /\ view'.shown = view.shown /\ view'.error = view.error
          /\ flight[r].form.reloads # "none" =>
                /\ flight'[r].kind = "load" /\ flight'[r].of = flight[r].form.reloads
                /\ flight'[r].quiet = (~flight[r].form.catches \/ flight[r].form.reloads = "part")
      BY <1>11, <2>3, WriteAnsweredFits
    <3>2. Blank' => Blank
      BY <2>1, <3>1 DEF Blank, Acting, Only
    <3>3. ASSUME Blank, Waits(r) PROVE Waits(r)'
      <4>1. Mine(r) /\ flight[r].form.clears
        BY <2>1, <3>3 DEF Waits
      <4>2. flight[r].form.catches /\ flight[r].form.reloads = "all"
        BY <3>3, <4>1, FormsFit DEF Blank
      <4>. QED
        BY <3>1, <4>2 DEF Waits
    <3>. QED
      BY <2>1, <3>2, <3>3, WaitedIf DEF Only
  <2>. QED
    BY <2>2, <2>3
<1>12. ASSUME NEW r \in Request, WriteFails(r) PROVE Waited'
  <2>1. /\ Only(r) /\ SameNumbers /\ flight[r].kind = "write"
        /\ view'.error = (view.error \/ flight[r].form.catches)
    BY <1>12, WriteFailsFits
  <2>2. Blank' => Blank
    BY <2>1 DEF Blank, Acting, Only, SameNumbers
  <2>3. ASSUME Blank, Waits(r) PROVE ~Blank'
    <3>1. Mine(r) /\ flight[r].form.clears
      BY <2>1, <2>3 DEF Waits
    <3>2. flight[r].form.catches
      BY <2>3, <3>1, FormsFit DEF Blank
    <3>. QED
      BY <2>1, <3>2 DEF Blank
  <2>. QED
    BY <2>1, <2>2, <2>3, WaitedIf DEF Only
<1>13. ASSUME NEW r \in Request, Taken(r) PROVE Waited'
  BY <1>13, TakenFits DEF Only, Waited, Waits, Blank, Mine, Acting
<1>14. ASSUME NEW r \in Request, Dropped(r) PROVE Waited'
  BY <1>14, DroppedFits DEF Only, Waited, Waits, Blank, Mine, Acting
<1>15. CASE Merged
  BY <1>15, Kinds DEF Merged, SameMarks, Waited, Waits, Blank, Mine, Acting
<1>. QED
  BY Steps, <1>1, <1>2, <1>3, <1>4, <1>5, <1>6, <1>7, <1>8, <1>9, <1>10, <1>11, <1>12, <1>13, <1>14,
     <1>15

-----------------------------------------------------------------------------
(* The thread sends one message at a time: its button is disabled from the *)
(* click to the end of the reload. *)

OnThread == SendForm \in PageOf[view.page].forms
Holds(r) == \/ Mine(r)
            \/ flight[r].kind = "load" /\ flight[r].frees

Tokens ==
    OnThread => /\ \A r, q \in Request : Holds(r) /\ Holds(q) => r = q
                /\ \A r \in Request : Holds(r) => view.busy

LEMMA HoldsKept ==
    ASSUME NEW q \in Request, flight'[q] = flight[q]
    PROVE  Holds(q)' <=> Holds(q)
BY DEF Holds, Mine

\* One that held goes on, or nobody holds any more, or nobody held.
LEMMA TokensIf ==
    ASSUME Tokens, NEW r \in Request, \A q \in Request : q # r => flight'[q] = flight[q],
           view'.page = view.page,
           \/ (Holds(r)' => Holds(r)) /\ (view.busy => view'.busy)
           \/ Holds(r) /\ ~Holds(r)'
           \/ OnThread => ~view.busy /\ view'.busy
    PROVE  Tokens'
<1>. SUFFICES ASSUME OnThread'
              PROVE  /\ \A p, q \in Request : Holds(p)' /\ Holds(q)' => p = q
                     /\ \A q \in Request : Holds(q)' => view'.busy
  BY DEF Tokens
<1>1. OnThread
  BY DEF OnThread
<1>2. /\ \A p, q \in Request : Holds(p) /\ Holds(q) => p = q
      /\ \A q \in Request : Holds(q) => view.busy
  BY <1>1 DEF Tokens
<1>3. \A q \in Request : q # r => (Holds(q)' <=> Holds(q))
  BY HoldsKept
<1>4. CASE (Holds(r)' => Holds(r)) /\ (view.busy => view'.busy)
  <2>1. \A q \in Request : Holds(q)' => Holds(q)
    BY <1>3, <1>4
  <2>. QED
    BY <1>2, <1>4, <2>1
<1>5. CASE Holds(r) /\ ~Holds(r)'
  <2>1. \A q \in Request : ~Holds(q)'
    BY <1>2, <1>3, <1>5
  <2>. QED
    BY <2>1
<1>6. CASE ~view.busy /\ view'.busy
  <2>1. \A q \in Request : ~Holds(q)
    BY <1>2, <1>6
  <2>2. \A q \in Request : Holds(q)' => q = r
    BY <1>3, <2>1
  <2>. QED
    BY <1>6, <2>2
<1>. QED
  BY <1>1, <1>4, <1>5, <1>6

LEMMA ThreadForms ==
    ASSUME TabTypes, OnThread
    PROVE  PageOf[view.page].forms = {SendForm} /\ view.page \notin {"login", "register"}
<1>1. PageFits(PageOf[view.page])
  BY Kinds, PagesFit
<1>2. \A p \in {"login", "register"} : PageOf[p].forms = {}
  BY SignInPages
<1>. QED
  BY <1>1, <1>2 DEF PageFits, OnThread

\* The flag is raised by the handler and lowered by its end.
LEMMA TokensStep == ASSUME TabTypes, OwnForms, Tokens, WebStep PROVE Tokens'
<1>1. CASE UNCHANGED tab /\ version' = version + 1
  BY <1>1 DEF tab, Tokens, OnThread, Holds, Mine
<1>2. CASE Remounts
  BY <1>2, Made DEF Remounts, Abandoned, Tokens, Holds, Mine
<1>3. ASSUME NEW r \in Request, Begins(r) PROVE Tokens'
  BY <1>3, Made DEF Begins, Tokens, OnThread, Holds, Mine
<1>4. ASSUME NEW r \in Request, SubmitSignIn(r) PROVE Tokens'
  <2>1. ~OnThread /\ view'.page = view.page
    BY <1>4, SubmitSignInFits, ThreadForms DEF SameNumbers
  <2>. QED
    BY <2>1 DEF Tokens, OnThread
<1>5. ASSUME NEW r \in Request, SignInFails(r) PROVE Tokens'
  <2>1. /\ Only(r) /\ SameNumbers /\ flight[r].kind = "signin" /\ flight'[r] = Idle
        /\ ~flight[r].mine => SameMarks
    BY <1>5, SignInFailsFits
  <2>2. CASE flight[r].mine
    <3>1. ~OnThread
      BY <2>1, <2>2, ThreadForms DEF OwnForms
    <3>. QED
      BY <2>1, <3>1 DEF Tokens, OnThread, SameNumbers
  <2>3. CASE ~flight[r].mine
    <3>1. ~Holds(r)' /\ (view.busy => view'.busy)
      BY <2>1, <2>3, Made DEF Holds, Mine, SameMarks
    <3>. QED
      BY <2>1, <3>1, TokensIf DEF Only, SameNumbers
  <2>. QED
    BY <2>2, <2>3
<1>6. ASSUME NEW r \in Request, ReadLoad(r) PROVE Tokens'
  BY <1>6, ReadLoadFits DEF Only, Tokens, OnThread, Holds, Mine
<1>7. ASSUME NEW r \in Request, ShowLoad(r) PROVE Tokens'
  <2>1. /\ Only(r) /\ flight[r].kind = "load" /\ flight'[r] = Idle
        /\ view'.page = view.page /\ view'.busy = (view.busy /\ ~flight[r].frees)
    BY <1>7, ShowLoadFits
  <2>2. ~Holds(r)' /\ (Holds(r) <=> flight[r].frees)
    BY <2>1, Made DEF Holds, Mine
  <2>. QED
    BY <2>1, <2>2, TokensIf DEF Only
<1>8. ASSUME NEW r \in Request, LoadFails(r) PROVE Tokens'
  <2>1. /\ Only(r) /\ flight[r].kind = "load" /\ flight'[r] = Idle
        /\ view'.page = view.page /\ view'.busy = (view.busy /\ ~flight[r].frees)
    BY <1>8, LoadFailsFits DEF SameNumbers
  <2>2. ~Holds(r)' /\ (Holds(r) <=> flight[r].frees)
    BY <2>1, Made DEF Holds, Mine
  <2>. QED
    BY <2>1, <2>2, TokensIf DEF Only
<1>9. ASSUME NEW r \in Request, NEW form \in Forms, Submit(form, r) PROVE Tokens'
  <2>1. /\ Only(r) /\ view'.page = view.page /\ form \in PageOf[view.page].forms
        /\ form.busy = "blocks" => ~view.busy
        /\ view'.busy = (view.busy \/ form.busy # "none")
    BY <1>9, SubmitFits DEF SameNumbers
  <2>2. OnThread => ~view.busy /\ view'.busy
    BY <2>1, ThreadForms, SendFormFits
  <2>. QED
    BY <2>1, <2>2, TokensIf DEF Only
<1>10. ASSUME NEW r \in Request, flight[r].kind = "write" /\ flight[r].at # "served" /\ Served(r)
       PROVE  Tokens'
  <2>1. /\ Only(r) /\ flight[r].kind = "write" /\ flight'[r].kind = "write" /\ flight'[r].mine = flight[r].mine
        /\ view'.page = view.page /\ view'.busy = view.busy
    BY <1>10, ServedFits DEF SameMarks
  <2>2. Holds(r)' => Holds(r)
    BY <2>1, Zenon DEF Holds, Mine
  <2>. QED
    BY <2>1, <2>2, TokensIf DEF Only
<1>11. ASSUME NEW r \in Request, WriteAnswered(r) PROVE Tokens'
  <2>1. Only(r) /\ flight[r].kind = "write"
    BY <1>11, WriteAnsweredFits
  <2>2. CASE ~flight[r].mine
    <3>1. view' = view /\ flight'[r] = Idle
      BY <1>11, <2>2, WriteAnsweredFits
    <3>2. ~Holds(r)'
      BY <3>1, Made DEF Holds, Mine
    <3>. QED
      BY <2>1, <3>1, <3>2, TokensIf DEF Only
  <2>3. CASE flight[r].mine
    <3>1. /\ view'.page = view.page
          /\ view'.busy = (view.busy /\ ~(flight[r].form.reloads = "none" /\ flight[r].form.busy # "none"))
      BY <1>11, <2>3, WriteAnsweredFits
    <3>2. Holds(r)
      BY <2>1, <2>3, Zenon DEF Holds, Mine
    <3>3. CASE OnThread
      <4>1. flight[r].form = SendForm
        BY <2>1, <2>3, <3>3, ThreadForms DEF OwnForms, Mine
      <4>2. view.busy => view'.busy
        BY <3>1, <4>1, SendFormFits
      <4>. QED
        BY <2>1, <3>1, <3>2, <4>2, TokensIf DEF Only
    <3>4. CASE ~OnThread
      BY <3>1, <3>4 DEF Tokens, OnThread
    <3>. QED
      BY <3>3, <3>4
  <2>. QED
    BY <2>2, <2>3
<1>12. ASSUME NEW r \in Request, WriteFails(r) PROVE Tokens'
  <2>1. /\ Only(r) /\ view'.page = view.page /\ flight[r].kind = "write" /\ flight[r].mine
        /\ flight'[r] = Idle \/ Abandoned(r)
    BY <1>12, WriteFailsFits DEF SameNumbers
  <2>2. Holds(r)
    BY <2>1, Zenon DEF Holds, Mine
  <2>3. ~Holds(r)'
    BY <2>1, Made DEF Holds, Mine, Abandoned
  <2>. QED
    BY <2>1, <2>2, <2>3, TokensIf DEF Only
<1>13. ASSUME NEW r \in Request, Taken(r) PROVE Tokens'
  <2>1. /\ Only(r) /\ view' = view /\ flight[r].kind = "write" /\ flight'[r].kind = "write"
        /\ flight'[r].mine = flight[r].mine
    BY <1>13, TakenFits
  <2>2. Holds(r)' => Holds(r)
    BY <2>1, Zenon DEF Holds, Mine
  <2>. QED
    BY <2>1, <2>2, TokensIf DEF Only
<1>14. ASSUME NEW r \in Request, Dropped(r) PROVE Tokens'
  BY <1>14, DroppedFits, Made DEF Only, Tokens, OnThread, Holds, Mine
<1>15. CASE Merged
  BY <1>15, Zenon DEF Merged, SameMarks, Tokens, OnThread, Holds, Mine
<1>. QED
  BY Steps, <1>1, <1>2, <1>3, <1>4, <1>5, <1>6, <1>7, <1>8, <1>9, <1>10, <1>11, <1>12, <1>13, <1>14,
     <1>15

\* The text is stored at most once while no send of it has failed.
Copies ==
    /\ ~OnThread => view.copies = 0
    /\ ~view.failed => \/ view.copies = 0
                       \/ view.copies = 1 /\ \E r \in Request : Mine(r) /\ flight[r].at = "served"

LEMMA CopiesStep == ASSUME TabTypes, OwnForms, Tokens, Copies, WebStep PROVE Copies'
<1>1. CASE UNCHANGED tab /\ version' = version + 1
  BY <1>1 DEF tab, Copies, OnThread, Mine
<1>2. CASE Remounts
  <2>1. view'.copies = 0
    BY <1>2, Made DEF Remounts
  <2>. QED
    BY <2>1 DEF Copies
<1>3. ASSUME NEW r \in Request, Begins(r) PROVE Copies'
  BY <1>3, Made DEF Begins, Copies, OnThread, Mine
<1>4. ASSUME NEW r \in Request, SubmitSignIn(r) PROVE Copies'
  <2>1. ~OnThread /\ view'.page = view.page /\ view'.copies = view.copies
    BY <1>4, SubmitSignInFits, ThreadForms DEF SameNumbers
  <2>. QED
    BY <2>1 DEF Copies
<1>5. ASSUME NEW r \in Request, SignInFails(r) PROVE Copies'
  <2>1. /\ Only(r) /\ SameNumbers /\ flight[r].kind = "signin"
        /\ ~flight[r].mine => SameMarks
    BY <1>5, SignInFailsFits
  <2>2. CASE flight[r].mine
    <3>1. ~OnThread
      BY <2>1, <2>2, ThreadForms DEF OwnForms
    <3>. QED
      BY <2>1, <3>1 DEF Copies, SameNumbers
  <2>3. CASE ~flight[r].mine
    BY <2>1, <2>3 DEF Copies, OnThread, Mine, Only, SameNumbers, SameMarks
  <2>. QED
    BY <2>2, <2>3
<1>6. ASSUME NEW r \in Request, ReadLoad(r) PROVE Copies'
  BY <1>6, ReadLoadFits DEF Only, Copies, OnThread, Mine
<1>7. ASSUME NEW r \in Request, ShowLoad(r) PROVE Copies'
  BY <1>7, ShowLoadFits DEF Only, Copies, OnThread, Mine
<1>8. ASSUME NEW r \in Request, LoadFails(r) PROVE Copies'
  BY <1>8, LoadFailsFits DEF Only, SameNumbers, Copies, OnThread, Mine
<1>9. ASSUME NEW r \in Request, NEW form \in Forms, Submit(form, r) PROVE Copies'
  BY <1>9, SubmitFits, Made DEF Only, SameNumbers, Copies, OnThread, Mine
<1>10. ASSUME NEW r \in Request, flight[r].kind = "write" /\ flight[r].at # "served" /\ Served(r)
       PROVE  Copies'
  <2>1. /\ Only(r) /\ flight[r].kind = "write" /\ flight[r].at # "served"
        /\ flight'[r].kind = "write" /\ flight'[r].at = "served" /\ flight'[r].mine = flight[r].mine
        /\ view'.page = view.page /\ view'.failed = view.failed
        /\ view'.copies = IF flight[r].mine /\ flight[r].form = SendForm THEN view.copies + 1 ELSE view.copies
    BY <1>10, ServedFits DEF SameMarks
  <2>2. CASE flight[r].mine /\ flight[r].form = SendForm
    <3>1. OnThread /\ OnThread'
      BY <2>1, <2>2 DEF OwnForms, Mine, OnThread
    <3>2. \A q \in Request : Mine(q) => q = r
      <4>1. \A p, q \in Request : Holds(p) /\ Holds(q) => p = q
        BY <3>1 DEF Tokens
      <4>2. \A q \in Request : Mine(q) => Holds(q)
        BY DEF Holds
      <4>3. Mine(r)
        BY <2>1, <2>2, Zenon DEF Mine
      <4>. QED
        BY <4>1, <4>2, <4>3
    <3>3. ~view.failed => view.copies = 0
      BY <2>1, <3>2 DEF Copies
    <3>4. Mine(r)'
      BY <2>1, <2>2 DEF Mine
    <3>. QED
      BY <2>1, <2>2, <3>1, <3>3, <3>4 DEF Copies
  <2>3. CASE ~(flight[r].mine /\ flight[r].form = SendForm)
    BY <2>1, <2>3 DEF Copies, OnThread, Mine, Only
  <2>. QED
    BY <2>2, <2>3
<1>11. ASSUME NEW r \in Request, WriteAnswered(r) PROVE Copies'
  <2>1. CASE flight[r].mine
    <3>1. view'.copies = 0
      BY <1>11, <2>1, WriteAnsweredFits
    <3>. QED
      BY <3>1 DEF Copies
  <2>2. CASE ~flight[r].mine
    <3>1. Only(r) /\ view' = view
      BY <1>11, <2>2, WriteAnsweredFits
    <3>. QED
      BY <2>2, <3>1 DEF Copies, OnThread, Mine, Only
  <2>. QED
    BY <2>1, <2>2
<1>12. ASSUME NEW r \in Request, WriteFails(r) PROVE Copies'
  BY <1>12, WriteFailsFits DEF SameNumbers, Copies, OnThread
<1>13. ASSUME NEW r \in Request, Taken(r) PROVE Copies'
  BY <1>13, TakenFits DEF Only, Copies, OnThread, Mine
<1>14. ASSUME NEW r \in Request, Dropped(r) PROVE Copies'
  BY <1>14, DroppedFits DEF Only, Copies, OnThread, Mine
<1>15. CASE Merged
  BY <1>15, Zenon DEF Merged, SameMarks, Copies, OnThread, Mine
<1>. QED
  BY Steps, <1>1, <1>2, <1>3, <1>4, <1>5, <1>6, <1>7, <1>8, <1>9, <1>10, <1>11, <1>12, <1>13, <1>14,
     <1>15

-----------------------------------------------------------------------------
(* What a call has done, at each stage: a member is told, row by row. *)

Told(x) ==
    /\ x.due \cup x.created \cup x.mailed \cup x.rows \subseteq x.to
    /\ x.stage \in {"idle", "arrived", "stored"} => x.to = {} /\ x.accepted = {}
    /\ x.stage = "notifying" => x.to \subseteq x.rows \cup x.due /\ x.accepted \subseteq x.sentAt \cup x.mailed
    /\ x.stage = "returned" => /\ x.due \cup x.created \cup x.mailed = {}
                               /\ x.rows = x.to /\ x.accepted \subseteq x.sentAt

AllTold == \A c \in Call : Told(call[c])

\* A step may only end the stage of a call, but for its arrival.
Later(x, y) ==
    y.stage \notin {"idle", "answered"} =>
        /\ x.stage \notin {"idle", "answered"}
        /\ y.stage = "arrived" => x.stage = "arrived"

LEMMA NoCallFits == NoCall \in CallType /\ Told(NoCall) /\ NoCall.stage = "idle"
BY DEF NoCall, CallType, Told

LEMMA KeptFits ==
    ASSUME NEW y \in CallType, Told(y)
    PROVE  /\ Kept(y) \in CallType /\ Told(Kept(y))
           /\ Kept(y).stage \in {y.stage, "idle"}
<1>1. Kept(y) = y \/ Kept(y) = NoCall
  BY DEF Kept
<1>. QED
  BY <1>1, NoCallFits

LEMMA CallFields ==
    ASSUME NEW x \in CallType
    PROVE  /\ x.stage \in {"idle", "arrived", "stored", "notifying", "returned", "threw", "answered"}
           /\ x.to \subseteq User /\ x.due \subseteq User /\ x.created \subseteq User /\ x.mailed \subseteq User
           /\ x.rows \subseteq User /\ x.accepted \subseteq User /\ x.sentAt \subseteq User
BY DEF CallType

\* The stages of the handler.
LEMMA StageFits ==
    ASSUME NEW x \in CallType, Told(x), NEW y,
           \/ x.stage = "idle" /\ y = [x EXCEPT !.stage = "arrived"]
           \/ x.stage = "arrived" /\ y = [x EXCEPT !.stage = "stored"]
           \/ x.stage \in {"arrived", "stored"} /\ y = [x EXCEPT !.stage = "threw"]
           \/ x.stage = "notifying" /\ x.due \cup x.created \cup x.mailed = {} /\ y = [x EXCEPT !.stage = "returned"]
           \/ x.stage \in {"returned", "threw"} /\ y = [x EXCEPT !.stage = "answered"]
    PROVE  y \in CallType /\ Told(y) /\ (x.stage = "idle" \/ Later(x, y))
<1>1. /\ y \in CallType
      /\ y.to = x.to /\ y.due = x.due /\ y.created = x.created /\ y.mailed = x.mailed
      /\ y.rows = x.rows /\ y.accepted = x.accepted /\ y.sentAt = x.sentAt
  BY DEF CallType
<1>2. \/ x.stage = "idle" /\ y.stage = "arrived"
      \/ x.stage = "arrived" /\ y.stage = "stored"
      \/ x.stage \in {"arrived", "stored"} /\ y.stage = "threw"
      \/ x.stage = "notifying" /\ x.due \cup x.created \cup x.mailed = {} /\ y.stage = "returned"
      \/ x.stage \in {"returned", "threw"} /\ y.stage = "answered"
  BY DEF CallType
<1>3. Told(y)
  BY <1>1, <1>2 DEF Told
<1>4. x.stage = "idle" \/ Later(x, y)
  BY <1>2 DEF Later
<1>. QED
  BY <1>1, <1>3, <1>4

LEMMA AnnounceFits ==
    ASSUME NEW x \in CallType, Told(x), x.stage = "stored", NEW to \in SUBSET User, NEW y,
           y = [x EXCEPT !.stage = "notifying", !.to = to, !.due = to]
    PROVE  y \in CallType /\ Told(y) /\ Later(x, y)
<1>1. /\ y \in CallType /\ y.stage = "notifying" /\ y.to = to /\ y.due = to
      /\ y.created = x.created /\ y.mailed = x.mailed
      /\ y.rows = x.rows /\ y.accepted = x.accepted /\ y.sentAt = x.sentAt
  BY DEF CallType
<1>2. x.to = {} /\ x.accepted = {} /\ x.created = {} /\ x.mailed = {} /\ x.rows = {}
  BY DEF Told
<1>. QED
  BY <1>1, <1>2 DEF Told, Later

\* The notification of a member, step by step.
LEMMA NotifyFits ==
    ASSUME NEW x \in CallType, Told(x), NEW u, NEW taken \in SUBSET {u}, NEW y,
           \/ /\ u \in x.due
              /\ y = [x EXCEPT !.due = @ \ {u}, !.created = @ \cup {u}, !.rows = @ \cup {u}]
           \/ /\ u \in x.created
              /\ y = [x EXCEPT !.created = @ \ {u}, !.mailed = @ \cup {u}, !.accepted = @ \cup taken]
           \/ /\ u \in x.created
              /\ y = [x EXCEPT !.created = @ \ {u}]
           \/ /\ u \in x.mailed
              /\ y = [x EXCEPT !.mailed = @ \ {u}, !.sentAt = @ \cup {u}]
           \/ /\ u \in x.due \cup x.created \cup x.mailed
              /\ y = [x EXCEPT !.due = @ \ {u}, !.created = @ \ {u}, !.mailed = @ \ {u},
                               !.stage = IF @ = "notifying" THEN "threw" ELSE @]
    PROVE  y \in CallType /\ Told(y) /\ Later(x, y)
<1>0. u \in User /\ x.stage \notin {"idle", "arrived", "stored", "returned"}
  <2>1. u \in x.due \cup x.created \cup x.mailed
    OBVIOUS
  <2>2. x.due \cup x.created \cup x.mailed \subseteq x.to
    BY DEF Told
  <2>. QED
    BY <2>1, <2>2, CallFields DEF Told
<1>1. CASE u \in x.due /\ y = [x EXCEPT !.due = @ \ {u}, !.created = @ \cup {u}, !.rows = @ \cup {u}]
  <2>1. /\ y \in CallType /\ y.stage = x.stage /\ y.to = x.to /\ y.due = x.due \ {u}
        /\ y.created = x.created \cup {u} /\ y.mailed = x.mailed
        /\ y.rows = x.rows \cup {u} /\ y.accepted = x.accepted /\ y.sentAt = x.sentAt
    BY <1>0, <1>1 DEF CallType
  <2>. QED
    BY <1>0, <1>1, <2>1 DEF Told, Later
<1>2. CASE u \in x.created /\ y = [x EXCEPT !.created = @ \ {u}, !.mailed = @ \cup {u}, !.accepted = @ \cup taken]
  <2>1. /\ y \in CallType /\ y.stage = x.stage /\ y.to = x.to /\ y.due = x.due
        /\ y.created = x.created \ {u} /\ y.mailed = x.mailed \cup {u}
        /\ y.rows = x.rows /\ y.accepted = x.accepted \cup taken /\ y.sentAt = x.sentAt
    BY <1>0, <1>2 DEF CallType
  <2>. QED
    BY <1>0, <1>2, <2>1 DEF Told, Later
<1>3. CASE u \in x.created /\ y = [x EXCEPT !.created = @ \ {u}]
  <2>1. /\ y \in CallType /\ y.stage = x.stage /\ y.to = x.to /\ y.due = x.due
        /\ y.created = x.created \ {u} /\ y.mailed = x.mailed
        /\ y.rows = x.rows /\ y.accepted = x.accepted /\ y.sentAt = x.sentAt
    BY <1>0, <1>3 DEF CallType
  <2>. QED
    BY <1>0, <1>3, <2>1 DEF Told, Later
<1>4. CASE u \in x.mailed /\ y = [x EXCEPT !.mailed = @ \ {u}, !.sentAt = @ \cup {u}]
  <2>1. /\ y \in CallType /\ y.stage = x.stage /\ y.to = x.to /\ y.due = x.due
        /\ y.created = x.created /\ y.mailed = x.mailed \ {u}
        /\ y.rows = x.rows /\ y.accepted = x.accepted /\ y.sentAt = x.sentAt \cup {u}
    BY <1>0, <1>4 DEF CallType
  <2>. QED
    BY <1>0, <1>4, <2>1 DEF Told, Later
<1>5. CASE /\ u \in x.due \cup x.created \cup x.mailed
           /\ y = [x EXCEPT !.due = @ \ {u}, !.created = @ \ {u}, !.mailed = @ \ {u},
                            !.stage = IF @ = "notifying" THEN "threw" ELSE @]
  <2>1. /\ y \in CallType /\ y.stage = (IF x.stage = "notifying" THEN "threw" ELSE x.stage)
        /\ y.to = x.to /\ y.due = x.due \ {u}
        /\ y.created = x.created \ {u} /\ y.mailed = x.mailed \ {u}
        /\ y.rows = x.rows /\ y.accepted = x.accepted /\ y.sentAt = x.sentAt
    BY <1>0, <1>5 DEF CallType
  <2>2. y.stage \notin {"idle", "arrived", "stored", "notifying", "returned"}
    BY <1>0, <2>1, CallFields
  <2>. QED
    BY <1>0, <1>5, <2>1, <2>2 DEF Told, Later
<1>. QED
  BY <1>1, <1>2, <1>3, <1>4, <1>5

-----------------------------------------------------------------------------
(* The calls and the tab together. *)

LEMMA CallWritten ==
    ASSUME call \in [Call -> CallType], AllTold, NEW r \in Call, NEW y \in CallType, Told(y),
           call' = [call EXCEPT ![r] = y]
    PROVE  /\ call' \in [Call -> CallType] /\ AllTold'
           /\ call'[r] = y /\ \A c \in Call : c # r => call'[c] = call[c]
BY DEF AllTold

LEMMA LaterSame == ASSUME NEW x PROVE Later(x, x)
BY DEF Later

LEMMA ApiFits ==
    ASSUME call \in [Call -> CallType], AllTold, NEW r \in Call, ApiStep(r)
    PROVE  /\ call' \in [Call -> CallType] /\ AllTold'
           /\ \A c \in Call : Later(call[c], call'[c])
<1>. DEFINE x == call[r]
<1>1. x \in CallType /\ Told(x)
  BY DEF AllTold
<1>2. ASSUME NEW y \in CallType, Told(y), Later(x, y), call' = [call EXCEPT ![r] = y]
      PROVE  /\ call' \in [Call -> CallType] /\ AllTold'
             /\ \A c \in Call : Later(call[c], call'[c])
  <2>1. /\ call' \in [Call -> CallType] /\ AllTold'
        /\ call'[r] = y /\ \A c \in Call : c # r => call'[c] = call[c]
    BY <1>2, CallWritten
  <2>2. \A c \in Call : Later(call[c], call'[c])
    BY <1>2, <2>1, LaterSame
  <2>. QED
    BY <2>1, <2>2
<1>3. CASE Throw(r)
  <2>. DEFINE y == [x EXCEPT !.stage = "threw"]
  <2>1. x.stage \in {"arrived", "stored"} /\ call' = [call EXCEPT ![r] = y]
    BY <1>3 DEF Throw
  <2>2. y \in CallType /\ Told(y) /\ (x.stage = "idle" \/ Later(x, y))
    BY <1>1, <2>1, StageFits
  <2>. QED
    BY <1>2, <2>1, <2>2
<1>4. CASE Return(r)
  <2>. DEFINE y == [x EXCEPT !.stage = "returned"]
  <2>1. x.stage = "notifying" /\ x.due \cup x.created \cup x.mailed = {} /\ call' = [call EXCEPT ![r] = y]
    BY <1>4 DEF Return, AtWork
  <2>2. y \in CallType /\ Told(y) /\ (x.stage = "idle" \/ Later(x, y))
    BY <1>1, <2>1, StageFits
  <2>. QED
    BY <1>2, <2>1, <2>2
<1>5. ASSUME NEW to \in SUBSET User, Announce(r, to)
      PROVE  /\ call' \in [Call -> CallType] /\ AllTold'
             /\ \A c \in Call : Later(call[c], call'[c])
  <2>. DEFINE y == [x EXCEPT !.stage = "notifying", !.to = to, !.due = to]
  <2>1. x.stage = "stored" /\ call' = [call EXCEPT ![r] = y]
    BY <1>5 DEF Announce
  <2>2. y \in CallType /\ Told(y) /\ Later(x, y)
    BY <1>1, <2>1, AnnounceFits
  <2>. QED
    BY <1>2, <2>1, <2>2
<1>6. ASSUME NEW u, NEW y, call' = [call EXCEPT ![r] = y] \/ call' = [call EXCEPT ![r] = Kept(y)],
             y \in CallType, Told(y), Later(x, y)
      PROVE  /\ call' \in [Call -> CallType] /\ AllTold'
             /\ \A c \in Call : Later(call[c], call'[c])
  <2>1. Kept(y) \in CallType /\ Told(Kept(y)) /\ Kept(y).stage \in {y.stage, "idle"}
    BY <1>6, KeptFits
  <2>2. Later(x, Kept(y))
    BY <1>6, <2>1 DEF Later
  <2>. QED
    BY <1>2, <1>6, <2>1, <2>2
<1>7. ASSUME NEW u \in User, CreateRow(r, u) \/ Mail(r, u) \/ NotMailed(r, u) \/ MarkSent(r, u) \/ Break(r, u)
      PROVE  /\ call' \in [Call -> CallType] /\ AllTold'
             /\ \A c \in Call : Later(call[c], call'[c])
  <2>1. CASE CreateRow(r, u)
    <3>. DEFINE y == [x EXCEPT !.due = @ \ {u}, !.created = @ \cup {u}, !.rows = @ \cup {u}]
    <3>1. u \in x.due /\ call' = [call EXCEPT ![r] = y]
      BY <2>1 DEF CreateRow
    <3>2. y \in CallType /\ Told(y) /\ Later(x, y)
      BY <1>1, <3>1, NotifyFits
    <3>. QED
      BY <1>6, <3>1, <3>2
  <2>2. ASSUME NEW taken \in {{}, {u}},
               Mail(r, u) /\ call' = [call EXCEPT ![r].created = @ \ {u}, ![r].mailed = @ \cup {u},
                                                  ![r].accepted = @ \cup taken]
        PROVE  /\ call' \in [Call -> CallType] /\ AllTold'
               /\ \A c \in Call : Later(call[c], call'[c])
    <3>. DEFINE y == [x EXCEPT !.created = @ \ {u}, !.mailed = @ \cup {u}, !.accepted = @ \cup taken]
    <3>1. u \in x.created /\ call' = [call EXCEPT ![r] = y]
      BY <2>2 DEF Mail
    <3>2. y \in CallType /\ Told(y) /\ Later(x, y)
      BY <1>1, <3>1, NotifyFits
    <3>. QED
      BY <1>6, <3>1, <3>2
  <2>3. CASE NotMailed(r, u)
    <3>. DEFINE y == [x EXCEPT !.created = @ \ {u}]
    <3>1. u \in x.created /\ call' = [call EXCEPT ![r] = Kept(y)]
      BY <2>3 DEF NotMailed
    <3>2. y \in CallType /\ Told(y) /\ Later(x, y)
      BY <1>1, <3>1, NotifyFits
    <3>. QED
      BY <1>6, <3>1, <3>2
  <2>4. CASE MarkSent(r, u)
    <3>. DEFINE y == [x EXCEPT !.mailed = @ \ {u}, !.sentAt = @ \cup {u}]
    <3>1. u \in x.mailed /\ call' = [call EXCEPT ![r] = Kept(y)]
      BY <2>4 DEF MarkSent
    <3>2. y \in CallType /\ Told(y) /\ Later(x, y)
      BY <1>1, <3>1, NotifyFits
    <3>. QED
      BY <1>6, <3>1, <3>2
  <2>5. CASE Break(r, u)
    <3>. DEFINE y == [x EXCEPT !.due = @ \ {u}, !.created = @ \ {u}, !.mailed = @ \ {u},
                               !.stage = IF @ = "notifying" THEN "threw" ELSE @]
    <3>1. u \in x.due \cup x.created \cup x.mailed /\ call' = [call EXCEPT ![r] = Kept(y)]
      BY <2>5 DEF Break
    <3>2. y \in CallType /\ Told(y) /\ Later(x, y)
      BY <1>1, <3>1, NotifyFits
    <3>. QED
      BY <1>6, <3>1, <3>2
  <2>. QED
    BY <1>7, <2>1, <2>2, <2>3, <2>4, <2>5 DEF Mail
<1>. QED
  BY <1>3, <1>4, <1>5, <1>7 DEF ApiStep, NotifyStep

\* A request that writes keeps doing so, whatever the tab does to the others.
LEMMA WritesStay ==
    ASSUME TabTypes, TabStep, NEW r \in Request, Sending(r)
    PROVE  /\ Sending(r)' /\ flight'[r].at = flight[r].at
<1>. USE CallsAreRequests, VisitedArePages
<1>0. flight[r].kind = "write" /\ flight[r].form = SendForm
  BY DEF Sending
<1>1. flight'[r] = flight[r] => Sending(r)' /\ flight'[r].at = flight[r].at
  BY DEF Sending
<1>2. flight'[r] = Left[r] => Sending(r)' /\ flight'[r].at = flight[r].at
  <2>1. flight'[r] = Left[r] => Abandoned(r)
    BY <1>0, AbandonedFits
  <2>. QED
    BY <1>0, <2>1 DEF Abandoned, Sending
<1>3. Left[r] # Idle
  <2>1. Left[r] \in WriteType
    BY <1>0, LeftFits
  <2>. QED
    BY <2>1 DEF WriteType, Idle
<1>4. CASE Refresh
  BY <1>0, <1>2, <1>4 DEF Refresh
<1>5. CASE Redirect \/ Logout
  BY <1>2, <1>5 DEF Redirect, Logout
<1>6. CASE OtherWrite
  BY <1>1, <1>6 DEF OtherWrite, tab
<1>7. ASSUME NEW q \in Request, Restore(q) \/ MoveCursor(q) \/ LiveEvent(q)
      PROVE  Sending(r)' /\ flight'[r].at = flight[r].at
  <2>1. q # r /\ flight'[r] = flight[r]
    BY <1>0, <1>7, BeginsFits, Made DEF Begins
  <2>. QED
    BY <1>1, <2>1
<1>8. ASSUME NEW q \in Request, q # r, Only(q) PROVE Sending(r)' /\ flight'[r].at = flight[r].at
  BY <1>1, <1>8 DEF Only
<1>9. ASSUME NEW q \in Request, SubmitSignIn(q) \/ SignInFails(q) \/ ReadLoad(q) \/ ShowLoad(q) \/ LoadFails(q)
      PROVE  Sending(r)' /\ flight'[r].at = flight[r].at
  <2>1. flight[q].kind # "write" /\ Only(q)
    BY <1>9, SubmitSignInFits, SignInFailsFits, ReadLoadFits, ShowLoadFits, LoadFailsFits, Made
  <2>. QED
    BY <1>0, <1>8, <2>1
<1>10. ASSUME NEW q \in Request, NEW air \in [Request -> FlightType], NEW p, NEW who,
              q # r, air[r] = Left[r], flight' = Fetched(air, q, p, who)
       PROVE  Sending(r)' /\ flight'[r].at = flight[r].at
  <2>1. flight'[r] = air[r]
    BY <1>10, FetchedIs
  <2>. QED
    BY <1>2, <1>10, <2>1
<1>11. ASSUME NEW q \in Request, NEW who \in {"member", "churchless"}, SignedIn(q, who)
       PROVE  Sending(r)' /\ flight'[r].at = flight[r].at
  <2>. DEFINE air == [Left EXCEPT ![q] = Idle]
  <2>1. q # r
    BY <1>0, <1>11 DEF SignedIn
  <2>2. air \in [Request -> FlightType] /\ air[r] = Left[r]
    BY <2>1, LeftFits DEF FlightType
  <2>3. flight' = Fetched(air, q, "dashboard", who)
    BY <1>11 DEF SignedIn
  <2>. HIDE DEF air
  <2>. QED
    BY <1>10, <2>1, <2>2, <2>3
<1>12. ASSUME NEW q \in Request, NEW p \in Page, Open(p, q)
       PROVE  Sending(r)' /\ flight'[r].at = flight[r].at
  <2>1. q # r /\ flight' = Fetched(Left, q, p, session)
    BY <1>3, <1>12 DEF Open
  <2>. QED
    BY <1>10, <2>1, LeftFits
<1>13. ASSUME NEW q \in Request, NEW form \in Forms, Submit(form, q)
       PROVE  Sending(r)' /\ flight'[r].at = flight[r].at
  <2>1. q # r /\ Only(q)
    BY <1>0, <1>13, SubmitFits, Made
  <2>. QED
    BY <1>8, <2>1
<1>14. ASSUME NEW q \in Request, Written(q) PROVE Sending(r)' /\ flight'[r].at = flight[r].at
  <2>1. q # r /\ Only(q)
    BY <1>0, <1>14, ServedFits DEF Written
  <2>. QED
    BY <1>8, <2>1
<1>15. ASSUME NEW q \in Request, ~Sending(q), WriteAnswered(q) \/ WriteFails(q)
       PROVE  Sending(r)' /\ flight'[r].at = flight[r].at
  <2>1. q # r /\ Only(q)
    BY <1>15, WriteAnsweredFits, WriteFailsFits
  <2>. QED
    BY <1>8, <2>1
<1>16. CASE MergeTask
  BY <1>1, <1>16 DEF MergeTask
<1>. QED
  BY <1>4, <1>5, <1>6, <1>7, <1>9, <1>11, <1>12, <1>13, <1>14, <1>15,
     <1>16 DEF TabStep, SessionStep, LoadStep, FormStep

\* Of the calls at work, each has its request; the answer lets go of both.
JoinedAt(c) == /\ call[c].stage \notin {"idle", "answered"} => Sending(c)
               /\ call[c].stage = "arrived" => flight[c].at = "taken"

LEMMA JoinedLater ==
    ASSUME NEW c \in Call, JoinedAt(c), Later(call[c], call'[c]),
           call[c].stage \notin {"idle", "answered"} => Sending(c)' /\ flight'[c].at = flight[c].at
    PROVE  JoinedAt(c)'
BY DEF JoinedAt, Later

LEMMA JoinedOver == ASSUME NEW c \in Call, call'[c].stage \in {"idle", "answered"} PROVE JoinedAt(c)'
BY DEF JoinedAt

LEMMA JoinedIs == Joined <=> call \in [Call -> CallType] /\ \A c \in Call : JoinedAt(c)
BY CallsAreRequests DEF Joined, JoinedAt

LEMMA AnswerFits ==
    ASSUME call \in [Call -> CallType], AllTold, NEW r \in Call, NEW stage \in {"returned", "threw"},
           Answer(r, stage)
    PROVE  /\ call' \in [Call -> CallType] /\ AllTold'
           /\ call'[r].stage \in {"idle", "answered"}
           /\ \A c \in Call : c # r => call'[c] = call[c]
<1>. DEFINE x == call[r]
            y == [x EXCEPT !.stage = "answered"]
<1>1. x \in CallType /\ Told(x)
  BY DEF AllTold
<1>2. x.stage \in {"returned", "threw"} /\ call' = [call EXCEPT ![r] = Kept(y)]
  BY DEF Answer
<1>3. y \in CallType /\ Told(y)
  BY <1>1, <1>2, StageFits
<1>4. y.stage = "answered"
  BY <1>1 DEF CallType
<1>5. Kept(y) \in CallType /\ Told(Kept(y)) /\ Kept(y).stage \in {y.stage, "idle"}
  BY <1>3, KeptFits
<1>. QED
  BY <1>2, <1>4, <1>5, CallWritten

LEMMA JoinedStep ==
    ASSUME TabTypes, Joined, AllTold, [Next]_vars
    PROVE  Joined' /\ AllTold'
<1>. USE CallsAreRequests
<1>0. call \in [Call -> CallType] /\ \A c \in Call : JoinedAt(c)
  BY JoinedIs
<1>1. ASSUME call' \in [Call -> CallType], \A c \in Call : JoinedAt(c)' PROVE Joined'
  BY <1>1 DEF Joined, JoinedAt
<1>2. ASSUME UNCHANGED vars PROVE Joined' /\ AllTold'
  BY <1>2 DEF vars, tab, Joined, AllTold, Sending
<1>3. ASSUME NEW r \in Call, call' \in [Call -> CallType], AllTold', JoinedAt(r)',
             \A c \in Call : c # r => call'[c] = call[c] /\ flight'[c] = flight[c]
      PROVE  Joined' /\ AllTold'
  <2>1. \A c \in Call : c # r => JoinedAt(c)'
    BY <1>0, <1>3 DEF JoinedAt, Sending
  <2>. QED
    BY <1>1, <1>3, <2>1
<1>4. CASE TabStep /\ UNCHANGED call
  <2>1. ASSUME NEW c \in Call PROVE JoinedAt(c)'
    <3>1. Sending(c) => Sending(c)' /\ flight'[c].at = flight[c].at
      BY <1>4, WritesStay
    <3>. QED
      BY <1>0, <1>4, <3>1 DEF JoinedAt
  <2>. QED
    BY <1>0, <1>1, <1>4, <2>1 DEF AllTold
<1>5. ASSUME NEW r \in Request, ApiStep(r) PROVE Joined' /\ AllTold'
  <2>1. /\ call' \in [Call -> CallType] /\ AllTold'
        /\ \A c \in Call : Later(call[c], call'[c])
    BY <1>0, <1>5, ApiFits
  <2>2. ASSUME NEW c \in Call PROVE JoinedAt(c)'
    <3>1. flight' = flight
      BY <1>5 DEF ApiStep, tab
    <3>2. call[c].stage \notin {"idle", "answered"} => Sending(c)' /\ flight'[c].at = flight[c].at
      BY <1>0, <3>1 DEF JoinedAt, Sending
    <3>. QED
      BY <1>0, <2>1, <3>2, JoinedLater
  <2>. QED
    BY <1>1, <2>1, <2>2
<1>6. ASSUME NEW r \in Request, SendArrives(r) PROVE Joined' /\ AllTold'
  <2>. DEFINE x == call[r]
              y == [x EXCEPT !.stage = "arrived"]
  <2>1. x \in CallType /\ Told(x) /\ x.stage = "idle" /\ call' = [call EXCEPT ![r] = y]
    BY <1>0, <1>6 DEF SendArrives, Arrive, AllTold
  <2>2. y \in CallType /\ Told(y) /\ y.stage = "arrived"
    BY <2>1, StageFits DEF CallType
  <2>3. /\ call' \in [Call -> CallType] /\ AllTold'
        /\ call'[r] = y /\ \A c \in Call : c # r => call'[c] = call[c]
    BY <1>0, <2>1, <2>2, CallWritten
  <2>4. Taken(r)
    BY <1>6 DEF SendArrives, Sending, Taken
  <2>5. /\ \A c \in Call : c # r => flight'[c] = flight[c]
        /\ flight'[r].kind = "write" /\ flight'[r].at = "taken" /\ flight'[r].form = SendForm
    BY <1>6, <2>4, TakenFits DEF SendArrives, Sending, Only
  <2>6. JoinedAt(r)'
    BY <2>5 DEF JoinedAt, Sending
  <2>. QED
    BY <1>3, <2>3, <2>5, <2>6
<1>7. ASSUME NEW r \in Request, SendStored(r) PROVE Joined' /\ AllTold'
  <2>. DEFINE x == call[r]
              y == [x EXCEPT !.stage = "stored"]
  <2>1. x \in CallType /\ Told(x) /\ x.stage = "arrived" /\ call' = [call EXCEPT ![r] = y]
    BY <1>0, <1>7 DEF SendStored, Store, AllTold
  <2>2. y \in CallType /\ Told(y) /\ y.stage = "stored"
    BY <2>1, StageFits DEF CallType
  <2>3. /\ call' \in [Call -> CallType] /\ AllTold'
        /\ call'[r] = y /\ \A c \in Call : c # r => call'[c] = call[c]
    BY <1>0, <2>1, <2>2, CallWritten
  <2>4. /\ \A c \in Call : c # r => flight'[c] = flight[c]
        /\ flight'[r].kind = "write" /\ flight'[r].form = SendForm
    BY <1>7, ServedFits DEF SendStored, Sending, Only
  <2>5. JoinedAt(r)'
    BY <2>2, <2>3, <2>4 DEF JoinedAt, Sending
  <2>. QED
    BY <1>3, <2>3, <2>4, <2>5
<1>8. ASSUME NEW r \in Request, NEW stage \in {"returned", "threw"}, Answer(r, stage),
             \A c \in Request : c # r => flight'[c] = flight[c]
      PROVE  Joined' /\ AllTold'
  <2>1. /\ call' \in [Call -> CallType] /\ AllTold'
        /\ call'[r].stage \in {"idle", "answered"}
        /\ \A c \in Call : c # r => call'[c] = call[c]
    BY <1>0, <1>8, AnswerFits
  <2>2. JoinedAt(r)'
    BY <2>1, JoinedOver
  <2>. QED
    BY <1>3, <1>8, <2>1, <2>2
<1>9. ASSUME NEW r \in Request, SendAnswered(r) \/ SendFails(r) \/ SendDropped(r)
      PROVE  Joined' /\ AllTold'
  <2>1. CASE SendAnswered(r)
    <3>1. Only(r)
      BY <2>1, WriteAnsweredFits DEF SendAnswered
    <3>. QED
      BY <1>8, <2>1, <3>1 DEF SendAnswered, Only
  <2>2. CASE SendFails(r)
    <3>1. Only(r)
      BY <2>2, WriteFailsFits DEF SendFails
    <3>. QED
      BY <1>8, <2>2, <3>1 DEF SendFails, Only
  <2>3. CASE SendDropped(r)
    <3>1. Dropped(r)
      BY <2>3 DEF SendDropped, Sending, Dropped
    <3>2. Only(r)
      BY <3>1, DroppedFits
    <3>. QED
      BY <1>8, <2>3, <3>2 DEF SendDropped, Only
  <2>. QED
    BY <1>9, <2>1, <2>2, <2>3
<1>10. ASSUME NEW r \in Request, SendLost(r) PROVE Joined' /\ AllTold'
  <2>1. call' = call /\ Sending(r) /\ (call[r] = NoCall \/ flight'[r] # Idle)
    BY <1>10 DEF SendLost
  <2>2. Only(r) /\ (flight'[r] = Idle \/ Abandoned(r))
    BY <1>10, WriteFailsFits DEF SendLost
  <2>3. JoinedAt(r)'
    <3>1. CASE call[r] = NoCall
      BY <2>1, <3>1, NoCallFits, JoinedOver
    <3>2. CASE Abandoned(r)
      <4>1. Sending(r)' /\ flight'[r].at = flight[r].at
        BY <2>1, <3>2 DEF Sending, Abandoned
      <4>. QED
        BY <1>0, <2>1, <4>1 DEF JoinedAt
    <3>. QED
      BY <2>1, <2>2, <3>1, <3>2
  <2>. QED
    BY <1>0, <1>3, <2>1, <2>2, <2>3 DEF Only, AllTold
<1>. QED
  BY <1>2, <1>4, <1>5, <1>6, <1>7, <1>9, <1>10 DEF Next, SendStep

-----------------------------------------------------------------------------
(* The inductive invariant, and what follows. *)

IInv == /\ TabTypes /\ Versions /\ OwnForms
        /\ Shown /\ Waited /\ Tokens /\ Copies
        /\ Joined /\ AllTold

LEMMA InitInv == Init => IInv
<1>. SUFFICES ASSUME Init PROVE IInv
  OBVIOUS
<1>. USE CallsAreRequests DEF Init, TabInit
<1>1. /\ view.page = "home" /\ view.shown = 0 /\ ~view.error /\ view.wrote = 0 /\ view.copies = 0
      /\ view \in ViewType
  BY NamedPages, Made DEF Mounted, ViewType
<1>2. \A r \in Request : flight[r].kind = "idle" /\ flight[r] \in FlightType
  BY Made DEF FlightType
<1>3. TabTypes
  BY <1>1, <1>2, VersionsAreBounded DEF TabTypes, Session
<1>4. Versions /\ OwnForms /\ Shown
  BY <1>1, <1>2 DEF Versions, OwnForms, Mine, Shown
<1>5. Waited
  BY DEF Waited, Blank, Acting
<1>6. Tokens /\ Copies
  BY <1>1, <1>2 DEF Tokens, Copies, Holds, Mine
<1>7. call \in [Call -> CallType] /\ \A c \in Call : call[c] = NoCall
  BY NoCallFits DEF MessagingInit
<1>8. Joined /\ AllTold
  BY <1>7, NoCallFits DEF Joined, AllTold
<1>. QED
  BY <1>3, <1>4, <1>5, <1>6, <1>8 DEF IInv

LEMMA InvStep == ASSUME IInv, [Next]_vars PROVE IInv'
<1>0. TabTypes /\ Versions /\ OwnForms /\ Shown /\ Waited /\ Tokens /\ Copies /\ Joined /\ AllTold
  BY DEF IInv
<1>1. Joined' /\ AllTold'
  BY <1>0, JoinedStep
<1>2. CASE WebStep
  <2>1. TabTypes' /\ Versions' /\ OwnForms'
    BY <1>0, <1>2, TypesStep, VersionsStep, OwnFormsStep
  <2>2. Shown' /\ Waited' /\ Tokens' /\ Copies'
    BY <1>0, <1>2, ShownStep, WaitedStep, TokensStep, CopiesStep
  <2>. QED
    BY <1>1, <2>1, <2>2 DEF IInv
<1>3. CASE UNCHANGED <<tab, version>>
  <2>1. /\ session' = session /\ stored' = stored /\ restoring' = restoring
        /\ view' = view /\ flight' = flight /\ version' = version
    BY <1>3 DEF tab
  <2>2. TabTypes' /\ Versions' /\ OwnForms'
    BY <1>0, <2>1 DEF TabTypes, Versions, OwnForms, Mine
  <2>3. Shown' /\ Waited' /\ Tokens' /\ Copies'
    BY <1>0, <2>1 DEF Shown, Pending, Waited, Waits, Blank, Acting, Tokens, Holds, OnThread, Copies, Mine
  <2>. QED
    BY <1>1, <2>2, <2>3 DEF IInv
<1>. QED
  BY <1>0, <1>2, <1>3, Projection

LEMMA Inductive == Spec => []IInv
<1>1. Init => IInv
  BY InitInv
<1>2. IInv /\ [Next]_vars => IInv'
  BY InvStep
<1>. QED
  BY <1>1, <1>2, PTL DEF Spec

\* Every variable has its type, what is shown is never newer than the rows, and
\* a call at work has a request that the tab still knows of.
THEOREM TypeCorrect == Spec => []TypeOK
<1>1. IInv => TypeOK
  <2>. SUFFICES ASSUME IInv PROVE TypeOK
    OBVIOUS
  <2>1. /\ TabTypes /\ Versions /\ call \in [Call -> CallType]
        /\ \A r \in Request : call[r].stage \notin {"idle", "answered"} => Sending(r)
    BY DEF IInv, Joined
  <2>2. \A r \in Request :
           /\ call[r].stage \in {"idle", "arrived", "stored", "notifying", "returned", "threw", "answered"}
           /\ call[r].due \cup call[r].created \cup call[r].mailed \cup call[r].rows \subseteq call[r].to
    BY <2>1, CallsAreRequests, CallFields DEF IInv, AllTold, Told
  <2>3. /\ session \in {"none", "member", "churchless"} /\ stored \in {"none", "member", "churchless"}
        /\ restoring \in BOOLEAN /\ version \in 1..MaxVersion
    BY <2>1 DEF TabTypes, Session
  <2>4. /\ view.page \in Page /\ view.shown \in 0..version /\ view.wrote \in 0..version
        /\ view.copies \in 0..MaxVersion
    BY <2>1, <2>3, Kinds, VersionsAreBounded DEF Versions
  <2>5. \A r \in Request : flight[r].kind \in {"idle", "load", "write", "signin"}
    BY <2>1, Kinds
  <2>. QED
    BY <2>1, <2>2, <2>3, <2>4, <2>5 DEF TypeOK
<1>. QED
  BY <1>1, Inductive, PTL

\* A page that waits for nothing shows its user's last answered write, but for
\* a failed load, an older answer that came last or an older task event that was
\* merged into it: of any number of requests.
THEOREM OwnWritesAreShown == Spec => []OwnWriteIsShown
<1>1. IInv => OwnWriteIsShown
  <2>. SUFFICES ASSUME IInv, Quiet, ~view.excused PROVE view.shown >= view.wrote
    BY DEF OwnWriteIsShown
  <2>1. \A r \in Request : ~Pending(r)
    BY DEF Quiet, Pending
  <2>. QED
    BY <2>1 DEF IInv, Shown
<1>. QED
  BY <1>1, Inductive, PTL

\* A page without its data says so, but for the three that show nothing before
\* their data came.
THEOREM OnlyHeldPagesAreSilent == Spec => []SilentLoading
<1>1. IInv => SilentLoading
  <2>. SUFFICES ASSUME IInv, Quiet, Acting, view.shown = 0, ~view.error, ~PageOf[view.page].held PROVE FALSE
    BY DEF SilentLoading
  <2>1. \A r \in Request : ~Waits(r)
    BY DEF Quiet, Waits, Mine
  <2>. QED
    BY <2>1 DEF IInv, Waited, Blank
<1>. QED
  BY <1>1, Inductive, PTL

\* The disabled button keeps a text from being stored twice until a send fails.
THEOREM TwiceOnlyAfterFailure == Spec => []TwiceNeedsFailure
<1>1. IInv => TwiceNeedsFailure
  BY DEF IInv, Copies, TwiceNeedsFailure
<1>. QED
  BY <1>1, Inductive, PTL

\* A send that succeeds has stored a row for each member it read, and sent_at for
\* every mail the provider took, however the members' notifications interleave;
\* a mail that was refused may have sent_at as well.
THEOREM SuccessMeansTold == Spec => []AnsweredMeansTold
<1>1. IInv => AnsweredMeansTold
  BY CallsAreRequests DEF IInv, AllTold, Told, AnsweredMeansTold
<1>. QED
  BY <1>1, Inductive, PTL
=============================================================================
