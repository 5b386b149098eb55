---------------------------- MODULE WebMessaging ----------------------------
(***************************************************************************)
(* The tab of WebClient against the API of Messaging: sending on the       *)
(* thread page is a call of sendMessage, and the two meet where the        *)
(* request arrives, where the message is stored and where the answer comes.*)
(***************************************************************************)
EXTENDS WebClient, Messaging

ASSUME CallsAreRequests == Call = Request
ASSUME VisitedArePages == Visited \subseteq Page
ASSUME VersionsAreBounded == MaxVersion \in Nat \ {0}

vars == <<tab, version, call>>

Init == TabInit /\ MessagingInit

Sending(r) == flight[r].kind = "write" /\ flight[r].form = SendForm

SendArrives(r) ==
    /\ Sending(r) /\ flight[r].at = "sent"
    /\ Arrive(r)
    /\ flight' = [flight EXCEPT ![r].at = "taken"]
    /\ UNCHANGED <<session, stored, restoring, view, version>>

\* The message is in the channel from here on, whatever becomes of the call.
SendStored(r) ==
    /\ Sending(r) /\ Store(r)
    /\ Served(r)

SendAnswered(r) ==
    /\ Sending(r) /\ Answer(r, "returned")
    /\ WriteAnswered(r)

\* 500 after a query threw.
SendFails(r) ==
    /\ Sending(r) /\ flight[r].mine /\ Answer(r, "threw")
    /\ WriteFails(r) /\ flight'[r] = Idle

\* The connection breaks: the tab sees an error, the API runs on.
SendLost(r) ==
    /\ Sending(r) /\ WriteFails(r)
    /\ call[r] = NoCall \/ flight'[r] # Idle
    /\ UNCHANGED call

\* Nobody waits for the answer of a call whose connection broke or whose page is left.
SendDropped(r) ==
    /\ Sending(r) /\ ~flight[r].mine
    /\ Answer(r, "threw")
    /\ flight' = [flight EXCEPT ![r] = Idle]
    /\ UNCHANGED <<session, stored, restoring, view, version>>

ApiStep(r) == /\ \/ Throw(r) \/ Return(r) \/ NotifyStep(r)
                 \/ \E to \in SUBSET User : Announce(r, to)
              /\ UNCHANGED <<tab, version>>

SendStep(r) == SendArrives(r) \/ SendStored(r) \/ SendAnswered(r) \/ SendFails(r) \/ SendLost(r) \/ SendDropped(r)

\* The record of an earlier call of the request is kept until its last notification is over.
FormStep(r) == \/ \E form \in Forms : call[r] = NoCall /\ Submit(form, r)
               \/ Written(r)
               \/ ~Sending(r) /\ (WriteAnswered(r) \/ WriteFails(r))

TabStep == \/ Refresh \/ Redirect \/ Logout \/ OtherWrite \/ MergeTask
           \/ \E r \in Request : \/ SessionStep(r) \/ LoadStep(r) \/ FormStep(r)
                                 \/ \E p \in Visited : Open(p, r)

Next == \/ TabStep /\ UNCHANGED call
        \/ \E r \in Request : ApiStep(r) \/ SendStep(r)

Spec == Init /\ [][Next]_vars

-----------------------------------------------------------------------------
\* Every variable has its type, and a call that the tab does not know of any more has been answered.
TypeOK ==
    /\ session \in {"none", "member", "churchless"} /\ stored \in {"none", "member", "churchless"}
    /\ restoring \in BOOLEAN /\ version \in 1..MaxVersion
    /\ view.page \in Page /\ view.shown \in 0..version /\ view.wrote \in 0..version
    /\ view.copies \in 0..MaxVersion
    /\ \A r \in Request :
          /\ flight[r].kind \in {"idle", "load", "write", "signin"}
          /\ call[r].stage \in {"idle", "arrived", "stored", "notifying", "returned", "threw", "answered"}
          /\ call[r].due \cup call[r].created \cup call[r].mailed \cup call[r].rows \subseteq call[r].to
          /\ call[r].stage \notin {"idle", "answered"} => Sending(r)

\* No load is in the air, and no write whose handler still waits.
Quiet == \A r \in Request : flight[r].kind # "load" /\ (flight[r].kind = "write" => ~flight[r].mine)

\* When the page waits for nothing, it shows the user's last answered write, unless a load of it
\* failed, an older answer came after a newer one or an older task event was merged into it: handlers
\* await the write before they reload.
OwnWriteIsShown == Quiet /\ ~view.excused => view.shown >= view.wrote

\* Read to the end, a page without its data says so, but for the three detail pages that show nothing
\* before their data came (their error line is below the "Loading..." return) and users without a church.
SilentLoading ==
    Quiet /\ Acting /\ view.shown = 0 /\ ~view.error => PageOf[view.page].held

\* The text in the thread's box is in the channel twice only after a send of it was answered with an error.
TwiceNeedsFailure == view.copies > 1 => view.failed

\* A send that is answered with success has a notification row for every member it read, and sent_at
\* for every mail the provider took; a refused mail may have it too.
AnsweredMeansTold ==
    \A r \in Request : call[r].stage = "returned" =>
        call[r].rows = call[r].to /\ call[r].accepted \subseteq call[r].sentAt
=============================================================================
