----------------------------- MODULE Messaging -----------------------------
(***************************************************************************)
(* The API's side of POST /channels/:id/messages: the message is stored,   *)
(* and an announcement of a ministry mails every other member of it, all   *)
(* members at once (messaging.controller.ts, notifications.service.ts).    *)
(***************************************************************************)
EXTENDS Naturals, FiniteSets

CONSTANTS Call,     \* calls that can be at work at once
          User      \* the members a ministry can have, the sender left out

VARIABLE call       \* for each call, what it has done

\* stage: of sendMessage; to: the members it read; due, created, mailed: the
\* notifyByEmail calls before the row, before the provider, before markSent;
\* rows: notifications stored; accepted: taken by the provider; sentAt: rows with sent_at.
NoCall == [stage |-> "idle", to |-> {}, due |-> {}, created |-> {}, mailed |-> {},
           rows |-> {}, accepted |-> {}, sentAt |-> {}]

AtWork(c) == call[c].due \cup call[c].created \cup call[c].mailed # {}
Kept(rec) == IF rec.stage = "answered" /\ rec.due \cup rec.created \cup rec.mailed = {} THEN NoCall ELSE rec

MessagingInit == call = [c \in Call |-> NoCall]

Arrive(c) ==
    /\ call[c].stage = "idle"
    /\ call' = [call EXCEPT ![c].stage = "arrived"]

\* MessagesRepository.send: a transaction of its own.
Store(c) ==
    /\ call[c].stage = "arrived"
    /\ call' = [call EXCEPT ![c].stage = "stored"]

\* listUserIdsForMinistry without the sender; nobody for a chat or a church-wide channel.
Announce(c, to) ==
    /\ call[c].stage = "stored"
    /\ call' = [call EXCEPT ![c].stage = "notifying", ![c].to = to, ![c].due = to]

\* NotificationsRepository.create.
CreateRow(c, u) ==
    /\ u \in call[c].due
    /\ call' = [call EXCEPT ![c].due = @ \ {u}, ![c].created = @ \cup {u}, ![c].rows = @ \cup {u}]

\* The channel says sent: true.  The provider answers with data or with an error,
\* for a mail it refused or never got, and the channel looks at neither.
Mail(c, u) ==
    /\ u \in call[c].created
    /\ \E taken \in {{}, {u}} :
          call' = [call EXCEPT ![c].created = @ \ {u}, ![c].mailed = @ \cup {u}, ![c].accepted = @ \cup taken]

\* sent: false: no address, no key, or the call of the provider throws.
NotMailed(c, u) ==
    /\ u \in call[c].created
    /\ call' = [call EXCEPT ![c] = Kept([call[c] EXCEPT !.created = @ \ {u}])]

\* NotificationsRepository.markSent.
MarkSent(c, u) ==
    /\ u \in call[c].mailed
    /\ call' = [call EXCEPT ![c] = Kept([call[c] EXCEPT !.mailed = @ \ {u}, !.sentAt = @ \cup {u}])]

\* A query throws: Promise.all rejects at once, the other members' calls run on.
Break(c, u) ==
    /\ u \in call[c].due \cup call[c].created \cup call[c].mailed
    /\ call' = [call EXCEPT ![c] = Kept([call[c] EXCEPT
                    !.due = @ \ {u}, !.created = @ \ {u}, !.mailed = @ \ {u},
                    !.stage = IF @ = "notifying" THEN "threw" ELSE @])]

\* A query of sendMessage itself throws, before the message is stored or after.
Throw(c) ==
    /\ call[c].stage \in {"arrived", "stored"}
    /\ call' = [call EXCEPT ![c].stage = "threw"]

Return_Bug(c) ==
    /\ call[c].stage = "notifying"
    /\ call' = [call EXCEPT ![c].stage = "returned"]

\* Promise.all has every answer.
Return(c) ==
    /\ call[c].stage = "notifying" /\ ~AtWork(c)
    /\ call' = [call EXCEPT ![c].stage = "returned"]

\* The answer is on its way; a call of which nothing runs any more is forgotten.
Answer(c, stage) ==
    /\ call[c].stage = stage
    /\ call' = [call EXCEPT ![c] = Kept([call[c] EXCEPT !.stage = "answered"])]

NotifyStep(c) == \E u \in User : CreateRow(c, u) \/ Mail(c, u) \/ NotMailed(c, u) \/ MarkSent(c, u) \/ Break(c, u)
=============================================================================
