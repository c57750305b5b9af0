----------------------------- MODULE Messaging -----------------------------
(***************************************************************************)
(* Private messages and notifications (handlers.Messages over              *)
(* MessageService and NotificationService) together with the hub that      *)
(* pushes them, taken as module Push describes it, and the devices of the  *)
(* users: each keeps a WebSocket and fetches the stored messages over HTTP.*)
(* Its socket is open once the upgrade is answered, which is before the    *)
(* hub registers it, and nothing tells it when that has happened.          *)
(*                                                                         *)
(* A request runs one SQL statement per step; with Failures any of them    *)
(* may return an error and end the request where it is.  A POST stores at  *)
(* most one message and one notification, so both are named after the      *)
(* request that wrote them; nothing ever deletes them.  The hub's presence *)
(* broadcasts are left out: to a message they are only one more reason why *)
(* a buffer may be full.                                                   *)
(***************************************************************************)
EXTENDS Naturals, FiniteSets, Sequences

CONSTANTS Users, Conns, Owner, Requests, Nil, NoEvent, None,
          Workloads,  \* the requests that run together
          Failures

Calls == [op : {"send", "read", "readnotif", "readall", "count"}, user : Users,
          to : Users \cup {None},           \* send: the recipient
          target : Requests \cup {None}]    \* read, readnotif: the row
Events == [to : Users, kind : {"pm", "notification"}, about : Requests]

ASSUME OwnerAssumption == Owner \in [Conns -> Users]
ASSUME WorkloadsAssumption ==
  /\ Workloads \subseteq [Requests -> Calls]
  /\ \A f \in Workloads : \A r \in Requests : f[r].op = "send" => f[r].to \in Users
ASSUME FailuresAssumption == Failures \in BOOLEAN
ASSUME NoEventAssumption == NoEvent \notin Events

VARIABLES
  conns, queue, due, inbox,   \* the hub: see Push
  msgs,       \* private_messages: the rows
  notifs,     \* notifications: the rows
  readMsgs, readNotifs,       \* rows whose read_at is set
  call, pc, result,
  counted,    \* UnreadCount: the counts read so far
  open,       \* devices whose socket is open
  upgraded,   \* sockets answered by Upgrade that the hub does not know yet
  fetched,    \* the messages a device has fetched since its socket opened
  asked,      \* the partners whose conversation it has fetched
  synced,     \* history: those it fetched when the hub had registered it
  got, lost,  \* history: events a device received, events a full buffer lost
  missed      \* history: events dispatched after it opened, before it registered

INSTANCE Push

hub     == <<conns, queue, due, inbox>>
tables  == <<msgs, notifs, readMsgs, readNotifs>>
requests == <<tables, call, pc, result, counted>>
sockets == <<open, upgraded>>
devices == <<fetched, asked, synced, got, lost, missed>>
vars == <<hub, requests, sockets, devices>>

\* The first statement of each request.
FirstStep == [send |-> "check", read |-> "update", readnotif |-> "update",
              readall |-> "update", count |-> "first"]

User(r) == call[r].user
To(m)   == call[m].to
MutBroadcast(r, kind) == [to |-> Nil, kind |-> kind, about |-> r]
\* What Send passes to Hub.Notify.
Message(r, kind) == [to |-> To(r), kind |-> kind, about |-> r]

Init ==
  /\ PushInit
  /\ msgs = {} /\ notifs = {}
  /\ readMsgs = {} /\ readNotifs = {}
  /\ call \in Workloads
  /\ pc = [r \in Requests |-> FirstStep[call[r].op]]
  /\ result = [r \in Requests |-> "none"]
  /\ counted = [r \in Requests |-> [messages |-> 0, notifications |-> 0]]
  /\ open = {} /\ upgraded = {}
  /\ fetched = [c \in Conns |-> {}]
  /\ asked = [c \in Conns |-> {}] /\ synced = [c \in Conns |-> {}]
  /\ got = [c \in Conns |-> {}] /\ lost = [c \in Conns |-> {}] /\ missed = [c \in Conns |-> {}]

Goto(r, next) == pc' = [pc EXCEPT ![r] = next] /\ result' = result
Answer(r, res) == /\ pc' = [pc EXCEPT ![r] = "done"]
                  /\ result' = [result EXCEPT ![r] = res]
\* The last statement took effect; its result may still be an error.
Finish(r) == Answer(r, "ok") \/ (Failures /\ Answer(r, "error"))

MutNotificationsFirst == [first |-> "notifications", second |-> "messages"]
\* The order in which UnreadCount reads the two tables.
CountOrder == [first |-> "messages", second |-> "notifications"]

-----------------------------------------------------------------------------
(* Messages.Send. *)

MutPushFirst == [check |-> "push pm", message |-> "notification",
                 notification |-> "push notification", push |-> "message"]
\* What follows each step of a Send.
SendNext == [check |-> "message", message |-> "notification",
             notification |-> "push pm", push |-> "push notification"]

\* Refused are a message to oneself, an empty or too long body, and a recipient
\* that does not exist.
SendCheck(r) ==
  /\ pc[r] = "check"
  /\ \/ Answer(r, "invalid")
     \/ User(r) # To(r) /\ Goto(r, SendNext.check)
  /\ UNCHANGED <<hub, tables, call, counted, sockets, devices>>

InsertMessage(r) ==
  /\ pc[r] = "message"
  /\ msgs' = msgs \cup {r}
  /\ Goto(r, SendNext.message)
  /\ UNCHANGED <<hub, notifs, readMsgs, readNotifs, call, counted, sockets, devices>>

MutNotificationErrorIgnored(r) ==
  /\ pc[r] = "notification"
  /\ notifs' \in {notifs, notifs \cup {r}}
  /\ Goto(r, SendNext.notification)
  /\ UNCHANGED <<hub, msgs, readMsgs, readNotifs, call, counted, sockets, devices>>
\* OnPrivateMessage: a failure here leaves the message stored and unannounced.
InsertNotification(r) ==
  /\ pc[r] = "notification"
  /\ notifs' = notifs \cup {r}
  /\ \/ Goto(r, SendNext.notification)
     \/ Failures /\ Answer(r, "error")
  /\ UNCHANGED <<hub, msgs, readMsgs, readNotifs, call, counted, sockets, devices>>

\* Hub.Notify, once for the message and once for the notification.
PushMessage(r) ==
  /\ pc[r] = "push pm"
  /\ Publish(Message(r, "pm"))
  /\ Goto(r, SendNext.push)
  /\ UNCHANGED <<tables, call, counted, sockets, devices>>

PushNotification(r) ==
  /\ pc[r] = "push notification"
  /\ Publish(Message(r, "notification"))
  /\ Answer(r, "ok")
  /\ UNCHANGED <<tables, call, counted, sockets, devices>>

-----------------------------------------------------------------------------
(* MarkRead of a message or a notification, MarkAllRead, UnreadCount.      *)

MutReadTwice(r) == call[r].target \in msgs /\ To(call[r].target) = User(r)
\* The row exists, is the caller's, and is not read yet.
Readable(r) == call[r].target \in msgs \ readMsgs /\ To(call[r].target) = User(r)
ReadableNotif(r) == call[r].target \in notifs \ readNotifs /\ To(call[r].target) = User(r)

MarkRead(r) ==
  /\ pc[r] = "update" /\ call[r].op = "read"
  /\ IF Readable(r)
       THEN readMsgs' = readMsgs \cup {call[r].target} /\ Finish(r)
       ELSE readMsgs' = readMsgs /\ Answer(r, "not_found")
  /\ UNCHANGED <<hub, msgs, notifs, readNotifs, call, counted, sockets, devices>>

MarkNotificationRead(r) ==
  /\ pc[r] = "update" /\ call[r].op = "readnotif"
  /\ IF ReadableNotif(r)
       THEN readNotifs' = readNotifs \cup {call[r].target} /\ Finish(r)
       ELSE readNotifs' = readNotifs /\ Answer(r, "not_found")
  /\ UNCHANGED <<hub, msgs, notifs, readMsgs, call, counted, sockets, devices>>

MarkAllRead(r) ==
  /\ pc[r] = "update" /\ call[r].op = "readall"
  /\ readNotifs' = readNotifs \cup {n \in notifs : To(n) = User(r)}
  /\ Finish(r)
  /\ UNCHANGED <<hub, msgs, notifs, readMsgs, call, counted, sockets, devices>>

Unread(u) == [messages      |-> {m \in msgs \ readMsgs : To(m) = u},
              notifications |-> {n \in notifs \ readNotifs : To(n) = u}]

Count(r, step) ==
  /\ pc[r] = step
  /\ counted' = [counted EXCEPT ![r][CountOrder[step]] =
                   Cardinality(Unread(User(r))[CountOrder[step]])]
  /\ UNCHANGED <<hub, tables, call, sockets, devices>>
CountFirst(r)  == Count(r, "first") /\ Goto(r, "second")
CountSecond(r) == Count(r, "second") /\ Answer(r, "ok")

\* A statement of the request fails.  Notify cannot fail.
Fail(r) ==
  /\ Failures /\ pc[r] \in {"check", "message", "notification", "update", "first", "second"}
  /\ Answer(r, "error")
  /\ UNCHANGED <<hub, tables, call, counted, sockets, devices>>

-----------------------------------------------------------------------------
(* The devices and the hub. *)

\* What a device knows belongs to its WebSocket.
Forget(c) == /\ fetched' = [fetched EXCEPT ![c] = {}]
             /\ asked' = [asked EXCEPT ![c] = {}] /\ synced' = [synced EXCEPT ![c] = {}]
             /\ got' = [got EXCEPT ![c] = {}] /\ lost' = [lost EXCEPT ![c] = {}]
             /\ missed' = [missed EXCEPT ![c] = {}]

\* upgrader.Upgrade answers the peer: from here on its socket is open.
Upgrade(c) ==
  /\ c \notin conns \cup upgraded /\ inbox[c] = <<>>
  /\ open' = open \cup {c} /\ upgraded' = upgraded \cup {c}
  /\ UNCHANGED <<hub, requests, devices>>
\* NewClient registers the connection, whether or not its socket is still open.
Register(c) ==
  /\ c \in upgraded /\ Connect(c)
  /\ upgraded' = upgraded \ {c}
  /\ UNCHANGED <<requests, open, devices>>

\* The socket breaks or is closed.  ReadPump returns only then, and unregisters.
SocketBreaks(c) ==
  /\ c \in open /\ open' = open \ {c} /\ Forget(c)
  /\ UNCHANGED <<hub, requests, upgraded>>
Unregister(c) ==
  /\ c \notin open /\ Disconnect(c) /\ Forget(c)
  /\ UNCHANGED <<requests, sockets>>

\* WritePump writes an event to an open socket, or finds it broken and returns;
\* what is left in its buffer then reaches nobody.
DeviceReads(c) ==
  /\ c \in open /\ Write(c)
  /\ got' = [got EXCEPT ![c] = @ \cup {Head(inbox[c])}]
  /\ UNCHANGED <<requests, sockets, fetched, asked, synced, lost, missed>>
WriteLost(c) ==
  /\ Write(c) /\ open' = open \ {c} /\ Forget(c)
  /\ UNCHANGED <<requests, upgraded>>

HubDispatches ==
  /\ Dispatch
  /\ missed' = [c \in Conns |-> IF c \in open \ conns /\ Addressed(c, Head(queue))
                                 THEN missed[c] \cup {Head(queue)} ELSE missed[c]]
  /\ UNCHANGED <<requests, sockets, fetched, asked, synced, got, lost>>
HubQueues(c) == Take(c) /\ UNCHANGED <<requests, sockets, devices>>
HubDrops(c) ==
  /\ Drop(c)
  /\ lost' = [lost EXCEPT ![c] = @ \cup {due[c]}]
  /\ UNCHANGED <<requests, sockets, fetched, asked, synced, got, missed>>

MutOneDirection(m, u, p) == User(m) = u /\ To(m) = p
Involves(m, u, p) == {User(m), To(m)} = {u, p}

\* A device whose socket is open asks for the Conversation with a partner, on pages
\* that hold it all.  (The count that goes with a page is a statement of its own
\* and changes nothing.)
Fetch(c, p) ==
  /\ c \in open
  /\ fetched' = [fetched EXCEPT ![c] = @ \cup {m \in msgs : Involves(m, Owner[c], p)}]
  /\ asked' = [asked EXCEPT ![c] = @ \cup {p}]
  /\ synced' = IF c \in conns THEN [synced EXCEPT ![c] = @ \cup {p}] ELSE synced
  /\ UNCHANGED <<hub, requests, sockets, got, lost, missed>>

-----------------------------------------------------------------------------
RequestNext(r) ==
  \/ SendCheck(r) \/ InsertMessage(r) \/ InsertNotification(r)
  \/ PushMessage(r) \/ PushNotification(r)
  \/ MarkRead(r) \/ MarkNotificationRead(r) \/ MarkAllRead(r)
  \/ CountFirst(r) \/ CountSecond(r) \/ Fail(r)

DeviceNext(c) ==
  \/ Upgrade(c) \/ Register(c) \/ SocketBreaks(c) \/ Unregister(c)
  \/ DeviceReads(c) \/ WriteLost(c) \/ HubQueues(c) \/ HubDrops(c)
  \/ \E p \in Users \ {Owner[c]} : Fetch(c, p)

Next == \/ \E r \in Requests : RequestNext(r)
        \/ \E c \in Conns : DeviceNext(c)
        \/ HubDispatches

Spec == Init /\ [][Next]_vars

-----------------------------------------------------------------------------
(* Properties. *)

PcValues == {"check", "message", "notification", "push pm", "push notification",
             "update", "first", "second", "done"}

\* Rows, requests, devices and events have their types; only stored rows are read.
TypeOK ==
  /\ conns \subseteq Conns /\ queue \in Seq(Events)
  /\ due \in [Conns -> Events \cup {NoEvent}] /\ inbox \in [Conns -> Seq(Events)]
  /\ msgs \subseteq Requests /\ notifs \subseteq Requests
  /\ readMsgs \subseteq msgs /\ readNotifs \subseteq notifs
  /\ call \in Workloads /\ pc \in [Requests -> PcValues]
  /\ result \in [Requests -> {"none", "ok", "invalid", "not_found", "error"}]
  /\ counted \in [Requests -> [messages : Nat, notifications : Nat]]
  /\ open \subseteq conns \cup upgraded /\ upgraded \subseteq Conns \ conns
  /\ fetched \in [Conns -> SUBSET Requests]
  /\ asked \in [Conns -> SUBSET Users] /\ synced \in [Conns -> SUBSET Users]
  /\ got \in [Conns -> SUBSET Events] /\ lost \in [Conns -> SUBSET Events]
  /\ missed \in [Conns -> SUBSET Events]

\* The events on their way to a device.
Underway(c) == {queue[i] : i \in DOMAIN queue} \cup {inbox[c][i] : i \in DOMAIN inbox[c]}
                 \cup ({due[c]} \ {NoEvent})

\* A device whose socket holds and that has fetched a conversation since it opened
\* has, or will get, every message of that partner whose sender was told it was
\* sent: fetched, received, on its way, or lost to a full buffer.  If the hub had
\* registered the device when it fetched (it knows so once it received an event)
\* that is all; if it fetched right after the upgrade it may also lack what was
\* dispatched before its registration, and nothing else.
NoGap ==
  \A c \in open : \A m \in Requests :
    call[m].op = "send" /\ To(m) = Owner[c] /\ User(m) \in asked[c] /\ result[m] = "ok" =>
      \/ m \in fetched[c]
      \/ Message(m, "pm") \in got[c] \cup lost[c] \cup Underway(c)
      \/ User(m) \notin synced[c] /\ Message(m, "pm") \in missed[c]

\* What is pushed is stored: a device that sees an event and asks for the
\* message or the notification it names finds it.
PushedIsStored ==
  \A c \in Conns : \A ev \in got[c] \cup Underway(c) :
    ev.about \in msgs /\ (ev.kind = "notification" => ev.about \in notifs)

\* A stored message without a notification, which nobody is told of, belongs to
\* a sender who is still waiting or got an error.
UnannouncedOnlyOnError ==
  \A m \in msgs \ notifs : pc[m] = "notification" \/ result[m] = "error"

Readers(m, op, res) ==
  {r \in Requests : /\ call[r].op = op /\ call[r].target = m
                    /\ User(r) = To(m) /\ result[r] \in res}

\* A message is marked read by its recipient, and of any number of requests that
\* mark it one at most is told it did.
ReadMarks ==
  \A m \in Requests :
    /\ m \in readMsgs => Readers(m, "read", {"ok", "error"}) # {}
    /\ \A r, q \in Requests :
         call[r].op = "read" /\ call[q].op = "read" /\ result[r] = "ok" /\ result[q] = "ok"
           /\ call[r].target = m /\ call[q].target = m => r = q /\ m \in readMsgs

\* The unread counters belong together although they are read one after the
\* other: at most as many messages are counted beyond the notifications as have
\* a notification that is not stored (yet) or was marked read on its own.
CountsCover ==
  [][\A r \in Requests :
       pc[r] = "second" /\ result'[r] = "ok" =>
         counted'[r].messages <= counted'[r].notifications
           + Cardinality({m \in msgs \ notifs : To(m) = User(r)})
           + Cardinality({n \in readNotifs : To(n) = User(r)})]_vars
=============================================================================
