-------------------------- MODULE MessagingProofs --------------------------
(***************************************************************************)
(* Messages, notifications and unread counters stay consistent for any     *)
(* number of users, devices and concurrent requests, with and without      *)
(* failing statements, over the hub that module Push describes.            *)
(***************************************************************************)
EXTENDS Messaging, FiniteSetTheorems, TLAPS

Sends(r) == call[r].op = "send"

\* A request is at a statement of its own handler and is answered when it is
\* done; a send that pushes has stored both rows.
ControlOf(r) ==
  /\ pc[r] \in {"check", "message", "notification", "push pm", "push notification"} => Sends(r)
  /\ pc[r] = "update" => call[r].op \in {"read", "readnotif", "readall"}
  /\ pc[r] \in {"first", "second"} => call[r].op = "count"
  /\ pc[r] # "done" => result[r] = "none"
  /\ pc[r] \in {"notification", "push pm", "push notification"} => r \in msgs
  /\ pc[r] \in {"push pm", "push notification"} => r \in notifs
  /\ Sends(r) /\ result[r] = "ok" => r \in msgs
Control == \A r \in Requests : ControlOf(r)

Stored(ev) == ev.about \in msgs /\ (ev.kind = "notification" => ev.about \in notifs)

\* Every event anywhere in the hub or on a device names stored rows.
EventsStored ==
  /\ \A i \in DOMAIN queue : Stored(queue[i])
  /\ \A c \in Conns : /\ \A i \in DOMAIN inbox[c] : Stored(inbox[c][i])
                      /\ due[c] # NoEvent => Stored(due[c])
                      /\ \A ev \in got[c] : Stored(ev)

\* The push of a message has reached the device or is on its way, was dispatched
\* before the device was registered, or what it names was fetched.  A device that
\* fetched when it was registered still is; one that fetched at all is open.
Reaches(c, m) ==
  \/ m \in fetched[c]
  \/ Message(m, "pm") \in got[c] \cup lost[c] \cup Underway(c)
  \/ User(m) \notin synced[c] /\ Message(m, "pm") \in missed[c]
PushesReach ==
  \A c \in Conns :
    /\ (synced[c] # {} => c \in conns) /\ (asked[c] # {} => c \in open)
    /\ \A m \in Requests :
         Sends(m) /\ To(m) = Owner[c] /\ User(m) \in asked[c]
           /\ (pc[m] = "push notification" \/ result[m] = "ok") => Reaches(c, m)

\* Whoever was told that it marked a message read did.
MarksTold ==
  /\ \A r \in Requests : call[r].op = "read" /\ result[r] = "ok" => call[r].target \in readMsgs
  /\ ReadMarks

\* What the first counter holds while the second is read.
CountBound ==
  /\ IsFiniteSet(msgs) /\ IsFiniteSet(notifs)
  /\ \A r \in Requests : pc[r] = "second" =>
       counted[r].messages <= Cardinality({m \in msgs : To(m) = User(r)})

IInv == /\ TypeOK /\ Control /\ EventsStored /\ UnannouncedOnlyOnError /\ PushesReach
        /\ MarksTold /\ CountBound

-----------------------------------------------------------------------------
(* Sequences: what a queue holds after an event joins or leaves it. *)

Elems(s) == {s[i] : i \in DOMAIN s}

LEMMA AppendElems ==
  ASSUME NEW S, NEW s \in Seq(S), NEW e \in S
  PROVE  Append(s, e) \in Seq(S) /\ Elems(Append(s, e)) = Elems(s) \cup {e}
<1>1. /\ Append(s, e) \in Seq(S) /\ DOMAIN Append(s, e) = 1..Len(s) + 1 /\ DOMAIN s = 1..Len(s)
      /\ Len(s) \in Nat
      /\ \A i \in 1..Len(s) : Append(s, e)[i] = s[i]
      /\ Append(s, e)[Len(s) + 1] = e
  OBVIOUS
<1>2. \A i \in 1..Len(s) + 1 : i \in 1..Len(s) \/ i = Len(s) + 1
  BY <1>1
<1>3. \A i \in 1..Len(s) : i \in 1..Len(s) + 1
  BY <1>1
<1>4. Len(s) + 1 \in 1..Len(s) + 1
  BY <1>1
<1> QED BY <1>1, <1>2, <1>3, <1>4 DEF Elems

LEMMA TailElems ==
  ASSUME NEW S, NEW s \in Seq(S), s # <<>>
  PROVE  /\ Tail(s) \in Seq(S) /\ Head(s) \in S
         /\ Elems(s) = Elems(Tail(s)) \cup {Head(s)}
<1>1. /\ Tail(s) \in Seq(S) /\ Head(s) \in S /\ Head(s) = s[1] /\ Len(s) \in Nat /\ Len(s) >= 1
      /\ DOMAIN s = 1..Len(s) /\ DOMAIN Tail(s) = 1..Len(s) - 1
      /\ \A i \in 1..Len(s) - 1 : Tail(s)[i] = s[i + 1]
  OBVIOUS
<1>2. \A i \in 1..Len(s) : i = 1 \/ (i - 1 \in 1..Len(s) - 1 /\ Tail(s)[i - 1] = s[i])
  BY <1>1
<1>3. \A i \in 1..Len(s) - 1 : i + 1 \in 1..Len(s)
  BY <1>1
<1>4. 1 \in 1..Len(s)
  BY <1>1
<1>5. Elems(Tail(s)) \subseteq Elems(s)
  BY <1>1, <1>3 DEF Elems
<1>6. Elems(s) \subseteq Elems(Tail(s)) \cup {Head(s)}
  <2> SUFFICES ASSUME NEW i \in 1..Len(s), i # 1 PROVE s[i] \in Elems(Tail(s))
    BY <1>1 DEF Elems
  <2>1. i - 1 \in DOMAIN Tail(s) /\ Tail(s)[i - 1] = s[i]
    BY <1>1, <1>2
  <2> QED BY <2>1 DEF Elems
<1>7. Head(s) \in Elems(s)
  BY <1>1, <1>4 DEF Elems
<1> QED BY <1>1, <1>5, <1>6, <1>7

LEMMA UnderwayElems ==
  ASSUME NEW c
  PROVE  Underway(c) = Elems(queue) \cup Elems(inbox[c]) \cup ({due[c]} \ {NoEvent})
  BY DEF Underway, Elems

-----------------------------------------------------------------------------
LEMMA CallFacts ==
  ASSUME TypeOK, NEW r \in Requests
  PROVE  /\ call[r] \in Calls
         /\ Sends(r) => To(r) \in Users /\ Message(r, "pm") \in Events
                                        /\ Message(r, "notification") \in Events
<1>1. call[r] \in Calls /\ (Sends(r) => To(r) \in Users)
  BY WorkloadsAssumption DEF TypeOK, Sends, To
<1> QED BY <1>1 DEF Message, Events

LEMMA InitInv == Init => IInv
<1> SUFFICES ASSUME Init PROVE IInv
  OBVIOUS
<1> USE DEF Init, PushInit
<1>1. \A r \in Requests : /\ pc[r] = FirstStep[call[r].op] /\ call[r] \in Calls
                          /\ pc[r] \in {"check", "update", "first"}
                          /\ pc[r] = "check" => Sends(r)
                          /\ pc[r] = "update" => call[r].op \in {"read", "readnotif", "readall"}
                          /\ pc[r] = "first" => call[r].op = "count"
  BY WorkloadsAssumption DEF Calls, FirstStep, Sends
<1>2. TypeOK
  <2>1. pc \in [Requests -> PcValues]
    BY <1>1 DEF PcValues
  <2>2. <<>> \in Seq(Events)
    OBVIOUS
  <2> QED BY <2>1, <2>2 DEF TypeOK
<1>3. Control
  BY <1>1 DEF Control, ControlOf
<1>4. EventsStored /\ UnannouncedOnlyOnError /\ PushesReach
  BY DEF EventsStored, UnannouncedOnlyOnError, PushesReach
<1>5. MarksTold
  BY DEF MarksTold, ReadMarks
<1>6. CountBound
  BY <1>1, FS_EmptySet DEF CountBound
<1> QED BY <1>2, <1>3, <1>4, <1>5, <1>6 DEF IInv

\* A request touches none of the connections and only its own state.
Own(r) ==
  /\ call' = call
  /\ UNCHANGED <<conns, due, inbox, sockets, devices>>
  /\ \A q \in Requests \ {r} : pc'[q] = pc[q] /\ result'[q] = result[q] /\ counted'[q] = counted[q]
  /\ pc[r] # "done" /\ result[r] = "none"
  /\ msgs \subseteq msgs' /\ notifs \subseteq notifs'

LEMMA ControlStep ==
  ASSUME IInv, NEW r \in Requests, Own(r), ControlOf(r)'
  PROVE  Control'
<1> SUFFICES ASSUME NEW q \in Requests \ {r} PROVE ControlOf(q)'
  BY DEF Control
<1>1. ControlOf(q)
  BY DEF IInv, Control
<1> QED BY <1>1 DEF ControlOf, Own, Sends

\* What a request publishes has its rows, and it reports a message as sent only
\* once it is published.
LEMMA HubStep ==
  ASSUME IInv, NEW r \in Requests, Own(r),
         Elems(queue) \subseteq Elems(queue'), \A ev \in Elems(queue') : Stored(ev)',
         Sends(r) /\ (pc'[r] = "push notification" \/ result'[r] = "ok") =>
           pc[r] = "push notification" \/ Message(r, "pm") \in Elems(queue')
  PROVE  EventsStored' /\ PushesReach'
<1> USE DEF IInv
<1>1. EventsStored'
  <2>1. \A i \in DOMAIN queue' : Stored(queue[i])'
    BY DEF Elems
  <2>2. \A ev : Stored(ev) => Stored(ev)'
    BY DEF Stored, Own
  <2> QED BY <2>1, <2>2 DEF EventsStored, Own, devices, Stored
<1>2. PushesReach'
  <2> SUFFICES ASSUME NEW c \in Conns, NEW m \in Requests, Sends(m), To(m) = Owner[c],
                      User(m) \in asked[c], pc'[m] = "push notification" \/ result'[m] = "ok"
               PROVE  Reaches(c, m)'
    BY DEF PushesReach, Own, devices, sockets, Sends, To, User
  <2>1. Message(m, "pm")' = Message(m, "pm") /\ User(m)' = User(m)
    BY DEF Own, Message, To, User
  <2>2. /\ fetched'[c] = fetched[c] /\ got'[c] = got[c] /\ lost'[c] = lost[c]
        /\ synced'[c] = synced[c] /\ missed'[c] = missed[c]
        /\ Underway(c) \subseteq Underway(c)' /\ Elems(queue') \subseteq Underway(c)'
    BY DEF Own, devices, Underway, Elems
  <2>3. CASE pc[m] = "push notification" \/ result[m] = "ok"
    BY <2>1, <2>2, <2>3 DEF PushesReach, Reaches
  <2>4. CASE Message(m, "pm") \in Elems(queue')
    BY <2>1, <2>2, <2>4 DEF Reaches
  <2> QED BY <2>3, <2>4 DEF Own
<1> QED BY <1>1, <1>2

\* A step that marks no message and tells no marker so.
LEMMA MarksFrame ==
  ASSUME IInv, NEW r \in Requests, Own(r), readMsgs' = readMsgs,
         call[r].op = "read" => result'[r] # "ok"
  PROVE  MarksTold'
<1> USE DEF IInv, MarksTold
<1>1. \A q \in Requests : call[q].op = "read" /\ result'[q] = "ok" => result[q] = "ok"
  BY DEF Own
<1>2. \A m \in Requests : Readers(m, "read", {"ok", "error"}) \subseteq Readers(m, "read", {"ok", "error"})'
  BY DEF Readers, Own, User, To
<1>3. call' = call
  BY DEF Own
<1>4. ReadMarks'
  <2>1. \A m \in Requests : m \in readMsgs' => Readers(m, "read", {"ok", "error"})' # {}
    BY <1>2 DEF ReadMarks
  <2>2. \A m \in Requests : \A p, q \in Requests :
          call'[p].op = "read" /\ call'[q].op = "read" /\ result'[p] = "ok" /\ result'[q] = "ok"
           /\ call'[p].target = m /\ call'[q].target = m => p = q /\ m \in readMsgs'
    BY <1>1, <1>3 DEF ReadMarks
  <2> QED BY <2>1, <2>2 DEF ReadMarks
<1> QED BY <1>1, <1>3, <1>4

LEMMA CardinalityGrows ==
  ASSUME NEW S, NEW T, IsFiniteSet(T), S \subseteq T
  PROVE  /\ IsFiniteSet(S) /\ Cardinality(S) \in Nat /\ Cardinality(T) \in Nat
         /\ Cardinality(S) <= Cardinality(T)
  BY FS_Subset, FS_CardinalityType

\* More messages can only raise the bound of the counters being read.
LEMMA CountFrame ==
  ASSUME IInv, NEW r \in Requests, Own(r), counted' = counted, pc'[r] # "second",
         IsFiniteSet(msgs'), IsFiniteSet(notifs')
  PROVE  CountBound'
<1> SUFFICES ASSUME NEW q \in Requests, pc'[q] = "second"
             PROVE  counted'[q].messages <= Cardinality({m \in msgs' : To(m)' = User(q)'})
  BY DEF CountBound
<1> USE DEF IInv
<1>1. pc[q] = "second" /\ call' = call
  BY DEF Own
<1> DEFINE S == {m \in msgs : To(m) = User(q)}
           T == {m \in msgs' : To(m) = User(q)}
<1>2. {m \in msgs' : To(m)' = User(q)'} = T
  BY <1>1 DEF To, User
<1>3. S \subseteq T /\ T \subseteq msgs'
  BY DEF Own
<1>4. counted[q].messages <= Cardinality(S) /\ counted[q].messages \in Nat
  BY <1>1 DEF CountBound, TypeOK
<1> HIDE DEF S, T
<1>5. IsFiniteSet(T)
  BY <1>3, FS_Subset
<1>6. Cardinality(S) <= Cardinality(T) /\ Cardinality(S) \in Nat /\ Cardinality(T) \in Nat
  BY <1>3, <1>5, CardinalityGrows
<1> QED BY <1>2, <1>4, <1>6

\* The statements of a send before anything is pushed, and failures.
LEMMA StoreStep ==
  ASSUME IInv, NEW r \in Requests,
         SendCheck(r) \/ InsertMessage(r) \/ InsertNotification(r) \/ Fail(r)
  PROVE  IInv'
<1> USE DEF IInv
<1>1. /\ pc[r] \in {"check", "message", "notification", "update", "first", "second"}
      /\ pc' = [pc EXCEPT ![r] = pc'[r]] /\ result' = [result EXCEPT ![r] = result'[r]]
      /\ pc'[r] \in {"message", "notification", "push pm", "done"}
      /\ result'[r] \in {"none", "invalid", "error"} /\ (pc'[r] # "done" => result'[r] = "none")
      /\ msgs' \in {msgs, msgs \cup {r}} /\ notifs' \in {notifs, notifs \cup {r}}
      /\ UNCHANGED <<hub, readMsgs, readNotifs, call, counted, sockets, devices>>
      /\ pc'[r] # "done" => pc[r] \in {"check", "message", "notification"}
      /\ (r \in msgs' \ msgs => pc'[r] = "notification")
      /\ (pc[r] = "notification" => r \in notifs' \/ result'[r] = "error")
      /\ (pc'[r] \in {"notification", "push pm"} => r \in msgs')
      /\ (pc'[r] = "push pm" => r \in notifs')
      /\ result[r] = "none"
  <2>1. CASE SendCheck(r)
    BY <2>1 DEF SendCheck, Goto, Answer, tables, SendNext, TypeOK, PcValues, Control, ControlOf
  <2>2. CASE InsertMessage(r)
    BY <2>2 DEF InsertMessage, Goto, Answer, SendNext, TypeOK, PcValues, Control, ControlOf
  <2>3. CASE InsertNotification(r)
    BY <2>3 DEF InsertNotification, Goto, Answer, SendNext, TypeOK, PcValues, Control, ControlOf
  <2>4. CASE Fail(r)
    BY <2>4 DEF Fail, Answer, tables, TypeOK, PcValues, Control, ControlOf
  <2> QED BY <2>1, <2>2, <2>3, <2>4
<1>2. Own(r)
  BY <1>1 DEF Own, hub, TypeOK
<1>3. TypeOK'
  BY <1>1 DEF TypeOK, hub, sockets, devices, PcValues
<1>4. Control'
  BY <1>1, <1>2, ControlStep DEF Control, ControlOf, Sends
<1>5. EventsStored' /\ PushesReach'
  <2>1. queue' = queue /\ result'[r] # "ok" /\ pc'[r] # "push notification"
    BY <1>1 DEF hub
  <2>2. \A ev \in Elems(queue) : Stored(ev)'
    BY <1>2 DEF EventsStored, Stored, Own, Elems
  <2> QED BY <1>2, <2>1, <2>2, HubStep
<1>6. UnannouncedOnlyOnError'
  BY <1>1, <1>2 DEF UnannouncedOnlyOnError, Own, TypeOK
<1>7. MarksTold'
  BY <1>1, <1>2, MarksFrame
<1>8. CountBound'
  <2>1. IsFiniteSet(msgs') /\ IsFiniteSet(notifs')
    <3>1. IsFiniteSet(msgs) /\ IsFiniteSet(notifs)
      BY DEF CountBound
    <3>2. IsFiniteSet(msgs \cup {r}) /\ IsFiniteSet(notifs \cup {r})
      BY <3>1, FS_AddElement
    <3> QED BY <1>1, <3>1, <3>2
  <2> QED BY <1>1, <1>2, <2>1, CountFrame
<1> QED BY <1>3, <1>4, <1>5, <1>6, <1>7, <1>8

\* Hub.Notify publishes an event of a message that is stored and announced.
LEMMA PushStep ==
  ASSUME IInv, NEW r \in Requests, PushMessage(r) \/ PushNotification(r)
  PROVE  IInv'
<1> USE DEF IInv
<1>1. PICK kind \in {"pm", "notification"} :
        /\ Publish(Message(r, kind)) /\ UNCHANGED <<tables, call, counted, sockets, devices>>
        /\ pc[r] = (IF kind = "pm" THEN "push pm" ELSE "push notification")
        /\ pc' = [pc EXCEPT ![r] = IF kind = "pm" THEN "push notification" ELSE "done"]
        /\ result' = [result EXCEPT ![r] = IF kind = "pm" THEN "none" ELSE "ok"]
  BY DEF PushMessage, PushNotification, Goto, Answer, SendNext, Control, ControlOf, TypeOK
<1>2. Sends(r) /\ r \in msgs /\ r \in notifs /\ Message(r, kind) \in Events /\ result[r] = "none"
  BY <1>1, CallFacts DEF Control, ControlOf
<1>3. /\ queue' = Append(queue, Message(r, kind)) /\ queue' \in Seq(Events)
      /\ Elems(queue') = Elems(queue) \cup {Message(r, kind)}
      /\ UNCHANGED <<conns, due, inbox>>
  <2>1. queue' = Append(queue, Message(r, kind)) /\ UNCHANGED <<conns, due, inbox>>
    BY <1>1 DEF Publish
  <2>2. queue \in Seq(Events)
    BY DEF TypeOK
  <2> QED BY <1>2, <2>1, <2>2, AppendElems
<1>4. Own(r)
  BY <1>1, <1>2, <1>3 DEF Own, tables, TypeOK
<1>5. TypeOK'
  BY <1>1, <1>3 DEF TypeOK, tables, sockets, devices, PcValues
<1>6. Control'
  <2>1. /\ pc'[r] \in {"push notification", "done"} /\ (pc'[r] # "done" => result'[r] = "none")
        /\ UNCHANGED <<msgs, notifs, call>>
    BY <1>1 DEF tables, TypeOK
  <2> QED BY <1>2, <1>4, <2>1, ControlStep DEF ControlOf, Sends
<1>7. EventsStored' /\ PushesReach'
  <2>1. \A ev \in Elems(queue') : Stored(ev)'
    <3>1. \A ev \in Elems(queue) : Stored(ev)
      BY DEF EventsStored, Elems
    <3>2. Stored(Message(r, kind))
      BY <1>2 DEF Stored, Message
    <3>3. UNCHANGED <<msgs, notifs>>
      BY <1>1 DEF tables
    <3> QED BY <1>3, <3>1, <3>2, <3>3 DEF Stored
  <2>2. pc[r] = "push notification" \/ Message(r, "pm") \in Elems(queue')
    BY <1>1, <1>3
  <2> QED BY <1>3, <1>4, <2>1, <2>2, HubStep
<1>8. UnannouncedOnlyOnError'
  BY <1>1, <1>2, <1>4 DEF UnannouncedOnlyOnError, Own, TypeOK, tables
<1>9. MarksTold'
  BY <1>1, <1>2, <1>4, MarksFrame DEF tables, Sends
<1>10. CountBound'
  <2>1. IsFiniteSet(msgs') /\ IsFiniteSet(notifs') /\ counted' = counted /\ pc'[r] # "second"
    BY <1>1 DEF CountBound, tables, TypeOK
  <2> QED BY <1>4, <2>1, CountFrame
<1> QED BY <1>5, <1>6, <1>7, <1>8, <1>9, <1>10

\* Marking as read: a message is marked by the one request that finds it unread.
LEMMA MarkStep ==
  ASSUME IInv, NEW r \in Requests, MarkRead(r) \/ MarkNotificationRead(r) \/ MarkAllRead(r)
  PROVE  IInv'
<1> USE DEF IInv
<1>1. /\ pc[r] = "update" /\ pc' = [pc EXCEPT ![r] = "done"]
      /\ result' = [result EXCEPT ![r] = result'[r]] /\ result'[r] \in {"ok", "not_found", "error"}
      /\ UNCHANGED <<hub, msgs, notifs, call, counted, sockets, devices>>
      /\ readMsgs' \subseteq msgs /\ readNotifs' \subseteq notifs
      /\ call[r].op \in {"read", "readnotif", "readall"} /\ result[r] = "none"
      /\ call[r].op # "read" => readMsgs' = readMsgs
      /\ call[r].op = "read" =>
           \/ readMsgs' = readMsgs /\ result'[r] = "not_found"
           \/ Readable(r) /\ readMsgs' = readMsgs \cup {call[r].target} /\ result'[r] \in {"ok", "error"}
  <2>1. result[r] = "none"
    BY DEF MarkRead, MarkNotificationRead, MarkAllRead, Control, ControlOf
  <2>2. CASE MarkRead(r)
    BY <2>1, <2>2 DEF MarkRead, Finish, Answer, Readable, TypeOK
  <2>3. CASE MarkNotificationRead(r)
    BY <2>1, <2>3 DEF MarkNotificationRead, Finish, Answer, ReadableNotif, TypeOK
  <2>4. CASE MarkAllRead(r)
    BY <2>1, <2>4 DEF MarkAllRead, Finish, Answer, TypeOK
  <2> QED BY <2>2, <2>3, <2>4
<1>2. Own(r)
  BY <1>1 DEF Own, hub, TypeOK
<1>3. TypeOK'
  BY <1>1 DEF TypeOK, hub, sockets, devices, PcValues
<1>4. Control'
  <2>1. pc'[r] = "done" /\ ~Sends(r)' /\ pc'[r] # "notification"
    BY <1>1 DEF TypeOK, Sends
  <2> QED BY <1>2, <2>1, ControlStep DEF ControlOf
<1>5. EventsStored' /\ PushesReach'
  <2>1. queue' = queue /\ ~Sends(r)
    BY <1>1 DEF hub, Sends
  <2>2. \A ev \in Elems(queue) : Stored(ev)'
    BY <1>2 DEF EventsStored, Stored, Own, Elems
  <2> QED BY <1>2, <2>1, <2>2, HubStep
<1>6. UnannouncedOnlyOnError'
  <2>1. r \notin msgs \ notifs
    BY <1>1 DEF UnannouncedOnlyOnError
  <2> QED BY <1>1, <1>2, <2>1 DEF UnannouncedOnlyOnError, Own, TypeOK
<1>7. MarksTold'
  <2>1. CASE readMsgs' = readMsgs /\ (call[r].op = "read" => result'[r] # "ok")
    BY <1>2, <2>1, MarksFrame
  <2>2. CASE /\ call[r].op = "read" /\ Readable(r) /\ readMsgs' = readMsgs \cup {call[r].target}
             /\ result'[r] \in {"ok", "error"}
    <3>1. call[r].target \notin readMsgs /\ To(call[r].target) = User(r) /\ call[r].target \in Requests
      BY <2>2 DEF Readable, TypeOK
    <3>2. \A q \in Requests \ {r} :
            call[q].op = "read" /\ result'[q] = "ok" => call[q].target \in readMsgs
      BY <1>2 DEF MarksTold, Own
    <3>3. call' = call
      BY <1>1
    <3>4. \A m \in Requests : m \in readMsgs' => Readers(m, "read", {"ok", "error"})' # {}
      <4> SUFFICES ASSUME NEW m \in Requests, m \in readMsgs'
                   PROVE  \E q \in Requests : q \in Readers(m, "read", {"ok", "error"})'
        OBVIOUS
      <4>1. CASE m = call[r].target
        BY <2>2, <3>1, <3>3, <4>1 DEF Readers, User, To
      <4>2. CASE m # call[r].target
        <5>1. PICK q \in Requests : q \in Readers(m, "read", {"ok", "error"})
          BY <2>2, <4>2 DEF MarksTold, ReadMarks, Readers
        <5>2. q # r
          BY <1>1, <5>1 DEF Readers
        <5> QED BY <1>2, <5>1, <5>2 DEF Readers, Own, User, To
      <4> QED BY <4>1, <4>2
    <3>5. \A p, q \in Requests :
            call[p].op = "read" /\ call[q].op = "read" /\ result'[p] = "ok" /\ result'[q] = "ok"
              /\ call[p].target = call[q].target => p = q /\ call[p].target \in readMsgs'
      <4> SUFFICES ASSUME NEW p \in Requests, NEW q \in Requests,
                          call[p].op = "read", call[q].op = "read",
                          result'[p] = "ok", result'[q] = "ok", call[p].target = call[q].target
                   PROVE  p = q /\ call[p].target \in readMsgs'
        OBVIOUS
      <4>1. CASE p # r /\ q # r
        <5>1. result[p] = "ok" /\ result[q] = "ok" /\ call[p].target \in readMsgs
          BY <1>2, <3>2, <4>1 DEF Own
        <5>2. call[p].target \in Requests
          BY <5>1 DEF TypeOK
        <5> QED BY <2>2, <5>1, <5>2 DEF MarksTold, ReadMarks
      <4>2. CASE p = r \/ q = r
        BY <2>2, <3>1, <3>2, <4>2
      <4> QED BY <4>1, <4>2
    <3>6. ReadMarks'
      BY <3>3, <3>4, <3>5 DEF ReadMarks
    <3> QED BY <2>2, <3>2, <3>3, <3>6 DEF MarksTold
  <2> QED BY <1>1, <2>1, <2>2
<1>8. CountBound'
  <2>1. IsFiniteSet(msgs') /\ IsFiniteSet(notifs') /\ counted' = counted /\ pc'[r] # "second"
    BY <1>1 DEF CountBound, TypeOK
  <2> QED BY <1>2, <2>1, CountFrame
<1> QED BY <1>3, <1>4, <1>5, <1>6, <1>7, <1>8

\* The unread messages and notifications of a user are finite sets.
LEMMA UnreadFinite ==
  ASSUME IInv, NEW u
  PROVE  /\ Cardinality(Unread(u).messages) \in Nat /\ Cardinality(Unread(u).notifications) \in Nat
         /\ Cardinality(Unread(u).messages) <= Cardinality({m \in msgs : To(m) = u})
<1>1. IsFiniteSet(msgs) /\ IsFiniteSet(notifs)
  BY DEF IInv, CountBound
<1> DEFINE M == {m \in msgs : To(m) = u}
           N == Unread(u).notifications
           U == Unread(u).messages
<1>2. M \subseteq msgs /\ U \subseteq M /\ N \subseteq notifs
  BY DEF Unread
<1> HIDE DEF M, N, U
<1>3. IsFiniteSet(M) /\ IsFiniteSet(N)
  BY <1>1, <1>2, FS_Subset
<1>4. Cardinality(N) \in Nat /\ Cardinality(U) \in Nat /\ Cardinality(U) <= Cardinality(M)
  BY <1>2, <1>3, CardinalityGrows
<1> QED BY <1>4 DEF M, N, U

\* UnreadCount reads the messages first and the notifications second.
LEMMA CountStep ==
  ASSUME IInv, NEW r \in Requests, CountFirst(r) \/ CountSecond(r)
  PROVE  IInv'
<1> USE DEF IInv
<1>1. /\ pc[r] \in {"first", "second"}
      /\ pc' = [pc EXCEPT ![r] = IF pc[r] = "first" THEN "second" ELSE "done"]
      /\ result' = [result EXCEPT ![r] = IF pc[r] = "first" THEN "none" ELSE "ok"]
      /\ UNCHANGED <<hub, tables, call, sockets, devices>>
      /\ pc[r] = "first" =>
           counted' = [counted EXCEPT ![r].messages = Cardinality(Unread(User(r)).messages)]
      /\ pc[r] = "second" =>
           counted' = [counted EXCEPT ![r].notifications = Cardinality(Unread(User(r)).notifications)]
      /\ call[r].op = "count" /\ result[r] = "none"
  <2>1. call[r].op = "count" /\ result[r] = "none"
    BY DEF CountFirst, CountSecond, Count, Control, ControlOf
  <2>2. CASE CountFirst(r)
    <3>1. CountOrder["first"] = "messages" /\ result = [result EXCEPT ![r] = "none"]
      BY <2>1 DEF CountOrder, TypeOK
    <3> QED BY <2>1, <2>2, <3>1 DEF CountFirst, Count, Goto, Unread
  <2>3. CASE CountSecond(r)
    <3>1. CountOrder["second"] = "notifications"
      BY DEF CountOrder
    <3> QED BY <2>1, <2>3, <3>1 DEF CountSecond, Count, Answer, Unread
  <2> QED BY <2>2, <2>3
<1>2. /\ counted' \in [Requests -> [messages : Nat, notifications : Nat]]
      /\ \A q \in Requests \ {r} : counted'[q] = counted[q]
      /\ pc'[r] = "second" => counted'[r].messages = Cardinality(Unread(User(r)).messages)
  <2>1. /\ counted \in [Requests -> [messages : Nat, notifications : Nat]]
        /\ Cardinality(Unread(User(r)).messages) \in Nat
        /\ Cardinality(Unread(User(r)).notifications) \in Nat
    BY UnreadFinite DEF TypeOK
  <2>2. pc'[r] = "second" => pc[r] = "first"
    BY <1>1 DEF TypeOK
  <2>3. CASE pc[r] = "first"
    BY <1>1, <2>1, <2>3
  <2>4. CASE pc[r] = "second"
    BY <1>1, <2>1, <2>2, <2>4
  <2> QED BY <1>1, <2>3, <2>4
<1>3. Own(r)
  BY <1>1, <1>2 DEF Own, hub, tables, TypeOK
<1>4. TypeOK'
  BY <1>1, <1>2 DEF TypeOK, hub, tables, sockets, devices, PcValues
<1>5. Control'
  <2>1. /\ pc'[r] \in {"second", "done"} /\ (pc'[r] # "done" => result'[r] = "none")
        /\ UNCHANGED <<msgs, notifs, call>>
    BY <1>1 DEF tables, TypeOK
  <2> QED BY <1>1, <1>3, <2>1, ControlStep DEF ControlOf, Sends
<1>6. EventsStored' /\ PushesReach'
  <2>1. queue' = queue /\ ~Sends(r)
    BY <1>1 DEF hub, Sends
  <2>2. \A ev \in Elems(queue) : Stored(ev)'
    BY <1>3 DEF EventsStored, Stored, Own, Elems
  <2> QED BY <1>3, <2>1, <2>2, HubStep
<1>7. UnannouncedOnlyOnError'
  BY <1>1, <1>3 DEF UnannouncedOnlyOnError, Own, TypeOK, Control, ControlOf, tables
<1>8. MarksTold'
  BY <1>1, <1>3, MarksFrame DEF tables
<1>9. CountBound'
  <2>1. \A q \in Requests : To(q)' = To(q) /\ User(q)' = User(q)
    BY <1>1 DEF To, User
  <2>2. msgs' = msgs /\ notifs' = notifs /\ msgs \subseteq Requests
    BY <1>1 DEF tables, TypeOK
  <2>3. \A q \in Requests : {m \in msgs' : To(m)' = User(q)'} = {m \in msgs : To(m) = User(q)}
    BY <2>1, <2>2
  <2>4. ASSUME NEW q \in Requests, pc'[q] = "second"
        PROVE  counted'[q].messages <= Cardinality({m \in msgs : To(m) = User(q)})
    <3>1. CASE q = r
      BY <1>2, <2>4, <3>1, UnreadFinite
    <3>2. CASE q # r
      BY <1>2, <1>3, <2>4, <3>2 DEF CountBound, Own
    <3> QED BY <3>1, <3>2
  <2> QED BY <2>2, <2>3, <2>4 DEF CountBound
<1> QED BY <1>4, <1>5, <1>6, <1>7, <1>8, <1>9

-----------------------------------------------------------------------------
\* The events a device has received, lost or still awaits.
Share(c) == got[c] \cup lost[c] \cup Underway(c)

\* A step of a device or of the hub keeps the invariant if every message of a
\* conversation a device has asked for is either fetched or reaches it as before.
LEMMA DeviceStep ==
  ASSUME IInv, UNCHANGED requests, TypeOK', EventsStored',
         \A c \in Conns : (synced'[c] # {} => c \in conns') /\ (asked'[c] # {} => c \in open'),
         \A c \in Conns : \A m \in Requests : To(m) = Owner[c] /\ User(m) \in asked'[c] =>
           \/ m \in msgs => m \in fetched'[c]
           \/ User(m) \in asked[c] /\ (Reaches(c, m) => Reaches(c, m)')
  PROVE  IInv'
<1> USE DEF IInv, requests, tables
<1>1. \A r \in Requests : /\ Sends(r)' = Sends(r) /\ To(r)' = To(r) /\ User(r)' = User(r)
  BY DEF Sends, To, User
<1>2. Control' /\ UnannouncedOnlyOnError' /\ MarksTold' /\ CountBound'
  <2>1. Control' /\ UnannouncedOnlyOnError'
    BY DEF Control, ControlOf, UnannouncedOnlyOnError, Sends
  <2>2. MarksTold'
    BY DEF MarksTold, ReadMarks, Readers, User, To
  <2>3. CountBound'
    BY DEF CountBound, User, To
  <2> QED BY <2>1, <2>2, <2>3
<1>3. PushesReach'
  <2> SUFFICES ASSUME NEW c \in Conns, NEW m \in Requests, Sends(m), To(m) = Owner[c],
                      User(m) \in asked'[c], pc[m] = "push notification" \/ result[m] = "ok"
               PROVE  Reaches(c, m)'
    BY <1>1 DEF PushesReach
  <2>1. m \in msgs
    BY DEF Control, ControlOf
  <2>2. CASE m \in fetched'[c]
    BY <2>2 DEF Reaches
  <2>3. CASE User(m) \in asked[c] /\ (Reaches(c, m) => Reaches(c, m)')
    BY <2>3 DEF PushesReach
  <2> QED BY <2>1, <2>2, <2>3
<1> QED BY <1>2, <1>3

\* What a device has fetched, missed and shares in stays or grows, or it starts anew.
Keeps(c) ==
  \/ asked'[c] = {} /\ synced'[c] = {}
  \/ /\ asked'[c] = asked[c] /\ synced'[c] = synced[c] /\ (c \in conns => c \in conns')
     /\ (c \in open => c \in open')
     /\ fetched[c] \subseteq fetched'[c] /\ missed[c] \subseteq missed'[c]
     /\ Share(c) \subseteq Share(c)'

LEMMA KeepsStep ==
  ASSUME IInv, UNCHANGED requests, TypeOK', EventsStored', \A c \in Conns : Keeps(c)
  PROVE  IInv'
<1>1. \A c \in Conns : (synced'[c] # {} => c \in conns') /\ (asked'[c] # {} => c \in open')
  BY DEF Keeps, IInv, PushesReach
<1>2. ASSUME NEW c \in Conns, NEW m \in Requests, User(m) \in asked'[c]
      PROVE  User(m) \in asked[c] /\ (Reaches(c, m) => Reaches(c, m)')
  <2>1. Message(m, "pm")' = Message(m, "pm") /\ User(m)' = User(m)
    BY DEF Message, To, User, requests
  <2> QED BY <1>2, <2>1 DEF Keeps, Reaches, Share
<1> QED BY <1>1, <1>2, DeviceStep

\* The events of the hub are events.
LEMMA HubTypes ==
  ASSUME TypeOK
  PROVE  /\ queue \in Seq(Events) /\ \A c \in Conns : inbox[c] \in Seq(Events)
         /\ \A ev \in Elems(queue) : ev \in Events
         /\ \A c \in Conns : \A ev \in Elems(inbox[c]) : ev \in Events
         /\ \A c \in Conns : due[c] # NoEvent => due[c] \in Events
<1>1. \A s \in Seq(Events) : \A ev \in Elems(s) : ev \in Events
  BY DEF Elems
<1> QED BY <1>1 DEF TypeOK

\* EventsStored in terms of the sets of events.
LEMMA StoredElems ==
  EventsStored <=>
    /\ \A ev \in Elems(queue) : Stored(ev)
    /\ \A c \in Conns : /\ \A ev \in Elems(inbox[c]) : Stored(ev)
                        /\ due[c] # NoEvent => Stored(due[c])
                        /\ \A ev \in got[c] : Stored(ev)
  BY DEF EventsStored, Elems

\* A socket opens, is registered, breaks or is unregistered.
LEMMA SocketStep ==
  ASSUME IInv, NEW c \in Conns,
         Upgrade(c) \/ Register(c) \/ SocketBreaks(c) \/ Unregister(c)
  PROVE  IInv'
<1> USE DEF IInv
<1>1. /\ UNCHANGED requests /\ UNCHANGED <<queue, due, inbox>>
      /\ UNCHANGED devices \/ Forget(c)
      /\ \/ conns' = conns \/ conns' = conns \cup {c}
         \/ conns' = conns \ {c} /\ Forget(c)
      /\ open \ {c} \subseteq open' /\ (c \in open => c \in open' \/ Forget(c))
  BY DEF Upgrade, Register, SocketBreaks, Unregister, Connect, Disconnect, hub, sockets
<1>2. TypeOK'
  <2>1. /\ conns' \subseteq Conns
        /\ open' \subseteq conns' \cup upgraded' /\ upgraded' \subseteq Conns \ conns'
    <3>1. conns \subseteq Conns /\ open \subseteq conns \cup upgraded /\ upgraded \subseteq Conns \ conns
      BY DEF TypeOK
    <3> QED BY <3>1 DEF Upgrade, Register, SocketBreaks, Unregister, Connect, Disconnect, hub, sockets
  <2> QED BY <1>1, <2>1 DEF TypeOK, requests, tables, devices, Forget
<1>3. EventsStored'
  <2>1. \A d \in Conns : got'[d] \subseteq got[d]
    BY <1>1 DEF devices, Forget, TypeOK
  <2> QED BY <1>1, <2>1 DEF EventsStored, Stored, requests, tables
<1>4. \A d \in Conns : Keeps(d)
  BY <1>1 DEF Keeps, Share, Underway, devices, Forget, TypeOK
<1> QED BY <1>1, <1>2, <1>3, <1>4, KeepsStep

\* A device fetches a conversation: all that is stored of it.
LEMMA FetchStep ==
  ASSUME IInv, NEW c \in Conns, NEW p \in Users, Fetch(c, p)
  PROVE  IInv'
<1> USE DEF IInv, Fetch, hub, sockets
<1>1. TypeOK'
  BY DEF TypeOK, requests, tables
<1>2. EventsStored'
  BY DEF EventsStored, Stored, requests, tables
<1>3. \A d \in Conns : (synced'[d] # {} => d \in conns') /\ (asked'[d] # {} => d \in open')
  BY DEF PushesReach, TypeOK
<1>4. ASSUME NEW d \in Conns, NEW m \in Requests, To(m) = Owner[d], User(m) \in asked'[d]
      PROVE  \/ m \in msgs => m \in fetched'[d]
             \/ User(m) \in asked[d] /\ (Reaches(d, m) => Reaches(d, m)')
  <2>1. CASE d = c /\ User(m) = p
    BY <1>4, <2>1 DEF TypeOK, Involves
  <2>2. CASE d # c \/ User(m) # p
    <3>1. /\ User(m) \in asked[d] /\ fetched[d] \subseteq fetched'[d]
          /\ User(m) \in synced'[d] => User(m) \in synced[d]
          /\ UNCHANGED <<got, lost, missed>> /\ Underway(d)' = Underway(d)
      BY <1>4, <2>2 DEF TypeOK, Underway
    <3>2. Message(m, "pm")' = Message(m, "pm") /\ User(m)' = User(m)
      BY DEF Message, To, User, requests
    <3> QED BY <3>1, <3>2 DEF Reaches
  <2> QED BY <2>1, <2>2
<1> QED BY <1>1, <1>2, <1>3, <1>4, DeviceStep

\* The hub offers an event to a connection, which takes or loses it.
LEMMA OfferStep ==
  ASSUME IInv, NEW c \in Conns, HubQueues(c) \/ HubDrops(c)
  PROVE  IInv'
<1> USE DEF IInv, requests, tables, sockets
<1>0. due[c] # NoEvent /\ due[c] \in Events /\ inbox[c] \in Seq(Events)
  BY HubTypes DEF HubQueues, HubDrops, Take, Drop
<1>1. CASE HubQueues(c)
  <2> USE <1>1 DEF HubQueues, Take, devices
  <2>1. /\ inbox'[c] \in Seq(Events) /\ Elems(inbox'[c]) = Elems(inbox[c]) \cup {due[c]}
        /\ due'[c] = NoEvent
        /\ \A d \in Conns \ {c} : inbox'[d] = inbox[d] /\ due'[d] = due[d]
    <3>1. inbox'[c] = Append(inbox[c], due[c]) /\ due'[c] = NoEvent
      BY DEF TypeOK
    <3>2. \A d \in Conns \ {c} : inbox'[d] = inbox[d] /\ due'[d] = due[d]
      BY DEF TypeOK
    <3> QED BY <1>0, <3>1, <3>2, AppendElems
  <2>2. TypeOK'
    <3>1. inbox' \in [Conns -> Seq(Events)] /\ due' \in [Conns -> Events \cup {NoEvent}]
      BY <1>0, <2>1 DEF TypeOK
    <3> QED BY <3>1 DEF TypeOK
  <2>3. EventsStored'
    BY <1>0, <2>1, StoredElems DEF EventsStored, Elems, Stored
  <2>4. ASSUME NEW d \in Conns PROVE Keeps(d)
    <3>1. Underway(d)' = Elems(queue) \cup Elems(inbox'[d]) \cup ({due'[d]} \ {NoEvent})
      BY DEF Underway, Elems
    <3>2. Underway(d)' = Underway(d)
      BY <1>0, <2>1, <3>1, UnderwayElems DEF TypeOK
    <3> QED BY <3>2 DEF Share, Keeps
  <2> QED BY <2>2, <2>3, <2>4, KeepsStep
<1>2. CASE HubDrops(c)
  <2> USE <1>2 DEF HubDrops, Drop
  <2>1. TypeOK'
    BY <1>0 DEF TypeOK
  <2>2. EventsStored'
    BY DEF EventsStored, Stored, TypeOK
  <2>3. \A d \in Conns : Keeps(d)
    BY <1>0 DEF Keeps, Share, Underway, TypeOK
  <2> QED BY <2>1, <2>2, <2>3, KeepsStep
<1> QED BY <1>1, <1>2

\* An event leaves a buffer: the device reads it, or its socket breaks.
LEMMA WriteStep ==
  ASSUME IInv, NEW c \in Conns, DeviceReads(c) \/ WriteLost(c)
  PROVE  IInv'
<1> USE DEF IInv, requests, tables, sockets
<1>1. /\ inbox[c] \in Seq(Events) /\ inbox[c] # <<>> /\ inbox'[c] = Tail(inbox[c])
      /\ \A d \in Conns \ {c} : inbox'[d] = inbox[d]
      /\ inbox' = [inbox EXCEPT ![c] = inbox'[c]]
      /\ UNCHANGED <<conns, queue, due>>
  BY HubTypes DEF DeviceReads, WriteLost, Write, TypeOK
<1>2. /\ inbox'[c] \in Seq(Events) /\ Head(inbox[c]) \in Events
      /\ Elems(inbox[c]) = Elems(inbox'[c]) \cup {Head(inbox[c])}
  BY <1>1, TailElems
<1>3. inbox' \in [Conns -> Seq(Events)]
  BY <1>1, <1>2 DEF TypeOK
<1>4. /\ \A ev \in Elems(queue) : Stored(ev)
      /\ \A d \in Conns : /\ \A ev \in Elems(inbox'[d]) : Stored(ev)
                          /\ due[d] # NoEvent => Stored(due[d])
                          /\ \A ev \in got[d] : Stored(ev)
      /\ Stored(Head(inbox[c]))
  BY <1>1, <1>2, StoredElems
<1>5. CASE DeviceReads(c)
  <2> USE <1>5 DEF DeviceReads
  <2>1. TypeOK'
    BY <1>1, <1>2, <1>3 DEF TypeOK
  <2>2. EventsStored'
    BY <1>1, <1>4 DEF EventsStored, Elems, Stored, TypeOK
  <2>3. ASSUME NEW d \in Conns PROVE Keeps(d)
    <3>1. Underway(d)' = Elems(queue) \cup Elems(inbox'[d]) \cup ({due[d]} \ {NoEvent})
      BY <1>1 DEF Underway, Elems
    <3>2. got'[d] = (IF d = c THEN got[d] \cup {Head(inbox[c])} ELSE got[d])
      BY DEF TypeOK
    <3>3. Share(d)' = Share(d)
      BY <1>1, <1>2, <3>1, <3>2, UnderwayElems DEF Share
    <3> QED BY <1>1, <3>3 DEF Keeps
  <2> QED BY <2>1, <2>2, <2>3, KeepsStep
<1>6. CASE WriteLost(c)
  <2> USE <1>6 DEF WriteLost, Forget
  <2>1. TypeOK'
    BY <1>1, <1>3 DEF TypeOK
  <2>2. EventsStored'
    BY <1>1, <1>4 DEF EventsStored, Elems, Stored, TypeOK
  <2>3. \A d \in Conns : Keeps(d)
    BY <1>1 DEF Keeps, Share, Underway, TypeOK
  <2> QED BY <2>1, <2>2, <2>3, KeepsStep
<1> QED BY <1>5, <1>6

\* Dispatch moves the oldest event to every registered connection it is addressed
\* to; the others that are open miss it, and none of them fetched while registered.
LEMMA DispatchStep ==
  ASSUME IInv, HubDispatches
  PROVE  IInv'
<1> USE DEF IInv, requests, tables, sockets, HubDispatches, Dispatch
<1>1. queue \in Seq(Events) /\ queue # <<>> /\ queue' = Tail(queue)
  BY DEF TypeOK
<1>2. queue' \in Seq(Events) /\ Head(queue) \in Events /\ Elems(queue) = Elems(queue') \cup {Head(queue)}
  BY <1>1, TailElems
<1>3. Head(queue) # NoEvent
  BY <1>2, NoEventAssumption
<1>4. TypeOK'
  <2>1. due' \in [Conns -> Events \cup {NoEvent}] /\ missed' \in [Conns -> SUBSET Events]
    BY <1>2 DEF TypeOK
  <2> QED BY <1>2, <2>1 DEF TypeOK
<1>5. EventsStored'
  <2>1. /\ \A ev \in Elems(queue') : Stored(ev) /\ Stored(Head(queue))
        /\ \A d \in Conns : due'[d] # NoEvent => Stored(due'[d])
    BY <1>2, StoredElems
  <2>2. \A i \in DOMAIN queue' : Stored(queue'[i])
    BY <1>2, StoredElems DEF Elems
  <2> QED BY <2>1, <2>2 DEF EventsStored, Stored
<1>6. \A c \in Conns : (synced'[c] # {} => c \in conns') /\ (asked'[c] # {} => c \in open')
  BY DEF PushesReach
<1>7. ASSUME NEW c \in Conns, NEW m \in Requests, To(m) = Owner[c], User(m) \in asked[c],
             Reaches(c, m)
      PROVE  Reaches(c, m)'
  <2> DEFINE ev == Message(m, "pm")
  <2>1. ev' = ev /\ ev.to = Owner[c] /\ User(m)' = User(m)
    BY <1>7 DEF Message, To, User
  <2>2. Underway(c)' = Elems(queue') \cup Elems(inbox[c]) \cup ({due'[c]} \ {NoEvent})
    BY DEF Underway, Elems
  <2>3. Underway(c) = Elems(queue) \cup Elems(inbox[c])
    BY UnderwayElems
  <2>4. CASE ev = Head(queue)
    <3>1. c \in conns => due'[c] = ev
      BY <2>1, <2>4 DEF Addressed
    <3>2. c \notin conns => User(m) \notin synced[c]
      BY DEF PushesReach
    <3>3. c \notin conns => ev \in missed'[c]
      <4>1. c \in open
        BY <1>7 DEF PushesReach
      <4> QED BY <2>1, <2>4, <4>1 DEF Addressed
    <3> QED BY <1>3, <2>1, <2>2, <2>4, <3>1, <3>2, <3>3 DEF Reaches
  <2>5. CASE ev # Head(queue)
    <3>1. missed[c] \subseteq missed'[c]
      OBVIOUS
    <3> HIDE DEF ev
    <3>2. ev \in Underway(c) => ev \in Underway(c)'
      BY <1>2, <2>2, <2>3, <2>5
    <3> QED BY <1>7, <2>1, <3>1, <3>2 DEF Reaches, ev
  <2> QED BY <2>4, <2>5
<1> QED BY <1>4, <1>5, <1>6, <1>7, DeviceStep

-----------------------------------------------------------------------------
LEMMA NextInv == IInv /\ [Next]_vars => IInv'
<1> SUFFICES ASSUME IInv, [Next]_vars PROVE IInv'
  OBVIOUS
<1>1. CASE Next
  BY <1>1, StoreStep, PushStep, MarkStep, CountStep, SocketStep, FetchStep, OfferStep, WriteStep, DispatchStep
     DEF Next, RequestNext, DeviceNext
<1>2. CASE UNCHANGED vars
  <2> USE <1>2 DEF vars, hub, requests, tables, sockets, devices, IInv
  <2>1. TypeOK'
    BY DEF TypeOK
  <2>2. EventsStored'
    BY DEF EventsStored, Stored
  <2>3. \A c \in Conns : Keeps(c)
    BY DEF Keeps, Share, Underway
  <2> QED BY <2>1, <2>2, <2>3, KeepsStep
<1> QED BY <1>1, <1>2

LEMMA Inductive == Spec => []IInv
  BY InitInv, NextInv, PTL DEF Spec

\* Tables, requests, devices and the hub's buffers keep their types; only stored
\* rows are marked read.
THEOREM MessagingTypeCorrect == Spec => []TypeOK
<1>1. IInv => TypeOK
  BY DEF IInv
<1> QED BY <1>1, Inductive, PTL

\* A device whose hub registration preceded its fetch misses no later message of
\* that partner whose sender was answered with success, except what a full buffer
\* lost; one that fetched right after the upgrade may also miss what was dispatched
\* before its registration, and no other.
THEOREM NoMessageMissed == Spec => []NoGap
<1>1. IInv => NoGap
  BY DEF IInv, TypeOK, PushesReach, Reaches, NoGap, Sends
<1> QED BY <1>1, Inductive, PTL

\* Every event a device sees, or will see, names rows that are stored.
THEOREM PushAfterStore == Spec => []PushedIsStored
<1>1. IInv => PushedIsStored
  BY DEF IInv, EventsStored, Stored, PushedIsStored, Underway
<1> QED BY <1>1, Inductive, PTL

\* A message nobody is notified of has a sender who is still waiting or was told
\* of an error.
THEOREM UnannouncedExplained == Spec => []UnannouncedOnlyOnError
<1>1. IInv => UnannouncedOnlyOnError
  BY DEF IInv
<1> QED BY <1>1, Inductive, PTL

\* Read marks come from the recipient, and of the requests that race for one mark
\* a single one is told that it set it.
THEOREM MarkedOnce == Spec => []ReadMarks
<1>1. IInv => ReadMarks
  BY DEF IInv, MarksTold
<1> QED BY <1>1, Inductive, PTL

\* Of the steps of all requests and devices only its own second count answers a
\* count with success.
LEMMA CountAnswers ==
  ASSUME IInv, Next, NEW r \in Requests, pc[r] = "second", result'[r] = "ok"
  PROVE  CountSecond(r)
<1> USE DEF IInv
<1>1. result[r] = "none"
  BY DEF Control, ControlOf
<1>2. PICK q \in Requests : RequestNext(q)
  <2>1. \A c \in Conns : DeviceNext(c) => result' = result
    BY DEF DeviceNext, Upgrade, Register, SocketBreaks, Unregister, DeviceReads, WriteLost,
           HubQueues, HubDrops, Fetch, requests
  <2>2. HubDispatches => result' = result
    BY DEF HubDispatches, requests
  <2> QED BY <1>1, <2>1, <2>2 DEF Next
<1>3. q = r
  <2> SUFFICES ASSUME q # r PROVE result'[r] = result[r]
    BY <1>1
  <2> QED BY <1>2 DEF RequestNext, SendCheck, InsertMessage, InsertNotification, PushMessage,
             PushNotification, MarkRead, MarkNotificationRead, MarkAllRead, CountFirst, CountSecond,
             Fail, Goto, Answer, Finish, TypeOK
<1>4. ~Fail(r)
  BY DEF Fail, Answer, TypeOK
<1> QED BY <1>2, <1>3, <1>4 DEF RequestNext, SendCheck, InsertMessage, InsertNotification,
           PushMessage, PushNotification, MarkRead, MarkNotificationRead, MarkAllRead, CountFirst, Count

LEMMA UnionBound ==
  ASSUME NEW S, NEW T, IsFiniteSet(S), IsFiniteSet(T)
  PROVE  IsFiniteSet(S \cup T) /\ Cardinality(S \cup T) <= Cardinality(S) + Cardinality(T)
<1>1. /\ IsFiniteSet(S \cup T)
      /\ Cardinality(S \cup T) = Cardinality(S) + Cardinality(T) - Cardinality(S \cap T)
  BY FS_Union
<1>2. S \cap T \subseteq S
  OBVIOUS
<1>3. Cardinality(S) \in Nat /\ Cardinality(T) \in Nat /\ Cardinality(S \cap T) \in Nat
  BY <1>2, CardinalityGrows, FS_CardinalityType
<1> QED BY <1>1, <1>3

\* The two unread counters belong together: messages are counted before the
\* notifications, so between the two counts notifications can only be added.
THEOREM CountersBelongTogether == Spec => CountsCover
<1>1. ASSUME IInv, Next, NEW r \in Requests, pc[r] = "second", result'[r] = "ok"
      PROVE  counted'[r].messages <= counted'[r].notifications
               + Cardinality({m \in msgs \ notifs : To(m) = User(r)})
               + Cardinality({n \in readNotifs : To(n) = User(r)})
  <2> DEFINE M == {m \in msgs : To(m) = User(r)}
             N == Unread(User(r)).notifications
             D == {m \in msgs \ notifs : To(m) = User(r)}
             R == {n \in readNotifs : To(n) = User(r)}
  <2>1. Count(r, "second") /\ counted \in [Requests -> [messages : Nat, notifications : Nat]]
    BY <1>1, CountAnswers DEF CountSecond, IInv, TypeOK
  <2>2. counted'[r].messages = counted[r].messages /\ counted[r].messages \in Nat
        /\ counted'[r].notifications = Cardinality(N)
    <3>1. CountOrder["second"] = "notifications"
      BY DEF CountOrder
    <3> QED BY <2>1, <3>1 DEF Count
  <2>3. counted[r].messages <= Cardinality(M)
    BY <1>1 DEF IInv, CountBound
  <2>4. M \subseteq (N \cup D) \cup R /\ N \subseteq notifs /\ D \subseteq msgs /\ R \subseteq notifs
    BY <1>1 DEF Unread, IInv, TypeOK
  <2>5. IsFiniteSet(msgs) /\ IsFiniteSet(notifs)
    BY <1>1 DEF IInv, CountBound
  <2> HIDE DEF M, N, D, R
  <2>6. IsFiniteSet(N) /\ IsFiniteSet(D) /\ IsFiniteSet(R)
    BY <2>4, <2>5, FS_Subset
  <2>7. /\ IsFiniteSet((N \cup D) \cup R) /\ Cardinality((N \cup D) \cup R) \in Nat
        /\ Cardinality((N \cup D) \cup R) <= Cardinality(N) + Cardinality(D) + Cardinality(R)
    <3>1. IsFiniteSet(N \cup D) /\ Cardinality(N \cup D) <= Cardinality(N) + Cardinality(D)
      BY <2>6, UnionBound
    <3>2. /\ IsFiniteSet((N \cup D) \cup R)
          /\ Cardinality((N \cup D) \cup R) <= Cardinality(N \cup D) + Cardinality(R)
      BY <2>6, <3>1, UnionBound
    <3> QED BY <2>6, <3>1, <3>2, FS_CardinalityType
  <2>8. Cardinality(M) \in Nat /\ Cardinality(M) <= Cardinality((N \cup D) \cup R)
    BY <2>4, <2>7, CardinalityGrows
  <2>9. Cardinality(N) \in Nat /\ Cardinality(D) \in Nat /\ Cardinality(R) \in Nat
    BY <2>6, FS_CardinalityType
  <2>10. counted[r].messages <= Cardinality(N) + Cardinality(D) + Cardinality(R)
    BY <2>2, <2>3, <2>7, <2>8, <2>9
  <2> QED BY <2>2, <2>10 DEF D, R
<1>2. IInv /\ [Next]_vars =>
        [\A r \in Requests :
           pc[r] = "second" /\ result'[r] = "ok" =>
             counted'[r].messages <= counted'[r].notifications
               + Cardinality({m \in msgs \ notifs : To(m) = User(r)})
               + Cardinality({n \in readNotifs : To(n) = User(r)})]_vars
  BY <1>1
<1> QED BY <1>2, Inductive, PTL DEF Spec, CountsCover
=============================================================================
