-------------------------------- MODULE Hub --------------------------------
(***************************************************************************)
(* The realtime hub (internal/ws) and the WebSocket endpoint that feeds it *)
(* (internal/handlers/ws.go): the goroutine of every connection, its       *)
(* WritePump, the single dispatcher Hub.Run, and the HTTP handlers that    *)
(* call Hub.Notify.  They share the registry behind Hub.mu, the channel    *)
(* notifyCh, and one send channel per client.                              *)
(*                                                                         *)
(* A member of Conns is one *Client: it is created once and never reused.  *)
(* A member of Requests is one POST /api/v1/pms call, which notifies its   *)
(* recipient twice.                                                        *)
(***************************************************************************)
EXTENDS Integers, Sequences, FiniteSets

CONSTANTS Users, Conns, Requests,
          Owner,        \* Client.userID
          Recipient,    \* the recipient a request names
          Nil,          \* uuid.Nil: the address of a broadcast
          NoEvent,      \* what Run holds between two events
          NotifyCap,    \* capacity of notifyCh (256 in the code)
          SendBuffer    \* capacity of a client's send channel (64 in the code)

ASSUME OwnerAssumption == Owner \in [Conns -> Users]
ASSUME RecipientAssumption == Recipient \in [Requests -> Users]
ASSUME NilAssumption == Nil \notin Users
ASSUME CapacityAssumption == /\ NotifyCap \in Nat \ {0}
                             /\ SendBuffer \in Nat \ {0}

VARIABLES
  clients,    \* Hub.clients: the registered connections of every user
  online,     \* Hub.online
  notifyCh,   \* Hub.notifyCh
  run,        \* Hub.Run: waiting in select, waiting for RLock, or delivering under it
  cur,        \* the notify Run took from the channel
  todo,       \* the connections deliver has still to visit
  pc,         \* the goroutine of a connection: handlers.WS, NewClient, ReadPump, Close
  writer,     \* the WritePump goroutine of a connection
  chan,       \* Client.send as a Go channel: not made, open or closed
  send,       \* the events buffered in Client.send
  sock,       \* TRUE until the server closes the connection
  req,        \* the goroutine of a request
  net,        \* history: joins minus leaves put on notifyCh for a user
  announced   \* history: the last presence put on notifyCh for a user

registry == <<clients, online>>
dispatch == <<run, cur, todo>>
history  == <<net, announced>>
vars == <<registry, notifyCh, dispatch, pc, writer, chan, send, sock, req, history>>

Kinds  == {"join", "leave", "pm", "notification"}
Events == [to : Users \cup {Nil}, kind : Kinds, about : Users \cup Requests]

ASSUME NoEventAssumption == NoEvent \notin Events

Presence(u, kind) == [to |-> Nil, kind |-> kind, about |-> u]
Message(r, kind)  == [to |-> Recipient[r], kind |-> kind, about |-> r]

(***************************************************************************)
(* register and unregister hold Hub.mu in the first four control points;   *)
(* what follows the Unlock depends on what they saw under the lock.        *)
(***************************************************************************)
AfterUnlock == [regFirst |-> "join", regAgain |-> "starting",
                unregLast |-> "leave", unregMore |-> "closing"]
PcValues == {"new", "regFirst", "regAgain", "join", "starting", "serving",
             "leaving", "unregLast", "unregMore", "leave", "closing", "gone"}

MutBroadcastLocked(c) == pc[c] \in DOMAIN AfterUnlock \cup {"join", "leave"}
HoldsLock(c) == pc[c] \in DOMAIN AfterUnlock
WriteLocked  == \E c \in Conns : HoldsLock(c)
MutNoReadLock == ~WriteLocked
LockFree     == ~WriteLocked /\ run # "delivering"

Init ==
  /\ clients = [u \in Users |-> {}] /\ online = {}
  /\ notifyCh = <<>>
  /\ run = "select" /\ cur = NoEvent /\ todo = {}
  /\ pc = [c \in Conns |-> "new"] /\ writer = [c \in Conns |-> "none"]
  /\ chan = [c \in Conns |-> "none"] /\ send = [c \in Conns |-> <<>>]
  /\ sock = [c \in Conns |-> TRUE]
  /\ req = [r \in Requests |-> "saving"]
  /\ net = [u \in Users |-> 0] /\ announced = [u \in Users |-> FALSE]

-----------------------------------------------------------------------------
(* The goroutine of a connection. *)

MutAskedAfterInsert(c) == TRUE
Already(c) == Owner[c] \in online

\* NewClient: make the send channel, then register up to its Unlock.
Register(c) ==
  /\ pc[c] = "new" /\ LockFree
  /\ chan' = [chan EXCEPT ![c] = "open"]
  /\ clients' = [clients EXCEPT ![Owner[c]] = @ \cup {c}]
  /\ online' = online \cup {Owner[c]}
  /\ pc' = [pc EXCEPT ![c] = IF Already(c) THEN "regAgain" ELSE "regFirst"]
  /\ UNCHANGED <<notifyCh, dispatch, writer, send, sock, req, history>>

Unlock(c) ==
  /\ pc[c] \in DOMAIN AfterUnlock
  /\ pc' = [pc EXCEPT ![c] = AfterUnlock[@]]
  /\ UNCHANGED <<registry, notifyCh, dispatch, writer, chan, send, sock, req, history>>

MutNoCapacity(ev) == notifyCh' = Append(notifyCh, ev)
\* Notify and Broadcast: a channel send, which waits while the buffer is full.
Enqueue(ev) ==
  /\ Len(notifyCh) < NotifyCap
  /\ notifyCh' = Append(notifyCh, ev)

BroadcastPresence(c, kind, next) ==
  /\ pc[c] = kind
  /\ Enqueue(Presence(Owner[c], kind))
  /\ pc' = [pc EXCEPT ![c] = next]
  /\ net' = [net EXCEPT ![Owner[c]] = IF kind = "join" THEN @ + 1 ELSE @ - 1]
  /\ announced' = [announced EXCEPT ![Owner[c]] = (kind = "join")]
  /\ UNCHANGED <<registry, dispatch, writer, chan, send, sock, req>>

Join(c)  == BroadcastPresence(c, "join", "starting")
Leave(c) == BroadcastPresence(c, "leave", "closing")

\* WS: go client.WritePump(), then ReadPump.
StartPumps(c) ==
  /\ pc[c] = "starting"
  /\ pc' = [pc EXCEPT ![c] = "serving"]
  /\ writer' = [writer EXCEPT ![c] = "running"]
  /\ UNCHANGED <<registry, notifyCh, dispatch, chan, send, sock, req, history>>

\* ReadMessage fails: the peer left, missed its pongs, or we closed the socket.
ReadPumpEnds(c) ==
  /\ pc[c] = "serving"
  /\ pc' = [pc EXCEPT ![c] = "leaving"]
  /\ sock' = [sock EXCEPT ![c] = FALSE]
  /\ UNCHANGED <<registry, notifyCh, dispatch, writer, chan, send, req, history>>

MutAnyConnIsLast(c) == TRUE
LastConn(c) == clients[Owner[c]] \subseteq {c}

\* Close: unregister up to its Unlock.
Unregister(c) ==
  /\ pc[c] = "leaving" /\ LockFree
  /\ clients' = [clients EXCEPT ![Owner[c]] = @ \ {c}]
  /\ IF Owner[c] \in online /\ LastConn(c)
       THEN /\ online' = online \ {Owner[c]}
            /\ pc' = [pc EXCEPT ![c] = "unregLast"]
       ELSE /\ online' = online
            /\ pc' = [pc EXCEPT ![c] = "unregMore"]
  /\ UNCHANGED <<notifyCh, dispatch, writer, chan, send, sock, req, history>>

MutCloseFirst(c) == pc[c] \in {"leaving", "closing"} /\ chan[c] = "open"
MayClose(c) == pc[c] = "closing"

\* Close: close(c.send), after unregister has returned.
CloseSend(c) ==
  /\ MayClose(c)
  /\ chan' = [chan EXCEPT ![c] = "closed"]
  /\ pc' = [pc EXCEPT ![c] = IF @ = "closing" THEN "gone" ELSE @]
  /\ UNCHANGED <<registry, notifyCh, dispatch, writer, send, sock, req, history>>

-----------------------------------------------------------------------------
(* The WritePump of a connection. *)

WriteOk(c) ==
  /\ writer[c] = "running" /\ send[c] # <<>> /\ sock[c]
  /\ send' = [send EXCEPT ![c] = Tail(@)]
  /\ UNCHANGED <<registry, notifyCh, dispatch, pc, writer, chan, sock, req, history>>

\* The deferred function: WritePump closes the connection whenever it returns.
WriterReturns(c) ==
  /\ writer' = [writer EXCEPT ![c] = "ended"]
  /\ sock' = [sock EXCEPT ![c] = FALSE]

\* A write of a ping or of an event fails or misses its deadline.
WriteFails(c) ==
  /\ writer[c] = "running"
  /\ WriterReturns(c)
  /\ \/ send' = send
     \/ send[c] # <<>> /\ send' = [send EXCEPT ![c] = Tail(@)]
  /\ UNCHANGED <<registry, notifyCh, dispatch, pc, chan, req, history>>

\* A receive on the closed and drained channel: write the close frame, return.
WriterSeesClose(c) ==
  /\ writer[c] = "running" /\ chan[c] = "closed" /\ send[c] = <<>>
  /\ WriterReturns(c)
  /\ UNCHANGED <<registry, notifyCh, dispatch, pc, chan, send, req, history>>

-----------------------------------------------------------------------------
(* Hub.Run. *)

Receive ==
  /\ run = "select" /\ notifyCh # <<>>
  /\ cur' = Head(notifyCh) /\ notifyCh' = Tail(notifyCh)
  /\ run' = "locking"
  /\ UNCHANGED <<registry, todo, pc, writer, chan, send, sock, req, history>>

MutEverybody(n) == UNION {clients[u] : u \in Users}
Targets(n) == IF n.to = Nil THEN UNION {clients[u] : u \in Users}
                            ELSE clients[n.to]

\* deliver: RLock, then range over the registry, which cannot change meanwhile.
DeliverLock ==
  /\ run = "locking" /\ ~WriteLocked
  /\ todo' = Targets(cur)
  /\ run' = "delivering"
  /\ UNCHANGED <<registry, notifyCh, cur, pc, writer, chan, send, sock, req, history>>

MutQueueWaits(c) ==
  /\ run = "delivering" /\ c \in todo /\ Len(send[c]) < SendBuffer
  /\ send' = [send EXCEPT ![c] = Append(@, cur)]
  /\ todo' = todo \ {c}
  /\ UNCHANGED <<registry, notifyCh, run, cur, pc, writer, chan, sock, req, history>>
\* queue: the event is dropped when the client's buffer is full.
Queue(c) ==
  /\ run = "delivering" /\ c \in todo
  /\ send' = [send EXCEPT ![c] = IF Len(@) < SendBuffer THEN Append(@, cur) ELSE @]
  /\ todo' = todo \ {c}
  /\ UNCHANGED <<registry, notifyCh, run, cur, pc, writer, chan, sock, req, history>>

DeliverUnlock ==
  /\ run = "delivering" /\ todo = {}
  /\ run' = "select" /\ cur' = NoEvent
  /\ UNCHANGED <<registry, notifyCh, todo, pc, writer, chan, send, sock, req, history>>

-----------------------------------------------------------------------------
(* Messages.Send: the message and its notification are stored, then the    *)
(* recipient is notified of each.                                          *)

Saved(r) ==
  /\ req[r] = "saving"
  /\ req' = [req EXCEPT ![r] = "pm"]
  /\ UNCHANGED <<registry, notifyCh, dispatch, pc, writer, chan, send, sock, history>>

NextCall == [pm |-> "notification", notification |-> "done"]

Notify(r) ==
  /\ req[r] \in DOMAIN NextCall
  /\ Enqueue(Message(r, req[r]))
  /\ req' = [req EXCEPT ![r] = NextCall[@]]
  /\ UNCHANGED <<registry, dispatch, pc, writer, chan, send, sock, history>>

-----------------------------------------------------------------------------
ConnNext(c) ==
  \/ Register(c) \/ Unlock(c) \/ Join(c) \/ StartPumps(c) \/ ReadPumpEnds(c)
  \/ Unregister(c) \/ Leave(c) \/ CloseSend(c)
  \/ WriteOk(c) \/ WriteFails(c) \/ WriterSeesClose(c) \/ Queue(c)

RunNext == Receive \/ DeliverLock \/ DeliverUnlock

Next ==
  \/ \E c \in Conns : ConnNext(c)
  \/ RunNext
  \/ \E r \in Requests : Saved(r) \/ Notify(r)

Spec == Init /\ [][Next]_vars

(***************************************************************************)
(* Weak fairness, per goroutine: one that can continue eventually does.    *)
(* Every client and request of an instance runs once, so contention for    *)
(* the lock and for notifyCh dies out and strong fairness is not needed.   *)
(* Peers are not assumed to connect, disconnect or accept data; once the   *)
(* server has closed the socket a pending read or write does fail.         *)
(***************************************************************************)
ConnFairness(c) ==
  /\ WF_vars(Unlock(c) \/ Join(c) \/ StartPumps(c) \/ (~sock[c] /\ ReadPumpEnds(c))
               \/ Unregister(c) \/ Leave(c) \/ CloseSend(c))
  /\ WF_vars(WriteOk(c) \/ WriterSeesClose(c) \/ (~sock[c] /\ WriteFails(c)))

FairSpec ==
  /\ Spec
  /\ WF_vars(RunNext \/ \E c \in Conns : Queue(c))
  /\ \A c \in Conns : ConnFairness(c)
  /\ \A r \in Requests : WF_vars(Notify(r))

-----------------------------------------------------------------------------
(* Properties. *)

\* Every variable of the hub has its type, and no channel exceeds its capacity.
TypeOK ==
  /\ clients \in [Users -> SUBSET Conns] /\ online \in SUBSET Users
  /\ notifyCh \in Seq(Events) /\ Len(notifyCh) <= NotifyCap
  /\ run \in {"select", "locking", "delivering"}
  /\ cur \in Events \cup {NoEvent} /\ todo \in SUBSET Conns
  /\ pc \in [Conns -> PcValues]
  /\ writer \in [Conns -> {"none", "running", "ended"}]
  /\ chan \in [Conns -> {"none", "open", "closed"}]
  /\ send \in [Conns -> Seq(Events)] /\ \A c \in Conns : Len(send[c]) <= SendBuffer
  /\ sock \in [Conns -> BOOLEAN]
  /\ req \in [Requests -> {"saving", "pm", "notification", "done"}]
  /\ net \in [Users -> Int] /\ announced \in [Users -> BOOLEAN]

\* IsOnline and OnlineUsers answer from Hub.online, a second copy of what
\* Hub.clients says: a user is in it exactly when one of the user's
\* connections is registered, whatever register and unregister interleave.
OnlineIffConnected == \A u \in Users : u \in online <=> clients[u] # {}

\* deliver never sends on a channel Close has closed (a panic in Go) or that
\* is not made yet: every connection it still has to visit is open.
NoSendOnClosedChannel == \A c \in todo : chan[c] = "open"

\* An event addressed to one user sits only in buffers of that user's
\* connections; only broadcasts are found everywhere.
PrivateDelivery ==
  \A c \in Conns : \A i \in 1..Len(send[c]) : send[c][i].to \in {Nil, Owner[c]}

Announcing(u, pcs) == {c \in Conns : Owner[c] = u /\ pc[c] \in pcs}

\* Every change of a user between offline and online is announced once: the
\* announcements made, plus those that goroutines have still to make after
\* their Unlock, add up to the user's state in the registry.
PresenceBalanced ==
  \A u \in Users :
    net[u] + Cardinality(Announcing(u, {"regFirst", "join"}))
           - Cardinality(Announcing(u, {"unregLast", "leave"}))
      = IF u \in online THEN 1 ELSE 0

\* A connection whose ReadPump has returned leaves the registry and both its
\* goroutines end, even with the buffers full and other clients coming and going;
\* and when WritePump gives up first, the connection does not linger in the
\* registry with nobody draining its buffer.
TeardownCompletes ==
  \A c \in Conns : /\ pc[c] = "leaving" ~> (pc[c] = "gone" /\ writer[c] # "running")
                   /\ writer[c] = "ended" ~> pc[c] = "gone"

\* A handler that calls Notify gets out of it: the dispatcher is never stopped
\* by a slow client, a full buffer or a goroutine waiting for the lock.
NotifyReturns == \A r \in Requests : req[r] = "pm" ~> req[r] = "done"

Registered == UNION {clients[u] : u \in Users}
\* An event Run has received but not yet the lock for is still undispatched.
Undispatched == (IF run = "locking" THEN <<cur>> ELSE <<>>) \o notifyCh

P == INSTANCE Push WITH
       conns <- Registered,
       queue <- Undispatched,
       due   <- [c \in Conns |-> IF c \in todo THEN cur ELSE NoEvent],
       inbox <- send

\* The hub keeps the promise of module Push: in-order dispatch to whoever is
\* registered, each of them offered the event before it can unregister.
ImplementsPush == P!PushSpec

\* Once nobody has an announcement left to make, the last one made for a user
\* tells the truth.
PresenceSettles ==
  \A u \in Users :
    Announcing(u, {"regFirst", "join", "unregLast", "leave"}) = {}
      => announced[u] = (u \in online)
=============================================================================
