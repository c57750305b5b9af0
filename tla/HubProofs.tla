----------------------------- MODULE HubProofs -----------------------------
(***************************************************************************)
(* Proofs about the hub for every set of users, connections and requests   *)
(* and every channel capacity.                                             *)
(***************************************************************************)
EXTENDS Hub, FiniteSetTheorems, SequenceTheorems, TLAPS

RegisteredPcs == {"regFirst", "regAgain", "join", "starting", "serving", "leaving"}

\* The registry holds exactly the connections between their register and their
\* unregister.
RegistryMatches ==
  \A u \in Users, c \in Conns :
    c \in clients[u] <=> Owner[c] = u /\ pc[c] \in RegisteredPcs

\* A send channel is open from register until after unregister.
ChannelMatches == \A c \in Conns : pc[c] \in RegisteredPcs => chan[c] = "open"

\* deliver visits registered connections, under the lock and nowhere else.
VisitsRegistered ==
  /\ run # "delivering" => todo = {}
  /\ run # "select" => cur \in Events
  /\ \A c \in todo : pc[c] \in RegisteredPcs /\ cur.to \in {Nil, Owner[c]}

IInv == /\ TypeOK /\ RegistryMatches /\ ChannelMatches /\ VisitsRegistered
        /\ OnlineIffConnected /\ PrivateDelivery

LEMMA EventTypes ==
  /\ \A u \in Users, k \in {"join", "leave"} : Presence(u, k) \in Events
  /\ \A r \in Requests, k \in {"pm", "notification"} : Message(r, k) \in Events
  BY RecipientAssumption DEF Presence, Message, Events, Kinds

\* Sending on the channel and receiving from it keep its type and its capacity.
LEMMA EnqueueTypes ==
  ASSUME TypeOK, NEW ev \in Events, Enqueue(ev)
  PROVE  notifyCh' \in Seq(Events) /\ Len(notifyCh') <= NotifyCap
  BY CapacityAssumption DEF TypeOK, Enqueue

LEMMA TailTypes ==
  ASSUME NEW S, NEW s \in Seq(S), s # <<>>
  PROVE  /\ Tail(s) \in Seq(S) /\ Len(Tail(s)) = Len(s) - 1 /\ Head(s) \in S
         /\ \A i \in 1..Len(Tail(s)) : i + 1 \in 1..Len(s) /\ Tail(s)[i] = s[i + 1]
  OBVIOUS

LEMMA InitInv == Init => IInv
<1> SUFFICES ASSUME Init PROVE IInv
  OBVIOUS
<1> USE DEF Init
<1>1. TypeOK
  BY CapacityAssumption DEF TypeOK, PcValues
<1>2. RegistryMatches /\ ChannelMatches /\ OnlineIffConnected
  BY DEF RegistryMatches, ChannelMatches, OnlineIffConnected, RegisteredPcs
<1>3. VisitsRegistered /\ PrivateDelivery
  BY DEF VisitsRegistered, PrivateDelivery
<1> QED BY <1>1, <1>2, <1>3 DEF IInv

\* The actions of a connection's own goroutine.
LEMMA HandlerStep ==
  ASSUME IInv, NEW c \in Conns,
         \/ Register(c) \/ Unlock(c) \/ Join(c) \/ StartPumps(c) \/ ReadPumpEnds(c)
         \/ Unregister(c) \/ Leave(c) \/ CloseSend(c)
  PROVE  IInv'
<1> USE OwnerAssumption DEF IInv, registry, dispatch, history
<1>1. CASE Register(c)
  <2> USE <1>1 DEF Register, LockFree
  <2>1. TypeOK'
    BY DEF TypeOK, PcValues
  <2>2. RegistryMatches' /\ ChannelMatches'
    BY DEF TypeOK, RegistryMatches, ChannelMatches, RegisteredPcs
  <2>3. OnlineIffConnected'
    BY DEF TypeOK, OnlineIffConnected
  <2>4. VisitsRegistered' /\ PrivateDelivery'
    BY DEF TypeOK, VisitsRegistered, PrivateDelivery
  <2> QED BY <2>1, <2>2, <2>3, <2>4
<1>2. CASE Unlock(c)
  <2> USE <1>2 DEF Unlock, AfterUnlock
  <2>1. TypeOK'
    BY DEF TypeOK, PcValues
  <2>2. RegistryMatches' /\ ChannelMatches'
    BY DEF TypeOK, RegistryMatches, ChannelMatches, RegisteredPcs
  <2>3. VisitsRegistered'
    BY DEF TypeOK, VisitsRegistered, RegisteredPcs
  <2>4. OnlineIffConnected' /\ PrivateDelivery'
    BY DEF OnlineIffConnected, PrivateDelivery
  <2> QED BY <2>1, <2>2, <2>3, <2>4
<1>3. ASSUME NEW kind \in {"join", "leave"}, NEW next \in {"starting", "closing"},
             kind = "join" <=> next = "starting", BroadcastPresence(c, kind, next)
      PROVE  IInv'
  <2> USE <1>3 DEF BroadcastPresence
  <2>1. Presence(Owner[c], kind) \in Events
    BY EventTypes
  <2>2. notifyCh' \in Seq(Events) /\ Len(notifyCh') <= NotifyCap
    BY <2>1, EnqueueTypes
  <2>3. TypeOK'
    BY <2>2 DEF TypeOK, PcValues
  <2>4. RegistryMatches' /\ ChannelMatches'
    BY DEF TypeOK, RegistryMatches, ChannelMatches, RegisteredPcs
  <2>5. VisitsRegistered'
    BY DEF TypeOK, VisitsRegistered, RegisteredPcs
  <2>6. OnlineIffConnected' /\ PrivateDelivery'
    BY DEF OnlineIffConnected, PrivateDelivery
  <2> QED BY <2>3, <2>4, <2>5, <2>6
<1>4. CASE Join(c) \/ Leave(c)
  BY <1>3, <1>4 DEF Join, Leave
<1>5. CASE StartPumps(c)
  <2> USE <1>5 DEF StartPumps
  <2>1. TypeOK'
    BY DEF TypeOK, PcValues
  <2>2. RegistryMatches' /\ ChannelMatches'
    BY DEF TypeOK, RegistryMatches, ChannelMatches, RegisteredPcs
  <2>3. VisitsRegistered'
    BY DEF TypeOK, VisitsRegistered, RegisteredPcs
  <2>4. OnlineIffConnected' /\ PrivateDelivery'
    BY DEF OnlineIffConnected, PrivateDelivery
  <2> QED BY <2>1, <2>2, <2>3, <2>4
<1>8. CASE ReadPumpEnds(c)
  <2> USE <1>8 DEF ReadPumpEnds
  <2>1. TypeOK'
    BY DEF TypeOK, PcValues
  <2>2. RegistryMatches' /\ ChannelMatches'
    BY DEF TypeOK, RegistryMatches, ChannelMatches, RegisteredPcs
  <2>3. VisitsRegistered'
    BY DEF TypeOK, VisitsRegistered, RegisteredPcs
  <2>4. OnlineIffConnected' /\ PrivateDelivery'
    BY DEF OnlineIffConnected, PrivateDelivery
  <2> QED BY <2>1, <2>2, <2>3, <2>4
<1>6. CASE Unregister(c)
  <2> USE <1>6 DEF Unregister, LockFree
  <2>1. TypeOK'
    BY DEF TypeOK, PcValues
  <2>2. RegistryMatches' /\ ChannelMatches'
    BY DEF TypeOK, RegistryMatches, ChannelMatches, RegisteredPcs
  <2>3. OnlineIffConnected'
    BY DEF TypeOK, OnlineIffConnected, LastConn
  <2>4. VisitsRegistered' /\ PrivateDelivery'
    BY DEF TypeOK, VisitsRegistered, PrivateDelivery
  <2> QED BY <2>1, <2>2, <2>3, <2>4
<1>7. CASE CloseSend(c)
  <2> USE <1>7 DEF CloseSend, MayClose
  <2>1. TypeOK'
    BY DEF TypeOK, PcValues
  <2>2. RegistryMatches' /\ ChannelMatches'
    BY DEF TypeOK, RegistryMatches, ChannelMatches, RegisteredPcs
  <2>3. VisitsRegistered'
    BY DEF TypeOK, VisitsRegistered, RegisteredPcs
  <2>4. OnlineIffConnected' /\ PrivateDelivery'
    BY DEF OnlineIffConnected, PrivateDelivery
  <2> QED BY <2>1, <2>2, <2>3, <2>4
<1> QED BY <1>1, <1>2, <1>4, <1>5, <1>6, <1>7, <1>8

\* The actions of WritePump only take events out of the client's buffer.
LEMMA WriterStep ==
  ASSUME IInv, NEW c \in Conns, WriteOk(c) \/ WriteFails(c) \/ WriterSeesClose(c)
  PROVE  IInv'
<1> USE DEF IInv, registry, dispatch, history
<1>1. /\ \/ send' = send
         \/ send[c] # <<>> /\ send' = [send EXCEPT ![c] = Tail(@)]
      /\ writer' \in [Conns -> {"none", "running", "ended"}]
      /\ sock' \in [Conns -> BOOLEAN]
      /\ UNCHANGED <<clients, online, notifyCh, run, cur, todo, pc, chan, req, net, announced>>
  <2>1. CASE WriteOk(c)
    BY <2>1 DEF WriteOk, TypeOK
  <2>2. CASE WriteFails(c)
    BY <2>2 DEF WriteFails, WriterReturns, TypeOK
  <2>3. CASE WriterSeesClose(c)
    BY <2>3 DEF WriterSeesClose, WriterReturns, TypeOK
  <2> QED BY <2>1, <2>2, <2>3
<1>2. ASSUME NEW d \in Conns
      PROVE  /\ send'[d] \in Seq(Events) /\ Len(send'[d]) <= SendBuffer
             /\ \A i \in 1..Len(send'[d]) : send'[d][i].to \in {Nil, Owner[d]}
  <2>0. send[d] \in Seq(Events) /\ Len(send[d]) <= SendBuffer
    BY DEF TypeOK
  <2>1. /\ send[d] \in Seq(Events) /\ Len(send[d]) \in Nat /\ Len(send[d]) <= SendBuffer
        /\ \A i \in 1..Len(send[d]) : send[d][i].to \in {Nil, Owner[d]}
    BY <2>0 DEF PrivateDelivery
  <2>2. CASE send'[d] = send[d]
    BY <2>1, <2>2
  <2>3. CASE send[d] # <<>> /\ send'[d] = Tail(send[d])
    BY <2>1, <2>3, TailTypes, CapacityAssumption
  <2> QED BY <1>1, <2>2, <2>3 DEF TypeOK
<1>3. send' = [d \in Conns |-> send'[d]]
  BY <1>1 DEF TypeOK
<1>4. TypeOK'
  BY <1>1, <1>2, <1>3 DEF TypeOK
<1>5. PrivateDelivery'
  BY <1>2 DEF PrivateDelivery
<1>6. RegistryMatches' /\ ChannelMatches' /\ OnlineIffConnected' /\ VisitsRegistered'
  BY <1>1 DEF RegistryMatches, ChannelMatches, OnlineIffConnected, VisitsRegistered
<1> QED BY <1>4, <1>5, <1>6

\* The actions of Hub.Run.
LEMMA DispatcherStep ==
  ASSUME IInv, RunNext \/ \E c \in Conns : Queue(c)
  PROVE  IInv'
<1> USE DEF IInv, registry, dispatch, history
<1>1. CASE Receive
  <2> USE <1>1 DEF Receive
  <2>1. /\ notifyCh' \in Seq(Events) /\ Len(notifyCh') <= NotifyCap
        /\ cur' \in Events
    BY TailTypes, CapacityAssumption DEF TypeOK
  <2>2. TypeOK'
    BY <2>1 DEF TypeOK
  <2>3. VisitsRegistered'
    BY <2>1 DEF VisitsRegistered
  <2>4. RegistryMatches' /\ ChannelMatches' /\ OnlineIffConnected' /\ PrivateDelivery'
    BY DEF RegistryMatches, ChannelMatches, OnlineIffConnected, PrivateDelivery
  <2> QED BY <2>2, <2>3, <2>4
<1>2. CASE DeliverLock
  <2> USE <1>2 DEF DeliverLock
  <2>1. cur \in Events /\ cur.to \in Users \cup {Nil}
    BY DEF VisitsRegistered, Events
  <2>2. \A c \in Targets(cur) : /\ c \in Conns /\ pc[c] \in RegisteredPcs
                                /\ cur.to \in {Nil, Owner[c]}
    BY <2>1 DEF Targets, RegistryMatches, TypeOK
  <2>3. TypeOK'
    BY <2>2 DEF TypeOK
  <2>4. VisitsRegistered'
    BY <2>1, <2>2 DEF VisitsRegistered
  <2>5. RegistryMatches' /\ ChannelMatches' /\ OnlineIffConnected' /\ PrivateDelivery'
    BY DEF RegistryMatches, ChannelMatches, OnlineIffConnected, PrivateDelivery
  <2> QED BY <2>3, <2>4, <2>5
<1>3. ASSUME NEW c \in Conns, Queue(c) PROVE IInv'
  <2> USE <1>3 DEF Queue
  <2>1. cur \in Events /\ cur.to \in {Nil, Owner[c]}
    BY DEF VisitsRegistered
  <2>2. /\ send' \in [Conns -> Seq(Events)]
        /\ \A d \in Conns : Len(send'[d]) <= SendBuffer
    BY <2>1, CapacityAssumption DEF TypeOK
  <2>3. TypeOK'
    BY <2>2 DEF TypeOK
  <2>4. PrivateDelivery'
    BY <2>1 DEF TypeOK, PrivateDelivery
  <2>5. RegistryMatches' /\ ChannelMatches' /\ OnlineIffConnected' /\ VisitsRegistered'
    BY DEF RegistryMatches, ChannelMatches, OnlineIffConnected, VisitsRegistered
  <2> QED BY <2>3, <2>4, <2>5
<1>4. CASE DeliverUnlock
  BY <1>4 DEF DeliverUnlock, TypeOK, RegistryMatches, ChannelMatches,
              OnlineIffConnected, PrivateDelivery, VisitsRegistered
<1> QED BY <1>1, <1>2, <1>3, <1>4 DEF RunNext

\* The actions of the HTTP handlers.
LEMMA RequestStep ==
  ASSUME IInv, NEW r \in Requests, Saved(r) \/ Notify(r)
  PROVE  IInv'
<1> USE DEF IInv, registry, dispatch, history
<1>1. CASE Saved(r)
  BY <1>1 DEF Saved, TypeOK, RegistryMatches, ChannelMatches,
              OnlineIffConnected, PrivateDelivery, VisitsRegistered
<1>2. CASE Notify(r)
  <2> USE <1>2 DEF Notify, NextCall
  <2>1. notifyCh' \in Seq(Events) /\ Len(notifyCh') <= NotifyCap
    BY EventTypes, EnqueueTypes
  <2>2. TypeOK'
    BY <2>1 DEF TypeOK
  <2>3. /\ RegistryMatches' /\ ChannelMatches' /\ OnlineIffConnected'
        /\ VisitsRegistered' /\ PrivateDelivery'
    BY DEF RegistryMatches, ChannelMatches, OnlineIffConnected, VisitsRegistered,
           PrivateDelivery
  <2> QED BY <2>2, <2>3
<1> QED BY <1>1, <1>2

LEMMA NextInv == IInv /\ [Next]_vars => IInv'
<1> SUFFICES ASSUME IInv, [Next]_vars PROVE IInv'
  OBVIOUS
<1>1. CASE Next
  BY <1>1, HandlerStep, WriterStep, DispatcherStep, RequestStep DEF Next, ConnNext
<1>2. CASE UNCHANGED vars
  BY <1>2 DEF vars, registry, dispatch, history, IInv, TypeOK, RegistryMatches,
              ChannelMatches, VisitsRegistered, OnlineIffConnected, PrivateDelivery
<1> QED BY <1>1, <1>2

LEMMA Inductive == Spec => []IInv
  BY InitInv, NextInv, PTL DEF Spec

\* The variables keep their types and no channel exceeds its capacity.
THEOREM HubTypeCorrect == Spec => []TypeOK
<1>1. IInv => TypeOK
  BY DEF IInv
<1> QED BY <1>1, Inductive, PTL

\* Hub.online never disagrees with Hub.clients.
THEOREM OnlineCorrect == Spec => []OnlineIffConnected
<1>1. IInv => OnlineIffConnected
  BY DEF IInv
<1> QED BY <1>1, Inductive, PTL

\* deliver never meets a closed channel.
THEOREM NeverSendsOnClosed == Spec => []NoSendOnClosedChannel
<1>1. IInv => NoSendOnClosedChannel
  BY DEF IInv, TypeOK, VisitsRegistered, ChannelMatches, NoSendOnClosedChannel
<1> QED BY <1>1, Inductive, PTL

\* Events for one user reach only that user's connections.
THEOREM DeliveryIsPrivate == Spec => []PrivateDelivery
<1>1. IInv => PrivateDelivery
  BY DEF IInv
<1> QED BY <1>1, Inductive, PTL

-----------------------------------------------------------------------------
(* Announcements. *)

\* The connections with a join, or a leave, still to announce.
Joining(u) == Announcing(u, {"regFirst", "join"})
Parting(u) == Announcing(u, {"unregLast", "leave"})

Begun == {c \in Conns : pc[c] # "new"}
Balanced(u) == net[u] + Cardinality(Joining(u)) - Cardinality(Parting(u)) = IF u \in online THEN 1 ELSE 0
BInv == IsFiniteSet(Begun) /\ \A u \in Users : Balanced(u)

LEMMA AnnouncingFinite ==
  ASSUME IsFiniteSet(Begun), NEW u
  PROVE  /\ IsFiniteSet(Joining(u)) /\ Cardinality(Joining(u)) \in Nat
         /\ IsFiniteSet(Parting(u)) /\ Cardinality(Parting(u)) \in Nat
<1>1. Joining(u) \subseteq Begun /\ Parting(u) \subseteq Begun
  BY DEF Joining, Parting, Announcing, Begun
<1> QED BY <1>1, FS_Subset, FS_CardinalityType

\* A set and what it becomes when one element enters or leaves it.
LEMMA OneMoves ==
  ASSUME NEW c, NEW A, NEW B, IsFiniteSet(A), A \ {c} = B \ {c}
  PROVE  /\ c \notin A /\ c \in B => Cardinality(B) = Cardinality(A) + 1
         /\ c \in A /\ c \notin B => Cardinality(B) = Cardinality(A) - 1
         /\ (c \in A <=> c \in B) => Cardinality(B) = Cardinality(A)
<1>1. ASSUME c \notin A, c \in B PROVE Cardinality(B) = Cardinality(A) + 1
  <2>1. B = A \cup {c}
    BY <1>1
  <2> QED BY <1>1, <2>1, FS_AddElement
<1>2. ASSUME c \in A, c \notin B PROVE Cardinality(B) = Cardinality(A) - 1
  <2>1. B = A \ {c}
    BY <1>2
  <2> QED BY <1>2, <2>1, FS_RemoveElement
<1>3. ASSUME c \in A <=> c \in B PROVE Cardinality(B) = Cardinality(A)
  <2>1. A = B
    BY <1>3
  <2> QED BY <2>1
<1> QED BY <1>1, <1>2, <1>3

LEMMA JoiningCounted ==
  ASSUME IsFiniteSet(Begun), NEW c \in Conns, \A d \in Conns \ {c} : pc'[d] = pc[d],
         NEW o, Owner[c] = o, NEW J, J = {"regFirst", "join"}
  PROVE  /\ pc[c] \notin J /\ pc'[c] \in J => Cardinality(Joining(o)') = Cardinality(Joining(o)) + 1
         /\ pc[c] \in J /\ pc'[c] \notin J => Cardinality(Joining(o)') = Cardinality(Joining(o)) - 1
         /\ (pc[c] \in J <=> pc'[c] \in J) => Cardinality(Joining(o)') = Cardinality(Joining(o))
<1>1. PICK A, B : A = Joining(o) /\ B = Joining(o)'
  OBVIOUS
<1>2. A \ {c} = B \ {c} /\ (c \in A <=> pc[c] \in J) /\ (c \in B <=> pc'[c] \in J)
  BY <1>1 DEF Joining, Announcing
<1>3. IsFiniteSet(A)
  BY <1>1, AnnouncingFinite
<1>4. /\ c \notin A /\ c \in B => Cardinality(B) = Cardinality(A) + 1
      /\ c \in A /\ c \notin B => Cardinality(B) = Cardinality(A) - 1
      /\ (c \in A <=> c \in B) => Cardinality(B) = Cardinality(A)
  BY <1>2, <1>3, OneMoves
<1>5. Cardinality(A) = Cardinality(Joining(o)) /\ Cardinality(B) = Cardinality(Joining(o)')
  BY <1>1
<1> QED BY <1>2, <1>4, <1>5

LEMMA PartingCounted ==
  ASSUME IsFiniteSet(Begun), NEW c \in Conns, \A d \in Conns \ {c} : pc'[d] = pc[d],
         NEW o, Owner[c] = o, NEW L, L = {"unregLast", "leave"}
  PROVE  /\ pc[c] \notin L /\ pc'[c] \in L => Cardinality(Parting(o)') = Cardinality(Parting(o)) + 1
         /\ pc[c] \in L /\ pc'[c] \notin L => Cardinality(Parting(o)') = Cardinality(Parting(o)) - 1
         /\ (pc[c] \in L <=> pc'[c] \in L) => Cardinality(Parting(o)') = Cardinality(Parting(o))
<1>1. PICK A, B : A = Parting(o) /\ B = Parting(o)'
  OBVIOUS
<1>2. A \ {c} = B \ {c} /\ (c \in A <=> pc[c] \in L) /\ (c \in B <=> pc'[c] \in L)
  BY <1>1 DEF Parting, Announcing
<1>3. IsFiniteSet(A)
  BY <1>1, AnnouncingFinite
<1>4. /\ c \notin A /\ c \in B => Cardinality(B) = Cardinality(A) + 1
      /\ c \in A /\ c \notin B => Cardinality(B) = Cardinality(A) - 1
      /\ (c \in A <=> c \in B) => Cardinality(B) = Cardinality(A)
  BY <1>2, <1>3, OneMoves
<1>5. Cardinality(A) = Cardinality(Parting(o)) /\ Cardinality(B) = Cardinality(Parting(o)')
  BY <1>1
<1> QED BY <1>2, <1>4, <1>5

LEMMA Elsewhere ==
  ASSUME NEW c \in Conns, \A d \in Conns \ {c} : pc'[d] = pc[d], NEW u, Owner[c] # u
  PROVE  Joining(u)' = Joining(u) /\ Parting(u)' = Parting(u)
  BY DEF Joining, Parting, Announcing

\* The steps of a connection, as far as announcements go.
LEMMA BalanceStep ==
  ASSUME IInv, BInv, NEW c \in Conns, ConnNext(c)
  PROVE  BInv'
<1> USE OwnerAssumption DEF IInv, TypeOK, registry, dispatch, history
<1>0. PICK o \in Users : o = Owner[c]
  OBVIOUS
<1>1. /\ \A d \in Conns \ {c} : pc'[d] = pc[d]
      /\ \A u \in Users \ {o} : net'[u] = net[u] /\ (u \in online' <=> u \in online)
  BY <1>0 DEF ConnNext, Register, Unlock, Join, Leave, BroadcastPresence, StartPumps, ReadPumpEnds, Unregister,
              CloseSend, WriteOk, WriteFails, WriterSeesClose, Queue
<1>2. IsFiniteSet(Begun)'
  <2>1. Begun' \subseteq Begun \cup {c}
    BY <1>1 DEF Begun
  <2> QED BY <2>1, FS_AddElement, FS_Subset DEF BInv
<1>3. ASSUME NEW u \in Users \ {o} PROVE Balanced(u)'
  <2>1. Joining(u)' = Joining(u) /\ Parting(u)' = Parting(u)
    BY <1>0, <1>1, <1>3, Elsewhere
  <2> QED BY <1>1, <1>3, <2>1 DEF BInv, Balanced
<1>4. Balanced(o)'
  <2>1. /\ IsFiniteSet(Joining(o)) /\ Cardinality(Joining(o)) \in Nat
        /\ IsFiniteSet(Parting(o)) /\ Cardinality(Parting(o)) \in Nat
    BY AnnouncingFinite DEF BInv
  <2>s. PICK J, L : J = {"regFirst", "join"} /\ L = {"unregLast", "leave"}
    OBVIOUS
  <2>2. /\ pc[c] \notin J /\ pc'[c] \in J => Cardinality(Joining(o)') = Cardinality(Joining(o)) + 1
        /\ pc[c] \in J /\ pc'[c] \notin J => Cardinality(Joining(o)') = Cardinality(Joining(o)) - 1
        /\ (pc[c] \in J <=> pc'[c] \in J) => Cardinality(Joining(o)') = Cardinality(Joining(o))
    BY <1>0, <1>1, <2>s, JoiningCounted DEF BInv
  <2>3. /\ pc[c] \notin L /\ pc'[c] \in L => Cardinality(Parting(o)') = Cardinality(Parting(o)) + 1
        /\ pc[c] \in L /\ pc'[c] \notin L => Cardinality(Parting(o)') = Cardinality(Parting(o)) - 1
        /\ (pc[c] \in L <=> pc'[c] \in L) => Cardinality(Parting(o)') = Cardinality(Parting(o))
    BY <1>0, <1>1, <2>s, PartingCounted DEF BInv
  <2>4. net[o] \in Int /\ net[o] + Cardinality(Joining(o)) - Cardinality(Parting(o)) = IF o \in online THEN 1 ELSE 0
    BY DEF BInv, Balanced
  \* the change of the three counts and of the registry
  <2>5. CASE Register(c) /\ o \notin online
    <3>1. pc[c] = "new" /\ pc'[c] = "regFirst" /\ o \in online' /\ net' = net
      BY <1>0, <2>5 DEF Register, Already
    <3> QED BY <2>1, <2>s, <2>2, <2>3, <2>4, <2>5, <3>1 DEF Balanced
  <2>6. CASE Join(c)
    <3>1. pc[c] = "join" /\ pc'[c] = "starting" /\ online' = online /\ net'[o] = net[o] + 1
      BY <1>0, <2>6 DEF Join, BroadcastPresence
    <3> QED BY <2>1, <2>s, <2>2, <2>3, <2>4, <3>1 DEF Balanced
  <2>7. CASE Leave(c)
    <3>1. pc[c] = "leave" /\ pc'[c] = "closing" /\ online' = online /\ net'[o] = net[o] - 1
      BY <1>0, <2>7 DEF Leave, BroadcastPresence
    <3> QED BY <2>1, <2>s, <2>2, <2>3, <2>4, <3>1 DEF Balanced
  <2>8. CASE Unregister(c) /\ o \in online /\ LastConn(c)
    <3>1. pc[c] = "leaving" /\ pc'[c] = "unregLast" /\ o \notin online' /\ net' = net
      BY <1>0, <2>8 DEF Unregister
    <3> QED BY <2>1, <2>s, <2>2, <2>3, <2>4, <2>8, <3>1 DEF Balanced
  <2>9. CASE \/ Register(c) /\ o \in online
             \/ Unregister(c) /\ ~(o \in online /\ LastConn(c))
             \/ Unlock(c) \/ StartPumps(c) \/ ReadPumpEnds(c) \/ CloseSend(c)
             \/ WriteOk(c) \/ WriteFails(c) \/ WriterSeesClose(c) \/ Queue(c)
    <3>1. /\ (pc[c] \in J <=> pc'[c] \in J) /\ (pc[c] \in L <=> pc'[c] \in L)
          /\ net' = net /\ (o \in online' <=> o \in online)
      BY <1>0, <2>s, <2>9 DEF Register, Already, Unregister, Unlock, AfterUnlock, StartPumps, ReadPumpEnds, CloseSend,
                        MayClose, WriteOk, WriteFails, WriterSeesClose, Queue
    <3> QED BY <2>s, <2>2, <2>3, <2>4, <3>1 DEF Balanced
  <2> QED BY <2>5, <2>6, <2>7, <2>8, <2>9 DEF ConnNext
<1> QED BY <1>1, <1>2, <1>3, <1>4 DEF BInv

\* Every change between offline and online is announced once, for any number of
\* connections a user opens and closes.
THEOREM AnnouncementsBalanced == Spec => []PresenceBalanced
<1>1. Init => BInv
  <2> SUFFICES ASSUME Init PROVE BInv
    OBVIOUS
  <2>1. Begun = {} /\ \A u \in Users : Joining(u) = {} /\ Parting(u) = {}
    BY DEF Init, Begun, Joining, Parting, Announcing
  <2>2. \A u \in Users : net[u] = 0 /\ u \notin online
    BY DEF Init
  <2>3. IsFiniteSet({}) /\ Cardinality({}) = 0
    BY FS_EmptySet
  <2>4. \A u \in Users : Balanced(u)
    BY <2>1, <2>2, <2>3 DEF Balanced
  <2> QED BY <2>1, <2>3, <2>4 DEF BInv
<1>2. IInv /\ BInv /\ [Next]_vars => BInv'
  <2>1. ASSUME IInv, BInv, NEW c \in Conns, ConnNext(c) PROVE BInv'
    BY <2>1, BalanceStep
  <2>2. ASSUME BInv, UNCHANGED <<pc, net, online>> PROVE BInv'
    <3>1. Begun' = Begun /\ \A u \in Users : Joining(u)' = Joining(u) /\ Parting(u)' = Parting(u)
      BY <2>2 DEF Begun, Joining, Parting, Announcing
    <3> QED BY <2>2, <3>1 DEF BInv, Balanced
  <2>3. RunNext \/ (\E r \in Requests : Saved(r) \/ Notify(r)) \/ UNCHANGED vars => UNCHANGED <<pc, net, online>>
    BY DEF RunNext, Receive, DeliverLock, DeliverUnlock, Saved, Notify, vars, registry, history
  <2> QED BY <2>1, <2>2, <2>3 DEF Next
<1>3. BInv => PresenceBalanced
  BY DEF BInv, Balanced, Joining, Parting, PresenceBalanced
<1> QED BY <1>1, <1>2, <1>3, Inductive, PTL DEF Spec

-----------------------------------------------------------------------------
(* The hub implements Push. *)

\* An event in front of a sequence.
LEMMA InFront ==
  ASSUME NEW S, NEW e \in S, NEW s \in Seq(S)
  PROVE  /\ <<e>> \o s # <<>> /\ Head(<<e>> \o s) = e /\ Tail(<<e>> \o s) = s
         /\ \A x \in S : <<e>> \o Append(s, x) = Append(<<e>> \o s, x)
<1>1. <<e>> \in Seq(S) /\ Len(<<e>>) = 1 /\ <<e>>[1] = e
  OBVIOUS
<1>2. PICK t : t = <<e>> \o s
  OBVIOUS
<1>3. /\ t \in Seq(S) /\ Len(t) = Len(s) + 1 /\ t[1] = e
      /\ \A i \in 1..Len(t) : t[i] = IF i <= 1 THEN <<e>>[i] ELSE s[i - 1]
  BY <1>1, <1>2, ConcatProperties
<1>4. t # <<>> /\ Head(t) = e
  BY <1>3
<1>5. Tail(t) = s
  <2>1. Tail(t) \in Seq(S) /\ Len(Tail(t)) = Len(s) /\ \A i \in 1..Len(s) : Tail(t)[i] = s[i]
    BY <1>3, <1>4, HeadTailProperties
  <2> QED BY <2>1, SeqEqual
<1>6. ASSUME NEW x \in S PROVE <<e>> \o Append(s, x) = Append(<<e>> \o s, x)
  <2>1. Append(t, x) = t \o <<x>> /\ Append(s, x) = s \o <<x>> /\ <<x>> \in Seq(S)
    BY <1>3, AppendIsConcat
  <2> QED BY <1>1, <1>2, <2>1, ConcatAssociative
<1> QED BY <1>2, <1>4, <1>5, <1>6

LEMMA Rejoined ==
  ASSUME NEW S, NEW s \in Seq(S), s # <<>>
  PROVE  <<Head(s)>> \o Tail(s) = s
<1>1. Len(s) \in Nat \ {0} /\ Head(s) = s[1] /\ Tail(s) = SubSeq(s, 2, Len(s))
  BY TailIsSubSeq
<1>2. SubSeq(s, 1, Len(s)) = <<s[1]>> \o SubSeq(s, 1 + 1, Len(s))
  BY <1>1, SubSeqRecursiveFirst
<1> QED BY <1>1, <1>2, SubSeqFull

Due == [c \in Conns |-> IF c \in todo THEN cur ELSE NoEvent]
Pushed == <<Registered, Undispatched, Due, send>>

\* The registered connections by their control points, the undispatched events
\* without the empty sequence.
Mapped == /\ Registered = {c \in Conns : pc[c] \in RegisteredPcs}
          /\ Undispatched = IF run = "locking" THEN <<cur>> \o notifyCh ELSE notifyCh

LEMMA MappedIs == IInv => Mapped
<1> SUFFICES ASSUME IInv PROVE Mapped
  OBVIOUS
<1>1. Registered = {c \in Conns : pc[c] \in RegisteredPcs}
  BY OwnerAssumption DEF IInv, TypeOK, RegistryMatches, Registered
<1>2. <<>> \o notifyCh = notifyCh
  BY ConcatEmptySeq DEF IInv, TypeOK
<1> QED BY <1>1, <1>2 DEF Mapped, Undispatched

\* An event put on notifyCh is published behind the undispatched ones.
LEMMA PublishRefines ==
  ASSUME IInv, IInv', Mapped, Mapped', NEW ev \in Events, Enqueue(ev),
         UNCHANGED <<dispatch, send>>, Registered' = Registered
  PROVE  P!PushNext
<1>1. Due' = Due
  BY DEF Due, dispatch
<1>2. Undispatched' = Append(Undispatched, ev)
  <2>1. CASE run = "locking"
    <3>1. cur \in Events /\ notifyCh \in Seq(Events) /\ notifyCh' = Append(notifyCh, ev)
      BY <2>1 DEF IInv, TypeOK, VisitsRegistered, Enqueue
    <3>2. <<cur>> \o Append(notifyCh, ev) = Append(<<cur>> \o notifyCh, ev)
      BY <3>1, InFront
    <3>3. Undispatched = <<cur>> \o notifyCh /\ Undispatched' = <<cur>> \o notifyCh'
      BY <2>1 DEF Mapped, dispatch
    <3> QED BY <3>1, <3>2, <3>3
  <2>2. CASE run # "locking"
    BY <2>2 DEF Mapped, dispatch, Enqueue
  <2> QED BY <2>1, <2>2
<1>3. P!Publish(ev)
  BY <1>1, <1>2 DEF P!Publish, Due
<1> QED BY <1>3 DEF P!PushNext

\* Registering connects and unregistering disconnects; nobody can unregister
\* while deliver holds the lock.
LEMMA RegistryRefines ==
  ASSUME IInv, IInv', Mapped, Mapped', NEW c \in Conns, Register(c) \/ Unregister(c)
  PROVE  P!PushNext
<1>u. UNCHANGED <<notifyCh, dispatch, send>> /\ run # "delivering"
  BY DEF Register, Unregister, LockFree
<1>v. Undispatched' = Undispatched /\ Due' = Due /\ todo = {}
  BY <1>u DEF dispatch, Mapped, Due, IInv, VisitsRegistered
<1>w. \A d \in Conns \ {c} : pc'[d] = pc[d]
  BY DEF Register, Unregister, IInv, TypeOK
<1>1. /\ Undispatched' = Undispatched /\ Due' = Due /\ send' = send /\ todo = {}
      /\ \A d \in Conns \ {c} : pc'[d] = pc[d]
  BY <1>u, <1>v, <1>w
<1>2. CASE Register(c)
  <2>1. pc[c] = "new" /\ pc'[c] \in {"regAgain", "regFirst"}
    BY <1>2 DEF Register, IInv, TypeOK
  <2>2. c \notin Registered /\ Registered' = Registered \cup {c}
    BY <1>1, <2>1 DEF Mapped, RegisteredPcs
  <2>3. P!Connect(c)
    BY <1>1, <2>2 DEF P!Connect, Due
  <2> QED BY <2>3 DEF P!PushNext
<1>3. CASE Unregister(c)
  <2>1. pc[c] = "leaving" /\ pc'[c] \in {"unregLast", "unregMore"}
    BY <1>3 DEF Unregister, IInv, TypeOK
  <2>2. c \in Registered /\ Registered' = Registered \ {c}
    BY <1>1, <2>1 DEF Mapped, RegisteredPcs
  <2>3. Due[c] = NoEvent
    BY <1>1 DEF Due
  <2>4. P!Disconnect(c)
    BY <1>1, <2>2, <2>3 DEF P!Disconnect, Due
  <2> QED BY <2>4 DEF P!PushNext
<1> QED BY <1>2, <1>3

\* The announcements are published; the connection's other steps are invisible.
LEMMA GoroutineRefines ==
  ASSUME IInv, IInv', Mapped, Mapped', NEW c \in Conns,
         \/ Unlock(c) \/ Join(c) \/ StartPumps(c) \/ ReadPumpEnds(c)
         \/ Leave(c) \/ CloseSend(c) \/ WriterSeesClose(c)
  PROVE  P!PushNext \/ UNCHANGED Pushed
<1>1. Registered' = Registered /\ UNCHANGED <<dispatch, send>>
  BY DEF Unlock, AfterUnlock, Join, Leave, BroadcastPresence, StartPumps, ReadPumpEnds, CloseSend, MayClose,
         WriterSeesClose, Mapped, RegisteredPcs, IInv, TypeOK
<1>2. CASE Join(c) \/ Leave(c)
  <2>1. PICK ev \in Events : Enqueue(ev)
    BY <1>2, OwnerAssumption, EventTypes DEF Join, Leave, BroadcastPresence
  <2> QED BY <1>1, <2>1, PublishRefines
<1>3. CASE Unlock(c) \/ StartPumps(c) \/ ReadPumpEnds(c) \/ CloseSend(c) \/ WriterSeesClose(c)
  <2>1. notifyCh' = notifyCh
    BY <1>3 DEF Unlock, StartPumps, ReadPumpEnds, CloseSend, WriterSeesClose
  <2> QED BY <1>1, <2>1 DEF Mapped, Pushed, Due, dispatch
<1> QED BY <1>2, <1>3

\* WritePump takes the oldest event from the buffer, also when writing it fails; a
\* failed ping takes none.
LEMMA WriteRefines ==
  ASSUME IInv, Mapped, Mapped', NEW c \in Conns, WriteOk(c) \/ WriteFails(c)
  PROVE  P!PushNext \/ UNCHANGED Pushed
<1>1. Registered' = Registered /\ Undispatched' = Undispatched /\ Due' = Due
  BY DEF WriteOk, WriteFails, Mapped, Due, dispatch
<1>2. CASE send' = send
  BY <1>1, <1>2 DEF Pushed
<1>3. CASE send[c] # <<>> /\ send' = [send EXCEPT ![c] = Tail(@)]
  <2>1. P!Write(c)
    BY <1>1, <1>3 DEF P!Write, Due
  <2> QED BY <2>1 DEF P!PushNext
<1>4. send' = send \/ (send[c] # <<>> /\ send' = [send EXCEPT ![c] = Tail(@)])
  BY DEF WriteOk, WriteFails
<1> QED BY <1>2, <1>3, <1>4

\* deliver offers the event: the connection takes it, or loses it when its buffer
\* is full.
LEMMA QueueRefines ==
  ASSUME IInv, Mapped, Mapped', NEW c \in Conns, Queue(c)
  PROVE  P!PushNext
<1>1. /\ run = "delivering" /\ c \in todo /\ todo' = todo \ {c} /\ cur \in Events
      /\ UNCHANGED <<run, cur, notifyCh, pc>>
  BY DEF Queue, IInv, VisitsRegistered
<1>2. Registered' = Registered /\ Undispatched' = Undispatched
  BY <1>1 DEF Mapped
<1>3. Due[c] # NoEvent /\ Due[c] = cur /\ Due' = [Due EXCEPT ![c] = NoEvent]
  BY <1>1, NoEventAssumption DEF Due
<1>4. CASE Len(send[c]) < SendBuffer
  <2>1. send' = [send EXCEPT ![c] = Append(@, Due[c])]
    BY <1>3, <1>4 DEF Queue, IInv, TypeOK
  <2>2. P!Take(c)
    BY <1>2, <1>3, <2>1 DEF P!Take, Due
  <2> QED BY <2>2 DEF P!PushNext
<1>5. CASE ~(Len(send[c]) < SendBuffer)
  <2>1. send' = send
    <3>1. send' = [send EXCEPT ![c] = send[c]]
      BY <1>5 DEF Queue, IInv, TypeOK
    <3> QED BY <3>1 DEF IInv, TypeOK
  <2>2. P!Drop(c)
    BY <1>2, <1>3, <2>1 DEF P!Drop, Due
  <2> QED BY <2>2 DEF P!PushNext
<1> QED BY <1>4, <1>5

\* An event is dispatched when deliver has the lock: until then Run only holds it
\* in front of the others.
LEMMA RunRefines ==
  ASSUME IInv, IInv', Mapped, Mapped', RunNext
  PROVE  P!PushNext \/ UNCHANGED Pushed
<1>1. Registered' = Registered /\ send' = send
  BY DEF RunNext, Receive, DeliverLock, DeliverUnlock, Mapped
<1>2. CASE Receive
  <2>1. /\ notifyCh \in Seq(Events) /\ notifyCh # <<>> /\ run = "select" /\ run' = "locking"
        /\ cur' = Head(notifyCh) /\ notifyCh' = Tail(notifyCh) /\ todo = {} /\ todo' = {}
    BY <1>2 DEF Receive, IInv, TypeOK, VisitsRegistered
  <2>2. Undispatched = notifyCh /\ Undispatched' = <<cur'>> \o notifyCh'
    BY <2>1 DEF Mapped
  <2>3. Undispatched' = Undispatched
    BY <2>1, <2>2, Rejoined
  <2>4. Due' = Due
    BY <2>1 DEF Due
  <2> QED BY <1>1, <2>3, <2>4 DEF Pushed
<1>3. CASE DeliverLock
  <2>1. /\ run = "locking" /\ run' = "delivering" /\ todo = {} /\ todo' = Targets(cur)
        /\ cur \in Events /\ notifyCh \in Seq(Events) /\ UNCHANGED <<cur, notifyCh, clients>>
    BY <1>3 DEF DeliverLock, IInv, TypeOK, VisitsRegistered, registry
  <2>2. Undispatched = <<cur>> \o notifyCh /\ Undispatched' = notifyCh
    BY <2>1 DEF Mapped
  <2>3. Undispatched # <<>> /\ Head(Undispatched) = cur /\ Undispatched' = Tail(Undispatched)
    BY <2>1, <2>2, InFront
  <2>4. \A c \in Conns : Due[c] = NoEvent
    BY <2>1 DEF Due
  <2>5. \A c \in Conns : c \in todo' <=> c \in Registered /\ P!Addressed(c, cur)
    <3>1. \A c \in Conns : Owner[c] \in Users /\ Owner[c] # Nil /\ cur.to \in Users \cup {Nil}
      BY <2>1, OwnerAssumption, NilAssumption DEF Events
    <3>2. \A c \in Conns, u \in Users : c \in clients[u] <=> Owner[c] = u /\ c \in Registered
      BY DEF Mapped, IInv, RegistryMatches
    <3> QED BY <2>1, <3>1, <3>2 DEF Targets, P!Addressed
  <2>6. Due' = [c \in Conns |-> IF c \in Registered /\ P!Addressed(c, Head(Undispatched))
                                  THEN Head(Undispatched) ELSE NoEvent]
    BY <2>1, <2>3, <2>5 DEF Due
  <2>7. P!Dispatch
    BY <1>1, <2>3, <2>4, <2>6 DEF P!Dispatch, Due
  <2> QED BY <2>7 DEF P!PushNext
<1>4. CASE DeliverUnlock
  <2>1. Due' = Due /\ Undispatched' = Undispatched
    BY <1>4 DEF DeliverUnlock, Due, Mapped
  <2> QED BY <1>1, <2>1 DEF Pushed
<1> QED BY <1>2, <1>3, <1>4 DEF RunNext

\* What a request notifies is published.
LEMMA RequestRefines ==
  ASSUME IInv, IInv', Mapped, Mapped', NEW r \in Requests, Saved(r) \/ Notify(r)
  PROVE  P!PushNext \/ UNCHANGED Pushed
<1>1. Registered' = Registered /\ UNCHANGED <<dispatch, send>>
  BY DEF Saved, Notify, Mapped
<1>2. CASE Notify(r)
  <2>1. PICK ev \in Events : Enqueue(ev)
    BY <1>2, EventTypes DEF Notify, NextCall
  <2> QED BY <1>1, <2>1, PublishRefines
<1>3. CASE Saved(r)
  BY <1>1, <1>3 DEF Saved, Mapped, Pushed, Due, dispatch
<1> QED BY <1>2, <1>3

\* In-order dispatch to whoever is registered, each of them offered the event once
\* and before it can unregister, for every number of users, connections and
\* requests and every capacity of the channels.
THEOREM PushImplemented == Spec => ImplementsPush
<1>1. Init => P!PushInit
  BY ConcatEmptySeq DEF Init, P!PushInit, Registered, Undispatched
<1>2. ASSUME IInv, IInv', Mapped, Mapped', [Next]_vars
      PROVE  [P!PushNext]_Pushed
  <2>1. CASE UNCHANGED vars
    BY <2>1 DEF vars, registry, dispatch, Pushed, Registered, Undispatched, Due
  <2>2. CASE Next
    BY <1>2, <2>2, RegistryRefines, GoroutineRefines, WriteRefines, QueueRefines, RunRefines, RequestRefines
       DEF Next, ConnNext
  <2> QED BY <1>2, <2>1, <2>2
<1>3. ASSUME [P!PushNext]_Pushed
      PROVE  [P!PushNext]_<<Registered, Undispatched,
                            [c \in Conns |-> IF c \in todo THEN cur ELSE NoEvent], send>>
  BY <1>3 DEF Pushed, Due
<1> QED BY <1>1, <1>2, <1>3, MappedIs, Inductive, PTL
        DEF Spec, ImplementsPush, P!PushSpec, P!pushVars
=============================================================================
