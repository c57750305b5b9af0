-------------------------------- MODULE Push --------------------------------
(***************************************************************************)
(* What the realtime hub promises to the code that calls Hub.Notify and    *)
(* Hub.Broadcast, without its lock, its goroutines and its capacities.     *)
(*                                                                         *)
(* Events are dispatched one at a time in the order they were published,   *)
(* each to the connections of its addressee that are registered at that    *)
(* moment.  Every one of them is offered the event once, before it can     *)
(* unregister and before the next event is dispatched, and takes it into   *)
(* its buffer or, when that is full, loses it.                             *)
(***************************************************************************)
EXTENDS Sequences

CONSTANTS Conns, Owner, Nil, NoEvent, Events

VARIABLES
  conns,   \* the registered connections
  queue,   \* events published and not dispatched yet
  due,     \* the event a connection has still to be offered, or NoEvent
  inbox    \* the events waiting to be written to a connection

pushVars == <<conns, queue, due, inbox>>

Addressed(c, ev) == ev.to \in {Nil, Owner[c]}

PushInit ==
  /\ conns = {} /\ queue = <<>>
  /\ due = [c \in Conns |-> NoEvent] /\ inbox = [c \in Conns |-> <<>>]

Connect(c) ==
  /\ c \notin conns
  /\ conns' = conns \cup {c}
  /\ UNCHANGED <<queue, due, inbox>>

Disconnect(c) ==
  /\ c \in conns /\ due[c] = NoEvent
  /\ conns' = conns \ {c}
  /\ UNCHANGED <<queue, due, inbox>>

Publish(ev) ==
  /\ queue' = Append(queue, ev)
  /\ UNCHANGED <<conns, due, inbox>>

Dispatch ==
  /\ queue # <<>> /\ \A c \in Conns : due[c] = NoEvent
  /\ queue' = Tail(queue)
  /\ due' = [c \in Conns |-> IF c \in conns /\ Addressed(c, Head(queue))
                               THEN Head(queue) ELSE NoEvent]
  /\ UNCHANGED <<conns, inbox>>

\* The connection takes the event.
Take(c) ==
  /\ due[c] # NoEvent
  /\ due' = [due EXCEPT ![c] = NoEvent]
  /\ inbox' = [inbox EXCEPT ![c] = Append(@, due[c])]
  /\ UNCHANGED <<conns, queue>>

\* The connection's buffer is full: the event is lost to it.
Drop(c) ==
  /\ due[c] # NoEvent
  /\ due' = [due EXCEPT ![c] = NoEvent]
  /\ UNCHANGED <<conns, queue, inbox>>

\* The oldest event leaves the buffer for the peer.
Write(c) ==
  /\ inbox[c] # <<>>
  /\ inbox' = [inbox EXCEPT ![c] = Tail(@)]
  /\ UNCHANGED <<conns, queue, due>>

PushNext ==
  \/ \E c \in Conns : Connect(c) \/ Disconnect(c) \/ Take(c) \/ Drop(c) \/ Write(c)
  \/ \E ev \in Events : Publish(ev)
  \/ Dispatch

PushSpec == PushInit /\ [][PushNext]_pushVars
=============================================================================
