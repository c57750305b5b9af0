---------------------------- MODULE MCMessaging ----------------------------
(***************************************************************************)
(* Small instances of private messaging.                                   *)
(***************************************************************************)
EXTENDS Messaging, TLC

CONSTANTS u1, u2, u3, c1, c2, r1, r2, r3

\* Every device belongs to u1.
MCOwner == [c \in Conns |-> u1]

C(op, u, to, target) == [op |-> op, user |-> u, to |-> to, target |-> target]
Send(u, to) == C("send", u, to, None)

\* Other messages to and from u1, and u1 or a stranger marking and counting.
MixedCalls ==
  {Send(u3, u1), Send(u1, u2), Send(u2, u2), C("readall", u1, None, None),
   C("count", u1, None, None), C("read", u1, None, r1), C("read", u2, None, r1),
   C("readnotif", u1, None, r1), C("readnotif", u3, None, r1)}

\* r1 sends to u1, and of the others one at most sends; beside two messages, only
\* u1 marks and counts.
MixedWorkloads ==
  {f \in [Requests -> MixedCalls \cup {Send(u2, u1)}] :
     /\ f[r1] = Send(u2, u1) /\ f[r2] # Send(u2, u1) /\ f[r3] # Send(u2, u1)
     /\ \A r, q \in {r2, r3} : r # q /\ f[r].op = "send" => f[q].op # "send" /\ f[q].user = u1}

\* r1 is the message that others mark; the other requests are interchangeable.
MCSymmetry == Permutations({r2, r3})
=============================================================================
