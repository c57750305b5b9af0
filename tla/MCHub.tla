------------------------------- MODULE MCHub -------------------------------
(***************************************************************************)
(* Small instances of the hub: two connections of one user, one of another *)
(* user, and requests that notify the first user.                          *)
(***************************************************************************)
EXTENDS Hub, TLC

CONSTANTS u1, u2, c1, c2, c3, r1, r2

MCUsers == {u1, u2}
MCOwner == [c \in Conns |-> IF c = c3 THEN u2 ELSE u1]
\* c1 and c2 belong to the same user and are used alike.
MCSymmetry == Permutations({c1, c2})
MCRecipient == [r \in Requests |-> u1]
=============================================================================
