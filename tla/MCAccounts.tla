----------------------------- MODULE MCAccounts -----------------------------
(***************************************************************************)
(* Small instances of the accounts model.                                  *)
(***************************************************************************)
EXTENDS Accounts, TLC

CONSTANTS n1, n2, r1, r2, r3

C(op, u, S, st) == [op |-> op, user |-> u, roles |-> S, status |-> st]
Register(u) == C("register", u, None, None)
Setup(u)    == C("setup", u, None, None)
Update(u, S, st) == C("update", u, S, st)

\* Every kind of request, on the same name or on two.
MixedCalls ==
  {Register(n1), Setup(n1), Setup(n2), C("settings", None, None, None),
   Update(n1, {"member"}, None), Update(n1, {"moderator", "member"}, "banned"),
   Update(n2, {}, "active"), Update(n2, {"other"}, "banned"),
   Update(n1, None, "other"), Update(n2, None, "banned")}

SetupCalls == {Setup(n1), Setup(n2)}

MCSymmetry == Permutations(Requests)
=============================================================================
