------------------------------ MODULE MCAccess ------------------------------
(***************************************************************************)
(* A small instance of access tokens: two administrators, one of whom      *)
(* changes the other while the other acts.                                 *)
(***************************************************************************)
EXTENDS Access

CONSTANTS boss, adm, r1, r2, r3

MCFirstRoles == [u \in Users |-> {"admin"}]

\* One of them is logged in already.
MCFirstTokens == {[user |-> boss, roles |-> {"admin"}, exp |-> AccessTTL]}

Login(u) == [op |-> "login", user |-> u, need |-> None, target |-> u, status |-> None, roles |-> None]
Post(u, need) == [Login(u) EXCEPT !.op = "write", !.need = need]
Patch(u, t, st, ros) ==
  [op |-> "patch", user |-> u, need |-> "admin", target |-> t, status |-> st, roles |-> ros]

\* The other logs in, the one bans or demotes the other, the other writes, administers or
\* reinstates itself.
MCWorkloads ==
  {[r \in Requests |-> CASE r = r1 -> Login(adm) [] r = r2 -> change [] r = r3 -> act] :
     change \in {Patch(boss, adm, "inactive", None), Patch(boss, adm, None, {"member"}),
                 Patch(boss, adm, "inactive", {"member"})},
     act \in {Post(adm, None), Post(adm, "admin"), Patch(adm, adm, "active", {"admin"})}}
=============================================================================
