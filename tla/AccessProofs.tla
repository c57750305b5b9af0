---------------------------- MODULE AccessProofs ----------------------------
(***************************************************************************)
(* Proofs about module Access: for any users, roles, requests and          *)
(* durations, a ban or a demotion is effective after a bounded time.       *)
(*                                                                         *)
(* The argument follows the deadline: a login that has read an account is  *)
(* no older than the account's last active moment, a token is stored only  *)
(* while its login is in time, and a request writes only while it is in    *)
(* time after being admitted with such a token.                            *)
(***************************************************************************)
EXTENDS Access, TLAPS

(***************************************************************************)
(* The inductive invariant.                                                *)
(***************************************************************************)

\* Everything the histories and the requests remember is past.
Past ==
  /\ \A u \in Users : banned[u] <= now /\ \A ro \in Roles : lost[u][ro] <= now
  /\ \A r \in Requests : born[r] <= now

\* A login that read the account, and the roles, did so after it began.
Minting ==
  \A r \in Requests :
    /\ pc[r] \in {"roles", "sign", "store"} => born[r] <= LastActive(User(r))
    /\ pc[r] \in {"sign", "store"} =>
         \A ro \in claimed[r] : born[r] <= LastHeld(User(r), ro)
    /\ pc[r] = "store" => /\ signed[r].user = User(r) /\ signed[r].roles = claimed[r]
                          /\ signed[r].exp <= now + AccessTTL

\* A request past the middleware began while its token was valid.
Admitted ==
  \A r \in Requests : pc[r] \in {"write", "status", "replace"} =>
    /\ born[r] < LastActive(User(r)) + Timeout + AccessTTL
    /\ call[r].need # None =>
         born[r] < LastHeld(User(r), call[r].need) + Timeout + AccessTTL

IInv == TypeOK /\ Past /\ Minting /\ TokensRunOut /\ Admitted

-----------------------------------------------------------------------------
\* Initially nothing was ever banned or lost and the first tokens are fresh.
LEMMA InitIInv == Init => IInv
<1> SUFFICES ASSUME Init PROVE IInv
  OBVIOUS
<1> USE TimesAssumption, RolesAssumption, FirstTokensAssumption, WorkloadsAssumption,
        NoneAssumption DEF Init
<1>1. TypeOK
  BY DEF TypeOK, PcValues, Statuses
<1>2. Past
  BY DEF Past
<1>3. Minting /\ Admitted
  BY DEF Minting, Admitted
<1>4. TokensRunOut
  BY DEF TokensRunOut, LastActive, LastHeld, Tokens
<1> QED
  BY <1>1, <1>2, <1>3, <1>4 DEF IInv

\* Every action keeps the types: in particular PatchRoles writes well formed
\* roles and Store hands out the token that Sign made.
LEMMA TypeStep == TypeOK /\ [Next]_vars => TypeOK'
<1> SUFFICES ASSUME TypeOK, [Next]_vars PROVE TypeOK'
  OBVIOUS
<1> USE TimesAssumption DEF TypeOK, PcValues
<1>1. CASE Tick
  BY <1>1 DEF Tick, accounts
<1>2. ASSUME NEW r \in Requests, RequestNext(r) PROVE TypeOK'
  <2> USE DEF Goto, Answer, accounts
  <2>1. CASE Begin(r)
    BY <2>1 DEF Begin
  <2>2. CASE ReadUser(r) \/ Write(r) \/ Fail(r)
    BY <2>2 DEF ReadUser, Write, Fail
  <2>3. CASE ReadRoles(r)
    BY <2>3 DEF ReadRoles, User, Calls
  <2>4. CASE Sign(r)
    <3>1. signed'[r] \in Tokens
      BY <2>4 DEF Sign, User, Calls, Tokens
    <3> QED
      BY <2>4, <3>1 DEF Sign
  <2>5. CASE Store(r)
    BY <2>5 DEF Store
  <2>6. CASE Admit(r)
    <3>1. UNCHANGED <<now, accounts, tokens, call, born, claimed, signed>>
      BY <2>6 DEF Admit
    <3>2. \E p \in {"write", "status", "done"} : pc' = [pc EXCEPT ![r] = p]
      BY <2>6 DEF Admit
    <3> QED
      BY <3>1, <3>2
  <2>7. CASE PatchStatus(r)
    <3>1. call[r].target \in Users /\ call[r].status \in Statuses \cup {None}
      BY DEF Calls
    <3> QED
      BY <2>7, <3>1 DEF PatchStatus
  <2>8. CASE PatchRoles(r)
    <3>1. call[r].target \in Users /\ call[r].roles \in {None} \cup SUBSET Roles
      BY DEF Calls
    <3>2. roles' \in [Users -> SUBSET Roles]
      BY <2>8, <3>1 DEF PatchRoles
    <3>3. lost' \in [Users -> [Roles -> Nat]]
      BY <2>8, <3>1 DEF PatchRoles
    <3> QED
      BY <2>8, <3>2, <3>3 DEF PatchRoles
  <2> QED
    BY <1>2, <2>1, <2>2, <2>3, <2>4, <2>5, <2>6, <2>7, <2>8 DEF RequestNext
<1>3. CASE UNCHANGED vars
  BY <1>3 DEF vars, accounts
<1> QED
  BY <1>1, <1>2, <1>3 DEF Next

-----------------------------------------------------------------------------
\* Time does not run backwards, and neither do the last moments at which a user
\* was active or held a role, whoever patches whom.
LEMMA Monotone ==
  ASSUME TypeOK, Past, [Next]_vars
  PROVE  /\ now <= now'
         /\ \A u \in Users : LastActive(u) <= LastActive(u)'
         /\ \A u \in Users, ro \in Roles : LastHeld(u, ro) <= LastHeld(u, ro)'
<1> USE DEF TypeOK, Past, LastActive, LastHeld
<1>1. CASE Tick
  BY <1>1 DEF Tick, accounts
<1>2. CASE UNCHANGED <<now, accounts>>
  BY <1>2 DEF accounts
<1>3. ASSUME NEW r \in Requests, PatchStatus(r)
      PROVE  /\ now' = now /\ roles' = roles /\ lost' = lost
             /\ \A u \in Users : LastActive(u) <= LastActive(u)'
  <2>1. call[r].target \in Users
    BY DEF Calls
  <2> QED
    BY <1>3, <2>1 DEF PatchStatus
<1>4. ASSUME NEW r \in Requests, PatchRoles(r)
      PROVE  /\ now' = now /\ status' = status /\ banned' = banned
             /\ \A u \in Users, ro \in Roles : LastHeld(u, ro) <= LastHeld(u, ro)'
  <2>1. call[r].target \in Users
    BY DEF Calls
  <2> QED
    BY <1>4, <2>1 DEF PatchRoles
<1>5. Next => \/ Tick \/ UNCHANGED <<now, accounts>>
              \/ \E r \in Requests : PatchStatus(r) \/ PatchRoles(r)
  BY DEF Next, RequestNext, Begin, ReadUser, ReadRoles, Sign, Store, Admit, Write, Fail
<1> QED
  BY <1>1, <1>2, <1>3, <1>4, <1>5 DEF vars

-----------------------------------------------------------------------------
\* Every action preserves the invariant.
LEMMA StepIInv == IInv /\ [Next]_vars => IInv'
<1> SUFFICES ASSUME IInv, [Next]_vars PROVE IInv'
  OBVIOUS
<1> USE TimesAssumption
<1>1. TypeOK /\ Past /\ Minting /\ TokensRunOut /\ Admitted
  BY DEF IInv
<1>2. TypeOK'
  BY <1>1, TypeStep
<1>3. /\ now <= now'
      /\ \A u \in Users : LastActive(u) <= LastActive(u)'
      /\ \A u \in Users, ro \in Roles : LastHeld(u, ro) <= LastHeld(u, ro)'
  BY <1>1, Monotone
<1>4. \A u \in Users : /\ LastActive(u) \in Nat /\ LastActive(u)' \in Nat
                       /\ \A ro \in Roles : LastHeld(u, ro) \in Nat /\ LastHeld(u, ro)' \in Nat
  BY <1>1, <1>2 DEF TypeOK, LastActive, LastHeld
<1>5. call' = call /\ \A r \in Requests : call[r] \in Calls /\ User(r) \in Users /\ User(r)' = User(r)
  <2>1. call' = call
    BY DEF Next, RequestNext, Tick, Begin, ReadUser, ReadRoles, Sign, Store, Admit, Write,
           PatchStatus, PatchRoles, Fail, vars
  <2> QED
    BY <1>1, <2>1 DEF TypeOK, User, Calls
<1>6. Past'
  <2>1. CASE Tick \/ UNCHANGED vars
    BY <1>1, <2>1 DEF Past, Tick, accounts, vars, TypeOK
  <2>2. ASSUME NEW r \in Requests, RequestNext(r) PROVE Past'
    <3>0. now' = now /\ now \in Nat
      BY <1>1, <2>2 DEF TypeOK, RequestNext, Begin, ReadUser, ReadRoles, Sign, Store, Admit, Write,
         PatchStatus, PatchRoles, Fail
    <3>1. \A q \in Requests : born'[q] <= now'
      BY <1>1, <2>2, <3>0 DEF Past, TypeOK, RequestNext, Begin, ReadUser, ReadRoles, Sign, Store,
         Admit, Write, PatchStatus, PatchRoles, Fail
    <3>2. \A u \in Users : banned'[u] <= now'
      BY <1>1, <2>2, <3>0 DEF Past, TypeOK, RequestNext, Begin, ReadUser, ReadRoles, Sign, Store,
         Admit, Write, PatchStatus, PatchRoles, Fail, accounts
    <3>3. \A u \in Users, ro \in Roles : lost'[u][ro] <= now'
      BY <1>1, <2>2, <3>0 DEF Past, TypeOK, RequestNext, Begin, ReadUser, ReadRoles, Sign, Store,
         Admit, Write, PatchStatus, PatchRoles, Fail, accounts
    <3> QED
      BY <3>1, <3>2, <3>3 DEF Past
  <2> QED
    BY <2>1, <2>2 DEF Next
<1>7. Minting'
  <2> SUFFICES ASSUME NEW q \in Requests
               PROVE  /\ pc'[q] \in {"roles", "sign", "store"} => born'[q] <= LastActive(User(q))'
                      /\ pc'[q] \in {"sign", "store"} =>
                           \A ro \in claimed'[q] : born'[q] <= LastHeld(User(q), ro)'
                      /\ pc'[q] = "store" =>
                           /\ signed'[q].user = User(q) /\ signed'[q].roles = claimed'[q]
                           /\ signed'[q].exp <= now' + AccessTTL
    BY <1>5 DEF Minting
  <2> DEFINE Same == /\ pc'[q] = pc[q] /\ born'[q] = born[q]
                     /\ claimed'[q] = claimed[q] /\ signed'[q] = signed[q]
  <2>0. /\ born[q] \in Nat /\ now \in Nat /\ now' \in Nat /\ claimed[q] \subseteq Roles
        /\ pc[q] = "store" => signed[q].exp \in Nat
    BY <1>1, <1>2 DEF TypeOK, Tokens
  <2>1. CASE Same
    BY <1>1, <1>3, <1>4, <1>5, <2>0, <2>1 DEF Minting
  <2>2. CASE pc'[q] \in {"idle", "user", "admit", "write", "status", "replace", "done"}
    BY <2>2
  <2>3. CASE ReadUser(q)
    <3>1. CASE pc'[q] = "roles"
      <4>1. status[User(q)] = "active" /\ born' = born /\ now' = now /\ status' = status
        BY <1>1, <2>3, <3>1 DEF ReadUser, Goto, Answer, TypeOK, accounts
      <4>2. LastActive(User(q))' = now
        BY <1>5, <4>1 DEF LastActive
      <4> QED
        BY <1>1, <3>1, <4>1, <4>2 DEF Past
    <3>2. CASE pc'[q] = "done"
      BY <3>2
    <3> QED
      BY <1>1, <2>3, <3>1, <3>2 DEF ReadUser, Goto, Answer, TypeOK
  <2>4. CASE ReadRoles(q)
    <3>1. pc[q] = "roles" /\ pc'[q] = "sign" /\ born' = born /\ claimed'[q] = roles[User(q)]
          /\ roles' = roles /\ now' = now
      BY <1>1, <2>4 DEF ReadRoles, Goto, TypeOK, accounts
    <3>2. \A ro \in claimed'[q] : LastHeld(User(q), ro)' = now
      BY <1>5, <3>1 DEF LastHeld
    <3> QED
      BY <1>1, <1>3, <1>4, <1>5, <2>0, <3>1, <3>2 DEF Minting, Past
  <2>5. CASE Sign(q)
    <3>1. pc[q] = "sign" /\ pc'[q] = "store" /\ born' = born /\ claimed' = claimed /\ now' = now
          /\ signed'[q] = [user |-> User(q), roles |-> claimed[q], exp |-> now + AccessTTL]
      BY <1>1, <2>5 DEF Sign, Goto, TypeOK
    <3> QED
      BY <1>1, <1>3, <1>4, <1>5, <2>0, <3>1 DEF Minting
  <2>6. Same \/ pc'[q] \in {"idle", "user", "admit", "write", "status", "replace", "done"}
          \/ ReadUser(q) \/ ReadRoles(q) \/ Sign(q)
    <3>1. CASE Tick \/ UNCHANGED vars
      BY <3>1 DEF Tick, vars
    <3>2. ASSUME NEW r \in Requests, RequestNext(r), r # q PROVE Same
      BY <1>1, <3>2 DEF TypeOK, RequestNext, Begin, ReadUser, ReadRoles, Sign, Store, Admit, Write,
         PatchStatus, PatchRoles, Fail, Goto, Answer
    <3>3. ASSUME RequestNext(q)
          PROVE  pc'[q] \in {"idle", "user", "admit", "write", "status", "replace", "done"}
                   \/ ReadUser(q) \/ ReadRoles(q) \/ Sign(q)
      BY <1>1, <3>3 DEF TypeOK, RequestNext, Begin, Store, Admit, Write,
         PatchStatus, PatchRoles, Fail, Goto, Answer
    <3> QED
      BY <3>1, <3>2, <3>3 DEF Next
  <2> QED
    BY <2>1, <2>2, <2>3, <2>4, <2>5, <2>6
<1>8. TokensRunOut'
  <2> SUFFICES ASSUME NEW k \in tokens'
               PROVE  /\ k.exp <= LastActive(k.user)' + Timeout + AccessTTL
                      /\ \A ro \in k.roles : k.exp <= LastHeld(k.user, ro)' + Timeout + AccessTTL
    BY DEF TokensRunOut
  <2>0. k.exp \in Nat /\ k.user \in Users /\ k.roles \subseteq Roles
    BY <1>2 DEF TypeOK, Tokens
  <2>1. CASE k \in tokens
    BY <1>1, <1>3, <1>4, <2>0, <2>1 DEF TokensRunOut
  <2>2. CASE k \notin tokens
    <3>1. PICK r \in Requests : Store(r)
      BY <2>2 DEF Next, RequestNext, Tick, Begin, ReadUser, ReadRoles, Sign, Admit, Write,
         PatchStatus, PatchRoles, Fail, vars
    <3>2. k = signed[r] /\ pc[r] = "store" /\ now <= born[r] + Timeout
      BY <2>2, <3>1 DEF Store, InTime
    <3>3. born[r] \in Nat /\ now \in Nat
      BY <1>1 DEF TypeOK
    <3>4. /\ born[r] <= LastActive(k.user) /\ k.exp <= now + AccessTTL
          /\ \A ro \in k.roles : born[r] <= LastHeld(k.user, ro)
      BY <1>1, <3>2 DEF Minting
    <3> QED
      BY <1>3, <1>4, <2>0, <3>2, <3>3, <3>4
  <2> QED
    BY <2>1, <2>2
<1>9. Admitted'
  <2> SUFFICES ASSUME NEW q \in Requests, pc'[q] \in {"write", "status", "replace"}
               PROVE  /\ born'[q] < LastActive(User(q))' + Timeout + AccessTTL
                      /\ call[q].need # None =>
                           born'[q] < LastHeld(User(q), call[q].need)' + Timeout + AccessTTL
    BY <1>5 DEF Admitted
  <2>0. born[q] \in Nat /\ now \in Nat /\ born[q] <= now /\ call[q].need \in Roles \cup {None}
    BY <1>1, <1>5 DEF TypeOK, Past, Calls
  <2>1. CASE born'[q] = born[q] /\ pc[q] \in {"write", "status", "replace"}
    BY <1>1, <1>3, <1>4, <1>5, <2>0, <2>1 DEF Admitted
  <2>2. CASE Admit(q)
    <3>1. PICK k \in tokens : /\ k.user = User(q) /\ now < k.exp
                              /\ call[q].need \in k.roles \cup {None}
      BY <1>1, <2>2 DEF Admit, Valid, Goto, Answer, TypeOK
    <3>2. born' = born /\ k.exp \in Nat /\ k.roles \subseteq Roles
      BY <1>1, <2>2 DEF Admit, TypeOK, Tokens
    <3>3. k.exp <= LastActive(User(q)) + Timeout + AccessTTL
      BY <1>1, <3>1 DEF TokensRunOut
    <3>4. call[q].need # None => k.exp <= LastHeld(User(q), call[q].need) + Timeout + AccessTTL
      BY <1>1, <3>1 DEF TokensRunOut
    <3> QED
      BY <1>3, <1>4, <1>5, <2>0, <3>1, <3>2, <3>3, <3>4
  <2>3. (born'[q] = born[q] /\ pc[q] \in {"write", "status", "replace"}) \/ Admit(q)
    <3>1. CASE Tick \/ UNCHANGED vars
      BY <3>1 DEF Tick, vars
    <3>2. ASSUME NEW r \in Requests, RequestNext(r), r # q PROVE pc'[q] = pc[q] /\ born'[q] = born[q]
      BY <1>1, <3>2 DEF TypeOK, RequestNext, Begin, ReadUser, ReadRoles, Sign, Store, Admit, Write,
         PatchStatus, PatchRoles, Fail, Goto, Answer
    <3>3. ASSUME RequestNext(q)
          PROVE  (born'[q] = born[q] /\ pc[q] \in {"write", "status", "replace"}) \/ Admit(q)
      BY <1>1, <3>3 DEF TypeOK, RequestNext, Begin, ReadUser, ReadRoles, Sign, Store, Write,
         PatchStatus, PatchRoles, Fail, Goto, Answer
    <3> QED
      BY <3>1, <3>2, <3>3 DEF Next
  <2> QED
    BY <2>1, <2>2, <2>3
<1> QED
  BY <1>2, <1>6, <1>7, <1>8, <1>9 DEF IInv

\* The inductive invariant holds in every reachable state.
LEMMA AlwaysIInv == Spec => []IInv
BY InitIInv, StepIInv, PTL DEF Spec

-----------------------------------------------------------------------------
\* Clock, accounts, tokens and requests always have their types.
THEOREM AccessTypeCorrect == Spec => []TypeOK
<1>1. IInv => TypeOK
  BY DEF IInv
<1> QED
  BY AlwaysIInv, <1>1, PTL

\* However bans and role changes (AdminService.UpdateUser) interleave with logins
\* and refreshes, no token outlives a ban or a lost role by more than AccessTTL
\* and one request.
THEOREM TokensAlwaysRunOut == Spec => []TokensRunOut
<1>1. IInv => TokensRunOut
  BY DEF IInv
<1> QED
  BY AlwaysIInv, <1>1, PTL

\* Whatever lies behind RequireAuth and RequireRole stops obeying a banned or
\* demoted user within AccessTTL and two requests.
THEOREM AuthorityAlwaysBounded == Spec => []AuthorityBounded
<1>1. IInv => AuthorityBounded
  <2> SUFFICES ASSUME IInv, NEW r \in Requests, MayWrite(r)
               PROVE  /\ now < LastActive(User(r)) + AccessTTL + 2 * Timeout
                      /\ call[r].need # None =>
                           now < LastHeld(User(r), call[r].need) + AccessTTL + 2 * Timeout
    BY DEF AuthorityBounded
  <2>1. now <= born[r] + Timeout /\ born[r] \in Nat /\ now \in Nat
    BY DEF MayWrite, InTime, IInv, TypeOK
  <2>2. User(r) \in Users /\ call[r].need \in Roles \cup {None}
    BY DEF IInv, TypeOK, User, Calls
  <2>3. /\ LastActive(User(r)) \in Nat
        /\ call[r].need # None => LastHeld(User(r), call[r].need) \in Nat
    BY <2>2 DEF IInv, TypeOK, LastActive, LastHeld
  <2>4. /\ born[r] < LastActive(User(r)) + Timeout + AccessTTL
        /\ call[r].need # None =>
             born[r] < LastHeld(User(r), call[r].need) + Timeout + AccessTTL
    BY DEF IInv, Admitted, MayWrite
  <2> QED
    BY <2>1, <2>3, <2>4, TimesAssumption
<1> QED
  BY AlwaysIInv, <1>1, PTL
=============================================================================
