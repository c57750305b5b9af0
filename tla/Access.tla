------------------------------- MODULE Access -------------------------------
(***************************************************************************)
(* Access tokens against bans and role changes.  Login and refresh         *)
(* (AuthService, auth.Manager) sign the roles of an active user into a     *)
(* token; RequireAuth and RequireRole believe a token until it expires and *)
(* never look at the database; the admin API bans users and replaces their *)
(* roles meanwhile.                                                        *)
(*                                                                         *)
(* Time is a clock.  The Timeout middleware cancels a request's context,   *)
(* so a statement takes effect no later than Timeout after the request     *)
(* began, while everything that is no statement (hashing, signing, the     *)
(* middleware itself) may take any time.  A statement that fails ends its  *)
(* request like the timeout does.                                          *)
(***************************************************************************)
EXTENDS Integers

CONSTANTS Users, Roles, Requests, None,
          AccessTTL, Timeout, MaxTime,
          FirstRoles, FirstTokens,  \* the users' roles and tokens at first
          Workloads    \* the requests that run together

Statuses == {"active", "inactive"}
Calls == [op : {"login", "write", "patch"}, user : Users,
          need : Roles \cup {None},               \* the role the route requires
          target : Users,                         \* patch: whom it changes,
          status : Statuses \cup {None},          \*   to which status, if any,
          roles : {None} \cup ((SUBSET Roles) \ {{}})]  \*   and which roles, if any
Tokens == [user : Users, roles : SUBSET Roles, exp : Nat]

ASSUME TimesAssumption == AccessTTL \in Nat /\ Timeout \in Nat /\ MaxTime \in Nat
ASSUME RolesAssumption == FirstRoles \in [Users -> SUBSET Roles]
ASSUME FirstTokensAssumption ==
  \A k \in FirstTokens : k \in Tokens /\ k.exp <= AccessTTL /\ k.roles \subseteq FirstRoles[k.user]
ASSUME WorkloadsAssumption == Workloads \subseteq [Requests -> Calls]
ASSUME NoneAssumption ==
  None \notin Roles /\ None \notin Statuses /\ \A S \in SUBSET Roles : S # None

VARIABLES
  now,        \* the clock
  status,     \* users.status
  roles,      \* user_roles
  tokens,     \* the access tokens handed out so far
  call, pc, result,
  born,       \* when the request began
  claimed,    \* login: the roles it read
  signed,     \* login: the token it signed
  banned, lost  \* history: when a user last ceased to be active, to hold a role

accounts == <<status, roles, banned, lost>>
vars     == <<now, accounts, tokens, call, pc, result, born, claimed, signed>>

Op(r)   == call[r].op
User(r) == call[r].user

Goto(r, next) == pc' = [pc EXCEPT ![r] = next] /\ result' = result
Answer(r, res) == /\ pc' = [pc EXCEPT ![r] = "done"]
                  /\ result' = [result EXCEPT ![r] = res]

Init ==
  /\ now = 0 /\ tokens = FirstTokens
  /\ status = [u \in Users |-> "active"] /\ roles = FirstRoles
  /\ call \in Workloads
  /\ pc = [r \in Requests |-> "idle"] /\ result = [r \in Requests |-> "none"]
  /\ born = [r \in Requests |-> 0]
  /\ claimed = [r \in Requests |-> {}] /\ signed = [r \in Requests |-> None]
  /\ banned = [u \in Users |-> 0] /\ lost = [u \in Users |-> [ro \in Roles |-> 0]]

Tick ==
  /\ now < MaxTime
  /\ now' = now + 1
  /\ UNCHANGED <<accounts, tokens, call, pc, result, born, claimed, signed>>

\* The context of the request is not cancelled yet.
InTime(r) == now <= born[r] + Timeout

Begin(r) ==
  /\ pc[r] = "idle"
  /\ born' = [born EXCEPT ![r] = now]
  /\ Goto(r, IF Op(r) = "login" THEN "user" ELSE "admit")
  /\ UNCHANGED <<now, accounts, tokens, call, claimed, signed>>

-----------------------------------------------------------------------------
(* Login and refresh up to the token. *)

\* The account is read and must be active.
ReadUser(r) ==
  /\ pc[r] = "user" /\ InTime(r)
  /\ IF status[User(r)] = "active" THEN Goto(r, "roles") ELSE Answer(r, "disabled")
  /\ UNCHANGED <<now, accounts, tokens, call, born, claimed, signed>>

MutUnsigned(r) ==
  /\ pc[r] = "roles" /\ InTime(r)
  /\ claimed' = [claimed EXCEPT ![r] = roles[User(r)]]
  /\ Goto(r, "store")
  /\ UNCHANGED <<now, accounts, tokens, call, born, signed>>
\* RolesForUser.  (A refresh revokes its session before.)
ReadRoles(r) ==
  /\ pc[r] = "roles" /\ InTime(r)
  /\ claimed' = [claimed EXCEPT ![r] = roles[User(r)]]
  /\ Goto(r, "sign")
  /\ UNCHANGED <<now, accounts, tokens, call, born, signed>>

\* Manager.NewAccessToken.
Sign(r) ==
  /\ pc[r] = "sign"
  /\ signed' = [signed EXCEPT ![r] =
                  [user |-> User(r), roles |-> claimed[r], exp |-> now + AccessTTL]]
  /\ Goto(r, "store")
  /\ UNCHANGED <<now, accounts, tokens, call, born, claimed>>

MutTokenBeforeStore(r) ==
  /\ pc[r] = "store"
  /\ tokens' = tokens \cup {signed[r]}
  /\ Answer(r, "ok")
  /\ UNCHANGED <<now, accounts, call, born, claimed, signed>>
\* The refresh session is stored; only then is the token answered.
Store(r) ==
  /\ pc[r] = "store" /\ InTime(r)
  /\ tokens' = tokens \cup {signed[r]}
  /\ Answer(r, "ok")
  /\ UNCHANGED <<now, accounts, call, born, claimed, signed>>

-----------------------------------------------------------------------------
(* RequireAuth, RequireRole and what lies behind them. *)

MutForever(k) == TRUE
\* Manager.Parse: exp must lie in the future.
Valid(k) == now < k.exp

Admit(r) ==
  /\ pc[r] = "admit"
  /\ \/ \E k \in tokens :
          /\ k.user = User(r) /\ Valid(k)
          /\ IF call[r].need \in k.roles \cup {None}
               THEN Goto(r, IF Op(r) = "patch" THEN "status" ELSE "write")
               ELSE Answer(r, "forbidden")
     \/ Answer(r, "unauthorized")       \* no token, or an expired one
  /\ UNCHANGED <<now, accounts, tokens, call, born, claimed, signed>>

\* The last statement of any other route.
Write(r) ==
  /\ pc[r] = "write" /\ InTime(r)
  /\ Answer(r, "ok")
  /\ UNCHANGED <<now, accounts, tokens, call, born, claimed, signed>>

\* AdminService.UpdateUser: the status, then the roles.
PatchStatus(r) ==
  LET t == call[r].target IN
  /\ pc[r] = "status" /\ (call[r].status # None => InTime(r))
  /\ status' = IF call[r].status = None THEN status
               ELSE [status EXCEPT ![t] = call[r].status]
  /\ banned' = IF status[t] = "active" THEN [banned EXCEPT ![t] = now] ELSE banned
  /\ Goto(r, "replace")
  /\ UNCHANGED <<now, roles, lost, tokens, call, born, claimed, signed>>

PatchRoles(r) ==
  LET t == call[r].target IN
  /\ pc[r] = "replace" /\ InTime(r)
  /\ roles' = IF call[r].roles = None THEN roles ELSE [roles EXCEPT ![t] = call[r].roles]
  /\ lost' = [lost EXCEPT ![t] = [ro \in Roles |-> IF ro \in roles[t] THEN now ELSE @[ro]]]
  /\ Answer(r, "ok")
  /\ UNCHANGED <<now, status, banned, tokens, call, born, claimed, signed>>

\* A statement fails, by itself or because the context is cancelled.
Fail(r) ==
  /\ pc[r] \in {"user", "roles", "store", "write", "status", "replace"}
  /\ Answer(r, "error")
  /\ UNCHANGED <<now, accounts, tokens, call, born, claimed, signed>>

RequestNext(r) ==
  \/ Begin(r) \/ ReadUser(r) \/ ReadRoles(r) \/ Sign(r) \/ Store(r)
  \/ Admit(r) \/ Write(r) \/ PatchStatus(r) \/ PatchRoles(r) \/ Fail(r)

Next == Tick \/ \E r \in Requests : RequestNext(r)

Spec == Init /\ [][Next]_vars

-----------------------------------------------------------------------------
(* Properties. *)

PcValues == {"idle", "user", "roles", "sign", "store", "admit", "write", "status", "replace",
             "done"}

\* Clock, accounts, tokens and requests have their types; what is past is past.
TypeOK ==
  /\ now \in Nat
  /\ status \in [Users -> Statuses] /\ roles \in [Users -> SUBSET Roles]
  /\ tokens \subseteq Tokens
  /\ call \in [Requests -> Calls] /\ pc \in [Requests -> PcValues]
  /\ born \in [Requests -> Nat] /\ claimed \in [Requests -> SUBSET Roles]
  /\ signed \in [Requests -> {None} \cup Tokens]
  /\ banned \in [Users -> Nat] /\ lost \in [Users -> [Roles -> Nat]]
  /\ \A r \in Requests : pc[r] = "store" => signed[r] \in Tokens

\* When a user was last active, and last held a role.
LastActive(u) == IF status[u] = "active" THEN now ELSE banned[u]
LastHeld(u, ro) == IF ro \in roles[u] THEN now ELSE lost[u][ro]

\* The tokens of a banned user run out: none is valid longer than AccessTTL and
\* one request after the ban, in whatever order the ban met a login or refresh
\* under way.  The same holds for every role that was taken away.
TokensRunOut ==
  \A k \in tokens :
    /\ k.exp <= LastActive(k.user) + Timeout + AccessTTL
    /\ \A ro \in k.roles : k.exp <= LastHeld(k.user, ro) + Timeout + AccessTTL

\* Past the middleware, with its context still open.
MayWrite(r) == pc[r] \in {"write", "status", "replace"} /\ InTime(r)

\* Nothing changes in the name of a user, or by virtue of a role, later than
\* AccessTTL and two requests after the user was banned or lost the role: one
\* that was minting a token meanwhile and one that was admitted with it.
AuthorityBounded ==
  \A r \in Requests : MayWrite(r) =>
    /\ now < LastActive(User(r)) + AccessTTL + 2 * Timeout
    /\ call[r].need # None => now < LastHeld(User(r), call[r].need) + AccessTTL + 2 * Timeout
=============================================================================
