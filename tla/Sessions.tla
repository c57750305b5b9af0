------------------------------ MODULE Sessions ------------------------------
(***************************************************************************)
(* Login, refresh and logout (services.AuthService behind handlers.Auth)   *)
(* over the table user_sessions, with an administrator changing account    *)
(* status meanwhile and the browsers that keep the refresh cookie.         *)
(*                                                                         *)
(* A request is a goroutine that runs one SQL statement per step.  Its     *)
(* context is cancelled by the 30 s timeout or a disconnect, so any        *)
(* statement may return an error, before or after it took effect, and any  *)
(* response may be lost; properties that need a database that answers say  *)
(* so by ~failed.  A token and the row that holds its hash are one member  *)
(* of Sessions; ids are never reused.                                      *)
(***************************************************************************)
EXTENDS Naturals, FiniteSets

CONSTANTS Users, Sessions, Browsers, Requests, None

ASSUME NoneAssumption == None \notin Sessions /\ None \notin Users

VARIABLES
  status,    \* users.status: active, or inactive (banned, pending)
  created,   \* the rows of user_sessions
  revoked,   \* rows with revoked_at set
  expired,   \* rows whose expires_at has passed
  owner,     \* user_sessions.user_id
  family,    \* history: the session of the login a session descends from
  cookie,    \* the refresh cookie of a browser
  pc,        \* where a request is
  call,      \* the request: operation, browser, presented token, user
  result,    \* what the handler answers
  issued,    \* the session a request created
  barred,    \* history: the user has been inactive since the request began
  failed     \* history: a statement has failed or a response was lost

table == <<created, revoked, expired, owner, family>>
history == <<barred, failed>>
vars  == <<status, table, cookie, pc, call, result, issued, history>>

Live == created \ (revoked \cup expired)
Calls == [op : {"login", "refresh", "logout"}, browser : Browsers,
          token : Sessions \cup {None}, user : Users \cup {None}]
Statements == {"lookup", "user", "revoke", "issue"}

Init ==
  /\ status = [u \in Users |-> "active"]
  /\ created = {} /\ revoked = {} /\ expired = {}
  /\ owner = [s \in Sessions |-> None] /\ family = [s \in Sessions |-> None]
  /\ cookie = [b \in Browsers |-> None]
  /\ pc = [r \in Requests |-> "idle"]
  /\ call = [r \in Requests |-> None]
  /\ result = [r \in Requests |-> "none"]
  /\ issued = [r \in Requests |-> None]
  /\ barred = [r \in Requests |-> FALSE] /\ failed = FALSE

-----------------------------------------------------------------------------
(* A request arrives, with the cookie the browser holds at that moment.    *)

Arrive(r, op, b, token, u) ==
  /\ pc[r] = "idle"
  /\ call' = [call EXCEPT ![r] = [op |-> op, browser |-> b, token |-> token, user |-> u]]
  /\ barred' = [barred EXCEPT ![r] = u # None /\ status[u] = "inactive"]
  /\ pc' = [pc EXCEPT ![r] = "lookup"]
  /\ UNCHANGED <<status, table, cookie, result, issued, failed>>

StartLogin(r) == \E b \in Browsers, u \in Users : Arrive(r, "login", b, None, u)
StartRefresh(r) ==
  \E b \in Browsers : cookie[b] # None /\ Arrive(r, "refresh", b, cookie[b], owner[cookie[b]])
StartLogout(r) ==
  \E b \in Browsers : cookie[b] # None /\ Arrive(r, "logout", b, cookie[b], owner[cookie[b]])

Goto(r, next) == pc' = [pc EXCEPT ![r] = next] /\ result' = result
Answer(r, res) == /\ pc' = [pc EXCEPT ![r] = "respond"]
                  /\ result' = [result EXCEPT ![r] = res]

\* Without a cookie, a logout runs no statement and still clears the cookie, which
\* another request of the browser may have set meanwhile.  (A refresh without one
\* is refused and changes nothing.)
LogoutWithoutCookie(r) ==
  /\ pc[r] = "idle"
  /\ \E b \in Browsers :
       /\ cookie[b] = None
       /\ call' = [call EXCEPT ![r] = [op |-> "logout", browser |-> b, token |-> None, user |-> None]]
  /\ Answer(r, "ok")
  /\ UNCHANGED <<status, table, cookie, issued, history>>

At(r, op, stmt) == pc[r] = stmt /\ call[r].op = op

MutAnyStatus(u) == TRUE
Active(u) == status[u] = "active"

-----------------------------------------------------------------------------
(* AuthService.Login: read the user, check status and password.            *)
LoginLookup(r) ==
  /\ At(r, "login", "lookup")
  /\ \/ Active(call[r].user) /\ Goto(r, "issue")
     \/ ~Active(call[r].user) /\ Answer(r, "disabled")
     \/ Active(call[r].user) /\ Answer(r, "invalid")       \* wrong password
  /\ UNCHANGED <<status, table, cookie, call, issued, history>>

(* AuthService.Refresh. *)
RefreshLookup(r) ==
  /\ At(r, "refresh", "lookup")
  /\ IF call[r].token \in Live THEN Goto(r, "user") ELSE Answer(r, "invalid")
  /\ UNCHANGED <<status, table, cookie, call, issued, history>>

RefreshUser(r) ==
  /\ At(r, "refresh", "user")
  /\ IF Active(call[r].user) THEN Goto(r, "revoke") ELSE Answer(r, "disabled")
  /\ UNCHANGED <<status, table, cookie, call, issued, history>>

MutUnexpiredRow(s) == s \in Live
\* Revoke: the UPDATE matches only a row that is not revoked yet (an expired
\* row still matches).
RowMatches(s) == s \in created \ revoked

MutNoRotation(r) ==
  /\ At(r, "refresh", "revoke")
  /\ Goto(r, "issue")
  /\ UNCHANGED <<status, table, cookie, call, issued, history>>
\* Losing the race for the row is store.ErrNotFound, which the handler answers
\* with 500.
RefreshRevoke(r) ==
  /\ At(r, "refresh", "revoke")
  /\ IF RowMatches(call[r].token)
       THEN revoked' = revoked \cup {call[r].token} /\ Goto(r, "issue")
       ELSE revoked' = revoked /\ Answer(r, "error")
  /\ UNCHANGED <<status, created, expired, owner, family, cookie, call, issued, history>>

MutCreateErrorIgnored(r) ==
  /\ pc[r] = "issue"
  /\ \E s \in Sessions \ created : issued' = [issued EXCEPT ![r] = s]
  /\ Answer(r, "ok")
  /\ UNCHANGED <<status, table, cookie, call, history>>
(* AuthService.issueTokens, for Login and for Refresh. *)
IssueTokens(r) ==
  /\ pc[r] = "issue"
  /\ \E s \in Sessions \ created :
       /\ created' = created \cup {s}
       /\ owner' = [owner EXCEPT ![s] = call[r].user]
       /\ family' = [family EXCEPT ![s] = IF call[r].op = "login" THEN s
                                                         ELSE family[call[r].token]]
       /\ issued' = [issued EXCEPT ![r] = s]
  /\ Answer(r, "ok")
  /\ UNCHANGED <<status, revoked, expired, cookie, call, history>>

MutLogoutOnlyClears(s) == FALSE
LogoutRow(s) == s \in Live

(* AuthService.Logout: every error means "nothing to revoke". *)
LogoutLookup(r) ==
  /\ At(r, "logout", "lookup")
  /\ IF LogoutRow(call[r].token) THEN Goto(r, "revoke") ELSE Answer(r, "ok")
  /\ UNCHANGED <<status, table, cookie, call, issued, history>>

LogoutRevoke(r) ==
  /\ At(r, "logout", "revoke")
  /\ revoked' = revoked \cup {call[r].token}
  /\ Answer(r, "ok")
  /\ UNCHANGED <<status, created, expired, owner, family, cookie, call, issued, history>>

MutTokenRestored(r) ==
  /\ pc[r] \in Statements
  /\ Answer(r, IF call[r].op = "logout" THEN "ok" ELSE "error")
  /\ revoked' = IF At(r, "refresh", "issue") THEN revoked \ {call[r].token} ELSE revoked
  /\ failed' = TRUE
  /\ UNCHANGED <<status, created, expired, owner, family, cookie, call, issued, barred>>
\* A statement fails.  Login and Refresh return the error; Logout swallows it, and
\* a login whose lookup by email fails takes the credentials for invalid.
Fail(r) ==
  /\ pc[r] \in Statements
  /\ \/ Answer(r, IF call[r].op = "logout" THEN "ok" ELSE "error")
     \/ At(r, "login", "lookup") /\ Answer(r, "invalid")
  /\ failed' = TRUE
  /\ UNCHANGED <<status, table, cookie, call, issued, barred>>

-----------------------------------------------------------------------------
MutCookieKept(r) ==
  LET b == call[r].browser IN
  IF call[r].op # "logout" /\ result[r] = "ok" THEN issued[r] ELSE cookie[b]
\* What the response does to the browser's cookie: set it to the new token,
\* clear it, or (login refused, server error) leave it.
CookieAfter(r) ==
  LET b == call[r].browser IN
  CASE call[r].op # "logout" /\ result[r] = "ok" -> issued[r]
    [] call[r].op = "logout" -> None
    [] call[r].op = "refresh" /\ result[r] \in {"invalid", "disabled"} -> None
    [] OTHER -> cookie[b]

Respond(r) ==
  /\ pc[r] = "respond"
  /\ cookie' = [cookie EXCEPT ![call[r].browser] = CookieAfter(r)]
  /\ pc' = [pc EXCEPT ![r] = "done"]
  /\ UNCHANGED <<status, table, call, result, issued, history>>

LoseResponse(r) ==
  /\ pc[r] = "respond"
  /\ pc' = [pc EXCEPT ![r] = "done"]
  /\ failed' = TRUE
  /\ UNCHANGED <<status, table, cookie, call, result, issued, barred>>

\* UserStore.UpdateStatus, called by the admin API.
UpdateStatus(u, st) ==
  /\ status[u] # st
  /\ status' = [status EXCEPT ![u] = st]
  /\ barred' = [r \in Requests |-> barred[r] /\ ~(st = "active" /\ call[r].user = u)]
  /\ UNCHANGED <<table, cookie, pc, call, result, issued, failed>>

\* The clock passes a session's expires_at.
Expire(s) ==
  /\ s \in created \ expired
  /\ expired' = expired \cup {s}
  /\ UNCHANGED <<status, created, revoked, owner, family, cookie, pc, call, result, issued, history>>

RequestNext(r) ==
  \/ StartLogin(r) \/ StartRefresh(r) \/ StartLogout(r) \/ LogoutWithoutCookie(r)
  \/ LoginLookup(r) \/ RefreshLookup(r) \/ RefreshUser(r) \/ RefreshRevoke(r)
  \/ IssueTokens(r) \/ LogoutLookup(r) \/ LogoutRevoke(r) \/ Fail(r)
  \/ Respond(r) \/ LoseResponse(r)

Next ==
  \/ \E r \in Requests : RequestNext(r)
  \/ \E u \in Users, st \in {"active", "inactive"} : UpdateStatus(u, st)
  \/ \E s \in Sessions : Expire(s)

Spec == Init /\ [][Next]_vars

-----------------------------------------------------------------------------
(* Properties. *)

\* The rows, the requests and the cookies have their types; a cookie always
\* names a session that was really created.
TypeOK ==
  /\ status \in [Users -> {"active", "inactive"}]
  /\ created \subseteq Sessions /\ revoked \subseteq created /\ expired \subseteq created
  /\ owner \in [Sessions -> Users \cup {None}]
  /\ family \in [Sessions -> Sessions \cup {None}]
  /\ cookie \in [Browsers -> created \cup {None}]
  /\ pc \in [Requests -> Statements \cup {"idle", "respond", "done"}]
  /\ call \in [Requests -> Calls \cup {None}]
  /\ result \in [Requests -> {"none", "ok", "invalid", "disabled", "error"}]
  /\ issued \in [Requests -> created \cup {None}]
  /\ barred \in [Requests -> BOOLEAN] /\ failed \in BOOLEAN

\* Refreshes between their Revoke and their Create.
Rotating == {r \in Requests : At(r, "refresh", "issue")}
Rotates(r, f) == r \in Rotating /\ family[call[r].token] = f

\* A login has at most one usable refresh token at any time, however many
\* refreshes present its tokens at once and whatever fails: rotation leaves
\* either one unrevoked session or one refresh about to create it.
OneTokenPerLogin ==
  /\ \A s, t \in created \ revoked : family[s] = family[t] => s = t
  /\ \A r \in Rotating, s \in created \ revoked : ~Rotates(r, family[s])
  /\ \A r, q \in Rotating : Rotates(q, family[call[r].token]) => r = q

\* Who holds the login f, as module Rotation sees it.
Holder(f) ==
  LET rows == {s \in created \ revoked : family[s] = f} IN
  CASE f \notin created \/ family[f] # f -> "unborn"
    [] f \in created /\ family[f] = f /\ rows # {} -> CHOOSE s \in rows : TRUE
    [] OTHER -> IF \E r \in Requests : Rotates(r, f) THEN "rotating" ELSE "ended"

R == INSTANCE Rotation WITH holder <- [f \in Sessions |-> Holder(f)], minted <- created

\* Requests that overlap and fail anywhere implement rotation as one step after
\* the other: no login gets a second holder, a revoked token never becomes usable
\* again, and a login that ended, by logout or by a refresh that failed half way,
\* is never revived by a request still under way.
ImplementsRotation == R!RotationSpec

\* A user that is not active during the whole of a login or refresh gets no session.
BannedGetNothing == \A r \in Requests : issued[r] # None => ~barred[r]

Quiet(b) == \A r \in Requests : pc[r] \notin {"idle", "done"} => call[r].browser # b

\* When a browser has no request under way, the cookie it kept is not one the
\* server has revoked, in whatever order concurrent responses arrived
\* (as long as no statement failed and no response was lost).
CookieNotRevoked ==
  ~failed => \A b \in Browsers : Quiet(b) /\ cookie[b] # None => cookie[b] \notin revoked

\* While the database answers, a request fails with a server error only when
\* another request revoked the token it presents after it was looked up.
ErrorOnlyOnRace ==
  ~failed => \A r \in Requests : result[r] = "error" =>
    /\ call[r].token \in revoked
    /\ \E q \in Requests \ {r} :
         /\ pc[q] # "idle" /\ call[q].token = call[r].token
         /\ \/ call[q].op = "logout"
            \/ At(q, "refresh", "issue")
            \/ issued[q] # None

\* "Logout revokes the refresh session and clears the cookie": a finished logout
\* leaves the session it was given unusable.
LogoutRevokes ==
  \A r \in Requests : pc[r] = "done" /\ call[r].op = "logout" => call[r].token \notin Live

\* While the database answers, a finished logout ends the login of the cookie it
\* came with, whose rotated tokens share its family: none is usable or about to be
\* created, unless a refresh of the very token the logout presented got through.
LogoutEndsLogin ==
  ~failed => \A r \in Requests :
    /\ pc[r] = "done" /\ call[r].op = "logout" /\ call[r].token # None
    /\ \A q \in Requests \ {r} :
         pc[q] # "idle" /\ call[q].op = "refresh" /\ call[q].token = call[r].token
           => result[q] \in {"invalid", "disabled", "error"}
    => LET f == family[call[r].token] IN
       /\ \A s \in Live : family[s] # f
       /\ \A q \in Requests : ~Rotates(q, f)
=============================================================================
