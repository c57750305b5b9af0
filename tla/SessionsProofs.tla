--------------------------- MODULE SessionsProofs ---------------------------
(***************************************************************************)
(* Rotation is safe for any number of users, browsers, sessions and        *)
(* concurrent requests, with and without failures.                         *)
(***************************************************************************)
EXTENDS Sessions, TLAPS

\* A request that has arrived carries its call; the token a refresh or logout
\* presents is a row of the table (a logout without one answers at once), and only
\* logins and refreshes issue tokens.
CallsMatch ==
  \A r \in Requests : pc[r] # "idle" =>
    /\ call[r] \in Calls
    /\ call[r].op # "login" =>
         \/ call[r].token \in created
         \/ call[r].op = "logout" /\ call[r].token = None /\ pc[r] \in {"respond", "done"}
    /\ pc[r] = "issue" => call[r].op # "logout"

\* Families start at a session that exists.
FamiliesExist == \A s \in created : family[s] \in created

\* A refresh that is about to create its session has revoked the one it presented.
RotatingRevoked == \A r \in Rotating : call[r].token \in revoked

IInv == /\ TypeOK /\ CallsMatch /\ FamiliesExist /\ RotatingRevoked /\ OneTokenPerLogin

LEMMA InitInv == Init => IInv
<1> SUFFICES ASSUME Init PROVE IInv
  OBVIOUS
<1> USE DEF Init
<1>1. TypeOK
  BY DEF TypeOK, Statements
<1>2. CallsMatch /\ FamiliesExist /\ RotatingRevoked /\ OneTokenPerLogin
  BY DEF CallsMatch, FamiliesExist, RotatingRevoked, OneTokenPerLogin, Rotating, At
<1> QED BY <1>1, <1>2 DEF IInv

\* Steps that add no row, no unrevoked row and no rotating refresh keep the invariant.
LEMMA FrameStep ==
  ASSUME IInv, TypeOK', CallsMatch',
         UNCHANGED <<created, family>>, revoked \subseteq revoked',
         Rotating' \subseteq Rotating, \A r \in Rotating : call'[r] = call[r]
  PROVE  IInv'
<1> USE DEF IInv
<1>1. FamiliesExist' /\ RotatingRevoked'
  BY DEF FamiliesExist, RotatingRevoked
<1>2. OneTokenPerLogin'
  BY DEF OneTokenPerLogin, Rotates
<1> QED BY <1>1, <1>2

\* A request arrives.
LEMMA ArriveStep ==
  ASSUME IInv, NEW r \in Requests, StartLogin(r) \/ StartRefresh(r) \/ StartLogout(r)
  PROVE  IInv'
<1>1. PICK op \in {"login", "refresh", "logout"}, b \in Browsers,
           t \in created \cup {None}, u \in Users \cup {None} :
        Arrive(r, op, b, t, u) /\ (op # "login" => t \in created)
  BY DEF StartLogin, StartRefresh, StartLogout, IInv, TypeOK
<1> USE <1>1 DEF Arrive, table, history, IInv
<1>2. [op |-> op, browser |-> b, token |-> t, user |-> u] \in Calls
  BY DEF Calls, TypeOK
<1>3. TypeOK'
  BY <1>2 DEF TypeOK, Statements
<1>4. CallsMatch'
  BY <1>2 DEF CallsMatch, TypeOK
<1>5. Rotating' \subseteq Rotating /\ \A q \in Rotating : call'[q] = call[q]
  BY DEF Rotating, At, TypeOK
<1> QED BY <1>3, <1>4, <1>5, FrameStep

\* A logout without a cookie answers at once.
LEMMA NoCookieStep ==
  ASSUME IInv, NEW r \in Requests, LogoutWithoutCookie(r)
  PROVE  IInv'
<1>1. PICK b \in Browsers :
        call' = [call EXCEPT ![r] = [op |-> "logout", browser |-> b, token |-> None, user |-> None]]
  BY DEF LogoutWithoutCookie
<1> USE DEF LogoutWithoutCookie, Answer, table, history, IInv
<1>2. [op |-> "logout", browser |-> b, token |-> None, user |-> None] \in Calls
  BY DEF Calls
<1>3. TypeOK'
  BY <1>1, <1>2 DEF TypeOK
<1>4. CallsMatch'
  BY <1>1, <1>2 DEF CallsMatch, TypeOK
<1>5. Rotating' \subseteq Rotating /\ \A q \in Rotating : call'[q] = call[q]
  BY <1>1 DEF Rotating, At, TypeOK
<1> QED BY <1>3, <1>4, <1>5, FrameStep

\* A request reads, fails or answers: only its control state changes.
LEMMA ControlStep ==
  ASSUME IInv, NEW r \in Requests,
         \/ LoginLookup(r) \/ RefreshLookup(r) \/ RefreshUser(r) \/ LogoutLookup(r)
         \/ Fail(r) \/ LoseResponse(r)
  PROVE  IInv'
<1> USE DEF IInv
<1>1. /\ UNCHANGED <<status, table, cookie, call, issued, barred>> /\ failed' \in BOOLEAN /\ pc[r] # "idle"
      /\ \E p \in Statements \cup {"respond", "done"} :
           /\ pc' = [pc EXCEPT ![r] = p]
           /\ p = "issue" => call[r].op = "login"
           /\ pc[r] \in Statements \/ p = "done"
      /\ result' \in [Requests -> {"none", "ok", "invalid", "disabled", "error"}]
  <2>1. CASE LoginLookup(r)
    BY <2>1 DEF LoginLookup, history, At, Goto, Answer, TypeOK, Statements
  <2>2. CASE RefreshLookup(r)
    BY <2>2 DEF RefreshLookup, history, At, Goto, Answer, TypeOK, Statements
  <2>3. CASE RefreshUser(r)
    BY <2>3 DEF RefreshUser, history, At, Goto, Answer, TypeOK, Statements
  <2>4. CASE LogoutLookup(r)
    BY <2>4 DEF LogoutLookup, history, At, Goto, Answer, TypeOK, Statements
  <2>5. CASE Fail(r)
    BY <2>5 DEF Fail, At, Answer, TypeOK, Statements
  <2>6. CASE LoseResponse(r)
    BY <2>6 DEF LoseResponse, TypeOK, Statements
  <2> QED BY <2>1, <2>2, <2>3, <2>4, <2>5, <2>6
<1>p. PICK p \in Statements \cup {"respond", "done"} :
        /\ pc' = [pc EXCEPT ![r] = p]
        /\ p = "issue" => call[r].op = "login"
        /\ pc[r] \in Statements \/ p = "done"
  BY <1>1
<1>2. TypeOK'
  <2>1. pc' \in [Requests -> Statements \cup {"idle", "respond", "done"}]
    BY <1>p DEF TypeOK
  <2> QED BY <1>1, <2>1 DEF TypeOK, table
<1>3. CallsMatch'
  BY <1>1, <1>p DEF CallsMatch, TypeOK, table, Statements
<1>4. Rotating' \subseteq Rotating
  BY <1>1, <1>p DEF Rotating, At, TypeOK
<1> QED BY <1>1, <1>2, <1>3, <1>4, FrameStep DEF table

\* The response sets the cookie to the issued session, clears it or leaves it.
LEMMA RespondStep ==
  ASSUME IInv, NEW r \in Requests, Respond(r)
  PROVE  IInv'
<1> USE DEF IInv, Respond, table, history
<1>1. call[r] \in Calls /\ call[r].browser \in Browsers
  BY DEF CallsMatch, Calls
<1>2. CookieAfter(r) \in created \cup {None}
  BY <1>1 DEF CookieAfter, TypeOK
<1>3. TypeOK'
  BY <1>1, <1>2 DEF TypeOK, Statements
<1>4. CallsMatch' /\ Rotating' \subseteq Rotating
  BY DEF CallsMatch, Rotating, At, TypeOK
<1> QED BY <1>3, <1>4, FrameStep

\* Winning the row moves the login's single claim from the row to the refresh;
\* losing it only answers.
LEMMA RevokeStep ==
  ASSUME IInv, NEW r \in Requests, RefreshRevoke(r)
  PROVE  IInv'
<1> USE DEF IInv, RefreshRevoke, At, history
<1>1. call[r] \in Calls /\ call[r].token \in created
  BY DEF CallsMatch
<1>2. TypeOK'
  BY <1>1 DEF TypeOK, Goto, Answer, Statements
<1>3. CallsMatch'
  BY DEF CallsMatch, TypeOK, Goto, Answer
<1>4. CASE ~RowMatches(call[r].token)
  <2>1. Rotating' \subseteq Rotating
    BY <1>4 DEF Rotating, Answer, TypeOK
  <2> QED BY <1>2, <1>3, <1>4, <2>1, FrameStep
<1>5. CASE RowMatches(call[r].token)
  <2>1. /\ Rotating' = Rotating \cup {r} /\ r \notin Rotating
        /\ revoked' = revoked \cup {call[r].token}
        /\ UNCHANGED <<created, family, call>>
        /\ call[r].token \in created \ revoked
    BY <1>5 DEF Rotating, Goto, RowMatches, TypeOK
  <2>2. FamiliesExist' /\ RotatingRevoked'
    BY <2>1 DEF FamiliesExist, RotatingRevoked
  <2>3. OneTokenPerLogin'
    BY <2>1 DEF OneTokenPerLogin, Rotates
  <2> QED BY <1>2, <1>3, <2>2, <2>3
<1> QED BY <1>4, <1>5

\* Creating the session hands the claim of a refresh to the new row, and a
\* login's new row starts a family of its own.
LEMMA IssueStep ==
  ASSUME IInv, NEW r \in Requests, IssueTokens(r)
  PROVE  IInv'
<1> USE DEF IInv, IssueTokens, history
<1>1. PICK s \in Sessions \ created :
        /\ created' = created \cup {s}
        /\ owner' = [owner EXCEPT ![s] = call[r].user]
        /\ family' = [family EXCEPT ![s] = IF call[r].op = "login" THEN s
                                                          ELSE family[call[r].token]]
        /\ issued' = [issued EXCEPT ![r] = s]
  OBVIOUS
<1>2. /\ call[r] \in Calls /\ call[r].user \in Users \cup {None}
      /\ call[r].op # "login" => call[r].token \in created
      /\ call' = call /\ revoked' = revoked
  BY DEF CallsMatch, Calls
<1>3. TypeOK'
  BY <1>1, <1>2 DEF TypeOK, Answer, Statements
<1>4. CallsMatch'
  BY <1>1, <1>2 DEF CallsMatch, TypeOK, Answer
<1>5. /\ Rotating' = Rotating \ {r}
      /\ \A q \in Rotating : call[q].token \in created
      /\ \A t \in created : family'[t] = family[t] /\ t # s
  BY <1>1, <1>2 DEF Rotating, At, Answer, TypeOK, CallsMatch
<1>6. FamiliesExist' /\ RotatingRevoked'
  BY <1>1, <1>2, <1>5 DEF FamiliesExist, RotatingRevoked, TypeOK
<1>7. CASE call[r].op = "login"
  <2>1. family'[s] = s
    BY <1>1, <1>7 DEF TypeOK
  <2> QED BY <1>1, <1>2, <1>3, <1>4, <1>5, <1>6, <2>1
          DEF OneTokenPerLogin, Rotates, FamiliesExist
<1>8. CASE call[r].op # "login"
  <2>1. family'[s] = family[call[r].token] /\ call[r].token \in created
    BY <1>1, <1>2, <1>8 DEF TypeOK
  <2>2. r \in Rotating /\ Rotates(r, family'[s])
    BY <1>2, <1>8, <2>1 DEF Rotating, At, Rotates, CallsMatch, Calls
  <2>3. \A t \in created \ revoked : family[t] # family'[s]
    BY <2>1, <2>2 DEF OneTokenPerLogin, Rotates
  <2>4. \A q \in Rotating \ {r} : family[call[q].token] # family'[s]
    BY <2>1, <2>2 DEF OneTokenPerLogin, Rotates
  <2>5. OneTokenPerLogin'
    BY <1>1, <1>2, <1>5, <2>3, <2>4 DEF OneTokenPerLogin, Rotates
  <2> QED BY <1>3, <1>4, <1>6, <2>5
<1> QED BY <1>7, <1>8

\* Logout's revoke, a status change and the clock.
LEMMA OtherStep ==
  ASSUME IInv,
         \/ \E r \in Requests : LogoutRevoke(r)
         \/ \E u \in Users, st \in {"active", "inactive"} : UpdateStatus(u, st)
         \/ \E s \in Sessions : Expire(s)
  PROVE  IInv'
<1> USE DEF IInv
<1>1. ASSUME NEW r \in Requests, LogoutRevoke(r) PROVE IInv'
  <2> USE <1>1 DEF LogoutRevoke, At, Answer, history
  <2>1. call[r].token \in created
    BY DEF CallsMatch
  <2>2. TypeOK'
    BY <2>1 DEF TypeOK, Statements
  <2>3. CallsMatch' /\ Rotating' \subseteq Rotating
    BY DEF CallsMatch, Rotating, TypeOK
  <2> QED BY <2>2, <2>3, FrameStep
<1>2. ASSUME NEW u \in Users, NEW st \in {"active", "inactive"}, UpdateStatus(u, st)
      PROVE  IInv'
  <2> USE <1>2 DEF UpdateStatus, table
  <2>1. barred' \in [Requests -> BOOLEAN]
    BY Zenon DEF TypeOK
  <2>2. TypeOK'
    BY <2>1 DEF TypeOK
  <2>3. CallsMatch' /\ Rotating' = Rotating
    BY DEF CallsMatch, Rotating, At
  <2> QED BY <2>2, <2>3, FrameStep
<1>3. ASSUME NEW s \in Sessions, Expire(s) PROVE IInv'
  <2> USE <1>3 DEF Expire, history
  <2>1. TypeOK'
    BY DEF TypeOK
  <2>2. CallsMatch' /\ Rotating' = Rotating
    BY DEF CallsMatch, Rotating, At
  <2> QED BY <2>1, <2>2, FrameStep
<1> QED BY <1>1, <1>2, <1>3

LEMMA NextInv == IInv /\ [Next]_vars => IInv'
<1> SUFFICES ASSUME IInv, [Next]_vars PROVE IInv'
  OBVIOUS
<1>1. CASE Next
  BY <1>1, ArriveStep, NoCookieStep, ControlStep, RespondStep, RevokeStep, IssueStep, OtherStep
     DEF Next, RequestNext
<1>2. CASE UNCHANGED vars
  BY <1>2 DEF vars, table, history, IInv, TypeOK, CallsMatch, FamiliesExist, RotatingRevoked,
              OneTokenPerLogin, Rotating, Rotates, At
<1> QED BY <1>1, <1>2

LEMMA Inductive == Spec => []IInv
  BY InitInv, NextInv, PTL DEF Spec

\* The table, the requests and the cookies keep their types; cookies and answers
\* only ever carry tokens whose row was created.
THEOREM SessionsTypeCorrect == Spec => []TypeOK
<1>1. IInv => TypeOK
  BY DEF IInv
<1> QED BY <1>1, Inductive, PTL

\* Refresh rotation never leaves two usable tokens of one login.
THEOREM RotationSafe == Spec => []OneTokenPerLogin
<1>1. IInv => OneTokenPerLogin
  BY DEF IInv
<1> QED BY <1>1, Inductive, PTL

-----------------------------------------------------------------------------
(* What requests leave behind: who revoked a token, where tokens are kept,  *)
(* and when a login has ended.                                              *)

\* A session belongs to a request that answered with success, after its checks
\* found the user active.
Answered ==
  \A r \in Requests :
    /\ issued[r] # None => result[r] = "ok" /\ call[r].op # "logout"
    /\ pc[r] \notin {"respond", "done"} => result[r] = "none" /\ issued[r] = None
    /\ pc[r] # "idle" /\ call[r].op = "login" => call[r].token = None

\* A barred user is inactive now, so no request of it has passed its checks.
Barring ==
  \A r \in Requests :
    /\ barred[r] => pc[r] # "idle" /\ call[r].user \in Users /\ status[call[r].user] = "inactive"
    /\ pc[r] = "issue" \/ At(r, "refresh", "revoke") \/ issued[r] # None => ~barred[r]

\* The request presented the token and revokes it, or has.
TookOut(q, s) ==
  /\ pc[q] # "idle" /\ call[q].token = s
  /\ call[q].op = "logout" \/ At(q, "refresh", "issue") \/ issued[q] # None

RevokedBySomeone == ~failed => \A s \in revoked : \E q \in Requests : TookOut(q, s)

\* A token that is still on its way to the browser is known to nobody else.
Unseen ==
  \A p \in Requests : pc[p] = "respond" /\ issued[p] # None =>
    /\ issued[p] \notin revoked
    /\ \A b \in Browsers : cookie[b] # issued[p]
    /\ \A q \in Requests : pc[q] # "idle" => call[q].token # issued[p]
    /\ \A q \in Requests \ {p} : issued[q] # issued[p]

\* A token is kept by one browser, the one that presents it.
Homes ==
  \A b \in Browsers : cookie[b] # None =>
    /\ \A d \in Browsers : cookie[d] = cookie[b] => d = b
    /\ \A q \in Requests : pc[q] # "idle" /\ call[q].token = cookie[b] => call[q].browser = b

\* While a browser keeps a revoked token, the request that took it out has still
\* to answer that browser.
CookiesReplaced ==
  ~failed => \A b \in Browsers : cookie[b] \in revoked =>
    \E q \in Requests : pc[q] # "done" /\ call[q].browser = b /\ TookOut(q, cookie[b])

LogoutsOver ==
  ~failed => \A r \in Requests :
    pc[r] \in {"respond", "done"} /\ call[r].op = "logout" => call[r].token \notin Live

\* A revoked token was passed on by a refresh, or its login is over.
Over(f) == /\ \A s \in created \ revoked : family[s] # f
           /\ \A q \in Rotating : family[call[q].token] # f
PassedOn(q, t) == /\ pc[q] # "idle" /\ call[q].op = "refresh" /\ call[q].token = t
                  /\ pc[q] = "issue" \/ issued[q] # None
Succession ==
  ~failed => \A t \in revoked : Over(family[t]) \/ \E q \in Requests : PassedOn(q, t)

\* A family is named after its first session.
Roots == \A s \in created : family[family[s]] = family[s]

\* What holds whatever fails, and what holds while the database answers.
Always == Answered /\ Barring /\ Unseen /\ Homes /\ Roots
Unfailed == RevokedBySomeone /\ ErrorOnlyOnRace /\ CookiesReplaced /\ LogoutsOver /\ Succession
JInv == Always /\ Unfailed

LEMMA InitJ == Init => JInv
<1> SUFFICES ASSUME Init PROVE JInv
  OBVIOUS
<1> USE DEF Init
<1>1. Always
  BY DEF Always, Answered, Barring, Unseen, Homes, Roots, At
<1>2. Unfailed
  BY NoneAssumption DEF Unfailed, RevokedBySomeone, ErrorOnlyOnRace, CookiesReplaced, LogoutsOver, Succession
<1> QED BY <1>1, <1>2 DEF JInv

\* What a step of r leaves to the other requests.
Own(r) ==
  \A q \in Requests \ {r} :
    /\ pc'[q] = pc[q] /\ call'[q] = call[q] /\ result'[q] = result[q]
    /\ issued'[q] = issued[q] /\ barred'[q] = barred[q]

\* The facts about a failing run are only claimed while nothing has failed.
LEMMA FailedStep == failed' = TRUE => Unfailed'
  BY DEF Unfailed, RevokedBySomeone, ErrorOnlyOnRace, CookiesReplaced, LogoutsOver, Succession

\* Whoever took a token out, or passed it on, is still the one after the step.
Witnesses ==
  /\ \A q \in Requests, s \in Sessions : TookOut(q, s) => TookOut(q, s)'
  /\ \A q \in Requests, s \in Sessions : PassedOn(q, s) => PassedOn(q, s)'

\* A request arrives.
LEMMA ArriveJ ==
  ASSUME IInv, JInv, NEW r \in Requests, StartLogin(r) \/ StartRefresh(r) \/ StartLogout(r)
  PROVE  JInv'
<1> USE DEF IInv, JInv
<1>1. PICK op \in {"login", "refresh", "logout"}, b \in Browsers,
           t \in created \cup {None}, u \in Users \cup {None} :
        /\ Arrive(r, op, b, t, u)
        /\ t # None => t = cookie[b]
        /\ op = "login" => t = None
  BY DEF StartLogin, StartRefresh, StartLogout, TypeOK
<1>2. /\ Own(r) /\ pc[r] = "idle" /\ pc'[r] = "lookup" /\ result'[r] = result[r] /\ issued'[r] = issued[r]
      /\ call'[r].op = op /\ call'[r].browser = b /\ call'[r].token = t /\ call'[r].user = u
      /\ UNCHANGED <<status, created, revoked, expired, owner, family, cookie, failed>>
  BY <1>1 DEF Arrive, Own, TypeOK, table
<1>3. issued[r] = None /\ result[r] = "none"
  BY <1>2 DEF Always, Answered
<1>4. barred'[r] => u \in Users /\ status[u] = "inactive"
  BY <1>1 DEF Arrive, TypeOK
<1>5. Answered'
  BY <1>1, <1>2, <1>3 DEF Always, Answered, Own
<1>6. Barring'
  BY <1>2, <1>3, <1>4 DEF Always, Barring, Own, At
<1>7. Unseen'
  BY <1>1, <1>2, <1>3 DEF Always, Unseen, Own
<1>8. Homes'
  BY <1>1, <1>2 DEF Always, Homes, Own
<1>9. Roots'
  BY <1>2 DEF Always, Roots
<1>10. Witnesses
  BY <1>2 DEF Witnesses, TookOut, PassedOn, Own, At
<1>11. Unfailed'
  <2>1. Rotating' = Rotating /\ Live' = Live /\ \A q \in Rotating : q # r /\ call'[q] = call[q]
    BY <1>2 DEF Rotating, At, Own, Live
  <2>2. RevokedBySomeone'
    BY <1>2, <1>10 DEF Unfailed, RevokedBySomeone, Witnesses, TypeOK
  <2>3. ErrorOnlyOnRace'
    BY <1>2, <1>3 DEF Unfailed, ErrorOnlyOnRace, Own, At
  <2>4. CookiesReplaced'
    BY <1>2 DEF Unfailed, CookiesReplaced, TookOut, Own, At
  <2>5. LogoutsOver'
    BY <1>2, <2>1 DEF Unfailed, LogoutsOver, Own
  <2>6. Succession'
    BY <1>2, <1>10, <2>1 DEF Unfailed, Succession, Over, Witnesses, TypeOK
  <2> QED BY <2>2, <2>3, <2>4, <2>5, <2>6 DEF Unfailed
<1> QED BY <1>5, <1>6, <1>7, <1>8, <1>9, <1>11 DEF Always

\* A logout without a cookie leaves every row and every other request alone.
LEMMA NoCookieJ ==
  ASSUME IInv, JInv, NEW r \in Requests, LogoutWithoutCookie(r)
  PROVE  JInv'
<1> USE DEF IInv, JInv
<1>1. PICK b \in Browsers :
        call' = [call EXCEPT ![r] = [op |-> "logout", browser |-> b, token |-> None, user |-> None]]
  BY DEF LogoutWithoutCookie
<1>2. /\ Own(r) /\ pc[r] = "idle" /\ pc'[r] = "respond" /\ result'[r] = "ok" /\ issued'[r] = issued[r]
      /\ call'[r].op = "logout" /\ call'[r].browser = b /\ call'[r].token = None
      /\ UNCHANGED <<status, created, revoked, expired, owner, family, cookie, barred, failed>>
  BY <1>1 DEF LogoutWithoutCookie, Answer, Own, TypeOK, table, history
<1>3. issued[r] = None /\ result[r] = "none" /\ ~barred[r]
  BY <1>2 DEF Always, Answered, Barring
<1>4. Answered'
  BY <1>2, <1>3 DEF Always, Answered, Own
<1>5. Barring'
  BY <1>2, <1>3 DEF Always, Barring, Own, At
<1>6. Unseen'
  BY <1>2, <1>3 DEF Always, Unseen, Own
<1>7. Homes' /\ Roots'
  BY <1>2 DEF Always, Homes, Roots, Own
<1>8. Witnesses
  BY <1>2 DEF Witnesses, TookOut, PassedOn, Own, At
<1>9. Unfailed'
  <2>1. Rotating' = Rotating /\ Live' = Live /\ \A q \in Rotating : q # r /\ call'[q] = call[q]
    BY <1>2 DEF Rotating, At, Own, Live
  <2>2. RevokedBySomeone'
    BY <1>2, <1>8 DEF Unfailed, RevokedBySomeone, Witnesses, TypeOK
  <2>3. ErrorOnlyOnRace'
    BY <1>2 DEF Unfailed, ErrorOnlyOnRace, Own, At
  <2>4. CookiesReplaced'
    BY <1>2 DEF Unfailed, CookiesReplaced, TookOut, Own, At
  <2>5. LogoutsOver'
    BY <1>2, <2>1, NoneAssumption DEF Unfailed, LogoutsOver, Own, Live, TypeOK
  <2>6. Succession'
    BY <1>2, <1>8, <2>1 DEF Unfailed, Succession, Over, Witnesses, TypeOK
  <2> QED BY <2>2, <2>3, <2>4, <2>5, <2>6 DEF Unfailed
<1> QED BY <1>4, <1>5, <1>6, <1>7, <1>9 DEF Always

\* A request reads: it goes on to the statement its checks allow, or answers.
LEMMA ReadJ ==
  ASSUME IInv, JInv, NEW r \in Requests,
         LoginLookup(r) \/ RefreshLookup(r) \/ RefreshUser(r) \/ LogoutLookup(r)
  PROVE  JInv'
<1> USE DEF IInv, JInv
<1>1. /\ Own(r) /\ UNCHANGED <<status, created, revoked, expired, owner, family, cookie, call, issued, barred, failed>>
      /\ pc[r] \in {"lookup", "user"} /\ pc'[r] \in {"issue", "user", "revoke", "respond"}
      /\ pc'[r] = "respond" /\ call[r].op = "logout" => call[r].token \notin Live
      /\ pc'[r] # "respond" => result'[r] = result[r]
      /\ pc'[r] = "issue" => call[r].op = "login"
      /\ pc'[r] = "issue" \/ (pc'[r] = "revoke" /\ call[r].op = "refresh") => Active(call[r].user)
      /\ result'[r] # "error" \/ result'[r] = result[r]
  <2>1. CASE LoginLookup(r)
    BY <2>1 DEF LoginLookup, Own, At, Goto, Answer, TypeOK, history, table
  <2>2. CASE RefreshLookup(r)
    BY <2>2 DEF RefreshLookup, Own, At, Goto, Answer, TypeOK, history, table
  <2>3. CASE RefreshUser(r)
    BY <2>3 DEF RefreshUser, Own, At, Goto, Answer, TypeOK, history, table
  <2>4. CASE LogoutLookup(r)
    BY <2>4 DEF LogoutLookup, LogoutRow, Own, At, Goto, Answer, TypeOK, history, table
  <2> QED BY <2>1, <2>2, <2>3, <2>4
<1>2. issued[r] = None /\ result[r] = "none"
  BY <1>1 DEF Always, Answered
<1>3. Answered'
  BY <1>1, <1>2 DEF Always, Answered, Own
<1>4. Barring'
  BY <1>1, <1>2 DEF Always, Barring, Own, At, Active
<1>5. Unseen'
  BY <1>1, <1>2 DEF Always, Unseen, Own
<1>6. Homes' /\ Roots'
  BY <1>1 DEF Always, Homes, Roots, Own
<1>7. Witnesses
  BY <1>1, <1>2 DEF Witnesses, TookOut, PassedOn, Own, At
<1>8. Unfailed'
  <2>1. Rotating' = Rotating /\ Live' = Live
    BY <1>1 DEF Rotating, At, Own, Live
  <2>2. RevokedBySomeone'
    BY <1>1, <1>7 DEF Unfailed, RevokedBySomeone, Witnesses, TypeOK
  <2>3. ErrorOnlyOnRace'
    BY <1>1, <1>2 DEF Unfailed, ErrorOnlyOnRace, Own, At
  <2>4. CookiesReplaced'
    BY <1>1 DEF Unfailed, CookiesReplaced, TookOut, Own, At
  <2>5. LogoutsOver'
    BY <1>1, <2>1 DEF Unfailed, LogoutsOver, Own
  <2>6. Succession'
    BY <1>1, <1>7, <2>1 DEF Unfailed, Succession, Over, Witnesses, TypeOK
  <2> QED BY <2>2, <2>3, <2>4, <2>5, <2>6 DEF Unfailed
<1> QED BY <1>3, <1>4, <1>5, <1>6, <1>8 DEF Always

\* A refresh takes its token out, or loses the race for the row.
LEMMA RevokeJ ==
  ASSUME IInv, JInv, NEW r \in Requests, RefreshRevoke(r)
  PROVE  JInv'
<1> USE DEF IInv, JInv
<1>1. /\ Own(r) /\ UNCHANGED <<status, created, expired, owner, family, cookie, call, issued, barred, failed>>
      /\ pc[r] = "revoke" /\ call[r].op = "refresh"
      /\ call[r].token \in created /\ call[r] \in Calls
  BY DEF RefreshRevoke, Own, At, Goto, Answer, TypeOK, history, CallsMatch
<1>2. issued[r] = None /\ result[r] = "none"
  BY <1>1 DEF Always, Answered
<1>3. \/ /\ call[r].token \notin revoked /\ revoked' = revoked \cup {call[r].token}
         /\ pc'[r] = "issue" /\ result'[r] = "none"
      \/ /\ call[r].token \in revoked /\ revoked' = revoked
         /\ pc'[r] = "respond" /\ result'[r] = "error"
  BY <1>1, <1>2 DEF RefreshRevoke, RowMatches, Goto, Answer, TypeOK
<1>4. Answered'
  BY <1>1, <1>2, <1>3 DEF Always, Answered, Own
<1>5. Barring'
  BY <1>1, <1>2, <1>3 DEF Always, Barring, Own, At
<1>6. Unseen'
  BY <1>1, <1>2, <1>3 DEF Always, Unseen, Own
<1>7. Homes' /\ Roots'
  BY <1>1, <1>3 DEF Always, Homes, Roots, Own
<1>8. Witnesses
  BY <1>1, <1>2, <1>3 DEF Witnesses, TookOut, PassedOn, Own, At
<1>9. revoked \subseteq revoked' /\ Live' \subseteq Live
  BY <1>1, <1>3 DEF Live
<1>10. RevokedBySomeone'
  <2>1. pc'[r] = "issue" => TookOut(r, call[r].token)'
    BY <1>1 DEF TookOut, At
  <2> QED BY <1>1, <1>3, <1>8, <2>1 DEF Unfailed, RevokedBySomeone, Witnesses, TypeOK
<1>11. ErrorOnlyOnRace'
  <2> SUFFICES ASSUME ~failed, NEW p \in Requests, result'[p] = "error"
               PROVE  /\ call[p].token \in revoked
                      /\ \E q \in Requests \ {p} : TookOut(q, call[p].token)
    BY <1>1, <1>8, <1>9 DEF ErrorOnlyOnRace, Witnesses, TookOut, TypeOK
  <2>1. CASE p # r
    BY <1>1, <2>1 DEF Unfailed, ErrorOnlyOnRace, Own, TookOut
  <2>2. CASE p = r
    <3>1. call[r].token \in revoked
      BY <1>3, <2>2
    <3>2. PICK q \in Requests : TookOut(q, call[r].token)
      BY <3>1 DEF Unfailed, RevokedBySomeone
    <3>3. q # r
      BY <1>1, <1>2, <3>2 DEF TookOut, At
    <3> QED BY <2>2, <3>1, <3>2, <3>3
  <2> QED BY <2>1, <2>2
<1>12. CookiesReplaced'
  <2> SUFFICES ASSUME ~failed, NEW b \in Browsers, cookie[b] \in revoked'
               PROVE  \E q \in Requests : pc'[q] # "done" /\ call[q].browser = b /\ TookOut(q, cookie[b])'
    BY <1>1 DEF CookiesReplaced, TookOut
  <2>1. CASE cookie[b] \in revoked
    BY <1>1, <1>3, <1>8, <2>1 DEF Unfailed, CookiesReplaced, Witnesses, TypeOK, Own
  <2>2. CASE cookie[b] \notin revoked
    <3>1. cookie[b] = call[r].token /\ pc'[r] = "issue"
      BY <1>3, <2>2
    <3>2. call[r].browser = b
      BY <1>1, <3>1, NoneAssumption DEF Always, Homes, TypeOK
    <3> QED BY <1>1, <3>1, <3>2 DEF TookOut, At
  <2> QED BY <2>1, <2>2
<1>13. LogoutsOver'
  BY <1>1, <1>9 DEF Unfailed, LogoutsOver, Own
<1>14. Succession'
  <2> SUFFICES ASSUME ~failed, NEW t \in revoked'
               PROVE  Over(family[t])' \/ \E q \in Requests : PassedOn(q, t)'
    BY <1>1 DEF Succession, Over, PassedOn
  <2>1. CASE t \notin revoked
    <3>1. t = call[r].token /\ pc'[r] = "issue"
      BY <1>3, <2>1
    <3> QED BY <1>1, <3>1 DEF PassedOn
  <2>2. CASE t \in revoked /\ Over(family[t])
    <3>1. Rotating' \subseteq Rotating \cup {r}
      BY <1>1 DEF Rotating, At, Own
    <3>2. r \in Rotating' => family[call[r].token] # family[t]
      BY <1>1, <1>3, <2>2 DEF Over, Rotating, At
    <3> QED BY <1>1, <1>9, <2>2, <3>1, <3>2 DEF Over
  <2>3. CASE t \in revoked /\ ~Over(family[t])
    BY <1>8, <2>3 DEF Unfailed, Succession, Witnesses, TypeOK
  <2> QED BY <2>1, <2>2, <2>3
<1> QED BY <1>4, <1>5, <1>6, <1>7, <1>10, <1>11, <1>12, <1>13, <1>14 DEF Always, Unfailed

\* The new session is a row nobody knew; a refresh's passes its login on.
LEMMA IssueJ ==
  ASSUME IInv, JInv, NEW r \in Requests, IssueTokens(r)
  PROVE  JInv'
<1> USE DEF IInv, JInv
<1>1. PICK s \in Sessions \ created :
        /\ created' = created \cup {s}
        /\ owner' = [owner EXCEPT ![s] = call[r].user]
        /\ family' = [family EXCEPT ![s] = IF call[r].op = "login" THEN s
                                                          ELSE family[call[r].token]]
        /\ issued' = [issued EXCEPT ![r] = s]
  BY DEF IssueTokens
<1>2. /\ Own(r) /\ UNCHANGED <<status, revoked, expired, cookie, call, barred, failed>>
      /\ pc[r] = "issue" /\ pc'[r] = "respond" /\ result'[r] = "ok" /\ issued'[r] = s
      /\ call[r] \in Calls /\ call[r].op \in {"login", "refresh"}
      /\ call[r].op # "login" => call[r].token \in created
      /\ \A t \in created : family'[t] = family[t] /\ t # s
  BY <1>1 DEF IssueTokens, Own, Answer, TypeOK, history, CallsMatch, Calls
<1>3. /\ s # None /\ issued[r] = None /\ result[r] = "none"
      /\ \A q \in Requests : pc[q] # "idle" => call[q].token # s
  BY <1>1, <1>2, NoneAssumption DEF Always, Answered, CallsMatch, Calls, TypeOK
<1>4. Answered'
  BY <1>2, <1>3 DEF Always, Answered, Own
<1>5. Barring'
  BY <1>2, <1>3 DEF Always, Barring, Own, At
<1>6. Unseen'
  BY <1>1, <1>2, <1>3 DEF Always, Unseen, Own, TypeOK
<1>7. Homes'
  BY <1>2 DEF Always, Homes, Own
<1>8. Roots'
  <2>1. family'[s] = IF call[r].op = "login" THEN s ELSE family[call[r].token]
    BY <1>1 DEF TypeOK
  <2> QED BY <1>1, <1>2, <2>1 DEF Always, Roots, FamiliesExist
<1>9. Witnesses
  BY <1>2, <1>3 DEF Witnesses, TookOut, PassedOn, Own, At
<1>10. RevokedBySomeone'
  BY <1>2, <1>9 DEF Unfailed, RevokedBySomeone, Witnesses, TypeOK
<1>11. ErrorOnlyOnRace'
  <2>1. \A p \in Requests : result'[p] = "error" => result[p] = "error"
    BY <1>2 DEF Own
  <2>2. ~failed => \A p \in Requests : result[p] = "error" =>
           call[p].token \in revoked /\ \E q \in Requests \ {p} : TookOut(q, call[p].token)
    BY DEF Unfailed, ErrorOnlyOnRace, TookOut
  <2>3. ~failed => \A p \in Requests : result'[p] = "error" =>
           call[p].token \in revoked /\ \E q \in Requests \ {p} : TookOut(q, call[p].token)'
    BY <1>2, <1>9, <2>1, <2>2 DEF Witnesses, TypeOK
  <2> QED BY <1>2, <2>3 DEF ErrorOnlyOnRace, TookOut
<1>12. CookiesReplaced'
  BY <1>2, <1>9 DEF Unfailed, CookiesReplaced, Witnesses, TypeOK, Own
<1>13. LogoutsOver'
  <2>1. Live' = Live \cup {s}
    BY <1>1, <1>2 DEF Live, TypeOK
  <2> QED BY <1>2, <1>3, <2>1 DEF Unfailed, LogoutsOver, Own, At
<1>14. Succession'
  <2>0. \A t \in revoked : family'[t] = family[t]
    BY <1>2 DEF TypeOK
  <2> SUFFICES ASSUME ~failed, NEW t \in revoked
               PROVE  \/ /\ \A u \in created' \ revoked : family'[u] # family[t]
                         /\ \A q \in Rotating' : family'[call[q].token] # family[t]
                      \/ \E q \in Requests : PassedOn(q, t)'
    BY <1>2, <2>0 DEF Succession, Over
  <2>1. CASE Over(family[t])
    <3>1. Rotating' \subseteq Rotating /\ \A q \in Rotating : call[q].token \in created
      BY <1>2 DEF Rotating, At, Own, CallsMatch
    <3>2. family'[s] # family[t]
      <4>1. CASE call[r].op = "login"
        BY <1>1, <1>2, <4>1 DEF TypeOK, FamiliesExist
      <4>2. CASE call[r].op # "login"
        BY <1>1, <1>2, <2>1, <4>2 DEF TypeOK, Over, Rotating, At
      <4> QED BY <4>1, <4>2
    <3> QED BY <1>1, <1>2, <2>1, <3>1, <3>2 DEF Over
  <2>2. CASE ~Over(family[t])
    BY <1>9, <2>2 DEF Unfailed, Succession, Witnesses, TypeOK
  <2> QED BY <2>1, <2>2
<1> QED BY <1>4, <1>5, <1>6, <1>7, <1>8, <1>10, <1>11, <1>12, <1>13, <1>14 DEF Always, Unfailed

\* A logout takes its token out; when it is the first to do so, the login is over.
LEMMA LogoutJ ==
  ASSUME IInv, JInv, NEW r \in Requests, LogoutRevoke(r)
  PROVE  JInv'
<1> USE DEF IInv, JInv
<1>1. /\ Own(r) /\ UNCHANGED <<status, created, expired, owner, family, cookie, call, issued, barred, failed>>
      /\ pc[r] = "revoke" /\ call[r].op = "logout" /\ pc'[r] = "respond" /\ result'[r] = "ok"
      /\ call[r].token \in created /\ revoked' = revoked \cup {call[r].token}
  BY DEF LogoutRevoke, Own, At, Answer, TypeOK, history, CallsMatch
<1>2. issued[r] = None /\ result[r] = "none"
  BY <1>1 DEF Always, Answered
<1>3. Answered'
  BY <1>1, <1>2 DEF Always, Answered, Own
<1>4. Barring'
  BY <1>1, <1>2 DEF Always, Barring, Own, At
<1>5. Unseen'
  BY <1>1, <1>2 DEF Always, Unseen, Own
<1>6. Homes' /\ Roots'
  BY <1>1 DEF Always, Homes, Roots, Own
<1>7. Witnesses
  BY <1>1, <1>2 DEF Witnesses, TookOut, PassedOn, Own, At
<1>8. revoked \subseteq revoked' /\ Live' \subseteq Live /\ Rotating' = Rotating
  BY <1>1 DEF Live, Rotating, At, Own
<1>9. TookOut(r, call[r].token)'
  BY <1>1 DEF TookOut
<1>10. RevokedBySomeone'
  BY <1>1, <1>7, <1>9 DEF Unfailed, RevokedBySomeone, Witnesses, TypeOK
<1>11. ErrorOnlyOnRace'
  <2>1. \A p \in Requests : result'[p] = "error" => result[p] = "error"
    BY <1>1 DEF Own
  <2>2. ~failed => \A p \in Requests : result[p] = "error" =>
           call[p].token \in revoked /\ \E q \in Requests \ {p} : TookOut(q, call[p].token)
    BY DEF Unfailed, ErrorOnlyOnRace, TookOut
  <2>3. ~failed => \A p \in Requests : result'[p] = "error" =>
           call[p].token \in revoked' /\ \E q \in Requests \ {p} : TookOut(q, call[p].token)'
    BY <1>1, <1>7, <1>8, <2>1, <2>2 DEF Witnesses, TypeOK
  <2> QED BY <1>1, <2>3 DEF ErrorOnlyOnRace, TookOut
<1>12. CookiesReplaced'
  <2> SUFFICES ASSUME ~failed, NEW b \in Browsers, cookie[b] \in revoked'
               PROVE  \E q \in Requests : pc'[q] # "done" /\ call[q].browser = b /\ TookOut(q, cookie[b])'
    BY <1>1 DEF CookiesReplaced, TookOut
  <2>1. CASE cookie[b] \in revoked
    BY <1>1, <1>7, <2>1 DEF Unfailed, CookiesReplaced, Witnesses, TypeOK, Own
  <2>2. CASE cookie[b] \notin revoked
    <3>1. cookie[b] = call[r].token
      BY <1>1, <2>2
    <3>2. call[r].browser = b
      BY <1>1, <3>1, NoneAssumption DEF Always, Homes, TypeOK
    <3> QED BY <1>1, <1>9, <3>1, <3>2
  <2> QED BY <2>1, <2>2
<1>13. LogoutsOver'
  <2>1. call[r].token \notin Live'
    BY <1>1 DEF Live
  <2> QED BY <1>1, <1>8, <2>1 DEF Unfailed, LogoutsOver, Own
<1>14. Succession'
  <2> SUFFICES ASSUME ~failed, NEW t \in revoked'
               PROVE  Over(family[t])' \/ \E q \in Requests : PassedOn(q, t)'
    BY <1>1 DEF Succession, Over, PassedOn
  <2>1. CASE t \notin revoked
    <3>1. t = call[r].token /\ t \in created \ revoked
      BY <1>1, <2>1
    <3>2. \A s \in created \ revoked' : family[s] # family[t]
      BY <1>1, <3>1 DEF OneTokenPerLogin
    <3>3. \A q \in Rotating : family[call[q].token] # family[t]
      BY <3>1 DEF OneTokenPerLogin, Rotates
    <3> QED BY <1>1, <1>8, <3>2, <3>3 DEF Over
  <2>2. CASE t \in revoked /\ Over(family[t])
    BY <1>1, <1>8, <2>2 DEF Over
  <2>3. CASE t \in revoked /\ ~Over(family[t])
    BY <1>7, <2>3 DEF Unfailed, Succession, Witnesses, TypeOK
  <2> QED BY <2>1, <2>2, <2>3
<1> QED BY <1>3, <1>4, <1>5, <1>6, <1>10, <1>11, <1>12, <1>13, <1>14 DEF Always, Unfailed

\* A statement fails, or a response is lost.
LEMMA FailJ ==
  ASSUME IInv, JInv, NEW r \in Requests, Fail(r) \/ LoseResponse(r)
  PROVE  JInv'
<1> USE DEF IInv, JInv
<1>1. /\ Own(r) /\ UNCHANGED <<status, created, revoked, owner, family, cookie, call, issued, barred>>
      /\ failed' = TRUE
      /\ \/ pc[r] \in Statements /\ pc'[r] = "respond"
         \/ pc[r] = "respond" /\ pc'[r] = "done" /\ result'[r] = result[r]
  BY DEF Fail, LoseResponse, Own, At, Answer, TypeOK, table
<1>2. pc[r] \in Statements => issued[r] = None
  BY DEF Always, Answered, Statements
<1>3. Answered'
  BY <1>1, <1>2 DEF Always, Answered, Own, Statements
<1>4. Barring'
  BY <1>1, <1>2 DEF Always, Barring, Own, At, Statements
<1>5. Unseen'
  BY <1>1, <1>2 DEF Always, Unseen, Own, Statements
<1>6. Homes' /\ Roots'
  BY <1>1 DEF Always, Homes, Roots, Own, Statements
<1> QED BY <1>1, <1>3, <1>4, <1>5, <1>6, FailedStep DEF Always

\* The response replaces or clears the cookie, unless the request changed nothing.
LEMMA RespondJ ==
  ASSUME IInv, JInv, NEW r \in Requests, Respond(r)
  PROVE  JInv'
<1> USE DEF IInv, JInv
<1> DEFINE b == call[r].browser
<1>1. /\ Own(r)
      /\ UNCHANGED <<status, created, revoked, expired, owner, family, call, result, issued, barred, failed>>
      /\ pc[r] = "respond" /\ pc'[r] = "done" /\ b \in Browsers
      /\ cookie'[b] = CookieAfter(r) /\ \A d \in Browsers \ {b} : cookie'[d] = cookie[d]
  BY DEF Respond, Own, TypeOK, table, history, CallsMatch, Calls
<1>2. \/ issued[r] # None /\ cookie'[b] = issued[r]
      \/ cookie'[b] = None
      \/ cookie'[b] = cookie[b] /\ call[r].op # "logout" /\ issued[r] = None
  BY <1>1 DEF CookieAfter, Always, Answered
<1>3. Answered'
  BY <1>1 DEF Always, Answered, Own
<1>4. Barring' /\ Roots'
  BY <1>1 DEF Always, Barring, Roots, Own, At
<1>5. Unseen'
  BY <1>1, <1>2 DEF Always, Unseen, Own
<1>6. Homes'
  BY <1>1, <1>2 DEF Always, Homes, Unseen, Own
<1>7. Witnesses
  BY <1>1 DEF Witnesses, TookOut, PassedOn, Own, At
<1>8. Rotating' = Rotating /\ Live' = Live
  BY <1>1 DEF Rotating, At, Own, Live
<1>9. RevokedBySomeone'
  BY <1>1, <1>7 DEF Unfailed, RevokedBySomeone, Witnesses, TypeOK
<1>10. ErrorOnlyOnRace'
  BY <1>1 DEF Unfailed, ErrorOnlyOnRace, Own, At
<1>11. CookiesReplaced'
  <2> SUFFICES ASSUME ~failed, NEW d \in Browsers, cookie'[d] \in revoked
               PROVE  \E q \in Requests : pc'[q] # "done" /\ call[q].browser = d /\ TookOut(q, cookie[d])'
    BY <1>1 DEF CookiesReplaced, TookOut
  <2>1. cookie'[d] = cookie[d] /\ (d = b => call[r].op # "logout" /\ issued[r] = None)
    <3>1. CASE d # b
      BY <1>1, <3>1
    <3>2. CASE d = b
      BY <1>1, <1>2, <3>2, NoneAssumption DEF Always, Unseen, TypeOK
    <3> QED BY <3>1, <3>2
  <2>2. PICK q \in Requests : pc[q] # "done" /\ call[q].browser = d /\ TookOut(q, cookie[d])
    BY <2>1 DEF Unfailed, CookiesReplaced
  <2>3. q # r
    BY <1>1, <2>1, <2>2 DEF TookOut, At
  <2> QED BY <1>1, <1>7, <2>1, <2>2, <2>3 DEF Own, Witnesses, TypeOK
<1>12. LogoutsOver'
  BY <1>1, <1>8 DEF Unfailed, LogoutsOver, Own
<1>13. Succession'
  BY <1>1, <1>7, <1>8 DEF Unfailed, Succession, Over, Witnesses, TypeOK
<1> QED BY <1>3, <1>4, <1>5, <1>6, <1>9, <1>10, <1>11, <1>12, <1>13 DEF Always, Unfailed

\* An administrator changes a status, or the clock passes an expiry.
LEMMA OutsideJ ==
  ASSUME IInv, JInv,
         \/ \E u \in Users, st \in {"active", "inactive"} : UpdateStatus(u, st)
         \/ \E s \in Sessions : Expire(s)
  PROVE  JInv'
<1> USE DEF IInv, JInv
<1>1. /\ UNCHANGED <<created, revoked, owner, family, cookie, pc, call, result, issued, failed>>
      /\ Live' \subseteq Live /\ Rotating' = Rotating /\ Witnesses
  BY DEF UpdateStatus, Expire, Live, Rotating, Witnesses, TookOut, PassedOn, At, table, history
<1>2. Answered' /\ Unseen' /\ Homes' /\ Roots'
  BY <1>1 DEF Always, Answered, Unseen, Homes, Roots
<1>3. Barring'
  <2>1. CASE \E s \in Sessions : Expire(s)
    BY <1>1, <2>1 DEF Expire, history, Always, Barring, At
  <2>2. CASE \E u \in Users, st \in {"active", "inactive"} : UpdateStatus(u, st)
    <3>1. PICK u \in Users, st \in {"active", "inactive"} : UpdateStatus(u, st)
      BY <2>2
    <3>2. \A q \in Requests : barred'[q] => barred[q] /\ ~(st = "active" /\ call[q].user = u)
      BY <3>1 DEF UpdateStatus
    <3>3. \A v \in Users : status'[v] = IF v = u THEN st ELSE status[v]
      BY <3>1 DEF UpdateStatus, TypeOK
    <3>4. \A q \in Requests : barred'[q] =>
            pc[q] # "idle" /\ call[q].user \in Users /\ status'[call[q].user] = "inactive"
      BY <3>2, <3>3 DEF Always, Barring
    <3>5. \A q \in Requests :
            pc[q] = "issue" \/ At(q, "refresh", "revoke") \/ issued[q] # None => ~barred'[q]
      BY <3>2 DEF Always, Barring
    <3> QED BY <1>1, <3>4, <3>5 DEF Barring, At
  <2> QED BY <2>1, <2>2
<1>4. RevokedBySomeone' /\ CookiesReplaced'
  BY <1>1 DEF Unfailed, RevokedBySomeone, CookiesReplaced, TookOut, At
<1>5. ErrorOnlyOnRace'
  BY <1>1 DEF Unfailed, ErrorOnlyOnRace, At
<1>6. LogoutsOver'
  BY <1>1 DEF Unfailed, LogoutsOver
<1>7. Succession'
  BY <1>1 DEF Unfailed, Succession, Over, PassedOn
<1> QED BY <1>2, <1>3, <1>4, <1>5, <1>6, <1>7 DEF Always, Unfailed

LEMMA NextJ == IInv /\ JInv /\ [Next]_vars => JInv'
<1> SUFFICES ASSUME IInv, JInv, [Next]_vars PROVE JInv'
  OBVIOUS
<1>1. CASE Next
  BY <1>1, ArriveJ, NoCookieJ, ReadJ, RevokeJ, IssueJ, LogoutJ, FailJ, RespondJ, OutsideJ DEF Next, RequestNext
<1>2. CASE UNCHANGED vars
  <2> USE <1>2 DEF vars, table, history
  <2>1. Always'
    BY DEF JInv, Always, Answered, Barring, Unseen, Homes, Roots, At
  <2>2. Rotating' = Rotating /\ Live' = Live
    BY DEF Rotating, At, Live
  <2>3. Unfailed'
    BY <2>2 DEF JInv, Unfailed, RevokedBySomeone, ErrorOnlyOnRace, CookiesReplaced, LogoutsOver, Succession,
                TookOut, PassedOn, Over, At
  <2> QED BY <2>1, <2>3 DEF JInv
<1> QED BY <1>1, <1>2

LEMMA InductiveJ == Spec => []JInv
  BY InitJ, NextJ, Inductive, PTL DEF Spec

\* A ban in force during the whole of a login or refresh keeps it from getting a session.
THEOREM BansRespected == Spec => []BannedGetNothing
<1>1. JInv => BannedGetNothing
  BY DEF JInv, Always, Barring, BannedGetNothing
<1> QED BY <1>1, InductiveJ, PTL

\* A server error without a database error is the loss of a race for the row.
THEOREM ErrorsExplained == Spec => []ErrorOnlyOnRace
<1>1. JInv => ErrorOnlyOnRace
  BY DEF JInv, Unfailed
<1> QED BY <1>1, InductiveJ, PTL

\* A browser at rest never keeps a token the server has revoked: whoever revokes it
\* answers the browser that kept it, and that answer replaces or clears the cookie.
THEOREM CookiesUsable == Spec => []CookieNotRevoked
<1>1. JInv => CookieNotRevoked
  BY DEF JInv, Unfailed, CookiesReplaced, TookOut, CookieNotRevoked, Quiet
<1> QED BY <1>1, InductiveJ, PTL

\* A finished logout has ended its login unless a refresh of the same token got through.
THEOREM LogoutsEffective == Spec => []LogoutEndsLogin
<1>1. ASSUME IInv, JInv PROVE LogoutEndsLogin
  <2> SUFFICES
        ASSUME ~failed, NEW r \in Requests, pc[r] = "done", call[r].op = "logout", call[r].token # None,
               \A q \in Requests \ {r} :
                 pc[q] # "idle" /\ call[q].op = "refresh" /\ call[q].token = call[r].token
                   => result[q] \in {"invalid", "disabled", "error"}
        PROVE  /\ \A s \in Live : family[s] # family[call[r].token]
               /\ \A q \in Requests : ~Rotates(q, family[call[r].token])
    BY DEF LogoutEndsLogin
  <2>1. call[r].token \in created \ Live
    BY <1>1 DEF IInv, CallsMatch, JInv, Unfailed, LogoutsOver
  <2>2. CASE call[r].token \in revoked
    <3>1. \A q \in Requests : ~PassedOn(q, call[r].token)
      BY <1>1 DEF PassedOn, JInv, Always, Answered
    <3>2. Over(family[call[r].token])
      BY <1>1, <2>2, <3>1 DEF JInv, Unfailed, Succession
    <3> QED BY <3>2 DEF Over, Live, Rotates
  <2>3. CASE call[r].token \notin revoked
    BY <1>1, <2>1, <2>3 DEF IInv, OneTokenPerLogin, Live, Rotates
  <2> QED BY <2>2, <2>3
<1> QED BY <1>1, Inductive, InductiveJ, PTL

-----------------------------------------------------------------------------
(* Requests that overlap implement rotation as single steps.                *)

Root(f) == f \in created /\ family[f] = f
Claims(s, f) == s \in created \ revoked /\ family[s] = f
Replacing(f) == \E r \in Requests : Rotates(r, f)

\* Holder as a relation: the login's only unrevoked session, or else the refresh
\* that is replacing it.
HolderSpec ==
  \A f \in Sessions :
    /\ ~Root(f) => Holder(f) = "unborn"
    /\ \A s \in Sessions : Root(f) /\ Claims(s, f) => Holder(f) = s
    /\ Root(f) /\ (\A s \in Sessions : ~Claims(s, f)) =>
         Holder(f) = IF Replacing(f) THEN "rotating" ELSE "ended"

LEMMA HolderIs == IInv => HolderSpec
<1> SUFFICES ASSUME IInv, NEW f \in Sessions
             PROVE  /\ ~Root(f) => Holder(f) = "unborn"
                    /\ \A s \in Sessions : Root(f) /\ Claims(s, f) => Holder(f) = s
                    /\ Root(f) /\ (\A s \in Sessions : ~Claims(s, f)) =>
                         Holder(f) = IF Replacing(f) THEN "rotating" ELSE "ended"
  BY DEF HolderSpec
<1> DEFINE rows == {s \in created \ revoked : family[s] = f}
<1>1. ~Root(f) => Holder(f) = "unborn"
  BY DEF Holder, Root
<1>2. ASSUME NEW s \in Sessions, Root(f), Claims(s, f) PROVE Holder(f) = s
  <2>1. s \in rows /\ \A t \in rows : t = s
    BY <1>2 DEF Claims, IInv, OneTokenPerLogin
  <2>2. Holder(f) = CHOOSE t \in rows : TRUE
    BY <1>2, <2>1 DEF Holder, Root
  <2> QED BY <2>1, <2>2
<1>3. ASSUME Root(f), \A s \in Sessions : ~Claims(s, f)
      PROVE  Holder(f) = IF Replacing(f) THEN "rotating" ELSE "ended"
  <2>1. rows = {}
    BY <1>3 DEF Claims, IInv, TypeOK
  <2> QED BY <1>3, <2>1 DEF Holder, Root, Replacing
<1> QED BY <1>1, <1>2, <1>3

\* A login that keeps its root, its unrevoked session and its refresh keeps its holder.
LEMMA SameHolder ==
  ASSUME HolderSpec, HolderSpec', NEW f \in Sessions,
         Root(f)' <=> Root(f), \A s \in Sessions : Claims(s, f)' <=> Claims(s, f),
         Replacing(f)' <=> Replacing(f)
  PROVE  Holder(f)' = Holder(f)
  BY DEF HolderSpec

Map == [f \in Sessions |-> Holder(f)]

\* Steps that touch neither the rows nor a rotating refresh are invisible.
LEMMA Invisible ==
  ASSUME HolderSpec, HolderSpec', UNCHANGED <<created, revoked, family>>,
         Rotating' = Rotating, \A q \in Rotating : call'[q] = call[q]
  PROVE  UNCHANGED <<Map, created>>
<1>1. ASSUME NEW f \in Sessions PROVE Holder(f)' = Holder(f)
  <2>1. (Root(f)' <=> Root(f)) /\ \A s \in Sessions : Claims(s, f)' <=> Claims(s, f)
    BY DEF Root, Claims
  <2>2. Replacing(f)' <=> Replacing(f)
    BY DEF Replacing, Rotates
  <2> QED BY <2>1, <2>2, SameHolder
<1> QED BY <1>1 DEF Map

\* One login changes hands and the others keep their holders.
Moved(f, h) == /\ Holder(f)' = h
               /\ \A g \in Sessions \ {f} : Holder(g)' = Holder(g)

LEMMA MapMoves ==
  ASSUME NEW f \in Sessions, NEW h, Moved(f, h)
  PROVE  Map' = [Map EXCEPT ![f] = h]
  BY DEF Moved, Map

\* A login's session starts its own family; a refresh's takes over from the refresh.
LEMMA IssueRefines ==
  ASSUME IInv, IInv', JInv, HolderSpec, HolderSpec', NEW r \in Requests, IssueTokens(r)
  PROVE  R!RotationNext
<1> USE DEF IInv
<1>1. PICK s \in Sessions \ created :
        /\ created' = created \cup {s}
        /\ family' = [family EXCEPT ![s] = IF call[r].op = "login" THEN s
                                                          ELSE family[call[r].token]]
  BY DEF IssueTokens
<1>2. /\ UNCHANGED <<revoked, call>> /\ pc[r] = "issue"
      /\ call[r].op \in {"login", "refresh"}
      /\ call[r].op # "login" => call[r].token \in created
      /\ s \notin revoked
      /\ \A t \in created : family'[t] = family[t] /\ t # s
      /\ Rotating' = Rotating \ {r} /\ \A q \in Rotating : call[q].token \in created
  BY <1>1 DEF IssueTokens, Answer, TypeOK, history, CallsMatch, Calls, Rotating, At
<1>3. CASE call[r].op = "login"
  <2>1. family'[s] = s /\ r \notin Rotating
    BY <1>1, <1>3 DEF TypeOK, Rotating, At
  <2>2. Holder(s) = "unborn" /\ Holder(s)' = s
    BY <1>1, <1>2, <2>1 DEF HolderSpec, Root, Claims
  <2>3. ASSUME NEW g \in Sessions \ {s} PROVE Holder(g)' = Holder(g)
    <3>1. (Root(g)' <=> Root(g)) /\ \A t \in Sessions : Claims(t, g)' <=> Claims(t, g)
      BY <1>1, <1>2, <2>1 DEF Root, Claims
    <3>2. Replacing(g)' <=> Replacing(g)
      BY <1>2, <2>1 DEF Replacing, Rotates
    <3> QED BY <3>1, <3>2, SameHolder
  <2>4. Map' = [Map EXCEPT ![s] = s] /\ Map[s] = "unborn"
    BY <2>2, <2>3, MapMoves DEF Moved, Map
  <2>5. R!NewLogin(s)
    BY <1>1, <2>4 DEF R!NewLogin, Map
  <2> QED BY <2>5 DEF R!RotationNext
<1>4. CASE call[r].op = "refresh"
  <2>1. PICK f \in Sessions :
          /\ f = family[call[r].token] /\ f \in created /\ family[f] = f
          /\ family'[s] = f /\ r \in Rotating /\ Rotates(r, f)
    BY <1>1, <1>2, <1>4 DEF TypeOK, Rotating, Rotates, At, FamiliesExist, JInv, Always, Roots
  <2>2. Holder(f) = "rotating"
    BY <2>1 DEF HolderSpec, Root, Claims, Replacing, OneTokenPerLogin
  <2>3. Holder(f)' = s
    BY <1>1, <1>2, <2>1 DEF HolderSpec, Root, Claims
  <2>4. ASSUME NEW g \in Sessions \ {f} PROVE Holder(g)' = Holder(g)
    <3>1. (Root(g)' <=> Root(g)) /\ \A t \in Sessions : Claims(t, g)' <=> Claims(t, g)
      BY <1>1, <1>2, <2>1 DEF Root, Claims
    <3>2. Replacing(g)' <=> Replacing(g)
      BY <1>2, <2>1 DEF Replacing, Rotates
    <3> QED BY <3>1, <3>2, SameHolder
  <2>5. Map' = [Map EXCEPT ![f] = s] /\ Map[f] = "rotating"
    BY <2>1, <2>2, <2>3, <2>4, MapMoves DEF Moved, Map
  <2>6. R!Renew(f, s)
    BY <1>1, <2>5 DEF R!Renew, Map
  <2> QED BY <2>1, <2>6 DEF R!RotationNext
<1> QED BY <1>2, <1>3, <1>4

\* A token is taken out by a refresh, which then holds the login, or by a logout,
\* which ends it.
LEMMA RevokeRefines ==
  ASSUME IInv, IInv', JInv, HolderSpec, HolderSpec', NEW r \in Requests,
         RefreshRevoke(r) \/ LogoutRevoke(r)
  PROVE  R!RotationNext \/ UNCHANGED <<Map, created>>
<1> USE DEF IInv
<1>1. PICK f \in Sessions :
      /\ UNCHANGED <<created, family, call>> /\ pc[r] = "revoke"
      /\ call[r].token \in created /\ r \notin Rotating
      /\ f = family[call[r].token] /\ f \in created /\ family[f] = f /\ call[r].token \in Sessions
  BY DEF RefreshRevoke, LogoutRevoke, At, CallsMatch, Rotating, TypeOK, FamiliesExist, JInv, Always, Roots
<1>2. CASE call[r].token \in revoked
  <2>1. revoked' = revoked /\ pc' = [pc EXCEPT ![r] = "respond"]
    BY <1>2 DEF RefreshRevoke, LogoutRevoke, RowMatches, Answer
  <2>2. Rotating' = Rotating
    BY <1>1, <2>1 DEF Rotating, At, TypeOK
  <2> QED BY <1>1, <2>1, <2>2, Invisible
<1>3. CASE call[r].token \notin revoked
  <2>1. revoked' = revoked \cup {call[r].token}
    BY <1>1, <1>3 DEF RefreshRevoke, LogoutRevoke, RowMatches
  <2>2. Holder(f) = call[r].token
    BY <1>1, <1>3 DEF HolderSpec, Root, Claims
  <2>3. Root(f)' /\ \A t \in Sessions : ~Claims(t, f)'
    BY <1>1, <1>3, <2>1 DEF Root, Claims, OneTokenPerLogin
  <2>4. \A q \in Rotating : ~Rotates(q, f)
    BY <1>1, <1>3 DEF OneTokenPerLogin
  <2>5. \A g \in Sessions \ {f} : (Root(g)' <=> Root(g)) /\ \A t \in Sessions : Claims(t, g)' <=> Claims(t, g)
    BY <1>1, <2>1 DEF Root, Claims
  <2>6. CASE RefreshRevoke(r)
    <3>1. Rotating' = Rotating \cup {r}
      BY <1>1, <1>3, <2>6 DEF RefreshRevoke, RowMatches, Goto, Rotating, At, TypeOK
    <3>2. Replacing(f)' /\ \A g \in Sessions \ {f} : Replacing(g)' <=> Replacing(g)
      BY <1>1, <3>1 DEF Replacing, Rotates
    <3>3. Holder(f)' = "rotating"
      BY <1>1, <2>3, <3>2 DEF HolderSpec
    <3>4. Map' = [Map EXCEPT ![f] = "rotating"] /\ Map[f] \in Sessions
      BY <1>1, <2>2, <2>5, <3>2, <3>3, SameHolder, MapMoves DEF Moved, Map
    <3>5. R!Surrender(f)
      BY <1>1, <3>4 DEF R!Surrender, Map
    <3> QED BY <1>1, <3>5 DEF R!RotationNext
  <2>7. CASE LogoutRevoke(r)
    <3>1. Rotating' = Rotating
      BY <1>1, <2>7 DEF LogoutRevoke, Answer, Rotating, At, TypeOK
    <3>2. ~Replacing(f)' /\ \A g \in Sessions \ {f} : Replacing(g)' <=> Replacing(g)
      BY <1>1, <2>4, <3>1 DEF Replacing, Rotates
    <3>3. Holder(f)' = "ended"
      BY <1>1, <2>3, <3>2 DEF HolderSpec
    <3>4. Map' = [Map EXCEPT ![f] = "ended"] /\ Map[f] \in Sessions
      BY <1>1, <2>2, <2>5, <3>2, <3>3, SameHolder, MapMoves DEF Moved, Map
    <3>5. R!End(f)
      BY <1>1, <3>4 DEF R!End, Map
    <3> QED BY <1>1, <3>5 DEF R!RotationNext
  <2> QED BY <2>6, <2>7
<1> QED BY <1>2, <1>3

\* A refresh that fails half way ends the login it held; other failures are invisible.
LEMMA FailRefines ==
  ASSUME IInv, IInv', JInv, HolderSpec, HolderSpec', NEW r \in Requests, Fail(r)
  PROVE  R!RotationNext \/ UNCHANGED <<Map, created>>
<1> USE DEF IInv
<1>1. UNCHANGED <<created, revoked, family, call>> /\ Rotating' = Rotating \ {r}
  BY DEF Fail, Answer, table, Rotating, At, TypeOK
<1>2. CASE r \notin Rotating
  BY <1>1, <1>2, Invisible
<1>3. CASE r \in Rotating
  <2>1. PICK f \in Sessions :
          /\ f = family[call[r].token] /\ f \in created /\ family[f] = f
          /\ call[r].token \in created /\ Rotates(r, f)
    BY <1>3 DEF Rotating, At, Rotates, CallsMatch, TypeOK, FamiliesExist, JInv, Always, Roots
  <2>2. (\A t \in Sessions : ~Claims(t, f)) /\ \A q \in Rotating \ {r} : ~Rotates(q, f)
    BY <1>3, <2>1 DEF Claims, OneTokenPerLogin, Rotates
  <2>3. Holder(f) = "rotating"
    BY <1>3, <2>1, <2>2 DEF HolderSpec, Root, Replacing, Rotates, Rotating
  <2>4. \A g \in Sessions : (Root(g)' <=> Root(g)) /\ \A t \in Sessions : Claims(t, g)' <=> Claims(t, g)
    BY <1>1 DEF Root, Claims
  <2>5. ~Replacing(f)' /\ \A g \in Sessions \ {f} : Replacing(g)' <=> Replacing(g)
    BY <1>1, <2>1, <2>2 DEF Replacing, Rotates
  <2>6. Holder(f)' = "ended"
    BY <2>1, <2>2, <2>4, <2>5 DEF HolderSpec, Root
  <2>7. Map' = [Map EXCEPT ![f] = "ended"] /\ Map[f] = "rotating"
    BY <2>1, <2>3, <2>4, <2>5, <2>6, SameHolder, MapMoves DEF Moved, Map
  <2>8. R!End(f)
    BY <1>1, <2>7 DEF R!End, Map
  <2> QED BY <2>1, <2>8 DEF R!RotationNext
<1> QED BY <1>2, <1>3

\* Every other step leaves the rows and the rotating refreshes alone.
LEMMA OthersInvisible ==
  ASSUME IInv, HolderSpec, HolderSpec',
         \/ \E r \in Requests :
              \/ StartLogin(r) \/ StartRefresh(r) \/ StartLogout(r) \/ LogoutWithoutCookie(r)
              \/ LoginLookup(r) \/ RefreshLookup(r) \/ RefreshUser(r) \/ LogoutLookup(r)
              \/ Respond(r) \/ LoseResponse(r)
         \/ \E u \in Users, st \in {"active", "inactive"} : UpdateStatus(u, st)
         \/ \E s \in Sessions : Expire(s)
         \/ UNCHANGED vars
  PROVE  UNCHANGED <<Map, created>>
<1> USE DEF IInv, Rotating, At, TypeOK, table, history, Goto, Answer
<1> SUFFICES /\ UNCHANGED <<created, revoked, family>>
             /\ Rotating' = Rotating /\ \A q \in Rotating : call'[q] = call[q]
  BY Invisible
<1>1. ASSUME NEW r \in Requests, StartLogin(r) \/ StartRefresh(r) \/ StartLogout(r)
      PROVE  /\ UNCHANGED <<created, revoked, family>>
             /\ Rotating' = Rotating /\ \A q \in Rotating : call'[q] = call[q]
  <2>1. PICK op, b, t, u : Arrive(r, op, b, t, u)
    BY <1>1 DEF StartLogin, StartRefresh, StartLogout
  <2> QED BY <2>1 DEF Arrive
<1>2. ASSUME NEW r \in Requests, LoginLookup(r)
      PROVE  UNCHANGED <<created, revoked, family, call>> /\ Rotating' = Rotating
  BY <1>2 DEF LoginLookup
<1>3. ASSUME NEW r \in Requests, RefreshLookup(r) \/ RefreshUser(r) \/ LogoutLookup(r)
      PROVE  UNCHANGED <<created, revoked, family, call>> /\ Rotating' = Rotating
  BY <1>3 DEF RefreshLookup, RefreshUser, LogoutLookup
<1>4. ASSUME NEW r \in Requests, Respond(r) \/ LoseResponse(r)
      PROVE  UNCHANGED <<created, revoked, family, call>> /\ Rotating' = Rotating
  BY <1>4 DEF Respond, LoseResponse
<1>5. ASSUME \/ \E u \in Users, st \in {"active", "inactive"} : UpdateStatus(u, st)
             \/ \E s \in Sessions : Expire(s)
             \/ UNCHANGED vars
      PROVE  UNCHANGED <<created, revoked, family, call>> /\ Rotating' = Rotating
  BY <1>5 DEF UpdateStatus, Expire, vars
<1>6. ASSUME NEW r \in Requests, LogoutWithoutCookie(r)
      PROVE  /\ UNCHANGED <<created, revoked, family>>
             /\ Rotating' = Rotating /\ \A q \in Rotating : call'[q] = call[q]
  BY <1>6 DEF LogoutWithoutCookie
<1> QED BY <1>1, <1>2, <1>3, <1>4, <1>5, <1>6

\* Login, refresh and logout, interleaved statement by statement and failing
\* anywhere, implement rotation: every login has one holder at a time, given up
\* for the next, and one that ended stays ended.
THEOREM RotationImplemented == Spec => ImplementsRotation
<1>1. Init => R!RotationInit
  BY DEF Init, R!RotationInit, Holder
<1>2. ASSUME IInv, IInv', JInv, HolderSpec, HolderSpec', [Next]_vars
      PROVE  [R!RotationNext]_<<Map, created>>
  BY <1>2, IssueRefines, RevokeRefines, FailRefines, OthersInvisible DEF Next, RequestNext
<1>3. ASSUME [R!RotationNext]_<<Map, created>>
      PROVE  [R!RotationNext]_<<[f \in Sessions |-> Holder(f)], created>>
  BY <1>3 DEF Map
<1> QED BY <1>1, <1>2, <1>3, HolderIs, Inductive, InductiveJ, PTL
        DEF Spec, ImplementsRotation, R!RotationSpec
=============================================================================
