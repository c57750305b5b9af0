------------------------------ MODULE Accounts ------------------------------
(***************************************************************************)
(* Accounts and their roles: registration (AuthService.Register), the      *)
(* install wizard (InstallService.Setup) and the admin API                 *)
(* (AdminService.UpdateUser, UpdateSettings) over the tables users,        *)
(* user_roles and settings.                                                *)
(*                                                                         *)
(* One SQL statement per step.  Only UpdateRoles runs in a transaction, at *)
(* PostgreSQL's default level READ COMMITTED: a statement sees the rows    *)
(* committed when it started, waits for the locks of open transactions,    *)
(* and skips rows that were deleted while it waited.  With Failures any    *)
(* statement of a request may return an error; one that took effect before *)
(* its error is the failure of the next step, or, for the last statement,  *)
(* a success whose response never arrived.                                 *)
(*                                                                         *)
(* Usernames (and e-mail addresses) are unique and users are never         *)
(* deleted, so a user is identified with the name it registered.           *)
(***************************************************************************)
EXTENDS FiniteSets

CONSTANTS Names, Requests, None,
          CallSet,    \* the requests the environment may send
          Failures

Roles == {"member", "moderator", "admin"}
Statuses == {"active", "banned", "pending"}
Ops   == {"register", "setup", "update", "settings"}
Calls == [op : Ops, user : Names \cup {None},
          roles : (SUBSET (Roles \cup {"other"})) \cup {None},   \* None: field absent
          status : Statuses \cup {"other", None}]

\* Registration, setup and an update of a user name the user they are about.
ASSUME CallSetAssumption ==
  /\ CallSet \subseteq Calls
  /\ \A c \in CallSet : c.op # "settings" => c.user \in Names
ASSUME FailuresAssumption == Failures \in BOOLEAN
ASSUME NoneAssumption == None \notin Names /\ None \notin Requests

VARIABLES
  users,       \* users: the names taken
  status,      \* users.status
  rows,        \* user_roles: committed rows, told apart by the request that wrote them
  installed,   \* settings: system.installed
  forumName,   \* settings: forum.name, as the request that wrote it
  call, pc, result,
  snap,        \* UpdateRoles: the rows its DELETE saw when it started
  del, ins,    \* UpdateRoles: rows deleted and inserted, not committed yet
  adminSeen    \* history: some user has held the admin role

tx   == <<snap, del, ins>>
db   == <<users, status, rows, installed, forumName>>
vars == <<db, call, pc, result, tx, adminSeen>>

Row(u, role, r) == [user |-> u, role |-> role, by |-> r]
Rows == [user : Names, role : Roles, by : Requests]
RowsOf(u) == {w \in rows : w.user = u}
RolesOf(u) == {w.role : w \in RowsOf(u)}
HasRole(u, role) == \E w \in rows : w.user = u /\ w.role = role

Init ==
  /\ users = {} /\ status = [u \in Names |-> "active"] /\ rows = {}
  /\ installed = FALSE /\ forumName = None
  /\ call \in [Requests -> CallSet]
  /\ pc = [r \in Requests |-> "idle"] /\ result = [r \in Requests |-> "none"]
  /\ snap = [r \in Requests |-> {}] /\ del = [r \in Requests |-> {}]
  /\ ins = [r \in Requests |-> {}]
  /\ adminSeen = FALSE

Op(r)   == call[r].op
User(r) == call[r].user

Goto(r, next) == pc' = [pc EXCEPT ![r] = next] /\ result' = result
Answer(r, res) == /\ pc' = [pc EXCEPT ![r] = "done"]
                  /\ result' = [result EXCEPT ![r] = res]

-----------------------------------------------------------------------------
MutRoleBeforeUser ==
  [register |-> "member", setup |-> "check", update |-> "status", settings |-> "name"]
FirstStep == [register |-> "create", setup |-> "check", update |-> "status", settings |-> "name"]

\* A request arrives.  The admin routes require the admin role in the access
\* token, which was issued while its holder had it.
Start(r) ==
  /\ pc[r] = "idle"
  /\ Op(r) \in {"update", "settings"} => adminSeen
  /\ Goto(r, FirstStep[Op(r)])
  /\ UNCHANGED <<db, call, tx, adminSeen>>

MayInstall == ~installed

\* Setup: Status, then the validation of the input.
SetupCheck(r) ==
  /\ pc[r] = "check"
  /\ IF MayInstall THEN Goto(r, "create") ELSE Answer(r, "already_installed")
  /\ UNCHANGED <<db, call, tx, adminSeen>>

\* UserStore.Create, for Register and for Setup.
CreateUser(r) ==
  /\ pc[r] = "create"
  /\ IF User(r) \in users
       THEN users' = users /\ Answer(r, "conflict")
       ELSE users' = users \cup {User(r)} /\ Goto(r, "member")
  /\ UNCHANGED <<status, rows, installed, forumName, call, tx, adminSeen>>

\* An open transaction has touched the user's row for a role.
Locked(r, u, role) ==
  \E q \in Requests \ {r} : \E w \in del[q] \cup ins[q] : w.user = u /\ w.role = role

\* UserStore.AssignRole: an INSERT, which the primary key (user, role) may refuse.
AssignRole(r, role, next) ==
  /\ ~Locked(r, User(r), role)
  /\ IF HasRole(User(r), role)
       THEN rows' = rows /\ Answer(r, "error")
       ELSE /\ rows' = rows \cup {Row(User(r), role, r)}
            /\ IF next = "done" THEN Answer(r, "ok") ELSE Goto(r, next)
  /\ adminSeen' = (adminSeen \/ role = "admin")
  /\ UNCHANGED <<users, status, installed, forumName, call, tx>>

MutMarkedFirst == [member |-> "installed", installed |-> "admin", admin |-> "name"]
\* The order of Setup's writes after the user row.
SetupNext == [member |-> "admin", admin |-> "installed", installed |-> "name"]

MutRoleErrorIgnored(r) ==
  /\ pc[r] = "member"
  /\ IF Op(r) = "setup" THEN Goto(r, SetupNext.member) ELSE Answer(r, "ok")
  /\ \/ rows' = rows
     \/ ~HasRole(User(r), "member") /\ rows' = rows \cup {Row(User(r), "member", r)}
  /\ UNCHANGED <<users, status, installed, forumName, call, tx, adminSeen>>
AddMemberRole(r) ==
  /\ pc[r] = "member"
  /\ AssignRole(r, "member", IF Op(r) = "setup" THEN SetupNext.member ELSE "done")

AddAdminRole(r) == pc[r] = "admin" /\ AssignRole(r, "admin", SetupNext.admin)

MarkInstalled(r) ==
  /\ pc[r] = "installed"
  /\ installed' = TRUE
  /\ Goto(r, SetupNext.installed)
  /\ UNCHANGED <<users, status, rows, forumName, call, tx, adminSeen>>

\* The last write of Setup, and all that UpdateSettings writes.
SetForumName(r) ==
  /\ pc[r] = "name"
  /\ forumName' = r
  /\ Answer(r, "ok")
  /\ UNCHANGED <<users, status, rows, installed, call, tx, adminSeen>>

-----------------------------------------------------------------------------
(* AdminService.UpdateUser: the status is stored before the roles are      *)
(* looked at.                                                              *)

UpdateStatus(r) ==
  LET st == call[r].status IN
  /\ pc[r] = "status"
  /\ \/ st = None /\ status' = status /\ Goto(r, "roles")
     \/ st = "other" /\ status' = status /\ Answer(r, "invalid")
     \/ /\ st \in Statuses
        /\ IF User(r) \in users
             THEN status' = [status EXCEPT ![User(r)] = st] /\ Goto(r, "roles")
             ELSE status' = status /\ Answer(r, "not_found")
  /\ UNCHANGED <<users, rows, installed, forumName, call, tx, adminSeen>>

\* The roles are validated, and the DELETE of UpdateRoles starts.
RolesBegin(r) ==
  LET S == call[r].roles IN
  /\ pc[r] = "roles"
  /\ \/ S = None /\ Goto(r, "read") /\ snap' = snap
     \/ S # None /\ (S = {} \/ "other" \in S) /\ Answer(r, "invalid") /\ snap' = snap
     \/ /\ S # None /\ S # {} /\ S \subseteq Roles
        /\ snap' = [snap EXCEPT ![r] = RowsOf(User(r))]
        /\ Goto(r, "delete")
  /\ UNCHANGED <<db, call, del, ins, adminSeen>>

MutNoTransaction(r) ==
  /\ pc[r] = "delete"
  /\ rows' = rows \ snap[r]
  /\ Goto(r, "insert")
  /\ UNCHANGED <<users, status, installed, forumName, call, tx, adminSeen>>
\* The DELETE waits for rows that open transactions hold and then takes those
\* of its snapshot that still exist.
RolesDelete(r) ==
  /\ pc[r] = "delete"
  /\ \A q \in Requests \ {r} : del[q] \cap snap[r] = {}
  /\ del' = [del EXCEPT ![r] = snap[r] \cap rows]
  /\ Goto(r, "insert")
  /\ UNCHANGED <<db, call, snap, ins, adminSeen>>

Rollback(r) == /\ del' = [del EXCEPT ![r] = {}] /\ ins' = [ins EXCEPT ![r] = {}]
               /\ snap' = [snap EXCEPT ![r] = {}]

MutOnConflictDoNothing(r) ==
  LET u == User(r)
      held == {w.role : w \in RowsOf(u) \ del[r]}
  IN
  /\ pc[r] = "insert"
  /\ \A role \in call[r].roles : ~Locked(r, u, role)
  /\ IF u \notin users
       THEN Rollback(r) /\ Answer(r, "error")
       ELSE /\ ins' = [ins EXCEPT ![r] = {Row(u, role, r) : role \in call[r].roles \ held}]
            /\ UNCHANGED <<del, snap>>
            /\ Goto(r, "commit")
  /\ UNCHANGED <<db, call, adminSeen>>
\* The INSERT: the foreign key or the primary key may refuse it.  (A role named
\* twice in the request is one more error here, covered by Fail.)
RolesInsert(r) ==
  LET u == User(r)
      S == call[r].roles
  IN
  /\ pc[r] = "insert"
  /\ \A role \in S : ~Locked(r, u, role)
  /\ IF u \notin users \/ \E w \in rows \ del[r] : w.user = u /\ w.role \in S
       THEN Rollback(r) /\ Answer(r, "error")
       ELSE /\ ins' = [ins EXCEPT ![r] = {Row(u, role, r) : role \in S}]
            /\ UNCHANGED <<del, snap>>
            /\ Goto(r, "commit")
  /\ UNCHANGED <<db, call, adminSeen>>

RolesCommit(r) ==
  /\ pc[r] = "commit"
  /\ rows' = (rows \ del[r]) \cup ins[r]
  /\ adminSeen' = (adminSeen \/ "admin" \in call[r].roles)
  /\ Rollback(r)
  /\ Goto(r, "read")
  /\ UNCHANGED <<users, status, installed, forumName, call>>

\* The answer reads the user and its roles back.
ReadBack(r) ==
  /\ pc[r] = "read"
  /\ Answer(r, IF User(r) \in users THEN "ok" ELSE "not_found")
  /\ UNCHANGED <<db, call, tx, adminSeen>>

\* A statement fails; an open transaction is rolled back.
Fail(r) ==
  /\ Failures /\ pc[r] \notin {"idle", "done"}
  /\ Rollback(r)
  /\ Answer(r, "error")
  /\ UNCHANGED <<db, call, adminSeen>>

RequestNext(r) ==
  \/ Start(r) \/ SetupCheck(r) \/ CreateUser(r) \/ AddMemberRole(r) \/ AddAdminRole(r)
  \/ MarkInstalled(r) \/ SetForumName(r)
  \/ UpdateStatus(r) \/ RolesBegin(r) \/ RolesDelete(r) \/ RolesInsert(r)
  \/ RolesCommit(r) \/ ReadBack(r) \/ Fail(r)

Next == \E r \in Requests : RequestNext(r)

Spec == Init /\ [][Next]_vars

-----------------------------------------------------------------------------
(* Properties. *)

PcValues == {"idle", "check", "create", "member", "admin", "installed", "name",
             "status", "roles", "delete", "insert", "commit", "read", "done"}

Results == {"none", "ok", "already_installed", "conflict", "invalid", "not_found", "error"}

Types ==
  /\ users \subseteq Names /\ status \in [Names -> Statuses]
  /\ rows \subseteq Rows /\ installed \in BOOLEAN /\ forumName \in Requests \cup {None}
  /\ call \in [Requests -> CallSet] /\ pc \in [Requests -> PcValues]
  /\ snap \in [Requests -> SUBSET Rows] /\ del \in [Requests -> SUBSET Rows]
  /\ ins \in [Requests -> SUBSET Rows] /\ result \in [Requests -> Results]
  /\ adminSeen \in BOOLEAN

PrimaryKey == \A v, w \in rows : v.user = w.user /\ v.role = w.role => v = w
ForeignKey == \A w \in rows : w.user \in users

\* Tables and requests have their types, and user_roles keeps its primary key
\* and its foreign key: one row per user and role, for users that exist.
TypeOK == Types /\ PrimaryKey /\ ForeignKey

Updated(u) == \E r \in Requests : Op(r) = "update" /\ User(r) = u /\ pc[r] # "idle"

\* An account whose registration or setup was answered with success has its
\* role, unless an administrator has since touched it.
SuccessMeansRoles ==
  \A r \in Requests :
    result[r] = "ok" /\ Op(r) \in {"register", "setup"} /\ ~Updated(User(r)) =>
      RolesOf(User(r)) = IF Op(r) = "setup" THEN {"member", "admin"} ELSE {"member"}

\* The forum is never marked installed before an administrator exists, wherever
\* a setup stops: otherwise nobody could ever install or administer it.
InstalledHasAdmin == installed => adminSeen

\* Replacing roles is atomic: a user that has a role is never seen without one.
RolesNeverVanish == [][\A u \in Names : RolesOf(u) # {} => RolesOf(u)' # {}]_vars

\* Of the roles an update names either all were written by it or none, however
\* it races with registrations and other updates; one refused as invalid wrote
\* none, although it may have stored its status.
RolesAllOrNothing ==
  \A r \in Requests : Op(r) = "update" =>
    LET wrote == {w.role : w \in {v \in rows : v.by = r}} IN
    wrote # {} => wrote = call[r].roles /\ result[r] # "invalid"

\* The wizard runs once: two setups are never both answered with success.
InstallOnce ==
  \A r, q \in Requests :
    Op(r) = "setup" /\ Op(q) = "setup" /\ result[r] = "ok" /\ result[q] = "ok" => r = q
=============================================================================
