# MasonicCore: TLA+ models and proofs

MasonicCore is the Go backend of a forum: an HTTP API (chi) over PostgreSQL and
an S3 object store, with a WebSocket hub for presence and notifications. Every
request runs in its own goroutine, most operations are several SQL statements
without a transaction, and any of them may fail half-way when the 30 s request
timeout or a disconnect cancels the context. The models here are about exactly
that: what interleaved, failing and retried requests can do to the shared state.

## 1. Inventory

| Component | State | Operations | What makes it hard |
|---|---|---|---|
| Realtime hub (`internal/ws`, `handlers/ws.go`) | registry `clients`, `online`, `notifyCh`, one `send` channel per client, `mu` | register, unregister, deliver, Notify, Broadcast, ReadPump, WritePump, Close | five kinds of goroutines, an RWMutex, bounded channels, close against send |
| Sessions (`services/auth.go`, `store/session.go`, `handlers/auth.go`) | `user_sessions`, the refresh cookie in the browser | login, refresh (rotation), logout, expiry, status change | concurrent refreshes of one cookie, lost responses, a ban in between |
| Accounts and roles (`services/auth.go`, `store/user.go`) | `users`, `user_roles` | register, UpdateStatus, UpdateRoles (the only explicit transaction besides thread creation) | partial failure, READ COMMITTED anomalies |
| Install wizard (`services/install.go`) | `settings` | Setup | check-then-act over five statements |
| Admin API (`services/admin.go`) | the same tables | UpdateUser, UpdateSettings | races with registration and with another administrator |
| Threads, posts (`services/thread.go`, `post.go`, their stores) | `threads` with its counters, `posts` | create, view, update, delete, reply, edit | denormalised counters, stale permission and lock checks, read-modify-write |
| Groups (`services/group.go`) | `groups` (a hierarchy) | create, update, delete | emptiness check against cascade, unique names, a parent that goes away |
| Private messages, notifications (`services/message.go`) | `private_messages`, `notifications` | send, mark read, mark all, unread counts, conversation, inbox | two inserts and two pushes per message; pushes may be lost |
| Media (`services/media.go`, `internal/storage`) | object store, `attachments` | upload, delete, avatar, download | two stores written one after the other |
| Access tokens, middleware (`internal/auth`, `handlers/middleware.go`) | claims inside the token | RequireAuth, RequireRole | roles and status are as old as the token |
| Configuration, migrations, router, health, version, `cmd/server` | none after start | | stateless or I/O |

Handlers call services, services call stores; the only state shared in memory is
the hub, everything else is shared through PostgreSQL. `Messages.Send` joins the
two: it stores a message and its notification and then calls `Hub.Notify` twice.
`Hub.IsOnline` and `Hub.OnlineUsers` only read `online` for the presence
endpoints, so their correctness is the invariant `OnlineIffConnected`.

The hazards of this code, each at its line with the properties that would catch
it, are in `PROJECT.json` under `hazards`.

## 2. Modules

| Module | Models | Instance | Proofs |
|---|---|---|---|
| `Hub` | hub, connections, pumps, notifying handlers | `MCHub` | `HubProofs` |
| `Push` | what the hub promises its callers (abstract) | through `Hub`, `Messaging` | implemented by `Hub`: `HubProofs` |
| `Messaging` | private messages and notifications, composed with `Push` and the users' devices | `MCMessaging` | `MessagingProofs` |
| `Sessions` | login, refresh, logout, cookies | `MCSessions` | `SessionsProofs` |
| `Rotation` | what token rotation promises (abstract) | through `Sessions` | implemented by `Sessions`: `SessionsProofs` |
| `Access` | access tokens, `RequireAuth`, `RequireRole`, bans and role changes on a clock | `MCAccess` | `AccessProofs` |
| `Accounts` | registration, install wizard, admin API | `MCAccounts` | `AccountsProofs` |
| `Forum` | groups, threads, posts | `MCForum` | `ForumProofs` |
| `Media` | attachments and avatars over bucket and table | `MCMedia` | `MediaProofs` |

How they fit together. `Hub` is the hub with its lock, goroutines and channels;
`ImplementsPush` shows that, seen from outside, it is the much simpler `Push`:
events dispatched one at a time, in order, each offered once to every connection
of its addressee before that connection can leave. `Messaging` then takes `Push`
instead of `Hub`, adds the two tables and the devices, and asks what a user sees.
In the same way `ImplementsRotation` shows that the statements of login, refresh
and logout hand a login from token to token as `Rotation` describes. `Access`
starts where `Sessions` ends: it is about the access token a login returns, which
no table knows. `Sessions`, `Accounts` and `Access` share the tables `users` and
`user_roles`; each keeps of them what its own properties tell apart.

Conventions used in all of them:

* A step is what the code does between two points where another goroutine can be
  seen: one SQL statement, one channel operation, one critical section. `pc[r]`
  is the next statement of request `r`; `Goto` and `Answer` move it.
* `call[r]` is the request with its parameters. The initial state chooses the
  requests (any combination of `CallSet` in `Accounts` and `Forum`, a member of
  `Workloads` in `Messaging`, `Media` and `Access`), so that a run covers every
  combination; only `Sessions` has requests that arrive later, from browsers
  whose cookie changes.
* `Fail(r)` is a statement that returns an error. A statement that took effect and
  then reported an error is the failure of the *next* statement; for a last
  statement it is a success whose response was lost (`LoseResponse` in `Sessions`,
  `Finish` in `Forum`, `Messaging` and `Media`).
* Variables marked *history* are not in the program; they record what a property
  needs and no guard of an action reads them. One exception is named in
  `Accounts`: `adminSeen` stands for the existence of an administrator's access
  token, without which the admin routes cannot be called.
* Operators named `Mut...` are plausible slips of the code (a dropped guard, a
  swapped order). They stand before the definition they would replace and no
  specification uses them; each property is checked to fail under one of them.

### Hub

A connection's goroutine goes through `new` → (`regFirst` | `regAgain`) → `join`
→ `starting` → `serving` → `leaving` → (`unregLast` | `unregMore`) → `leave` →
`closing` → `gone`. The four `reg*`/`unreg*` points hold the write lock;
`AfterUnlock` says what follows `mu.Unlock()`. The announcement (`join`, `leave`)
is a separate step because the code makes it after unlocking. `Run` takes an event
(`locking`), acquires the read lock (`delivering`) and visits its targets one by
one (`Queue`), dropping the event where a buffer is full. Event payloads are
reduced to addressee, kind and subject. `Go`'s RWMutex is modelled by its
exclusion only: no queueing order is assumed. Pings and pongs appear as writes and
reads that may fail (a failed ping leaves the buffer as it is); incoming frames are
discarded by the code.

The refinement mapping to `Push`: the queue is the events published and not
dispatched (`Undispatched`: the one `Run` holds while it waits for the read lock
counts as not dispatched), the connections are the registered ones, and the event
a connection still has to be offered is the one `deliver` is visiting.

### Messaging

A POST stores at most one message and one notification, so both are named after
the request. `SendNext` is the order of the four effects. A device is a WebSocket
and a client program that fetches the conversation with a partner, one request per
partner (`Fetch`), whenever its socket is open; what it knows (`fetched`, `got`)
belongs to the socket, since the code replays nothing after a reconnect.

An open socket is not a registered one. `Upgrade` answers the peer
(`handlers/ws.go:40`); only then does `NewClient` register the connection with the
hub (`Register`: `ws.go:44`, `client.go:35`), which may have to wait for the lock.
Nothing tells the device, so it may fetch in between. In the same way `SocketBreaks`
comes before `Unregister`, and `WriteLost` is a writer that finds the socket broken.
`lost` is what the hub dropped on a full buffer, `missed` what it dispatched while
the socket was open and not registered, and `synced` names the partners a device
fetched when it was registered. Presence broadcasts are left out: to a message they
are one more reason for a buffer to be full, which `Push` allows at any time. A page
of a conversation is taken to hold all of it.

### Sessions

A member of the constant set `Sessions` is a refresh token together with the row
that holds its hash. `family` remembers the login a token descends from. A
request carries the cookie the browser held when it was sent; a logout without one
runs no statement and still clears the cookie (`LogoutWithoutCookie`). A login whose
lookup by email fails is refused as if the credentials were wrong (`Fail`). Users
exist throughout, so the branch of `Refresh` for a user that is gone is left out. `status` is reduced to active or not, which is all this code
distinguishes. `AuthService.issueTokens` also signs an access token, which has no
server-side state and is the subject of `Access`. `DeleteExpired` exists in the store but nothing calls it.
`failed` remembers that a statement or a response failed; the properties about
logout and cookies speak of the time before, `OneTokenPerLogin`, `BannedGetNothing`
and the refinement of all the time. In that refinement a login is held by its
usable token, by the refresh that is replacing it, or by nobody once it has ended.

### Access

Time is a counter. `Timeout` is the router's request timeout, `AccessTTL` the life
of a token. The one assumption about time: a statement takes effect no later than
the deadline of its request, because the context that is passed to pgx is
cancelled then. Everything else (hashing, signing, middleware, handlers) may take
any time, so a token may be signed long after the roles in it were read.
`FirstTokens` are the tokens of users who logged in earlier. `status` is reduced to
active or not. A patch is the admin API's, so that a demoted administrator who
still holds a token can act, and reinstate itself, in the model as in the code.

### Media

An object and the row that names it are known by the upload that stores them,
since every upload draws a fresh uuid. `AttachmentNext`, `AvatarNext` and
`DeleteNext` are the orders in which bucket and table are touched. Sizes are kept
with their limits; a content type is an image or not. `acted` remembers the deletes
that reached bucket or table and the avatars that were put in a profile, so that
neither a delete that failed at its checks nor a refused upload explains anything. A crash of the server is
the failure of every request under way, which is contained in failing one by one.

### Accounts

`UpdateRoles` is the only transaction whose inside can be seen by others, through
its locks. Its `DELETE` has a snapshot (`snap`), waits for rows deleted by
another open transaction, and skips what has vanished meanwhile; its `INSERT`
waits for uncommitted rows with the same key. This is PostgreSQL's READ COMMITTED,
the level pgx uses by default. A user is identified with its unique name (user
names and e-mail addresses are treated as one key); users are never deleted by
the program. Validation of names, addresses and passwords decides only whether a
request gets as far as its first statement and is left out.

### Forum

A group's name stands for its name and slug, both unique. `Update` replaces every
column, accepts any group as the parent (the group itself too), and answers 500
where `Create` answers 409. The group routes require the admin role, so only
administrators' requests appear. Rows keep their record when deleted and leave the set of live rows, so a request
that read a row can still refer to it. Cascades are part of the deleting action
(`RemoveThreads`, and the parent that becomes NULL). Time is the order of the posts' INSERTs (`Now`). `RecalcStats`
is two steps: under READ COMMITTED its subqueries see the posts committed when the
UPDATE started, even if the row it overwrites has been bumped since. The
`SummaryByID` that ends create and update requests is a step of its own
(`Summary`), because a row deleted in between turns a success into a 500. The
instances start from one group and thread with two posts rather than from an empty
forum.

## 3. Runs

`CHECK_DEADLOCK FALSE` is set everywhere: requests and connections of an instance
run once, so an instance stops when all are done. That goroutines do not block
each other forever is checked as liveness in `hub_liveness`.

| Run | Instance | Shows |
|---|---|---|
| `hub_presence` | 3 connections of 2 users, channels of capacity 1 | registry, `online` and announcements agree; no send on a closed channel |
| `hub_liveness` | 2 connections of 2 users, 1 message, `notifyCh` of 2 | events reach only their addressee, in order, as `Push` promises; teardown completes, also when the writer gives up first, `Notify` returns |
| `sessions` | 4 requests, 2 browsers, 3 tokens, failures, lost responses, bans | one usable token per login, and rotation as `Rotation` has it; no session for a user that is not active; until the first failure logout ends a login, no browser keeps a revoked cookie, and server errors are only for the loser of a race |
| `access` | 2 administrators, 3 requests, `AccessTTL` 3, `Timeout` 1, clock to 7 | tokens run out, and admitted requests stop, within a bound after a ban or a demotion |
| `accounts_mixed` | any 3 of 10 calls, failures | success means roles; administrator before installation; roles replaced atomically and as a whole |
| `forum_mixed` | any 3 of 21 calls on posts, threads and groups, failures | counters, last activity, foreign and unique keys, authorship, moderation, locks, deletion rights, the hierarchy of groups |
| `messaging` | 3 requests (2 messages at most), 3 users, 1 device, failures | what is pushed is stored; a device that was registered when it fetched misses nothing but what a full buffer lost, and one that fetched earlier only what was dispatched before its registration; an unannounced message has a sender with an error; marks and counts agree with the tables |
| `media` | an upload and 3 more requests, failures | rows keep their files, deleted files are gone, orphans are explained, avatars are shown, downloads are cut short only by a delete |

Four more runs each show a statement of the repository that the code does not
keep; TLC's counterexample is the interleaving.

| Run | Statement | What happens |
|---|---|---|
| `hub_presence_stale` | the hub "broadcasts join/leave" | a leave queued after the join that followed it: announced offline, in fact online |
| `sessions_logout_fails` | logout "revokes the refresh session" | a failed statement is swallowed, 204, session still usable |
| `accounts_install_twice` | a second POST gets 409 | two overlapping setups both get 201 |
| `forum_count` | post stats are maintained | a reply counted by `RecalcStats` and again by `BumpPost` |

Further behaviours the models contain and the passing properties are worded
around:

* `Notify` is documented as non-blocking (`ws/hub.go:128`); its caller waits while
  `notifyCh` is full. `NotifyReturns` says the wait ends.
* A refresh that loses the row to another request gets a 500 instead of
  `invalid_refresh_token`, because `store.ErrNotFound` is not mapped
  (`services/auth.go:166`). `ErrorOnlyOnRace` says this is the only cause.
* A registration that fails between its two inserts leaves an account without a
  role (`services/auth.go:98`). `SuccessMeansRoles` is about answered successes.
* Two overlapping `UpdateRoles` of one user leave the union of both role sets,
  because the waiting `DELETE` does not see the rows inserted meanwhile
  (`store/user.go:182`).
* A PATCH that names roles writes all of them or none (`RolesAllOrNothing`), but
  one refused with 400 has already stored its status (`services/admin.go:46`).
* A device whose socket is open can miss a message for as long as the socket holds:
  between the answer to its upgrade (`handlers/ws.go:40`) and its registration
  (`handlers/ws.go:44`) it may fetch, and a message that is stored after that and
  dispatched before the registration is in neither. Its sender is told 201. No line
  of the repository promises otherwise, and `NoGap` says that this window and a full
  buffer are the only ones. A device is out of the window once it receives an event;
  a client that fetches again then closes the gap.
* `CountsCover` compares two counts taken one after the other. A notification that was
  marked read on its own leaves its message unread, so each of those is allowed for.
* A ban that falls between the status check of a login or refresh and the INSERT of
  its session goes unnoticed (`services/auth.go:161`). `BannedGetNothing` is about a
  ban in force during the whole request; `TokensRunOut` bounds what the access token
  minted after the ban is good for. A session minted like this is refused at its next refresh.
* A message whose notification fails stays stored, is pushed to nobody, and its
  sender, told 500, may well send it again (`handlers/message.go:50`).
* `MessageStore.Inbox` is documented as "newest first" (`store/message.go:70`); its
  query is ordered by the partner's id, because `DISTINCT ON` needs that column
  first (`store/message.go:93`). With more conversations than fit a page the newest
  may be on the last one. The inbox is only read, and not in the model.
* `DeleteAttachment` removes the object first: an interrupted delete leaves a row
  without its file, by which the delete can be repeated (`DeletedIsGone`). A second
  delete that loses the race for the row gets a 500.
* Objects without a row remain after an upload answered with an error, and after an
  avatar is replaced: nothing ever removes the old one (`OrphansExplained`).
* A ban or a demotion leaves access tokens alone. The bound of `AuthorityBounded`
  is `AccessTTL` plus two request timeouts, and no smaller one holds. Within it a demoted
  administrator can give itself the role back. A WebSocket is authenticated once
  and stays open for as long as its peer likes (`handlers/ws.go:44`), so no bound
  holds for what it receives.
* Groups can be moved below themselves (`services/group.go:121`). Nothing walks the
  hierarchy, so such a cycle does no harm in this code.
* The lock of a thread, its pinned and locked flags and the emptiness of a group
  are checked, or read, before the statement that relies on them. A lock set
  between the check and the INSERT of a reply, a lock set between the read and the
  write of a title change, or a thread created between the count and the DELETE of
  a group is lost. `ChecksRespected` is therefore about what held during the whole request.
* `BumpPost` overwrites `last_post_at`, so two replies that bump in the opposite
  order of their INSERTs move the last activity back (`store/thread.go:158`).
  `LastTracks`, in `StatsTrack`, says what still holds.

Bounds. Two requests suffice for every race above; the passing runs use three or
four so that a third actor can disturb a pair (a ban during two refreshes, a
deletion between a reply and its bump). Three connections of two users are the
least at which a user's last connection closes while another opens and someone
else watches. Capacities of one or two fill at once, where 256 and 64 in the code
only take longer. The clock of `access` runs to the last moment its bounds speak of: with
a ban at 0, a login that began then may sign at 1, its token expires at 4, and a
request admitted at 3 ends at 4; the clock leaves room for later bans. The ids in `Sessions`, `Groups`, `Threads` and `Posts` are the other
bounds: an instance has as many as its requests can use, except in `sessions`,
where three tokens bound four requests and a fourth login or rotation waits. In
`messaging` the first request sends to the owner of the device and at most one of
the other two sends as well, beside which only that owner marks and counts.
`Permutations` of (interchangeable) requests, of tokens or of interchangeable connections is the
symmetry of the runs without liveness.

Fairness (`FairSpec` in `Hub`). Weak fairness per goroutine: one that can
continue eventually does, which the Go scheduler provides. Nothing is assumed of
peers: they need not connect or disconnect. A write to a peer that does not read
ends at its deadline, so a write either succeeds or fails; once the server has
closed the socket, a pending read or write does fail. Strong fairness for the lock and for channel sends is not needed,
because the clients and requests of an instance run once and contention dies out.
The other modules state safety only: a request whose statements keep failing may
never succeed.

## 4. Proofs

TLAPS checks these for every value of the constants: any sets of users, requests,
connections, rows and tokens, with failures or without. What the constants are
assumed to satisfy is named in the modules that declare them and evaluated by TLC on
every run:

* channel capacities are not zero, owners and recipients are users, `None`, `Nil` and
  `NoEvent` are no identifiers, rows or events;
* a request carries what its handler would otherwise refuse: a user to register or
  patch, a name for a group, a patch for a thread, a recipient for a message
  (`CallSetAssumption`, `WorkloadsAssumption`);
* the forum's first rows have unique ids and names, refer to each other, and every
  thread has a post, as `ThreadStore.Create` leaves it (`SeedAssumption`);
* the first access tokens are no older than their roles (`FirstTokensAssumption`).

Together the theorems state every safety property that a passing run checks, action
properties and the two refinements included. The runs remain useful: they say that
the invariants below are not vacuous, and they would be the first to notice a
change of the code.

Every proof has the same shape: an inductive invariant `IInv`, one lemma per action
(or per group of actions with the same frame) that it is preserved, and the theorems
from it. Each invariant was checked by TLC on the instances of section 3 before it
was proved.

### Hub (`HubProofs`)

`HubTypeCorrect`, `OnlineCorrect` (`OnlineIffConnected`), `NeverSendsOnClosed` and
`DeliveryIsPrivate` (`PrivateDelivery`). Knowing that a connection in the registry has
an open channel is not enough for the third: `deliver` walks a copy of what it saw
under the read lock. The inductive invariant therefore adds

* `RegistryMatches`: a connection is registered exactly between its `register`
  and its `unregister`, under its owner;
* `ChannelMatches`: the channel is open from `NewClient` until `Close` closes it,
  in terms of the control point;
* `VisitsRegistered`: what `deliver` still has to visit is registered, and only
  while it holds the read lock, which keeps `unregister`, and so `Close`, out.

`AnnouncementsBalanced` (`PresenceBalanced`) counts: a step of a connection moves at
most that one connection into or out of the sets of those with a join, or a leave,
still to announce (`OneMoves`), and the balance is kept because `register` and
`unregister` decide under the lock who announces. It needs that only finitely many
connections have begun (`Begun`), which the proof carries along instead of assuming
that `Conns` is finite.

`PushImplemented` is the refinement of `Push`. Registering is `Connect`, unregistering
`Disconnect`, putting an event on `notifyCh` is `Publish`, taking the read lock is
`Dispatch`, a visit is `Take` or `Drop`, a write is `Write`; every other step, the
receive of `Run` included, is invisible, since the event received stays in front of
the undispatched ones (`InFront`, `Rejoined`). `Disconnect` may happen only when
nothing is due, which is again the exclusion of `unregister` by the read lock.

### Sessions (`SessionsProofs`)

`SessionsTypeCorrect` and `RotationSafe` (`OneTokenPerLogin`), with failures anywhere.
The property is about unrevoked sessions *and* refreshes about to create one. It is
inductive together with

* `CallsMatch`: what a request in a given control point is and presents;
* `FamiliesExist`: a session descends from one that exists;
* `RotatingRevoked`: a refresh past its `Revoke` presents a revoked token, so that
  no other refresh can win the same row.

Its heart is the `revoked_at IS NULL` in the UPDATE of `SessionStore.Revoke`;
nothing else keeps two refreshes of one token apart.

`BansRespected` (`BannedGetNothing`), `ErrorsExplained` (`ErrorOnlyOnRace`),
`CookiesUsable` (`CookieNotRevoked`) and `LogoutsEffective` (`LogoutEndsLogin`) rest on
a second layer, `JInv`. `Always` holds whatever fails: a token on its way to a browser
is known to nobody else (`Unseen`), a token is kept by one browser only, the one that
presents it (`Homes`), a family is named after its first session (`Roots`), and a
request of a barred user has not passed its checks (`Barring`). `Unfailed` holds until
the first failure: a revoked token was taken out by some request
(`RevokedBySomeone`), which has still to answer a browser that keeps it
(`CookiesReplaced`), and it was passed on by a refresh or its login is over
(`Succession`).

`RotationImplemented` is the refinement of `Rotation`. `HolderSpec` turns the holder of a
login, a `CHOOSE` in the mapping, into a relation: its only unrevoked session, or the
refresh replacing it, or nobody. `RefreshRevoke` is `Surrender`, `IssueTokens` is
`NewLogin` or `Renew`, and whatever leaves rows and rotating refreshes alone is
invisible.

### Access (`AccessProofs`)

`AccessTypeCorrect`, `TokensAlwaysRunOut` (`TokensRunOut`) and `AuthorityAlwaysBounded`
(`AuthorityBounded`) for any users, roles, requests and durations. A statement takes
effect within its request's deadline (see Access above), and the argument follows
that deadline. Neither property is inductive: a token stored now was signed from
what its login read earlier. The inductive invariant adds

* `Past`: what the histories and the requests remember is not in the future;
* `Minting`: a login that has read the account, and the roles, began no later than
  the user was last active, and last held them; what it signed says so;
* `Admitted`: a request past the middleware began before its token expired.

`Monotone` is the lemma under it: the moment a user was last active, and last held
a role, never moves back, whoever changes the account.

### Accounts (`AccountsProofs`)

`AccountsTypeCorrect` (with the primary and the foreign key of `user_roles`),
`InstalledForumHasAdmin`, `RolesWrittenTogether` (`RolesAllOrNothing`),
`SuccessGrantsRoles` (`SuccessMeansRoles`) and `RolesPersist` (`RolesNeverVanish`). The
difficulty is the one transaction that others can see: a commit writes what was
decided two statements earlier. The inductive invariant says why that is still right:

* `Transactions`: an open transaction holds rows of its user from its snapshot, still in the
  table, and once past its INSERT the rows it leaves there have other keys;
* `Exclusive`: two open transactions hold different rows and insert different keys;
* `Written`: the rows one update wrote are all in the table, in a snapshot or in a
  DELETE, or none of them is;
* `Holders`: a name has one creator, whose grants are the user's roles until an
  administrator touches it;
* `AdminFirst`: setup is about to mark the forum installed only after the admin role
  was granted.

### Forum (`ForumProofs`)

`ForumTypeCorrect` (with foreign keys and unique names), `ChangesAreAuthorized`,
`FlagsAreModerated`, `ChecksAreRespected`, `GroupsFromOneRequest` and
`StatisticsTrack` (`StatsTrack`). `IInv` holds what requests know: a row that was read
has existed and keeps its author, its thread and its time although it may be deleted
meanwhile (`Exist`, `Control`), so a permission checked against it stays right; and that
the posts written are finitely many and the clock is ahead of them (`Bounded`). On top
of it there is one layer for each property:

* flags (`FInv`): an update about to write back the flags it read holds only flags a
  moderator asked for, so a stale write invents none;
* checks (`Checked`): a reply about to insert, or a deletion about to delete, saw a
  moment at which the thread was unlocked, or the group empty;
* groups (`Origins`): name and parent of a group come from the start or from one
  request that wrote it, except that a parent no longer there reads as none;
* statistics (`Books`): only a deletion takes a post from a live thread (`Kept`), a reply
  that is to bump has its own, uncounted post (`BumpDue`, `MineOnce`), a recount is of
  a thread that lost a post (`RecountDue`), and a reply is newer than all that its
  thread held but the replies of others (`Newer`). Replies, bumps, deletions and the
  two halves of `RecalcStats` then each change `post_count` and the set it counts
  alike. That a set of posts has a latest one is the well-foundedness of `<`.

### Messaging (`MessagingProofs`)

`MessagingTypeCorrect`, `NoMessageMissed` (`NoGap`), `PushAfterStore` (`PushedIsStored`),
`UnannouncedExplained` (`UnannouncedOnlyOnError`), `MarkedOnce` (`ReadMarks`) and
`CountersBelongTogether` (`CountsCover`, an action property). The hub is `Push`, which
`PushImplemented` shows the hub to implement. The invariant adds

* `EventsStored`: events in the queue, on offer, in a buffer or on a device name stored rows;
* `PushesReach`: from the push of a message on, not only from its answer, a device
  that fetched has it, received its event, will, or lost it, or missed it before it
  was registered; only a registered device is `synced`, which keeps the last case
  from those that fetched later;
* `MarksTold`: whoever was told it marked a message did;
* `CountBound`: what the first counter read is no more than the messages now stored, so
  that only notifications can be added between the two counts.

### Media (`MediaProofs`)

`MediaTypeCorrect` (with the foreign key to the posts), `AttachmentsSafe`
(`LostOnlyByDelete`), `DeletesComplete` (`DeletedIsGone`), `OrphansAccounted`
(`OrphansExplained`) and `AvatarsValid` (`AvatarShown`). The invariant adds `Deleting` (a
delete past its checks goes for a recorded row on behalf of someone entitled, and
reaches the row only once the object is gone), `Uploading` (an upload that stored its
object still has it when it writes the row, since nobody can delete what is not
recorded), `Shown` (avatars come from avatar uploads, which no delete can name) and
`Lost` (what is missing was deleted, also for a download under way).

### Only model-checked

`TeardownCompletes` and `NotifyReturns`: liveness under fairness is outside the prover.
The four statements of section 3 that the code does not keep are refuted by TLC, so
there is nothing to prove of them.

## 5. Not modelled

Password hashing, JWT signing, configuration, migrations, health and version
endpoints, listings and pagination: pure functions, or reads that change nothing.
The contents of titles, bodies, names and files. PostgreSQL and the S3 client are
taken as described above. The hub's `Run` stops when its context is cancelled; the
program starts it with `context.Background()`, so it never does.

Liveness is stated for the hub only. Everywhere else a request is a straight line
of statements that ends with the last one or with an error; whether a client
retries is not in this code.

## 6. Plan

All passing safety properties are proved. What could be added:

1. `Messaging` over `Hub` itself: the two meet in `Push`, but no module runs the requests
   of `Messaging` on the goroutines of `Hub`.
2. Facts that the proofs have as invariants and that say something on their own, for
   instance that a token on its way to a browser is known to nobody else (`Unseen`).
3. Liveness of requests, if the code gains retries.
