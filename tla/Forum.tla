------------------------------- MODULE Forum -------------------------------
(***************************************************************************)
(* Groups, threads and posts: the request handlers of GroupService,        *)
(* ThreadService and PostService over the tables groups, threads and       *)
(* posts.                                                                  *)
(*                                                                         *)
(* A request runs one SQL statement per step and keeps in memory what it   *)
(* read; nothing but ThreadStore.Create runs in a transaction, and that    *)
(* one takes effect at its commit.  With Failures any statement may return *)
(* an error (timeout, disconnect), before or after it took effect, ending  *)
(* the request where it is.  Input that validation refuses ends a request  *)
(* before it writes and is not modelled.                                   *)
(*                                                                         *)
(* Ids are UUIDs and never reused: a row that was deleted keeps its record *)
(* and leaves the set of live rows.                                        *)
(***************************************************************************)
EXTENDS Integers, FiniteSets, Sequences

CONSTANTS Users, Groups, Names, Threads, Posts, Requests, None,
          CallSet,      \* the requests the environment may send
          SeedGroups,   \* the groups at the start: [id, name]
          SeedThreads,  \* the threads at the start: [id, group, author]
          SeedPosts,    \* their posts in the order they were written: [id, thread, author]
          Failures

Patches == [title : BOOLEAN, pinned : {TRUE, FALSE, None}, locked : {TRUE, FALSE, None}]
Calls ==
  [op : {"newthread", "reply", "edit", "delpost", "setthread", "delthread",
         "newgroup", "setgroup", "delgroup", "view"},
   caller : Users, mod : BOOLEAN,           \* mod: the token's roles name admin or moderator
   group : Groups \cup {None}, thread : Threads \cup {None}, post : Posts \cup {None},
   patch : Patches \cup {None},
   name : Names \cup {None},                \* a group's name and slug
   parent : Groups \cup {None}]

\* The handlers refuse a group without a name and an update without a patch.
ASSUME CallSetAssumption ==
  /\ CallSet \subseteq Calls
  /\ \A c \in CallSet : /\ c.op \in {"newgroup", "setgroup"} => c.name \in Names
                        /\ c.op = "setthread" => c.patch \in Patches
ASSUME FailuresAssumption == Failures \in BOOLEAN
ASSUME SeedAssumption ==
  /\ SeedGroups \subseteq [id : Groups, name : Names]
  /\ SeedThreads \subseteq [id : Threads, group : {s.id : s \in SeedGroups}, author : Users]
  /\ SeedPosts \in Seq([id : Posts, thread : {s.id : s \in SeedThreads}, author : Users])
  \* ids and names are unique, and a thread has its first post
  /\ \A s, t \in SeedGroups : s.id = t.id \/ s.name = t.name => s = t
  /\ \A s, t \in SeedThreads : s.id = t.id => s = t
  /\ \A i, j \in 1..Len(SeedPosts) : SeedPosts[i].id = SeedPosts[j].id => i = j
  /\ \A s \in SeedThreads : \E i \in 1..Len(SeedPosts) : SeedPosts[i].thread = s.id

GroupRows == [name : Names, parent : Groups \cup {None}]
ThreadRows == [group : Groups, author : Users, title : Requests \cup {None},
               pinned : BOOLEAN, locked : BOOLEAN, count : Nat, last : Nat, views : Nat]
PostRows == [thread : Threads, author : Users, at : Nat, editor : Users \cup {None}]

ASSUME NoneAssumption ==
  /\ None \notin Groups /\ None \notin Threads /\ None \notin Posts
  /\ None \notin GroupRows /\ None \notin ThreadRows /\ None \notin PostRows

VARIABLES
  groups, threads, posts,   \* the live rows
  group, thread, post,      \* the rows' columns
  call, pc, result,
  loaded,                   \* the thread a request read
  seen,                     \* the posts a RecalcStats counts
  mine,                     \* the post a request wrote
  unbumped,                 \* history: posts not counted by a BumpPost
  shrunk,                   \* history: threads a post was deleted from
  stale,                    \* history: threads recounted without a post they had
  barred                    \* history: what the request must respect held all along

rows == <<groups, threads, posts, group, thread, post>>
memory  == <<seen, loaded, mine>>
history == <<unbumped, shrunk, stale>>
vars == <<rows, call, pc, result, memory, history, barred>>

GroupRow(n, g) == [name |-> n, parent |-> g]
ThreadRow(g, u, n, at) ==
  [group |-> g, author |-> u, title |-> None, pinned |-> FALSE, locked |-> FALSE,
   count |-> n, last |-> at, views |-> 0]
PostRow(t, u, at) == [thread |-> t, author |-> u, at |-> at, editor |-> None]

PostsOf(t)   == {p \in posts : post[p].thread = t}
ThreadsOf(g) == {t \in threads : thread[t].group = g}
Now == 1 + Cardinality({p \in Posts : post[p] # None})
Latest(S) == IF S = {} THEN 0 ELSE CHOOSE n \in {post[p].at : p \in S} :
                                      \A p \in S : post[p].at <= n

\* gen_random_uuid(): an id that was never used, as long as the instance has one.
Unused(row) == {i \in DOMAIN row : row[i] = None}
NewGroupId  == CHOOSE g \in Groups : group[g] = None
NewThreadId == CHOOSE t \in Threads : thread[t] = None
NewPostId   == CHOOSE p \in Posts : post[p] = None

Op(r) == call[r].op
Grp(r) == call[r].group
Thr(r) == call[r].thread
Pst(r) == call[r].post

Init ==
  LET n == Len(SeedPosts)
      Of(t) == {i \in 1..n : SeedPosts[i].thread = t}
      Newest(t) == CHOOSE i \in Of(t) : \A j \in Of(t) : j <= i
  IN
  /\ groups = {s.id : s \in SeedGroups}
  /\ group = [g \in Groups |->
               IF g \in groups THEN GroupRow((CHOOSE s \in SeedGroups : s.id = g).name, None)
                               ELSE None]
  /\ threads = {s.id : s \in SeedThreads}
  /\ posts = {SeedPosts[i].id : i \in 1..n}
  /\ thread = [t \in Threads |->
                IF t \in threads
                  THEN LET s == CHOOSE s \in SeedThreads : s.id = t
                       IN  ThreadRow(s.group, s.author, Cardinality(Of(t)), Newest(t))
                  ELSE None]
  /\ post = [p \in Posts |->
              IF p \in posts
                THEN LET i == CHOOSE i \in 1..n : SeedPosts[i].id = p
                     IN  PostRow(SeedPosts[i].thread, SeedPosts[i].author, i)
                ELSE None]
  /\ call \in [Requests -> CallSet]
  /\ pc = [r \in Requests |-> "idle"] /\ result = [r \in Requests |-> "none"]
  /\ seen = [r \in Requests |-> {}]
  /\ loaded = [r \in Requests |-> None] /\ mine = [r \in Requests |-> None]
  /\ unbumped = {} /\ shrunk = {} /\ stale = {} /\ barred = [r \in Requests |-> FALSE]

Goto(r, next) == pc' = [pc EXCEPT ![r] = next] /\ result' = result
Answer(r, res) == /\ pc' = [pc EXCEPT ![r] = "done"]
                  /\ result' = [result EXCEPT ![r] = res]
\* The last statement took effect; its result may still be an error.
Finish(r) == Answer(r, "ok") \/ (Failures /\ Answer(r, "error"))
At(r, op, stmt) == Op(r) = op /\ pc[r] = stmt

\* Only the creation and the update of a group write without reading first.
FirstStep(r) == CASE Op(r) = "newgroup" -> "insert"
                  [] Op(r) = "setgroup" -> "write"
                  [] OTHER -> "read"

Start(r) ==
  /\ pc[r] = "idle"
  /\ Goto(r, FirstStep(r))
  /\ UNCHANGED <<rows, call, memory, history>>

MutAnyone(r, owner) == TRUE
\* The author of a row, or a moderator.
MayModify(r, owner) == owner = call[r].caller \/ call[r].mod

-----------------------------------------------------------------------------
(* ThreadService. *)

\* Create: the group is looked up, then thread and first post are committed
\* together; the foreign key refuses a group deleted meanwhile.
NewThreadRead(r) ==
  /\ At(r, "newthread", "read")
  /\ IF Grp(r) \in groups THEN Goto(r, "insert") ELSE Answer(r, "not_found")
  /\ UNCHANGED <<rows, call, memory, history>>

NewThreadInsert(r) ==
  /\ At(r, "newthread", "insert")
  /\ IF Grp(r) \notin groups
       THEN Answer(r, "error") /\ UNCHANGED <<rows, mine>>
       ELSE LET t == NewThreadId  p == NewPostId IN
              /\ Unused(thread) # {} /\ Unused(post) # {}
              /\ threads' = threads \cup {t} /\ posts' = posts \cup {p}
              /\ thread' = [thread EXCEPT ![t] = ThreadRow(Grp(r), call[r].caller, 1, Now)]
              /\ post' = [post EXCEPT ![p] = PostRow(t, call[r].caller, Now)]
              /\ mine' = [mine EXCEPT ![r] = p]
              /\ UNCHANGED <<groups, group>>
              /\ Goto(r, "summary")
  /\ UNCHANGED <<call, seen, loaded, history>>

\* Get: the summary is read, then the view counter is incremented in place.
ViewRead(r) ==
  /\ At(r, "view", "read")
  /\ IF Thr(r) \in threads THEN Goto(r, "increment") ELSE Answer(r, "not_found")
  /\ UNCHANGED <<rows, call, memory, history>>

ViewsAfter(r) == thread[Thr(r)].views + 1

IncrementViews(r) ==
  /\ At(r, "view", "increment")
  /\ thread' = [thread EXCEPT ![Thr(r)].views =
                  IF Thr(r) \in threads THEN ViewsAfter(r) ELSE @]
  /\ Finish(r)
  /\ UNCHANGED <<groups, group, threads, posts, post, call, memory, history>>

\* Update: the row is read and the permissions checked; a title needs the author.
SetThreadRead(r) ==
  /\ At(r, "setthread", "read")
  /\ IF Thr(r) \notin threads
       THEN Answer(r, "not_found") /\ loaded' = loaded
     ELSE IF ~MayModify(r, thread[Thr(r)].author)
             \/ (call[r].patch.title /\ thread[Thr(r)].author # call[r].caller)
       THEN Answer(r, "forbidden") /\ loaded' = loaded
     ELSE Goto(r, "write") /\ loaded' = [loaded EXCEPT ![r] = thread[Thr(r)]]
  /\ UNCHANGED <<rows, call, seen, mine, history>>

MutFlagForAll(r, field, old) == IF call[r].patch[field] # None THEN call[r].patch[field] ELSE old
\* Pinned and locked follow the request only for a moderator.
Flag(r, field, old) ==
  IF call[r].mod /\ call[r].patch[field] # None THEN call[r].patch[field] ELSE old

\* ThreadStore.Update writes title, pinned and locked back, asked for or not.
SetThreadWrite(r) ==
  LET was == loaded[r] IN
  /\ At(r, "setthread", "write")
  /\ IF Thr(r) \notin threads
       THEN thread' = thread /\ Answer(r, "not_found")
       ELSE /\ thread' = [thread EXCEPT
                 ![Thr(r)].title  = IF call[r].patch.title THEN r ELSE was.title,
                 ![Thr(r)].pinned = Flag(r, "pinned", was.pinned),
                 ![Thr(r)].locked = Flag(r, "locked", was.locked)]
            /\ Goto(r, "summary")
  /\ UNCHANGED <<groups, group, threads, posts, post, call, memory, history>>

\* Delete: check, then delete; the posts go with their thread.
DelThreadRead(r) ==
  /\ At(r, "delthread", "read")
  /\ IF Thr(r) \notin threads THEN Answer(r, "not_found")
     ELSE IF MayModify(r, thread[Thr(r)].author) THEN Goto(r, "delete")
     ELSE Answer(r, "forbidden")
  /\ UNCHANGED <<rows, call, memory, history>>

MutNoCascade(T) == threads' = threads \ T /\ posts' = posts
\* ON DELETE CASCADE from threads to posts.
RemoveThreads(T) ==
  /\ threads' = threads \ T
  /\ posts' = posts \ UNION {PostsOf(t) : t \in T}

DelThreadDelete(r) ==
  /\ At(r, "delthread", "delete")
  /\ RemoveThreads({Thr(r)})
  /\ IF Thr(r) \in threads THEN Finish(r) ELSE Answer(r, "not_found")
  /\ UNCHANGED <<groups, group, thread, post, call, memory, history>>

-----------------------------------------------------------------------------
(* PostService. *)

MutLockIgnored(t) == TRUE
Replyable(t) == ~thread[t].locked

\* Create: thread lookup and lock check, INSERT, BumpPost.
ReplyRead(r) ==
  /\ At(r, "reply", "read")
  /\ IF Thr(r) \notin threads THEN Answer(r, "not_found")
     ELSE IF Replyable(Thr(r)) THEN Goto(r, "insert")
     ELSE Answer(r, "thread_locked")
  /\ UNCHANGED <<rows, call, memory, history>>

ReplyInsert(r) ==
  /\ At(r, "reply", "insert")
  /\ IF Thr(r) \notin threads
       THEN Answer(r, "error") /\ UNCHANGED <<posts, post, mine, unbumped>>
       ELSE LET p == NewPostId IN
              /\ Unused(post) # {}
              /\ posts' = posts \cup {p}
              /\ post' = [post EXCEPT ![p] = PostRow(Thr(r), call[r].caller, Now)]
              /\ mine' = [mine EXCEPT ![r] = p]
              /\ unbumped' = unbumped \cup {p}
              /\ Goto(r, "bump")
  /\ UNCHANGED <<groups, group, threads, thread, call, seen, loaded, shrunk, stale>>

MutBumpLost(r) == thread[Thr(r)].count
BumpedCount(r) == thread[Thr(r)].count + 1

\* The created_at of the reply, not the time of the bump.
BumpedLast(r) == post[mine[r]].at

BumpPost(r) ==
  /\ At(r, "reply", "bump")
  /\ thread' = IF Thr(r) \in threads
                 THEN [thread EXCEPT ![Thr(r)].count = BumpedCount(r),
                                     ![Thr(r)].last = BumpedLast(r)]
                 ELSE thread
  /\ unbumped' = unbumped \ {mine[r]}
  /\ Goto(r, "summary")
  /\ UNCHANGED <<groups, group, threads, posts, post, call, memory, shrunk, stale>>

IsAuthor(r) == post[Pst(r)].author = call[r].caller

\* Update: only the author edits.
EditRead(r) ==
  /\ At(r, "edit", "read")
  /\ IF Pst(r) \notin posts THEN Answer(r, "not_found")
     ELSE IF IsAuthor(r) THEN Goto(r, "write") ELSE Answer(r, "forbidden")
  /\ UNCHANGED <<rows, call, memory, history>>

EditWrite(r) ==
  /\ At(r, "edit", "write")
  /\ IF Pst(r) \in posts
       THEN post' = [post EXCEPT ![Pst(r)].editor = call[r].caller] /\ Goto(r, "summary")
       ELSE post' = post /\ Answer(r, "not_found")
  /\ UNCHANGED <<groups, group, threads, posts, thread, call, memory, history>>

\* Delete: check, DELETE, RecalcStats.
DelPostRead(r) ==
  /\ At(r, "delpost", "read")
  /\ IF Pst(r) \notin posts THEN Answer(r, "not_found")
     ELSE IF MayModify(r, post[Pst(r)].author) THEN Goto(r, "delete")
     ELSE Answer(r, "forbidden")
  /\ UNCHANGED <<rows, call, memory, history>>

DelPostDelete(r) ==
  /\ At(r, "delpost", "delete")
  /\ IF Pst(r) \in posts
       THEN /\ posts' = posts \ {Pst(r)}
            /\ shrunk' = shrunk \cup {post[Pst(r)].thread}
            /\ Goto(r, "recalc")
       ELSE UNCHANGED <<posts, shrunk>> /\ Answer(r, "not_found")
  /\ UNCHANGED <<groups, group, threads, thread, post, call, memory, unbumped, stale>>

\* RecalcStats is one UPDATE, but under READ COMMITTED its subqueries see the
\* posts committed when it started while the row it writes may have changed since.
RecalcStart(r) ==
  /\ At(r, "delpost", "recalc")
  /\ seen' = [seen EXCEPT ![r] = PostsOf(post[Pst(r)].thread)]
  /\ Goto(r, "recount")
  /\ UNCHANGED <<rows, call, loaded, mine, history>>

RecalcStats(r) ==
  LET t == post[Pst(r)].thread IN
  /\ At(r, "delpost", "recount")
  /\ thread' = IF t \in threads
                 THEN [thread EXCEPT ![t].count = Cardinality(seen[r]),
                                     ![t].last = Latest(seen[r])]
                 ELSE thread
  /\ stale' = IF PostsOf(t) \subseteq seen[r] THEN stale ELSE stale \cup {t}
  /\ Finish(r)
  /\ UNCHANGED <<groups, group, threads, posts, post, call, memory, unbumped, shrunk>>

\* Whether the row a request wrote is still there.
Survives(r) ==
  CASE Op(r) = "newthread" -> post[mine[r]].thread \in threads
    [] Op(r) = "setthread" -> Thr(r) \in threads
    [] Op(r) = "reply"     -> mine[r] \in posts
    [] Op(r) = "edit"      -> Pst(r) \in posts

\* SummaryByID: the answer reads the row back; a row deleted meanwhile is an
\* error that no handler maps.
Summary(r) ==
  /\ pc[r] = "summary"
  /\ Answer(r, IF Survives(r) THEN "ok" ELSE "error")
  /\ UNCHANGED <<rows, call, memory, history>>

-----------------------------------------------------------------------------
(* GroupService.  Its routes require the admin role.                       *)

Taken(name, others) == \E g \in groups \ others : group[g].name = name

\* Create: one INSERT.  The unique name and slug refuse it first, then the
\* foreign key of the parent.
NewGroupInsert(r) ==
  /\ At(r, "newgroup", "insert")
  /\ IF Taken(call[r].name, {})
       THEN UNCHANGED <<groups, group>> /\ Answer(r, "conflict")
     ELSE IF call[r].parent \notin groups \cup {None}
       THEN UNCHANGED <<groups, group>> /\ Answer(r, "error")
     ELSE LET g == NewGroupId IN
            /\ Unused(group) # {}
            /\ groups' = groups \cup {g}
            /\ group' = [group EXCEPT ![g] = GroupRow(call[r].name, call[r].parent)]
            /\ Finish(r)
  /\ UNCHANGED <<threads, posts, thread, post, call, memory, history>>

MutKeepsParent(r) ==
  GroupRow(call[r].name,
           IF call[r].parent = None THEN group[Grp(r)].parent ELSE call[r].parent)
\* An absent parent_id is NULL: the update replaces every column.
UpdatedGroup(r) == GroupRow(call[r].name, call[r].parent)

\* Update: one UPDATE.  Any group may be the parent, the group itself too.  Unlike
\* Create the store does not recognise a taken name, which ends as an error.
SetGroupWrite(r) ==
  /\ At(r, "setgroup", "write")
  /\ IF Grp(r) \notin groups
       THEN group' = group /\ Answer(r, "not_found")
     ELSE IF Taken(call[r].name, {Grp(r)}) \/ call[r].parent \notin groups \cup {None}
       THEN group' = group /\ Answer(r, "error")
     ELSE group' = [group EXCEPT ![Grp(r)] = UpdatedGroup(r)] /\ Finish(r)
  /\ UNCHANGED <<groups, threads, posts, thread, post, call, memory, history>>

\* Delete: exists, count the threads, delete with cascade.
DelGroupRead(r) ==
  /\ At(r, "delgroup", "read")
  /\ IF Grp(r) \in groups THEN Goto(r, "count") ELSE Answer(r, "not_found")
  /\ UNCHANGED <<rows, call, memory, history>>

Empty(g) == ThreadsOf(g) = {}

DelGroupCount(r) ==
  /\ At(r, "delgroup", "count")
  /\ IF Empty(Grp(r)) THEN Goto(r, "delete") ELSE Answer(r, "not_empty")
  /\ UNCHANGED <<rows, call, memory, history>>

DelGroupDelete(r) ==
  /\ At(r, "delgroup", "delete")
  /\ groups' = groups \ {Grp(r)}
  /\ group' = [g \in Groups |->       \* ON DELETE SET NULL
                 IF group[g] # None /\ group[g].parent = Grp(r)
                   THEN [group[g] EXCEPT !.parent = None] ELSE group[g]]
  /\ RemoveThreads(ThreadsOf(Grp(r)))
  /\ IF Grp(r) \in groups THEN Finish(r) ELSE Answer(r, "not_found")
  /\ UNCHANGED <<thread, post, call, memory, history>>

\* A statement of the request fails.
Fail(r) ==
  /\ Failures /\ pc[r] \notin {"idle", "done"}
  /\ Answer(r, "error")
  /\ UNCHANGED <<rows, call, memory, history>>

-----------------------------------------------------------------------------
(* What a request must respect: a reply, the lock of its thread; a group   *)
(* deletion, the threads of the group.                                     *)
Bar(r) == \/ Op(r) = "reply" /\ Thr(r) \in threads /\ thread[Thr(r)].locked
          \/ Op(r) = "delgroup" /\ ThreadsOf(Grp(r)) # {}

Observe == barred' = [r \in Requests |-> /\ pc'[r] # "idle"
                                         /\ (pc[r] = "idle" \/ barred[r]) /\ Bar(r)']

RequestNext(r) ==
  \/ Start(r) \/ Fail(r)
  \/ NewThreadRead(r) \/ NewThreadInsert(r) \/ ViewRead(r) \/ IncrementViews(r)
  \/ SetThreadRead(r) \/ SetThreadWrite(r) \/ DelThreadRead(r) \/ DelThreadDelete(r)
  \/ ReplyRead(r) \/ ReplyInsert(r) \/ BumpPost(r) \/ EditRead(r) \/ EditWrite(r)
  \/ DelPostRead(r) \/ DelPostDelete(r) \/ RecalcStart(r) \/ RecalcStats(r) \/ Summary(r)
  \/ NewGroupInsert(r) \/ SetGroupWrite(r)
  \/ DelGroupRead(r) \/ DelGroupCount(r) \/ DelGroupDelete(r)

Next == (\E r \in Requests : RequestNext(r)) /\ Observe

Spec == Init /\ [][Next]_vars

-----------------------------------------------------------------------------
(* Properties. *)

PcValues == {"idle", "read", "insert", "bump", "write", "increment", "delete",
             "recalc", "recount", "count", "summary", "done"}
Results == {"none", "ok", "error", "not_found", "forbidden", "thread_locked", "conflict", "not_empty"}

Types ==
  /\ groups \subseteq Groups /\ threads \subseteq Threads /\ posts \subseteq Posts
  /\ group \in [Groups -> GroupRows \cup {None}]
  /\ thread \in [Threads -> ThreadRows \cup {None}]
  /\ post \in [Posts -> PostRows \cup {None}]
  /\ call \in [Requests -> CallSet] /\ pc \in [Requests -> PcValues]
  /\ result \in [Requests -> Results]
  /\ mine \in [Requests -> Posts \cup {None}] /\ seen \in [Requests -> SUBSET Posts]
  /\ loaded \in [Requests -> ThreadRows \cup {None}]
  /\ unbumped \subseteq Posts /\ shrunk \subseteq Threads /\ stale \subseteq Threads
  /\ barred \in [Requests -> BOOLEAN]
ForeignKeys ==
  /\ \A p \in posts : post[p].thread \in threads
  /\ \A t \in threads : thread[t].group \in groups
  /\ \A g \in groups : group[g].parent \in groups \cup {None}
UniqueNames == \A g \in groups : ~Taken(group[g].name, {g})

\* Rows and requests have their types, and the foreign keys hold: no live post
\* without its thread, no live thread without its group, no group below one that
\* is gone, no name twice.
TypeOK == Types /\ ForeignKeys /\ UniqueNames

\* post_count never falls below the posts it should count, whatever interleaves or
\* fails, unless a RecalcStats missed a post written while it ran; and as long as
\* no post was deleted it is exact.  Posts whose request ended before its BumpPost
\* are not counted.
CountTracks(t) ==
  LET counted == Cardinality(PostsOf(t) \ unbumped) IN
  /\ t \notin stale => thread[t].count >= counted
  /\ t \notin shrunk => thread[t].count = counted

\* last_post_at is the time of a post of the thread, of a deleted one perhaps, or
\* NULL.  Replies that overtake each other may leave an older one there, but a
\* thread with one reply only, and none deleted, shows its newest counted post.
LastTracks(t) ==
  LET ever == {p \in Posts : post[p] # None /\ post[p].thread = t}
      replied == {r \in Requests : Op(r) = "reply" /\ Thr(r) = t /\ mine[r] # None}
  IN /\ thread[t].last \in {0} \cup {post[p].at : p \in ever}
     /\ t \notin shrunk /\ Cardinality(replied) <= 1 =>
          thread[t].last = Latest(PostsOf(t) \ unbumped)

\* No view is lost and none is counted twice: the counter is the number of views
\* that got through, give or take those answered with an error.
ViewsTrack(t) ==
  LET Views(res) == Cardinality({r \in Requests : Op(r) = "view" /\ Thr(r) = t
                                                  /\ result[r] \in res})
  IN thread[t].views \in Views({"ok"}) .. Views({"ok", "error"})

\* The statistics of a thread follow its posts and views as far as separate
\* statements allow: BumpPost, RecalcStats and IncrementViews.
StatsTrack == \A t \in threads : CountTracks(t) /\ LastTracks(t) /\ ViewsTrack(t)

\* A thread is locked or pinned only if some moderator asked for it, however
\* updates by its author interleave with theirs.
FlagsFromModerators ==
  \A t \in threads, f \in {"pinned", "locked"} :
    thread[t][f] => \E r \in Requests :
      /\ Op(r) = "setthread" /\ Thr(r) = t
      /\ pc[r] = "summary" \/ result[r] \in {"ok", "error"}
      /\ call[r].mod /\ call[r].patch[f] = TRUE

\* The body of a post is written by its author only; a post disappears alone only
\* at the hand of its author or a moderator, a thread likewise unless its group
\* goes, a group when it is deleted itself.
ChangesAuthorized ==
  [][/\ \A p \in posts : post'[p].editor \in {None, post[p].author}
     /\ \A p \in posts \ posts' : post[p].thread \in threads' =>
          \E r \in Requests : /\ At(r, "delpost", "delete") /\ Pst(r) = p /\ pc'[r] = "recalc"
                              /\ call[r].mod \/ call[r].caller = post[p].author
     /\ \A g \in groups \ groups' :
          \E r \in Requests : At(r, "delgroup", "delete") /\ Grp(r) = g /\ pc'[r] = "done"
     /\ \A t \in threads \ threads' : thread[t].group \in groups' =>
          \E r \in Requests : /\ At(r, "delthread", "delete") /\ Thr(r) = t /\ pc'[r] = "done"
                              /\ call[r].mod \/ call[r].caller = thread[t].author]_vars

\* The columns of a group come from one request, however creations, updates and
\* deletions interleave; a group moves to the top only when it was told to or its
\* parent was deleted.
GroupFromOneRequest ==
  \A g \in groups :
    LET From(name, parent) ==
          /\ group[g].name = name
          /\ group[g].parent = IF parent \in groups THEN parent ELSE None
    IN \/ \E s \in SeedGroups : s.id = g /\ From(s.name, None)
       \/ \E r \in Requests :
            /\ Op(r) = "newgroup" \/ (Op(r) = "setgroup" /\ Grp(r) = g)
            /\ result[r] \in {"ok", "error"} /\ From(call[r].name, call[r].parent)

\* A reply whose thread was locked during the whole request writes no post, and a
\* group that held threads during the whole request is not deleted.
ChecksRespected ==
  [][\A r \in Requests : barred[r] =>
       /\ ~(At(r, "reply", "insert") /\ pc'[r] = "bump")
       /\ ~(At(r, "delgroup", "delete") /\ pc'[r] = "done" /\ Grp(r) \notin groups')]_vars

-----------------------------------------------------------------------------
AllQuiet == \A r \in Requests : pc[r] \in {"idle", "done"}

\* "Stats maintained on post create and delete": when no request is under way a
\* thread's post_count is the number of its posts.
CountMaintained ==
  AllQuiet => \A t \in threads : thread[t].count = Cardinality(PostsOf(t))
=============================================================================
