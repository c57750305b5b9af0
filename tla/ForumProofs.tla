---------------------------- MODULE ForumProofs ----------------------------
(***************************************************************************)
(* The forum's tables, permissions and counters for any number of users,   *)
(* rows and concurrent requests, with and without failures.                *)
(***************************************************************************)
EXTENDS Forum, FiniteSetTheorems, WellFoundedInduction, TLAPS

\* A live row has its columns, and a post's thread has existed.
Exist ==
  /\ \A g \in groups : group[g] # None
  /\ \A t \in threads : thread[t] # None
  /\ \A p \in posts : post[p] # None
  /\ \A p \in Posts : post[p] # None => thread[post[p].thread] # None

\* What a request knows from the statements it has run: the row it works on has
\* existed, and the check it passed still holds, for authors never change.
ControlOf(r) ==
  /\ pc[r] # "done" => result[r] = "none"
  /\ mine[r] # None =>
       /\ pc[r] \in {"bump", "summary", "done"} /\ Op(r) \in {"newthread", "reply"}
       /\ post[mine[r]] # None
       /\ Op(r) = "reply" => post[mine[r]].thread = Thr(r)
  /\ pc[r] = "summary" => Op(r) \in {"newthread", "setthread", "reply", "edit"}
  /\ At(r, "reply", "bump") => mine[r] # None
  /\ At(r, "view", "increment") \/ At(r, "setthread", "write") \/ At(r, "delthread", "delete") =>
       Thr(r) \in Threads /\ thread[Thr(r)] # None
  /\ At(r, "setthread", "write") => loaded[r] \in ThreadRows
  /\ At(r, "delthread", "delete") => MayModify(r, thread[Thr(r)].author)
  /\ At(r, "edit", "write") =>
       Pst(r) \in Posts /\ post[Pst(r)] # None /\ post[Pst(r)].author = call[r].caller
  /\ Op(r) = "delpost" /\ pc[r] \in {"delete", "recalc", "recount"} =>
       Pst(r) \in Posts /\ post[Pst(r)] # None /\ MayModify(r, post[Pst(r)].author)
  /\ At(r, "delpost", "recount") =>
       \A p \in seen[r] : post[p] # None /\ post[p].thread = post[Pst(r)].thread
Control == \A r \in Requests : ControlOf(r)

\* Only authors have edited.
EditedByAuthor == \A p \in Posts : post[p] # None => post[p].editor \in {None, post[p].author}

\* Posts and requests are finite in number at any time, and the clock is ahead of
\* every post.
Written == {p \in Posts : post[p] # None}
Started == {r \in Requests : pc[r] # "idle"}
Clock == \A p \in Written : post[p].at \in 1..Cardinality(Written)
Bounded == IsFiniteSet(Written) /\ Clock /\ IsFiniteSet(Started)

IInv == TypeOK /\ Exist /\ Control /\ EditedByAuthor /\ Bounded

\* The columns of a request.
LEMMA CallTyped ==
  ASSUME Types, NEW r \in Requests
  PROVE  /\ call[r] \in CallSet /\ call[r] \in Calls
         /\ call[r].caller \in Users /\ call[r].mod \in BOOLEAN
         /\ Grp(r) \in Groups \cup {None} /\ Thr(r) \in Threads \cup {None}
         /\ Pst(r) \in Posts \cup {None}
         /\ call[r].parent \in Groups \cup {None}
         /\ Op(r) \in {"newgroup", "setgroup"} => call[r].name \in Names
         /\ Op(r) = "setthread" => call[r].patch \in Patches
  BY CallSetAssumption DEF Types, Calls, Op, Grp, Thr, Pst

\* A new id was never used, so it names no live row.
LEMMA NewIds ==
  ASSUME Types
  PROVE  /\ Unused(group) # {} => NewGroupId \in Groups /\ group[NewGroupId] = None
         /\ Unused(thread) # {} => NewThreadId \in Threads /\ thread[NewThreadId] = None
         /\ Unused(post) # {} => NewPostId \in Posts /\ post[NewPostId] = None
  BY DEF Unused, NewGroupId, NewThreadId, NewPostId, Types

-----------------------------------------------------------------------------
(* Maxima.  The prover has no induction; a bounded set of numbers has a      *)
(* greatest element because < is well-founded.                               *)

Bound(S, n) == S \subseteq 0..n
IsMax(m, S) == m \in S /\ \A x \in S : x <= m

Less == {ss \in Nat \X Nat : ss[1] < ss[2]}

LEMMA LessWellFounded == IsWellFoundedOn(Less, Nat)
  BY NatLessThanWellFounded DEF OpToRel, Less

LEMMA MaxExists ==
  ASSUME NEW n \in Nat, NEW S, S # {}, Bound(S, n)
  PROVE  \E m \in S : IsMax(m, S)
<1> DEFINE T == {n - x : x \in S}
<1>1. T \subseteq Nat /\ T # {}
  <2>1. \A x \in S : x \in 0..n
    BY DEF Bound
  <2>2. \A x \in S : n - x \in Nat
    BY <2>1
  <2>3. T \subseteq Nat
    BY <2>2
  <2>4. PICK x : x \in S
    OBVIOUS
  <2>5. n - x \in T
    BY <2>4
  <2> QED BY <2>3, <2>5
<1>2. PICK k \in T : \A y \in T : ~(<<y, k>> \in Less)
  BY <1>1, LessWellFounded, WFMin
<1>3. PICK m \in S : k = n - m
  BY <1>2
<1>4. ASSUME NEW x \in S PROVE x <= m
  <2>1. n - x \in T /\ n - x \in Nat /\ k \in Nat
    BY <1>1, <1>2
  <2>2. ~(n - x < k)
    BY <1>2, <2>1 DEF Less
  <2> QED BY <1>3, <2>2 DEF Bound
<1> QED BY <1>4 DEF IsMax

Times(f, S) == {f[p].at : p \in S}
LatestIn(f, S) == IF S = {} THEN 0 ELSE CHOOSE n \in {f[p].at : p \in S} : \A p \in S : f[p].at <= n

\* The latest time is the maximum of the times, or 0, in any version of the posts.
LEMMA LatestIs ==
  ASSUME NEW n \in Nat, NEW f, NEW S, Bound(Times(f, S), n)
  PROVE  /\ S = {} => LatestIn(f, S) = 0
         /\ \A m \in Nat : IsMax(m, Times(f, S)) => LatestIn(f, S) = m
         /\ S # {} => IsMax(LatestIn(f, S), Times(f, S))
<1>1. S = {} => LatestIn(f, S) = 0
  BY DEF LatestIn
<1>2. ASSUME S # {} PROVE IsMax(LatestIn(f, S), Times(f, S))
  <2>1. PICK m \in Times(f, S) : IsMax(m, Times(f, S))
    BY <1>2, MaxExists DEF Times
  <2>2. \E k \in {f[p].at : p \in S} : \A p \in S : f[p].at <= k
    BY <2>1 DEF IsMax, Times
  <2>3. /\ LatestIn(f, S) \in {f[p].at : p \in S}
        /\ \A p \in S : f[p].at <= LatestIn(f, S)
    BY <1>2, <2>2 DEF LatestIn
  <2> QED BY <2>3 DEF IsMax, Times
<1>3. ASSUME NEW m \in Nat, IsMax(m, Times(f, S)) PROVE LatestIn(f, S) = m
  <2>1. S # {}
    BY <1>3 DEF IsMax, Times
  <2>2. IsMax(LatestIn(f, S), Times(f, S))
    BY <1>2, <2>1
  <2> QED BY <1>3, <2>2 DEF IsMax, Bound
<1> QED BY <1>1, <1>2, <1>3

-----------------------------------------------------------------------------
(* What every step leaves alone.                                            *)

\* Rows keep their identity.
Steady ==
  /\ \A g \in Groups : group[g] # None => group'[g] # None
  /\ \A t \in Threads : thread[t] # None =>
       thread'[t] # None /\ thread'[t].author = thread[t].author /\ thread'[t].group = thread[t].group
  /\ \A p \in Posts : post[p] # None =>
       /\ post'[p] # None /\ post'[p].thread = post[p].thread
       /\ post'[p].author = post[p].author /\ post'[p].at = post[p].at

\* The other requests keep their memory.
Own(r) ==
  /\ call' = call
  /\ \A q \in Requests \ {r} :
       /\ pc'[q] = pc[q] /\ result'[q] = result[q] /\ mine'[q] = mine[q]
       /\ loaded'[q] = loaded[q] /\ seen'[q] = seen[q]

LEMMA OthersControl ==
  ASSUME Types, Steady, NEW r \in Requests, Own(r), NEW q \in Requests \ {r}, ControlOf(q)
  PROVE  ControlOf(q)'
  BY DEF ControlOf, Steady, Own, At, Op, Thr, Pst, MayModify, Types

\* A request moves on or answers.
LEMMA Moves ==
  ASSUME Types, NEW r \in Requests,
         \/ \E next \in PcValues \ {"idle"} : Goto(r, next)
         \/ \E res \in Results : Answer(r, res)
  PROVE  /\ pc' \in [Requests -> PcValues] /\ result' \in [Requests -> Results]
         /\ pc'[r] # "idle"
         /\ \A q \in Requests \ {r} : pc'[q] = pc[q] /\ result'[q] = result[q]
  BY DEF Goto, Answer, Types, PcValues, Results

\* Started requests stay finite in number.
LEMMA StartedFinite ==
  ASSUME NEW r \in Requests, IsFiniteSet(Started),
         \A q \in Requests \ {r} : pc'[q] = pc[q]
  PROVE  IsFiniteSet(Started)'
<1>1. IsFiniteSet(Started \cup {r})
  BY FS_AddElement
<1>2. Started' \subseteq Started \cup {r}
  BY DEF Started
<1> QED BY <1>1, <1>2, FS_Subset

\* So do posts, and a new one is the newest.
LEMMA PostWritten ==
  ASSUME NEW p \in Posts, Bounded, post[p] = None, post'[p] # None, post'[p].at = Now,
         \A x \in Posts \ {p} : post'[x] = post[x]
  PROVE  IsFiniteSet(Written)' /\ Clock'
<1>1. Written' = Written \cup {p} /\ p \notin Written
  BY DEF Written
<1>2. /\ IsFiniteSet(Written \cup {p}) /\ Cardinality(Written \cup {p}) = Cardinality(Written) + 1
      /\ Cardinality(Written) \in Nat
  BY <1>1, FS_AddElement, FS_CardinalityType DEF Bounded
<1>3. Now = 1 + Cardinality(Written)
  BY DEF Now, Written
<1>4. \A x \in Written' : post'[x].at \in 1..(Cardinality(Written) + 1)
  BY <1>1, <1>2, <1>3 DEF Bounded, Clock, Written
<1> QED BY <1>1, <1>2, <1>4 DEF Clock

\* The steps that read, or end a request, and write no row.
Reads(r) ==
  \/ Start(r) \/ Fail(r) \/ NewThreadRead(r) \/ ViewRead(r) \/ SetThreadRead(r)
  \/ DelThreadRead(r) \/ ReplyRead(r) \/ EditRead(r) \/ DelPostRead(r) \/ RecalcStart(r)
  \/ Summary(r) \/ DelGroupRead(r) \/ DelGroupCount(r)

LEMMA ReadsOwn ==
  ASSUME Types, NEW r \in Requests, Reads(r)
  PROVE  /\ Own(r) /\ UNCHANGED <<rows, call, mine, history>>
         /\ pc[r] # "done" /\ pc'[r] # "idle"
         /\ pc' \in [Requests -> PcValues] /\ result' \in [Requests -> Results]
         /\ loaded' \in [Requests -> ThreadRows \cup {None}] /\ seen' \in [Requests -> SUBSET Posts]
<1> USE DEF Own, memory, Goto, Answer, Types, PcValues, Results, At
<1>1. CASE Start(r)
  BY <1>1 DEF Start, FirstStep
<1>2. CASE Fail(r)
  BY <1>2 DEF Fail
<1>3. CASE NewThreadRead(r)
  BY <1>3 DEF NewThreadRead
<1>4. CASE ViewRead(r)
  BY <1>4 DEF ViewRead
<1>5. CASE SetThreadRead(r)
  BY <1>5 DEF SetThreadRead
<1>6. CASE DelThreadRead(r)
  BY <1>6 DEF DelThreadRead
<1>7. CASE ReplyRead(r)
  BY <1>7 DEF ReplyRead
<1>8. CASE EditRead(r)
  BY <1>8 DEF EditRead
<1>9. CASE DelPostRead(r)
  BY <1>9 DEF DelPostRead
<1>10. CASE RecalcStart(r)
  BY <1>10 DEF RecalcStart, PostsOf
<1>11. CASE Summary(r)
  BY <1>11 DEF Summary
<1>12. CASE DelGroupRead(r)
  BY <1>12 DEF DelGroupRead
<1>13. CASE DelGroupCount(r)
  BY <1>13 DEF DelGroupCount
<1> QED BY <1>1, <1>2, <1>3, <1>4, <1>5, <1>6, <1>7, <1>8, <1>9, <1>10, <1>11, <1>12, <1>13 DEF Reads

\* What a read lets a request do next.
LEMMA ReadsControl ==
  ASSUME IInv, NEW r \in Requests, Reads(r)
  PROVE  ControlOf(r)'
<1> USE DEF IInv, TypeOK
<1>0. /\ ControlOf(r) /\ UNCHANGED <<rows, call, mine>> /\ pc[r] # "done"
      /\ result[r] = "none"
  BY ReadsOwn DEF Control, ControlOf
<1>c. Thr(r) \in Threads \cup {None} /\ Pst(r) \in Posts \cup {None}
  BY CallTyped
<1>p. /\ pc[r] \in PcValues
      /\ \A t \in threads : t \in Threads /\ thread[t] \in ThreadRows /\ thread[t] # None
      /\ \A p \in posts : p \in Posts /\ post[p] # None
  BY DEF Types, Exist
<1> USE <1>0, <1>c, <1>p DEF rows, memory, Goto, Answer, ControlOf, At, Op, Thr, Pst, MayModify
<1>1. CASE Start(r)
  BY <1>1 DEF Start, FirstStep, Types
<1>2. CASE Fail(r)
  BY <1>2 DEF Fail, Types
<1>3. CASE NewThreadRead(r)
  BY <1>3 DEF NewThreadRead, Types
<1>4. CASE ViewRead(r)
  BY <1>4 DEF ViewRead, Types
<1>5. CASE SetThreadRead(r)
  BY <1>5 DEF SetThreadRead, Types
<1>6. CASE DelThreadRead(r)
  BY <1>6 DEF DelThreadRead, Types
<1>7. CASE ReplyRead(r)
  BY <1>7 DEF ReplyRead, Types
<1>8. CASE EditRead(r)
  BY <1>8 DEF EditRead, IsAuthor, Types
<1>9. CASE DelPostRead(r)
  BY <1>9 DEF DelPostRead, Types
<1>10. CASE RecalcStart(r)
  <2>1. /\ seen'[r] = PostsOf(post[Pst(r)].thread) /\ pc[r] = "recalc" /\ pc'[r] = "recount"
        /\ result' = result /\ Op(r) = "delpost"
    BY <1>10 DEF RecalcStart, Types
  <2>2. \A p \in seen'[r] : post[p] # None /\ post[p].thread = post[Pst(r)].thread
    BY <2>1 DEF PostsOf
  <2> QED BY <2>1, <2>2
<1>11. CASE Summary(r)
  BY <1>11 DEF Summary, Types
<1>12. CASE DelGroupRead(r)
  BY <1>12 DEF DelGroupRead, Types
<1>13. CASE DelGroupCount(r)
  BY <1>13 DEF DelGroupCount, Types
<1> QED BY <1>1, <1>2, <1>3, <1>4, <1>5, <1>6, <1>7, <1>8, <1>9, <1>10, <1>11, <1>12, <1>13 DEF Reads

\* Every step records what was locked or filled all along.
LEMMA ObserveTyped ==
  ASSUME Observe PROVE barred' \in [Requests -> BOOLEAN]
  BY DEF Observe

\* The part of the invariant about the rows alone.
RowsInv == /\ groups \subseteq Groups /\ threads \subseteq Threads /\ posts \subseteq Posts
           /\ group \in [Groups -> GroupRows \cup {None}]
           /\ thread \in [Threads -> ThreadRows \cup {None}]
           /\ post \in [Posts -> PostRows \cup {None}]
           /\ ForeignKeys /\ UniqueNames /\ Exist /\ EditedByAuthor
           /\ IsFiniteSet(Written) /\ Clock

LEMMA ReadsStep ==
  ASSUME IInv, NEW r \in Requests, Reads(r), Observe
  PROVE  IInv' /\ Steady /\ Own(r)
<1> USE DEF IInv, TypeOK
<1>1. /\ Own(r) /\ UNCHANGED <<rows, call, mine, history>>
      /\ pc' \in [Requests -> PcValues] /\ result' \in [Requests -> Results]
      /\ loaded' \in [Requests -> ThreadRows \cup {None}] /\ seen' \in [Requests -> SUBSET Posts]
  BY ReadsOwn
<1>2. Types'
  BY <1>1, ObserveTyped DEF Types, rows, history
<1>3. ForeignKeys' /\ UniqueNames' /\ Exist' /\ EditedByAuthor' /\ Written' = Written /\ Steady
  BY <1>1 DEF ForeignKeys, UniqueNames, Taken, Exist, EditedByAuthor, Written, Steady, rows
<1>4. Control'
  BY <1>1, <1>3, OthersControl, ReadsControl DEF Control
<1>5. Bounded'
  BY <1>1, <1>3, StartedFinite DEF Bounded, Clock, Own, rows
<1> QED BY <1>1, <1>2, <1>3, <1>4, <1>5

\* ... and the part about the requests alone.
MemoryTyped ==
  /\ pc \in [Requests -> PcValues] /\ result \in [Requests -> Results]
  /\ mine \in [Requests -> Posts \cup {None}] /\ seen \in [Requests -> SUBSET Posts]
  /\ loaded \in [Requests -> ThreadRows \cup {None}]
  /\ unbumped \subseteq Posts /\ shrunk \subseteq Threads /\ stale \subseteq Threads

\* A step of r that keeps the rows in order keeps the invariant.
LEMMA Assemble ==
  ASSUME IInv, NEW r \in Requests, Own(r), Steady, Observe, RowsInv', MemoryTyped', ControlOf(r)'
  PROVE  IInv'
<1> USE DEF IInv, TypeOK
<1>1. Types'
  BY ObserveTyped DEF Types, RowsInv, MemoryTyped, Own
<1>2. Control'
  BY OthersControl DEF Control
<1>3. Bounded'
  BY StartedFinite DEF Bounded, RowsInv, Own
<1> QED BY <1>1, <1>2, <1>3 DEF RowsInv

LEMMA Rows == ASSUME IInv PROVE RowsInv /\ MemoryTyped /\ \A q \in Requests : ControlOf(q)
  BY DEF IInv, TypeOK, Types, RowsInv, MemoryTyped, Bounded, Control

\* A thread and its first post are committed together.
LEMMA NewThreadStep ==
  ASSUME IInv, NEW r \in Requests, NewThreadInsert(r), Observe
  PROVE  IInv' /\ Steady /\ Own(r)
<1> USE DEF IInv, TypeOK, Types
<1>1. CASE Grp(r) \notin groups
  <2>1. /\ UNCHANGED <<rows, call, memory, history>> /\ Answer(r, "error") /\ At(r, "newthread", "insert")
    BY <1>1 DEF NewThreadInsert, memory
  <2>2. Own(r) /\ Steady /\ MemoryTyped'
    BY <2>1, Moves, Rows DEF Own, Steady, MemoryTyped, rows, memory, history, Results
  <2>3. RowsInv'
    BY <2>1, Rows DEF rows, RowsInv, ForeignKeys, UniqueNames, Taken, Exist, EditedByAuthor, Written, Clock
  <2>4. ControlOf(r)'
    BY <2>1, Rows DEF Answer, ControlOf, At, Op, Thr, rows, memory
  <2> QED BY <2>2, <2>3, <2>4, Assemble
<1>2. CASE Grp(r) \in groups
  <2> DEFINE u == call[r].caller
  <2>1. PICK t \in Threads, p \in Posts :
          /\ thread[t] = None /\ post[p] = None
          /\ threads' = threads \cup {t} /\ posts' = posts \cup {p}
          /\ thread' = [thread EXCEPT ![t] = ThreadRow(Grp(r), u, 1, Now)]
          /\ post' = [post EXCEPT ![p] = PostRow(t, u, Now)]
          /\ mine' = [mine EXCEPT ![r] = p]
          /\ UNCHANGED <<groups, group, call, seen, loaded, history>>
          /\ Goto(r, "summary") /\ At(r, "newthread", "insert")
    BY <1>2, NewIds DEF NewThreadInsert
  <2>2. Now \in Nat /\ u \in Users /\ Grp(r) \in Groups
    BY <1>2, FS_CardinalityType, CallTyped DEF Bounded, Written, Now
  <2>3. ThreadRow(Grp(r), u, 1, Now) \in ThreadRows /\ PostRow(t, u, Now) \in PostRows
    BY <2>2 DEF ThreadRow, PostRow, ThreadRows, PostRows
  <2>4. ThreadRow(Grp(r), u, 1, Now) # None /\ PostRow(t, u, Now) # None
    BY <2>3, NoneAssumption
  <2>5. /\ thread'[t] = ThreadRow(Grp(r), u, 1, Now) /\ post'[p] = PostRow(t, u, Now)
        /\ \A x \in Threads \ {t} : thread'[x] = thread[x]
        /\ \A x \in Posts \ {p} : post'[x] = post[x]
        /\ t \notin threads /\ p \notin posts
    BY <2>1 DEF Exist
  <2>6. PostRow(t, u, Now).thread = t /\ PostRow(t, u, Now).editor = None /\ PostRow(t, u, Now).at = Now
        /\ ThreadRow(Grp(r), u, 1, Now).group = Grp(r)
    BY DEF PostRow, ThreadRow
  <2> HIDE DEF u
  <2>7. Own(r) /\ Steady
    BY <2>1, <2>5, Moves DEF Own, Steady, PcValues
  <2>8. MemoryTyped'
    BY <2>1, Moves, Rows DEF MemoryTyped, PcValues, history
  <2>9. RowsInv'
    <3>1. ForeignKeys' /\ UniqueNames'
      BY <1>2, <2>1, <2>5, <2>6 DEF ForeignKeys, UniqueNames, Taken
    <3>2. Exist'
      BY <2>1, <2>4, <2>5, <2>6 DEF Exist, PostRows
    <3>3. EditedByAuthor'
      BY <2>5, <2>6 DEF EditedByAuthor
    <3>4. IsFiniteSet(Written)' /\ Clock'
      BY <2>1, <2>4, <2>5, <2>6, PostWritten
    <3>5. thread' \in [Threads -> ThreadRows \cup {None}] /\ post' \in [Posts -> PostRows \cup {None}]
      BY <2>1, <2>3
    <3> QED BY <2>1, <3>1, <3>2, <3>3, <3>4, <3>5 DEF RowsInv
  <2>10. ControlOf(r)'
    BY <2>1, <2>4, <2>5, Rows, NoneAssumption DEF Goto, ControlOf, At, Op, Thr, MemoryTyped
  <2> QED BY <2>7, <2>8, <2>9, <2>10, Assemble
<1> QED BY <1>1, <1>2

\* A reply is inserted.
LEMMA ReplyStep ==
  ASSUME IInv, NEW r \in Requests, ReplyInsert(r), Observe
  PROVE  IInv' /\ Steady /\ Own(r)
<1> USE DEF IInv, TypeOK, Types
<1>1. CASE Thr(r) \notin threads
  <2>1. /\ UNCHANGED <<rows, call, memory, history>> /\ Answer(r, "error") /\ At(r, "reply", "insert")
    BY <1>1 DEF ReplyInsert, memory, rows, history
  <2>2. Own(r) /\ Steady /\ MemoryTyped'
    BY <2>1, Moves, Rows DEF Own, Steady, MemoryTyped, rows, memory, history, Results
  <2>3. RowsInv'
    BY <2>1, Rows DEF rows, RowsInv, ForeignKeys, UniqueNames, Taken, Exist, EditedByAuthor, Written, Clock
  <2>4. ControlOf(r)'
    BY <2>1, Rows DEF Answer, ControlOf, At, Op, Thr, rows, memory
  <2> QED BY <2>2, <2>3, <2>4, Assemble
<1>2. CASE Thr(r) \in threads
  <2> DEFINE u == call[r].caller
  <2>1. PICK p \in Posts :
          /\ post[p] = None /\ posts' = posts \cup {p}
          /\ post' = [post EXCEPT ![p] = PostRow(Thr(r), u, Now)]
          /\ mine' = [mine EXCEPT ![r] = p] /\ unbumped' = unbumped \cup {p}
          /\ UNCHANGED <<groups, group, threads, thread, call, seen, loaded, shrunk, stale>>
          /\ Goto(r, "bump") /\ At(r, "reply", "insert")
    BY <1>2, NewIds DEF ReplyInsert
  <2>2. Now \in Nat /\ u \in Users /\ Thr(r) \in Threads
    BY <1>2, FS_CardinalityType, CallTyped DEF Bounded, Written, Now
  <2>3. PostRow(Thr(r), u, Now) \in PostRows /\ PostRow(Thr(r), u, Now) # None
    BY <2>2, NoneAssumption DEF PostRow, PostRows
  <2>4. /\ post'[p] = PostRow(Thr(r), u, Now) /\ p \notin posts
        /\ \A x \in Posts \ {p} : post'[x] = post[x]
    BY <2>1 DEF Exist
  <2>5. PostRow(Thr(r), u, Now).thread = Thr(r) /\ PostRow(Thr(r), u, Now).editor = None
        /\ PostRow(Thr(r), u, Now).at = Now
    BY DEF PostRow
  <2> HIDE DEF u
  <2>6. Own(r) /\ Steady
    BY <2>1, <2>4, Moves DEF Own, Steady, PcValues
  <2>7. MemoryTyped'
    BY <2>1, Moves, Rows DEF MemoryTyped, PcValues
  <2>8. RowsInv'
    <3>1. ForeignKeys' /\ UniqueNames'
      BY <1>2, <2>1, <2>4, <2>5 DEF ForeignKeys, UniqueNames, Taken
    <3>2. Exist' /\ EditedByAuthor'
      BY <1>2, <2>1, <2>3, <2>4, <2>5 DEF Exist, EditedByAuthor
    <3>3. IsFiniteSet(Written)' /\ Clock'
      BY <2>1, <2>3, <2>4, <2>5, PostWritten
    <3> QED BY <2>1, <2>3, <3>1, <3>2, <3>3 DEF RowsInv
  <2>9. ControlOf(r)'
    BY <2>1, <2>3, <2>4, <2>5, Rows, NoneAssumption DEF Goto, ControlOf, At, Op, Thr, MemoryTyped
  <2> QED BY <2>6, <2>7, <2>8, <2>9, Assemble
<1> QED BY <1>1, <1>2

\* Steps that rewrite columns of one thread other than its group and author.
LEMMA ThreadWritten ==
  ASSUME IInv, NEW r \in Requests, Own(r), Observe, ControlOf(r)', MemoryTyped',
         UNCHANGED <<groups, group, threads, posts, post>>,
         NEW t \in Threads, NEW row \in ThreadRows, thread[t] # None,
         row.group = thread[t].group, row.author = thread[t].author,
         thread' = [thread EXCEPT ![t] = row]
  PROVE  IInv' /\ Steady
<1> USE DEF IInv, TypeOK, Types
<1>1. thread'[t] = row /\ row # None /\ \A x \in Threads \ {t} : thread'[x] = thread[x]
  BY NoneAssumption
<1>2. Steady
  BY <1>1 DEF Steady
<1>3. ForeignKeys' /\ UniqueNames' /\ Exist' /\ EditedByAuthor'
  BY <1>1 DEF ForeignKeys, UniqueNames, Taken, Exist, EditedByAuthor
<1>4. Written' = Written /\ Clock' /\ thread' \in [Threads -> ThreadRows \cup {None}]
  BY DEF Written, Clock, Bounded
<1>5. RowsInv'
  BY <1>3, <1>4, Rows DEF RowsInv
<1> QED BY <1>2, <1>5, Assemble

\* Steps that change no row.
LEMMA NothingWritten ==
  ASSUME IInv, NEW r \in Requests, Own(r), Observe, ControlOf(r)', MemoryTyped', UNCHANGED rows
  PROVE  IInv' /\ Steady
<1>1. Steady
  BY DEF Steady, rows
<1>2. RowsInv'
  BY Rows DEF rows, RowsInv, ForeignKeys, UniqueNames, Taken, Exist, EditedByAuthor, Written, Clock
<1> QED BY <1>1, <1>2, Assemble

LEMMA FinishMoves ==
  ASSUME Types, NEW r \in Requests, Finish(r)
  PROVE  /\ pc' \in [Requests -> PcValues] /\ result' \in [Requests -> Results]
         /\ pc'[r] = "done" /\ result'[r] \in {"ok", "error"}
         /\ \A q \in Requests \ {r} : pc'[q] = pc[q] /\ result'[q] = result[q]
  BY DEF Finish, Answer, Types, PcValues, Results

\* New statistics leave the other columns of a thread alone.
Recounted(row, n, at) == [row EXCEPT !.count = n, !.last = at]

LEMMA StatsRow ==
  ASSUME NEW row \in ThreadRows, NEW n \in Nat, NEW at \in Nat
  PROVE  /\ Recounted(row, n, at) \in ThreadRows
         /\ Recounted(row, n, at).count = n /\ Recounted(row, n, at).last = at
         /\ Recounted(row, n, at).group = row.group /\ Recounted(row, n, at).author = row.author
         /\ Recounted(row, n, at).views = row.views
         /\ Recounted(row, n, at).pinned = row.pinned /\ Recounted(row, n, at).locked = row.locked
  BY DEF ThreadRows, Recounted

\* The view counter, the thread's fields, the counters.
LEMMA ViewStep ==
  ASSUME IInv, NEW r \in Requests, IncrementViews(r), Observe
  PROVE  IInv' /\ Steady /\ Own(r)
<1> USE DEF IInv, TypeOK
<1> DEFINE t == Thr(r)
           row == [thread[t] EXCEPT !.views = IF t \in threads THEN ViewsAfter(r) ELSE thread[t].views]
<1>1. /\ t \in Threads /\ thread[t] # None /\ thread[t] \in ThreadRows
      /\ thread' = [thread EXCEPT ![t] = row]
  BY Rows DEF IncrementViews, ControlOf, RowsInv
<1>2. row \in ThreadRows /\ row.group = thread[t].group /\ row.author = thread[t].author
  BY <1>1 DEF ThreadRows, ViewsAfter
<1>3. /\ UNCHANGED <<groups, group, threads, posts, post, call, memory, history>>
      /\ Own(r) /\ MemoryTyped' /\ pc'[r] = "done"
  BY Rows, FinishMoves DEF IncrementViews, Own, MemoryTyped, memory, history
<1> HIDE DEF row
<1>4. ControlOf(r)'
  <2>1. At(r, "view", "increment") /\ ControlOf(r)
    BY Rows DEF IncrementViews
  <2> QED BY <1>3, <2>1 DEF ControlOf, At, Op, memory
<1> QED BY <1>1, <1>2, <1>3, <1>4, ThreadWritten

LEMMA SetThreadStep ==
  ASSUME IInv, NEW r \in Requests, SetThreadWrite(r), Observe
  PROVE  IInv' /\ Steady /\ Own(r)
<1> USE DEF IInv, TypeOK
<1>1. /\ UNCHANGED <<groups, group, threads, posts, post, call, memory, history>>
      /\ At(r, "setthread", "write") /\ ControlOf(r)
      /\ Thr(r) \in Threads /\ thread[Thr(r)] # None /\ thread[Thr(r)] \in ThreadRows
      /\ loaded[r] \in ThreadRows /\ call[r].patch \in Patches
  BY Rows, CallTyped DEF SetThreadWrite, ControlOf, RowsInv, At
<1>2. CASE Thr(r) \notin threads
  <2>1. UNCHANGED rows /\ Answer(r, "not_found")
    BY <1>1, <1>2 DEF SetThreadWrite, rows
  <2>2. Own(r) /\ MemoryTyped'
    BY <1>1, <2>1, Rows, Moves DEF Own, MemoryTyped, memory, history, Results
  <2>3. ControlOf(r)'
    BY <1>1, <2>1, Rows DEF ControlOf, At, Op, Answer, rows, memory, MemoryTyped
  <2> QED BY <2>1, <2>2, <2>3, NothingWritten
<1>3. CASE Thr(r) \in threads
  <2> DEFINE t == Thr(r)
             was == loaded[r]
             row == [thread[t] EXCEPT !.title  = IF call[r].patch.title THEN r ELSE was.title,
                                      !.pinned = Flag(r, "pinned", was.pinned),
                                      !.locked = Flag(r, "locked", was.locked)]
  <2>1. thread' = [thread EXCEPT ![t] = row] /\ Goto(r, "summary")
    BY <1>1, <1>3 DEF SetThreadWrite, RowsInv
  <2>2. Flag(r, "pinned", was.pinned) \in BOOLEAN /\ Flag(r, "locked", was.locked) \in BOOLEAN
    BY <1>1 DEF Flag, Patches, ThreadRows
  <2>3. row \in ThreadRows /\ row.group = thread[t].group /\ row.author = thread[t].author
    BY <1>1, <2>2 DEF ThreadRows
  <2> HIDE DEF row
  <2>4. Own(r) /\ MemoryTyped'
    BY <1>1, <2>1, Rows, Moves DEF Own, MemoryTyped, memory, history, PcValues
  <2>5. ControlOf(r)'
    BY <1>1, <2>1, Rows DEF Goto, ControlOf, At, Op, memory, MemoryTyped
  <2> QED BY <1>1, <2>1, <2>3, <2>4, <2>5, ThreadWritten
<1> QED BY <1>2, <1>3

LEMMA BumpStep ==
  ASSUME IInv, NEW r \in Requests, BumpPost(r), Observe
  PROVE  IInv' /\ Steady /\ Own(r)
<1> USE DEF IInv, TypeOK
<1>1. /\ UNCHANGED <<groups, group, threads, posts, post, call, memory, shrunk, stale>>
      /\ unbumped' = unbumped \ {mine[r]} /\ Goto(r, "summary")
      /\ At(r, "reply", "bump") /\ ControlOf(r) /\ mine[r] # None
  BY Rows DEF BumpPost, ControlOf
<1>2. mine[r] \in Posts /\ post[mine[r]] \in PostRows
  BY <1>1, Rows DEF ControlOf, RowsInv, MemoryTyped
<1>3. Own(r) /\ MemoryTyped'
  BY <1>1, Rows, Moves DEF Own, MemoryTyped, memory, PcValues
<1>4. ControlOf(r)'
  BY <1>1, Rows DEF Goto, ControlOf, At, Op, Thr, memory, MemoryTyped
<1>5. CASE Thr(r) \notin threads
  <2>1. UNCHANGED rows
    BY <1>1, <1>5 DEF BumpPost, rows
  <2> QED BY <1>3, <1>4, <2>1, NothingWritten
<1>6. CASE Thr(r) \in threads
  <2> DEFINE t == Thr(r)
             row == Recounted(thread[t], BumpedCount(r), BumpedLast(r))
  <2>1. thread[t] # None /\ thread[t] \in ThreadRows /\ t \in Threads
    BY <1>6 DEF Exist, Types
  <2>2. thread' = [thread EXCEPT ![t] = row]
    BY <1>6, <2>1 DEF BumpPost, Types, Recounted
  <2>3. row \in ThreadRows /\ row.group = thread[t].group /\ row.author = thread[t].author
    <3>1. BumpedCount(r) \in Nat /\ BumpedLast(r) \in Nat
      BY <1>2, <2>1 DEF ThreadRows, PostRows, BumpedCount, BumpedLast
    <3> QED BY <2>1, <3>1, StatsRow
  <2> HIDE DEF row
  <2> QED BY <1>1, <1>3, <1>4, <2>1, <2>2, <2>3, ThreadWritten
<1> QED BY <1>5, <1>6


LEMMA RecalcStep ==
  ASSUME IInv, NEW r \in Requests, RecalcStats(r), Observe
  PROVE  IInv' /\ Steady /\ Own(r)
<1> USE DEF IInv, TypeOK
<1>1. /\ UNCHANGED <<groups, group, threads, posts, post, call, memory, unbumped, shrunk>>
      /\ At(r, "delpost", "recount") /\ ControlOf(r) /\ Finish(r)
      /\ Pst(r) \in Posts /\ post[Pst(r)] # None /\ post[Pst(r)] \in PostRows
      /\ \A p \in seen[r] : post[p] # None /\ post[p].thread = post[Pst(r)].thread
      /\ seen[r] \subseteq Posts
      /\ stale' = stale \/ stale' = stale \cup {post[Pst(r)].thread}
  BY Rows DEF RecalcStats, ControlOf, At, RowsInv, MemoryTyped
<1>2. seen[r] \subseteq Written /\ IsFiniteSet(seen[r]) /\ Cardinality(seen[r]) \in Nat /\ Cardinality(Written) \in Nat
  BY <1>1, FS_Subset, FS_CardinalityType DEF Bounded, Written
<1>3. Latest(seen[r]) \in Nat
  <2>1. Bound(Times(post, seen[r]), Cardinality(Written))
    BY <1>2 DEF Bound, Times, Bounded, Clock
  <2>2. LatestIn(post, seen[r]) \in Nat
    BY <1>2, <2>1, LatestIs DEF IsMax, Bound
  <2> QED BY <2>2 DEF Latest, LatestIn
<1>4. Own(r) /\ MemoryTyped'
  BY <1>1, Rows, FinishMoves DEF Own, MemoryTyped, memory, PostRows
<1>5. ControlOf(r)'
  BY <1>1, FinishMoves DEF ControlOf, At, Op, memory
<1> DEFINE t == post[Pst(r)].thread
<1>6. CASE t \notin threads
  <2>1. UNCHANGED rows
    BY <1>1, <1>6 DEF RecalcStats, rows
  <2> QED BY <1>4, <1>5, <2>1, NothingWritten
<1>7. CASE t \in threads
  <2>1. PICK x \in Threads : x = t /\ thread[x] # None /\ thread[x] \in ThreadRows
    BY <1>7 DEF Exist, Types
  <2>2. PICK old \in ThreadRows, n \in Nat, at \in Nat :
          old = thread[x] /\ n = Cardinality(seen[r]) /\ at = Latest(seen[r])
    BY <1>2, <1>3, <2>1
  <2>3. PICK row : row = Recounted(old, n, at)
    OBVIOUS
  <2>4. thread' = [thread EXCEPT ![x] = row]
    BY <1>7, <2>1, <2>2, <2>3 DEF RecalcStats, Types, Recounted
  <2>5. row \in ThreadRows /\ row.group = old.group /\ row.author = old.author
    BY <2>3, StatsRow
  <2> QED BY <1>1, <1>4, <1>5, <2>1, <2>2, <2>4, <2>5, ThreadWritten
<1> QED BY <1>6, <1>7

\* An edit changes the body and the editor.
LEMMA EditStep ==
  ASSUME IInv, NEW r \in Requests, EditWrite(r), Observe
  PROVE  IInv' /\ Steady /\ Own(r)
<1> USE DEF IInv, TypeOK
<1>1. /\ UNCHANGED <<groups, group, threads, posts, thread, call, memory, history>>
      /\ At(r, "edit", "write") /\ ControlOf(r)
      /\ Pst(r) \in Posts /\ post[Pst(r)] # None /\ post[Pst(r)] \in PostRows
      /\ post[Pst(r)].author = call[r].caller
  BY Rows DEF EditWrite, ControlOf, RowsInv
<1>2. CASE Pst(r) \notin posts
  <2>1. UNCHANGED rows /\ Answer(r, "not_found")
    BY <1>1, <1>2 DEF EditWrite, rows
  <2>2. Own(r) /\ MemoryTyped'
    BY <1>1, <2>1, Rows, Moves DEF Own, MemoryTyped, memory, history, Results
  <2>3. ControlOf(r)'
    BY <1>1, <2>1, Rows DEF ControlOf, At, Op, Answer, rows, memory, MemoryTyped
  <2> QED BY <2>1, <2>2, <2>3, NothingWritten
<1>3. CASE Pst(r) \in posts
  <2> DEFINE row == [post[Pst(r)] EXCEPT !.editor = call[r].caller]
  <2>1. post' = [post EXCEPT ![Pst(r)] = row] /\ Goto(r, "summary")
    BY <1>1, <1>3 DEF EditWrite, Types
  <2>2. /\ row \in PostRows /\ row # None /\ row.thread = post[Pst(r)].thread
        /\ row.author = post[Pst(r)].author /\ row.at = post[Pst(r)].at
        /\ row.editor = post[Pst(r)].author
    BY <1>1, NoneAssumption DEF PostRows
  <2>3. post'[Pst(r)] = row /\ \A x \in Posts \ {Pst(r)} : post'[x] = post[x]
    BY <1>1, <2>1 DEF Types
  <2> HIDE DEF row
  <2>4. Own(r) /\ Steady
    BY <1>1, <2>1, <2>2, <2>3, Moves DEF Own, Steady, memory, PcValues
  <2>5. MemoryTyped'
    BY <1>1, <2>1, Rows, Moves DEF MemoryTyped, memory, history, PcValues
  <2>6. ControlOf(r)'
    BY <1>1, <2>1, <2>2, <2>3, Rows DEF Goto, ControlOf, At, Op, memory, MemoryTyped
  <2>7. ForeignKeys' /\ UniqueNames' /\ Exist' /\ EditedByAuthor'
    BY <1>1, <2>2, <2>3 DEF ForeignKeys, UniqueNames, Taken, Exist, EditedByAuthor, Types
  <2>8. Written' = Written
    BY <1>1, <2>2, <2>3 DEF Written
  <2>9. Clock'
    BY <2>2, <2>3, <2>8 DEF Clock, Bounded, Written
  <2>10. RowsInv'
    BY <1>1, <2>1, <2>2, <2>7, <2>8, <2>9, Rows DEF RowsInv
  <2> QED BY <2>4, <2>5, <2>6, <2>10, Assemble
<1> QED BY <1>2, <1>3

\* Deletions take rows out of the tables and change no column.
LEMMA RowsRemoved ==
  ASSUME IInv, NEW r \in Requests, Own(r), Observe, ControlOf(r)', MemoryTyped',
         UNCHANGED <<groups, group, thread, post>>,
         threads' \subseteq threads, posts' \subseteq posts,
         \A p \in posts' : post[p].thread \in threads'
  PROVE  IInv' /\ Steady
<1> USE DEF IInv, TypeOK
<1>1. Steady
  BY DEF Steady
<1>2. ForeignKeys' /\ UniqueNames' /\ Exist' /\ EditedByAuthor'
  BY DEF ForeignKeys, UniqueNames, Taken, Exist, EditedByAuthor
<1>3. Written' = Written /\ Clock'
  BY DEF Written, Clock, Bounded
<1>4. RowsInv'
  BY <1>2, <1>3, Rows DEF RowsInv
<1> QED BY <1>1, <1>4, Assemble

LEMMA DelPostStep ==
  ASSUME IInv, NEW r \in Requests, DelPostDelete(r), Observe
  PROVE  IInv' /\ Steady /\ Own(r)
<1> USE DEF IInv, TypeOK
<1>1. /\ UNCHANGED <<groups, group, threads, thread, post, call, memory, unbumped, stale>>
      /\ At(r, "delpost", "delete") /\ ControlOf(r)
      /\ Pst(r) \in Posts /\ post[Pst(r)] # None /\ post[Pst(r)].thread \in Threads
      /\ posts' \subseteq posts /\ shrunk' \subseteq shrunk \cup {post[Pst(r)].thread}
      /\ \/ Goto(r, "recalc")
         \/ Answer(r, "not_found")
  BY Rows DEF DelPostDelete, ControlOf, At, RowsInv, PostRows
<1>2. Own(r) /\ MemoryTyped'
  <2>1. Own(r)
    BY <1>1, Moves DEF Own, memory, PcValues, Results
  <2>2. MemoryTyped'
    BY <1>1, Rows, Moves DEF MemoryTyped, memory, PcValues, Results
  <2> QED BY <2>1, <2>2
<1>3. ControlOf(r)'
  BY <1>1, Rows DEF Goto, Answer, ControlOf, At, Op, Pst, MayModify, memory, MemoryTyped
<1> QED BY <1>1, <1>2, <1>3, RowsRemoved DEF ForeignKeys

LEMMA DelThreadStep ==
  ASSUME IInv, NEW r \in Requests, DelThreadDelete(r), Observe
  PROVE  IInv' /\ Steady /\ Own(r)
<1> USE DEF IInv, TypeOK
<1>1. /\ UNCHANGED <<groups, group, thread, post, call, memory, history>>
      /\ At(r, "delthread", "delete") /\ ControlOf(r)
      /\ threads' = threads \ {Thr(r)} /\ posts' = posts \ PostsOf(Thr(r))
      /\ Finish(r) \/ Answer(r, "not_found")
  BY Rows DEF DelThreadDelete, RemoveThreads
<1>2. pc'[r] = "done" /\ Own(r) /\ MemoryTyped'
  <2>1. CASE Finish(r)
    BY <1>1, <2>1, Rows, FinishMoves DEF Own, MemoryTyped, memory, history
  <2>2. CASE Answer(r, "not_found")
    <3>1. pc'[r] = "done"
      BY <2>2 DEF Answer, Types
    <3> QED BY <1>1, <2>2, <3>1, Rows, Moves DEF Own, MemoryTyped, memory, history, Results
  <2> QED BY <1>1, <2>1, <2>2
<1>3. ControlOf(r)'
  BY <1>1, <1>2 DEF ControlOf, At, Op, memory
<1>4. \A p \in posts' : post[p].thread \in threads'
  BY <1>1 DEF PostsOf, ForeignKeys
<1> QED BY <1>1, <1>2, <1>3, <1>4, RowsRemoved

\* Groups: the threads go with their group and its children move to the top.
LEMMA DelGroupStep ==
  ASSUME IInv, NEW r \in Requests, DelGroupDelete(r), Observe
  PROVE  IInv' /\ Steady /\ Own(r)
<1> USE DEF IInv, TypeOK
<1> DEFINE g == Grp(r)
<1>1. /\ UNCHANGED <<thread, post, call, memory, history>>
      /\ At(r, "delgroup", "delete") /\ ControlOf(r)
      /\ groups' = groups \ {g} /\ threads' = threads \ ThreadsOf(g)
      /\ posts' = posts \ UNION {PostsOf(t) : t \in ThreadsOf(g)}
      /\ Finish(r) \/ Answer(r, "not_found")
  BY Rows DEF DelGroupDelete, RemoveThreads
<1>2. pc'[r] = "done" /\ Own(r) /\ MemoryTyped'
  <2>1. CASE Finish(r)
    BY <1>1, <2>1, Rows, FinishMoves DEF Own, MemoryTyped, memory, history
  <2>2. CASE Answer(r, "not_found")
    <3>1. pc'[r] = "done"
      BY <2>2 DEF Answer, Types
    <3> QED BY <1>1, <2>2, <3>1, Rows, Moves DEF Own, MemoryTyped, memory, history, Results
  <2> QED BY <1>1, <2>1, <2>2
<1>3. ControlOf(r)'
  BY <1>1, <1>2 DEF ControlOf, At, Op, memory
<1>4. /\ group' \in [Groups -> GroupRows \cup {None}]
      /\ \A h \in Groups : group[h] = None => group'[h] = None
      /\ \A h \in Groups : group[h] # None =>
           /\ group'[h] # None /\ group'[h].name = group[h].name
           /\ group'[h].parent = IF group[h].parent = g THEN None ELSE group[h].parent
  <2>1. \A h \in Groups : group'[h] = IF group[h] # None /\ group[h].parent = g
                                        THEN [group[h] EXCEPT !.parent = None] ELSE group[h]
    BY DEF DelGroupDelete
  <2>2. \A h \in Groups : group[h] # None => group[h] \in GroupRows
    BY DEF Types
  <2>3. \A row \in GroupRows : /\ [row EXCEPT !.parent = None] \in GroupRows
                               /\ [row EXCEPT !.parent = None].name = row.name
                               /\ [row EXCEPT !.parent = None].parent = None
    BY DEF GroupRows
  <2>4. DOMAIN group' = Groups /\ group' = [h \in Groups |-> group'[h]]
    BY DEF DelGroupDelete
  <2>5. \A h \in Groups : group'[h] \in GroupRows \cup {None}
    BY <2>1, <2>2, <2>3
  <2>6. ASSUME NEW h \in Groups, group[h] # None, group[h].parent = g
        PROVE  /\ group'[h] \in GroupRows /\ group'[h].name = group[h].name /\ group'[h].parent = None
    <3>1. group'[h] = [group[h] EXCEPT !.parent = None] /\ group[h] \in GroupRows
      BY <2>1, <2>2, <2>6
    <3> QED BY <3>1 DEF GroupRows
  <2>7. \A h \in Groups : ~(group[h] # None /\ group[h].parent = g) => group'[h] = group[h]
    BY <2>1
  <2>8. group' \in [Groups -> GroupRows \cup {None}]
    BY <2>4, <2>5
  <2> QED BY <2>6, <2>7, <2>8, NoneAssumption
<1>5. Steady
  BY <1>1, <1>4 DEF Steady
<1>6. ForeignKeys'
  <2>1. \A p \in posts' : post[p].thread \in threads'
    BY <1>1 DEF PostsOf, ForeignKeys
  <2>2. \A t \in threads' : thread[t].group \in groups'
    BY <1>1 DEF ThreadsOf, ForeignKeys
  <2>3. \A h \in groups' : group'[h].parent \in groups' \cup {None}
    BY <1>1, <1>4 DEF ForeignKeys, Exist, Types
  <2> QED BY <1>1, <2>1, <2>2, <2>3 DEF ForeignKeys
<1>7. UniqueNames' /\ Exist' /\ EditedByAuthor'
  BY <1>1, <1>4 DEF UniqueNames, Taken, Exist, EditedByAuthor, Types
<1>8. Written' = Written /\ Clock'
  BY <1>1 DEF Written, Clock, Bounded
<1>9. RowsInv'
  BY <1>1, <1>4, <1>6, <1>7, <1>8, Rows DEF RowsInv
<1> QED BY <1>2, <1>3, <1>5, <1>9, Assemble

\* A group is created or updated: its row is the request's.
LEMMA GroupWritten ==
  ASSUME IInv, NEW r \in Requests, Own(r), Observe, ControlOf(r)', MemoryTyped',
         UNCHANGED <<threads, posts, thread, post>>,
         NEW g \in Groups, groups' = groups \cup {g},
         call[r].name \in Names, call[r].parent \in groups \cup {None},
         ~Taken(call[r].name, {g}),
         group' = [group EXCEPT ![g] = GroupRow(call[r].name, call[r].parent)]
  PROVE  IInv' /\ Steady
<1> USE DEF IInv, TypeOK
<1> DEFINE row == GroupRow(call[r].name, call[r].parent)
<1>1. row \in GroupRows /\ row # None /\ row.name = call[r].name /\ row.parent = call[r].parent
  BY NoneAssumption DEF GroupRow, GroupRows, Types
<1>2. group'[g] = row /\ \A h \in Groups \ {g} : group'[h] = group[h]
  BY DEF Types
<1>3. group' \in [Groups -> GroupRows \cup {None}]
  BY <1>1 DEF Types
<1> HIDE DEF row
<1>4. Steady
  BY <1>1, <1>2 DEF Steady
<1>5. ForeignKeys' /\ Exist' /\ EditedByAuthor'
  BY <1>1, <1>2 DEF ForeignKeys, Exist, EditedByAuthor, Types
<1>6. UniqueNames'
  BY <1>1, <1>2 DEF UniqueNames, Taken, Types
<1>7. Written' = Written /\ Clock'
  BY DEF Written, Clock, Bounded
<1>8. RowsInv'
  BY <1>3, <1>5, <1>6, <1>7, Rows DEF RowsInv
<1> QED BY <1>4, <1>8, Assemble

LEMMA NewGroupStep ==
  ASSUME IInv, NEW r \in Requests, NewGroupInsert(r), Observe
  PROVE  IInv' /\ Steady /\ Own(r)
<1> USE DEF IInv, TypeOK
<1>1. /\ UNCHANGED <<threads, posts, thread, post, call, memory, history>>
      /\ At(r, "newgroup", "insert") /\ ControlOf(r)
      /\ call[r].name \in Names
  BY Rows, CallTyped DEF NewGroupInsert, At
<1>2. CASE UNCHANGED <<groups, group>> /\ \E res \in {"conflict", "error"} : Answer(r, res)
  <2>1. Own(r) /\ MemoryTyped' /\ UNCHANGED rows
    BY <1>1, <1>2, Rows, Moves DEF Own, MemoryTyped, memory, history, Results, rows
  <2>2. ControlOf(r)'
    BY <1>1, <1>2, Rows DEF ControlOf, At, Op, Answer, memory, MemoryTyped
  <2> QED BY <2>1, <2>2, NothingWritten
<1>3. CASE ~(UNCHANGED <<groups, group>> /\ \E res \in {"conflict", "error"} : Answer(r, res))
  <2>1. PICK g \in Groups :
          /\ group[g] = None /\ groups' = groups \cup {g}
          /\ group' = [group EXCEPT ![g] = GroupRow(call[r].name, call[r].parent)]
          /\ ~Taken(call[r].name, {}) /\ call[r].parent \in groups \cup {None} /\ Finish(r)
    BY <1>3, NewIds DEF NewGroupInsert
  <2>2. Own(r) /\ MemoryTyped'
    BY <1>1, <2>1, Rows, FinishMoves DEF Own, MemoryTyped, memory, history
  <2>3. ControlOf(r)'
    BY <1>1, <2>1, FinishMoves DEF ControlOf, At, Op, memory
  <2>4. ~Taken(call[r].name, {g})
    BY <2>1 DEF Taken
  <2> QED BY <1>1, <2>1, <2>2, <2>3, <2>4, GroupWritten
<1> QED BY <1>2, <1>3

LEMMA SetGroupStep ==
  ASSUME IInv, NEW r \in Requests, SetGroupWrite(r), Observe
  PROVE  IInv' /\ Steady /\ Own(r)
<1> USE DEF IInv, TypeOK
<1>1. /\ UNCHANGED <<groups, threads, posts, thread, post, call, memory, history>>
      /\ At(r, "setgroup", "write") /\ ControlOf(r)
      /\ call[r].name \in Names
  BY Rows, CallTyped DEF SetGroupWrite, At
<1>2. CASE group' = group /\ \E res \in {"not_found", "error"} : Answer(r, res)
  <2>1. Own(r) /\ MemoryTyped' /\ UNCHANGED rows
    BY <1>1, <1>2, Rows, Moves DEF Own, MemoryTyped, memory, history, Results, rows
  <2>2. ControlOf(r)'
    BY <1>1, <1>2, Rows DEF ControlOf, At, Op, Answer, memory, MemoryTyped
  <2> QED BY <2>1, <2>2, NothingWritten
<1>3. CASE ~(group' = group /\ \E res \in {"not_found", "error"} : Answer(r, res))
  <2>1. /\ Grp(r) \in groups /\ Grp(r) \in Groups /\ groups' = groups \cup {Grp(r)}
        /\ group' = [group EXCEPT ![Grp(r)] = GroupRow(call[r].name, call[r].parent)]
        /\ ~Taken(call[r].name, {Grp(r)}) /\ call[r].parent \in groups \cup {None} /\ Finish(r)
    BY <1>1, <1>3 DEF SetGroupWrite, UpdatedGroup, Types
  <2>2. Own(r) /\ MemoryTyped'
    BY <1>1, <2>1, Rows, FinishMoves DEF Own, MemoryTyped, memory, history
  <2>3. ControlOf(r)'
    BY <1>1, <2>1, FinishMoves DEF ControlOf, At, Op, memory
  <2> QED BY <1>1, <2>1, <2>2, <2>3, GroupWritten
<1> QED BY <1>2, <1>3

\* Every step of a request keeps the invariant, the identity of the rows and the
\* memory of the other requests.
LEMMA RequestStep ==
  ASSUME IInv, NEW r \in Requests, RequestNext(r), Observe
  PROVE  IInv' /\ Steady /\ Own(r)
  BY ReadsStep, NewThreadStep, ReplyStep, ViewStep, SetThreadStep, BumpStep, RecalcStep, EditStep,
     DelPostStep, DelThreadStep, DelGroupStep, NewGroupStep, SetGroupStep DEF RequestNext, Reads

LEMMA NextInv == IInv /\ [Next]_vars => IInv'
<1> SUFFICES ASSUME IInv, [Next]_vars PROVE IInv'
  OBVIOUS
<1>1. CASE Next
  BY <1>1, RequestStep DEF Next
<1>2. CASE UNCHANGED vars
  <2> USE <1>2 DEF vars, rows, memory, history
  <2>1. TypeOK'
    BY DEF IInv, TypeOK, Types, ForeignKeys, UniqueNames, Taken
  <2>2. Exist' /\ EditedByAuthor' /\ Bounded'
    BY DEF IInv, Exist, EditedByAuthor, Bounded, Written, Started, Clock
  <2>3. Control'
    BY DEF IInv, Control, ControlOf, At, Op, Thr, Pst, MayModify
  <2> QED BY <2>1, <2>2, <2>3 DEF IInv
<1> QED BY <1>1, <1>2

-----------------------------------------------------------------------------
(* The start.                                                                *)

SeedOf(t) == {i \in 1..Len(SeedPosts) : SeedPosts[i].thread = t}
NewestOf(t) == CHOOSE i \in SeedOf(t) : \A j \in SeedOf(t) : j <= i
Ids(I) == {SeedPosts[i].id : i \in I}

LEMMA SeedTyped ==
  /\ Len(SeedPosts) \in Nat
  /\ \A i \in 1..Len(SeedPosts) :
       /\ SeedPosts[i].id \in Posts /\ SeedPosts[i].author \in Users
       /\ \E s \in SeedThreads : s.id = SeedPosts[i].thread
  /\ \A s \in SeedThreads : /\ s.id \in Threads /\ s.author \in Users /\ SeedOf(s.id) # {}
                            /\ \E g \in SeedGroups : g.id = s.group
  /\ \A s \in SeedGroups : s.id \in Groups /\ s.name \in Names
<1> DEFINE PT == [id : Posts, thread : {s.id : s \in SeedThreads}, author : Users]
<1>1. SeedPosts \in Seq(PT)
  BY SeedAssumption
<1>2. Len(SeedPosts) \in Nat /\ \A i \in 1..Len(SeedPosts) : SeedPosts[i] \in PT
  <2> HIDE DEF PT
  <2> QED BY <1>1
<1>3. \A x \in PT : x.id \in Posts /\ x.author \in Users /\ \E s \in SeedThreads : s.id = x.thread
  OBVIOUS
<1>4. \A s \in SeedThreads : s.id \in Threads /\ s.author \in Users /\ \E g \in SeedGroups : g.id = s.group
  BY SeedAssumption
<1>5. \A s \in SeedThreads : SeedOf(s.id) # {}
  BY SeedAssumption DEF SeedOf
<1>6. \A s \in SeedGroups : s.id \in Groups /\ s.name \in Names
  BY SeedAssumption
<1> QED BY <1>2, <1>3, <1>4, <1>5, <1>6

\* The posts of the start are as many as their positions.
LEMMA IdsCount ==
  ASSUME NEW I \in SUBSET (1..Len(SeedPosts))
  PROVE  IsFiniteSet(Ids(I)) /\ IsFiniteSet(I) /\ Cardinality(Ids(I)) = Cardinality(I)
<1> DEFINE f == [i \in I |-> SeedPosts[i].id]
<1>1. IsFiniteSet(I)
  <2>1. IsFiniteSet(1..Len(SeedPosts))
    BY SeedTyped, FS_Interval
  <2> QED BY <2>1, FS_Subset
<1>2. \A a, b \in I : f[a] = f[b] => a = b
  BY SeedAssumption
<1>3. f \in [I -> Ids(I)] /\ \A x \in Ids(I) : \E i \in I : f[i] = x
  BY DEF Ids
<1>4. f \in Bijection(I, Ids(I))
  BY <1>2, <1>3 DEF Bijection, Injection, Surjection, IsInjective
<1>5. ExistsBijection(I, Ids(I))
  BY <1>4 DEF ExistsBijection
<1> QED BY <1>1, <1>5, FS_Bijection

LEMMA SeedCount == Cardinality(1..Len(SeedPosts)) = Len(SeedPosts)
<1>1. PICK n \in Nat : n = Len(SeedPosts)
  BY SeedTyped
<1>2. Cardinality(1..n) = IF 1 > n THEN 0 ELSE n - 1 + 1
  BY FS_Interval
<1> QED BY <1>1, <1>2

LEMMA NewestIs ==
  ASSUME NEW s \in SeedThreads
  PROVE  IsMax(NewestOf(s.id), SeedOf(s.id))
<1>1. Bound(SeedOf(s.id), Len(SeedPosts)) /\ SeedOf(s.id) # {} /\ Len(SeedPosts) \in Nat
  BY SeedTyped DEF Bound, SeedOf
<1>2. \E i \in SeedOf(s.id) : \A j \in SeedOf(s.id) : j <= i
  BY <1>1, MaxExists DEF IsMax
<1> QED BY <1>2 DEF NewestOf, IsMax

\* The rows the forum starts with.
LEMMA InitRows ==
  ASSUME Init
  PROVE  /\ groups \subseteq Groups /\ threads \subseteq Threads /\ posts \subseteq Posts
         /\ \A g \in groups : \E s \in SeedGroups : s.id = g /\ group[g] = GroupRow(s.name, None)
         /\ \A t \in threads : \E s \in SeedThreads :
              s.id = t /\ thread[t] = ThreadRow(s.group, s.author, Cardinality(SeedOf(t)), NewestOf(t))
         /\ \A p \in posts : \E i \in 1..Len(SeedPosts) : 
              SeedPosts[i].id = p /\ post[p] = PostRow(SeedPosts[i].thread, SeedPosts[i].author, i)
         /\ \A g \in Groups \ groups : group[g] = None
         /\ \A t \in Threads \ threads : thread[t] = None
         /\ \A p \in Posts \ posts : post[p] = None
         /\ groups = {s.id : s \in SeedGroups} /\ threads = {s.id : s \in SeedThreads}
         /\ posts = Ids(1..Len(SeedPosts))
         /\ DOMAIN group = Groups /\ DOMAIN thread = Threads /\ DOMAIN post = Posts
<1>1. /\ groups = {s.id : s \in SeedGroups} /\ threads = {s.id : s \in SeedThreads}
      /\ posts = Ids(1..Len(SeedPosts))
  BY DEF Init, Ids
<1>2. groups \subseteq Groups /\ threads \subseteq Threads /\ posts \subseteq Posts
  BY <1>1, SeedTyped DEF Ids
<1>3. /\ DOMAIN group = Groups
      /\ \A g \in Groups : group[g] = IF g \in groups
            THEN GroupRow((CHOOSE s \in SeedGroups : s.id = g).name, None) ELSE None
  BY DEF Init
<1>4. /\ DOMAIN thread = Threads
      /\ \A t \in Threads : thread[t] = IF t \in threads
            THEN LET s == CHOOSE s \in SeedThreads : s.id = t
                 IN  ThreadRow(s.group, s.author, Cardinality(SeedOf(t)), NewestOf(t)) ELSE None
  BY DEF Init, SeedOf, NewestOf
<1>5. /\ DOMAIN post = Posts
      /\ \A p \in Posts : post[p] = IF p \in posts
            THEN LET i == CHOOSE i \in 1..Len(SeedPosts) : SeedPosts[i].id = p
                 IN  PostRow(SeedPosts[i].thread, SeedPosts[i].author, i) ELSE None
  BY DEF Init
<1>6. ASSUME NEW g \in groups
      PROVE  \E s \in SeedGroups : s.id = g /\ group[g] = GroupRow(s.name, None)
  <2> DEFINE s == CHOOSE s \in SeedGroups : s.id = g
  <2>1. s \in SeedGroups /\ s.id = g
    BY <1>1
  <2>2. group[g] = GroupRow(s.name, None)
    BY <1>2, <1>3
  <2> QED BY <2>1, <2>2
<1>7. ASSUME NEW t \in threads
      PROVE  \E s \in SeedThreads :
              s.id = t /\ thread[t] = ThreadRow(s.group, s.author, Cardinality(SeedOf(t)), NewestOf(t))
  <2> DEFINE s == CHOOSE s \in SeedThreads : s.id = t
  <2>1. s \in SeedThreads /\ s.id = t
    BY <1>1
  <2>2. thread[t] = ThreadRow(s.group, s.author, Cardinality(SeedOf(t)), NewestOf(t))
    BY <1>2, <1>4
  <2> QED BY <2>1, <2>2
<1>8. ASSUME NEW p \in posts
      PROVE  \E i \in 1..Len(SeedPosts) :
              SeedPosts[i].id = p /\ post[p] = PostRow(SeedPosts[i].thread, SeedPosts[i].author, i)
  <2> DEFINE i == CHOOSE i \in 1..Len(SeedPosts) : SeedPosts[i].id = p
  <2>1. i \in 1..Len(SeedPosts) /\ SeedPosts[i].id = p
    BY <1>1 DEF Ids
  <2>2. post[p] = PostRow(SeedPosts[i].thread, SeedPosts[i].author, i)
    BY <1>2, <1>5
  <2> QED BY <2>1, <2>2
<1> QED BY <1>1, <1>2, <1>3, <1>4, <1>5, <1>6, <1>7, <1>8

LEMMA InitInv == Init => IInv
<1> SUFFICES ASSUME Init PROVE IInv
  OBVIOUS
<1> USE InitRows, SeedTyped
<1>1. /\ \A g \in groups : group[g] \in GroupRows /\ group[g] # None /\ group[g].parent = None
      /\ \A g, h \in groups : group[g].name = group[h].name => g = h
  <2>1. \A s \in SeedGroups : /\ GroupRow(s.name, None) \in GroupRows
                              /\ GroupRow(s.name, None).parent = None /\ GroupRow(s.name, None).name = s.name
    BY DEF GroupRow, GroupRows
  <2>2. \A g \in groups : \E s \in SeedGroups : s.id = g /\ group[g] \in GroupRows
                                                /\ group[g].parent = None /\ group[g].name = s.name
    BY <2>1
  <2> QED BY <2>2, NoneAssumption, SeedAssumption
<1>2. \A t \in threads : thread[t] \in ThreadRows /\ thread[t] # None /\ thread[t].group \in groups
  <2> SUFFICES ASSUME NEW t \in threads
               PROVE  thread[t] \in ThreadRows /\ thread[t] # None /\ thread[t].group \in groups
    OBVIOUS
  <2>1. PICK s \in SeedThreads :
          s.id = t /\ thread[t] = ThreadRow(s.group, s.author, Cardinality(SeedOf(t)), NewestOf(t))
    OBVIOUS
  <2>2. Cardinality(SeedOf(t)) \in Nat
    BY IdsCount, FS_CardinalityType DEF SeedOf
  <2>3. NewestOf(t) \in Nat
    <3>1. NewestOf(t) \in SeedOf(t)
      BY <2>1, NewestIs DEF IsMax
    <3> QED BY <3>1 DEF SeedOf
  <2>4. s.group \in groups /\ s.group \in Groups /\ s.author \in Users
    OBVIOUS
  <2>5. thread[t] \in ThreadRows /\ thread[t].group = s.group
    BY <2>1, <2>2, <2>3, <2>4 DEF ThreadRow, ThreadRows
  <2> QED BY <2>4, <2>5, NoneAssumption
<1>3. \A p \in posts : /\ post[p] \in PostRows /\ post[p] # None /\ post[p].thread \in threads
                       /\ post[p].at \in 1..Len(SeedPosts) /\ post[p].editor = None
  <2> SUFFICES ASSUME NEW p \in posts
               PROVE  /\ post[p] \in PostRows /\ post[p].thread \in threads
                      /\ post[p].at \in 1..Len(SeedPosts) /\ post[p].editor = None
    BY NoneAssumption
  <2>1. PICK i \in 1..Len(SeedPosts) :
          SeedPosts[i].id = p /\ post[p] = PostRow(SeedPosts[i].thread, SeedPosts[i].author, i)
    OBVIOUS
  <2>2. SeedPosts[i].thread \in threads /\ SeedPosts[i].thread \in Threads /\ SeedPosts[i].author \in Users
    OBVIOUS
  <2> QED BY <2>1, <2>2 DEF PostRow, PostRows
<1>4. Types
  <2>1. /\ group \in [Groups -> GroupRows \cup {None}]
        /\ thread \in [Threads -> ThreadRows \cup {None}]
        /\ post \in [Posts -> PostRows \cup {None}]
    <3>1. /\ \A g \in Groups : group[g] \in GroupRows \cup {None}
          /\ \A t \in Threads : thread[t] \in ThreadRows \cup {None}
          /\ \A p \in Posts : post[p] \in PostRows \cup {None}
      BY <1>1, <1>2, <1>3
    <3>2. /\ group = [g \in Groups |-> group[g]] /\ thread = [t \in Threads |-> thread[t]]
          /\ post = [p \in Posts |-> post[p]]
      BY DEF Init
    <3> QED BY <3>1, <3>2
  <2>2. /\ call \in [Requests -> CallSet] /\ pc \in [Requests -> PcValues] /\ result \in [Requests -> Results]
        /\ mine \in [Requests -> Posts \cup {None}] /\ seen \in [Requests -> SUBSET Posts]
        /\ loaded \in [Requests -> ThreadRows \cup {None}]
        /\ unbumped \subseteq Posts /\ shrunk \subseteq Threads /\ stale \subseteq Threads
        /\ barred \in [Requests -> BOOLEAN]
    BY DEF Init, PcValues, Results
  <2> QED BY <2>1, <2>2 DEF Types
<1>5. ForeignKeys /\ UniqueNames
  BY <1>1, <1>2, <1>3 DEF ForeignKeys, UniqueNames, Taken
<1>6. Exist /\ EditedByAuthor
  BY <1>1, <1>2, <1>3 DEF Exist, EditedByAuthor
<1>7. Control
  BY DEF Control, ControlOf, At, Init
<1>8. Bounded
  <2>1. Written = posts
    BY <1>3 DEF Written
  <2>2. IsFiniteSet(Written) /\ Cardinality(Written) = Len(SeedPosts)
    <3>1. Cardinality(1..Len(SeedPosts)) = Len(SeedPosts)
      BY SeedCount
    <3>2. 1..Len(SeedPosts) \in SUBSET (1..Len(SeedPosts))
      OBVIOUS
    <3>3. IsFiniteSet(Ids(1..Len(SeedPosts))) /\ Cardinality(Ids(1..Len(SeedPosts))) = Cardinality(1..Len(SeedPosts))
      BY <3>2, IdsCount
    <3> QED BY <2>1, <3>1, <3>3
  <2>3. Started = {}
    BY DEF Started, Init
  <2> QED BY <1>3, <2>1, <2>2, <2>3, FS_EmptySet DEF Bounded, Clock
<1> QED BY <1>4, <1>5, <1>6, <1>7, <1>8 DEF IInv, TypeOK

LEMMA Inductive == Spec => []IInv
  BY InitInv, NextInv, PTL DEF Spec

\* Rows and requests keep their types, every foreign key is satisfied and no group
\* name is taken twice, whatever statements of different requests interleave.
THEOREM ForumTypeCorrect == Spec => []TypeOK
<1>1. IInv => TypeOK
  BY DEF IInv
<1> QED BY <1>1, Inductive, PTL

-----------------------------------------------------------------------------
(* Who changes what.                                                         *)

\* Rows leave the tables at the hand of a request that was allowed to delete them,
\* or with the row they belong to.
LEMMA Removals ==
  ASSUME IInv, NEW r \in Requests, RequestNext(r)
  PROVE  /\ \A p \in posts \ posts' : post[p].thread \in threads' =>
              /\ At(r, "delpost", "delete") /\ Pst(r) = p /\ pc'[r] = "recalc"
              /\ MayModify(r, post[p].author)
         /\ \A g \in groups \ groups' : At(r, "delgroup", "delete") /\ Grp(r) = g /\ pc'[r] = "done"
         /\ \A t \in threads \ threads' : thread[t].group \in groups' =>
              /\ At(r, "delthread", "delete") /\ Thr(r) = t /\ pc'[r] = "done"
              /\ MayModify(r, thread[t].author)
<1> USE DEF IInv, TypeOK
<1>1. CASE DelPostDelete(r)
  <2>1. /\ At(r, "delpost", "delete") /\ UNCHANGED <<groups, threads>>
        /\ \/ posts' = posts \ {Pst(r)} /\ pc'[r] = "recalc"
           \/ posts' = posts
    BY <1>1 DEF DelPostDelete, Goto, Types
  <2>2. MayModify(r, post[Pst(r)].author)
    BY <2>1, Rows DEF ControlOf, At
  <2> QED BY <2>1, <2>2
<1>2. CASE DelThreadDelete(r)
  <2>1. /\ At(r, "delthread", "delete") /\ groups' = groups /\ pc'[r] = "done"
        /\ threads' = threads \ {Thr(r)} /\ posts' = posts \ PostsOf(Thr(r))
    BY <1>2 DEF DelThreadDelete, RemoveThreads, Finish, Answer, Types
  <2>2. MayModify(r, thread[Thr(r)].author)
    BY <2>1, Rows DEF ControlOf
  <2> QED BY <2>1, <2>2 DEF PostsOf
<1>3. CASE DelGroupDelete(r)
  <2>1. /\ At(r, "delgroup", "delete") /\ groups' = groups \ {Grp(r)} /\ pc'[r] = "done"
        /\ threads' = threads \ ThreadsOf(Grp(r))
        /\ posts' = posts \ UNION {PostsOf(t) : t \in ThreadsOf(Grp(r))}
    BY <1>3 DEF DelGroupDelete, RemoveThreads, Finish, Answer, Types
  <2> QED BY <2>1 DEF PostsOf, ThreadsOf
<1>4. CASE ~DelPostDelete(r) /\ ~DelThreadDelete(r) /\ ~DelGroupDelete(r)
  <2>1. posts \subseteq posts' /\ threads \subseteq threads' /\ groups \subseteq groups'
    <3>1. CASE Reads(r)
      BY <3>1, ReadsOwn DEF rows
    <3>2. CASE NewThreadInsert(r)
      BY <3>2 DEF NewThreadInsert, rows
    <3>3. CASE ~Reads(r) /\ ~NewThreadInsert(r)
      BY <1>4, <3>3 DEF RequestNext, Reads, IncrementViews, SetThreadWrite, ReplyInsert, BumpPost, EditWrite,
                        RecalcStats, NewGroupInsert, SetGroupWrite
    <3> QED BY <3>1, <3>2, <3>3
  <2> QED BY <2>1
<1> QED BY <1>1, <1>2, <1>3, <1>4

\* Posts are edited by their authors only, and rows are deleted by those who may.
THEOREM ChangesAreAuthorized == Spec => ChangesAuthorized
<1> DEFINE Authorized ==
      /\ \A p \in posts : post'[p].editor \in {None, post[p].author}
      /\ \A p \in posts \ posts' : post[p].thread \in threads' =>
           \E r \in Requests : /\ At(r, "delpost", "delete") /\ Pst(r) = p /\ pc'[r] = "recalc"
                               /\ call[r].mod \/ call[r].caller = post[p].author
      /\ \A g \in groups \ groups' :
           \E r \in Requests : At(r, "delgroup", "delete") /\ Grp(r) = g /\ pc'[r] = "done"
      /\ \A t \in threads \ threads' : thread[t].group \in groups' =>
           \E r \in Requests : /\ At(r, "delthread", "delete") /\ Thr(r) = t /\ pc'[r] = "done"
                               /\ call[r].mod \/ call[r].caller = thread[t].author
<1>1. ASSUME IInv, Next PROVE Authorized
  <2>1. PICK r \in Requests : RequestNext(r)
    BY <1>1 DEF Next
  <2>2. IInv' /\ Steady
    BY <1>1, <2>1, RequestStep DEF Next
  <2>3. \A p \in posts : post'[p].editor \in {None, post[p].author}
    BY <1>1, <2>2 DEF IInv, TypeOK, Types, Exist, EditedByAuthor, Steady
  <2> QED BY <1>1, <2>1, <2>3, Removals DEF MayModify
<1>2. ASSUME IInv, [Next]_vars PROVE [Authorized]_vars
  BY <1>1, <1>2
<1> QED BY <1>2, Inductive, PTL DEF Spec, ChangesAuthorized

-----------------------------------------------------------------------------
(* Moderation.                                                               *)

\* A moderator's update that asks for the flag has been written, or is over.
Asked(t, f) ==
  \E r \in Requests :
    /\ Op(r) = "setthread" /\ Thr(r) = t
    /\ pc[r] = "summary" \/ result[r] \in {"ok", "error"}
    /\ call[r].mod /\ call[r].patch[f] = TRUE

\* What an update read before it writes back was asked for too.
LoadedAsked ==
  \A r \in Requests, f \in {"pinned", "locked"} :
    At(r, "setthread", "write") /\ loaded[r][f] => Asked(Thr(r), f)
FInv == FlagsFromModerators /\ LoadedAsked

LEMMA AskedStays ==
  ASSUME IInv, NEW r \in Requests, RequestNext(r), Observe, NEW t, NEW f, Asked(t, f)
  PROVE  Asked(t, f)'
<1>1. PICK q \in Requests :
        /\ Op(q) = "setthread" /\ Thr(q) = t
        /\ pc[q] = "summary" \/ result[q] \in {"ok", "error"}
        /\ call[q].mod /\ call[q].patch[f] = TRUE
  BY DEF Asked
<1>2. Own(r) /\ call' = call
  BY RequestStep DEF Own
<1>3. pc'[q] = "summary" \/ result'[q] \in {"ok", "error"}
  <2>1. CASE q # r
    BY <1>1, <1>2, <2>1 DEF Own
  <2>2. CASE q = r
    <3>1. pc[q] # "done" => result[q] = "none"
      BY Rows DEF ControlOf
    <3>2. pc[r] = "summary" => result'[r] \in {"ok", "error"}
      BY <1>1, <2>2 DEF RequestNext, Summary, Fail, Answer, At, IInv, TypeOK, Types, 
         Start, NewThreadRead, NewThreadInsert, ViewRead, IncrementViews, SetThreadRead, SetThreadWrite,
         DelThreadRead, DelThreadDelete, ReplyRead, ReplyInsert, BumpPost, EditRead, EditWrite, DelPostRead,
         DelPostDelete, RecalcStart, RecalcStats, NewGroupInsert, SetGroupWrite, DelGroupRead,
         DelGroupCount, DelGroupDelete
    <3>3. pc[r] # "done"
      BY DEF RequestNext, Summary, Fail, Answer, At,
         Start, NewThreadRead, NewThreadInsert, ViewRead, IncrementViews, SetThreadRead, SetThreadWrite,
         DelThreadRead, DelThreadDelete, ReplyRead, ReplyInsert, BumpPost, EditRead, EditWrite, DelPostRead,
         DelPostDelete, RecalcStart, RecalcStats, NewGroupInsert, SetGroupWrite, DelGroupRead,
         DelGroupCount, DelGroupDelete
    <3> QED BY <1>1, <2>2, <3>1, <3>2, <3>3
  <2> QED BY <2>1, <2>2
<1> QED BY <1>1, <1>2, <1>3 DEF Asked, Op, Thr

\* An update writes back flags that were asked for: by itself, or before it read.
LEMMA FlagsWritten ==
  ASSUME IInv, FInv, NEW r \in Requests, SetThreadWrite(r), Observe, Thr(r) \in threads
  PROVE  \A f \in {"pinned", "locked"} : thread'[Thr(r)][f] => Asked(Thr(r), f)'
<1> USE DEF IInv, TypeOK
<1>1. /\ At(r, "setthread", "write") /\ call' = call /\ pc'[r] = "summary"
      /\ Thr(r) \in Threads /\ thread[Thr(r)] \in ThreadRows /\ loaded[r] \in ThreadRows
  BY Rows DEF SetThreadWrite, Goto, Types, ControlOf, RowsInv
<1>2. /\ thread'[Thr(r)].pinned = Flag(r, "pinned", loaded[r].pinned)
      /\ thread'[Thr(r)].locked = Flag(r, "locked", loaded[r].locked)
  BY <1>1 DEF SetThreadWrite, ThreadRows, Types
<1>3. \A f \in {"pinned", "locked"} : thread'[Thr(r)][f] = Flag(r, f, loaded[r][f])
  BY <1>2
<1>4. ASSUME NEW f \in {"pinned", "locked"}, Flag(r, f, loaded[r][f]) PROVE Asked(Thr(r), f)'
  <2>1. CASE call[r].mod /\ call[r].patch[f] # None
    <3>1. call[r].patch[f]
      BY <1>4, <2>1 DEF Flag
    <3>2. call[r].patch[f] = TRUE
      BY <1>1, <2>1, <3>1, CallTyped DEF Patches, At
    <3> QED BY <1>1, <2>1, <3>2 DEF Asked, Op, Thr, At
  <2>2. CASE ~(call[r].mod /\ call[r].patch[f] # None)
    <3>1. loaded[r][f]
      BY <1>4, <2>2 DEF Flag
    <3>2. Asked(Thr(r), f)
      BY <1>1, <3>1 DEF FInv, LoadedAsked
    <3>3. PICK x : x = Thr(r)
      OBVIOUS
    <3>4. Asked(x, f)'
      BY <3>2, <3>3, AskedStays DEF RequestNext
    <3> QED BY <1>1, <3>3, <3>4 DEF Thr
  <2> QED BY <2>1, <2>2
<1> QED BY <1>3, <1>4

\* No other step touches a flag.
LEMMA FlagsKept ==
  ASSUME IInv, NEW r \in Requests, RequestNext(r), Observe, NEW t \in threads',
         ~SetThreadWrite(r) \/ t # Thr(r) \/ Thr(r) \notin threads
  PROVE  \/ ~thread'[t].pinned /\ ~thread'[t].locked
         \/ t \in threads /\ thread'[t].pinned = thread[t].pinned /\ thread'[t].locked = thread[t].locked
<1> USE DEF IInv, TypeOK
<1>1. CASE Reads(r)
  BY <1>1, ReadsOwn DEF rows
<1>2. CASE NewThreadInsert(r)
  <2>1. CASE Grp(r) \notin groups
    BY <1>2, <2>1 DEF NewThreadInsert, rows
  <2>2. CASE Grp(r) \in groups
    <3>1. PICK x \in Threads : /\ threads' = threads \cup {x}
                               /\ thread' = [thread EXCEPT ![x] = ThreadRow(Grp(r), call[r].caller, 1, Now)]
      BY <1>2, <2>2, NewIds DEF NewThreadInsert
    <3>2. CASE t = x
      BY <3>1, <3>2 DEF ThreadRow, Types
    <3>3. CASE t # x
      BY <3>1, <3>3 DEF Types
    <3> QED BY <3>2, <3>3
  <2> QED BY <2>1, <2>2
<1>3. CASE IncrementViews(r)
  <2>1. /\ Thr(r) \in Threads /\ thread[Thr(r)] \in ThreadRows /\ threads' = threads
        /\ \A x \in Threads \ {Thr(r)} : thread'[x] = thread[x]
        /\ \E n : thread'[Thr(r)] = [thread[Thr(r)] EXCEPT !.views = n]
    BY <1>3, Rows DEF IncrementViews, ControlOf, RowsInv
  <2> QED BY <2>1 DEF Types, ThreadRows
<1>4. CASE BumpPost(r)
  <2>1. CASE Thr(r) \notin threads
    BY <1>4, <2>1 DEF BumpPost
  <2>2. CASE Thr(r) \in threads
    <3>0. Thr(r) \in Threads /\ thread[Thr(r)] \in ThreadRows
      BY <2>2, Rows DEF RowsInv, Exist
    <3>1. /\ threads' = threads
          /\ \A x \in Threads \ {Thr(r)} : thread'[x] = thread[x]
          /\ thread'[Thr(r)] = Recounted(thread[Thr(r)], BumpedCount(r), BumpedLast(r))
      BY <1>4, <2>2, <3>0 DEF BumpPost, Recounted, Types
    <3>2. \A row \in ThreadRows : \A n, at :
            Recounted(row, n, at).pinned = row.pinned /\ Recounted(row, n, at).locked = row.locked
      BY DEF ThreadRows, Recounted
    <3> QED BY <3>0, <3>1, <3>2 DEF Types
  <2> QED BY <2>1, <2>2
<1>5. CASE RecalcStats(r)
  <2> DEFINE x == post[Pst(r)].thread
  <2>1. CASE x \notin threads
    BY <1>5, <2>1 DEF RecalcStats
  <2>2. CASE x \in threads
    <3>0. x \in Threads /\ thread[x] \in ThreadRows
      BY <2>2, Rows DEF RowsInv, Exist
    <3>1. /\ threads' = threads
          /\ \A y \in Threads \ {x} : thread'[y] = thread[y]
          /\ thread'[x] = Recounted(thread[x], Cardinality(seen[r]), Latest(seen[r]))
      BY <1>5, <2>2, <3>0 DEF RecalcStats, Recounted, Types
    <3>2. \A row \in ThreadRows : \A n, at :
            Recounted(row, n, at).pinned = row.pinned /\ Recounted(row, n, at).locked = row.locked
      BY DEF ThreadRows, Recounted
    <3> QED BY <3>0, <3>1, <3>2 DEF Types
  <2> QED BY <2>1, <2>2
<1>6. CASE SetThreadWrite(r)
  <2>1. CASE Thr(r) \notin threads
    BY <1>6, <2>1 DEF SetThreadWrite
  <2>2. CASE Thr(r) \in threads
    <3>1. threads' = threads /\ \A x \in Threads \ {Thr(r)} : thread'[x] = thread[x]
      BY <1>6, <2>2 DEF SetThreadWrite, Types
    <3> QED BY <1>6, <2>2, <3>1 DEF Types
  <2> QED BY <2>1, <2>2
<1>7. CASE ~Reads(r) /\ ~NewThreadInsert(r) /\ ~IncrementViews(r) /\ ~BumpPost(r) /\ ~RecalcStats(r)
           /\ ~SetThreadWrite(r)
  <2>1. thread' = thread /\ threads' \subseteq threads
    BY <1>7 DEF RequestNext, Reads, DelThreadDelete, RemoveThreads, ReplyInsert, EditWrite, DelPostDelete,
                NewGroupInsert, SetGroupWrite, DelGroupDelete
  <2> QED BY <2>1
<1> QED BY <1>1, <1>2, <1>3, <1>4, <1>5, <1>6, <1>7

LEMMA FlagsStep ==
  ASSUME IInv, FInv, NEW r \in Requests, RequestNext(r), Observe
  PROVE  FInv'
<1> USE DEF IInv, TypeOK
<1>0. Own(r) /\ Steady /\ IInv'
  BY RequestStep
<1>1. FlagsFromModerators'
  <2> SUFFICES ASSUME NEW t \in threads', NEW f \in {"pinned", "locked"}, thread'[t][f]
               PROVE  Asked(t, f)'
    BY DEF FlagsFromModerators, Asked
  <2>1. CASE SetThreadWrite(r) /\ t = Thr(r) /\ Thr(r) \in threads
    <3>1. Asked(Thr(r), f)'
      BY <2>1, FlagsWritten
    <3>2. Thr(r)' = Thr(r)
      BY <1>0 DEF Own, Thr
    <3> QED BY <2>1, <3>1, <3>2
  <2>2. CASE ~(SetThreadWrite(r) /\ t = Thr(r) /\ Thr(r) \in threads)
    <3>1. t \in threads /\ thread[t][f]
      BY <2>2, FlagsKept
    <3>2. Asked(t, f)
      BY <3>1 DEF FInv, FlagsFromModerators, Asked
    <3> QED BY <3>2, AskedStays
  <2> QED BY <2>1, <2>2
<1>2. LoadedAsked'
  <2> SUFFICES ASSUME NEW q \in Requests, NEW f \in {"pinned", "locked"},
                      At(q, "setthread", "write")', loaded'[q][f]
               PROVE  Asked(Thr(q), f)'
    BY DEF LoadedAsked
  <2>1. Thr(q)' = Thr(q) /\ Op(q)' = Op(q)
    BY <1>0 DEF Own, Thr, Op
  <2>2. Asked(Thr(q), f)
    <3>1. CASE q # r
      BY <1>0, <2>1, <3>1 DEF Own, At, FInv, LoadedAsked
    <3>2. CASE q = r
      <4>1. SetThreadRead(r)
        BY <2>1, <3>2 DEF RequestNext, Summary, Fail, Goto, Answer, Finish, At, Types, FirstStep,
           Start, NewThreadRead, NewThreadInsert, ViewRead, IncrementViews, SetThreadWrite,
           DelThreadRead, DelThreadDelete, ReplyRead, ReplyInsert, BumpPost, EditRead, EditWrite, DelPostRead,
           DelPostDelete, RecalcStart, RecalcStats, NewGroupInsert, SetGroupWrite, DelGroupRead,
           DelGroupCount, DelGroupDelete
      <4>2. Thr(r) \in threads /\ loaded'[r] = thread[Thr(r)]
        BY <3>2, <4>1 DEF SetThreadRead, Answer, Types, At
      <4> QED BY <3>2, <4>2 DEF FInv, FlagsFromModerators, Asked
    <3> QED BY <3>1, <3>2
  <2>3. PICK x : x = Thr(q)
    OBVIOUS
  <2>4. Asked(x, f)'
    BY <2>2, <2>3, AskedStays
  <2> QED BY <2>1, <2>3, <2>4
<1> QED BY <1>1, <1>2 DEF FInv

\* A thread shows a flag only if a moderator asked for it.
THEOREM FlagsAreModerated == Spec => []FlagsFromModerators
<1>1. Init => FInv
  <2>1. ASSUME Init PROVE FlagsFromModerators
    <3>1. \A t \in threads : \E g, u, n, at : thread[t] = ThreadRow(g, u, n, at)
      BY <2>1, InitRows
    <3>2. \A g, u, n, at : ~ThreadRow(g, u, n, at).pinned /\ ~ThreadRow(g, u, n, at).locked
      BY DEF ThreadRow
    <3> QED BY <3>1, <3>2 DEF FlagsFromModerators
  <2>2. ASSUME Init PROVE LoadedAsked
    BY <2>2 DEF Init, LoadedAsked, At
  <2> QED BY <2>1, <2>2 DEF FInv
<1>2. IInv /\ FInv /\ [Next]_vars => FInv'
  <2>1. CASE Next
    BY <2>1, FlagsStep DEF Next
  <2>2. ASSUME UNCHANGED vars, FInv PROVE FInv'
    BY <2>2 DEF vars, rows, memory, FInv, FlagsFromModerators, LoadedAsked, Asked, At, Op, Thr
  <2> QED BY <2>1, <2>2
<1>3. FInv => FlagsFromModerators
  BY DEF FInv
<1> QED BY <1>1, <1>2, <1>3, Inductive, PTL DEF Spec

-----------------------------------------------------------------------------
(* Checks.                                                                   *)

\* A request that passed its check has not been barred all along.
Checked(r) == At(r, "reply", "insert") \/ At(r, "delgroup", "delete") => ~barred[r]

\* A reply gets to its INSERT, and a deletion to its DELETE, from the check only.
LEMMA CheckPassed ==
  ASSUME Types, NEW r \in Requests, RequestNext(r)
  PROVE  /\ call' = call
         /\ At(r, "reply", "insert")' => ReplyRead(r) /\ Replyable(Thr(r))
         /\ At(r, "delgroup", "delete")' => DelGroupCount(r) /\ Empty(Grp(r))
  BY DEF RequestNext, Summary, Fail, Goto, Answer, Finish, At, Op, Types, FirstStep,
     Start, NewThreadRead, NewThreadInsert, ViewRead, IncrementViews, SetThreadRead, SetThreadWrite,
     DelThreadRead, DelThreadDelete, ReplyRead, ReplyInsert, BumpPost, EditRead, EditWrite, DelPostRead,
     DelPostDelete, RecalcStart, RecalcStats, NewGroupInsert, SetGroupWrite, DelGroupRead,
     DelGroupCount, DelGroupDelete

LEMMA CheckedStep ==
  ASSUME IInv, NEW r \in Requests, RequestNext(r), Observe, NEW q \in Requests, Checked(q)
  PROVE  Checked(q)'
<1> USE DEF IInv, TypeOK
<1>1. barred'[q] => (pc[q] = "idle" \/ barred[q]) /\ Bar(q)'
  BY DEF Observe
<1>2. CASE q # r
  <2>1. Own(r)
    BY RequestStep
  <2> QED BY <1>1, <1>2, <2>1 DEF Own, Checked, At, Op
<1>3. CASE q = r
  <2>1. CASE At(r, "reply", "insert")'
    <3>1. ReplyRead(r) /\ ~thread[Thr(r)].locked /\ Op(r) = "reply"
      BY <2>1, CheckPassed DEF Replyable, ReplyRead, At
    <3>2. ~Bar(r)'
      BY <3>1 DEF ReplyRead, Bar, Op, Thr, rows
    <3> QED BY <1>1, <1>3, <3>2 DEF Checked
  <2>2. CASE At(r, "delgroup", "delete")'
    <3>1. DelGroupCount(r) /\ ThreadsOf(Grp(r)) = {} /\ Op(r) = "delgroup"
      BY <2>2, CheckPassed DEF Empty, DelGroupCount, At
    <3>2. ~Bar(r)'
      BY <3>1 DEF DelGroupCount, Bar, Op, Grp, ThreadsOf, rows
    <3> QED BY <1>1, <1>3, <3>2 DEF Checked
  <2> QED BY <1>3, <2>1, <2>2 DEF Checked
<1> QED BY <1>2, <1>3

\* A thread locked during a whole reply gets no post, and a group that holds threads
\* during a whole deletion is not deleted.
THEOREM ChecksAreRespected == Spec => ChecksRespected
<1> DEFINE AllChecked == \A q \in Requests : Checked(q)
<1> DEFINE Respected == \A r \in Requests : barred[r] =>
       /\ ~(At(r, "reply", "insert") /\ pc'[r] = "bump")
       /\ ~(At(r, "delgroup", "delete") /\ pc'[r] = "done" /\ Grp(r) \notin groups')
<1>1. Init => AllChecked
  BY DEF Init, Checked
<1>2. IInv /\ AllChecked /\ [Next]_vars => AllChecked'
  <2>1. ASSUME IInv, AllChecked, Next PROVE AllChecked'
    BY <2>1, CheckedStep DEF Next
  <2>2. ASSUME AllChecked, UNCHANGED vars PROVE AllChecked'
    BY <2>2 DEF vars, Checked, At, Op
  <2> QED BY <2>1, <2>2
<1>3. AllChecked /\ [Next]_vars => [Respected]_vars
  BY DEF Checked
<1> HIDE DEF AllChecked
<1> QED BY <1>1, <1>2, <1>3, Inductive, PTL DEF Spec, ChecksRespected

-----------------------------------------------------------------------------
(* Groups.                                                                   *)

\* The request is over, and its parent is no group that comes later.
Wrote(r, g) ==
  /\ Op(r) = "newgroup" \/ (Op(r) = "setgroup" /\ Grp(r) = g)
  /\ result[r] \in {"ok", "error"}
  /\ call[r].parent \in Groups => group[call[r].parent] # None

Origin(g) ==
  \/ \E s \in SeedGroups : s.id = g /\ group[g].name = s.name /\ group[g].parent = None
  \/ \E r \in Requests :
       /\ Wrote(r, g) /\ group[g].name = call[r].name
       /\ group[g].parent = IF call[r].parent \in groups THEN call[r].parent ELSE None
Origins == \A g \in groups : Origin(g)

\* An answer is final.
LEMMA AnswersStay ==
  ASSUME IInv, NEW r \in Requests, RequestNext(r), Observe, NEW q \in Requests, result[q] # "none"
  PROVE  q # r /\ result'[q] = result[q]
<1>1. pc[r] # "done"
  BY DEF RequestNext, Summary, Fail, Answer, At,
     Start, NewThreadRead, NewThreadInsert, ViewRead, IncrementViews, SetThreadRead, SetThreadWrite,
     DelThreadRead, DelThreadDelete, ReplyRead, ReplyInsert, BumpPost, EditRead, EditWrite, DelPostRead,
     DelPostDelete, RecalcStart, RecalcStats, NewGroupInsert, SetGroupWrite, DelGroupRead,
     DelGroupCount, DelGroupDelete
<1>2. pc[q] = "done"
  BY Rows DEF ControlOf
<1>3. Own(r)
  BY RequestStep
<1> QED BY <1>1, <1>2, <1>3 DEF Own

LEMMA WroteStays ==
  ASSUME IInv, NEW r \in Requests, RequestNext(r), Observe, NEW q \in Requests, NEW g, Wrote(q, g)
  PROVE  Wrote(q, g)' /\ call'[q] = call[q]
<1>1. Own(r) /\ Steady
  BY RequestStep
<1>2. result'[q] = result[q]
  BY AnswersStay DEF Wrote
<1> QED BY <1>1, <1>2 DEF Own, Steady, Wrote, Op, Grp

LEMMA GroupCreated ==
  ASSUME IInv, Origins, NEW r \in Requests, NewGroupInsert(r), Observe, ~UNCHANGED <<groups, group>>
  PROVE  Origins'
<1> USE DEF IInv, TypeOK
<1>1. PICK x \in Groups :
        /\ group[x] = None /\ groups' = groups \cup {x}
        /\ group' = [group EXCEPT ![x] = GroupRow(call[r].name, call[r].parent)]
        /\ call[r].parent \in groups \cup {None} /\ Finish(r) /\ Op(r) = "newgroup" /\ call' = call
  BY NewIds DEF NewGroupInsert, At
<1>2. result'[r] \in {"ok", "error"}
  BY <1>1 DEF Finish, Answer, Types
<1>3. x \notin groups
  BY <1>1 DEF Exist
<1>4. Origin(x)'
  <2>1. group'[x].name = call[r].name /\ group'[x].parent = call[r].parent
    BY <1>1 DEF GroupRow, Types
  <2>2. call[r].parent \in Groups => group'[call[r].parent] # None
    BY <1>1, <1>3, NoneAssumption DEF Types, Exist
  <2>3. Wrote(r, x)'
    BY <1>1, <1>2, <2>2 DEF Wrote, Op, Grp
  <2> QED BY <1>1, <2>1, <2>3 DEF Origin
<1>5. ASSUME NEW g \in groups PROVE Origin(g)'
  <2>1. g # x /\ group'[g] = group[g]
    BY <1>1, <1>3 DEF Types
  <2>2. CASE \E s \in SeedGroups : s.id = g /\ group[g].name = s.name /\ group[g].parent = None
    BY <2>1, <2>2 DEF Origin
  <2>3. CASE \E q \in Requests :
               /\ Wrote(q, g) /\ group[g].name = call[q].name
               /\ group[g].parent = IF call[q].parent \in groups THEN call[q].parent ELSE None
    <3>1. PICK q \in Requests :
               /\ Wrote(q, g) /\ group[g].name = call[q].name
               /\ group[g].parent = IF call[q].parent \in groups THEN call[q].parent ELSE None
      BY <2>3
    <3>2. Wrote(q, g)'
      BY <3>1, WroteStays DEF RequestNext
    <3>3. call[q].parent # x
      BY <1>1, <3>1 DEF Wrote
    <3> QED BY <1>1, <2>1, <3>1, <3>2, <3>3 DEF Origin
  <2> QED BY <2>2, <2>3 DEF Origins, Origin
<1> QED BY <1>1, <1>4, <1>5 DEF Origins

LEMMA GroupUpdated ==
  ASSUME IInv, Origins, NEW r \in Requests, SetGroupWrite(r), Observe, ~UNCHANGED <<groups, group>>
  PROVE  Origins'
<1> USE DEF IInv, TypeOK
<1>1. /\ Grp(r) \in groups /\ Grp(r) \in Groups /\ groups' = groups
      /\ group' = [group EXCEPT ![Grp(r)] = GroupRow(call[r].name, call[r].parent)]
      /\ call[r].parent \in groups \cup {None} /\ Finish(r) /\ Op(r) = "setgroup" /\ call' = call
  BY DEF SetGroupWrite, At, UpdatedGroup, Types
<1>2. result'[r] \in {"ok", "error"}
  BY <1>1 DEF Finish, Answer, Types
<1>3. PICK x \in Groups : x = Grp(r)
  BY <1>1
<1>4. Origin(x)'
  <2>1. group'[x].name = call[r].name /\ group'[x].parent = call[r].parent
    BY <1>1, <1>3 DEF GroupRow, Types
  <2>2. call[r].parent \in Groups => group'[call[r].parent] # None
    <3>1. call[r].parent \in Groups => group[call[r].parent] # None
      BY <1>1, NoneAssumption DEF Exist
    <3>2. Steady
      BY RequestStep DEF RequestNext
    <3> QED BY <3>1, <3>2 DEF Steady
  <2>3. Wrote(r, x)'
    BY <1>1, <1>2, <1>3, <2>2 DEF Wrote, Op, Grp
  <2> QED BY <1>1, <2>1, <2>3, NoneAssumption DEF Origin, Types
<1>5. ASSUME NEW g \in groups, g # x PROVE Origin(g)'
  <2>1. group'[g] = group[g]
    BY <1>1, <1>3, <1>5 DEF Types
  <2>2. CASE \E s \in SeedGroups : s.id = g /\ group[g].name = s.name /\ group[g].parent = None
    BY <2>1, <2>2 DEF Origin
  <2>3. CASE \E q \in Requests :
               /\ Wrote(q, g) /\ group[g].name = call[q].name
               /\ group[g].parent = IF call[q].parent \in groups THEN call[q].parent ELSE None
    <3>1. PICK q \in Requests :
               /\ Wrote(q, g) /\ group[g].name = call[q].name
               /\ group[g].parent = IF call[q].parent \in groups THEN call[q].parent ELSE None
      BY <2>3
    <3>2. Wrote(q, g)'
      BY <3>1, WroteStays DEF RequestNext
    <3> QED BY <1>1, <2>1, <3>1, <3>2 DEF Origin
  <2> QED BY <2>2, <2>3 DEF Origins, Origin
<1> QED BY <1>1, <1>4, <1>5 DEF Origins

LEMMA GroupDeleted ==
  ASSUME IInv, Origins, NEW r \in Requests, DelGroupDelete(r), Observe
  PROVE  Origins'
<1> USE DEF IInv, TypeOK
<1>1. PICK x : x = Grp(r)
  OBVIOUS
<1>2. /\ groups' = groups \ {x} /\ call' = call
      /\ \A g \in Groups : group'[g] = IF group[g] # None /\ group[g].parent = x
                                         THEN [group[g] EXCEPT !.parent = None] ELSE group[g]
  BY <1>1 DEF DelGroupDelete
<1>3. ASSUME NEW g \in groups, g # x PROVE Origin(g)'
  <2>1. /\ group'[g].name = group[g].name
        /\ group'[g].parent = IF group[g].parent = x THEN None ELSE group[g].parent
    <3>1. group[g] \in GroupRows /\ g \in Groups /\ group[g] # None
      BY DEF Types, Exist
    <3> QED BY <1>2, <3>1 DEF GroupRows
  <2>2. CASE \E s \in SeedGroups : s.id = g /\ group[g].name = s.name /\ group[g].parent = None
    BY <2>1, <2>2 DEF Origin
  <2>3. CASE \E q \in Requests :
               /\ Wrote(q, g) /\ group[g].name = call[q].name
               /\ group[g].parent = IF call[q].parent \in groups THEN call[q].parent ELSE None
    <3>1. PICK q \in Requests :
               /\ Wrote(q, g) /\ group[g].name = call[q].name
               /\ group[g].parent = IF call[q].parent \in groups THEN call[q].parent ELSE None
      BY <2>3
    <3>2. Wrote(q, g)'
      BY <3>1, WroteStays DEF RequestNext
    <3>3. group'[g].parent = IF call[q].parent \in groups' THEN call[q].parent ELSE None
      BY <1>2, <2>1, <3>1
    <3> QED BY <1>2, <2>1, <3>1, <3>2, <3>3 DEF Origin
  <2> QED BY <2>2, <2>3 DEF Origins, Origin
<1> QED BY <1>2, <1>3 DEF Origins

LEMMA OriginsStep ==
  ASSUME IInv, Origins, NEW r \in Requests, RequestNext(r), Observe
  PROVE  Origins'
<1>1. CASE UNCHANGED <<groups, group>>
  <2> SUFFICES ASSUME NEW g \in groups PROVE Origin(g)'
    BY <1>1 DEF Origins
  <2>1. CASE \E s \in SeedGroups : s.id = g /\ group[g].name = s.name /\ group[g].parent = None
    BY <1>1, <2>1 DEF Origin
  <2>2. CASE \E q \in Requests :
               /\ Wrote(q, g) /\ group[g].name = call[q].name
               /\ group[g].parent = IF call[q].parent \in groups THEN call[q].parent ELSE None
    BY <1>1, <2>2, WroteStays DEF Origin
  <2> QED BY <2>1, <2>2 DEF Origins, Origin
<1>2. CASE NewGroupInsert(r)
  BY <1>1, <1>2, GroupCreated
<1>3. CASE SetGroupWrite(r)
  BY <1>1, <1>3, GroupUpdated
<1>4. CASE DelGroupDelete(r)
  BY <1>4, GroupDeleted
<1>5. CASE ~NewGroupInsert(r) /\ ~SetGroupWrite(r) /\ ~DelGroupDelete(r)
  <2>1. UNCHANGED <<groups, group>>
    <3>1. CASE Reads(r)
      BY <3>1, ReadsOwn DEF rows, IInv, TypeOK
    <3>2. CASE NewThreadInsert(r)
      BY <3>2 DEF NewThreadInsert, rows
    <3>3. CASE ~Reads(r) /\ ~NewThreadInsert(r)
      BY <1>5, <3>3 DEF RequestNext, Reads, IncrementViews, SetThreadWrite, DelThreadDelete, ReplyInsert,
                        BumpPost, EditWrite, DelPostDelete, RecalcStats
    <3> QED BY <3>1, <3>2, <3>3
  <2> QED BY <1>1, <2>1
<1> QED BY <1>2, <1>3, <1>4, <1>5

\* The columns of a group come from one request, or from the start.
THEOREM GroupsFromOneRequest == Spec => []GroupFromOneRequest
<1>1. Init => Origins
  <2>1. ASSUME Init, NEW g \in groups PROVE Origin(g)
    <3>1. PICK s \in SeedGroups : s.id = g /\ group[g] = GroupRow(s.name, None)
      BY <2>1, InitRows
    <3> QED BY <3>1 DEF Origin, GroupRow
  <2> QED BY <2>1 DEF Origins
<1>2. IInv /\ Origins /\ [Next]_vars => Origins'
  <2>1. ASSUME IInv, Origins, Next PROVE Origins'
    BY <2>1, OriginsStep DEF Next
  <2>2. ASSUME Origins, UNCHANGED vars PROVE Origins'
    BY <2>2 DEF vars, rows, Origins, Origin, Wrote, Op, Grp
  <2> QED BY <2>1, <2>2
<1>3. IInv /\ Origins => GroupFromOneRequest
  BY NoneAssumption DEF IInv, TypeOK, Types, Origins, Origin, Wrote, GroupFromOneRequest
<1> QED BY <1>1, <1>2, <1>3, Inductive, PTL DEF Spec

-----------------------------------------------------------------------------
(* Statistics.                                                               *)

\* The posts a BumpPost or the insertion of their thread has counted.
Counted(t) == PostsOf(t) \ unbumped

\* Only a deletion, which shrinks its thread, takes a post from a live thread.
Kept == \A p \in Written : post[p].thread \in threads \ shrunk => p \in posts

\* A reply that is to bump has its post to itself.
BumpDue(r) == At(r, "reply", "bump") => mine[r] \in unbumped
MineOnce == \A q, r \in Requests : mine[r] # None /\ mine[q] = mine[r] => q = r

\* A recount is of a thread that lost a post.
RecountDue(r) == Op(r) = "delpost" /\ pc[r] \in {"recalc", "recount"} => post[Pst(r)].thread \in shrunk

\* A reply is newer than what the thread held, but for the replies of others.
IsReply(p) == \E q \in Requests : Op(q) = "reply" /\ mine[q] = p
Newer(r) ==
  Op(r) = "reply" /\ mine[r] # None =>
    \A p \in Written : post[p].thread = Thr(r) => post[p].at <= post[mine[r]].at \/ IsReply(p)

\* A view that was counted was of a thread that existed.
Viewed(r) == Op(r) = "view" /\ result[r] = "ok" => Thr(r) \in Threads /\ thread[Thr(r)] # None

Due(r) == BumpDue(r) /\ RecountDue(r) /\ Newer(r) /\ Viewed(r)
Books == /\ unbumped \subseteq Written /\ Kept /\ MineOnce
         /\ \A r \in Requests : Due(r)

SInv == Books /\ StatsTrack

\* The statements after which a request owes a bump or a recount, or has viewed.
LEMMA Arrivals ==
  ASSUME IInv, NEW r \in Requests, RequestNext(r)
  PROVE  /\ At(r, "reply", "bump")' => ReplyInsert(r) /\ Thr(r) \in threads
         /\ Op(r) = "delpost" /\ pc'[r] = "recalc" => DelPostDelete(r) /\ Pst(r) \in posts
         /\ Op(r) = "delpost" /\ pc'[r] = "recount" => RecalcStart(r)
         /\ Op(r) = "view" /\ result'[r] = "ok" => IncrementViews(r)
<1>1. call' = call
  BY CheckPassed DEF IInv, TypeOK
<1>2. pc[r] # "done" => result[r] = "none"
  BY Rows DEF ControlOf
<1>3. pc[r] = "summary" => Op(r) # "view"
  BY Rows DEF ControlOf
<1> QED
  BY <1>1, <1>2, <1>3
     DEF RequestNext, Summary, Fail, Goto, Answer, Finish, At, Op, IInv, TypeOK, Types, FirstStep,
     Start, NewThreadRead, NewThreadInsert, ViewRead, IncrementViews, SetThreadRead, SetThreadWrite,
     DelThreadRead, DelThreadDelete, ReplyRead, ReplyInsert, BumpPost, EditRead, EditWrite, DelPostRead,
     DelPostDelete, RecalcStart, RecalcStats, NewGroupInsert, SetGroupWrite, DelGroupRead,
     DelGroupCount, DelGroupDelete

\* The steps that write a post, count one or delete one alone.
Posting(r) == \/ NewThreadInsert(r) /\ Grp(r) \in groups
              \/ ReplyInsert(r) /\ Thr(r) \in threads
              \/ BumpPost(r)
              \/ DelPostDelete(r) /\ Pst(r) \in posts

\* The others leave the books alone.
LEMMA NotPosting ==
  ASSUME IInv, NEW r \in Requests, RequestNext(r), ~Posting(r)
  PROVE  /\ UNCHANGED <<unbumped, shrunk, mine>> /\ threads' \subseteq threads /\ posts' \subseteq posts
         /\ \A p \in Posts : post[p] = None => post'[p] = None
<1> USE DEF IInv, TypeOK
<1>1. CASE Reads(r)
  BY <1>1, ReadsOwn DEF rows, history
<1>2. CASE NewThreadInsert(r) \/ ReplyInsert(r) \/ DelPostDelete(r)
  BY <1>2 DEF Posting, NewThreadInsert, ReplyInsert, DelPostDelete, rows, memory, history
<1>3. CASE EditWrite(r)
  <2>1. post[Pst(r)] # None
    BY <1>3, Rows DEF EditWrite, ControlOf
  <2> QED BY <1>3, <2>1 DEF EditWrite, memory, history, Types
<1>4. CASE IncrementViews(r) \/ SetThreadWrite(r) \/ RecalcStats(r) \/ NewGroupInsert(r) \/ SetGroupWrite(r)
  BY <1>4 DEF IncrementViews, SetThreadWrite, RecalcStats, NewGroupInsert, SetGroupWrite, memory, history
<1>5. CASE DelThreadDelete(r) \/ DelGroupDelete(r)
  BY <1>5 DEF DelThreadDelete, DelGroupDelete, RemoveThreads, memory, history
<1> QED BY <1>1, <1>2, <1>3, <1>4, <1>5 DEF RequestNext, Reads, Posting

\* The requests that owe nothing new.
LEMMA DueStays ==
  ASSUME IInv, Books, NEW r \in Requests, RequestNext(r), Observe, NEW q \in Requests,
         shrunk \subseteq shrunk',
         q # r \/ ~Posting(r)
  PROVE  RecountDue(q)' /\ Viewed(q)'
<1>1. Own(r) /\ Steady /\ IInv'
  BY RequestStep
<1>2. CASE q # r
  <2>1. RecountDue(q)'
    <3>1. Op(q) = "delpost" /\ pc[q] \in {"recalc", "recount"} => Pst(q) \in Posts /\ post[Pst(q)] # None
      BY Rows DEF ControlOf
    <3> QED BY <1>1, <1>2, <3>1 DEF Own, Steady, RecountDue, Books, Due, Op, Pst
  <2>2. Viewed(q)'
    BY <1>1, <1>2 DEF Own, Steady, Viewed, Books, Due, Op, Thr
  <2> QED BY <2>1, <2>2
<1>3. CASE q = r /\ ~Posting(r)
  <2>1. RecountDue(r)'
    <3>1. Op(r) = "delpost" /\ pc'[r] # "recalc" /\ pc'[r] = "recount" => RecalcStart(r)
      BY Arrivals
    <3>2. Op(r) = "delpost" => pc'[r] # "recalc"
      BY <1>3, Arrivals DEF Posting
    <3>3. RecalcStart(r) => post' = post /\ post[Pst(r)].thread \in shrunk
      BY DEF RecalcStart, rows, At, Books, Due, RecountDue
    <3> QED BY <1>1, <3>1, <3>2, <3>3 DEF Own, RecountDue, Op, Pst
  <2>2. Viewed(r)'
    <3>1. IncrementViews(r) => Thr(r) \in Threads /\ thread[Thr(r)] # None
      BY Rows DEF IncrementViews, ControlOf
    <3> QED BY <1>1, <3>1, Arrivals DEF Own, Steady, Viewed, Op, Thr
  <2> QED BY <1>3, <2>1, <2>2
<1> QED BY <1>2, <1>3

LEMMA NewerStays ==
  ASSUME IInv, Books, NEW r \in Requests, RequestNext(r), Observe, NEW q \in Requests,
         mine' = mine, \A p \in Posts : post[p] = None => post'[p] = None
  PROVE  Newer(q)'
<1>1. Own(r) /\ Steady /\ IInv'
  BY RequestStep
<1> SUFFICES ASSUME Op(q) = "reply", mine[q] # None, NEW p \in Written', post'[p].thread = Thr(q)
             PROVE  post'[p].at <= post'[mine[q]].at \/ IsReply(p)'
  BY <1>1 DEF Newer, Own, Op, Thr
<1>2. p \in Written /\ mine[q] \in Written
  BY Rows DEF Written, ControlOf, IInv, TypeOK, Types
<1>3. post[p].at <= post[mine[q]].at \/ IsReply(p)
  BY <1>1, <1>2 DEF Books, Due, Newer, Steady, Written
<1> QED BY <1>1, <1>2, <1>3 DEF Steady, Own, Written, IsReply, Op

LEMMA BooksKept ==
  ASSUME IInv, Books, NEW r \in Requests, RequestNext(r), Observe, ~Posting(r)
  PROVE  Books'
<1> USE DEF IInv, TypeOK
<1>1. Own(r) /\ Steady /\ IInv'
  BY RequestStep
<1>2. /\ UNCHANGED <<unbumped, shrunk, mine>> /\ threads' \subseteq threads /\ posts' \subseteq posts
      /\ \A p \in Posts : post[p] = None => post'[p] = None
  BY NotPosting
<1>3. Written' = Written
  BY <1>1, <1>2 DEF Written, Steady
<1>4. Kept'
  <2> SUFFICES ASSUME NEW p \in Written, post'[p].thread \in threads' \ shrunk', p \notin posts'
               PROVE  FALSE
    BY <1>3 DEF Kept
  <2>1. post'[p].thread = post[p].thread
    BY <1>1 DEF Steady, Written
  <2>2. p \in posts
    BY <1>2, <2>1 DEF Books, Kept
  <2>3. At(r, "delpost", "delete") /\ pc'[r] = "recalc"
    BY <2>1, <2>2, Removals
  <2> QED BY <2>3, Arrivals DEF Posting, At
<1>5. ASSUME NEW q \in Requests PROVE Due(q)'
  <2>1. BumpDue(q)'
    <3>1. CASE q # r
      BY <1>1, <1>2, <3>1 DEF Own, BumpDue, At, Op, Books, Due
    <3>2. CASE q = r
      BY <3>2, Arrivals DEF BumpDue, Posting
    <3> QED BY <3>1, <3>2
  <2>2. RecountDue(q)' /\ Viewed(q)'
    BY <1>2, DueStays
  <2>3. Newer(q)'
    BY <1>2, NewerStays
  <2> QED BY <2>1, <2>2, <2>3 DEF Due
<1> QED BY <1>2, <1>3, <1>4, <1>5 DEF Books, MineOnce

\* A post p by the request r is written now, in the thread t.
Publishes(r, t, p) ==
  /\ post[p] = None /\ p \notin posts /\ posts' = posts \cup {p}
  /\ post'[p] # None /\ post'[p].thread = t /\ post'[p].at = Now
  /\ \A y \in Posts \ {p} : post'[y] = post[y]
  /\ mine[r] = None /\ mine'[r] = p /\ \A q \in Requests \ {r} : mine'[q] = mine[q]
  /\ shrunk' = shrunk /\ stale' = stale

\* ... with its thread, or as a reply.
Begins(r, x, p) ==
  /\ Publishes(r, x, p) /\ unbumped' = unbumped
  /\ thread[x] = None /\ x \notin threads /\ threads' = threads \cup {x}
  /\ thread'[x].count = 1 /\ thread'[x].last = Now /\ thread'[x].views = 0
  /\ \A y \in Threads \ {x} : thread'[y] = thread[y]
  /\ Op(r) = "newthread" /\ pc'[r] = "summary" /\ result' = result
Replies(r, p) ==
  /\ Publishes(r, Thr(r), p) /\ unbumped' = unbumped \cup {p}
  /\ threads' = threads /\ thread' = thread /\ Thr(r) \in threads
  /\ Op(r) = "reply" /\ pc'[r] = "bump" /\ result' = result

LEMMA BeginEffect ==
  ASSUME IInv, NEW r \in Requests, NewThreadInsert(r), Grp(r) \in groups
  PROVE  \E x \in Threads, p \in Posts : Begins(r, x, p)
<1> USE DEF IInv, TypeOK
<1> DEFINE u == call[r].caller
<1>1. PICK x \in Threads, p \in Posts :
        /\ thread[x] = None /\ post[p] = None
        /\ threads' = threads \cup {x} /\ posts' = posts \cup {p}
        /\ thread' = [thread EXCEPT ![x] = ThreadRow(Grp(r), u, 1, Now)]
        /\ post' = [post EXCEPT ![p] = PostRow(x, u, Now)]
        /\ mine' = [mine EXCEPT ![r] = p]
        /\ UNCHANGED history /\ Goto(r, "summary") /\ At(r, "newthread", "insert")
  BY NewIds DEF NewThreadInsert
<1>2. PostRow(x, u, Now) # None
  <2>1. Now \in Nat /\ u \in Users
    BY FS_CardinalityType, CallTyped DEF Bounded, Written, Now
  <2> QED BY <2>1, NoneAssumption DEF PostRow, PostRows
<1>3. /\ PostRow(x, u, Now).thread = x /\ PostRow(x, u, Now).at = Now
      /\ ThreadRow(Grp(r), u, 1, Now).count = 1 /\ ThreadRow(Grp(r), u, 1, Now).last = Now
      /\ ThreadRow(Grp(r), u, 1, Now).views = 0
  BY DEF PostRow, ThreadRow
<1> HIDE DEF u
<1>4. mine[r] = None
  BY <1>1, Rows DEF ControlOf, At
<1>5. x \notin threads /\ p \notin posts
  BY <1>1 DEF Exist
<1>6. Publishes(r, x, p)
  BY <1>1, <1>2, <1>3, <1>4, <1>5 DEF Publishes, history, Types
<1>7. Begins(r, x, p)
  BY <1>1, <1>3, <1>5, <1>6 DEF Begins, history, Types, Goto, At
<1> QED BY <1>7

LEMMA ReplyEffect ==
  ASSUME IInv, NEW r \in Requests, ReplyInsert(r), Thr(r) \in threads
  PROVE  \E p \in Posts : Replies(r, p)
<1> USE DEF IInv, TypeOK
<1> DEFINE u == call[r].caller
<1>1. PICK p \in Posts :
        /\ post[p] = None /\ posts' = posts \cup {p}
        /\ post' = [post EXCEPT ![p] = PostRow(Thr(r), u, Now)]
        /\ mine' = [mine EXCEPT ![r] = p] /\ unbumped' = unbumped \cup {p}
        /\ UNCHANGED <<threads, thread, shrunk, stale>>
        /\ Goto(r, "bump") /\ At(r, "reply", "insert")
  BY NewIds DEF ReplyInsert
<1>2. PostRow(Thr(r), u, Now) # None
  <2>1. Now \in Nat /\ u \in Users /\ Thr(r) \in Threads
    BY FS_CardinalityType, CallTyped DEF Bounded, Written, Now, Types
  <2> QED BY <2>1, NoneAssumption DEF PostRow, PostRows
<1>3. PostRow(Thr(r), u, Now).thread = Thr(r) /\ PostRow(Thr(r), u, Now).at = Now
  BY DEF PostRow
<1> HIDE DEF u
<1>4. mine[r] = None
  BY <1>1, Rows DEF ControlOf, At
<1>5. p \notin posts
  BY <1>1 DEF Exist
<1>6. Publishes(r, Thr(r), p)
  BY <1>1, <1>2, <1>3, <1>4, <1>5 DEF Publishes, Types
<1>7. Replies(r, p)
  BY <1>1, <1>6 DEF Replies, Types, Goto, At
<1> QED BY <1>7

\* What holds of a new post whoever writes it.
LEMMA MineFresh ==
  ASSUME IInv, Books, NEW r \in Requests, NEW t, NEW p \in Posts, Publishes(r, t, p)
  PROVE  /\ Written' = Written \cup {p} /\ p \notin Written /\ p \notin unbumped /\ MineOnce'
         /\ \A q \in Requests : mine[q] # p /\ (mine[q] # None => mine[q] \in Written)
         /\ \A y \in Written : post'[y] = post[y] /\ post'[y].at < Now
<1> USE DEF IInv, TypeOK
<1>1. \A q \in Requests : mine[q] # None => mine[q] \in Written
  BY Rows DEF ControlOf, Written, Types
<1>2. Written' = Written \cup {p} /\ p \notin Written /\ \A y \in Written : post'[y] = post[y]
  BY DEF Written, Publishes
<1>3. Now = 1 + Cardinality(Written) /\ Cardinality(Written) \in Nat
  BY FS_CardinalityType DEF Bounded, Written, Now
<1>4. \A y \in Written : post'[y].at < Now
  BY <1>2, <1>3 DEF Bounded, Clock
<1>5. \A q \in Requests : mine[q] # p
  BY <1>1, <1>2, NoneAssumption
<1>6. MineOnce'
  BY <1>5 DEF Publishes, Books, MineOnce
<1> QED BY <1>1, <1>2, <1>4, <1>5, <1>6 DEF Books

LEMMA BeginBooks ==
  ASSUME IInv, Books, NEW r \in Requests, NewThreadInsert(r), Observe, NEW x \in Threads, NEW p \in Posts,
         Begins(r, x, p)
  PROVE  Books'
<1> USE DEF IInv, TypeOK
<1>0. Publishes(r, x, p)
  BY DEF Begins
<1>1. Own(r) /\ Steady /\ IInv' /\ RequestNext(r)
  BY RequestStep DEF RequestNext
<1>2. /\ Written' = Written \cup {p} /\ p \notin Written /\ MineOnce'
      /\ \A q \in Requests : mine[q] # p /\ (mine[q] # None => mine[q] \in Written)
      /\ \A y \in Written : post'[y] = post[y]
  BY <1>0, MineFresh
<1>3. \A y \in Written : post[y].thread # x
  BY DEF Written, Exist, Begins
<1>4. Kept'
  BY <1>0, <1>2, <1>3 DEF Kept, Books, Begins, Publishes
<1>5. ASSUME NEW q \in Requests PROVE Due(q)'
  <2>1. CASE q = r
    BY <1>1, <2>1 DEF Due, BumpDue, RecountDue, Newer, Viewed, At, Op, Own, Begins
  <2>2. CASE q # r
    <3>1. BumpDue(q)'
      BY <1>0, <1>1, <2>2 DEF Own, BumpDue, At, Op, Books, Due, Begins
    <3>2. RecountDue(q)' /\ Viewed(q)'
      BY <1>0, <1>1, <2>2, DueStays DEF Publishes
    <3>3. Newer(q)'
      <4> SUFFICES ASSUME Op(q) = "reply", mine[q] # None, NEW y \in Written', post'[y].thread = Thr(q)
                   PROVE  post'[y].at <= post'[mine[q]].at \/ IsReply(y)'
        BY <1>1, <2>2 DEF Newer, Own, Op, Thr
      <4>1. post[mine[q]].thread = Thr(q)
        BY Rows DEF ControlOf
      <4>2. y \in Written
        BY <1>0, <1>2, <1>3, <4>1 DEF Publishes
      <4>3. post[y].at <= post[mine[q]].at \/ IsReply(y)
        BY <1>2, <4>2 DEF Books, Due, Newer
      <4>4. IsReply(y) => IsReply(y)'
        BY <1>1 DEF IsReply, Own, Op, Begins
      <4> QED BY <1>2, <4>2, <4>3, <4>4
    <3> QED BY <3>1, <3>2, <3>3 DEF Due
  <2> QED BY <2>1, <2>2
<1> QED BY <1>2, <1>4, <1>5 DEF Books, Begins

LEMMA ReplyBooks ==
  ASSUME IInv, Books, NEW r \in Requests, ReplyInsert(r), Observe, NEW p \in Posts, Replies(r, p)
  PROVE  Books'
<1> USE DEF IInv, TypeOK
<1>0. Publishes(r, Thr(r), p)
  BY DEF Replies
<1>1. Own(r) /\ Steady /\ IInv' /\ RequestNext(r)
  BY RequestStep DEF RequestNext
<1>2. /\ Written' = Written \cup {p} /\ p \notin Written /\ MineOnce'
      /\ \A q \in Requests : mine[q] # p /\ (mine[q] # None => mine[q] \in Written)
      /\ \A y \in Written : post'[y] = post[y] /\ post'[y].at < Now
  BY <1>0, MineFresh
<1>4. Kept'
  BY <1>0, <1>2 DEF Kept, Books, Replies, Publishes
<1>5. IsReply(p)'
  BY <1>0, <1>1 DEF IsReply, Own, Op, Replies, Publishes
<1>6. ASSUME NEW q \in Requests PROVE Due(q)'
  <2>1. CASE q = r
    <3>1. BumpDue(r)'
      BY <1>0 DEF BumpDue, Replies, Publishes
    <3>2. RecountDue(r)' /\ Viewed(r)'
      BY <1>1 DEF RecountDue, Viewed, Own, Op, Replies
    <3>3. Newer(r)'
      <4>1. Now \in Int /\ post'[p].at = Now
        BY <1>0, FS_CardinalityType DEF Bounded, Written, Now, Publishes
      <4>2. \A y \in Written : post'[y].at \in Int
        BY <1>2 DEF Bounded, Clock
      <4> QED BY <1>0, <1>2, <4>1, <4>2 DEF Newer, Publishes
    <3> QED BY <2>1, <3>1, <3>2, <3>3 DEF Due
  <2>2. CASE q # r
    <3>1. BumpDue(q)'
      BY <1>0, <1>1, <2>2 DEF Own, BumpDue, At, Op, Books, Due, Replies
    <3>2. RecountDue(q)' /\ Viewed(q)'
      BY <1>0, <1>1, <2>2, DueStays DEF Publishes
    <3>3. Newer(q)'
      <4> SUFFICES ASSUME Op(q) = "reply", mine[q] # None, NEW y \in Written, post'[y].thread = Thr(q)
                   PROVE  post'[y].at <= post'[mine[q]].at \/ IsReply(y)'
        BY <1>1, <1>2, <1>5, <2>2 DEF Newer, Own, Op, Thr
      <4>3. post[y].at <= post[mine[q]].at \/ IsReply(y)
        BY <1>2 DEF Books, Due, Newer
      <4>4. IsReply(y) => IsReply(y)'
        <5>1. \A z \in Requests : mine[z] = y => mine'[z] = y
          BY <1>0, NoneAssumption DEF Publishes, Written
        <5> QED BY <1>1, <5>1 DEF IsReply, Own, Op
      <4> QED BY <1>2, <4>3, <4>4
    <3> QED BY <3>1, <3>2, <3>3 DEF Due
  <2> QED BY <2>1, <2>2
<1> QED BY <1>2, <1>4, <1>6 DEF Books, Replies

LEMMA BumpBooks ==
  ASSUME IInv, Books, NEW r \in Requests, BumpPost(r), Observe
  PROVE  Books'
<1> USE DEF IInv, TypeOK
<1>1. Own(r) /\ Steady /\ IInv' /\ RequestNext(r)
  BY RequestStep DEF RequestNext
<1>2. /\ At(r, "reply", "bump") /\ UNCHANGED <<threads, posts, post, mine, shrunk>> /\ pc'[r] = "summary"
      /\ unbumped' = unbumped \ {mine[r]}
  BY DEF BumpPost, Goto, Types, memory
<1>3. Written' = Written
  BY <1>2 DEF Written
<1>4. ASSUME NEW q \in Requests PROVE Due(q)'
  <2>1. Newer(q)'
    BY <1>1, <1>2, NewerStays
  <2>2. CASE q = r
    BY <1>1, <1>2, <2>1, <2>2 DEF Due, BumpDue, RecountDue, Viewed, At, Op, Own
  <2>3. CASE q # r
    <3>1. At(q, "reply", "bump") => mine[q] # mine[r]
      BY <2>3, Rows DEF Books, MineOnce, ControlOf
    <3>2. BumpDue(q)'
      BY <1>1, <1>2, <2>3, <3>1 DEF BumpDue, At, Op, Own, Books, Due
    <3> QED BY <1>1, <1>2, <2>1, <2>3, <3>2, DueStays DEF Due
  <2> QED BY <2>2, <2>3
<1> QED BY <1>2, <1>3, <1>4 DEF Books, Kept, MineOnce

LEMMA DeleteBooks ==
  ASSUME IInv, Books, NEW r \in Requests, DelPostDelete(r), Observe, Pst(r) \in posts
  PROVE  Books'
<1> USE DEF IInv, TypeOK
<1>1. Own(r) /\ Steady /\ IInv' /\ RequestNext(r)
  BY RequestStep DEF RequestNext
<1>2. /\ At(r, "delpost", "delete") /\ UNCHANGED <<threads, post, mine, unbumped>> /\ pc'[r] = "recalc"
      /\ posts' = posts \ {Pst(r)} /\ shrunk' = shrunk \cup {post[Pst(r)].thread}
  BY DEF DelPostDelete, Goto, Types, memory
<1>3. Written' = Written
  BY <1>2 DEF Written
<1>4. ASSUME NEW q \in Requests PROVE Due(q)'
  <2>1. Newer(q)'
    BY <1>1, <1>2, NewerStays
  <2>2. CASE q = r
    BY <1>1, <1>2, <2>1, <2>2 DEF Due, BumpDue, RecountDue, Viewed, At, Op, Own, Pst
  <2>3. CASE q # r
    <3>1. BumpDue(q)'
      BY <1>1, <1>2, <2>3 DEF BumpDue, At, Op, Own, Books, Due
    <3> QED BY <1>1, <1>2, <2>1, <2>3, <3>1, DueStays DEF Due
  <2> QED BY <2>2, <2>3
<1> QED BY <1>2, <1>3, <1>4 DEF Books, Kept, MineOnce

LEMMA BooksStep ==
  ASSUME IInv, Books, NEW r \in Requests, RequestNext(r), Observe
  PROVE  Books'
  BY BooksKept, BeginEffect, BeginBooks, ReplyEffect, ReplyBooks, BumpBooks, DeleteBooks DEF Posting

\* The thread keeps its statistics, and what they should say.
Same(t) == /\ t \in threads /\ Counted(t)' = Counted(t)
           /\ thread'[t].count = thread[t].count /\ thread'[t].last = thread[t].last

\* The threads whose statistics a step touches.
Touched(r, t) ==
  \/ NewThreadInsert(r) /\ Grp(r) \in groups /\ t \notin threads
  \/ BumpPost(r) /\ t = Thr(r)
  \/ DelPostDelete(r) /\ Pst(r) \in posts /\ t = post[Pst(r)].thread
  \/ RecalcStats(r) /\ t = post[Pst(r)].thread

\* The columns that steps other than bumps, recounts and insertions leave alone.
LEMMA ColumnsSame ==
  ASSUME IInv, NEW r \in Requests, RequestNext(r), ~Posting(r), NEW t \in threads', ~Touched(r, t)
  PROVE  thread'[t].count = thread[t].count /\ thread'[t].last = thread[t].last
<1> USE DEF IInv, TypeOK
<1>0. t \in threads /\ t \in Threads /\ thread[t] \in ThreadRows
  BY NotPosting DEF Types, Exist
<1>1. CASE Reads(r)
  BY <1>1, ReadsOwn DEF rows
<1>2. CASE NewThreadInsert(r) \/ ReplyInsert(r) \/ DelPostDelete(r)
  BY <1>2 DEF Posting, NewThreadInsert, ReplyInsert, DelPostDelete, rows
<1>3. CASE IncrementViews(r)
  BY <1>0, <1>3 DEF IncrementViews, ThreadRows, Types
<1>4. CASE SetThreadWrite(r)
  BY <1>0, <1>4 DEF SetThreadWrite, ThreadRows, Types
<1>5. CASE RecalcStats(r)
  <2>1. t # post[Pst(r)].thread
    BY <1>5 DEF Touched
  <2> QED BY <1>0, <1>5, <2>1 DEF RecalcStats, Types
<1>6. CASE EditWrite(r) \/ NewGroupInsert(r) \/ SetGroupWrite(r) \/ DelThreadDelete(r) \/ DelGroupDelete(r)
  BY <1>6 DEF EditWrite, NewGroupInsert, SetGroupWrite, DelThreadDelete, DelGroupDelete
<1> QED BY <1>1, <1>2, <1>3, <1>4, <1>5, <1>6 DEF RequestNext, Reads, Posting

LEMMA SameElsewhere ==
  ASSUME IInv, Books, NEW r \in Requests, RequestNext(r), Observe, NEW t \in threads', ~Touched(r, t)
  PROVE  Same(t)
<1> USE DEF IInv, TypeOK
<1>1. Own(r) /\ Steady /\ IInv'
  BY RequestStep
<1>2. \A p \in posts : p \in Posts /\ post[p] # None /\ post'[p].thread = post[p].thread
  BY <1>1 DEF Types, Exist, Steady
<1>3. CASE ~Posting(r)
  <2>1. t \in threads /\ unbumped' = unbumped /\ posts' \subseteq posts
    BY <1>3, NotPosting
  <2>2. \A p \in posts \ posts' : post[p].thread # t
    <3> SUFFICES ASSUME NEW p \in posts \ posts', post[p].thread = t PROVE FALSE
      OBVIOUS
    <3>1. At(r, "delpost", "delete") /\ pc'[r] = "recalc"
      BY Removals
    <3> QED BY <1>3, <3>1, Arrivals DEF Posting, At
  <2>3. Counted(t)' = Counted(t)
    BY <1>2, <2>1, <2>2 DEF Counted, PostsOf
  <2> QED BY <1>3, <2>1, <2>3, ColumnsSame DEF Same
<1>4. CASE NewThreadInsert(r) /\ Grp(r) \in groups
  <2>1. PICK x \in Threads, p \in Posts : Begins(r, x, p)
    BY <1>4, BeginEffect
  <2>2. t \in threads /\ t # x /\ t \in Threads /\ thread'[t] = thread[t]
    BY <1>4, <2>1 DEF Touched, Begins, Types
  <2>3. posts' = posts \cup {p} /\ post'[p].thread = x /\ unbumped' = unbumped
    BY <2>1 DEF Begins, Publishes
  <2>4. Counted(t)' = Counted(t)
    BY <1>2, <2>2, <2>3 DEF Counted, PostsOf
  <2> QED BY <2>2, <2>4 DEF Same
<1>5. CASE ReplyInsert(r) /\ Thr(r) \in threads
  <2>1. PICK p \in Posts : Replies(r, p)
    BY <1>5, ReplyEffect
  <2>2. /\ t \in threads /\ thread' = thread
        /\ posts' = posts \cup {p} /\ unbumped' = unbumped \cup {p} /\ p \notin posts
    BY <2>1 DEF Replies, Publishes
  <2>3. Counted(t)' = Counted(t)
    BY <1>2, <2>2 DEF Counted, PostsOf
  <2> QED BY <2>2, <2>3 DEF Same
<1>6. CASE BumpPost(r)
  <2>1. t # Thr(r)
    BY <1>6 DEF Touched
  <2>2. /\ t \in threads /\ t \in Threads /\ thread'[t] = thread[t] /\ UNCHANGED <<posts, post>>
        /\ unbumped' = unbumped \ {mine[r]}
    BY <1>6, <2>1 DEF BumpPost, Types
  <2>3. post[mine[r]].thread # t
    BY <1>6, <2>1, Rows DEF ControlOf, BumpPost, At
  <2>4. Counted(t)' = Counted(t)
    BY <2>2, <2>3 DEF Counted, PostsOf
  <2> QED BY <2>2, <2>4 DEF Same
<1>7. CASE DelPostDelete(r) /\ Pst(r) \in posts
  <2>1. t # post[Pst(r)].thread
    BY <1>7 DEF Touched
  <2>2. t \in threads /\ thread' = thread /\ post' = post /\ posts' = posts \ {Pst(r)} /\ unbumped' = unbumped
    BY <1>7 DEF DelPostDelete
  <2>3. Counted(t)' = Counted(t)
    BY <2>1, <2>2 DEF Counted, PostsOf
  <2> QED BY <2>2, <2>3 DEF Same
<1> QED BY <1>3, <1>4, <1>5, <1>6, <1>7 DEF Posting

\* What the touching steps do.
LEMMA BumpEffect ==
  ASSUME IInv, Books, NEW r \in Requests, BumpPost(r), Thr(r) \in threads
  PROVE  /\ Op(r) = "reply" /\ mine[r] \in Written /\ mine[r] \in unbumped /\ post[mine[r]].thread = Thr(r)
         /\ Thr(r) \in Threads
         /\ UNCHANGED <<threads, posts, post, call, mine, shrunk, stale>>
         /\ unbumped' = unbumped \ {mine[r]}
         /\ thread'[Thr(r)].count = thread[Thr(r)].count + 1
         /\ thread'[Thr(r)].last = post[mine[r]].at
         /\ thread[Thr(r)].count \in Nat
<1> USE DEF IInv, TypeOK
<1>1. /\ At(r, "reply", "bump") /\ mine[r] # None /\ post[mine[r]] # None /\ post[mine[r]].thread = Thr(r)
  BY Rows DEF BumpPost, ControlOf, At
<1>2. mine[r] \in Written /\ mine[r] \in unbumped
  BY <1>1 DEF Written, Types, Books, Due, BumpDue
<1>3. Thr(r) \in Threads /\ thread[Thr(r)] \in ThreadRows
  BY DEF Types, Exist
<1>4. /\ UNCHANGED <<threads, posts, post, call, mine, shrunk, stale>>
      /\ unbumped' = unbumped \ {mine[r]}
  BY DEF BumpPost, memory
<1>5. /\ thread'[Thr(r)].count = thread[Thr(r)].count + 1 /\ thread'[Thr(r)].last = post[mine[r]].at
  BY <1>3 DEF BumpPost, BumpedCount, BumpedLast, ThreadRows, Types
<1> QED BY <1>1, <1>2, <1>3, <1>4, <1>5 DEF At, ThreadRows

LEMMA RecountEffect ==
  ASSUME IInv, Books, NEW r \in Requests, RecalcStats(r), NEW t \in threads, t = post[Pst(r)].thread
  PROVE  /\ t \in Threads /\ t \in shrunk
         /\ UNCHANGED <<threads, posts, post, call, mine, shrunk, unbumped>>
         /\ thread'[t].count = Cardinality(seen[r]) /\ thread'[t].last = Latest(seen[r])
         /\ seen[r] \subseteq Written /\ \A p \in seen[r] : post[p].thread = t
         /\ t \notin stale' => PostsOf(t) \subseteq seen[r]
<1> USE DEF IInv, TypeOK
<1>1. At(r, "delpost", "recount")
  BY DEF RecalcStats
<1>2. t \in shrunk
  BY <1>1 DEF At, Books, Due, RecountDue
<1>3. seen[r] \subseteq Written /\ \A p \in seen[r] : post[p].thread = t
  BY <1>1, Rows DEF ControlOf, Written, Types
<1>4. t \in Threads /\ thread[t] \in ThreadRows
  BY DEF Types, Exist
<1>5. UNCHANGED <<threads, posts, post, call, mine, shrunk, unbumped>>
  BY DEF RecalcStats, memory
<1>6. thread'[t].count = Cardinality(seen[r]) /\ thread'[t].last = Latest(seen[r])
  BY <1>4 DEF RecalcStats, ThreadRows, Types
<1>7. t \notin stale' => PostsOf(t) \subseteq seen[r]
  BY DEF RecalcStats
<1> QED BY <1>2, <1>3, <1>4, <1>5, <1>6, <1>7

\* The history grows.
LEMMA HistoryGrows ==
  ASSUME IInv, NEW r \in Requests, RequestNext(r)
  PROVE  shrunk \subseteq shrunk' /\ stale \subseteq stale'
<1>1. CASE Reads(r)
  BY <1>1, ReadsOwn DEF history, IInv, TypeOK
<1>2. CASE ~Reads(r)
  BY <1>2 DEF RequestNext, Reads, history, NewThreadInsert, ReplyInsert, BumpPost, DelPostDelete, RecalcStats,
     IncrementViews, SetThreadWrite, EditWrite, NewGroupInsert, SetGroupWrite, DelThreadDelete, DelGroupDelete
<1> QED BY <1>1, <1>2

-----------------------------------------------------------------------------
(* post_count. *)

CountIs(t) == /\ t \notin stale => thread[t].count >= Cardinality(Counted(t))
              /\ t \notin shrunk => thread[t].count = Cardinality(Counted(t))

LEMMA CountedFinite ==
  ASSUME IInv, NEW t
  PROVE  /\ Counted(t) \subseteq Written /\ IsFiniteSet(Counted(t)) /\ Cardinality(Counted(t)) \in Nat
         /\ IsFiniteSet(PostsOf(t))
<1>1. PostsOf(t) \subseteq Written /\ Counted(t) \subseteq PostsOf(t)
  BY DEF IInv, TypeOK, Types, Exist, PostsOf, Counted, Written
<1>2. IsFiniteSet(PostsOf(t)) /\ IsFiniteSet(Counted(t))
  BY <1>1, FS_Subset DEF IInv, Bounded
<1> QED BY <1>1, <1>2, FS_CardinalityType

LEMMA CountStep ==
  ASSUME IInv, Books, NEW r \in Requests, RequestNext(r), Observe, NEW t \in threads',
         t \in threads => CountIs(t)
  PROVE  CountIs(t)'
<1> USE DEF IInv, TypeOK
<1>0. shrunk \subseteq shrunk' /\ stale \subseteq stale'
  BY HistoryGrows
<1>1. CASE ~Touched(r, t)
  BY <1>0, <1>1, SameElsewhere DEF Same, CountIs
<1>2. CASE NewThreadInsert(r) /\ Grp(r) \in groups /\ t \notin threads
  <2>1. PICK x \in Threads, p \in Posts : Begins(r, x, p)
    BY <1>2, BeginEffect
  <2>2. /\ t = x /\ thread'[t].count = 1 /\ posts' = posts \cup {p} /\ post'[p].thread = t /\ unbumped' = unbumped
        /\ \A y \in Posts \ {p} : post'[y] = post[y]
    BY <1>2, <2>1 DEF Begins, Publishes
  <2>3. p \notin unbumped
    BY <2>1, MineFresh DEF Begins
  <2>4. Counted(t)' = {p}
    BY <1>2, <2>2, <2>3 DEF Counted, PostsOf, ForeignKeys, Types
  <2>5. Cardinality({p}) = 1
    BY FS_Singleton
  <2> QED BY <2>2, <2>4, <2>5 DEF CountIs
<1>3. CASE BumpPost(r) /\ t = Thr(r)
  <2>1. /\ t \in threads /\ mine[r] \in Written /\ mine[r] \in unbumped /\ post[mine[r]].thread = t
        /\ UNCHANGED <<threads, posts, post, shrunk, stale>>
        /\ unbumped' = unbumped \ {mine[r]}
        /\ thread'[t].count = thread[t].count + 1 /\ thread[t].count \in Nat
    BY <1>3, BumpEffect DEF BumpPost
  <2>2. CASE mine[r] \in posts
    <3>1. Counted(t)' = Counted(t) \cup {mine[r]} /\ mine[r] \notin Counted(t)
      BY <2>1, <2>2 DEF Counted, PostsOf
    <3>2. Cardinality(Counted(t)') = Cardinality(Counted(t)) + 1
      BY <3>1, CountedFinite, FS_AddElement
    <3> QED BY <2>1, <3>2, CountedFinite DEF CountIs
  <2>3. CASE mine[r] \notin posts
    <3>1. Counted(t)' = Counted(t)
      BY <2>1, <2>3 DEF Counted, PostsOf
    <3>2. t \in shrunk
      BY <2>1, <2>3 DEF Books, Kept
    <3> QED BY <2>1, <3>1, <3>2, CountedFinite DEF CountIs
  <2> QED BY <2>2, <2>3
<1>4. CASE DelPostDelete(r) /\ Pst(r) \in posts /\ t = post[Pst(r)].thread
  <2>1. /\ t \in threads /\ UNCHANGED <<threads, thread, post, stale, unbumped>> /\ posts' = posts \ {Pst(r)}
        /\ t \in shrunk'
    BY <1>4 DEF DelPostDelete
  <2>2. Counted(t)' \subseteq Counted(t)
    BY <2>1 DEF Counted, PostsOf
  <2>3. Cardinality(Counted(t)') <= Cardinality(Counted(t)) /\ Cardinality(Counted(t)') \in Nat
    BY <2>2, CountedFinite, FS_Subset, FS_CardinalityType
  <2>4. thread[t].count \in Nat
    BY <2>1 DEF Types, Exist, ThreadRows
  <2> QED BY <2>1, <2>3, <2>4, CountedFinite DEF CountIs
<1>5. CASE RecalcStats(r) /\ t = post[Pst(r)].thread
  <2>1. /\ t \in threads /\ t \in shrunk' /\ UNCHANGED <<posts, post, unbumped>>
        /\ thread'[t].count = Cardinality(seen[r]) /\ seen[r] \subseteq Written
        /\ t \notin stale' => PostsOf(t) \subseteq seen[r]
    BY <1>5, RecountEffect DEF RecalcStats
  <2>2. Counted(t)' = Counted(t)
    BY <2>1 DEF Counted, PostsOf
  <2>3. IsFiniteSet(seen[r])
    BY <2>1, FS_Subset DEF Bounded
  <2>4. t \notin stale' => Cardinality(Counted(t)) <= Cardinality(seen[r])
    BY <2>1, <2>3, FS_Subset DEF Counted
  <2> QED BY <2>1, <2>2, <2>3, <2>4, CountedFinite, FS_CardinalityType DEF CountIs
<1> QED BY <1>1, <1>2, <1>3, <1>4, <1>5 DEF Touched

-----------------------------------------------------------------------------
(* last_post_at. *)

Ever(t) == {p \in Posts : post[p] # None /\ post[p].thread = t}
Repliers(t) == {r \in Requests : Op(r) = "reply" /\ Thr(r) = t /\ mine[r] # None}
LastIs(t) == /\ thread[t].last \in {0} \cup Times(post, Ever(t))
             /\ t \notin shrunk /\ Cardinality(Repliers(t)) <= 1 => thread[t].last = LatestIn(post, Counted(t))

LEMMA RepliersFinite == ASSUME IInv, NEW t PROVE IsFiniteSet(Repliers(t))
<1>1. Repliers(t) \subseteq Started
  BY Rows DEF Repliers, Started, ControlOf
<1> QED BY <1>1, FS_Subset DEF IInv, Bounded

\* Two replies are more than one.
LEMMA OneReplier ==
  ASSUME NEW S, IsFiniteSet(S), Cardinality(S) <= 1, NEW a \in S, NEW b \in S
  PROVE  a = b
<1> SUFFICES ASSUME a # b PROVE FALSE
  OBVIOUS
<1>1. IsFiniteSet({a}) /\ Cardinality({a}) = 1
  BY FS_Singleton
<1>2. Cardinality({a} \cup {b}) = 2
  <2>1. b \notin {a}
    OBVIOUS
  <2>2. Cardinality({a} \cup {b}) = Cardinality({a}) + 1
    BY <1>1, <2>1, FS_AddElement
  <2> QED BY <1>1, <2>2
<1>3. Cardinality({a} \cup {b}) <= Cardinality(S) /\ Cardinality(S) \in Nat
  BY FS_Subset, FS_CardinalityType
<1> QED BY <1>2, <1>3

\* The times of posts are bounded by the clock, and so have a latest.
LEMMA TimesBounded ==
  ASSUME IInv, NEW S \in SUBSET Written
  PROVE  Cardinality(Written) \in Nat /\ Bound(Times(post, S), Cardinality(Written))
<1>1. Cardinality(Written) \in Nat
  BY FS_CardinalityType DEF IInv, Bounded
<1> QED BY <1>1 DEF IInv, Bounded, Clock, Bound, Times

\* Times and replies of earlier steps stay.
LEMMA TimesStay ==
  ASSUME IInv, NEW r \in Requests, RequestNext(r), Observe, NEW t
  PROVE  /\ Times(post, Ever(t)) \subseteq Times(post, Ever(t))'
         /\ \A S \in SUBSET Written : Times(post', S) = Times(post, S)
         /\ Repliers(t) \subseteq Repliers(t)'
<1>1. Own(r) /\ Steady /\ IInv'
  BY RequestStep
<1>2. Ever(t) \subseteq Ever(t)' /\ \A p \in Written : post'[p].at = post[p].at
  BY <1>1 DEF Ever, Steady, Written
<1>3. \A S \in SUBSET Written : Times(post', S) = Times(post, S)
  BY <1>2 DEF Times
<1>4. Times(post, Ever(t)) \subseteq Times(post, Ever(t))'
  BY <1>2 DEF Times, Ever, Written
<1>5. \A q \in Requests : mine[q] # None => mine'[q] # None
  <2>1. CASE Posting(r)
    BY <2>1, BeginEffect, ReplyEffect, NoneAssumption
       DEF Posting, Begins, Replies, Publishes, BumpPost, DelPostDelete, memory
  <2>2. CASE ~Posting(r)
    BY <2>2, NotPosting
  <2> QED BY <2>1, <2>2
<1> QED BY <1>1, <1>3, <1>4, <1>5 DEF Repliers, Own, Op, Thr

LEMMA LastStep ==
  ASSUME IInv, Books, NEW r \in Requests, RequestNext(r), Observe, NEW t \in threads',
         t \in threads => LastIs(t)
  PROVE  LastIs(t)'
<1> USE DEF IInv, TypeOK
<1>0. shrunk \subseteq shrunk'
  BY HistoryGrows
<1>i. Own(r) /\ Steady /\ IInv'
  BY RequestStep
<1>t. /\ Times(post, Ever(t)) \subseteq Times(post', Ever(t)')
      /\ \A S \in SUBSET Written : Times(post', S) = Times(post, S)
      /\ Repliers(t) \subseteq Repliers(t)'
  BY TimesStay DEF Times
<1>r. Cardinality(Repliers(t)') <= 1 => Cardinality(Repliers(t)) <= 1
  <2>1. IsFiniteSet(Repliers(t)')
    <3>1. Repliers(t)' \subseteq Repliers(t) \cup {r}
      BY <1>i DEF Own, Repliers, Op, Thr
    <3> QED BY <3>1, RepliersFinite, FS_AddElement, FS_Subset
  <2>2. /\ Cardinality(Repliers(t)) <= Cardinality(Repliers(t)')
        /\ Cardinality(Repliers(t)) \in Nat /\ Cardinality(Repliers(t)') \in Nat
    BY <1>t, <2>1, RepliersFinite, FS_Subset, FS_CardinalityType
  <2> QED BY <2>2
<1>1. CASE ~Touched(r, t)
  <2>1. Same(t) /\ LastIs(t)
    BY <1>1, SameElsewhere DEF Same
  <2>2. LatestIn(post', Counted(t)) = LatestIn(post, Counted(t))
    <3>1. Times(post', Counted(t)) = Times(post, Counted(t))
      BY <1>t, CountedFinite
    <3>2. Cardinality(Written) \in Nat /\ Bound(Times(post, Counted(t)), Cardinality(Written))
      BY CountedFinite, TimesBounded
    <3>3. CASE Counted(t) = {}
      BY <3>1, <3>2, <3>3, LatestIs
    <3>4. CASE Counted(t) # {}
      <4>1. IsMax(LatestIn(post, Counted(t)), Times(post, Counted(t)))
        BY <3>2, <3>4, LatestIs
      <4>2. LatestIn(post, Counted(t)) \in Nat
        BY <3>2, <4>1 DEF IsMax, Bound
      <4> QED BY <3>1, <3>2, <4>1, <4>2, LatestIs
    <3> QED BY <3>3, <3>4
  <2>3. Counted(t)' = Counted(t) /\ thread'[t].last = thread[t].last
    BY <2>1 DEF Same
  <2>4. thread'[t].last \in {0} \cup Times(post', Ever(t)')
    BY <1>t, <2>1, <2>3 DEF LastIs
  <2>5. t \notin shrunk' /\ Cardinality(Repliers(t)') <= 1 => thread'[t].last = LatestIn(post', Counted(t)')
    BY <1>0, <1>r, <2>1, <2>2, <2>3 DEF LastIs
  <2> QED BY <2>4, <2>5 DEF LastIs
<1>2. CASE NewThreadInsert(r) /\ Grp(r) \in groups /\ t \notin threads
  <2>1. PICK x \in Threads, p \in Posts : Begins(r, x, p)
    BY <1>2, BeginEffect
  <2>2. /\ t = x /\ thread'[t].last = Now /\ posts' = posts \cup {p} /\ post'[p].thread = t /\ unbumped' = unbumped
        /\ post'[p].at = Now /\ post'[p] # None
        /\ \A y \in Posts \ {p} : post'[y] = post[y]
    BY <1>2, <2>1 DEF Begins, Publishes
  <2>3. p \notin unbumped
    BY <2>1, MineFresh DEF Begins
  <2>4. Counted(t)' = {p}
    BY <1>2, <2>2, <2>3 DEF Counted, PostsOf, ForeignKeys, Types
  <2>5. PICK n \in Nat : n = Now
    <3>1. Cardinality(Written) \in Nat /\ Now = 1 + Cardinality(Written)
      BY FS_CardinalityType DEF Bounded, Written, Now
    <3>2. Now \in Nat
      BY <3>1
    <3> QED BY <3>2
  <2>6. Times(post', {p}) = {n}
    BY <2>2, <2>5 DEF Times
  <2>7. LatestIn(post', {p}) = n
    <3>1. IsMax(n, {n}) /\ Bound({n}, n)
      BY DEF IsMax, Bound
    <3> QED BY <2>6, <3>1, LatestIs
  <2>8. n \in Times(post', Ever(t)')
    <3>1. p \in Ever(t)'
      BY <2>2 DEF Ever
    <3> QED BY <2>2, <2>5, <3>1 DEF Times
  <2> QED BY <2>2, <2>4, <2>5, <2>7, <2>8 DEF LastIs
<1>3. CASE BumpPost(r) /\ t = Thr(r)
  <2>1. /\ t \in threads /\ Op(r) = "reply" /\ mine[r] \in Written /\ mine[r] \in unbumped
        /\ post[mine[r]].thread = t
        /\ UNCHANGED <<threads, posts, post, call, mine, shrunk>>
        /\ unbumped' = unbumped \ {mine[r]}
        /\ thread'[t].last = post[mine[r]].at
    BY <1>3, BumpEffect DEF BumpPost
  <2>2. mine[r] \in Ever(t)'
    BY <2>1 DEF Ever, Written
  <2>3. thread'[t].last \in Times(post', Ever(t)')
    BY <2>1, <2>2 DEF Times
  <2>4. ASSUME t \notin shrunk', Cardinality(Repliers(t)') <= 1
        PROVE  thread'[t].last = LatestIn(post', Counted(t)')
    <3>1. mine[r] \in Counted(t)' /\ Counted(t)' \subseteq Written
      BY <2>1, <2>4 DEF Books, Kept, Counted, PostsOf, Types, Exist, Written
    <3>2. r \in Repliers(t)
      BY <1>3, <2>1, NoneAssumption DEF Repliers, Written
    <3>3. ASSUME NEW y \in Counted(t)' PROVE post[y].at <= post[mine[r]].at
      <4>1. y \in Written /\ post[y].thread = t
        BY <2>1, <3>1 DEF Counted, PostsOf
      <4>2. CASE IsReply(y)
        <5>1. PICK q \in Requests : Op(q) = "reply" /\ mine[q] = y
          BY <4>2 DEF IsReply
        <5>2. q \in Repliers(t)
          BY <4>1, <5>1, Rows, NoneAssumption DEF Repliers, ControlOf, Written
        <5>3. q = r
          BY <1>r, <2>4, <3>2, <5>2, RepliersFinite, OneReplier
        <5>4. post[y].at \in Int
          BY <4>1 DEF Bounded, Clock
        <5> QED BY <5>1, <5>3, <5>4
      <4>3. CASE ~IsReply(y)
        BY <1>3, <2>1, <4>1, <4>3, NoneAssumption DEF Books, Due, Newer, Written
      <4> QED BY <4>2, <4>3
    <3>4. PICK m \in Nat : m = post[mine[r]].at
      BY <2>1 DEF Bounded, Clock
    <3>5. IsMax(m, Times(post, Counted(t)'))
      BY <3>1, <3>3, <3>4 DEF IsMax, Times
    <3>6. Cardinality(Written) \in Nat /\ Bound(Times(post, Counted(t)'), Cardinality(Written))
      BY <3>1, TimesBounded
    <3>7. LatestIn(post, Counted(t)') = m
      BY <3>5, <3>6, LatestIs
    <3> QED BY <2>1, <3>4, <3>7
  <2> QED BY <2>3, <2>4 DEF LastIs
<1>4. CASE DelPostDelete(r) /\ Pst(r) \in posts /\ t = post[Pst(r)].thread
  <2>1. t \in threads /\ thread' = thread /\ t \in shrunk'
    BY <1>4 DEF DelPostDelete
  <2> QED BY <1>t, <2>1 DEF LastIs
<1>5. CASE RecalcStats(r) /\ t = post[Pst(r)].thread
  <2>1. /\ t \in threads /\ t \in shrunk' /\ post' = post
        /\ thread'[t].last = Latest(seen[r]) /\ seen[r] \subseteq Written
        /\ \A p \in seen[r] : post[p].thread = t
    <3>1. t \in threads
      BY <1>5 DEF RecalcStats
    <3> QED BY <1>5, <3>1, RecountEffect
  <2>2. Latest(seen[r]) = LatestIn(post, seen[r])
    BY DEF Latest, LatestIn
  <2>3. Cardinality(Written) \in Nat /\ Bound(Times(post, seen[r]), Cardinality(Written))
    BY <2>1, TimesBounded
  <2>4. Times(post, seen[r]) \subseteq Times(post', Ever(t)')
    BY <2>1 DEF Times, Ever, Written
  <2>5. LatestIn(post, seen[r]) \in {0} \cup Times(post', Ever(t)')
    BY <2>3, <2>4, LatestIs DEF IsMax
  <2> QED BY <2>1, <2>2, <2>5 DEF LastIs
<1> QED BY <1>1, <1>2, <1>3, <1>4, <1>5 DEF Touched

-----------------------------------------------------------------------------
(* Views. *)

Viewers(t, res) == {r \in Requests : Op(r) = "view" /\ Thr(r) = t /\ result[r] \in res}
Surely(t) == Viewers(t, {"ok"})
Perhaps(t) == Viewers(t, {"ok", "error"})
ViewsAre(t) == thread[t].views \in Cardinality(Surely(t)) .. Cardinality(Perhaps(t))

LEMMA ViewersFinite ==
  ASSUME IInv, NEW t
  PROVE  /\ IsFiniteSet(Surely(t)) /\ Cardinality(Surely(t)) \in Nat
         /\ IsFiniteSet(Perhaps(t)) /\ Cardinality(Perhaps(t)) \in Nat
<1>1. Perhaps(t) \subseteq Started /\ Surely(t) \subseteq Started
  BY Rows DEF Viewers, Surely, Perhaps, Started, ControlOf
<1> QED BY <1>1, FS_Subset, FS_CardinalityType DEF IInv, Bounded

LEMMA ViewsStep ==
  ASSUME IInv, Books, NEW r \in Requests, RequestNext(r), Observe, NEW t \in threads',
         t \in threads => ViewsAre(t)
  PROVE  ViewsAre(t)'
<1> USE DEF IInv, TypeOK
<1>1. Own(r) /\ Steady /\ IInv'
  BY RequestStep
<1>2. result[r] = "none"
  BY AnswersStay
<1>3. /\ r \notin Perhaps(t) /\ r \notin Surely(t)
      /\ Perhaps(t)' = Perhaps(t) \/ Perhaps(t)' = Perhaps(t) \cup {r}
      /\ Surely(t)' = Surely(t) \/ Surely(t)' = Surely(t) \cup {r}
  BY <1>1, <1>2 DEF Own, Viewers, Surely, Perhaps, Op, Thr
<1>4. /\ IsFiniteSet(Surely(t)) /\ Cardinality(Surely(t)) \in Nat
      /\ IsFiniteSet(Perhaps(t)) /\ Cardinality(Perhaps(t)) \in Nat
  BY ViewersFinite
<1>5. /\ Cardinality(Perhaps(t) \cup {r}) = Cardinality(Perhaps(t)) + 1
      /\ Cardinality(Surely(t) \cup {r}) = Cardinality(Surely(t)) + 1
  BY <1>3, <1>4, FS_AddElement
<1>6. CASE IncrementViews(r) /\ Thr(r) = t
  <2>1. /\ t \in threads /\ t \in Threads /\ thread[t] \in ThreadRows /\ call' = call
        /\ result'[r] \in {"ok", "error"} /\ Op(r) = "view"
    BY <1>6 DEF IncrementViews, Finish, Answer, At, Types, Exist
  <2>2. thread'[t].views = thread[t].views + 1
    BY <1>6, <2>1 DEF IncrementViews, ViewsAfter, ThreadRows, Types
  <2>3. Perhaps(t)' = Perhaps(t) \cup {r}
    BY <1>3, <1>6, <2>1 DEF Viewers, Perhaps, Op, Thr
  <2>4. Cardinality(Perhaps(t)') = Cardinality(Perhaps(t)) + 1
    BY <1>5, <2>3
  <2>5. Cardinality(Surely(t)') \in {Cardinality(Surely(t)), Cardinality(Surely(t)) + 1}
    BY <1>3, <1>5
  <2>6. thread[t].views \in Cardinality(Surely(t)) .. Cardinality(Perhaps(t))
    BY <2>1 DEF ViewsAre
  <2>7. thread'[t].views \in Cardinality(Surely(t)') .. Cardinality(Perhaps(t)')
    BY <1>4, <2>2, <2>4, <2>5, <2>6
  <2> QED BY <2>7 DEF ViewsAre
<1>7. CASE ~(IncrementViews(r) /\ Thr(r) = t) /\ t \in threads
  <2>1. thread'[t].views = thread[t].views
    <3>0. t \in Threads /\ thread[t] \in ThreadRows
      BY <1>7 DEF Types, Exist
    <3>1. CASE Reads(r)
      BY <3>1, ReadsOwn DEF rows
    <3>2. CASE NewThreadInsert(r)
      BY <1>7, <3>0, <3>2, BeginEffect DEF Begins, NewThreadInsert, rows
    <3>3. CASE IncrementViews(r)
      BY <1>7, <3>0, <3>3 DEF IncrementViews, Types
    <3>4. CASE SetThreadWrite(r)
      BY <3>0, <3>4 DEF SetThreadWrite, ThreadRows, Types
    <3>5. CASE BumpPost(r)
      BY <3>0, <3>5 DEF BumpPost, ThreadRows, Types
    <3>6. CASE RecalcStats(r)
      BY <3>0, <3>6 DEF RecalcStats, ThreadRows, Types
    <3>7. CASE EditWrite(r) \/ NewGroupInsert(r) \/ SetGroupWrite(r) \/ DelThreadDelete(r) \/ DelGroupDelete(r)
               \/ ReplyInsert(r) \/ DelPostDelete(r)
      BY <3>7 DEF EditWrite, NewGroupInsert, SetGroupWrite, DelThreadDelete, DelGroupDelete, ReplyInsert,
                  DelPostDelete
    <3> QED BY <3>1, <3>2, <3>3, <3>4, <3>5, <3>6, <3>7 DEF RequestNext, Reads
  <2>2. Surely(t)' = Surely(t)
    <3>1. ~(Op(r) = "view" /\ Thr(r) = t /\ result'[r] = "ok")
      BY <1>7, Arrivals
    <3> QED BY <1>1, <1>3, <3>1 DEF Own, Viewers, Surely, Op, Thr
  <2> QED BY <1>3, <1>4, <1>5, <1>7, <2>1, <2>2 DEF ViewsAre
<1>8. CASE t \notin threads
  <2>1. NewThreadInsert(r) /\ Grp(r) \in groups
    BY <1>8, NotPosting DEF Posting, ReplyInsert, BumpPost, DelPostDelete
  <2>2. PICK x \in Threads, p \in Posts : Begins(r, x, p)
    BY <2>1, BeginEffect
  <2>3. t = x /\ thread'[t].views = 0 /\ thread[t] = None /\ result' = result
    BY <1>8, <2>2 DEF Begins
  <2>4. Surely(t)' = {}
    BY <1>1, <2>3 DEF Own, Viewers, Surely, Op, Thr, Books, Due, Viewed
  <2>5. Cardinality(Surely(t)') = 0
    BY <2>4, FS_EmptySet
  <2>6. Cardinality(Perhaps(t)') \in Nat
    <3>1. CASE Perhaps(t)' = Perhaps(t)
      BY <1>4, <3>1
    <3>2. CASE Perhaps(t)' = Perhaps(t) \cup {r}
      <4>1. IsFiniteSet(Perhaps(t) \cup {r})
        BY <1>4, FS_AddElement
      <4> QED BY <3>2, <4>1, FS_CardinalityType
    <3> QED BY <1>3, <3>1, <3>2
  <2>7. thread'[t].views \in Cardinality(Surely(t)') .. Cardinality(Perhaps(t)')
    BY <2>3, <2>5, <2>6
  <2> QED BY <2>7 DEF ViewsAre
<1> QED BY <1>6, <1>7, <1>8

-----------------------------------------------------------------------------
\* The named parts are the property.
LEMMA StatsParts == StatsTrack <=> \A t \in threads : CountIs(t) /\ LastIs(t) /\ ViewsAre(t)
  BY DEF StatsTrack, CountTracks, LastTracks, ViewsTrack, CountIs, LastIs, ViewsAre, Counted, Ever, Repliers,
         Times, LatestIn, Latest, Viewers, Surely, Perhaps

\* At the start every post is counted.
LEMMA StatsInit ==
  ASSUME Init PROVE SInv
<1>i. IInv
  BY InitInv
<1> USE DEF IInv, TypeOK
<1>0. /\ unbumped = {} /\ shrunk = {} /\ \A r \in Requests : pc[r] = "idle" /\ mine[r] = None /\ result[r] = "none"
  BY DEF Init
<1>1. Books
  BY <1>0, InitRows DEF Books, Kept, MineOnce, Due, BumpDue, RecountDue, Newer, Viewed, At, Written
<1>2. ASSUME NEW t \in threads PROVE CountIs(t) /\ LastIs(t) /\ ViewsAre(t)
  <2>1. PICK s \in SeedThreads :
          s.id = t /\ thread[t] = ThreadRow(s.group, s.author, Cardinality(SeedOf(t)), NewestOf(t))
    BY InitRows
  <2>2. thread[t].count = Cardinality(SeedOf(t)) /\ thread[t].last = NewestOf(t) /\ thread[t].views = 0
    BY <2>1 DEF ThreadRow
  <2>3. \A i \in 1..Len(SeedPosts) :
          /\ SeedPosts[i].id \in posts /\ post[SeedPosts[i].id].thread = SeedPosts[i].thread
          /\ post[SeedPosts[i].id].at = i
    <3> SUFFICES ASSUME NEW i \in 1..Len(SeedPosts)
                 PROVE  /\ SeedPosts[i].id \in posts /\ post[SeedPosts[i].id].thread = SeedPosts[i].thread
                        /\ post[SeedPosts[i].id].at = i
      OBVIOUS
    <3>1. SeedPosts[i].id \in posts
      BY InitRows DEF Ids
    <3>2. PICK j \in 1..Len(SeedPosts) : /\ SeedPosts[j].id = SeedPosts[i].id
                /\ post[SeedPosts[i].id] = PostRow(SeedPosts[j].thread, SeedPosts[j].author, j)
      BY <3>1, InitRows
    <3>3. j = i
      BY <3>2, SeedAssumption
    <3> QED BY <3>1, <3>2, <3>3 DEF PostRow
  <2>4. Counted(t) = Ids(SeedOf(t))
    BY <1>0, <2>3, InitRows DEF Counted, PostsOf, Ids, SeedOf
  <2>5. SeedOf(t) \in SUBSET (1..Len(SeedPosts))
    BY DEF SeedOf
  <2>6. Cardinality(Counted(t)) = Cardinality(SeedOf(t)) /\ Cardinality(Counted(t)) \in Nat
    BY <1>i, <2>4, <2>5, IdsCount, CountedFinite
  <2>7. CountIs(t)
    BY <2>2, <2>6 DEF CountIs
  <2>8. Times(post, Counted(t)) = SeedOf(t)
    <3>1. \A i \in SeedOf(t) : post[SeedPosts[i].id].at = i
      BY <2>3, <2>5
    <3> QED BY <2>4, <3>1 DEF Times, Ids
  <2>9. IsMax(NewestOf(t), SeedOf(t)) /\ NewestOf(t) \in Nat
    <3>1. IsMax(NewestOf(t), SeedOf(t))
      BY <2>1, NewestIs
    <3> QED BY <2>5, <3>1, SeedTyped DEF IsMax
  <2>10. LatestIn(post, Counted(t)) = NewestOf(t)
    <3>1. Cardinality(Written) \in Nat /\ Bound(Times(post, Counted(t)), Cardinality(Written))
      BY <1>i, CountedFinite, TimesBounded
    <3> QED BY <2>8, <2>9, <3>1, LatestIs
  <2>11. NewestOf(t) \in Times(post, Ever(t))
    <3>1. Counted(t) \subseteq Ever(t)
      BY <1>i DEF Counted, PostsOf, Ever, Types, Exist
    <3> QED BY <2>8, <2>9, <3>1 DEF IsMax, Times
  <2>12. LastIs(t)
    BY <2>2, <2>10, <2>11 DEF LastIs
  <2>13. Surely(t) = {} /\ Perhaps(t) = {}
    BY <1>0 DEF Surely, Perhaps, Viewers
  <2>14. ViewsAre(t)
    BY <2>2, <2>13, FS_EmptySet DEF ViewsAre
  <2> QED BY <2>7, <2>12, <2>14
<1> QED BY <1>1, <1>2, StatsParts DEF SInv

\* post_count never falls short but for a stale recount and is exact while nothing
\* is deleted, last_post_at is the time of a post of the thread and its newest for a
\* single reply, and no view is lost.
THEOREM StatisticsTrack == Spec => []StatsTrack
<1> DEFINE Parts == \A t \in threads : CountIs(t) /\ LastIs(t) /\ ViewsAre(t)
<1>0. StatsTrack <=> Parts
  BY StatsParts
<1>1. Init => Books /\ Parts
  BY <1>0, StatsInit DEF SInv
<1>2. IInv /\ Books /\ Parts /\ [Next]_vars => Books' /\ Parts'
  <2>1. ASSUME IInv, Books, Parts, Next PROVE Books' /\ Parts'
    <3>1. PICK r \in Requests : RequestNext(r)
      BY <2>1 DEF Next
    <3>2. Observe
      BY <2>1 DEF Next
    <3>3. Books'
      BY <2>1, <3>1, <3>2, BooksStep
    <3>4. ASSUME NEW t \in threads' PROVE CountIs(t)' /\ LastIs(t)' /\ ViewsAre(t)'
      BY <2>1, <3>1, <3>2, CountStep, LastStep, ViewsStep
    <3> QED BY <3>3, <3>4
  <2>2. ASSUME Books, Parts, UNCHANGED vars PROVE Books' /\ Parts'
    <3> USE <2>2 DEF vars, rows, memory, history
    <3>1. Books'
      BY DEF Books, Written, Kept, MineOnce, Due, BumpDue, RecountDue, Newer, IsReply, Viewed, At, Op, Thr, Pst
    <3>2. ASSUME NEW t \in threads PROVE CountIs(t)' /\ LastIs(t)' /\ ViewsAre(t)'
      <4>1. CountIs(t)'
        BY DEF CountIs, Counted, PostsOf
      <4>2. /\ Counted(t)' = Counted(t) /\ Times(post, Ever(t))' = Times(post, Ever(t))
            /\ Repliers(t)' = Repliers(t)
        BY DEF Counted, PostsOf, Ever, Repliers, Times, Op, Thr
      <4>3. LastIs(t)'
        BY <4>2 DEF LastIs
      <4>4. ViewsAre(t)'
        BY DEF ViewsAre, Viewers, Surely, Perhaps, Op, Thr
      <4> QED BY <4>1, <4>3, <4>4
    <3> QED BY <3>1, <3>2
  <2> QED BY <2>1, <2>2
<1> HIDE DEF Parts
<1> QED BY <1>0, <1>1, <1>2, Inductive, PTL DEF Spec
=============================================================================
