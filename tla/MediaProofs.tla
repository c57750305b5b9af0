---------------------------- MODULE MediaProofs ----------------------------
(***************************************************************************)
(* The bucket and the database stay in step, for any number of uploads,    *)
(* deletes and downloads, wherever they fail.                              *)
(***************************************************************************)
EXTENDS Media, TLAPS

\* A request is at a step of its own handler and is answered when it is done.
Control ==
  \A r \in Requests :
    /\ pc[r] \in {"validate", "upload"} => Op(r) \in {"attachment", "avatar"}
    /\ pc[r] \in {"check", "record"} => Op(r) = "attachment"
    /\ pc[r] = "update" => Op(r) = "avatar"
    /\ pc[r] \in {"get", "remove", "delete"} => Op(r) = "delete"
    /\ pc[r] \in {"stat", "copy"} => Op(r) = "serve"
    /\ pc[r] = "deletepost" => Op(r) = "deletepost"
    /\ pc[r] # "done" => result[r] = "none"

\* A delete past its checks goes for a row that was recorded, on behalf of its
\* owner or a moderator, and touches the row only once the object is gone.
Deleting ==
  \A d \in Requests :
    /\ pc[d] \in {"remove", "delete"} => Target(d) \in recorded /\ Entitled(d)
    /\ pc[d] = "delete" => Target(d) \notin objects

\* Only finished attachments are recorded, and an upload whose object is stored
\* has it until it is recorded or shown.
Uploading ==
  /\ \A k \in recorded : Op(k) = "attachment" /\ pc[k] = "done"
  /\ \A k \in objects : pc[k] \in {"record", "update", "done"}
  /\ \A k \in Requests : pc[k] \in {"record", "update"} => k \in objects

\* Avatars are shown by avatar uploads, which no delete can name.
Shown == \A u \in Users : avatar[u] # None => Op(avatar[u]) = "avatar"

Deleted(k) == \E d \in Requests : Deletes(d, k) /\ User(d) \in Moderators \cup {User(k)}

\* Whatever was recorded, or announced by a download, and is missing was deleted.
Lost ==
  /\ \A k \in recorded : k \notin rows \/ k \notin objects => Deleted(k)
  /\ \A r \in Requests : pc[r] = "copy" => Target(r) \in objects \/ Deleted(Target(r))
  /\ \A r \in Requests : result[r] = "truncated" => Deleted(Target(r))

IInv == /\ TypeOK /\ Control /\ Deleting /\ Uploading /\ Shown /\ Lost
        /\ DeletedIsGone /\ OrphansExplained /\ AvatarShown

-----------------------------------------------------------------------------
LEMMA CallFacts ==
  ASSUME TypeOK, NEW r \in Requests
  PROVE  call \in [Requests -> Calls] /\ call[r] \in Calls
  BY WorkloadsAssumption DEF TypeOK

LEMMA InitInv == Init => IInv
<1> SUFFICES ASSUME Init PROVE IInv
  OBVIOUS
<1> USE DEF Init
<1>1. TypeOK /\ Control
  <2>1. call \in [Requests -> Calls]
    BY WorkloadsAssumption
  <2>2. \A r \in Requests : pc[r] = FirstStep[Op(r)] /\ Op(r) \in DOMAIN FirstStep
    BY <2>1 DEF Calls, Op, FirstStep
  <2>3. TypeOK
    BY <2>2 DEF TypeOK, PcValues, Results, FirstStep
  <2>4. Control
    BY <2>2 DEF Control, FirstStep
  <2> QED BY <2>3, <2>4
<1>2. \A r \in Requests : pc[r] \notin {"remove", "delete", "record", "update", "copy"}
  <2>1. call \in [Requests -> Calls]
    BY WorkloadsAssumption
  <2> QED BY <2>1 DEF Calls, Op, FirstStep
<1>3. Deleting /\ Uploading /\ Shown /\ Lost
  BY <1>2 DEF Deleting, Uploading, Shown, Lost
<1>4. DeletedIsGone /\ OrphansExplained /\ AvatarShown
  BY DEF DeletedIsGone, OrphansExplained, AvatarShown
<1> QED BY <1>1, <1>3, <1>4 DEF IInv

\* A step of r moves r along its handler, or ends it, and touches no other request.
Moves(r) ==
  /\ call' = call
  /\ \A q \in Requests \ {r} : pc'[q] = pc[q] /\ result'[q] = result[q]
  /\ pc[r] # "done" /\ pc'[r] \in PcValues \ {"validate", "get", "stat", "deletepost"}
  /\ pc' \in [Requests -> PcValues] /\ result' \in [Requests -> Results]
  /\ pc'[r] # "done" => result'[r] = "none"
  /\ pc'[r] # "done" => <<pc[r], pc'[r]>> \in
       {<<"validate", "check">>, <<"validate", "upload">>, <<"check", "upload">>,
        <<"upload", "record">>, <<"upload", "update">>, <<"get", "remove">>,
        <<"remove", "delete">>, <<"stat", "copy">>}
  /\ acted \subseteq acted' /\ acted' \subseteq acted \cup {r}
  /\ result'[r] = "truncated" => pc[r] = "copy" /\ Target(r) \notin objects
  /\ pc[r] \in {"record", "update"} => pc'[r] = "done"

LEMMA StepMoves ==
  ASSUME IInv, NEW r \in Requests, RequestNext(r)
  PROVE  Moves(r) /\ Control'
<1> USE DEF IInv, Goto, Answer, Proceed, Finish, Continue, stores
<1>1. TypeOK /\ call \in [Requests -> Calls]
  BY CallFacts
<1>2. /\ pc \in [Requests -> PcValues] /\ result \in [Requests -> Results]
      /\ (pc[r] # "done" => result[r] = "none")
  BY DEF TypeOK, Control
<1>3. Moves(r) /\ (pc'[r] \in {"check", "record"} => Op(r) = "attachment")
               /\ (pc'[r] = "update" => Op(r) = "avatar")
  <2> USE <1>2 DEF Moves, PcValues, Results
  <2>1. CASE Validate(r)
    <3>1. Op(r) \in {"attachment", "avatar"} /\ Verdict(r) \in {"ok", "invalid", "too_large", "unsupported"}
      BY <2>1 DEF Validate, Control, Verdict
    <3> QED BY <2>1, <3>1 DEF Validate, After, AttachmentNext, AvatarNext
  <2>2. CASE CheckPost(r)
    BY <2>2 DEF CheckPost, Control, After, AttachmentNext
  <2>3. CASE Upload(r)
    <3>1. Op(r) \in {"attachment", "avatar"}
      BY <2>3 DEF Upload, Control
    <3>2. /\ After(r, "upload") \in {"record", "update"}
          /\ After(r, "upload") = "record" => Op(r) = "attachment"
          /\ After(r, "upload") = "update" => Op(r) = "avatar"
      BY <3>1 DEF After, AttachmentNext, AvatarNext
    <3> QED BY <2>3, <3>2 DEF Upload
  <2>4. CASE Record(r)
    BY <2>4 DEF Record
  <2>5. CASE UpdateAvatar(r)
    <3>1. After(r, "update") = "done"
      BY <2>5 DEF UpdateAvatar, Control, After, AvatarNext
    <3> QED BY <2>5, <3>1 DEF UpdateAvatar
  <2>6. CASE GetAttachment(r)
    BY <2>6 DEF GetAttachment, DeleteNext
  <2>7. CASE RemoveObject(r)
    <3>1. After(r, "remove") = "delete"
      BY <2>7 DEF RemoveObject, Control, After, DeleteNext
    <3> QED BY <2>7, <3>1 DEF RemoveObject
  <2>8. CASE DeleteRow(r)
    <3>1. After(r, "delete") = "done"
      BY <2>8 DEF DeleteRow, Control, After, DeleteNext
    <3> QED BY <2>8, <3>1 DEF DeleteRow
  <2>9. CASE DeletePost(r)
    BY <2>9 DEF DeletePost
  <2>10. CASE ServeStat(r)
    BY <2>10 DEF ServeStat
  <2>11. CASE ServeCopy(r)
    BY <2>11 DEF ServeCopy
  <2>12. CASE Fail(r)
    BY <2>12 DEF Fail
  <2> QED BY <2>1, <2>2, <2>3, <2>4, <2>5, <2>6, <2>7, <2>8, <2>9, <2>10, <2>11, <2>12
          DEF RequestNext
<1>4. Control'
  BY <1>3 DEF Moves, Control, Op
<1> QED BY <1>3, <1>4

\* A delete that called the stores stays one.
LEMMA DeletedStays ==
  ASSUME NEW r \in Requests, Moves(r), NEW k, Deleted(k)
  PROVE  Deleted(k)'
<1>1. call' = call /\ acted \subseteq acted'
  BY DEF Moves
<1> QED BY <1>1 DEF Deleted, Deletes, Op, Target, User

\* Steps that change no store: checks, refusals, downloads and failed calls.
LEMMA QuietStep ==
  ASSUME IInv, NEW r \in Requests, Moves(r), Control', UNCHANGED stores,
         \/ Validate(r) \/ CheckPost(r) \/ GetAttachment(r) \/ ServeStat(r) \/ ServeCopy(r)
         \/ Fail(r)
  PROVE  IInv'
<1> USE DEF IInv, stores
<1>1. TypeOK'
  BY DEF TypeOK, Moves
<1>2. \A k \in Requests : /\ Op(k)' = Op(k) /\ User(k)' = User(k) /\ Target(k)' = Target(k)
                          /\ Entitled(k)' = Entitled(k)
  BY DEF Moves, Op, User, Target, Entitled
<1>3. Deleting'
  <2>1. pc'[r] = "remove" => Target(r) \in recorded /\ Entitled(r)
    BY DEF Moves, GetAttachment, Validate, CheckPost, ServeStat, ServeCopy, Fail, Goto, Answer, TypeOK
  <2>2. pc'[r] # "delete"
    BY DEF Moves, GetAttachment, Validate, CheckPost, ServeStat, ServeCopy, Fail, Answer, TypeOK
  <2> QED BY <1>2, <2>1, <2>2 DEF Deleting, Moves
<1>4. Uploading'
  <2>1. pc[r] # "upload" \/ pc'[r] = "done"
    BY DEF Validate, CheckPost, GetAttachment, ServeStat, ServeCopy, Fail, Answer, TypeOK
  <2> QED BY <1>2, <2>1 DEF Uploading, Moves, TypeOK
<1>5. Shown' /\ AvatarShown' /\ DeletedIsGone'
  BY <1>2 DEF Shown, AvatarShown, DeletedIsGone, TypeOK
<1>6. Lost'
  <2>0. \A k : Deleted(k) => Deleted(k)'
    BY DeletedStays
  <2>1. \A k \in recorded : k \notin rows \/ k \notin objects => Deleted(k)'
    BY <2>0 DEF Lost
  <2>2. \A q \in Requests \ {r} : /\ pc'[q] = "copy" => Target(q) \in objects \/ Deleted(Target(q))'
                                  /\ result'[q] = "truncated" => Deleted(Target(q))'
    BY <2>0 DEF Lost, Moves, Target
  <2>3. pc'[r] = "copy" => Target(r) \in objects
    BY DEF Moves, ServeStat, Validate, CheckPost, GetAttachment, ServeCopy, Fail, Stat, Goto, Answer, TypeOK
  <2>4. result'[r] = "truncated" => Deleted(Target(r))'
    BY <2>0 DEF Lost, Moves, Target
  <2> QED BY <1>2, <2>1, <2>2, <2>3, <2>4 DEF Lost
<1>7. OrphansExplained'
  <2> SUFFICES ASSUME NEW k \in objects,
                      k \notin rows, \A u \in Users : avatar[u] # k,
                      ~(Op(k) = "avatar" /\ \E q \in acted \ {k} : Op(q) = "avatar" /\ User(q) = User(k))
               PROVE  pc'[k] \in {"record", "update"} \/ result'[k] = "error"
    BY <1>2 DEF OrphansExplained, Explained, TypeOK
  <2>1. pc[k] \in {"record", "update"} \/ result[k] = "error"
    BY DEF OrphansExplained, Explained
  <2>2. CASE k # r
    BY <2>1, <2>2 DEF Moves, TypeOK
  <2>3. CASE k = r
    <3>1. pc[r] \in {"record", "update"}
      BY <2>1, <2>3 DEF Control, Moves, TypeOK
    <3>2. Fail(r)
      BY <3>1 DEF Validate, CheckPost, GetAttachment, ServeStat, ServeCopy
    <3> QED BY <2>3, <3>1, <3>2 DEF Fail, Answer, TypeOK
  <2> QED BY <2>2, <2>3
<1> QED BY <1>1, <1>3, <1>4, <1>5, <1>6, <1>7

\* A step that takes objects and rows only from what is being deleted explains
\* every loss.
LEMMA LostStep ==
  ASSUME IInv, NEW r \in Requests, Moves(r), pc'[r] # "copy",
         \A k \in recorded' : k \notin rows' \/ k \notin objects' =>
           (k \in recorded /\ (k \notin rows \/ k \notin objects)) \/ Deleted(k)',
         \A k \in objects : k \in objects' \/ Deleted(k)'
  PROVE  Lost'
<1>1. \A k : Deleted(k) => Deleted(k)'
  BY DeletedStays
<1>2. \A k \in recorded' : k \notin rows' \/ k \notin objects' => Deleted(k)'
  BY <1>1 DEF IInv, Lost
<1>3. \A q \in Requests : pc'[q] = "copy" => Target(q)' \in objects' \/ Deleted(Target(q))'
  BY <1>1 DEF IInv, Lost, Moves, Target
<1>4. \A q \in Requests : result'[q] = "truncated" => Deleted(Target(q))'
  BY <1>1 DEF IInv, Lost, Moves, Target
<1> QED BY <1>2, <1>3, <1>4 DEF Lost

\* The object is stored under a key of its own, before anything refers to it.
LEMMA UploadStep ==
  ASSUME IInv, NEW r \in Requests, Moves(r), Control', Upload(r)
  PROVE  IInv'
<1> USE DEF IInv, Upload
<1>1. TypeOK'
  BY DEF TypeOK, Moves
<1>2. /\ \A k \in Requests : /\ Op(k)' = Op(k) /\ User(k)' = User(k) /\ Target(k)' = Target(k)
                             /\ Entitled(k)' = Entitled(k)
      /\ pc'[r] \in {"record", "update", "done"} /\ (pc'[r] = "done" => result'[r] = "error")
  <2>1. Op(r) \in {"attachment", "avatar"}
    BY DEF Control
  <2> QED BY <2>1 DEF Moves, Op, User, Target, Entitled, Continue, After, AttachmentNext, AvatarNext,
                      Proceed, Goto, Answer, TypeOK
<1>3. r \notin recorded /\ \A k \in recorded : k # r
  BY DEF Uploading
<1>4. Deleting'
  BY <1>2, <1>3 DEF Deleting, Moves
<1>5. Uploading'
  BY <1>2, <1>3 DEF Uploading, Moves, TypeOK
<1>6. Shown' /\ AvatarShown' /\ DeletedIsGone'
  BY <1>2, <1>3 DEF Shown, AvatarShown, DeletedIsGone, TypeOK
<1>7. Lost'
  BY <1>2, LostStep
<1>8. OrphansExplained'
  <2>1. pc'[r] \in {"record", "update"} \/ result'[r] = "error"
    BY <1>2
  <2>2. \A k \in objects' : k # r => k \in objects /\ pc'[k] = pc[k] /\ result'[k] = result[k]
    BY DEF Moves, TypeOK
  <2>3. Explained(r)'
    BY <2>1 DEF Explained
  <2>4. ASSUME NEW k \in objects', k # r PROVE Explained(k)'
    BY <1>1, <1>2, <2>2, <2>4 DEF OrphansExplained, Explained, TypeOK
  <2> QED BY <2>3, <2>4 DEF OrphansExplained
<1> QED BY <1>1, <1>4, <1>5, <1>6, <1>7, <1>8

\* The row is written for an object that is still there: nobody can have deleted
\* what was not recorded yet.
LEMMA RecordStep ==
  ASSUME IInv, NEW r \in Requests, Moves(r), Control', Record(r)
  PROVE  IInv'
<1> USE DEF IInv, Record
<1>1. TypeOK'
  <2>1. postOf' \in [Requests -> posts' \cup {None}]
    BY DEF TypeOK, References, PostExists
  <2> QED BY <2>1 DEF TypeOK, Moves
<1>2. /\ \A k \in Requests : /\ Op(k)' = Op(k) /\ User(k)' = User(k) /\ Target(k)' = Target(k)
                             /\ Entitled(k)' = Entitled(k)
      /\ pc'[r] = "done" /\ Op(r) = "attachment" /\ r \in objects /\ r \notin recorded
      /\ r \in rows' \/ result'[r] = "error"
      /\ rows \subseteq rows' /\ recorded \subseteq recorded' /\ recorded' \subseteq recorded \cup {r}
      /\ (r \in recorded' => r \in rows')
  BY DEF Moves, Op, User, Target, Entitled, Finish, Answer, TypeOK, Control, Uploading
<1>3. Deleting'
  BY <1>2 DEF Deleting, Moves
<1>4. Uploading'
  BY <1>2 DEF Uploading, Moves, TypeOK
<1>5. Shown' /\ AvatarShown' /\ DeletedIsGone'
  BY <1>2 DEF Shown, AvatarShown, DeletedIsGone, TypeOK
<1>6. Lost'
  BY <1>2, LostStep
<1>7. OrphansExplained'
  BY <1>2 DEF OrphansExplained, Explained, Moves, TypeOK
<1> QED BY <1>1, <1>3, <1>4, <1>5, <1>6, <1>7

\* The profile shows the uploader's own object; what it showed before becomes an
\* avatar that was replaced.
LEMMA AvatarStep ==
  ASSUME IInv, NEW r \in Requests, Moves(r), Control', UpdateAvatar(r)
  PROVE  IInv'
<1> USE DEF IInv, UpdateAvatar
<1>1. call[r] \in Calls /\ User(r) \in Users
  BY CallFacts DEF Calls, User
<1>2. TypeOK'
  BY <1>1 DEF TypeOK, Moves
<1>3. /\ \A k \in Requests : /\ Op(k)' = Op(k) /\ User(k)' = User(k) /\ Target(k)' = Target(k)
                             /\ Entitled(k)' = Entitled(k)
      /\ pc'[r] = "done" /\ Op(r) = "avatar" /\ r \in objects
  BY DEF Moves, Op, User, Target, Entitled, Control, Uploading
<1>4. Deleting'
  BY <1>3 DEF Deleting, Moves
<1>5. Uploading'
  BY <1>3 DEF Uploading, Moves, TypeOK
<1>6. Shown' /\ AvatarShown' /\ DeletedIsGone'
  BY <1>1, <1>3, NoneAssumption DEF Shown, AvatarShown, DeletedIsGone, TypeOK
<1>7. Lost'
  BY <1>3, LostStep
<1>8. OrphansExplained'
  <2> SUFFICES ASSUME NEW k \in objects, k \notin rows, \A u \in Users : avatar'[u] # k,
                      pc'[k] \notin {"record", "update"}, result'[k] # "error"
               PROVE  Op(k) = "avatar" /\ \E q \in acted' \ {k} : Op(q) = "avatar" /\ User(q) = User(k)
    BY <1>2, <1>3 DEF OrphansExplained, Explained, TypeOK
  <2>1. k # r /\ pc[k] = pc'[k] /\ result[k] = result'[k]
    BY <1>1 DEF Moves, TypeOK
  <2>2. CASE \E u \in Users : avatar[u] = k
    <3>1. PICK u \in Users : avatar[u] = k
      BY <2>2
    <3>2. u = User(r)
      BY <1>1, <3>1 DEF TypeOK
    <3>3. Op(k) = "avatar" /\ User(k) = u
      BY <3>1, NoneAssumption DEF Shown, AvatarShown, TypeOK
    <3> QED BY <1>3, <2>1, <3>2, <3>3
  <2>3. CASE ~\E u \in Users : avatar[u] = k
    BY <2>1, <2>3 DEF OrphansExplained, Explained
  <2> QED BY <2>2, <2>3
<1> QED BY <1>2, <1>4, <1>5, <1>6, <1>7, <1>8

\* The object of a recorded attachment goes first.
LEMMA RemoveStep ==
  ASSUME IInv, NEW r \in Requests, Moves(r), Control', RemoveObject(r)
  PROVE  IInv'
<1> USE DEF IInv, RemoveObject
<1>1. TypeOK'
  BY DEF TypeOK, Moves
<1>2. /\ \A k \in Requests : /\ Op(k)' = Op(k) /\ User(k)' = User(k) /\ Target(k)' = Target(k)
                             /\ Entitled(k)' = Entitled(k)
      /\ pc'[r] \in {"delete", "done"} /\ Op(r) = "delete" /\ Op(Target(r)) = "attachment"
      /\ Target(r) \in recorded /\ Entitled(r) /\ pc[Target(r)] = "done"
  BY DEF Moves, Op, User, Target, Entitled, Control, Deleting, Uploading
<1>3. PICK t \in recorded : t = Target(r)
  BY <1>2
<1>3a. Deleted(t)'
  <2>1. Deletes(r, t)'
    BY <1>2, <1>3 DEF Deletes
  <2> QED BY <1>2, <1>3, <2>1 DEF Deleted, Entitled, TypeOK
<1>4. Deleting'
  BY <1>2 DEF Deleting, Moves
<1>5. Uploading'
  BY <1>2 DEF Uploading, Moves, TypeOK
<1>6. Shown' /\ AvatarShown' /\ DeletedIsGone'
  BY <1>2 DEF Shown, AvatarShown, DeletedIsGone, TypeOK
<1>7. Lost'
  BY <1>2, <1>3, <1>3a, LostStep
<1>8. OrphansExplained'
  BY <1>2 DEF OrphansExplained, Explained, Moves, TypeOK, Uploading
<1> QED BY <1>1, <1>4, <1>5, <1>6, <1>7, <1>8

\* Then the row, whose object is gone and stays gone.
LEMMA DeleteStep ==
  ASSUME IInv, NEW r \in Requests, Moves(r), Control', DeleteRow(r)
  PROVE  IInv'
<1> USE DEF IInv, DeleteRow
<1>1. TypeOK'
  BY DEF TypeOK, Moves
<1>2. /\ \A k \in Requests : /\ Op(k)' = Op(k) /\ User(k)' = User(k) /\ Target(k)' = Target(k)
                             /\ Entitled(k)' = Entitled(k)
      /\ pc'[r] = "done" /\ Op(r) = "delete" /\ Target(r) \notin objects
      /\ Target(r) \in recorded /\ Entitled(r)
  BY DEF Moves, Op, User, Target, Entitled, Control, Deleting
<1>3. PICK t \in recorded : t = Target(r)
  BY <1>2
<1>3a. Deleted(t)'
  <2>1. Deletes(r, t)'
    BY <1>2, <1>3 DEF Deletes
  <2> QED BY <1>2, <1>3, <2>1 DEF Deleted, Entitled, TypeOK
<1>4. Deleting'
  BY <1>2 DEF Deleting, Moves
<1>5. Uploading'
  BY <1>2 DEF Uploading, Moves, TypeOK
<1>6. Shown' /\ AvatarShown' /\ DeletedIsGone'
  BY <1>2 DEF Shown, AvatarShown, DeletedIsGone, TypeOK
<1>7. Lost'
  BY <1>2, <1>3, <1>3a, LostStep
<1>8. OrphansExplained'
  BY <1>2 DEF OrphansExplained, Explained, Moves, TypeOK, Uploading
<1> QED BY <1>1, <1>4, <1>5, <1>6, <1>7, <1>8

\* The rows of a deleted post are kept and name no post.
LEMMA DeletePostStep ==
  ASSUME IInv, NEW r \in Requests, Moves(r), Control', DeletePost(r)
  PROVE  IInv'
<1> USE DEF IInv, DeletePost
<1>1. TypeOK'
  <2>1. postOf' \in [Requests -> posts' \cup {None}]
    BY DEF TypeOK
  <2> QED BY <2>1 DEF TypeOK, Moves
<1>2. /\ \A k \in Requests : /\ Op(k)' = Op(k) /\ User(k)' = User(k) /\ Target(k)' = Target(k)
                             /\ Entitled(k)' = Entitled(k)
      /\ pc'[r] = "done" /\ Op(r) = "deletepost"
  BY DEF Moves, Op, User, Target, Entitled, Control
<1>3. Deleting'
  BY <1>2 DEF Deleting, Moves
<1>4. Uploading'
  BY <1>2 DEF Uploading, Moves, TypeOK
<1>5. Shown' /\ AvatarShown' /\ DeletedIsGone'
  BY <1>2 DEF Shown, AvatarShown, DeletedIsGone, TypeOK
<1>6. Lost'
  BY <1>2, LostStep
<1>7. OrphansExplained'
  BY <1>2 DEF OrphansExplained, Explained, Moves, TypeOK, Uploading
<1> QED BY <1>1, <1>3, <1>4, <1>5, <1>6, <1>7

LEMMA NextInv == IInv /\ [Next]_vars => IInv'
<1> SUFFICES ASSUME IInv, [Next]_vars PROVE IInv'
  OBVIOUS
<1>1. CASE Next
  <2>1. PICK r \in Requests : RequestNext(r)
    BY <1>1 DEF Next
  <2>2. Moves(r) /\ Control'
    BY <2>1, StepMoves
  <2>3. CASE Validate(r) \/ CheckPost(r) \/ GetAttachment(r) \/ ServeStat(r) \/ ServeCopy(r) \/ Fail(r)
    <3>1. UNCHANGED stores
      BY <2>3 DEF Validate, CheckPost, GetAttachment, ServeStat, ServeCopy, Fail
    <3> QED BY <2>2, <2>3, <3>1, QuietStep
  <2> QED BY <2>1, <2>2, <2>3, UploadStep, RecordStep, AvatarStep, RemoveStep, DeleteStep,
             DeletePostStep DEF RequestNext
<1>2. CASE UNCHANGED vars
  <2> USE <1>2 DEF vars, stores, IInv
  <2>1. TypeOK' /\ Control' /\ Deleting' /\ Uploading' /\ Shown'
    BY DEF TypeOK, Control, Deleting, Uploading, Shown, Entitled, Op, User, Target
  <2>2. Lost' /\ DeletedIsGone' /\ OrphansExplained' /\ AvatarShown'
    BY DEF Lost, Deleted, Deletes, DeletedIsGone, OrphansExplained, Explained, AvatarShown, Op, User, Target
  <2> QED BY <2>1, <2>2
<1> QED BY <1>1, <1>2

LEMMA Inductive == Spec => []IInv
  BY InitInv, NextInv, PTL DEF Spec

\* Every attachment row names an existing post or none, whatever is deleted
\* between the check of the post and the insert.
THEOREM MediaTypeCorrect == Spec => []TypeOK
<1>1. IInv => TypeOK
  BY DEF IInv
<1> QED BY <1>1, Inductive, PTL

\* No failure, however calls interleave, makes a recorded attachment lose its
\* file: only a delete by its owner or a moderator does, and only such a delete
\* cuts a download short.
THEOREM AttachmentsSafe == Spec => []LostOnlyByDelete
<1>1. IInv => LostOnlyByDelete
  BY DEF IInv, Lost, Deleted, LostOnlyByDelete
<1> QED BY <1>1, Inductive, PTL

\* DeleteAttachment removes the object before the row, so a row that is gone has
\* no object left behind and an interrupted delete can be repeated.
THEOREM DeletesComplete == Spec => []DeletedIsGone
<1>1. IInv => DeletedIsGone
  BY DEF IInv
<1> QED BY <1>1, Inductive, PTL

\* Objects that nothing refers to come from uploads under way, from uploads that
\* were answered with an error and from replaced avatars, and from nothing else.
THEOREM OrphansAccounted == Spec => []OrphansExplained
<1>1. IInv => OrphansExplained
  BY DEF IInv
<1> QED BY <1>1, Inductive, PTL

\* A profile never shows a missing avatar or somebody else's.
THEOREM AvatarsValid == Spec => []AvatarShown
<1>1. IInv => AvatarShown
  BY DEF IInv
<1> QED BY <1>1, Inductive, PTL
=============================================================================
