------------------------------- MODULE Media -------------------------------
(***************************************************************************)
(* Avatars and attachments (services.MediaService behind handlers.Media):  *)
(* every operation touches the object store and then the database, with no *)
(* transaction around the two.                                             *)
(*                                                                         *)
(* A request runs one call of the object store or the database per step.   *)
(* Its context may be cancelled at any of them, so with Failures each may  *)
(* return an error, before or after it took effect, and end the request;   *)
(* a crash of the server looks the same to both stores.  An upload draws a *)
(* fresh uuid for its key, so an object and the row that names it are      *)
(* known by the request that stores them.                                  *)
(***************************************************************************)
EXTENDS Naturals

CONSTANTS Users, Moderators, Posts, Requests, None, Failures,
          MaxAvatarSize, MaxAttachmentSize,
          Workloads    \* the requests that run together

Calls == [op : {"attachment", "avatar", "delete", "serve", "deletepost"}, user : Users,
          size : Nat, image : BOOLEAN,        \* the uploaded file
          post : Posts \cup {None},           \* attachment: its post, if any
          target : Requests \cup {None}]      \* delete, serve: whose upload

ASSUME WorkloadsAssumption == Workloads \subseteq [Requests -> Calls]
ASSUME FailuresAssumption == Failures \in BOOLEAN
ASSUME SizesAssumption == MaxAvatarSize \in Nat /\ MaxAttachmentSize \in Nat
ASSUME ModeratorsAssumption == Moderators \subseteq Users
ASSUME NoneAssumption == None \notin Requests

VARIABLES
  objects,   \* the keys in the bucket
  rows,      \* attachments: the rows
  postOf,    \* attachments.post_id
  avatar,    \* users.avatar_url
  posts,     \* the posts that exist
  call, pc, result,
  recorded,  \* history: the rows there have ever been
  acted      \* history: deletes that reached the stores, avatars put in a profile

stores == <<objects, rows, postOf, avatar, posts, recorded, acted>>
vars   == <<stores, call, pc, result>>

Op(r)     == call[r].op
User(r)   == call[r].user
Target(r) == call[r].target

Goto(r, next) == pc' = [pc EXCEPT ![r] = next] /\ result' = result
Answer(r, res) == /\ pc' = [pc EXCEPT ![r] = "done"]
                  /\ result' = [result EXCEPT ![r] = res]
\* The call took effect; it may still report an error.
Proceed(r, next) == Goto(r, next) \/ (Failures /\ Answer(r, "error"))
Finish(r) == Answer(r, "ok") \/ (Failures /\ Answer(r, "error"))

MutUploadBeforeCheck == [validate |-> "upload", check |-> "record", upload |-> "check"]
\* What follows each step of UploadAttachment.
AttachmentNext == [validate |-> "check", check |-> "upload", upload |-> "record"]
MutAvatarUrlFirst == [validate |-> "update", upload |-> "done", update |-> "upload"]
\* What follows each step of UploadAvatar.
AvatarNext == [validate |-> "upload", upload |-> "update", update |-> "done"]
MutRowFirst == [get |-> "delete", delete |-> "remove", remove |-> "done"]
\* What follows each step of DeleteAttachment.
DeleteNext == [get |-> "remove", remove |-> "delete", delete |-> "done"]

After(r, step) == CASE Op(r) = "attachment" -> AttachmentNext[step]
                    [] Op(r) = "avatar"     -> AvatarNext[step]
                    [] Op(r) = "delete"     -> DeleteNext[step]
Continue(r, step) == IF After(r, step) = "done" THEN Finish(r) ELSE Proceed(r, After(r, step))

FirstStep == [attachment |-> "validate", avatar |-> "validate", delete |-> "get",
              serve |-> "stat", deletepost |-> "deletepost"]

Init ==
  /\ call \in Workloads
  /\ objects = {} /\ rows = {} /\ recorded = {} /\ acted = {} /\ posts = Posts
  /\ postOf = [r \in Requests |-> None] /\ avatar = [u \in Users |-> None]
  /\ pc = [r \in Requests |-> FirstStep[Op(r)]] /\ result = [r \in Requests |-> "none"]

-----------------------------------------------------------------------------
(* UploadAttachment and UploadAvatar. *)

\* The checks that need no store, in their order.
Verdict(r) ==
  LET limit == IF Op(r) = "avatar" THEN MaxAvatarSize ELSE MaxAttachmentSize IN
  IF call[r].size = 0 THEN "invalid"
  ELSE IF call[r].size > limit THEN "too_large"
  ELSE IF Op(r) = "avatar" /\ ~call[r].image THEN "unsupported" ELSE "ok"

Validate(r) ==
  /\ pc[r] = "validate"
  /\ IF Verdict(r) = "ok" THEN Goto(r, After(r, "validate")) ELSE Answer(r, Verdict(r))
  /\ UNCHANGED <<stores, call>>

PostExists(r) == call[r].post \in posts \cup {None}

CheckPost(r) ==
  /\ pc[r] = "check"
  /\ IF PostExists(r) THEN Goto(r, After(r, "check")) ELSE Answer(r, "post_not_found")
  /\ UNCHANGED <<stores, call>>

\* S3.Upload.
Upload(r) ==
  /\ pc[r] = "upload"
  /\ objects' = objects \cup {r}
  /\ Continue(r, "upload")
  /\ UNCHANGED <<rows, postOf, avatar, posts, recorded, acted, call>>

MutNoForeignKey(r) == TRUE
\* The foreign key of post_id: the post may be gone since it was checked.
References(r) == PostExists(r)

\* AttachmentStore.Create; a violated foreign key is an internal error.
Record(r) ==
  /\ pc[r] = "record"
  /\ IF References(r)
       THEN /\ rows' = rows \cup {r} /\ recorded' = recorded \cup {r}
            /\ postOf' = [postOf EXCEPT ![r] = call[r].post]
            /\ Finish(r)
       ELSE UNCHANGED <<rows, recorded, postOf>> /\ Answer(r, "error")
  /\ UNCHANGED <<objects, avatar, posts, acted, call>>

\* UserStore.UpdateAvatar; the object of the previous avatar stays.
UpdateAvatar(r) ==
  /\ pc[r] = "update"
  /\ avatar' = [avatar EXCEPT ![User(r)] = r] /\ acted' = acted \cup {r}
  /\ Continue(r, "update")
  /\ UNCHANGED <<objects, rows, postOf, posts, recorded, call>>

-----------------------------------------------------------------------------
(* DeleteAttachment, the posts of the forum, and Serve. *)

MutAnyCaller(r) == TRUE
Entitled(r) == User(r) = User(Target(r)) \/ User(r) \in Moderators

GetAttachment(r) ==
  /\ pc[r] = "get"
  /\ \/ Target(r) \notin rows /\ Answer(r, "not_found")
     \/ Target(r) \in rows /\ ~Entitled(r) /\ Answer(r, "forbidden")
     \/ Target(r) \in rows /\ Entitled(r) /\ Goto(r, DeleteNext.get)
  /\ UNCHANGED <<stores, call>>

\* S3.Remove: a missing object is no error.
RemoveObject(r) ==
  /\ pc[r] = "remove"
  /\ objects' = objects \ {Target(r)} /\ acted' = acted \cup {r}
  /\ Continue(r, "remove")
  /\ UNCHANGED <<rows, postOf, avatar, posts, recorded, call>>

\* AttachmentStore.Delete: no row is store.ErrNotFound, answered with 500.
DeleteRow(r) ==
  /\ pc[r] = "delete"
  /\ rows' = rows \ {Target(r)} /\ acted' = acted \cup {r}
  /\ postOf' = [postOf EXCEPT ![Target(r)] = None]
  /\ IF Target(r) \in rows THEN Continue(r, "delete") ELSE Answer(r, "error")
  /\ UNCHANGED <<objects, avatar, posts, recorded, call>>

\* The forum deletes a post: ON DELETE SET NULL.
DeletePost(r) ==
  /\ pc[r] = "deletepost"
  /\ posts' = posts \ {call[r].post}
  /\ postOf' = [k \in Requests |-> IF postOf[k] = call[r].post THEN None ELSE postOf[k]]
  /\ Finish(r)
  /\ UNCHANGED <<objects, rows, avatar, recorded, acted, call>>

\* Open only prepares the stream; Stat is the first to ask for the object.
Stat(r) == Target(r) \in objects

ServeStat(r) ==
  /\ pc[r] = "stat"
  /\ IF Stat(r) THEN Goto(r, "copy") ELSE Answer(r, "not_found")
  /\ UNCHANGED <<stores, call>>

\* The headers are out: what fails now cuts the body short.
ServeCopy(r) ==
  /\ pc[r] = "copy"
  /\ Answer(r, IF Target(r) \in objects THEN "ok" ELSE "truncated")
  /\ UNCHANGED <<stores, call>>

\* A call fails without effect.  Serve takes any error for a missing file.
Fail(r) ==
  /\ Failures /\ pc[r] \notin {"validate", "done"}
  /\ Answer(r, CASE pc[r] = "stat" -> "not_found" [] pc[r] = "copy" -> "broken"
                 [] OTHER -> "error")
  /\ UNCHANGED <<stores, call>>

-----------------------------------------------------------------------------
RequestNext(r) ==
  \/ Validate(r) \/ CheckPost(r) \/ Upload(r) \/ Record(r) \/ UpdateAvatar(r)
  \/ GetAttachment(r) \/ RemoveObject(r) \/ DeleteRow(r) \/ DeletePost(r)
  \/ ServeStat(r) \/ ServeCopy(r) \/ Fail(r)

Next == \E r \in Requests : RequestNext(r)

Spec == Init /\ [][Next]_vars

-----------------------------------------------------------------------------
(* Properties. *)

PcValues == {"validate", "check", "upload", "record", "update", "get", "remove", "delete",
             "deletepost", "stat", "copy", "done"}
Results == {"none", "ok", "error", "invalid", "too_large", "unsupported", "post_not_found",
            "not_found", "forbidden", "truncated", "broken"}

\* The stores have their types, and every row names a post that exists.
TypeOK ==
  /\ objects \subseteq Requests /\ rows \subseteq recorded /\ recorded \subseteq Requests /\ acted \subseteq Requests
  /\ posts \subseteq Posts /\ postOf \in [Requests -> posts \cup {None}]
  /\ avatar \in [Users -> Requests \cup {None}]
  /\ call \in Workloads /\ pc \in [Requests -> PcValues] /\ result \in [Requests -> Results]

\* A delete that got past its checks and called the stores.
Deletes(d, k) == Op(d) = "delete" /\ Target(d) = k /\ d \in acted

\* An attachment that was recorded loses its object or its row only to a delete
\* by its owner or a moderator: no failure and no other upload, delete or avatar
\* ever leaves a row whose file is missing.  A download that announced a file is
\* cut short only by such a delete.
LostOnlyByDelete ==
  LET Deleted(k) ==
        \E d \in Requests : Deletes(d, k) /\ User(d) \in Moderators \cup {User(k)}
  IN /\ \A k \in recorded : k \notin rows \/ k \notin objects => Deleted(k)
     /\ \A r \in Requests : result[r] = "truncated" => Deleted(Target(r))

\* A deleted attachment is gone from the bucket as well: a delete interrupted
\* anywhere leaves the row, by which it can be repeated.
DeletedIsGone == \A k \in recorded \ rows : k \notin objects

Explained(k) ==
  \/ k \in rows
  \/ \E u \in Users : avatar[u] = k
  \/ pc[k] \in {"record", "update"} \/ result[k] = "error"
  \/ Op(k) = "avatar" /\ \E q \in acted \ {k} : Op(q) = "avatar" /\ User(q) = User(k)

\* An object nothing refers to is an upload under way, one that was answered with
\* a server error, or an avatar that another upload of its user replaced: a
\* refused upload stores nothing.
OrphansExplained == \A k \in objects : Explained(k)

\* The avatar a profile shows is in the bucket and was uploaded by its user.
AvatarShown ==
  \A u \in Users : avatar[u] # None => avatar[u] \in objects /\ User(avatar[u]) = u
=============================================================================
