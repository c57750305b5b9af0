------------------------------ MODULE MCMedia ------------------------------
(***************************************************************************)
(* Small instances of media uploads.                                       *)
(***************************************************************************)
EXTENDS Media, FiniteSets, TLC

CONSTANTS u1, u2, mod, p1, r1, r2, r3, r4

Call(op, u, post, target, size, image) ==
  [op |-> op, user |-> u, size |-> size, image |-> image, post |-> post, target |-> target]

\* Files on both sides of the limits; an avatar that is no image.
Uploads ==
  {Call("attachment", u1, p, None, MaxAttachmentSize, TRUE) : p \in Posts \cup {None}}
    \cup {Call("attachment", u1, None, None, s, TRUE) : s \in {0, MaxAttachmentSize + 1}}
    \cup {Call("avatar", u1, None, None, s, i) :
            s \in {0, MaxAvatarSize, MaxAvatarSize + 1}, i \in BOOLEAN}
    \cup {Call("avatar", u2, None, None, MaxAvatarSize, TRUE)}

\* The owner, a stranger and a moderator delete; anybody downloads.
Others ==
  {Call("delete", u, None, r1, 0, FALSE) : u \in {u1, u2, mod}}
    \cup {Call("serve", u2, None, r1, 0, FALSE), Call("deletepost", u1, p1, None, 0, FALSE)}

\* r1 uploads; the others do anything.
MCWorkloads == {f \in [Requests -> Uploads \cup Others] : f[r1] \in Uploads}
MCSymmetry == Permutations(Requests \ {r1})
=============================================================================
