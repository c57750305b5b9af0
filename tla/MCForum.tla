------------------------------ MODULE MCForum ------------------------------
(***************************************************************************)
(* Small instances of the forum: one thread by u1 in group g1, with its    *)
(* first post p1 and a reply p2 by u2.                                     *)
(***************************************************************************)
EXTENDS Forum, TLC

CONSTANTS u1, u2, u3, g1, g2, g3, g4, n1, n2, n3, t1, t2, t3, t4, p1, p2, p3, p4, p5, r1, r2, r3

OneGroup  == {[id |-> g1, name |-> n1]}
OneThread == {[id |-> t1, group |-> g1, author |-> u1]}
TwoPosts  == <<[id |-> p1, thread |-> t1, author |-> u1],
               [id |-> p2, thread |-> t1, author |-> u2]>>

C(op, u, m, g, t, p, pa) ==
  [op |-> op, caller |-> u, mod |-> m, group |-> g, thread |-> t, post |-> p, patch |-> pa,
   name |-> None, parent |-> None]
Patch(title, pinned, locked) == [title |-> title, pinned |-> pinned, locked |-> locked]
NewThread(u) == C("newthread", u, FALSE, g1, None, None, None)
Reply(u)     == C("reply", u, FALSE, None, t1, None, None)
View(u)      == C("view", u, FALSE, None, t1, None, None)
Edit(u, p)   == C("edit", u, FALSE, None, None, p, None)
DelPost(u, m, p) == C("delpost", u, m, None, None, p, None)
DelThread(u, m)  == C("delthread", u, m, None, t1, None, None)
Set(u, m, pa)    == C("setthread", u, m, None, t1, None, pa)
Group(op, g, n, parent) ==
  [C(op, u3, TRUE, g, None, None, None) EXCEPT !.name = n, !.parent = parent]
DelGroup(u)      == C("delgroup", u, TRUE, g1, None, None, None)

Lock    == Patch(FALSE, None, TRUE)
Unlock  == Patch(FALSE, FALSE, FALSE)
Retitle == Patch(TRUE, TRUE, TRUE)

\* Replies, views, edits and deletions of posts by an author, another member
\* and the moderator u3.
PostCalls == {Reply(u1), Reply(u2), View(u2), Edit(u2, p2), Edit(u3, p2),
              DelPost(u2, FALSE, p2), DelPost(u1, FALSE, p2), DelPost(u3, TRUE, p1)}

\* Moderation, thread and group life cycle around replies.
ThreadCalls == {Reply(u2), NewThread(u2), Set(u3, TRUE, Lock), Set(u3, TRUE, Unlock),
                Set(u1, FALSE, Retitle), Set(u2, FALSE, Retitle),
                DelThread(u1, FALSE), DelThread(u2, FALSE), DelGroup(u3)}

\* The administrator u3 creates groups, one below g1, renames and moves them; the
\* first group created is g2.
GroupCalls == {Group("newgroup", None, n2, g1), Group("newgroup", None, n1, None),
               Group("setgroup", g1, n2, None), Group("setgroup", g1, n1, g2),
               Group("setgroup", g2, n3, None)}

AllCalls   == PostCalls \cup ThreadCalls \cup GroupCalls
CountCalls == {Reply(u1), DelPost(u2, FALSE, p2)}

MCSymmetry == Permutations(Requests)
=============================================================================
