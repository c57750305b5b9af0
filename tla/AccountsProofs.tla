--------------------------- MODULE AccountsProofs ---------------------------
(***************************************************************************)
(* The tables of accounts stay consistent, and replacing roles stays       *)
(* atomic, for any number of names and concurrent requests, with and       *)
(* without failing statements.                                             *)
(***************************************************************************)
EXTENDS Accounts, TLAPS

InTx(r) == pc[r] \in {"delete", "insert", "commit"}
Creates(r) == Op(r) \in {"register", "setup"}

\* The rows an update inserts.
RowsBy(r) == {Row(User(r), role, r) : role \in call[r].roles}

\* A request is only ever at a statement of its own service, and has an answer
\* only when it is done.
Control ==
  \A r \in Requests :
    /\ pc[r] \in {"check", "admin", "installed"} => Op(r) = "setup"
    /\ pc[r] \in {"create", "member"} => Creates(r)
    /\ pc[r] = "name" => Op(r) \in {"setup", "settings"}
    /\ pc[r] \in {"status", "roles", "read"} \/ InTx(r) => Op(r) = "update"
    /\ InTx(r) => /\ call[r].roles # None /\ call[r].roles # {}
                  /\ call[r].roles \subseteq Roles
    /\ result[r] # "none" => pc[r] = "done"

\* What an open transaction holds: rows of its own user, part of its snapshot,
\* which no other transaction takes away and whose replacements fit the keys.
Transaction(r) ==
  /\ ~InTx(r) => snap[r] = {}
  /\ pc[r] \notin {"insert", "commit"} => del[r] = {}
  /\ pc[r] # "commit" => ins[r] = {}
  /\ pc[r] = "commit" => ins[r] = RowsBy(r)
  /\ \A w \in snap[r] : w.user = User(r)
  /\ del[r] \subseteq snap[r] \cap rows
  /\ pc[r] = "commit" =>
       /\ User(r) \in users
       /\ \A w \in rows \ del[r] : w.user = User(r) => w.role \notin call[r].roles
Transactions == \A r \in Requests : Transaction(r)

\* Two open transactions hold different rows and different keys.
Exclusive ==
  \A r, q \in Requests : r # q =>
    /\ del[r] \cap del[q] = {}
    /\ pc[r] = "commit" /\ pc[q] = "commit" /\ User(r) = User(q) =>
         call[r].roles \cap call[q].roles = {}

\* A set of rows contains all the rows an update wrote, or none of them.
Whole(S, r) == RowsBy(r) \subseteq S \/ \A w \in S : w.by # r

\* Rows by an update are its own; they appear with its commit and go together,
\* and no snapshot or DELETE ever takes some of them only.
Written ==
  \A r \in Requests : Op(r) = "update" =>
    /\ \A w \in rows : w.by = r =>
         /\ call[r].roles # None /\ w \in RowsBy(r)
         /\ pc[r] \in {"read", "done"} /\ result[r] # "invalid"
    /\ call[r].roles # None =>
         /\ Whole(rows, r)
         /\ \A q \in Requests : Whole(snap[q], r) /\ Whole(del[q], r)

\* The requests that created their user and have not failed.
Holder(r) ==
  /\ Creates(r)
  /\ pc[r] \in {"member", "admin", "installed", "name"} \/ result[r] = "ok"

Granted(r) ==
  CASE pc[r] = "member" -> {}
    [] pc[r] = "admin" -> {"member"}
    [] OTHER -> IF Op(r) = "setup" THEN {"member", "admin"} ELSE {"member"}

\* A name has one creator, whose grants are the user's roles until an
\* administrator touches it.
Holders ==
  /\ \A r \in Requests : Holder(r) =>
       /\ User(r) \in users
       /\ ~Updated(User(r)) =>
            RowsOf(User(r)) = {Row(User(r), role, r) : role \in Granted(r)}
  /\ \A r, q \in Requests : Holder(r) /\ Holder(q) /\ User(r) = User(q) => r = q

\* Setup marks the forum installed only after it has granted the admin role.
AdminFirst ==
  /\ installed => adminSeen
  /\ \A r \in Requests : pc[r] = "installed" => adminSeen

IInv == TypeOK /\ Control /\ Transactions /\ Exclusive /\ Written /\ Holders /\ AdminFirst

-----------------------------------------------------------------------------
\* A request carries a call of the environment, and names a user unless it is
\* about the settings.
LEMMA CallFacts ==
  ASSUME Types, NEW r \in Requests
  PROVE  /\ call[r] \in Calls /\ Op(r) \in Ops
         /\ Op(r) # "settings" => User(r) \in Names
  BY CallSetAssumption DEF Types, Calls, Op, User

LEMMA InitInv == Init => IInv
<1> SUFFICES ASSUME Init PROVE IInv
  OBVIOUS
<1> USE DEF Init
<1>1. TypeOK
  BY FailuresAssumption DEF TypeOK, Types, PrimaryKey, ForeignKey, PcValues, Statuses, Results
<1>2. Control /\ AdminFirst /\ Holders
  BY DEF Control, AdminFirst, Holders, Holder, InTx
<1>3. Transactions /\ Exclusive
  BY DEF Transactions, Transaction, Exclusive, InTx
<1>4. Written
  BY DEF Written, Whole
<1> QED BY <1>1, <1>2, <1>3, <1>4 DEF IInv

\* The request r took a step that left the user and role tables alone and has no
\* transaction open.
Outside(r) ==
  /\ UNCHANGED <<users, rows, call>>
  /\ \A q \in Requests \ {r} :
       /\ pc'[q] = pc[q] /\ result'[q] = result[q]
       /\ snap'[q] = snap[q] /\ del'[q] = del[q] /\ ins'[q] = ins[q]
  /\ pc'[r] \notin {"idle", "delete", "insert", "commit"}
  /\ snap'[r] = {} /\ del'[r] = {} /\ ins'[r] = {}

\* Such a step keeps the invariant if it invents no creator of a user and does
\* not refuse an update that wrote its roles.
LEMMA OutsideStep ==
  ASSUME IInv, NEW r \in Requests, Outside(r), Types', Control', AdminFirst',
         Holder(r)' => Holder(r) /\ Granted(r)' = Granted(r),
         (Op(r) = "update" /\ \E w \in rows : w.by = r) =>
           pc'[r] \in {"read", "done"} /\ result'[r] # "invalid"
  PROVE  IInv'
<1> USE DEF IInv
<1>1. TypeOK'
  BY DEF TypeOK, PrimaryKey, ForeignKey, Outside
<1>2. Transactions'
  <2> SUFFICES ASSUME NEW q \in Requests PROVE Transaction(q)'
    BY DEF Transactions
  <2>1. RowsBy(q)' = RowsBy(q) /\ User(q)' = User(q)
    BY DEF Outside, RowsBy, Row, User
  <2>2. CASE q = r
    BY <2>1, <2>2 DEF Transaction, Outside, InTx
  <2>3. CASE q # r
    <3>1. Transaction(q)
      BY DEF Transactions
    <3> QED BY <2>1, <2>3, <3>1 DEF Transaction, Outside, InTx
  <2> QED BY <2>2, <2>3
<1>3. Exclusive'
  BY DEF Exclusive, Outside, User
<1>4. Written'
  <2> SUFFICES ASSUME NEW p \in Requests, Op(p)' = "update"
               PROVE  /\ \A w \in rows' : w.by = p =>
                           /\ call'[p].roles # None /\ w \in RowsBy(p)'
                           /\ pc'[p] \in {"read", "done"} /\ result'[p] # "invalid"
                      /\ call'[p].roles # None =>
                           Whole(rows, p)' /\ \A q \in Requests : Whole(snap[q], p)' /\ Whole(del[q], p)'
    BY DEF Written
  <2>1. Op(p) = "update" /\ RowsBy(p)' = RowsBy(p)
    BY DEF Outside, RowsBy, Row, Op, User
  <2>2. \A w \in rows : w.by = p => call[p].roles # None /\ w \in RowsBy(p)
    BY <2>1 DEF Written
  <2>3. \A w \in rows : w.by = p => pc'[p] \in {"read", "done"} /\ result'[p] # "invalid"
    BY <2>1 DEF Written, Outside
  <2>4. call[p].roles # None => Whole(rows, p)' /\ \A q \in Requests : Whole(snap[q], p)' /\ Whole(del[q], p)'
    BY <2>1 DEF Written, Whole, Outside
  <2> QED BY <2>1, <2>2, <2>3, <2>4 DEF Outside
<1>5. Holders'
  <2>1. \A u : Updated(u) => Updated(u)'
    BY DEF Updated, Outside, Op, User
  <2>2. \A q \in Requests : Holder(q)' => /\ Holder(q) /\ Granted(q)' = Granted(q)
                                          /\ User(q)' = User(q)
    BY DEF Holder, Creates, Granted, Outside, Op, User
  <2>3. \A u : RowsOf(u)' = RowsOf(u)
    BY DEF RowsOf, Outside
  <2> QED BY <2>1, <2>2, <2>3 DEF Holders, Outside, Row
<1> QED BY <1>1, <1>2, <1>3, <1>4, <1>5

\* A request arrives, answers, fails or writes outside the user and role tables.
LEMMA QuietStep ==
  ASSUME IInv, NEW r \in Requests,
         \/ Start(r) \/ SetupCheck(r) \/ MarkInstalled(r) \/ SetForumName(r)
         \/ UpdateStatus(r) \/ ReadBack(r) \/ Fail(r)
  PROVE  IInv'
<1> USE DEF IInv, db, tx, Goto, Answer
<1>1. Types /\ call[r] \in Calls /\ Op(r) \in Ops /\ (Op(r) # "settings" => User(r) \in Names)
  BY CallFacts DEF TypeOK
<1>2. \A q \in Requests : Transaction(q)
  BY DEF Transactions
<1>3. CASE Start(r)
  <2> USE <1>3 DEF Start
  <2>1. Outside(r)
    BY <1>1, <1>2 DEF Outside, Types, Transaction, InTx, FirstStep, Ops
  <2>2. Types' /\ Control' /\ AdminFirst'
    BY <1>1 DEF Types, PcValues, Control, InTx, Creates, AdminFirst, FirstStep, Ops, Op
  <2>3. Holder(r)' => Holder(r) /\ Granted(r)' = Granted(r)
    BY <1>1, <2>2 DEF Holder, Creates, Types, FirstStep, Ops, Op, Control
  <2>4. (Op(r) = "update" /\ \E w \in rows : w.by = r) => FALSE
    BY DEF Written
  <2> QED BY <2>1, <2>2, <2>3, <2>4, OutsideStep
<1>4. CASE SetupCheck(r)
  <2> USE <1>4 DEF SetupCheck
  <2>1. Outside(r)
    BY <1>1, <1>2 DEF Outside, Types, Transaction, InTx
  <2>2. Types' /\ Control' /\ AdminFirst'
    BY <1>1 DEF Types, PcValues, Results, Control, InTx, Creates, AdminFirst, Op
  <2>3. ~Holder(r)' /\ Op(r) # "update"
    BY <1>1 DEF Holder, Types, Control
  <2> QED BY <2>1, <2>2, <2>3, OutsideStep
<1>5. CASE MarkInstalled(r)
  <2> USE <1>5 DEF MarkInstalled
  <2>1. Outside(r)
    BY <1>1, <1>2 DEF Outside, Types, Transaction, InTx, SetupNext
  <2>2. Types' /\ Control' /\ AdminFirst'
    BY <1>1 DEF Types, PcValues, Control, InTx, Creates, AdminFirst, Op, SetupNext
  <2>3. Holder(r) /\ Granted(r)' = Granted(r) /\ Op(r) # "update"
    BY <1>1 DEF Holder, Creates, Granted, Types, Control, SetupNext, Op
  <2> QED BY <2>1, <2>2, <2>3, OutsideStep
<1>6. CASE SetForumName(r)
  <2> USE <1>6 DEF SetForumName
  <2>1. Outside(r)
    BY <1>1, <1>2 DEF Outside, Types, Transaction, InTx
  <2>2. Types' /\ Control' /\ AdminFirst'
    BY <1>1 DEF Types, PcValues, Results, Control, InTx, Creates, AdminFirst, Op
  <2>3. Op(r) # "update" /\ (Holder(r)' => Holder(r) /\ Granted(r)' = Granted(r))
    BY <1>1 DEF Holder, Creates, Granted, Types, Control, Op
  <2> QED BY <2>1, <2>2, <2>3, OutsideStep
<1>7. CASE UpdateStatus(r)
  <2> USE <1>7 DEF UpdateStatus
  <2>1. Outside(r)
    BY <1>1, <1>2 DEF Outside, Types, Transaction, InTx
  <2>2. Op(r) = "update" /\ ~Holder(r)'
    BY DEF Control, Holder, Creates, Op
  <2>3. Types' /\ Control' /\ AdminFirst'
    BY <1>1, <2>2 DEF Types, PcValues, Results, Control, InTx, Creates, AdminFirst, Op
  <2>4. (Op(r) = "update" /\ \E w \in rows : w.by = r) => FALSE
    BY DEF Written
  <2> QED BY <2>1, <2>2, <2>3, <2>4, OutsideStep
<1>8. CASE ReadBack(r)
  <2> USE <1>8 DEF ReadBack
  <2>1. Outside(r)
    BY <1>1, <1>2 DEF Outside, Types, Transaction, InTx
  <2>2. Op(r) = "update" /\ ~Holder(r)'
    BY DEF Control, Holder, Creates, Op
  <2>3. Types' /\ Control' /\ AdminFirst'
    BY <1>1 DEF Types, PcValues, Results, Control, InTx, Creates, AdminFirst, Op
  <2>4. pc'[r] = "done" /\ result'[r] # "invalid"
    BY <1>1 DEF Types
  <2> QED BY <2>1, <2>2, <2>3, <2>4, OutsideStep
<1>9. CASE Fail(r)
  <2> USE <1>9 DEF Fail, Rollback
  <2>1. Outside(r)
    BY <1>1, <1>2 DEF Outside, Types
  <2>2. Types' /\ Control' /\ AdminFirst'
    BY <1>1 DEF Types, PcValues, Results, Control, InTx, Creates, AdminFirst, Op
  <2>3. ~Holder(r)' /\ pc'[r] = "done" /\ result'[r] # "invalid"
    BY <1>1 DEF Holder, Types
  <2> QED BY <2>1, <2>2, <2>3, OutsideStep
<1> QED BY <1>3, <1>4, <1>5, <1>6, <1>7, <1>8, <1>9

\* A new user has no rows yet, and its creator is the only one: whoever created
\* a user before left its name in the table.
LEMMA CreateStep ==
  ASSUME IInv, NEW r \in Requests, CreateUser(r)
  PROVE  IInv'
<1> USE DEF IInv, CreateUser, tx, Goto, Answer
<1>1. Types /\ call[r] \in Calls /\ Creates(r) /\ User(r) \in Names
  BY CallFacts DEF TypeOK, Control, Creates, Ops
<1>2. Transactions /\ \A q \in Requests : Transaction(q)
  BY DEF Transactions
<1>3. Types' /\ Control' /\ AdminFirst'
  BY <1>1 DEF Types, PcValues, Results, Control, InTx, Creates, AdminFirst, Op
<1>4. CASE User(r) \in users
  <2>1. Outside(r)
    BY <1>1, <1>2, <1>4 DEF Outside, Types, Transaction, InTx
  <2>2. ~Holder(r)' /\ Op(r) # "update"
    BY <1>1, <1>4 DEF Holder, Types, Creates
  <2> QED BY <1>3, <2>1, <2>2, OutsideStep
<1>5. CASE User(r) \notin users
  <2> USE <1>5
  <2>1. TypeOK'
    BY <1>3 DEF TypeOK, PrimaryKey, ForeignKey
  <2>2. Transactions'
    BY <1>1, <1>2 DEF Transactions, Transaction, InTx, Types, RowsBy, Row, User
  <2>3. Exclusive'
    BY <1>1 DEF Exclusive, Types, User
  <2>4. Written'
    BY <1>1 DEF Written, Whole, RowsBy, Row, User, Op, Creates, Types
  <2>5. Holders'
    <3>1. \A u : Updated(u)' <=> Updated(u)
      BY <1>1 DEF Updated, Types, Op, User
    <3>2. \A q \in Requests \ {r} : /\ Holder(q)' <=> Holder(q)
                                    /\ Granted(q)' = Granted(q)
      BY <1>1 DEF Holder, Creates, Granted, Types, Op
    <3>3. Granted(r)' = {} /\ RowsOf(User(r))' = {}
      BY <1>1 DEF Granted, Types, RowsOf, TypeOK, ForeignKey, User
    <3>4. \A q \in Requests : User(q)' = User(q) /\ RowsOf(User(q))' = RowsOf(User(q))
      BY DEF User, RowsOf
    <3>5. \A q \in Requests \ {r} : Holder(q) => User(q) # User(r)
      BY DEF Holders
    <3>6. User(r) \in users' /\ users \subseteq users'
      OBVIOUS
    <3> QED BY <3>1, <3>2, <3>3, <3>4, <3>5, <3>6 DEF Holders, Row
  <2> QED BY <1>3, <2>1, <2>2, <2>3, <2>4, <2>5
<1> QED BY <1>4, <1>5

\* An INSERT of one role fits the keys: no open transaction holds the key, so
\* none of those about to commit will collide with it.
LEMMA AssignStep ==
  ASSUME IInv, NEW r \in Requests, AddMemberRole(r) \/ AddAdminRole(r)
  PROVE  IInv'
<1> USE DEF IInv, tx, Goto, Answer
<1>1. Types /\ call[r] \in Calls /\ Creates(r) /\ User(r) \in Names /\ Holder(r) /\ ~InTx(r)
  <2>1. Types /\ Creates(r) /\ ~InTx(r)
    BY DEF TypeOK, Control, AddMemberRole, AddAdminRole, Creates, InTx
  <2> QED BY <2>1, CallFacts DEF Creates, Ops, Holder, AddMemberRole, AddAdminRole
<1>2. PICK role \in {"member", "admin"}, next \in {"done", "admin", "installed"} :
        /\ AssignRole(r, role, next)
        /\ pc[r] = role
        /\ next = "done" => role = "member" /\ Op(r) = "register"
        /\ next = "admin" => role = "member" /\ Op(r) = "setup"
        /\ next = "installed" => role = "admin" /\ Op(r) = "setup"
  BY <1>1 DEF AddMemberRole, AddAdminRole, SetupNext, Control, Creates
<1> USE <1>2 DEF AssignRole
<1>3. Transactions /\ \A q \in Requests : Transaction(q)
  BY DEF Transactions
<1>4. Types'
  BY <1>1 DEF Types, PcValues, Results, Rows, Row, Roles
<1>5. Control' /\ AdminFirst'
  <2>1. /\ \A q \in Requests \ {r} : pc'[q] = pc[q] /\ result'[q] = result[q]
        /\ pc'[r] \in {"done", next} /\ (result'[r] # "none" => pc'[r] = "done")
        /\ call' = call /\ installed' = installed /\ adminSeen' = (adminSeen \/ role = "admin")
    BY <1>1 DEF Types, Control
  <2>2. Control'
    BY <1>1, <2>1 DEF Control, InTx, Creates, Op
  <2>3. (adminSeen => adminSeen') /\ (role = "admin" => adminSeen')
    BY <2>1, Zenon
  <2>4. pc'[r] = "installed" => role = "admin"
    BY <2>1
  <2>5. AdminFirst'
    BY <2>1, <2>3, <2>4 DEF AdminFirst
  <2> QED BY <2>2, <2>5
<1>6. CASE HasRole(User(r), role)
  <2>1. Outside(r)
    BY <1>1, <1>3, <1>6 DEF Outside, Types, Transaction, InTx
  <2>2. ~Holder(r)' /\ Op(r) # "update"
    BY <1>1, <1>6 DEF Holder, Types, Creates
  <2> QED BY <1>4, <1>5, <2>1, <2>2, OutsideStep
<1>7. CASE ~HasRole(User(r), role)
  <2> DEFINE new == Row(User(r), role, r)
  <2>1. /\ rows' = rows \cup {new} /\ UNCHANGED <<users, call, snap, del, ins>>
        /\ new.user = User(r) /\ new.role = role /\ new.by = r
        /\ \A w \in rows : w.user = User(r) => w.role # role
    BY <1>7 DEF Row, HasRole
  <2>2. /\ \A q \in Requests \ {r} : pc'[q] = pc[q] /\ result'[q] = result[q]
        /\ pc'[r] \in {"done", "admin", "installed"}
    BY <1>1, <1>7 DEF Types
  <2> HIDE DEF new
  <2>3. TypeOK'
    BY <1>1, <1>4, <2>1 DEF TypeOK, PrimaryKey, ForeignKey, Holders
  <2>4. Transactions'
    <3> SUFFICES ASSUME NEW q \in Requests PROVE Transaction(q)'
      BY DEF Transactions
    <3>1. RowsBy(q)' = RowsBy(q) /\ User(q)' = User(q) /\ (InTx(q)' <=> InTx(q)) /\ q = r => ~InTx(q)
      BY <1>1, <2>1, <2>2 DEF RowsBy, Row, User, InTx
    <3>2. CASE q = r
      BY <1>1, <1>3, <2>1, <2>2, <3>2 DEF Transaction, InTx, User
    <3>3. CASE q # r
      <4>1. pc[q] = "commit" /\ User(q) = User(r) => role \notin call[q].roles
        <5> SUFFICES ASSUME pc[q] = "commit", User(q) = User(r), role \in call[q].roles
                     PROVE  Locked(r, User(r), role)
          OBVIOUS
        <5>1. Row(User(q), role, q) \in ins[q]
          BY <1>3 DEF Transaction, RowsBy
        <5> QED BY <3>3, <5>1 DEF Locked, Row
      <4>2. RowsBy(q)' = RowsBy(q) /\ User(q)' = User(q) /\ pc'[q] = pc[q]
        BY <2>1, <2>2, <3>3 DEF RowsBy, Row, User
      <4> QED BY <1>3, <2>1, <4>1, <4>2 DEF Transaction, InTx
    <3> QED BY <3>2, <3>3
  <2>5. Exclusive'
    BY <2>1, <2>2 DEF Exclusive, User
  <2>6. Written'
    <3>1. \A q \in Requests : Op(q)' = Op(q) /\ RowsBy(q)' = RowsBy(q)
      BY <2>1 DEF Op, RowsBy, Row, User
    <3>2. \A q \in Requests : Op(q) = "update" => q # r
      BY <1>1 DEF Creates
    <3> QED BY <2>1, <2>2, <3>1, <3>2 DEF Written, Whole
  <2>7. Holders'
    <3>1. \A u : Updated(u)' <=> Updated(u)
      BY <1>1, <2>1, <2>2 DEF Updated, Op, User
    <3>2. \A q \in Requests \ {r} : /\ Holder(q)' <=> Holder(q)
                                    /\ Granted(q)' = Granted(q)
      BY <2>1, <2>2 DEF Holder, Creates, Granted, Op
    <3>3. Granted(r)' = Granted(r) \cup {role}
      BY <1>1, <1>7 DEF Granted, Types, Op
    <3>4. \A q \in Requests : User(q)' = User(q)
      BY <2>1 DEF User
    <3>5. \A q \in Requests \ {r} : Holder(q) => User(q) # User(r)
      BY <1>1 DEF Holders
    <3>6. \A q \in Requests \ {r} : Holder(q) => RowsOf(User(q))' = RowsOf(User(q))
      BY <2>1, <3>4, <3>5 DEF RowsOf
    <3>7. RowsOf(User(r))' = RowsOf(User(r)) \cup {new}
      BY <2>1, <3>4 DEF RowsOf
    <3>8. ~Updated(User(r)) => RowsOf(User(r))' = {Row(User(r), ro, r) : ro \in Granted(r)'}
      BY <1>1, <3>3, <3>7 DEF Holders, new
    <3> QED BY <1>1, <2>1, <3>1, <3>2, <3>4, <3>5, <3>6, <3>8 DEF Holders, Row
  <2> QED BY <1>5, <2>3, <2>4, <2>5, <2>6, <2>7
<1> QED BY <1>6, <1>7

\* The request r, an update, took a step inside its transaction: the tables and
\* the other requests are as they were.
Inside(r) ==
  /\ UNCHANGED <<users, rows, call, installed, adminSeen, result>>
  /\ \A q \in Requests \ {r} :
       /\ pc'[q] = pc[q]
       /\ snap'[q] = snap[q] /\ del'[q] = del[q] /\ ins'[q] = ins[q]
  /\ pc[r] \notin {"idle", "done"} /\ pc'[r] \in {"delete", "insert", "commit"}
  /\ Op(r) = "update"

\* Such a step keeps what concerns the others, and must keep its own transaction
\* in order and apart from theirs.
LEMMA InsideStep ==
  ASSUME IInv, NEW r \in Requests, Inside(r), Types', Transaction(r)', Exclusive',
         call[r].roles # None /\ call[r].roles # {} /\ call[r].roles \subseteq Roles,
         pc[r] # "read",
         \A q \in Requests : Op(q) = "update" /\ call[q].roles # None =>
           Whole(snap'[r], q) /\ Whole(del'[r], q)
  PROVE  IInv'
<1> USE DEF IInv
<1>1. TypeOK'
  BY DEF TypeOK, PrimaryKey, ForeignKey, Inside
<1>2. Control' /\ AdminFirst'
  BY DEF Control, AdminFirst, Inside, InTx, Creates, Op
<1>3. Transactions'
  <2> SUFFICES ASSUME NEW q \in Requests \ {r} PROVE Transaction(q)'
    BY DEF Transactions
  <2>1. RowsBy(q)' = RowsBy(q) /\ User(q)' = User(q)
    BY DEF Inside, RowsBy, Row, User
  <2>2. Transaction(q)
    BY DEF Transactions
  <2> QED BY <2>1, <2>2 DEF Transaction, Inside, InTx
<1>4. Written'
  <2>1. \A q \in Requests : Op(q)' = Op(q) /\ RowsBy(q)' = RowsBy(q)
    BY DEF Inside, Op, RowsBy, Row, User
  <2>2. \A w \in rows : w.by # r
    BY DEF Written, Inside
  <2>3. \A q \in Requests : Op(q) = "update" =>
          \A w \in rows' : w.by = q =>
             /\ call'[q].roles # None /\ w \in RowsBy(q)'
             /\ pc'[q] \in {"read", "done"} /\ result'[q] # "invalid"
    BY <2>1, <2>2 DEF Written, Inside
  <2>4. \A q \in Requests : Op(q) = "update" /\ call'[q].roles # None =>
          Whole(rows, q)' /\ \A p \in Requests : Whole(snap[p], q)' /\ Whole(del[p], q)'
    BY <2>1 DEF Written, Whole, Inside
  <2> QED BY <2>1, <2>3, <2>4 DEF Written
<1>5. Holders'
  <2>1. \A u : Updated(u) => Updated(u)'
    BY DEF Updated, Inside, Op, User
  <2>2. \A q \in Requests : Holder(q)' => /\ Holder(q) /\ Granted(q)' = Granted(q)
                                          /\ User(q)' = User(q)
    BY DEF Holder, Creates, Granted, Inside, Op, User
  <2>3. \A u : RowsOf(u)' = RowsOf(u)
    BY DEF RowsOf, Inside
  <2> QED BY <2>1, <2>2, <2>3 DEF Holders, Inside, Row
<1> QED BY <1>1, <1>2, <1>3, <1>4, <1>5

\* The snapshot of the DELETE holds all rows another update wrote for the user,
\* or none: they were all in the table or all gone.
LEMMA BeginStep ==
  ASSUME IInv, NEW r \in Requests, RolesBegin(r)
  PROVE  IInv'
<1> USE DEF IInv, RolesBegin, db, Goto, Answer
<1>1. Types /\ call[r] \in Calls /\ Op(r) = "update" /\ User(r) \in Names
  BY CallFacts DEF TypeOK, Control
<1>2. Transaction(r)
  BY DEF Transactions
<1>3. CASE pc'[r] # "delete"
  <2>1. /\ snap' = snap /\ pc'[r] \in {"read", "done"} /\ UNCHANGED <<users, rows, call, del, ins>>
        /\ \A q \in Requests \ {r} : pc'[q] = pc[q] /\ result'[q] = result[q]
        /\ result'[r] \in {"none", "invalid"} /\ (result'[r] = "none" \/ pc'[r] = "done")
    BY <1>1, <1>3 DEF Types, Control
  <2>2. Outside(r)
    BY <1>2, <2>1 DEF Outside, Transaction, InTx
  <2>3. Types' /\ Control' /\ AdminFirst'
    <3>1. Types'
      BY <1>1, <2>1 DEF Types, PcValues, Results
    <3>2. Control' /\ AdminFirst'
      BY <1>1, <2>1 DEF Control, InTx, Creates, AdminFirst, Op
    <3> QED BY <3>1, <3>2
  <2>4. ~Holder(r)' /\ \A w \in rows : w.by # r
    BY <1>1, <2>1 DEF Holder, Creates, Op, Written
  <2> QED BY <2>2, <2>3, <2>4, OutsideStep
<1>4. CASE pc'[r] = "delete"
  <2>1. /\ call[r].roles # None /\ call[r].roles # {} /\ call[r].roles \subseteq Roles
        /\ snap' = [snap EXCEPT ![r] = RowsOf(User(r))]
        /\ pc' = [pc EXCEPT ![r] = "delete"] /\ result' = result
    BY <1>1, <1>4 DEF Types
  <2>2. Inside(r)
    BY <1>1, <2>1 DEF Inside, Types
  <2>3. Types'
    BY <1>1, <2>1 DEF Types, PcValues, RowsOf
  <2>4. Transaction(r)'
    BY <1>1, <1>2, <2>1 DEF Transaction, InTx, Types, RowsOf, User
  <2>5. Exclusive'
    BY <1>1, <2>1 DEF Exclusive, Types, User
  <2>6. ASSUME NEW q \in Requests, Op(q) = "update", call[q].roles # None
        PROVE  Whole(snap'[r], q) /\ Whole(del'[r], q)
    <3>1. Whole(rows, q) /\ \A w \in rows : w.by = q => w \in RowsBy(q)
      BY <2>6 DEF Written
    <3>2. snap'[r] = {w \in rows : w.user = User(r)}
      BY <1>1, <2>1 DEF Types, RowsOf
    <3>3. \A w \in RowsBy(q) : w.user = User(q)
      BY DEF RowsBy, Row
    <3>4. del'[r] = {}
      BY <1>2 DEF Transaction
    <3> QED BY <3>1, <3>2, <3>3, <3>4 DEF Whole
  <2> QED BY <2>1, <2>2, <2>3, <2>4, <2>5, <2>6, InsideStep
<1> QED BY <1>3, <1>4

\* The DELETE takes rows of its snapshot that no open transaction holds.
LEMMA DeleteStep ==
  ASSUME IInv, NEW r \in Requests, RolesDelete(r)
  PROVE  IInv'
<1> USE DEF IInv, RolesDelete, db, Goto
<1>1. /\ Types /\ call[r] \in Calls /\ Op(r) = "update"
      /\ call[r].roles # None /\ call[r].roles # {} /\ call[r].roles \subseteq Roles
  BY CallFacts DEF TypeOK, Control, InTx
<1>2. Transaction(r) /\ \A q \in Requests : Transaction(q)
  BY DEF Transactions
<1>3. Inside(r)
  BY <1>1 DEF Inside, Types
<1>4. Types'
  BY <1>1 DEF Types, PcValues
<1>5. Transaction(r)'
  BY <1>1, <1>2 DEF Transaction, InTx, Types, User
<1>6. Exclusive'
  BY <1>1 DEF Exclusive, Types, User
<1>7. \A q \in Requests : Op(q) = "update" /\ call[q].roles # None =>
           Whole(snap'[r], q) /\ Whole(del'[r], q)
  <2>1. del'[r] = snap[r] \cap rows
    BY <1>1 DEF Types
  <2> QED BY <2>1 DEF Written, Whole
<1> QED BY <1>1, <1>3, <1>4, <1>5, <1>6, <1>7, InsideStep

\* The INSERT waits until no open transaction holds one of its keys, and goes on
\* only if the rows it leaves in the table have other keys.
LEMMA InsertStep ==
  ASSUME IInv, NEW r \in Requests, RolesInsert(r)
  PROVE  IInv'
<1> USE DEF IInv, RolesInsert, db, Goto, Answer, Rollback
<1>1. /\ Types /\ call[r] \in Calls /\ Op(r) = "update" /\ User(r) \in Names
      /\ call[r].roles # None /\ call[r].roles # {} /\ call[r].roles \subseteq Roles
  BY CallFacts DEF TypeOK, Control, InTx
<1>2. Transaction(r) /\ \A q \in Requests : Transaction(q)
  BY DEF Transactions
<1>3. CASE User(r) \notin users \/ \E w \in rows \ del[r] : w.user = User(r) /\ w.role \in call[r].roles
  <2> USE <1>3
  <2>1. Outside(r)
    BY <1>1 DEF Outside, Types
  <2>2. Types'
    BY <1>1 DEF Types, PcValues, Results
  <2>3. Control' /\ AdminFirst'
    BY <1>1 DEF Types, Control, InTx, Creates, AdminFirst, Op
  <2>4. ~Holder(r)' /\ pc'[r] = "done" /\ result'[r] # "invalid"
    BY <1>1 DEF Holder, Types
  <2> QED BY <2>1, <2>2, <2>3, <2>4, OutsideStep
<1>4. CASE ~(User(r) \notin users \/ \E w \in rows \ del[r] : w.user = User(r) /\ w.role \in call[r].roles)
  <2>1. /\ ins' = [ins EXCEPT ![r] = RowsBy(r)] /\ UNCHANGED <<del, snap, result, call>>
        /\ pc' = [pc EXCEPT ![r] = "commit"]
        /\ User(r) \in users
        /\ \A w \in rows \ del[r] : w.user = User(r) => w.role \notin call[r].roles
    BY <1>4 DEF RowsBy
  <2>2. Inside(r)
    BY <1>1, <2>1 DEF Inside, Types
  <2>3. RowsBy(r) \subseteq Rows
    BY <1>1 DEF RowsBy, Row, Rows
  <2>4. Types'
    BY <1>1, <2>1, <2>3 DEF Types, PcValues
  <2>5. RowsBy(r)' = RowsBy(r) /\ User(r)' = User(r)
    BY <2>1 DEF RowsBy, Row, User
  <2>6. Transaction(r)'
    BY <1>1, <1>2, <2>1, <2>5 DEF Transaction, InTx, Types
  <2>7. ASSUME NEW q \in Requests \ {r}, pc[q] = "commit", User(q) = User(r)
        PROVE  call[r].roles \cap call[q].roles = {}
    <3> SUFFICES ASSUME NEW role \in call[r].roles, role \in call[q].roles PROVE FALSE
      OBVIOUS
    <3>1. Row(User(q), role, q) \in ins[q]
      BY <1>2, <2>7 DEF Transaction, RowsBy
    <3>2. Locked(r, User(r), role)
      BY <2>7, <3>1 DEF Locked, Row
    <3> QED BY <3>2
  <2>8. Exclusive'
    BY <1>1, <2>1, <2>7 DEF Exclusive, Types, User
  <2>9. \A q \in Requests : Op(q) = "update" /\ call[q].roles # None =>
           Whole(snap'[r], q) /\ Whole(del'[r], q)
    BY <2>1 DEF Written
  <2> QED BY <1>1, <2>2, <2>4, <2>6, <2>8, <2>9, InsideStep
<1> QED BY <1>3, <1>4

\* The commit swaps the user's old rows for the new ones.  The old rows were
\* held by this transaction alone, and the new ones have keys of their own.
LEMMA CommitStep ==
  ASSUME IInv, NEW r \in Requests, RolesCommit(r)
  PROVE  IInv'
<1> USE DEF IInv, RolesCommit, Goto, Rollback
<1>1. /\ Types /\ call[r] \in Calls /\ Op(r) = "update" /\ User(r) \in Names
      /\ call[r].roles # None /\ call[r].roles # {} /\ call[r].roles \subseteq Roles
  BY CallFacts DEF TypeOK, Control, InTx
<1>2. Transaction(r) /\ \A q \in Requests : Transaction(q)
  BY DEF Transactions
<1>3. /\ rows' = (rows \ del[r]) \cup RowsBy(r) /\ UNCHANGED <<users, call, result>>
      /\ \A w \in RowsBy(r) : w.user = User(r) /\ w.by = r /\ w.role \in call[r].roles
      /\ RowsBy(r) \subseteq Rows
      /\ \A w \in del[r] : w \in rows /\ w.user = User(r)
      /\ User(r) \in users
      /\ \A w \in rows \ del[r] : w.user = User(r) => w.role \notin call[r].roles
      /\ \A q \in Requests \ {r} :
           pc'[q] = pc[q] /\ snap'[q] = snap[q] /\ del'[q] = del[q] /\ ins'[q] = ins[q]
      /\ pc'[r] = "read" /\ snap'[r] = {} /\ del'[r] = {} /\ ins'[r] = {}
  BY <1>1, <1>2 DEF Transaction, RowsBy, Row, Rows, Types
<1>4. \A q \in Requests : /\ RowsBy(q)' = RowsBy(q) /\ User(q)' = User(q) /\ Op(q)' = Op(q)
  BY <1>3 DEF RowsBy, Row, User, Op
<1>5. TypeOK'
  <2>1. adminSeen' \in BOOLEAN
    BY Zenon
  <2>2. Types'
    BY <1>1, <1>3, <2>1 DEF Types, PcValues
  <2>3. ForeignKey'
    BY <1>3 DEF TypeOK, ForeignKey
  <2>4. PrimaryKey'
    <3>1. \A v, w \in RowsBy(r) : v.role = w.role => v = w
      BY DEF RowsBy, Row
    <3> QED BY <1>3, <3>1 DEF TypeOK, PrimaryKey
  <2> QED BY <2>2, <2>3, <2>4 DEF TypeOK
<1>6. Control'
  BY <1>1, <1>3 DEF Control, InTx, Creates, Op
<1>7. AdminFirst'
  <2>1. adminSeen => adminSeen'
    BY Zenon
  <2> QED BY <1>3, <2>1 DEF AdminFirst
<1>8. Transactions'
  <2> SUFFICES ASSUME NEW q \in Requests \ {r} PROVE Transaction(q)'
    BY <1>3 DEF Transactions, Transaction, InTx
  <2>1. del[q] \cap del[r] = {}
    BY DEF Exclusive
  <2>2. pc[q] = "commit" /\ User(q) = User(r) => call[r].roles \cap call[q].roles = {}
    BY DEF Exclusive
  <2>3. del[q] \subseteq rows'
    BY <1>2, <1>3, <2>1 DEF Transaction
  <2>4. pc[q] = "commit" =>
          \A w \in rows' \ del[q] : w.user = User(q) => w.role \notin call[q].roles
    BY <1>2, <1>3, <2>2 DEF Transaction
  <2>5. Transaction(q)
    BY <1>2
  <2> QED BY <1>3, <1>4, <2>3, <2>4, <2>5 DEF Transaction, InTx
<1>9. Exclusive'
  BY <1>3, <1>4 DEF Exclusive
<1>10. Written'
  <2> SUFFICES ASSUME NEW q \in Requests, Op(q) = "update"
               PROVE  /\ \A w \in rows' : w.by = q =>
                           /\ call[q].roles # None /\ w \in RowsBy(q)
                           /\ pc'[q] \in {"read", "done"} /\ result[q] # "invalid"
                      /\ call[q].roles # None =>
                           Whole(rows', q) /\ \A p \in Requests : Whole(snap'[p], q) /\ Whole(del'[p], q)
    BY <1>3, <1>4 DEF Written, Whole
  <2>1. /\ \A w \in rows : w.by = q =>
             /\ call[q].roles # None /\ w \in RowsBy(q)
             /\ pc[q] \in {"read", "done"} /\ result[q] # "invalid"
        /\ call[q].roles # None => Whole(rows, q) /\ \A p \in Requests : Whole(snap[p], q) /\ Whole(del[p], q)
    BY DEF Written
  <2>2. call[q].roles # None => \A p \in Requests : Whole(snap'[p], q) /\ Whole(del'[p], q)
    BY <1>3, <2>1 DEF Whole
  <2>3. CASE q = r
    <3>1. result[r] # "invalid"
      BY DEF Control
    <3> QED BY <1>1, <1>3, <2>1, <2>2, <2>3, <3>1 DEF Whole
  <2>4. CASE q # r
    <3>1. call[q].roles # None => Whole(del[r], q)
      BY <2>1
    <3>2. \A w \in rows' : w.by = q => w \in rows \ del[r]
      BY <1>3, <2>4
    <3>3. call[q].roles # None => Whole(rows', q)
      <4> SUFFICES ASSUME call[q].roles # None, NEW v \in rows', v.by = q
                   PROVE  RowsBy(q) \subseteq rows'
        BY DEF Whole
      <4>1. v \in RowsBy(q) /\ v \in rows \ del[r]
        BY <2>1, <3>2
      <4>2. RowsBy(q) \subseteq rows /\ \A w \in del[r] : w.by # q
        BY <2>1, <3>1, <4>1 DEF Whole
      <4>3. \A w \in RowsBy(q) : w.by = q
        BY DEF RowsBy, Row
      <4> QED BY <1>3, <4>2, <4>3
    <3> QED BY <1>3, <2>1, <2>2, <2>4, <3>2, <3>3
  <2> QED BY <2>3, <2>4
<1>11. Holders'
  <2>1. \A u : Updated(u)' <=> Updated(u)
    BY <1>3, <1>4 DEF Updated
  <2>2. Updated(User(r))
    BY <1>1 DEF Updated
  <2>3. \A q \in Requests : /\ Holder(q)' <=> Holder(q)
                            /\ Holder(q) => Granted(q)' = Granted(q)
    BY <1>1, <1>3, <1>4 DEF Holder, Creates, Granted
  <2>4. \A u : u # User(r) => RowsOf(u)' = RowsOf(u)
    BY <1>3 DEF RowsOf
  <2> QED BY <1>3, <1>4, <2>1, <2>2, <2>3, <2>4 DEF Holders, Row
<1> QED BY <1>5, <1>6, <1>7, <1>8, <1>9, <1>10, <1>11

LEMMA NextInv == IInv /\ [Next]_vars => IInv'
<1> SUFFICES ASSUME IInv, [Next]_vars PROVE IInv'
  OBVIOUS
<1>1. CASE Next
  BY <1>1, QuietStep, CreateStep, AssignStep, BeginStep, DeleteStep, InsertStep, CommitStep
     DEF Next, RequestNext
<1>2. CASE UNCHANGED vars
  <2> USE <1>2 DEF vars, db, tx, IInv
  <2>1. TypeOK' /\ Control' /\ AdminFirst'
    BY DEF TypeOK, Types, PrimaryKey, ForeignKey, Control, AdminFirst, InTx, Creates, Op
  <2>2. Transactions' /\ Exclusive' /\ Written'
    BY DEF Transactions, Transaction, Exclusive, Written, Whole, RowsBy, InTx, Op, User, Row
  <2>3. Holders'
    BY DEF Holders, Holder, Granted, Creates, Updated, RowsOf, Op, User, Row
  <2> QED BY <2>1, <2>2, <2>3
<1> QED BY <1>1, <1>2

LEMMA Inductive == Spec => []IInv
  BY InitInv, NextInv, PTL DEF Spec

\* user_roles keeps its primary key and its foreign key whatever the interleaving
\* of registrations, setups and role updates: no statement slips a second row for
\* a user and role past a transaction that is about to commit one.
THEOREM AccountsTypeCorrect == Spec => []TypeOK
<1>1. IInv => TypeOK
  BY DEF IInv
<1> QED BY <1>1, Inductive, PTL

\* Setup grants the admin role before it marks the forum installed, so no setup,
\* wherever it stops, leaves an installed forum that never had an administrator.
THEOREM InstalledForumHasAdmin == Spec => []InstalledHasAdmin
<1>1. IInv => InstalledHasAdmin
  BY DEF IInv, AdminFirst, InstalledHasAdmin
<1> QED BY <1>1, Inductive, PTL

\* UpdateRoles is all or nothing among any number of concurrent updates: its rows
\* appear together, are deleted together, and a refused update wrote none.
THEOREM RolesWrittenTogether == Spec => []RolesAllOrNothing
<1>1. IInv => RolesAllOrNothing
  <2> SUFFICES ASSUME IInv, NEW r \in Requests, Op(r) = "update",
                      {w.role : w \in {v \in rows : v.by = r}} # {}
               PROVE  /\ {w.role : w \in {v \in rows : v.by = r}} = call[r].roles
                      /\ result[r] # "invalid"
    BY DEF RolesAllOrNothing
  <2>1. PICK v \in rows : v.by = r
    OBVIOUS
  <2>2. call[r].roles # None /\ RowsBy(r) \subseteq rows /\ result[r] # "invalid"
    BY <2>1 DEF IInv, Written, Whole
  <2>3. {w \in rows : w.by = r} = RowsBy(r)
    BY <2>2 DEF IInv, Written, RowsBy, Row
  <2>4. {w.role : w \in RowsBy(r)} = call[r].roles
    <3>1. \A x \in call[r].roles : Row(User(r), x, r) \in RowsBy(r) /\ Row(User(r), x, r).role = x
      BY DEF RowsBy, Row
    <3>2. \A w \in RowsBy(r) : \E x \in call[r].roles : w.role = x
      BY DEF RowsBy, Row
    <3> QED BY <3>1, <3>2
  <2> QED BY <2>2, <2>3, <2>4
<1> QED BY <1>1, Inductive, PTL

\* A registration or setup answered with success granted its roles: nothing but
\* an administrator's update can have changed them.
THEOREM SuccessGrantsRoles == Spec => []SuccessMeansRoles
<1>1. IInv => SuccessMeansRoles
  <2> SUFFICES ASSUME IInv, NEW r \in Requests, result[r] = "ok",
                      Op(r) \in {"register", "setup"}, ~Updated(User(r))
               PROVE  RolesOf(User(r)) = IF Op(r) = "setup" THEN {"member", "admin"} ELSE {"member"}
    BY DEF SuccessMeansRoles
  <2>1. Holder(r) /\ pc[r] = "done"
    BY DEF Holder, Creates, IInv, Control
  <2>2. RowsOf(User(r)) = {Row(User(r), role, r) : role \in Granted(r)}
    BY <2>1 DEF IInv, Holders
  <2>3. RolesOf(User(r)) = Granted(r)
    <3>1. \A x \in Granted(r) : Row(User(r), x, r) \in RowsOf(User(r)) /\ Row(User(r), x, r).role = x
      BY <2>2 DEF Row
    <3>2. \A w \in RowsOf(User(r)) : \E x \in Granted(r) : w.role = x
      BY <2>2 DEF Row
    <3> QED BY <3>1, <3>2 DEF RolesOf
  <2> QED BY <2>1, <2>3 DEF Granted
<1> QED BY <1>1, Inductive, PTL

\* No step takes a user's last role away: the only step that deletes rows is the
\* commit of an update, which inserts at least one row for the same user.
THEOREM RolesPersist == Spec => RolesNeverVanish
<1>1. ASSUME IInv, [Next]_vars
      PROVE  [\A u \in Names : RolesOf(u) # {} => RolesOf(u)' # {}]_vars
  <2> SUFFICES ASSUME Next, NEW u \in Names, RolesOf(u) # {} PROVE RolesOf(u)' # {}
    BY <1>1
  <2>1. PICK w \in rows : w.user = u
    BY DEF RolesOf, RowsOf
  <2>2. PICK r \in Requests : RequestNext(r)
    BY DEF Next
  <2>3. \E v \in rows' : v.user = u
    <3>1. CASE rows \subseteq rows'
      BY <2>1, <3>1
    <3>2. CASE ~(rows \subseteq rows')
      <4>1. RolesCommit(r)
        BY <2>2, <3>2 DEF RequestNext, Start, SetupCheck, CreateUser, AddMemberRole, AddAdminRole,
           AssignRole, MarkInstalled, SetForumName, UpdateStatus, RolesBegin, RolesDelete,
           RolesInsert, ReadBack, Fail, db
      <4>2. PICK role \in call[r].roles : TRUE
        BY <1>1, <4>1 DEF IInv, Control, InTx, RolesCommit
      <4>3. Row(User(r), role, r) \in rows' /\ Row(User(r), role, r).user = User(r)
        BY <1>1, <4>1, <4>2 DEF IInv, Transactions, Transaction, RolesCommit, RowsBy, Row
      <4>4. \A v \in del[r] : v.user = User(r)
        BY <1>1 DEF IInv, Transactions, Transaction
      <4>5. CASE u = User(r)
        BY <4>3, <4>5
      <4>6. CASE u # User(r)
        BY <2>1, <4>1, <4>4, <4>6 DEF RolesCommit
      <4> QED BY <4>5, <4>6
    <3> QED BY <3>1, <3>2
  <2> QED BY <2>3 DEF RolesOf, RowsOf
<1> QED BY <1>1, Inductive, PTL DEF Spec, RolesNeverVanish
=============================================================================
