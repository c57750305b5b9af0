------------------------------ MODULE Rotation ------------------------------
(***************************************************************************)
(* What refresh token rotation promises, login by login: a login has one   *)
(* holder, which is a token, a refresh that is replacing it, or nothing    *)
(* once the login has ended.  A token is minted once, is given up for the  *)
(* next one, and never comes back; an ended login stays ended.             *)
(*                                                                         *)
(* A login is named after its first token.                                 *)
(***************************************************************************)
EXTENDS Naturals

CONSTANT Sessions

VARIABLES
  holder,   \* who holds each login
  minted    \* the tokens there have ever been

NewLogin(f) ==
  /\ f \notin minted /\ holder[f] = "unborn"
  /\ holder' = [holder EXCEPT ![f] = f]
  /\ minted' = minted \cup {f}

\* A refresh takes the token.
Surrender(f) ==
  /\ holder[f] \in Sessions
  /\ holder' = [holder EXCEPT ![f] = "rotating"]
  /\ UNCHANGED minted

\* It mints the next one.
Renew(f, t) ==
  /\ holder[f] = "rotating" /\ t \notin minted
  /\ holder' = [holder EXCEPT ![f] = t]
  /\ minted' = minted \cup {t}

\* A logout takes the token, or a refresh fails half way.
End(f) ==
  /\ holder[f] \in Sessions \cup {"rotating"}
  /\ holder' = [holder EXCEPT ![f] = "ended"]
  /\ UNCHANGED minted

RotationInit == holder = [f \in Sessions |-> "unborn"] /\ minted = {}

RotationNext ==
  \E f \in Sessions : \/ NewLogin(f) \/ Surrender(f) \/ End(f)
                      \/ \E t \in Sessions : Renew(f, t)

RotationSpec == RotationInit /\ [][RotationNext]_<<holder, minted>>
=============================================================================
