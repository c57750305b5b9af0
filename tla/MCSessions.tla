----------------------------- MODULE MCSessions -----------------------------
(***************************************************************************)
(* Small instances of the session life cycle.                              *)
(***************************************************************************)
EXTENDS Sessions, TLC

CONSTANTS u1, b1, b2, s1, s2, s3, r1, r2, r3, r4

\* Session ids, requests, browsers and users are interchangeable.
MCSymmetry == Permutations(Sessions) \cup Permutations(Requests)
                \cup Permutations(Browsers) \cup Permutations(Users)
=============================================================================
