---------------------------- MODULE MCRunDispatch ----------------------------
(* Small instances of RunDispatch. *)
EXTENDS RunDispatch, TLC

CONSTANTS u1, u2, s1, s2, s3, r1, r2, r3

\* Two users, one of them with two sessions.
TrioSessionOf == (r1 :> s1) @@ (r2 :> s2) @@ (r3 :> s3)
TrioOwnerOf == (s1 :> u1) @@ (s2 :> u1) @@ (s3 :> u2)
=============================================================================
