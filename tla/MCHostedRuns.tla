---------------------------- MODULE MCHostedRuns ----------------------------
(* A small instance of HostedRuns: two runs of one user compete for a session. *)
EXTENDS HostedRuns, TLC

CONSTANTS u1, s1, r1, r2

OneSessionOf == (r1 :> s1) @@ (r2 :> s1)
OneOwnerOf == s1 :> u1

\* The two runs have the same session, so they may be exchanged.
HostedSymmetry == Permutations(Workers) \union Permutations(Runs)
=============================================================================
