--------------------------- MODULE MCHostedSandbox ---------------------------
(* Small instances of HostedSandbox. *)
EXTENDS HostedSandbox, TLC

CONSTANTS u1, s1, r1

SingleOwnerOf == s1 :> u1
SingleSessionOf == r1 :> s1
=============================================================================
