---------------------------- MODULE MCAgentMemory ----------------------------
(* A small instance of AgentMemory: two runs of one session; in the second the *)
(* user changes its mind.                                                      *)
EXTENDS AgentMemory, TLC

CONSTANTS s1, a, b

OneSessionOf == <<s1, s1>>
ChangesMind == <<a, b>>

TaskSymmetry == Permutations(Workers)
=============================================================================
