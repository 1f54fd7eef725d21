------------------------------- MODULE MCRecall -------------------------------
(* Small instances of RecallIndex. A scene is a set of actors that meet in one   *)
(* behaviour: the ads, the events of a shard, the processes, the starts of a     *)
(* consumer, and what else happens.                                              *)
EXTENDS RecallIndex, TLC

CONSTANTS d1, d2, s1, s2, c1, c2, p1, p2, p3, Scenes

OnShards == (d1 :> s1 @@ d2 :> s2)
TheirConsumers == (p1 :> c1 @@ p2 :> c1 @@ p3 :> c2)

Scene(docs, events, processes, starts, with) ==
  [docs |-> docs, events |-> events, processes |-> processes, starts |-> starts, with |-> with]
InScene(s) ==
  /\ \A d \in Docs : table[d].rev > 0 => d \in s.docs
  /\ \A h \in Shards : Len(log[h]) <= s.events
  /\ \A p \in Processes : Running(p) => p \in s.processes
  /\ \A c \in Consumers : consumer[c].epoch <= s.starts
  /\ click # NoClick => "click" \in s.with
  /\ \A p \in Processes : proc[p].task \in {"shadow", "saved"} => "rebuild" \in s.with
  /\ \A p \in Processes : proc[p].task \in {"delta", "written"} => "checkpoint" \in s.with
  /\ \A p \in Processes : Running(p) /\ (~proc[p].valid \/ proc[p].live.fatal) => "faults" \in s.with
  /\ prune # {} => "prune" \in s.with
  /\ query # NoQuery => "query" \in s.with

VARIABLE scene
MCInit == Init /\ scene \in Scenes
MCNext == Next /\ scene' = scene /\ InScene(scene)'
MCSpec == MCInit /\ [][MCNext]_<<vars, scene>>

SmallScenes ==
  {\* the ads alone
   Scene({d1, d2}, 4, {}, 1, {"click"}),
   \* one process: a chain of checkpoints; restarts and pruning; two shards
   Scene({d1}, 3, {p1}, 1, {"checkpoint"}), Scene({d1}, 2, {p1}, 2, {"checkpoint", "prune"}),
   Scene({d1, d2}, 1, {p1}, 1, {"checkpoint", "faults"}),
   \* rebuilds: events in between; searches and late messages; lost answers
   Scene({d1}, 2, {p1}, 1, {"rebuild"}), Scene({d1}, 1, {p1}, 1, {"rebuild", "query", "faults"}),
   Scene({d1}, 1, {p1}, 1, {"rebuild", "checkpoint", "prune", "faults"}),
   \* two processes: of one consumer, and of two
   Scene({d1}, 1, {p1, p2}, 2, {"checkpoint"}), Scene({d1}, 1, {p1, p3}, 1, {"checkpoint", "prune"})}

\* The scenes of the two findings.
ClickScenes == {Scene({d1}, 3, {}, 1, {"click"})}
SearchScenes == {Scene({d1}, 1, {p1}, 1, {"rebuild", "query"})}
=============================================================================
