----------------------------- MODULE RecallIndex -----------------------------
(***************************************************************************)
(* The recall processes (recall/server.ts, engine.ts, worker.ts,           *)
(* storage.ts): each holds the lease of a consumer, follows the log with   *)
(* an engine in memory, and writes manifests from which the next process   *)
(* of that consumer starts. The pruning script (scripts/prune-recall.ts)   *)
(* deletes what every manifest covers.                                     *)
(*                                                                         *)
(* A document of an index is its revision. A day is longer than a          *)
(* checkpoint, a rebuild, a run of the pruning script, and the lag of an   *)
(* engine that calls itself ready.                                         *)
(***************************************************************************)
EXTENDS RecallLog

CONSTANTS
  Consumers, Processes,
  ConsumerOf,    \* the consumer id that a process is configured with
  NoManifest,
  PageSize,      \* events of a shard per poll: 500 in the code
  MaxDepth,      \* deltas in a chain: 30 in the code
  MaxEpoch,      \* bound on the starts of a consumer
  NoProcess

Seqs == [Shards -> Nat]
Image == [seq : Seqs, docs : [Docs -> Nat]]
\* A manifest names a full snapshot and the deltas that lead from it to seq.
Manifest == [base : Image, seq : Seqs, depth : Nat]

ASSUME IndexAssumption ==
  /\ ConsumerOf \in [Processes -> Consumers]
  /\ NoManifest \notin Manifest /\ NoProcess \notin Processes
  /\ PageSize \in Nat \ {0} /\ MaxDepth \in Nat /\ MaxEpoch \in Nat

VARIABLES
  consumer,   \* its row: lease_epoch, whether the lease runs, durable_manifest_ref
  proc,       \* a process: its memory
  prune,      \* the watermarks that a run of the pruning script has read
  query       \* a search that names receipts

vars == <<logVars, consumer, proc, prune, query>>

-----------------------------------------------------------------------------
(* The engine: what its workers hold (seq, docs), what it knows of them    *)
(* (pos, Engine.sequences), and the message that is on its way to the      *)
(* worker of a shard.                                                      *)

Message == [next : Nat, last : Nat, begun : BOOLEAN]
Quiet == [next |-> 1, last |-> 0, begun |-> FALSE]
Engine == [seq : Seqs, docs : [Docs -> Nat], pos : Seqs, mail : [Shards -> Message],
           polling : BOOLEAN, fatal : BOOLEAN, fresh : BOOLEAN]

Loaded(image) == [seq |-> image.seq, docs |-> image.docs, pos |-> image.seq, mail |-> [s \in Shards |-> Quiet],
                  polling |-> FALSE, fatal |-> FALSE, fresh |-> FALSE]
EmptyImage == [seq |-> [s \in Shards |-> 0], docs |-> [d \in Docs |-> 0]]
NewEngine == Loaded(EmptyImage)
Full(image) == [base |-> image, seq |-> image.seq, depth |-> 0]

\* ready, for an engine whose workers live; fresh stands for the age of the last poll
\* and of the oldest event it left.
Ready(e) == ~e.fatal /\ e.fresh
Delivered(e) == \A s \in Shards : e.mail[s] = Quiet
\* No worker is in the middle of a message.
AtRest(e) == \A s \in Shards : ~e.mail[s].begun

Covers(seq, marks) == \A s \in Shards : marks[s] <= seq[s]

\* poll: the next event of a shard was deleted.
Gapped(e) == \E s \in Shards : e.pos[s] < Len(log[s]) /\ e.pos[s] < pruned[s]

Page(from, to) == IF from < to THEN [next |-> from + 1, last |-> to, begun |-> FALSE] ELSE Quiet
PageEnd(s, from) == IF Len(log[s]) - from > PageSize THEN from + PageSize ELSE Len(log[s])
Polling(e) == [e EXCEPT !.polling = TRUE, !.fatal = FALSE, !.mail = [s \in Shards |-> Page(e.pos[s], PageEnd(s, e.pos[s]))]]

\* Faulty: an engine believes that it holds what there is.
PolledAhead(e) == [e EXCEPT !.polling = FALSE, !.pos = Committed, !.fresh = Covers(e.seq, old)]

Polled(e) == [e EXCEPT !.polling = FALSE, !.pos = e.seq, !.fresh = Covers(e.seq, old)]
Failed(e) == [e EXCEPT !.polling = FALSE, !.fatal = TRUE]

\* Partition.load: an older revision does not replace a newer one.
Put(docs, event) == IF event.rev <= docs[event.doc] THEN docs ELSE [docs EXCEPT ![event.doc] = event.rev]

\* Partition.apply: the worker of a shard takes the next event of its message.
InTurn(e, s) == e.mail[s] # Quiet /\ e.mail[s].next = e.seq[s] + 1

\* Faulty: the first event of a message counts for all of them.
AppliedFirst(e, s) == LET m == e.mail[s] IN
  [e EXCEPT !.seq[s] = m.last, !.docs = Put(e.docs, log[s][m.next]), !.mail[s] = Quiet]

Applied(e, s) == LET m == e.mail[s] IN
  [e EXCEPT !.seq[s] = m.next, !.docs = Put(e.docs, log[s][m.next]),
            !.mail[s] = IF m.next < m.last THEN [m EXCEPT !.next = m.next + 1, !.begun = TRUE] ELSE Quiet]

\* The worker answers with index_sequence_gap, and the poll fails if it still waits.
Refused(e, s) == [e EXCEPT !.mail[s] = Quiet, !.polling = FALSE, !.fatal = e.fatal \/ e.polling]

-----------------------------------------------------------------------------
(* The lease *)

Of(p) == consumer[ConsumerOf[p]]
Running(p) == proc[p].phase # "down"
\* Faulty: any process of the consumer may renew.
HoldsAny(p) == Of(p).leased

\* renew, and the release of the lease: the row is that of this start of the process.
Holds(p) == Of(p).leased /\ Of(p).epoch = proc[p].epoch

Releases(p) == IF Of(p).epoch = proc[p].epoch THEN [consumer EXCEPT ![ConsumerOf[p]].leased = FALSE] ELSE consumer
Registers(p) == [consumer EXCEPT ![ConsumerOf[p]].manifest = proc[p].ref]

Off == [phase |-> "down", epoch |-> 0, valid |-> FALSE, unsure |-> FALSE, manifest |-> NoManifest, live |-> NewEngine,
        stray |-> FALSE, task |-> "none", ref |-> NoManifest, shadow |-> NewEngine]
NoQuery == [by |-> NoProcess, phase |-> "none", need |-> EmptyImage.seq, got |-> EmptyImage.seq, swapped |-> FALSE]
Forgotten(p) == IF query.by = p THEN NoQuery ELSE query

Init ==
  /\ LogInit
  /\ consumer = [c \in Consumers |-> [epoch |-> 0, leased |-> FALSE, manifest |-> NoManifest]]
  /\ proc = [p \in Processes |-> Off]
  /\ prune = {}
  /\ query = NoQuery

\* What a step of process p does to its own memory.
Becomes(p, memory) == proc' = [proc EXCEPT ![p] = memory]
Private == UNCHANGED <<logVars, consumer, prune, query>>

Start(p) ==
  /\ ~Running(p) /\ ~Of(p).leased /\ Of(p).epoch < MaxEpoch
  /\ consumer' = [consumer EXCEPT ![ConsumerOf[p]].leased = TRUE, ![ConsumerOf[p]].epoch = @ + 1]
  /\ Becomes(p, [Off EXCEPT !.phase = "leased", !.epoch = Of(p).epoch + 1, !.valid = TRUE, !.manifest = Of(p).manifest])
  /\ UNCHANGED <<logVars, prune, query>>

\* The lease is not renewed for fifteen seconds.
Expire(c) ==
  /\ consumer[c].leased
  /\ consumer' = [consumer EXCEPT ![c].leased = FALSE]
  /\ UNCHANGED <<logVars, proc, prune, query>>

\* leaseTimer: any failure of a renewal is for good.
TimerFails(p) ==
  /\ Running(p) /\ proc[p].valid
  /\ Becomes(p, [proc[p] EXCEPT !.valid = FALSE, !.live.fatal = TRUE])
  /\ Private

Crash(p) ==
  /\ Running(p)
  /\ Becomes(p, Off) /\ query' = Forgotten(p)
  /\ UNCHANGED <<logVars, consumer, prune>>

Close(p) ==
  /\ proc[p].phase = "up" /\ proc[p].task = "none" /\ ~proc[p].live.polling /\ ~proc[p].stray
  /\ Becomes(p, Off) /\ query' = Forgotten(p) /\ consumer' = Releases(p)
  /\ UNCHANGED <<logVars, prune>>

-----------------------------------------------------------------------------
(* Starting: from the manifest, or from a snapshot of the database *)

Baseline == [seq |-> Committed, docs |-> Revisions]

\* restore: the full snapshot is loaded, then the events of the deltas are applied.
Restore(p) ==
  /\ proc[p].phase = "leased" /\ proc[p].manifest # NoManifest
  /\ LET m == proc[p].manifest IN
     Becomes(p, [proc[p] EXCEPT !.phase = "restoring",
                   !.live = [Loaded(m.base) EXCEPT !.mail = [s \in Shards |-> Page(m.base.seq[s], m.seq[s])]]])
  /\ Private

Restored(p) ==
  /\ proc[p].phase = "restoring" /\ Delivered(proc[p].live)
  /\ Becomes(p, [proc[p] EXCEPT !.phase = "syncing", !.live.pos = proc[p].live.seq])
  /\ Private

\* There is no manifest yet, or ADS_RECALL_REBUILD is set.
WriteBaseline(p) ==
  /\ proc[p].phase = "leased"
  /\ Becomes(p, [proc[p] EXCEPT !.phase = "baselined", !.ref = Full(Baseline), !.live = Loaded(Baseline)])
  /\ Private

RegisterBaseline(p) ==
  /\ proc[p].phase = "baselined" /\ Holds(p)
  /\ consumer' = Registers(p)
  /\ Becomes(p, [proc[p] EXCEPT !.phase = "syncing", !.manifest = proc[p].ref])
  /\ UNCHANGED <<logVars, prune, query>>

\* The start fails at any point; the manifest may have been registered unheard.
StartFails(p) ==
  /\ proc[p].phase \in {"leased", "restoring", "baselined", "syncing"}
  /\ Becomes(p, Off)
  /\ \/ consumer' = Releases(p)
     \/ /\ proc[p].phase = "baselined" /\ Holds(p)
        /\ consumer' = [Registers(p) EXCEPT ![ConsumerOf[p]].leased = FALSE]
  /\ UNCHANGED <<logVars, prune, query>>

-----------------------------------------------------------------------------
(* Following the log: the loop of the live engine, and the shadow's *)

Roles == {"live", "shadow"}
Alive(p, r) == IF r = "live" THEN proc[p].phase \in {"restoring", "syncing", "up"} ELSE proc[p].task = "shadow"
\* The loop of the process polls one engine at a time, and only while it trusts its lease;
\* a rebuild polls until its engine is ready.
MayPoll(p, r) == LET e == proc[p][r] IN
  /\ ~e.polling /\ Delivered(e)
  /\ \/ r = "live" /\ (proc[p].phase = "syncing" \/ (proc[p].phase = "up" /\ proc[p].valid /\ ~proc[p].stray))
     \/ r = "shadow" /\ proc[p].task = "shadow" /\ ~Ready(e)

StartPoll(p, r) ==
  /\ MayPoll(p, r) /\ ~Gapped(proc[p][r])
  /\ Becomes(p, [proc[p] EXCEPT ![r] = Polling(proc[p][r])])
  /\ Private

Apply(p, r, s) ==
  /\ Alive(p, r) /\ InTurn(proc[p][r], s)
  /\ Becomes(p, [proc[p] EXCEPT ![r] = Applied(proc[p][r], s)])
  /\ Private

FinishPoll(p, r) == LET e == proc[p][r] IN
  /\ Alive(p, r) /\ e.polling /\ Delivered(e)
  /\ Becomes(p, [proc[p] EXCEPT ![r] = Polled(e), !.phase = IF r = "live" THEN "up" ELSE @])
  /\ Private

\* The poll of the live engine fails: the next event was deleted, a worker refuses an
\* event, does not answer in time, or the database fails. What a worker has received it
\* still applies.
PollFails(p) == LET e == proc[p].live IN
  /\ proc[p].phase = "up"
  /\ \/ MayPoll(p, "live") /\ Becomes(p, [proc[p] EXCEPT !.live = Failed(e)])
     \/ e.polling /\ Becomes(p, [proc[p] EXCEPT !.live = Failed(e)])
     \/ e.polling /\ Delivered(e) /\ Becomes(p, [proc[p] EXCEPT !.live = [Failed(e) EXCEPT !.pos = e.seq]])
  /\ Private

Refuse(p, s) == LET e == proc[p].live IN
  /\ proc[p].phase = "up" /\ e.mail[s] # Quiet /\ ~InTurn(e, s)
  /\ Becomes(p, [proc[p] EXCEPT !.live = Refused(e, s)])
  /\ Private

\* A second without a poll, or events that are two seconds old.
GoesStale(p) ==
  /\ proc[p].phase = "up" /\ proc[p].live.fresh
  /\ Becomes(p, [proc[p] EXCEPT !.live.fresh = FALSE])
  /\ Private

\* The poll of an engine that was replaced ends; its failure counts for the new one.
StrayEnds(p) ==
  /\ proc[p].stray
  /\ \E fails \in BOOLEAN :
       Becomes(p, [proc[p] EXCEPT !.stray = FALSE, !.live.fatal = @ \/ fails])
  /\ Private

-----------------------------------------------------------------------------
(* Checkpoints: a delta of the log, or a full snapshot once the chain is long *)

BeginCheckpoint(p) == LET e == proc[p].live  m == proc[p].manifest IN
  /\ proc[p].phase = "up" /\ proc[p].task = "none" /\ ~e.polling /\ ~proc[p].stray /\ Ready(e)
  /\ \/ e.pos = m.seq /\ Becomes(p, [proc[p] EXCEPT !.task = "written", !.ref = m])
     \/ /\ e.pos # m.seq /\ m.depth < MaxDepth
        /\ Becomes(p, [proc[p] EXCEPT !.task = "delta", !.ref = [base |-> m.base, seq |-> e.pos, depth |-> m.depth + 1]])
     \/ /\ e.pos # m.seq /\ m.depth >= MaxDepth /\ AtRest(e)
        /\ Becomes(p, [proc[p] EXCEPT !.task = "written", !.ref = Full([seq |-> e.seq, docs |-> e.docs])])
  /\ Private

\* The events of the delta are still in the outbox.
WriteDelta(p) == LET from == proc[p].manifest.seq  to == proc[p].ref.seq IN
  /\ proc[p].task = "delta"
  /\ \A s \in Shards : from[s] < to[s] => pruned[s] <= from[s]
  /\ Becomes(p, [proc[p] EXCEPT !.task = "written"])
  /\ Private

RegisterCheckpoint(p) ==
  /\ proc[p].task = "written" /\ Holds(p)
  /\ consumer' = Registers(p)
  /\ Becomes(p, [proc[p] EXCEPT !.task = "none", !.manifest = proc[p].ref])
  /\ UNCHANGED <<logVars, prune, query>>

\* It fails, or was registered and the process does not hear of it.
CheckpointFails(p) ==
  /\ proc[p].task \in {"delta", "written"}
  /\ \/ consumer' = consumer /\ Becomes(p, [proc[p] EXCEPT !.task = "none", !.live.fatal = TRUE])
     \/ /\ proc[p].task = "written" /\ Holds(p) /\ consumer' = Registers(p)
        /\ Becomes(p, [proc[p] EXCEPT !.task = "none", !.live.fatal = TRUE, !.unsure = TRUE])
     \/ /\ proc[p].task = "written" /\ ~Holds(p) /\ consumer' = consumer
        /\ Becomes(p, [proc[p] EXCEPT !.task = "none", !.live.fatal = TRUE, !.valid = FALSE])
  /\ UNCHANGED <<logVars, prune, query>>

-----------------------------------------------------------------------------
(* Rebuilding: a shadow engine replaces the live one *)

BeginRebuild(p) ==
  /\ proc[p].phase = "up" /\ proc[p].task = "none"
  /\ Becomes(p, [proc[p] EXCEPT !.task = "shadow", !.shadow = Loaded(Baseline)])
  /\ Private

SaveShadow(p) == LET e == proc[p].shadow IN
  /\ proc[p].task = "shadow" /\ ~e.polling /\ Ready(e)
  /\ Becomes(p, [proc[p] EXCEPT !.task = "saved", !.ref = Full([seq |-> e.seq, docs |-> e.docs])])
  /\ Private

Swap(p) ==
  /\ proc[p].task = "saved" /\ Holds(p)
  /\ consumer' = Registers(p)
  /\ Becomes(p, [proc[p] EXCEPT !.task = "none", !.manifest = proc[p].ref, !.live = proc[p].shadow,
                   !.shadow = NewEngine, !.stray = @ \/ proc[p].live.polling])
  /\ query' = IF query.by = p /\ query.phase = "checked" THEN [query EXCEPT !.swapped = TRUE] ELSE query
  /\ UNCHANGED <<logVars, prune>>

RebuildFails(p) ==
  /\ proc[p].task \in {"shadow", "saved"}
  /\ LET ended == [proc[p] EXCEPT !.task = "none", !.shadow = NewEngine] IN
     \/ consumer' = consumer /\ Becomes(p, ended)
     \/ /\ proc[p].task = "saved" /\ Holds(p) /\ consumer' = Registers(p)
        /\ Becomes(p, [ended EXCEPT !.unsure = TRUE])
     \/ /\ proc[p].task = "saved" /\ ~Holds(p) /\ consumer' = consumer
        /\ Becomes(p, [ended EXCEPT !.valid = FALSE])
  /\ UNCHANGED <<logVars, prune, query>>

-----------------------------------------------------------------------------
(* A search that names receipts *)

Serves(p) == proc[p].phase = "up" /\ proc[p].valid /\ Ready(proc[p].live)

\* The engine has caught up with the receipts.
Check(p, need) ==
  /\ query = NoQuery /\ Serves(p) /\ Covers(Committed, need) /\ Covers(proc[p].live.pos, need)
  /\ query' = [NoQuery EXCEPT !.by = p, !.phase = "checked", !.need = need]
  /\ UNCHANGED <<logVars, consumer, proc, prune>>

\* The terms were looked up; the engine of this moment answers.
Answer(p) ==
  /\ query.phase = "checked" /\ query.by = p /\ AtRest(proc[p].live)
  /\ query' = [query EXCEPT !.phase = "answered", !.got = proc[p].live.seq]
  /\ UNCHANGED <<logVars, consumer, proc, prune>>

EndQuery == query # NoQuery /\ query' = NoQuery /\ UNCHANGED <<logVars, consumer, proc, prune>>

-----------------------------------------------------------------------------
(* Pruning *)

Known == {c \in Consumers : consumer[c].epoch > 0}

\* Faulty: a consumer whose process is gone does not count.
WatermarksOfRunning == {consumer[c].manifest.seq : c \in {k \in Known : consumer[k].leased}}

Watermarks == {consumer[c].manifest.seq : c \in Known}

\* Every consumer has a manifest.
ReadWatermarks ==
  /\ prune = {} /\ Known # {}
  /\ \A c \in Known : consumer[c].manifest # NoManifest
  /\ prune' = Watermarks
  /\ UNCHANGED <<logVars, consumer, proc, query>>

\* A batch of events that are older than a day and that every watermark covers.
DeleteEvents(s, upto) ==
  /\ prune # {}
  /\ pruned[s] < upto /\ upto <= old[s]
  /\ \A mark \in prune : upto <= mark[s]
  /\ pruned' = [pruned EXCEPT ![s] = upto]
  /\ UNCHANGED <<table, log, old, click, consumer, proc, prune, query>>

EndPrune == prune # {} /\ prune' = {} /\ UNCHANGED <<logVars, consumer, proc, query>>

\* What a process is doing with the log it does not do for a day.
Recent(p, s, n) ==
  /\ proc[p].phase = "up" /\ proc[p].live.fresh => n <= proc[p].live.pos[s]
  /\ proc[p].phase = "baselined" \/ proc[p].task \in {"delta", "written", "saved"} => n <= proc[p].ref.seq[s]
  /\ proc[p].task = "shadow" => n <= proc[p].shadow.seq[s]

Ages(s) ==
  /\ prune = {}
  /\ \E n \in 1..Len(log[s]) :
       /\ old[s] < n /\ \A p \in Processes : Recent(p, s, n)
       /\ old' = [old EXCEPT ![s] = n]
  /\ UNCHANGED <<table, log, pruned, click, consumer, proc, prune, query>>

-----------------------------------------------------------------------------

ProcessStep(p) ==
  \/ Start(p) \/ TimerFails(p) \/ Crash(p) \/ Close(p)
  \/ Restore(p) \/ Restored(p) \/ WriteBaseline(p) \/ RegisterBaseline(p) \/ StartFails(p)
  \/ \E r \in Roles : StartPoll(p, r) \/ FinishPoll(p, r) \/ \E s \in Shards : Apply(p, r, s)
  \/ PollFails(p) \/ GoesStale(p) \/ StrayEnds(p)
  \/ \E s \in Shards : Refuse(p, s)
  \/ BeginCheckpoint(p) \/ WriteDelta(p) \/ RegisterCheckpoint(p) \/ CheckpointFails(p)
  \/ BeginRebuild(p) \/ SaveShadow(p) \/ Swap(p) \/ RebuildFails(p)
  \/ \E need \in [Shards -> 0..MaxSeq] : Check(p, need)
  \/ Answer(p)

LogStep == Change /\ UNCHANGED <<consumer, proc, prune, query>>

Next ==
  \/ LogStep
  \/ \E p \in Processes : ProcessStep(p)
  \/ \E c \in Consumers : Expire(c)
  \/ EndQuery
  \/ ReadWatermarks \/ EndPrune
  \/ \E s \in Shards : Ages(s) \/ \E upto \in 1..MaxSeq : DeleteEvents(s, upto)

Spec == Init /\ [][Next]_vars

-----------------------------------------------------------------------------
(* What the index promises *)

\* The positions of an image, and its documents, belong together.
Faithful(image) == Covers(Committed, image.seq) /\ AsOf(image.docs, image.seq)
FaithfulManifest(m) == Faithful(m.base) /\ Covers(m.seq, m.base.seq) /\ Covers(Committed, m.seq)

\* An engine, live or shadow, and every manifest hold exactly the documents that the log
\* announces up to their position, whatever polls, restarts, rebuilds and late messages
\* did to them (engine.ts:96, worker.ts:50, storage.ts:176).
IndexIsTheTable ==
  /\ LogIsTheTable
  /\ \A p \in Processes, r \in Roles : Faithful(proc[p][r])
  /\ \A p \in Processes : proc[p].ref # NoManifest => FaithfulManifest(proc[p].ref)
  /\ \A c \in Consumers : consumer[c].manifest # NoManifest => FaithfulManifest(consumer[c].manifest)

\* Whatever was deleted, a process that starts from the manifest of its consumer finds
\* every later event, and the chain of the manifest can be read (prune-recall.ts:32,
\* storage.ts:143).
Recoverable == \A c \in Consumers : consumer[c].manifest # NoManifest =>
  Covers(consumer[c].manifest.seq, pruned) /\ consumer[c].manifest.depth <= MaxDepth

\* The index of a process, and the one that can be made from its manifest after any deletion,
\* are the table's.
IndexIsRecoverable == IndexIsTheTable /\ Recoverable

\* The holder of a lease knows the manifest of its consumer, unless an answer was lost:
\* an earlier process registers nothing any more (server.ts:62).
HolderKnows == \A p \in Processes :
  /\ proc[p].phase \in {"syncing", "up"} /\ ~proc[p].unsure /\ Of(p).epoch = proc[p].epoch
  => Of(p).manifest = proc[p].manifest

\* An answer covers the receipts of its search, if the engine that was asked is the one
\* that answers (server.ts:256).
ReceiptsAreKept == query.phase = "answered" /\ ~query.swapped => Covers(query.got, query.need)

\* What the design says of any answer: the condition is never ignored.
AnswersCoverReceipts == query.phase = "answered" => Covers(query.got, query.need)
=============================================================================
