----------------------------- MODULE HostedPipeline -----------------------------
(* What a worker does with one run after another of a session (hosting/pipeline.py):  *)
(* it reads the history and the memory, waits for an approval, runs tools, searches    *)
(* the knowledge, asks the model and delivers. Meanwhile the user forgets messages,     *)
(* here and in other sessions, memory changes, leases expire and workers die.           *)
EXTENDS Naturals, Sequences, FiniteSets, SequencesExt

CONSTANTS MaxRuns,   \* bound: runs of the session
          Items,     \* long-term preferences
          MaxVersion,\* bound: of a preference
          MaxErased, \* bound: forgettings
          Deployments  \* what may be enabled and asked for: chat, command, shell,
                       \* memory, cache, forgetting, withdrawing

VARIABLES enabled,   \* of the features of the deployment
          message,   \* the messages of the session: whose, and what they were made from
          forgotten, \* messages the user has forgotten
          cutoff,    \* all up to this one came before the last forgetting
          version,   \* of the session
          cached,    \* the history in Redis, under the version it was asked for
          memory,    \* of each preference: its version, whether it is active, its message
                     \* (0: set by the user, or learnt in another session)
          runs,      \* the rows of agent_runs with their approvals and checkpoints
          work,      \* the pipeline of each run
          shells     \* how often each run executed the command of its request

session == <<message, forgotten, cutoff, version, cached>>
outside == <<enabled, memory>>
pipelineVars == <<session, outside, runs, work, shells>>

\* How a run failed makes no difference here: "ended" is failed, cancelled, timed_out or
\* interrupted.
Over == {"succeeded", "ended"}
RunRows == DOMAIN runs
NoWork == [at |-> "off", version |-> 0, rows |-> {}, memory |-> {}, told |-> {}]
\* A run that has no snapshot of its memory may use all of it.
AnyMemory == Items \X (0..MaxVersion)

PipelineInit ==
  /\ enabled \in Deployments
  /\ message = <<>> /\ forgotten = {} /\ cutoff = 0 /\ version = 0
  /\ cached = [version |-> 0, rows |-> {}]
  /\ memory = [i \in Items |-> [version |-> 0, active |-> FALSE, source |-> 0]]
  /\ runs = <<>> /\ work = <<>> /\ shells = <<>>

Say(r, role, partial, from) ==
  /\ message' = Append(message, [run |-> r, role |-> role, partial |-> partial, from |-> from])
  /\ version' = version + 1
  /\ UNCHANGED <<forgotten, cutoff, cached>>
RequestOf(r) == CHOOSE m \in DOMAIN message : message[m].run = r /\ message[m].role = "user"
Idle == \A r \in RunRows : runs[r].status \in Over

--------------------------------------------------------------------------------
(* Requests, approvals and recovery: the repository *)

\* What a message rests on: itself and what it was made from.
Behind(m) == {m} \union message[m].from

NewRun(row, from) ==
  /\ Idle /\ Len(runs) < MaxRuns
  /\ runs' = Append(runs, row) /\ work' = Append(work, NoWork) /\ shells' = Append(shells, 0)
  /\ Say(Len(runs) + 1, "user", FALSE, from)
  /\ UNCHANGED outside

AcceptRequest(kind) ==
  /\ kind \in enabled
  /\ NewRun([kind |-> kind, status |-> "queued", parent |-> 0, approval |-> "none",
          shell |-> FALSE, pinned |-> AnyMemory], {})

\* A request that failed is tried again, as a new run: it keeps the checkpoint, and its
\* message is a copy of the stored input, which is not erased with the message. A shell that
\* was started is never repeated.
MayResume(p) == ~runs[p].shell
ResumeRun(p) ==
  /\ runs[p].status \in Over \ {"succeeded"} /\ MayResume(p)
  /\ NewRun([runs[p] EXCEPT !.status = "queued", !.parent = p, !.approval = "none",
                           !.shell = FALSE], Behind(RequestOf(p)))

Claim(r) ==
  /\ runs[r].status = "queued"
  /\ runs' = [runs EXCEPT ![r].status = "running"]
  /\ work' = [work EXCEPT ![r] = [NoWork EXCEPT !.at = "identity"]]
  /\ UNCHANGED <<session, outside, shells>>

ApproveCommand(r) ==
  /\ runs[r].status = "waiting"
  /\ runs' = [runs EXCEPT ![r].approval = "approved", ![r].status = "queued"]
  /\ UNCHANGED <<session, outside, work, shells>>

\* It is rejected, or waits for too long.
RejectRun(r) ==
  /\ runs[r].status \in {"waiting", "queued"}
  /\ runs' = [runs EXCEPT ![r].status = "ended"]
  /\ UNCHANGED <<session, outside, work, shells>>

\* The lease expires: the worker is fenced, dead or slow, and the run is given up. (What
\* happens in between, and cancelling, is in RunRepository.)
GiveUpRun(r) ==
  /\ runs[r].status \in {"running", "stopping"} /\ runs' = [runs EXCEPT ![r].status = "ended"]
  /\ UNCHANGED <<session, outside, work, shells>>

\* suppress_source: what the user said is erased, replies and preferences made from it
\* are not used any more, and the runs that may have read it end.
Unaffected(status) == IF status \in {"queued", "waiting"} THEN "ended" ELSE status
WithoutSource(status) ==
  CASE status \in {"queued", "waiting"} -> "ended"
    [] status = "running" -> "stopping"
    [] OTHER -> status
ForgetMessage(m) ==
  /\ "forgetting" \in enabled /\ m \notin forgotten /\ Cardinality(forgotten) < MaxErased
  /\ forgotten' = forgotten \union {m} /\ cutoff' = Len(message) /\ version' = version + 1
  /\ message' = [message EXCEPT ![m].partial = TRUE]
  /\ memory' = [i \in Items |-> IF memory[i].source = m
       THEN [version |-> memory[i].version + 1, active |-> FALSE, source |-> 0] ELSE memory[i]]
  /\ runs' = [r \in RunRows |-> [runs[r] EXCEPT !.status = WithoutSource(@)]]
  /\ UNCHANGED <<cached, enabled, work, shells>>

\* A preference is learnt from the request of a run that succeeded, or set by the user.
Learnable == {RequestOf(r) : r \in {x \in RunRows : runs[x].status = "succeeded" /\ runs[x].kind # "shell"}}
Prefer(i) ==
  /\ "memory" \in enabled /\ memory[i].version + 1 < MaxVersion
  /\ \E m \in {0} \union (Learnable \ forgotten) :
       memory' = [memory EXCEPT ![i] = [version |-> @.version + 1, active |-> TRUE, source |-> m]]
  /\ UNCHANGED <<session, enabled, runs, work, shells>>

\* The user withdraws it, or forgets the message of another session that it was learnt from:
\* no run of this session is stopped.
WithdrawPreference(i) ==
  /\ {"memory", "withdrawing"} \subseteq enabled /\ memory[i].active /\ memory[i].version < MaxVersion
  /\ memory' = [memory EXCEPT ![i] = [version |-> @.version + 1, active |-> FALSE, source |-> 0]]
  /\ UNCHANGED <<session, enabled, runs, work, shells>>

--------------------------------------------------------------------------------
(* The pipeline: what it reads *)

Does(r, step) == work[r].at = step
Then(r, w) == work' = [work EXCEPT ![r] = w]
OnlyWork == UNCHANGED <<session, outside, runs, shells>>
\* Every write needs the lease and a run that is not stopping: otherwise it raises.
Leased(r) == runs[r].status = "running"

ReadIdentity(r) ==
  /\ Does(r, "identity")
  /\ Then(r, [work[r] EXCEPT !.at = "history", !.version = version])
  /\ OnlyWork

\* The rows of the table that are not partial; replies from before a forgetting are.
Readable == {m \in DOMAIN message : ~message[m].partial /\ (message[m].role = "user" \/ m > cutoff)}
\* The optional cache may fail in both directions.
ReadHistory(r) ==
  /\ Does(r, "history")
  /\ \/ /\ cached.version = work[r].version
        /\ Then(r, [work[r] EXCEPT !.at = "cutoff", !.rows = cached.rows]) /\ UNCHANGED cached
     \/ /\ Then(r, [work[r] EXCEPT !.at = "cutoff", !.rows = Readable])
        /\ cached' \in {cached} \union (IF "cache" \in enabled
             THEN {[version |-> work[r].version, rows |-> Readable]} ELSE {})
  /\ UNCHANGED <<message, forgotten, cutoff, version, outside, runs, shells>>

\* Messages from before the last forgetting are left out, and those of this run.
ReadCutoff(r) ==
  /\ Does(r, "cutoff")
  /\ LET rows == {m \in work[r].rows : m > cutoff /\ message[m].run # r} IN
       Then(r, [NoWork EXCEPT !.at = "preflight", !.told = UNION {Behind(m) : m \in rows \union {RequestOf(r)}}])
  /\ OnlyWork

\* The decision of the user is part of the row that is claimed again.
Unasked(r) == TRUE  \* approved by having been asked for
Permitted(r) == runs[r].approval = "approved"

\* A command about preferences or procedures is answered at once, the tool of a request
\* and a risky action need an approval, other requests are answered or go on.
Preflight(r) ==
  /\ Does(r, "preflight")
  /\ \/ runs[r].kind = "command" /\ Then(r, [work[r] EXCEPT !.at = "finish"])
     \/ /\ runs[r].kind = "shell" /\ Leased(r) /\ Permitted(r)
        /\ Then(r, [work[r] EXCEPT !.at = "shell"])
     \/ /\ runs[r].kind = "chat" /\ Leased(r)
        /\ \E to \in {"memory", "finish"} : Then(r, [work[r] EXCEPT !.at = to])
  /\ OnlyWork
Park(r) ==
  /\ Does(r, "preflight") /\ Leased(r) /\ runs[r].kind # "command" /\ runs[r].approval = "none"
  /\ runs' = [runs EXCEPT ![r].status = "waiting"]
  /\ Then(r, NoWork)
  /\ Say(r, "assistant", FALSE, Behind(RequestOf(r)))
  /\ UNCHANGED <<outside, shells>>

\* The memory as it is now, but for what changed since the run, or the one it resumes,
\* read it first. When it cannot be read the run goes on without it.
UsableNow == {<<i, memory[i].version>> : i \in {x \in Items : memory[x].active}}
Bundle(r) == UsableNow \intersect runs[r].pinned
ReadMemory(r) ==
  /\ Does(r, "memory")
  /\ \/ "memory" \in enabled
        /\ Then(r, [work[r] EXCEPT !.at = "snapshot", !.memory = Bundle(r),
                    !.told = @ \union UNION {Behind(m) : m \in {memory[x[1]].source : x \in Bundle(r)} \ {0}}])
     \/ Then(r, [work[r] EXCEPT !.at = "tools"])
  /\ OnlyWork
\* The run also goes on, with what it read, when the snapshot cannot be saved.
SaveSnapshot(r) ==
  /\ Does(r, "snapshot")
  /\ \/ Leased(r) /\ runs' = [runs EXCEPT ![r].pinned = work[r].memory]
     \/ UNCHANGED runs
  /\ Then(r, [work[r] EXCEPT !.at = "tools"])
  /\ UNCHANGED <<session, outside, shells>>

--------------------------------------------------------------------------------
(* What it does *)

\* The row of the tool call is written before the command runs in the sandbox.
StartShell(r) ==
  /\ Does(r, "shell") /\ Leased(r)
  /\ runs' = [runs EXCEPT ![r].shell = TRUE]
  /\ Then(r, [work[r] EXCEPT !.at = "shelling"])
  /\ UNCHANGED <<session, outside, shells>>
RunShell(r) ==
  /\ Does(r, "shelling")
  /\ shells' = [shells EXCEPT ![r] = @ + 1]
  /\ Then(r, [work[r] EXCEPT !.at = "finish"])
  /\ UNCHANGED <<session, outside, runs>>

\* A question about the preferences is answered from the memory. Otherwise the tools that
\* read the advertisements are called, or their results taken from the checkpoint; without
\* sufficient evidence the run answers that there is none. Without a
\* knowledge base, or when another agent finds nothing, it goes on with no documents.
SearchKnowledge(r) ==
  /\ Does(r, "tools") /\ Leased(r)
  /\ \E to \in {"model", "finish"} : Then(r, [work[r] EXCEPT !.at = to])
  /\ OnlyWork

\* An answer with documents is held back until they are validated again, and replaced when
\* one of them was revoked; others are streamed.
GenerateAnswer(r) ==
  /\ Does(r, "model") /\ Leased(r)
  /\ Then(r, [work[r] EXCEPT !.at = "generated"])
  /\ OnlyWork
DeliverAnswer(r) ==
  /\ Does(r, "generated")
  /\ Then(r, [work[r] EXCEPT !.at = "finish"])
  /\ OnlyWork

--------------------------------------------------------------------------------
(* How it ends: Worker.execute *)

Conclude(r) ==
  /\ Does(r, "finish") /\ runs[r].status \in {"running", "stopping"}
  /\ runs' = [runs EXCEPT ![r].status = IF @ = "stopping" THEN "ended" ELSE "succeeded"]
  /\ Then(r, NoWork)
  /\ Say(r, "assistant", runs[r].status = "stopping", work[r].told)
  /\ UNCHANGED <<outside, shells>>

\* Something raises, the run is cancelled, the time is over or the worker shuts down: what
\* was streamed is kept as a partial message.
Abort(r) ==
  /\ work[r].at # "off" /\ runs[r].status \in {"running", "stopping"}
  /\ runs' = [runs EXCEPT ![r].status = "ended"]
  /\ Then(r, NoWork)
  /\ \/ UNCHANGED session
     \/ work[r].at = "generated" /\ Say(r, "assistant", TRUE, work[r].told)
  /\ UNCHANGED <<outside, shells>>

\* A worker that was slow finds that the lease is lost. (One that died just does nothing
\* any more.)
LoseLease(r) ==
  /\ work[r].at # "off" /\ runs[r].status = "ended" /\ Then(r, NoWork)
  /\ OnlyWork

PipelineNext ==
  \/ \E kind \in {"chat", "command", "shell"} : AcceptRequest(kind)
  \/ \E r \in RunRows :
       \/ ResumeRun(r) \/ Claim(r) \/ ApproveCommand(r) \/ RejectRun(r) \/ GiveUpRun(r)
       \/ ReadIdentity(r) \/ ReadHistory(r) \/ ReadCutoff(r) \/ Preflight(r) \/ Park(r)
       \/ ReadMemory(r) \/ SaveSnapshot(r) \/ StartShell(r) \/ RunShell(r)
       \/ SearchKnowledge(r) \/ GenerateAnswer(r) \/ DeliverAnswer(r)
       \/ Conclude(r) \/ Abort(r) \/ LoseLease(r)
  \/ \E m \in DOMAIN message : ForgetMessage(m)
  \/ \E i \in Items : Prefer(i) \/ WithdrawPreference(i)
PipelineSpec == PipelineInit /\ [][PipelineNext]_pipelineVars

--------------------------------------------------------------------------------
\* A run only succeeds with an answer that was made without anything the user had forgotten
\* in this session by then: not in the history, not in an older reply, not in a preference,
\* whatever the cache still held and whichever run read it first. Forgetting does not reach
\* the stored input of a run, so the text of a forgotten message is told again by a request
\* that was resumed, and by what was made from that, until the user forgets the copy too: what
\* a run was told of it, it was told by the copy. And what was learnt in another session and
\* is forgotten there is still told by a run that had read it (suppress_source).
ForgottenStaysOut ==
  [][\A r \in RunRows : runs[r].status # "succeeded" /\ runs'[r].status = "succeeded"
       => \A m \in work[r].told \intersect forgotten :
            \E copy \in work[r].told \ forgotten : message[copy].role = "user" /\ m \in message[copy].from]_pipelineVars

\* A run executes the command of its request once, whatever is claimed again, lost or dies,
\* and only after the user approved this run; a run that is resumed has not executed it and
\* never will ("Never replay an uncertain shell/write step automatically"). A request that
\* failed before its command may be resumed more than once, every time with an approval.
CommandsRunOnce ==
  \A r \in RunRows : /\ shells[r] <= 1
                     /\ shells[r] > 0 => runs[r].approval = "approved"
                     /\ runs[r].parent # 0 => shells[runs[r].parent] = 0

\* A request that is resumed does not tell the model of preferences that changed since it
\* told it first, unless the snapshot of that could not be saved ("Changed or withdrawn
\* versions are omitted, never resurrected").
ResumedTellsNoMore ==
  \A r \in RunRows : LET p == runs[r].parent IN
    p # 0 /\ runs[p].pinned # AnyMemory => work[r].memory \subseteq runs[p].pinned

\* A run that was parked, lost or resumed goes on from what was agreed to and told before.
GoesOnAsAgreed == CommandsRunOnce /\ ResumedTellsNoMore
=============================================================================
