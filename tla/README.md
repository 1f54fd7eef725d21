# MiniAdsWall: TLA+ models, model checking and proofs

MiniAdsWall is an advertisement wall with a merchant side. This directory holds
TLA+ modules that model the parts of it that are concurrent, durable or
otherwise hard to test, TLC configurations that check them on small instances,
and TLAPS proofs of the properties that matter most. Every definition is taken
from the source; `PROJECT.json` ("map") names the lines each one stands for.

Contents: [inventory](#inventory), [modules](#modules),
[the hosted runs](#the-hosted-runs),
[the agent memory](#the-agent-memory), [the marketing facts](#the-marketing-facts),
[the recall index](#the-recall-index), [the services](#the-services),
[findings](#findings), [not modelled](#not-modelled), [plan](#plan).

## Inventory

| Component | Source | State it keeps | Operations | What makes it hard |
| --- | --- | --- | --- | --- |
| Run repository | `hosting/repository.py` | MySQL rows of runs, sessions, tool calls, approvals, events, workspaces | create, claim, heartbeat, stop, finish, cancel, tool start/finish, approval request/decision, fencing, recovery, paging, workspace commit | many processes over one store; leases, fence tokens, deadlines |
| Worker | `hosting/worker.py` | the runs it executes, with a supervisor each | claim loop, execution, supervision, maintenance pass, outbox | cancellation in the middle of a tool, crash between transactions, stale reads |
| Pipeline | `hosting/pipeline.py` | checkpoints of one run | preflight, approval, tools, model, citation revalidation | resumed steps, approvals that no longer match |
| Sandbox executor | `hosting/executor.py`, `sandbox.py`, `sandbox_entry.py` | docker containers by run label | execute, cleanup, reap | a container that appears after the cleanup; a worker that died |
| Hosting API | `hosting/api.py`, `auth.py`, `streaming.py` | rate limits, SSE connections | requests, event stream, synchronous chat, resume | reconnects, purged events, runs that finish while read |
| Retention | `hosting/cleanup.py`, `objects.py` | - | purge of events, pending operations, outbox | holes in an event log that is being replayed |
| Agent memory | `memory/repository.py`, `jobs.py` | memory jobs, candidates, preferences, suppressions | claim, complete, fail, replay, suppress | order of jobs, erasure racing a job, preferences by version |
| Conversation memory | `memory/conversation_memory.py`, `sync_gateway.py` | Redis working memory, episodic store | add, compress, profile | concurrent compressions |
| Model gate | `core/model_gate.py` | Redis sets (active, queue, deadlines) or a semaphore | admit, poll, release | lost clients, timeouts, FIFO order |
| Action decision, FAQ cache | `core/action_decision.py`, `core/faq_cache.py` | pending confirmations, cached answers | preflight, confirm, supplement; look up, keep | two confirmations of one action, answers kept beside each other |
| Retrieval (RAG) | `core/rag/*`, `core/rag_evidence.py`, `mcp/knowledge_base.py` | index generations | publish, search, citations | an index that changes between search and answer |
| Tools | `mcp/tool_manager.py` | circuit breakers, cache | call, fallback | half-open probes |
| Chat API | `agents/agent_orchestrator.py`, `api/*.py` | pending actions | chat, blocking, studio generation | two turns of one conversation in two processes |
| Ad service | `apps/mini-ad-wall/server/services/ads.service.ts`, `models/ads.model.ts`, `services/recall/repository.ts` | ads, their attributes and revisions, the event log | create, update, delete, clicks | the event is written with the change, at another isolation level for clicks |
| Marketing ingestion | `server/services/marketing/*` | receipts, events with revised validations, spend ledger, coverage markers, outbox, input clock | impression, click, conversion, spend, coverage; report | duplicates, late and early events, idempotency |
| Marketing aggregation | `marketing/aggregation/*` | tasks, attributions, links, daily metrics and their heads, pending marks, rebuild jobs | claim, snapshot, publish, fail, rebuild | leases, epochs, generations |
| Recall index | `server/recall/*` | consumers with lease and manifest; engines in memory; snapshots and deltas on disk | start, restore, poll, checkpoint, rebuild, search | a poll that half succeeds, a second holder, an engine replaced during a search |
| Recall pruning | `server/scripts/prune-recall.ts` | - | deletion of events | events that a restart still needs |
| Merchant studio | `server/services/merchant/studio/*` | jobs, assets, media | create, claim, generate, approve | provider calls with unknown outcome |
| Chunked upload | `server/services/chunk-upload.service.ts`, `client/src/utils/chunkedUpload.ts` | chunk files | init, chunk, merge | concurrent chunks, retries |
| Client | `client/src/*` | views, trackers | impression tracking, event stream | none that outlives a page |
| Agent routing | `agents/agent_orchestrator.py`, `monitor/performance_monitor.py` | statistics and penalties of agents | choose, call, collect | nothing as shipped: the pool has one agent of each type |
| Agent skills | `core/skill_loader.py` | rules in memory, files | reload, match, build a prompt | edits during a scan, a budget |
| Intent recognition | `core/intent_recognizer.py` | a bounded cache | recognise, vote | weights and thresholds, failed answers that are cached |
| Sync gateway | `memory/sync_gateway.py`, `hosting/api.py` | names of conversations | compatible chat call | lost calls sent again |
| Schema migrations | `hosting/migrations.py`, `migrate.py` | a ledger of migrations, the schema | upgrade, serve | statements that cannot be rolled back, other releases |
| Knowledge base | `mcp/knowledge_base.py` | two collections, a record | migrate, default documents | several services at once, crashes |
| Paid experiments | `evaluation/*.py` | receipts, responses, rows on disk | start, call, resume | a death after a paid submission |
| Reports, evaluation, scripts | `evaluation/`, `scripts/` | files | - | none |

How they interact: the Koa server and the client call the hosting API; the API
and the workers meet only in the MySQL repository (and in Redis, which is a
cache); a worker calls the pipeline, which calls the model through the gate and
shell tools through the sandbox executor; the executor checks its right to run
a tool against the repository. A finished run enqueues a memory job, which the
same worker processes work off. The ad service emits recall changes in its own
transactions; the recall process polls them. Marketing events are written with
an outbox row each, which the aggregation worker turns into facts and reports.
The chat API is the older front: a turn is decided by the action decision, put to
an agent by the orchestrator, and answered with its tools and the knowledge; the
sync gateway lets its clients use hosted runs.

## Modules

| Module | Models | Role |
| --- | --- | --- |
| `RunRepository` | the transactions of `hosting/repository.py` and of `Worker.expire_waiting` | operators, one per transaction |
| `HostedRuns` | `hosting/worker.py` over that repository | state machine of users, workers, maintenance passes, crashes and time |
| `RunLifecycle` | what the service promises about runs | abstract specification |
| `HostedSandbox` | `hosting/executor.py`, `sandbox.py` and Docker, with the same workers | state machine; each of its steps is one of `HostedRuns` or none |
| `RunDispatch` | the order in which `claim` scans the queue | state machine over `RunRepository` |
| `AgentMemory` | `memory/repository.py`, `memory/jobs.py` | state machine of jobs, rows and users |
| `MarketingLedger` | `server/services/marketing/*.ts`, `marketing/aggregation/rebuild.py` | operators and requests over the accepted facts |
| `MarketingAggregation` | `marketing/aggregation/*.py`, `report.service.ts` | state machine of the workers over that ledger |
| `RecallLog` | `models/ads.model.ts`, `services/recall/repository.ts` | the ads and their log: operators and changes |
| `RecallIndex` | `server/recall/*.ts`, `scripts/prune-recall.ts` | state machine of the recall processes and the pruning script over that log |
| `HostedPipeline` | `hosting/pipeline.py` with the messages, forgetting, snapshots and approvals it meets | state machine of the runs of one session |
| `EventStream` | the event log of `hosting/repository.py`, its readers in `api.py`, `cleanup.py` | state machine of one run and its clients |
| `Workspaces` | snapshots and commits of `hosting/repository.py`, `executor.py` | state machine of one workspace |
| `SchemaUpgrade` | `hosting/migrations.py` | state machine of releases over one database |
| `SyncChat` | `memory/sync_gateway.py`, the compatible call of `hosting/api.py` | state machine of calls, sessions and runs |
| `ModelGate` | `core/model_gate.py`, `model_client.py` | state machine of callers, Redis and its clocks |
| `ChatTurns` | `core/action_decision.py`, `agents/agent_orchestrator.py`, `/chat` | state machine of a conversation over several processes |
| `AgentSkills` | `core/skill_loader.py` | state machine of files, a scan and a prompt |
| `IntentRecognition` | `core/intent_recognizer.py` | operators of the vote, state machine of the cache |
| `FaqCache` | `core/faq_cache.py` | state machine of askers over one hash |
| `ConversationMemory` | `memory/conversation_memory.py` | state machine of writers over one conversation |
| `KnowledgeIndex` | `core/rag`, `core/rag_evidence.py`, delivery in `api/main.py` and `api/generation.py` | state machine of builders, operators and requests |
| `KnowledgeMigration` | `mcp/knowledge_base.py` | state machine of services that start |
| `ToolCalls` | `mcp/tool_manager.py` over the knowledge base | state machine of calls of one tool |
| `StudioJobs` | `studio/store.ts`, `worker.ts`, `routes/studio.routes.ts`, `api/studio.py`, `api/video.py` | state machine of jobs, workers and a provider |
| `PaidExperiment` | `evaluation/image_rag_provider.py` and the runners over it | state machine of runners, with the rules of each experiment |
| `ClientPromises` | what the tool cache, the FAQ cache, the streams and the compatible call promise together | properties over those four modules |
| `HostedRuns_proofs` | - | type correctness; the inductive invariant, the safety theorems, the refinement of the life cycle, the limits; the turns of `RunDispatch` |
| `HostedSandbox_proofs` | - | that what holds of the runs holds with containers too; that the containers of a run follow each other |
| `AgentMemory_proofs` | - | the inductive invariant and the theorems about memory |
| `MarketingAggregation_proofs` | - | the inductive invariant and the theorems about publications, coverage, the backlog, the ledger and complete reports |
| `RecallIndex_proofs` | - | the inductive invariants and the theorems about indexes, manifests, pruning, the holder of a lease and receipts |
| `Services_proofs` | - | inductive invariants and theorems about workspaces, schema upgrades, conversation memory, the index, the gate, the migration of the knowledge base, the studio, chat turns and the recognition of intents |
| `ClientPromises_proofs` | - | inductive invariants and theorems about the pipeline of a run, the agent skills and the four modules of `ClientPromises` |
| `PaidExperiment_proofs` | - | the inductive invariant and the theorem about paid experiments |
| `MCHostedRuns`, `MCHostedSandbox`, `MCRunDispatch`, `MCAgentMemory`, `MCMarketing`, `MCRecall`, `MCServices` | - | small instances |

| Run | Module and instance | Shows |
| --- | --- | --- |
| `hosted_runs` | `HostedRuns`: 2 runs of one user and one session, 2 workers, 1 pass | every safety property of the repository and the workers; the service implements `RunLifecycle` |
| `hosted_liveness` | `HostedSandbox`, fair: 1 run, 1 worker, 2 calls of the executor | one container at most, and no result of one that is still there; every run ends, every worker slot comes back, every container vanishes |
| `sandbox_release` | `HostedSandbox`: 1 run, 2 calls | finding: a late container |
| `services` | `MCServices`: 17 scenes, one for `RunDispatch` and each module of the services | what each of them promises, see [the services](#the-services) |
| `dispatch_head` | `RunDispatch`: 3 runs of 2 users | finding: the head of the queue |
| `memory_jobs` | `AgentMemory`, fair: 2 runs of one session, 2 workers, 1 editor | order, erasure, the user's own changes, single effect, and every job settles |
| `memory_coverage` | the same | finding: a watermark over a run that the summary lacks |
| `memory_rebuild` | `AgentMemory`, fair: 1 worker | finding: a summary that lost one of its sources is never made again |
| `marketing_facts` | `MarketingAggregation`: 2 decisions, 1 order, 9 requests, 2 markers, 1 rebuild, 2 workers | duplicates count once; what is published is what the facts give; a complete report is final |
| `recall_index` | `RecallIndex`: 2 ads on 2 shards, 3 processes of 2 consumers | an index is the table as of its position; restarts find what they need; leases; receipts |
| `recall_clicks` | the same | finding: an event with old attributes |
| `recall_receipts` | the same | finding: an answer that misses its receipts |

## The hosted runs

### State and actions

`run` has one record per row of `agent_runs`, with the status of its tool call
and of its approval; `active` is `agent_sessions.active_run_id`. Every
transaction takes the global capacity row lock first (`Repository.tx`), so a
transaction is one atomic step. The clock appears only through what the code
compares with it: a lease is live or expired, and `overdue` collects the
deadlines that have passed. Messages, audit rows and the event log are left
out; a run is identified with its idempotency key.

`task` is what a worker slot remembers between two transactions: the run and
the fence token it was given by `claim`, where it is in `Worker.execute`, and
the outcome it will report. `sweep` is a maintenance pass over one run whose
lease has expired: the row it read, then the token of its own fencing.

A crash (`Abandon`, `SweepAbandon`) loses the local record and nothing else. A
transaction that is refused takes the error path of its caller; a transaction
may also commit although its caller was cancelled meanwhile, since it runs in a
thread (`StartTool`, `AskApproval`).

### Properties and bounds

The properties a run checks are conjunctions of named parts. Types are the first
conjunct of `Inv`, the inductive invariant, which the proofs establish.
Whoever ends a run (worker, user, maintenance) leaves no lease, tool call or
approval open, and a session has its run as long as it is unfinished
(`FinishedIsReleased`: `SessionSlot`, `NothingLeftOpen`); a run has one owner, and
a worker that lost it is fenced (`Ownership`: `OneOwner`, `FencedOut`, `Inv`); what
ended stays ended, the first reason to stop wins, success is earned, a refused
token stays refused (`EndsOnce`: `TerminalIsFinal`, `FirstReasonWins`,
`SuccessIsEarned`, `RefusedForGood`).

`MaxClaims` bounds how often a run is parked for approval: a run at that fence
asks no more. `MaxFence` bounds recoveries: beyond it a pass over a run is alone
and does not fail; without it every pass raises the fence, and the state space is
infinite. Both are reached. Runs, workers and passes are interchangeable where
no liveness is checked, so TLC's symmetry is used there.

### Containers

`HostedSandbox` refines the worker: a tool is a call of the executor, and the
worker's cleanup at the end and in a maintenance pass are what the executor
confirms. A call is admitted, validated, given a container, validated again,
and answered after its own cleanup; the worker may give it up at any moment,
and the executor goes on. A container appears some time after `docker run` was
spawned, so a cleanup that lists the containers in between does not see it. The
two validations read what the repository says at that moment. A crash of the
executor ends its calls and keeps its containers; the reaper removes those
whose run no longer executes. The client cleans up when a call raises and when it
is answered with an error (`sandbox.py:16-25`). Not modelled: the output and storage limits,
the host limit (a nondeterministic refusal), workspace snapshots.

One worker and two requests suffice for TLC: a worker may die, and its successor in the
slot meets the calls and containers it left; which free request a call takes makes no
difference. `ContainersFollowEachOther` is proved for any number of both.

Fairness (`FairSandboxSpec`). Time passes, except that a live worker may renew a
lease for ever; supervisor, unwinding, stop and finish go on, since each of
their steps has a timeout; a maintenance pass runs every five seconds in every
worker process and one of them is there or is restarted; a call of the executor
ends by its timeout, Docker creates what was asked for, the reaper runs every
second, and a cleanup succeeds in the end. Nothing is assumed of users, of the
pipeline or of the dispatch of queued runs.

### Dispatch

`RunDispatch` has the scan of `claim`: the first run in the order of its user's last
dispatch and of created_at that is neither expired nor owned by a user at the
limit, the rows that the scan times out on the way to it, and accounts that are
not active. `overtaken` counts how often another user is served while one waits
for its turn. Three runs of two users are enough for every comparison the scan
makes: one user with two runs, and one to be overtaken. `earlier` is the order of
`last_dispatch_at` over the users: who was dispatched before whom.

### What is proved

`HostedRuns_proofs` proves, for every number of users, sessions, runs, workers and
sweepers, every assignment of sessions and every limit, from
`RepositoryAssumption` (finitely many runs; a null that is no run; typed
functions and limits):

- `Safety`: `Spec => []Inv`, and from it `SessionSlotHolds`,
  `NothingLeftOpenHolds`, `OneOwnerHolds`, `FencedOutHolds`, which make up
  `FinishedRunsAreReleased` and `OwnershipHolds`;
- `TerminalIsFinalHolds`, `FirstReasonWinsHolds`, `SuccessIsEarnedHolds`,
  `RefusedForGoodHolds`: action properties of every step, which make up `RunsEndOnce`;
- `ServiceImplementsLifecycle`: `Spec => ImplementsLifecycle`, the refinement of
  `RunLifecycle`. One lemma per transaction says which step of the life cycle it is, or that
  no run changes its phase (`Lived`); `SessionSlot` is needed for admission, and `Consistent`
  for the outcome a worker writes.
- `CapacityHolds`: `Spec => []CapacityRespected`, from the steps of the life cycle: what
  waits and what executes gains at most one run at a time, and only where there is room for
  all and for its user (`Gains`, `GainsFit`).

`Inv` strengthens the properties by what they rest on: a stopping run has a
reason and a reason implies stopping or its end (`Reasons`); tokens never exceed
the fence of their row (`Tokens`); the worker that may park a run has no tool
call open (`ToolsOwned`), without which parking could leave a tool running; a
fenced run never executes again (`FencedStays`), without which a second claim
could hand a new token to a worker while the sandbox is being removed. The proof
has two layers: what a transaction may do to a row (`RowStep`, `RowOK`, one lemma
per transaction), and what a process may conclude from its token when rows only
move that way (`OwnedBefore`, `ProcessesKept`). Success is treated apart
(`SuccessStep`): `FinishRun` is the only step that can write it.

In `HostedSandbox` every action is written as an action of `HostedRuns` with what happens to
calls and containers beside it, or as one that leaves the runs alone. That is how the module is
composed and no result about the code; the lemma `SandboxRefines` only carries `Inv` over
(`SandboxSafety`). What the sandbox code adds is `ContainersFollowEachOther`:
`SandboxSpec => []OneCleanSandbox`. Two facts carry it. One worker at a time works on
a run (`Apart`): a run is claimed only while it waits, and it waits only when its worker
has parked it and works on it no more, whatever tokens others still have. And a run has one
request at a time in the executor, counting those whose caller is dead and those of which
only the container is left; none is there when a worker goes on (`Followed`): a call that
failed in any way never lets its worker start another tool, and one that succeeded was
answered after its container was gone (`OkIsRemoved`).

`FairShareHolds`: `DispatchSpec => []FairShare`, for any users, runs and limits. A user
that was given a run is behind everybody who waited then (`earlier` is a strict order in
which the user who was dispatched last is last), so a user who waits is overtaken by
another at most once between two turns of its own; that the rows and the limits stay
sound is taken over from the transactions (`RowsMoveSoundly`).

Only model-checked: liveness (`EveryRunEnds`, `SlotsComeBack`, `SandboxesVanish`), which is
out of the prover's reach.

## The agent memory

### State and actions

A finished run may enqueue one extraction job (`FinishRun`, one transaction).
`Claim` gives a job a token and a lease of a minute; the task then reads its
source and the summary so far, looks for earlier jobs of the session, asks the
model, and writes the answer in one transaction that checks the token and the
lease, the erasures since the run was created, and the state of the summary
(`Complete`). Each of those reads is a step of its own, since other workers and
the user act between them. A run stands for its messages: a watermark is a run,
and a text is the set of runs it was made from, which is what the properties
about coverage and erasure are about. There is one preference; what a run says
about it is a constant (`Says`), and whether the model notices is left open. An
editor looks at the preference (`Look`) and sends an edit or an acceptance with the
version it was shown (`SetPreference`, `Decide`); jobs, erasures and other editors act in
between, and an edit whose version is old is refused (`ExpectedVersion`). `seen` is what each
editor shows, `cleared` a history of the sessions whose summary the user cleared.

The requests of the user that have no bound in the code are bounded by
`MaxActs`: an edit, a clearing, an erasure or a replay. Confirmations are not; an editor
looks while there is something left to send. One editor is enough: a job or an erasure
may act between its look and its edit.
With two runs, two workers, two attempts and one request, each of them meets
every state of a job; the mutants show that each property needs them.

Fairness (`MemoryFairness`): a lease runs out, and the memory task of a worker
process goes on, since it polls and each of its steps has a timeout. A task may
fail or crash in every attempt.

### What is proved

`AgentMemory_proofs` proves for every number of runs, sessions, workers, values
and attempts, from `MemoryAssumption` (finitely many runs; typed functions; a
null that is no value):

- `MemoryIsSafe`: `MemorySpec => []MemoryInv`, and from it `CoversInOrder` and
  `ErasureHolds`;
- `ClearHolds`, `EditsHold`, `TheUserDecides`, `TakesEffectOnce`: action
  properties of every step, and `TheUserHasTheLastWord` from the first three. `ClearedForGood`
  speaks of summaries that the user cleared. One that lost a source to an erasure is not
  written again either, where the design document wants it rebuilt: that is the finding
  of `memory_rebuild`.

Neither of the first two properties is inductive. That no watermark passes an open job needs that a
task beyond its check has only settled runs before it (`NothingOpenBefore`), which
stays so because a run that is over gets no job later and a done job is never
opened again (`RunsInTurn`, `RowSteps`). That an erased message never comes
back needs that every task that may have read it has lost its job
(`ErasedIsFenced`): its token is older than the job's or the job is done
(`Lost`), and neither ever changes back (`Claimed`, `LostStep`). The proof
first says what a step may do to a row, a task, a summary, the preference and what an
editor shows (`RowSteps`, `TaskSteps`, `SummarySteps`, `PrefSteps`, `SeenSteps`), and then
derives each conjunct from those. That an informed edit replaces exactly the row that was seen
needs that no version was ever given to two rows, whoever wrote them (`LooksAreTrue`).

Only model-checked: `EveryJobSettles`. Not modelled: the sanitising of model
output, the budget of the context, episodes and working memory.

## The marketing facts

### State and actions

The advertising server accepts requests, each in one transaction that ticks the
input clock of the brand (`epoch`) and leaves a task in the outbox; `rows`,
`status` and `revision` are an event or ledger entry with its latest validation,
`receipts` and `answers` what the idempotency key of a request was answered
with. Tasks are numbered by the tick they were inserted with, which is the order
of both. A payment that validates refunds which waited for it is one step with
several tasks, as in the code. The workers are three steps, `Claim`, `Snapshot`
and `Publish`, each of them a transaction; `Fail` is the handler of any error, a
crash loses what the worker holds, a lease may expire at any time. A commit whose
acknowledgement is lost is followed by a `Fail` of tasks that are done, which
changes nothing. `today` counts days: what the code compares with the clock in
hours or minutes (the five minutes of tolerance for the future, a deadline of one
day) is a matter of whole days.

One brand, environment, rule, source, campaign, product and visitor session are
modelled; ids are numbers, since the code breaks ties by comparing ids. A task is
due again after some wait, so a claim may skip those that back off. `lease_epoch`
and `attempt` are only incremented together and are one number.

The permanent errors of `run_once`, `attribute` and `aggregate` have no action:
`TasksNameFacts` and `FactsAreAttributable` say that accepted facts never give
rise to them. `Fail` may be permanent all the same (the row limits). Neither has
the order that lost its last event (`repository.py:192`): `KnownStays`, a part of
the proved invariant, says that no order does.

### Instances

Requests are independent in most of the state space, and everything at once is
too much for TLC. `MCMarketing` restricts the behaviours to ten scenes: each names
requests, a number of days, of ticks and of attempts, how many workers are busy
at a time, and the first day on which they are. A scene is a family of behaviours
closed under prefixes, and their union is searched in one run. Four scenes are
for the ledger alone (payments and refunds in every order, spend and markers,
repeated impressions), four for one worker (an order moves to another click, an
order is refunded, an old day is rebuilt after a correction, a report is
complete), two for two workers. The windows are shrunk to one day (`LateDays`,
`ClickDays`, `Deadline`) and none (`AutoDays`), so that each of their edges is
reached within four days; the backlog limit is five, which six ticks exceed. The
scenes are where each mutant is found.

### What is proved

`MarketingAggregation_proofs` proves, for every set of requests, markers and
rebuilds, every number of workers and every limit, from `LedgerAssumption`
(finitely many ids, requests of their types) and `AggregationAssumption`:

- `MarketingInvariant`: `Spec => []Inv`, and from it `MarketingIsTyped`,
  `DoneIsPublished`, `PublicationIsRecomputed`, `MetricsOrMarks`, which make up
  `PublicationIsRight`;
- `BacklogStaysBounded` and `CoverageStaysExact`, on top of it;
- `LedgerStaysSound`: `Spec => []LedgerIsSound`, and `CompleteReportsStay`:
  `Spec => CompleteReportsAreFinal`;
- `PublicationsAdvance`, `RebuildsReach`: action properties of every step, which make up
  `PublicationsOnlyAdvance`.

That a current publication equals a recomputation is not inductive. `Snapshots`
says what a worker knows: as long as the clock and the generation are those of its
snapshot, what it computed is what the facts give and the heads it read are the
heads there are. A request either changes no row or ticks the clock
(`IngestTicks`), so a snapshot that is overtaken is recognised; `Fenced` turns the
fences of `publish` into these equations. A sum and the last click are never looked
into: they are functions of the rows (`SameFacts`).

The ledger has an invariant of its own, `FactsInv`: every row is a request that was
received (`RowsAreRequests`), an order has one payment and its refunds sum up to at most
its amount (`OrdersHold`, `RefundsAreOfOrders`), spend minus its adjustments is never
negative (`BooksHold`), a delivery is valid once for its decision (`DeliveredOnce`), and an
answer names the event the key was first used for (`AnswersStand`); `TasksFollow` says that a
task never names a validation the ledger has not reached. Sums are over sets of rows, and
what they do is shown by a least counterexample over the sizes of the sets. Where a payment
validates refunds that waited for it, the accepted ones are those whose running sum stays
within the amount, and that sum is a recursive function.

That a complete report is final rests on days: what becomes valid later is a refund, which
no total of a report counts, or is not older than `today - LateDays`, and an interval that was
complete ended at least that and the window of clicks (`ClickDays`) before. The link of an
order is its latest click, so an order whose clicks are all too old to change keeps it
(`OrderIsFinal`); a click is always one on a decision (`ClicksAreDecisions`), so no link is
mistaken for none.

Not modelled: tokens, scopes and
serving decisions, versions of campaigns and creatives, several sources per
campaign, the arithmetic of the ratios of a report.

## The recall index

### State and actions

A change of an ad and its event are one transaction under the lock of the ad's
shard (`Emit`); `table` has the revision and the attributes of an ad, `log` the
events of a shard. The transaction of a click runs at another isolation level:
what it reads without a lock is older than its lock, so its first read is a step
of its own (`BeginClick`).

A process holds the lease of its consumer (`consumer`, a row of the database) and
remembers where it is (`phase`), its live engine and, while it rebuilds, a shadow.
An engine is four worker threads. `seq` and `docs` are what the workers hold,
`pos` is what the process believes they hold (`Engine.sequences`), and `mail` the
message on its way to a worker. The worker takes the events of a message one by
one (`Apply`), as `Partition.apply` throws on the first that is out of turn. A
poll may fail at any point and leave a message behind, which is applied later.
A manifest is a chain: a full snapshot, and deltas that lead to `seq`. What is
on disk is what the manifest says (checksums are verified by the code), so a
manifest stands for its files.

A document is its revision: what an index holds beyond it is a function of the
event. The table is read at one moment per poll, as a later read would only find
more. A worker is sent one message at a time: the code waits for the answer, or
gives up and restarts with the next poll, which the model starts only when the
message was consumed (`MayPoll`). Nothing observes an engine in the middle of a
message (`AtRest`), since a worker thread answers after it.

A day is longer than a checkpoint, a rebuild, a run of the pruning script, and
the lag of an engine that calls itself ready (`Recent`, `Ages`). With it, the rule
that the pruning script also spares every manifest written in the last day says
nothing new, and it is left out.

### Instance

`MCRecall` restricts behaviours to scenes, as `MCMarketing` does: the ads alone
with clicks; one process with a chain of checkpoints, with restarts and pruning,
with two shards and failures; rebuilds with events in between, with a search
and late messages, with pruning and lost answers; two processes of one consumer
and of two. `PageSize` 2 makes a message of two events and a poll that leaves
some; `MaxDepth` 1 makes the second checkpoint a full one; `Capacity` 3 is
below `MaxSeq` 4, so that the outbox is full until it is pruned; `MaxEpoch` 2 is
one restart.

### What is proved

`RecallIndex_proofs` proves, for any number of processes, consumers, shards and
ads, and every size of a page, depth of a chain and capacity, from
`LogAssumption` and `IndexAssumption`:

- `RecallHolds`: `Spec => []RecallInv`, the inductive invariant;
- `TheIndexIsTheTable` and `TheIndexIsRecoverable`, from it, which make up
  `TheIndexCanBeMadeAgain`.

That an engine is the table as of its position needs what it believes and what
is on its way to it. `SoundEngine` says that `pos` is never ahead of `seq` and
that a message names events that exist; nothing says where a message begins, as
the worker checks that itself (`InTurn`). `Settled` says that an engine that
neither polls nor failed knows what its workers hold, which makes `pos` of a
checkpoint the `seq` of its full snapshot; while a process restores, each message
still ends where its manifest ends.

That deletions spare what a restart needs is a matter of two clocks. The
pruning script uses watermarks it read earlier (`prune`), and a manifest that is
registered in between was written by an engine that may be behind them.
`Pending` says that such a manifest covers everything that is a day old, and so
everything that may be deleted by then (`Spared`); it holds because what is a day
old does not advance past what a process is working on (`Recent`). A process makes
one kind of step (`ProcessMove`): its memory stays sound, and the row of its
consumer keeps its manifest or gets one that covers what is old. Every action is
shown to be such a step.

The other two follow from a second inductive invariant (`HolderInv`) on top of the first:

- `TheHolderKnows`: the holder of a lease knows the manifest of its consumer. The
  epochs of the running processes of a consumer differ and are at most that of its
  row (`Started`), so only the process that was started last registers anything,
  and it remembers what it registered unless the answer was lost (`Knows`);
- `TheReceiptsAreKept`: an answer covers the receipts of its search. The engine
  that was asked stays up and its position only grows until a rebuild replaces it
  (`Pursued`). Every step of a process that does not start or end leaves its epoch
  and manifest alone and its position no smaller (`Onward`).

Not modelled: a worker thread that dies, the pages of a search and its budgets,
ranking, the recovery of a damaged file. A poll that is refused for good after a
timeout (`engine.ts:104`) is safe and is not claimed to end.

## The services

Fifteen components and the pipeline of the hosted runs have a module each and
share nothing in the model but their constants: what one needs of another (a run
that moves, a store that fails, a provider that is slow) is an action of its
module. `MCServices` puts them side by side. `scene` is chosen once, the module of
that scene moves and the others keep their initial values, so one run checks
all of them, each in every interleaving of its own actors. A scene that has a
choice in its initial state makes it only when it is played (`MCInit`). The scenes
have up to some hundred thousand states each. Deadlock is not checked: each scene
stops when its bounds are used up.

| Scene and module | Actors and faults | Checked | Bounds, and what they reach |
| --- | --- | --- | --- |
| `gate`, `ModelGate` | callers that wait, execute, give up or die; commands to Redis that are late or lost, and executed all the same; a deployment with other limits | `ProviderLimit`, `NobodyOvertakes` | 3 callers, one slot, a queue of one: a full gate, a full queue, an expired lease |
| `chat`, `ChatTurns` | two processes that share Redis and keep copies; commands that fail before or after they are executed; turns whose time is over after they have stored a confirmation and before they reply; restarts, expiry | `ConfirmedOnce` | 3 turns: a request, what completes, confirms or cancels it, and another confirmation; one fault |
| `memory`, `ConversationMemory` | two writers that compress, a reader; models that fail, cancelled compressions, expiry | `TellsAll` | 7 messages with compression from 4 on: two compressions in a row and two at once |
| `index`, `KnowledgeIndex` | a builder that may die, an operator who activates, revokes and redeploys, a request | `ActiveIsComplete`, `RevokedNeverQuoted` | 2 generations of 1 and 2 documents, for 2 embeddings |
| `tools`, `ToolCalls` | two callers that may stop waiting; a tool that fails, is slow or is given up | `CachesAgeOut` | a threshold of 2 and clocks of 2 and 3: the breaker opens, probes and closes |
| `faq`, `FaqCache` | two askers; Redis and the embedding fail, requests are cancelled | `CachesAgeOut` | 3 wordings of one question, two of them alike |
| `stream`, `EventStream` | the worker, the user and cleanup of one run; two clients whose streams break | `ToldAsItHappened` | 4 events, pages and batches of 2, batches in no order: logs at the limit, with holes, and purged entirely |
| `sync`, `SyncChat` | two gateways; calls lost at every point and sent again, with another name or text | `ToldAsItHappened` | two requests each, 2 sessions |
| `schema`, `SchemaUpgrade` | three hosts with an older, a newer and an edited release; statements that fail, deaths | `ServesOnItsSchema` | 2 statements per migration, 3 deaths |
| `work`, `Workspaces` | the owner, three runs, one of which may resume another | `CommitsKeepWork` | 3 revisions of 2 contents |
| `skills`, `AgentSkills` | an operator who writes, spoils and removes files while they are listed twice and read | `RulesAreTold` | 3 files, 2 of them named, 2 edits; rules that are cut to their length, prompts that fill the budget |
| `knowledge`, `KnowledgeMigration` | two services that migrate and die, call by call, with or without an old collection; an old release that starts, adds and removes between any two calls | `CopiedOnce` | 4 documents in pages of 2, one that is added and one that is removed, 1 crash |
| `intent`, `IntentRecognition` | an asker; a model that fails or answers anything | `ModelIsNotOutvoted` | 4 messages under two keys, one of them a text of the pages; a cache of 2 |
| `paid`, `PaidExperiment` | two runners of one experiment that die or stop at any point | `ResumedFaithfully` | 3 rows: what all share, and two that decide whether to read, the second of which repeats the question of the first; 2 starts, for each of the eight experiments |
| `dispatch`, `RunDispatch` | see [Dispatch](#dispatch) | `FairShare` | 3 runs of 2 users |
| `pipeline`, `HostedPipeline` | a user who asks, approves, prefers, withdraws, resumes, and forgets here and in other sessions; workers that die or lose their lease | `GoesOnAsAgreed`, `ForgottenStaysOut` | 2 runs, one of which may resume the other; five deployments, of the features that touch each other |
| `studio`, `StudioJobs` | merchants who ask, cancel, retry and withdraw, two workers, a provider whose replies are lost | `OrderedAndKeptOnce` | 1 or 2 jobs: each kind, two videos, two images (a double click), an image beside an analysis or a text; 2 polls |

Some notes on how the code became actions:

- A step is what the code does between two awaits, or one command, transaction or
  file operation, wherever another process can act in between. A Lua script
  (`Admit`), a `MULTI` under `WATCH` (`Swap`) and a transaction of MySQL are one step.
- Times are counted down in a few units; a clock ticks for everybody at once. The
  gate's lease is longer than what may be executed under it (`Grace`), as
  `model_gate.py` computes it.
- In `ChatTurns` a text is what the rules recognise in it: the rule, the fields it
  states, the fields a model guesses, and whether it is a confirmation word.
- In `HostedPipeline` an answer is the set of messages it was made from, followed
  through older replies, preferences and snapshots; that makes what the user forgot
  traceable. A request that is resumed copies the stored input of its parent, and so is a
  copy of the message (`ResumeRun`); what is forgotten is the message, not the copy. A run that
  failed, was cancelled or timed out is just over, also one whose snapshot could not be saved.
  The second validation of the documents (`pipeline.py:354`) is left out; that of a request is
  in `KnowledgeIndex`.
- In `KnowledgeMigration`, `promised` is a history variable: what the old collection held at the
  second count of a service that recorded its copy and saw nothing removed (`shrunk`).
- `ModelGate` keeps the tickets that wait and which of two came first (`ahead`), as the sorted
  set of Redis keeps them by a number that only grows.
- In `AgentSkills` a file is its place in the order of reading, and what is told is a function of
  the skills that are read one after another (`AfterSkill`); `held` is a history of what the
  files held since the last scan began.
- `PaidExperiment` has one set of actions for eight scripts: `Rules` says of each
  what it reads back, what it keeps, what stops it and what it may spend, and the
  definition of each rule names the script. `Repeats` says which rows ask what another row
  asked; a cached reading serves them, if the runner has it. An arm that always reads
  (`Reading`) has no row in the instance, as it behaves like a routed row that reads.
- In `Workspaces`, `lostWork` is a history variable: snapshots that a commit
  replaced although its run never saw them.

None of these modules states fairness: their properties are safety. The promises
that something ends are checked for the hosted runs, the containers and the memory
jobs.

### What is proved

Every promise of these parts is proved for every value of the constants, each from an
inductive invariant of its module. `Services_proofs` has:

- `WorkIsKept`: `WorkSpec => []CommitsKeepWork`, without assumptions. What makes it
  inductive is `SawItsVersion`: a run knows no later version than the workspace has,
  and as long as the version is the one it started from, the snapshot is the one it
  saw. The comparison of versions in `Commit` then is a comparison of snapshots. A
  run that resumes another takes what that one saw with the version the workspace has
  now, which is the same fact only because `MayReopen` compares the versions first.
- `ServiceHasItsSchema`: `SchemaSpec => []ServesOnItsSchema`, from
  `SchemaAssumption` (versions and steps are numbers, and no host is called as the
  free lock is). Who upgrades holds the lock (`LockIsHeld`), what is being applied
  has the checksum of the release that applies it (`AppliesItsOwn`), and neither an
  applied row nor its tables are taken back (`ServesWhatIsApplied`): a
  host may start a migration only if it is not applied, and only the host with
  the lock is in one.
- `ConversationIsTold`: `MemorySpec => []TellsAll`, from `MemoryAssumption`. A writer
  that is to swap has archived what it takes out of the list (`WriterArchivesFirst`),
  and a turn that has read the list finds the rest in the summary
  (`TurnMissesNothing`), since messages move only from the list to the summary.
  `CutInTwo`, `CutIncreasing` and `OneMore` say what cutting and extending a
  sequence does to the messages in it.

- `ActiveGenerationIsComplete`: `IndexSpec => []ActiveIsComplete`, and
  `RevokedIsNeverQuoted`: `IndexSpec => RevokedNeverQuoted`, both from `KnowledgeHolds`
  and `IndexAssumption` (no generation is empty or called as the empty pointer is).
  Vectors are never taken back, so what a builder has seen in a collection is still there
  when it compares and publishes, whoever else builds the same generation (`VectorsStay`).
  What a request holds was not revoked when it began (`Clean`): the search filters at its
  start, and what was revoked later is the business of the check before the delivery.
- `ProviderIsSpared`: `GateSpec => []ProviderLimit`, from `GateHolds` and
  `GateAssumption` (finitely many callers; a lease is granted for longer than a reply
  may take on top of the run). A caller that executes has a lease that lasts longer than
  its execution may, counted from the moment the answer was written, and no command of
  its own is under way that could end or renew it (`LeaseOutlives`); leases are no more
  than the limit. In one event loop the semaphore takes the place of the lease.
- `DocumentsAreCopied`: `KnowledgeSpec => []CopiedOnce`, from `MigrationHolds` and
  `MigrationAssumption` (no default document is one that a release retires or replaces).
  Whatever a service has passed in the old collection is in the new one, or was retired or
  replaced by a service that finished earlier (`Carried`), so that it may record the copy. The
  count and the record are two calls, as are a page and the look for what is missing of it:
  the property speaks of what the collection held at the second count. What the old release
  adds after it, and what the pages skip when it removes as many documents as it adds, is lost
  without an error: only a changed count is noticed (`knowledge_base.py:119-120`).
- `StudioOrdersOnce`: `StudioSpec => []OrderedAndKeptOnce`, from `StudioHolds` and
  `StudioAssumption`. The orders of a job and the workers that may still place one are
  at most one for an image or a video, and at most two for each time a text was asked for
  (`Sound`): a sweep takes back the row of a dead worker but does not queue media again.
  A row that is being claimed is locked by one worker (`Fits`). A second text or video of a
  session is refused while one is under way; a second image need not be, since its check comes
  before the lock.

- `NobodyJumpsTheQueue`: `GateSpec => NobodyOvertakes`, from `InTurn`: of two that wait, one
  came first and stays first. It speaks of the semaphore of one event loop as well as of
  Redis.
- `ActionsAreConfirmedOnce`: `ChatSpec => []ConfirmedOnce`, from `ChatAssumption`. Whatever a
  store or the copy of a process keeps was asked for by a turn that has decided (`IsAskedFor`), and
  what such a turn asked for does not change, be it answered or not: a confirmation is stored
  some awaits before the reply, and the time of the turn may be over in between. What is
  consumed is gone from where it was found, and a copy elsewhere remains only where a command
  to Redis failed, so a confirmation is used once, and once more at most for each such command.
- `ModelDecides`: `IntentSpec => []ModelIsNotOutvoted`. Keywords and templates together weigh
  less than half, and less than the threshold when the model is unsure; what is cached follows
  the model it was made with. The answer of a call that failed is cached like any other, and
  names what templates or keywords found in the message of that call, or nothing.

`ClientPromises_proofs` has the promises that clients see:

- `AgreementsHold`: `PipelineSpec => []GoesOnAsAgreed`, and `WithdrawnHolds`:
  `PipelineSpec => ForgottenStaysOut`. Forgetting a message stops every run of its session that
  could still succeed and may have read it, and cuts the history; what is left to show is that a
  later run finds nothing of it: not before the cut, not in the cache, whose rows are those of
  its version (`Fresh`), not in the replies after the cut, not in a preference. There is one way
  left, and the property says so: the input of a run is not erased, so a request that is
  resumed tells the text again under a message of its own, and so does what is made from that,
  until the user forgets the copy as well (`Covered`). What was learnt in another session and is
  forgotten there stops no run of this one. A run that is resumed never executed its command,
  which holds along the chain of runs that resume each other. The invariant showed that a
  request that failed before its command can be resumed more than once, each time with an
  approval of its own.
- `CachesAreFresh`: `ToolSpec /\ FaqSpec => []CachesAgeOut`. A result of a tool is at most as old
  as the life of an entry and the limit of the call that wrote it add up to. A reviewed answer
  outlives one life of its hash for each other wording kept beside it: a wording that is there
  is only written by a call that missed it before it came, and that call ends soon
  (`WritesAreNear`).
- `ClientsAreTold`: `StreamSpec /\ SyncSpec => []ToldAsItHappened`. A purge deletes a batch in no
  order, so the log of a run that ended may have holes, and none of one that goes on. What is
  still to be sent on a stream are all rows that were stored between the last one that was heard
  and the last one that was read (`Sends`), whatever is purged meanwhile; `expired` is only told
  when the next event is gone. The rows and names a compatible call has found only ever gain
  others (`Later`), so what it heard stays true.
- `RulesReachTheAgents`: `SkillsSpec => []RulesAreTold`. What a scan has found and what it has
  still to read cover every file that held one rule all the time, although the files are
  listed twice and may come and go (`ScanFits`): the second listing leaves out what the first
  one found, and nothing else. The prompt is followed skill by skill. A text may be cut twice, once to
  the length of a skill and once to what is left, and then ends in the dots twice.

`PaidExperiment_proofs` has `PaidOnceAndForAll`: `PaidSpec => []ResumedFaithfully`, from
`PaidAssumption`. A receipt has one owner while its call is under way, and only its owner
pays. The budget of calls counts who is about to create a receipt; the budget of money counts
calls that succeeded only, and what bounds the others is that a call nobody knows the end of
(`Unclear`) is in the way of whoever starts again: until there is a trace all of them belong
to one row, and from then on nobody starts again. What an arm that reads on demand knows when
it is called is exact: the readings its runner keeps of its own rows, and of an earlier run
those it takes from the trace. For the two runners that resume this is not what an
undisturbed run would know, see below.

Much of this follows data: a queue, a running sum, a prompt, the sizes of sets. The provers
have no induction over a formula, so such a fact is shown by a least counterexample: the set
of the lengths at which it fails has a least element (`WellFoundedInduction`), and at that one
it cannot fail, given the one before. The same shows that a recursive function exists and unfolds.

Every property of `services` is proved. What stays with TLC is liveness: that runs end,
slots come back, containers vanish and memory jobs settle.

## Findings

- `sandbox_release`: a container that Docker creates after the confirmed cleanup
  runs its command when the run is over and its slot released
  (`hosting/executor.py:49`; `docs/agent-hosting-implementation.md:82` promises
  the opposite order).
- `dispatch_head`: a queued run of an account that is not active makes every
  `claim` fail until the run times out (`hosting/repository.py:222`;
  `docs/agent-hosting-design.md:171`: no user holds the head of the queue).
- `memory_coverage`: the summary is read before the check for earlier jobs and
  used after it, so the result of an earlier job can be overwritten while the
  watermark covers it (`memory/jobs.py:21`;
  `docs/agent-memory-experience-sdd.md:143`).
- `memory_rebuild`: a summary that lost one of its sources to an erasure is revoked like one the
  user cleared, and no later job writes it again (`memory/repository.py:168`;
  `docs/agent-memory-experience-sdd.md:171`: a summary of mixed sources must be rebuilt).
- `recall_clicks`: a click that waits for a change emits the attributes from
  before it, with a newer revision (`services/recall/repository.ts:160`;
  `docs/ads-recall-sdd.md:234`: the payload is a snapshot of the document).
- `recall_receipts`: receipts are compared with one engine, and another answers
  (`recall/server.ts:290`; `docs/ads-recall-sdd.md:262`: the condition is never
  ignored).

Observed, with no run of their own: `finish` writes `timed_out` to a run that
never was stopping (`hosting/repository.py:281`), which the transition list of
`docs/agent-hosting-design.md:104` does not have.

Places where the code does something else than its comments or documents suggest,
without a property that is refuted:

- `hosting/api.py:296`: a resumed run copies the stored input of its parent, which an erasure
  does not reach (`memory/repository.py:259-291`), so the text of a message that was erased is
  put before the model again and stored as a new message;
  `docs/agent-memory-experience-sdd.md:171` says that erased content cannot be read again through
  an old snapshot. `ForgottenStaysOut` excepts exactly these copies.
- `memory/repository.py:281`: an erasure stops the runs of its own session only; a run of another
  session that has read a preference learnt from the erased message goes on with it.
- `core/action_decision.py:396`: the comment says that fields of the current request
  only are never filled by a model, but the set leaves out `asset_id`.
- `agents/agent_orchestrator.py:488`: `run_parallel` does not look at the urgency that
  `_route` (line 507) escalates.
- `mcp/tool_manager.py:97`: several calls may probe a half-open breaker at once.
- `core/action_decision.py:130`: when Redis fails after a command was executed, the
  copy of a process may be consumed as well; the instance has one such fault, the theorem any
  number.
- `api/main.py:407`: a turn whose time is over after it stored a confirmation is answered with
  504 and never asked, and a "yes" that follows confirms the action all the same.
- `core/intent_recognizer.py:195`: the cache evicts what was inserted first, not what
  was least used, and keeps the results of failed calls.
- `agents/agent_orchestrator.py:134`: calls in flight and cancelled ones count against the
  success rate of an agent.
- `core/faq_cache.py:68`: each write prolongs the life of the answers beside it.
- `core/skill_loader.py:103`: a file that is half written during a reload is left out until
  the next one.
- `api/generation.py:165`: advice quotes its sources without a second validation.
- `hosting/api.py:250`: status, approval and reply are read separately, so a call may be
  told "waiting_approval" without the approval.
- `hosting/repository.py:159`: a run at its limit of events makes `claim`, `approve` and
  `wait_approval` raise.
- `studio/worker.ts:148`: the count of active jobs is read before the lock, so more than
  two may be active; `worker.ts:156`: `attempts` counts successful polls as well, so a
  video that is rendered slowly fails.
- `evaluation/run_image_rag_effect.py:153`: a row that is there already is skipped before the
  cache of readings (line 182) is filled, so after a resumption the rows that repeat a question
  find it empty: they are measured without it and pay another reading, or stop the run when the
  payload is not the one of their receipt.
- `evaluation/run_visual_observation.py:156`: the state of a resumed run also holds what rows read
  that failed afterwards, which an undisturbed run does not have (line 190).

## Not modelled

`PROJECT.json` lists the reason beside each component. In short: what is numeric
(ranking, embeddings, reranking, scores of reports), what only formats or forwards
(prompts, provider streams, the client, the tools that read the advertisement service),
what is one guarded row per operation (campaigns, creatives, projects, tokens), files on
one disk (chunked uploads), and scripts of operators. `update_profile` of the conversation
memory reads, asks the model, deletes and adds without any lock; no document says what
should hold of two of them.

## Plan

Still worth doing:

- a composition of `SyncChat` with `HostedRuns`, in place of the short run in it, and of
  `EventStream` with the same;
- liveness of the gate (a caller that waits is admitted or told so) and of the studio jobs.
