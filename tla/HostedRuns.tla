----------------------------- MODULE HostedRuns -----------------------------
(***************************************************************************)
(* The agent hosting service: users, workers and maintenance passes over   *)
(* one run repository.                                                     *)
(*                                                                         *)
(* A worker here is one of the task slots of hosting/worker.py: Worker.    *)
(* execute with its pipeline and its supervisor. Between two transactions  *)
(* it keeps only what it was given when it claimed the run, so that it can *)
(* act on a run that was meanwhile cancelled, fenced, recovered or claimed *)
(* by somebody else. A sweeper is a pass of Worker.maintain over one run   *)
(* whose lease has expired.                                                *)
(*                                                                         *)
(* A step that awaits a transaction may find that it failed: the refused   *)
(* or failed transaction changes nothing and the caller takes its error    *)
(* path. A crash loses the local state and nothing else.                   *)
(***************************************************************************)
EXTENDS RunRepository

CONSTANTS
  Workers,
  Sweepers,
  MaxClaims,    \* bound: a run at this fence asks for no further approval
  MaxFence      \* bound: beyond this fence a pass over a run neither fails nor races

ASSUME BoundAssumption == MaxClaims \in Nat /\ MaxFence \in Nat

VARIABLES
  task,         \* the local state of every worker
  sweep         \* the local state of every maintenance pass

vars == <<run, active, task, sweep>>

-----------------------------------------------------------------------------
(* work    the pipeline runs, outside any tool                             *)
(* tool    a tool call is registered and its tool_finish not yet written   *)
(* stop    execute knows that the run did not succeed; it is to be stopped *)
(* finish  the sandbox is cleaned and the run is to be finished            *)
Phase == {"work", "tool", "stop", "finish"}

\* What a task knows of the outcome in each phase: success is never stopped first.
Consistent(phase, outcome) ==
  /\ phase = "work"   => outcome = "none"
  /\ phase = "tool"   => outcome # "succeeded"
  /\ phase = "stop"   => outcome \in Outcome \ {"succeeded"}
  /\ phase = "finish" => outcome \in Outcome

\* token is the fence token of the claim; outcome is the status that execute will
\* report, once it knows it.
BusyTask ==
  {t \in [phase : Phase, run : Runs, token : Nat, outcome : Outcome \union {"none"}] :
     Consistent(t.phase, t.outcome)}
IdleTask == [phase |-> "idle", run |-> NoRun, token |-> 0, outcome |-> "none"]
Task     == BusyTask \union {IdleTask}

BusySweep == [phase : {"fence", "recover"}, run : Runs, token : Nat]
IdleSweep == [phase |-> "idle", run |-> NoRun, token |-> 0]
Sweep     == BusySweep \union {IdleSweep}

Init ==
  /\ RepoInit
  /\ task = [w \in Workers |-> IdleTask]
  /\ sweep = [m \in Sweepers |-> IdleSweep]

-----------------------------------------------------------------------------
(* Worker.serve takes a run when the worker has a free slot. *)

ClaimTask(w) ==
  /\ task[w].phase = "idle"
  /\ \E r \in Runs, X \in SUBSET QueueExpired :
       /\ ClaimRun(r, X)
       /\ \/ task' = [task EXCEPT ![w] = [phase |-> "work", run |-> r,
                                          token |-> run'[r].fence,
                                          outcome |-> "none"]]
          \/ UNCHANGED task       \* the worker dies before it starts the task
  /\ UNCHANGED sweep

ClaimNone(w) ==
  /\ task[w].phase = "idle"
  /\ ClaimNothing
  /\ UNCHANGED <<task, sweep>>

\* The supervisor runs as long as the work does.
Supervised(w) == task[w].phase \in {"work", "tool"} /\ task[w].outcome = "none"

\* It renews the lease unless it sees that the deadline has passed.
Renew(w) ==
  /\ Supervised(w)
  /\ "run" \notin run[task[w].run].overdue
  /\ Heartbeat(task[w].run, task[w].token)
  /\ UNCHANGED <<task, sweep>>

-----------------------------------------------------------------------------
(* The pipeline. *)

\* A worker that has an outcome other than success first marks the run as stopping.
AfterWork(outcome) == IF outcome = "succeeded" THEN "finish" ELSE "stop"

\* The pipeline returned, or raised, or the process is shutting down.
WorkEnds(w) ==
  /\ task[w].phase = "work"
  /\ \E outcome \in {"succeeded", "failed", "timed_out", "interrupted"} :
       task' = [task EXCEPT ![w].phase = AfterWork(outcome), ![w].outcome = outcome]
  /\ UNCHANGED <<run, active, sweep>>

\* Faulty: the supervisor only polls for the stop mark.
StopMarkOnly(w) == IF run[task[w].run].status = "stopping" THEN {"cancelled"} ELSE {}

\* What the supervisor can see: the stop mark, the deadline (which it compares
\* with the clock itself, also when the run is over), a lost lease.
SupervisorVerdict(w) ==
  LET r == task[w].run IN
    (IF run[r].status = "stopping" THEN {"cancelled"} ELSE {})
      \union (IF "run" \in run[r].overdue \/ run[r].status \in Terminal
                THEN {"timed_out"} ELSE {})
      \union (IF ~GuardStopping(r, task[w].token) THEN {"failed"} ELSE {})

\* It cancels the work; a tool in progress unwinds and records its end first.
SupervisorStops(w) ==
  /\ Supervised(w)
  /\ \E outcome \in SupervisorVerdict(w) :
       task' = [task EXCEPT ![w].phase = IF @ = "work" THEN "stop" ELSE @,
                            ![w].outcome = outcome]
  /\ UNCHANGED <<run, active, sweep>>

\* tool_start is registered; when the work is cancelled during the call, the
\* transaction may commit although nobody waits for it any more.
StartTool(w) ==
  /\ task[w].phase = "work"
  /\ ToolStart(task[w].run, task[w].token)
  /\ \/ task' = [task EXCEPT ![w].phase = "tool"]
     \/ \E outcome \in {"failed", "timed_out", "interrupted"} :
          task' = [task EXCEPT ![w].phase = "stop", ![w].outcome = outcome]
  /\ UNCHANGED sweep

\* The process is asked to shut down while the tool runs.
ToolInterrupted(w) ==
  /\ task[w].phase = "tool"
  /\ task[w].outcome = "none"
  /\ task' = [task EXCEPT ![w].outcome = "interrupted"]
  /\ UNCHANGED <<run, active, sweep>>

\* tool_finish, in the finally clause of RunContext.tool; it may be refused or fail.
ToolEnds(w) ==
  /\ task[w].phase = "tool"
  /\ \/ /\ ToolFinish(task[w].run, task[w].token)
        /\ task' = [task EXCEPT ![w].phase = IF task[w].outcome = "none" THEN "work" ELSE "stop"]
     \/ /\ task' = [task EXCEPT ![w].phase = "stop",
                                ![w].outcome = IF @ = "none" THEN "failed" ELSE @]
        /\ UNCHANGED <<run, active>>
  /\ UNCHANGED sweep

\* wait_approval parks the run and the task ends; when the supervisor finds the
\* lease gone first, the task goes on to its error path instead.
AskApproval(w) ==
  /\ task[w].phase = "work"
  /\ run[task[w].run].fence < MaxClaims
  /\ WaitApproval(task[w].run, task[w].token)
  /\ \/ task' = [task EXCEPT ![w] = IdleTask]
     \/ task' = [task EXCEPT ![w].phase = "stop", ![w].outcome = "failed"]
  /\ UNCHANGED sweep

-----------------------------------------------------------------------------
(* The end of Worker.execute: any failure leaves the run to the recovery. *)

StopRun(w) ==
  /\ task[w].phase = "stop"
  /\ \/ /\ Stop(task[w].run, task[w].token, task[w].outcome)
        /\ task' = [task EXCEPT ![w].phase = "finish"]
     \/ /\ ~GuardStopping(task[w].run, task[w].token)
        /\ task' = [task EXCEPT ![w] = IdleTask]
        /\ UNCHANGED <<run, active>>
  /\ UNCHANGED sweep

\* After SandboxClient.cleanup has confirmed that the run has no container left.
FinishRun(w) ==
  /\ task[w].phase = "finish"
  /\ \/ Finish(task[w].run, task[w].token, task[w].outcome)
     \/ ~GuardStopping(task[w].run, task[w].token) /\ UNCHANGED <<run, active>>
  /\ task' = [task EXCEPT ![w] = IdleTask]
  /\ UNCHANGED sweep

\* The process dies, or stop, cleanup or finish raises and is logged.
Abandon(w) ==
  /\ task[w].phase # "idle"
  /\ task' = [task EXCEPT ![w] = IdleTask]
  /\ UNCHANGED <<run, active, sweep>>

-----------------------------------------------------------------------------
(* Worker.maintain over the runs whose lease has expired. *)

Alone(m, r) == \A n \in Sweepers \ {m} : sweep[n].run # r

\* The row is read without a lock; it may be stale when it is used.
SweepRead(m) ==
  /\ sweep[m].phase = "idle"
  /\ \E r \in Runs :
       /\ LeaseLost(r)
       /\ run[r].fence < MaxFence \/ Alone(m, r)
       /\ sweep' = [sweep EXCEPT ![m] = [phase |-> "fence", run |-> r, token |-> run[r].fence]]
  /\ UNCHANGED <<run, active, task>>

SweepFence(m) ==
  /\ sweep[m].phase = "fence"
  /\ \/ /\ FenceExpired(sweep[m].run, sweep[m].token)
        /\ sweep' = [sweep EXCEPT ![m].phase = "recover",
                                  ![m].token = run'[sweep[m].run].fence]
     \/ /\ ~(LeaseLost(sweep[m].run) /\ run[sweep[m].run].fence = sweep[m].token)
        /\ sweep' = [sweep EXCEPT ![m] = IdleSweep]
        /\ UNCHANGED <<run, active>>
  /\ UNCHANGED task

\* After the cleanup between the two transactions has confirmed the same.
SweepRecover(m) ==
  /\ sweep[m].phase = "recover"
  /\ \/ Recover(sweep[m].run, sweep[m].token)
     \/ /\ ~(LeaseLost(sweep[m].run) /\ run[sweep[m].run].fence = sweep[m].token)
        /\ UNCHANGED <<run, active>>
  /\ sweep' = [sweep EXCEPT ![m] = IdleSweep]
  /\ UNCHANGED task

\* The cleanup raises, or the process dies, and the rest of the pass is dropped.
\* (Before the fencing transaction this is the same as not having read the row.)
SweepAbandon(m) ==
  /\ sweep[m].phase = "recover"
  /\ run[sweep[m].run].fence < MaxFence
  /\ sweep' = [sweep EXCEPT ![m] = IdleSweep]
  /\ UNCHANGED <<run, active, task>>

-----------------------------------------------------------------------------
UserStep(r) ==
  /\ CreateRun(r) \/ Cancel(r) \/ SuppressSource(r) \/ \E allow \in BOOLEAN : Approve(r, allow)
  /\ UNCHANGED <<task, sweep>>

TimePasses(r) ==
  /\ LeaseExpires(r) \/ DeadlinePasses(r) \/ QueueDeadlinePasses(r) \/ ApprovalExpires(r)
  /\ UNCHANGED <<task, sweep>>

Expire == ExpireWaiting /\ UNCHANGED <<task, sweep>>

WorkerProgress(w) ==
  \/ ClaimTask(w) \/ ClaimNone(w) \/ Renew(w)
  \/ WorkEnds(w) \/ SupervisorStops(w)
  \/ StartTool(w) \/ ToolInterrupted(w) \/ ToolEnds(w)
  \/ AskApproval(w)
  \/ StopRun(w) \/ FinishRun(w)

SweeperProgress(m) ==
  SweepRead(m) \/ SweepFence(m) \/ SweepRecover(m)

Next ==
  \/ \E r \in Runs : UserStep(r) \/ TimePasses(r)
  \/ \E w \in Workers : WorkerProgress(w) \/ Abandon(w)
  \/ \E m \in Sweepers : SweeperProgress(m) \/ SweepAbandon(m)
  \/ Expire

Spec == Init /\ [][Next]_vars

-----------------------------------------------------------------------------
(* Properties. *)

TypeOK ==
  /\ run \in [Runs -> Row]
  /\ active \in [Sessions -> Runs \union {NoRun}]
  /\ task \in [Workers -> Task]
  /\ sweep \in [Sweepers -> Sweep]

\* A session points at a run exactly as long as that run is not over, so it
\* never has two runs in progress and never stays blocked by a finished one.
SessionSlot ==
  \A r \in Runs : active[SessionOf[r]] = r <=> run[r].status \in Waiting \union Active

Owns(w) == task[w].phase # "idle" /\ task[w].token = run[task[w].run].fence

\* No two workers hold the current fence token of one run: at most one of them
\* can still write to it, however often it was parked, claimed or recovered.
OneOwner ==
  \A w1, w2 \in Workers :
    Owns(w1) /\ Owns(w2) /\ task[w1].run = task[w2].run => w1 = w2

\* While the sandbox of a fenced run is removed, and until it is recovered, no
\* worker holds a token that the repository would still accept.
FencedOut ==
  \A m \in Sweepers, w \in Workers :
    /\ sweep[m].phase = "recover"
    /\ task[w].phase # "idle"
    /\ task[w].run = sweep[m].run
    => task[w].token < sweep[m].token

\* Whoever ended a run - its worker, a user, the recovery or an expiry - left no
\* tool running and no approval pending behind, and kept no lease.
NothingLeftOpen ==
  \A r \in Runs :
    /\ run[r].approval = "pending" <=> run[r].status = "waiting_approval"
    /\ run[r].tool = "running" => run[r].status \in Active
    /\ run[r].lease # "none" <=> run[r].status \in Active

\* What is over is let go, whoever ended it: of its session, its lease, its tool and its
\* approval (finish, recover, cancel, expire_waiting).
FinishedIsReleased == SessionSlot /\ NothingLeftOpen

\* A run has one owner at a time, and none while it is cleaned up (claim, expired, recover).
Ownership == OneOwner /\ FencedOut

(* Why they hold: the inductive invariant. *)

\* A run that is being stopped has a reason, and a run with a reason is being
\* stopped or has ended with it.
Reasons ==
  \A r \in Runs :
    /\ run[r].status = "stopping" => run[r].stopReason # "none"
    /\ run[r].stopReason # "none" => run[r].status \in {"stopping", run[r].stopReason}

\* A token is taken from the row, whose fence only grows.
Tokens ==
  /\ \A w \in Workers : task[w].phase # "idle" => task[w].token <= run[task[w].run].fence
  /\ \A m \in Sweepers : sweep[m].phase # "idle" => sweep[m].token <= run[sweep[m].run].fence

\* The worker that may park a run has no tool call open.
ToolsOwned ==
  \A w \in Workers : Owns(w) /\ task[w].phase = "work" => run[task[w].run].tool # "running"

\* A run that was fenced is never executed again.
FencedStays ==
  \A m \in Sweepers :
    sweep[m].phase = "recover" => run[sweep[m].run].status \in {"stopping"} \union Terminal

\* Everything that a step of one process may rely on about all the others.
Inv ==
  /\ TypeOK /\ SessionSlot /\ NothingLeftOpen /\ Reasons
  /\ Tokens /\ OneOwner /\ ToolsOwned /\ FencedStays /\ FencedOut

\* A late worker, a stale recovery or a second decision never changes a run that
\* is over, nor its tool call or approval.
TerminalIsFinal ==
  [][\A r \in Runs : run[r].status \in Terminal => run'[r] = run[r]]_vars

\* A run that was asked to stop stays on its way to the first reason it was given:
\* a late success, a second cancel, a stop by its worker and the recovery, in any
\* order, neither replace the reason nor end the run in another status.
FirstReasonWins ==
  [][\A r \in Runs : run[r].stopReason # "none" =>
       /\ run'[r].stopReason = run[r].stopReason
       /\ run'[r].status \in {"stopping", run[r].stopReason}]_vars

\* A token that the guard refused once is refused for ever: a lease that expired is
\* not revived, and a fenced or stopped run not resumed under the same token. The
\* executor removes a container, and a worker gives up its run, on one refusal.
RefusedForGood ==
  [][\A r \in Runs : \A token \in 1..run[r].fence :
       ~Guard(r, token) => ~Guard(r, token)']_vars

\* A run is reported as succeeded only by the worker that owns it, whose pipeline
\* returned, before the deadline, the lease and any request to stop came in between.
SuccessIsEarned ==
  [][\A r \in Runs :
       run'[r].status = "succeeded" /\ run[r].status # "succeeded" =>
         /\ run[r].status = "running" /\ run[r].lease = "live"
         /\ "run" \notin run[r].overdue
         /\ \E w \in Workers : /\ task[w].phase = "finish" /\ task[w].outcome = "succeeded"
                               /\ task[w].run = r /\ Owns(w)]_vars

\* A run ends once, with the first reason it was given or a success that its owner earned,
\* and no late answer changes that (finish, stop, cancel, recover, heartbeat).
EndsOnce == TerminalIsFinal /\ FirstReasonWins /\ SuccessIsEarned /\ RefusedForGood

-----------------------------------------------------------------------------
(* The service implements the life cycle that it promises. *)

Life(status) ==
  CASE status = "absent"           -> "none"
    [] status \in Waiting          -> "waiting"
    [] status = "running"          -> "executing"
    [] status = "stopping"         -> "stopping"
    [] status = "succeeded"        -> "succeeded"
    [] OTHER                       -> "unsuccessful"

Lifecycle == INSTANCE RunLifecycle WITH life <- [r \in Runs |-> Life(run[r].status)]

\* Whatever workers, users, sweepers and crashes do, their combined effect on the
\* runs is one that the life cycle allows.
ImplementsLifecycle == Lifecycle!Spec

-----------------------------------------------------------------------------
(* Liveness, under the fairness of a specification that extends this one.   *)

Renewed(r) == \E w \in Workers : Supervised(w) /\ task[w].run = r /\ Owns(w)

\* Every run that was accepted is over some day, whatever its user, its pipeline
\* and the crashes of its workers do, so that its session accepts a new run.
EveryRunEnds ==
  \A r \in Runs : run[r].status # "absent" ~> run[r].status \in Terminal

\* A worker does not hang on to a run that was cancelled, fenced or recovered
\* behind its back: its task slot comes back.
SlotsComeBack ==
  \A w \in Workers : task[w].phase # "idle" ~> task[w].phase = "idle"

=============================================================================
