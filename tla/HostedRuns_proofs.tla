-------------------------- MODULE HostedRuns_proofs --------------------------
(***************************************************************************)
(* Theorems about HostedRuns, for all values of its constants: type        *)
(* correctness, then safety. The argument of the second has two layers:    *)
(* what a transaction may do to a row, whoever runs it (RowStep, RowOK),   *)
(* and what the processes may conclude from their tokens when every row    *)
(* only moves that way. At the end: the service implements RunLifecycle,   *)
(* one lemma for each transaction, and stays within its limits, because    *)
(* the steps of the life cycle do. Then, about RunDispatch: the order in   *)
(* which runs are dispatched gives every user its share.                   *)
(***************************************************************************)
EXTENDS HostedRuns, RunDispatch, FiniteSetTheorems, TLAPS

RepoType ==
  /\ run \in [Runs -> Row]
  /\ active \in [Sessions -> Runs \union {NoRun}]

\* The statuses that are named are statuses, the reasons for a stop are outcomes.
LEMMA Constants ==
  /\ {"absent"} \union Waiting \union Active \union Terminal \subseteq Status
  /\ {"queued", "waiting_approval", "running", "stopping"} \subseteq Status
  /\ Outcome \subseteq Status
  /\ {"cancelled", "timed_out", "failed", "interrupted"} \subseteq StopReason
  /\ {"cancelled", "timed_out", "failed", "interrupted"} \subseteq Outcome
  /\ StopReason \ {"none"} \subseteq Outcome
  /\ Outcome \ {"succeeded"} \subseteq StopReason
  /\ {"queue", "run", "approval"} = Deadline
BY DEF Status, Waiting, Active, Terminal, StopReason, Outcome, Deadline

\* A row that is closed is a row with its outcome.
LEMMA ClosedType ==
  ASSUME NEW row \in Row, NEW outcome \in Outcome
  PROVE  /\ Closed(row, outcome) \in Row
         /\ Closed(row, outcome).status = outcome
         /\ Closed(row, outcome).fence = row.fence
         /\ Closed(row, outcome).stopReason = row.stopReason
<1>1. outcome \in Status BY Constants
<1>2. {} \in SUBSET Deadline OBVIOUS
<1>3. (IF row.tool = "running" THEN "interrupted" ELSE row.tool) \in {"none", "running", "done", "interrupted"}
  BY DEF Row
<1>4. (IF row.approval = "pending" THEN "expired" ELSE row.approval)
        \in {"none", "pending", "approved", "rejected", "expired"}
  BY DEF Row
<1>5. Closed(row, outcome) \in Row
  BY <1>1, <1>2, <1>3, <1>4 DEF Closed, Row
<1>6. Closed(row, outcome).status = outcome BY DEF Closed, Row
<1>7. Closed(row, outcome).fence = row.fence BY DEF Closed, Row
<1>8. Closed(row, outcome).stopReason = row.stopReason BY DEF Closed, Row
<1> QED BY <1>5, <1>6, <1>7, <1>8

\* Runs that are finished together keep their types.
LEMMA FinishAllType ==
  ASSUME RepoType, NEW X \in SUBSET Runs, NEW outcome \in Outcome, FinishAll(X, outcome)
  PROVE  RepoType'
BY ClosedType DEF RepoType, FinishAll, Released

\* A run that is created keeps the types.
LEMMA CreateType == ASSUME RepoType, NEW r \in Runs, CreateRun(r) PROVE RepoType'
<1>1. run' \in [Runs -> Row] BY Constants DEF RepoType, CreateRun, Row
<1>2. active' \in [Sessions -> Runs \union {NoRun}]
  BY RepositoryAssumption DEF RepoType, CreateRun
<1> QED BY <1>1, <1>2 DEF RepoType

\* A row that is claimed is a row.
LEMMA ClaimedRow ==
  ASSUME NEW row \in Row
  PROVE  [row EXCEPT !.status = "running", !.lease = "live", !.fence = @ + 1] \in Row
<1>1. row.fence + 1 \in Nat BY DEF Row
<1> QED BY <1>1, Constants DEF Row

\* A claim keeps the types, with what it finds expired.
LEMMA ClaimType ==
  ASSUME RepoType, NEW r \in Runs, NEW X \in SUBSET QueueExpired, ClaimRun(r, X)
  PROVE  RepoType' /\ run'[r].fence \in Nat
<1>1. \A q \in Runs : run[q] \in Row /\ Closed(run[q], "timed_out") \in Row
  BY ClosedType DEF RepoType, Outcome, Terminal
<1>2. \A q \in Runs : run'[q] \in Row
  BY <1>1, ClaimedRow DEF ClaimRun
<1>3. active' \in [Sessions -> Runs \union {NoRun}]
  BY DEF RepoType, ClaimRun, Released
<1>4. run' \in [Runs -> Row] BY <1>2 DEF ClaimRun
<1> QED BY <1>2, <1>3, <1>4 DEF RepoType, Row

\* A cancellation keeps the types.
LEMMA CancelType == ASSUME RepoType, NEW r \in Runs, Cancel(r) PROVE RepoType'
<1>1. CASE FinishAll({r}, "cancelled")
  BY <1>1, FinishAllType DEF Outcome, Terminal
<1>2. CASE /\ run' = [run EXCEPT ![r].status = "stopping", ![r].stopReason = "cancelled"]
           /\ UNCHANGED active
  <2>1. [run[r] EXCEPT !.status = "stopping", !.stopReason = "cancelled"] \in Row
    BY Constants DEF RepoType, Row
  <2> QED BY <1>2, <2>1 DEF RepoType
<1> QED BY <1>1, <1>2 DEF Cancel

\* A decision of the user keeps the types.
LEMMA ApproveType ==
  ASSUME RepoType, NEW r \in Runs, NEW allow \in BOOLEAN, Approve(r, allow) PROVE RepoType'
<1>1. CASE FinishAll({r}, "timed_out")
  BY <1>1, FinishAllType DEF Outcome, Terminal
<1>2. CASE /\ run' = [run EXCEPT ![r] = Closed([@ EXCEPT !.approval = "rejected"], "cancelled")]
           /\ active' = Released({r})
  <2>1. [run[r] EXCEPT !.approval = "rejected"] \in Row BY DEF RepoType, Row
  <2>2. Closed([run[r] EXCEPT !.approval = "rejected"], "cancelled") \in Row
    BY <2>1, ClosedType DEF Outcome, Terminal
  <2> QED BY <1>2, <2>2 DEF RepoType, Released
<1>3. CASE /\ run' = [run EXCEPT ![r].approval = "approved", ![r].status = "queued",
                                 ![r].overdue = @ \ {"queue"}]
           /\ UNCHANGED active
  <2>1. [run[r] EXCEPT !.approval = "approved", !.status = "queued",
                       !.overdue = @ \ {"queue"}] \in Row
    BY Constants DEF RepoType, Row
  <2> QED BY <1>3, <2>1 DEF RepoType
<1> QED BY <1>1, <1>2, <1>3 DEF Approve

\* The transactions of a worker keep the types.
LEMMA WorkerTransactionType ==
  ASSUME RepoType, NEW r \in Runs, NEW token \in Nat
  PROVE  /\ Heartbeat(r, token) => RepoType'
         /\ \A reason \in Terminal \ {"succeeded"} : Stop(r, token, reason) => RepoType'
         /\ \A proposed \in Outcome : Finish(r, token, proposed) => RepoType'
         /\ ToolStart(r, token) => RepoType'
         /\ ToolFinish(r, token) => RepoType'
         /\ WaitApproval(r, token) => RepoType'
<1>1. ASSUME Heartbeat(r, token) PROVE RepoType'
  BY <1>1 DEF RepoType, Heartbeat, Row
<1>2. ASSUME NEW reason \in Terminal \ {"succeeded"}, Stop(r, token, reason) PROVE RepoType'
  <2>1. [run[r] EXCEPT !.status = "stopping", !.stopReason = reason] \in Row
    BY Constants DEF RepoType, Row, Outcome
  <2> QED BY <1>2, <2>1 DEF RepoType, Stop
<1>3. ASSUME NEW proposed \in Outcome, Finish(r, token, proposed) PROVE RepoType'
  <2>1. FinishOutcome(r, proposed) \in Outcome
    BY DEF FinishOutcome, RepoType, Row, StopReason, Outcome, Terminal
  <2> QED BY <1>3, <2>1, FinishAllType DEF Finish
<1>4. ASSUME ToolStart(r, token) PROVE RepoType'
  BY <1>4 DEF RepoType, ToolStart, Row
<1>5. ASSUME ToolFinish(r, token) PROVE RepoType'
  BY <1>5 DEF RepoType, ToolFinish, Row
<1>6. ASSUME WaitApproval(r, token) PROVE RepoType'
  <2>1. [run[r] EXCEPT !.status = "waiting_approval", !.lease = "none",
                       !.approval = "pending", !.overdue = @ \ {"approval"}] \in Row
    BY Constants DEF RepoType, Row
  <2> QED BY <1>6, <2>1 DEF RepoType, WaitApproval
<1> QED BY <1>1, <1>2, <1>3, <1>4, <1>5, <1>6

\* The transactions of a sweeper keep the types.
LEMMA MaintenanceType ==
  ASSUME RepoType, NEW r \in Runs, NEW token \in Nat
  PROVE  /\ FenceExpired(r, token) => RepoType' /\ run'[r].fence \in Nat
         /\ Recover(r, token) => RepoType'
<1>1. ASSUME FenceExpired(r, token) PROVE RepoType' /\ run'[r].fence \in Nat
  BY <1>1 DEF RepoType, FenceExpired, Row, Status, Active, StopReason, Terminal
<1>2. ASSUME Recover(r, token) PROVE RepoType'
  <2>1. [run[r] EXCEPT !.fence = token + 1] \in Row BY DEF RepoType, Row
  <2>2. RecoverOutcome(r) \in Outcome
    BY DEF RecoverOutcome, RepoType, Row, StopReason, Outcome, Terminal
  <2>3. Closed([run[r] EXCEPT !.fence = token + 1], RecoverOutcome(r)) \in Row
    BY <2>1, <2>2, ClosedType
  <2> QED BY <1>2, <2>3 DEF RepoType, Recover, Released
<1> QED BY <1>1, <1>2

\* Expiry keeps the types.
LEMMA ExpiryType ==
  ASSUME RepoType, ExpireWaiting \/ ClaimNothing PROVE RepoType'
<1>1. CASE ExpireWaiting
  BY <1>1, FinishAllType DEF ExpireWaiting, WaitingExpired, In, Outcome, Terminal
<1>2. CASE ClaimNothing
  BY <1>2, FinishAllType DEF ClaimNothing, QueueExpired, In, Outcome, Terminal
<1> QED BY <1>1, <1>2

\* The passing of time keeps the types.
LEMMA TimeType ==
  ASSUME RepoType, NEW r \in Runs
  PROVE  LeaseExpires(r) \/ DeadlinePasses(r) \/ QueueDeadlinePasses(r) \/ ApprovalExpires(r)
           => RepoType'
<1>1. ASSUME LeaseExpires(r) PROVE RepoType' BY <1>1 DEF RepoType, LeaseExpires, Row
<1>2. ASSUME DeadlinePasses(r) PROVE RepoType' BY <1>2 DEF RepoType, DeadlinePasses, Row
<1>3. ASSUME QueueDeadlinePasses(r) PROVE RepoType'
  BY <1>3 DEF RepoType, QueueDeadlinePasses, Row, Deadline
<1>4. ASSUME ApprovalExpires(r) PROVE RepoType'
  BY <1>4 DEF RepoType, ApprovalExpires, Row, Deadline
<1> QED BY <1>1, <1>2, <1>3, <1>4

-----------------------------------------------------------------------------
(* Type correctness. *)

\* The first state is typed.
LEMMA TypeInit == Init => TypeOK
<1> SUFFICES ASSUME Init PROVE TypeOK
  OBVIOUS
<1>1. Unborn \in Row BY DEF Unborn, Row, Status, StopReason
<1>2. RepoType BY <1>1 DEF Init, RepoInit, RepoType
<1>3. task \in [Workers -> Task] BY DEF Init, Task
<1>4. sweep \in [Sweepers -> Sweep] BY DEF Init, Sweep
<1> QED BY <1>2, <1>3, <1>4 DEF TypeOK, RepoType

\* The tasks of those that work are typed.
LEMMA BusyTyped ==
  ASSUME TypeOK
  PROVE  /\ \A w \in Workers : task[w].phase # "idle" => task[w] \in BusyTask
         /\ \A m \in Sweepers : sweep[m].phase # "idle" => sweep[m] \in BusySweep
BY DEF TypeOK, Task, IdleTask, Sweep, IdleSweep

\* A task that goes on to a phase that fits its outcome is a task.
LEMMA TaskUpdate ==
  ASSUME NEW t \in BusyTask, NEW phase \in Phase, NEW outcome \in Outcome \union {"none"}
  PROVE  /\ Consistent(phase, outcome) =>
              [t EXCEPT !.phase = phase, !.outcome = outcome] \in BusyTask
         /\ Consistent(phase, t.outcome) => [t EXCEPT !.phase = phase] \in BusyTask
         /\ Consistent(t.phase, outcome) => [t EXCEPT !.outcome = outcome] \in BusyTask
BY DEF BusyTask

\* The fields of a task, one by one.
LEMMA TaskKnown ==
  ASSUME NEW t \in BusyTask
  PROVE  /\ Consistent(t.phase, t.outcome)
         /\ t.phase \in Phase /\ t.outcome \in Outcome \union {"none"}
         /\ t.run \in Runs /\ t.token \in Nat
BY DEF BusyTask

\* What follows the work of a run fits its outcome.
LEMMA AfterWorkPhase ==
  ASSUME NEW outcome \in Outcome
  PROVE  AfterWork(outcome) \in Phase /\ Consistent(AfterWork(outcome), outcome)
BY DEF AfterWork, Phase, Consistent

\* The outcomes and phases, listed.
LEMMA Outcomes ==
  /\ {"succeeded", "failed", "cancelled", "timed_out", "interrupted"} = Outcome
  /\ {"work", "tool", "stop", "finish"} = Phase
BY DEF Outcome, Terminal, Phase

\* A worker that stops its run has an outcome that a stop may have.
LEMMA StopConsistent ==
  \A outcome \in {"failed", "timed_out", "interrupted"} : Consistent("stop", outcome)
BY Outcomes DEF Consistent

\* One step per action of a worker: the row, by the lemmas above, and the task.
LEMMA WorkerType ==
  ASSUME TypeOK, NEW w \in Workers, WorkerProgress(w) \/ Abandon(w)
  PROVE  TypeOK'
<1> DEFINE r == task[w].run
           token == task[w].token
<1>1. RepoType /\ task \in [Workers -> Task] /\ sweep \in [Sweepers -> Sweep]
  BY DEF TypeOK, RepoType
<1>2. task[w].phase # "idle" => task[w] \in BusyTask /\ r \in Runs /\ token \in Nat
  BY BusyTyped DEF BusyTask
<1>3. SUFFICES RepoType' /\ task' \in [Workers -> Task] /\ sweep' = sweep
  BY <1>1 DEF TypeOK, RepoType
<1>4. CASE ClaimTask(w)
  <2>1. PICK q \in Runs, X \in SUBSET QueueExpired :
          /\ ClaimRun(q, X)
          /\ \/ task' = [task EXCEPT ![w] = [phase |-> "work", run |-> q,
                                             token |-> run'[q].fence, outcome |-> "none"]]
             \/ UNCHANGED task
    BY <1>4 DEF ClaimTask
  <2>2. RepoType' /\ run'[q].fence \in Nat BY <1>1, <2>1, ClaimType
  <2>3. [phase |-> "work", run |-> q, token |-> run'[q].fence, outcome |-> "none"] \in BusyTask
    BY <2>2, Outcomes DEF BusyTask, Consistent
  <2> QED BY <1>1, <1>4, <2>1, <2>2, <2>3 DEF ClaimTask, Task
<1>5. CASE ClaimNone(w)
  BY <1>1, <1>5, ExpiryType DEF ClaimNone
<1>6. CASE Renew(w)
  BY <1>1, <1>2, <1>6, WorkerTransactionType DEF Renew, Supervised
<1>7. CASE WorkEnds(w)
  <2>1. PICK outcome \in {"succeeded", "failed", "timed_out", "interrupted"} :
          task' = [task EXCEPT ![w].phase = AfterWork(outcome), ![w].outcome = outcome]
    BY <1>7 DEF WorkEnds
  <2>2. task[w] \in BusyTask BY <1>2, <1>7 DEF WorkEnds
  <2>3. [task[w] EXCEPT !.phase = AfterWork(outcome), !.outcome = outcome] \in BusyTask
    BY <2>2, TaskUpdate, AfterWorkPhase, Outcomes
  <2> QED BY <1>1, <1>7, <2>1, <2>3 DEF WorkEnds, RepoType, Task
<1>8. CASE SupervisorStops(w)
  <2>1. PICK outcome \in SupervisorVerdict(w) :
          task' = [task EXCEPT ![w].phase = IF @ = "work" THEN "stop" ELSE @, ![w].outcome = outcome]
    BY <1>8 DEF SupervisorStops
  <2>2. outcome \in Outcome \ {"succeeded"} BY Outcomes DEF SupervisorVerdict
  <2>3. task[w] \in BusyTask /\ task[w].phase \in {"work", "tool"}
    BY <1>2, <1>8 DEF SupervisorStops, Supervised
  <2> DEFINE phase == IF task[w].phase = "work" THEN "stop" ELSE task[w].phase
  <2>4. phase \in Phase /\ Consistent(phase, outcome)
    BY <2>2, <2>3, Outcomes DEF Consistent
  <2>5. [task[w] EXCEPT !.phase = phase, !.outcome = outcome] \in BusyTask
    BY <2>2, <2>3, <2>4, TaskUpdate
  <2> QED BY <1>1, <1>8, <2>1, <2>5 DEF SupervisorStops, RepoType, Task
<1>9. CASE StartTool(w)
  <2>1. task[w] \in BusyTask /\ r \in Runs /\ token \in Nat BY <1>2, <1>9 DEF StartTool
  <2>2. RepoType' BY <1>1, <1>9, <2>1, WorkerTransactionType DEF StartTool
  <2>3. CASE task' = [task EXCEPT ![w].phase = "tool"]
    <3>1. Consistent("tool", task[w].outcome)
      BY <1>9, <2>1, TaskKnown, Outcomes DEF StartTool, Consistent
    <3>2. [task[w] EXCEPT !.phase = "tool"] \in BusyTask BY <2>1, <3>1, TaskUpdate, Outcomes
    <3> QED BY <1>1, <1>9, <2>2, <2>3, <3>2 DEF StartTool, Task
  <2>4. CASE \E outcome \in {"failed", "timed_out", "interrupted"} :
               task' = [task EXCEPT ![w].phase = "stop", ![w].outcome = outcome]
    <3>1. PICK outcome \in {"failed", "timed_out", "interrupted"} :
            task' = [task EXCEPT ![w].phase = "stop", ![w].outcome = outcome]
      BY <2>4
    <3>2. [task[w] EXCEPT !.phase = "stop", !.outcome = outcome] \in BusyTask
      BY <2>1, TaskUpdate, StopConsistent, Outcomes
    <3> QED BY <1>1, <1>9, <2>2, <3>1, <3>2 DEF StartTool, Task
  <2> QED BY <1>9, <2>3, <2>4 DEF StartTool
<1>10. CASE ToolInterrupted(w)
  <2>1. task[w] \in BusyTask /\ task[w].phase = "tool" BY <1>2, <1>10 DEF ToolInterrupted
  <2>2. Consistent(task[w].phase, "interrupted") BY <2>1 DEF Consistent
  <2>3. [task[w] EXCEPT !.outcome = "interrupted"] \in BusyTask
    BY <2>1, <2>2, TaskUpdate, Outcomes
  <2> QED BY <1>1, <1>10, <2>3 DEF ToolInterrupted, RepoType, Task
<1>11. CASE ToolEnds(w)
  <2>1. task[w] \in BusyTask /\ r \in Runs /\ token \in Nat BY <1>2, <1>11 DEF ToolEnds
  <2>2. RepoType' BY <1>1, <1>11, <2>1, WorkerTransactionType DEF ToolEnds, RepoType
  <2>3. task[w].outcome \in Outcome \union {"none"} /\ task[w].outcome # "succeeded"
    BY <1>11, <2>1, TaskKnown DEF ToolEnds, Consistent
  <2> DEFINE phase == IF task[w].outcome = "none" THEN "work" ELSE "stop"
             outcome == IF task[w].outcome = "none" THEN "failed" ELSE task[w].outcome
  <2>4. phase \in Phase /\ Consistent(phase, task[w].outcome)
    BY <2>3, Outcomes DEF Consistent
  <2>5. [task[w] EXCEPT !.phase = phase] \in BusyTask BY <2>1, <2>4, TaskUpdate
  <2>6. outcome \in Outcome /\ Consistent("stop", outcome) BY <2>3, Outcomes DEF Consistent
  <2>7. [task[w] EXCEPT !.phase = "stop", !.outcome = outcome] \in BusyTask
    BY <2>1, <2>6, TaskUpdate, Outcomes
  <2> QED BY <1>1, <1>11, <2>2, <2>5, <2>7 DEF ToolEnds, Task
<1>12. CASE AskApproval(w)
  <2>1. task[w] \in BusyTask /\ r \in Runs /\ token \in Nat BY <1>2, <1>12 DEF AskApproval
  <2>2. RepoType' BY <1>1, <1>12, <2>1, WorkerTransactionType DEF AskApproval
  <2>3. [task[w] EXCEPT !.phase = "stop", !.outcome = "failed"] \in BusyTask
    BY <2>1, TaskUpdate, StopConsistent, Outcomes
  <2> QED BY <1>1, <1>12, <2>2, <2>3 DEF AskApproval, Task
<1>13. CASE StopRun(w)
  <2>1. task[w] \in BusyTask /\ r \in Runs /\ token \in Nat BY <1>2, <1>13 DEF StopRun
  <2>2. task[w].outcome \in Outcome \ {"succeeded"}
    BY <1>13, <2>1, TaskKnown DEF StopRun, Consistent
  <2>3. Consistent("finish", task[w].outcome) BY <2>2 DEF Consistent
  <2>4. [task[w] EXCEPT !.phase = "finish"] \in BusyTask BY <2>1, <2>3, TaskUpdate, Outcomes
  <2>5. RepoType' BY <1>1, <1>13, <2>1, <2>2, WorkerTransactionType DEF StopRun, RepoType, Outcome
  <2> QED BY <1>1, <1>13, <2>4, <2>5 DEF StopRun, Task
<1>14. CASE FinishRun(w)
  <2>1. task[w] \in BusyTask /\ r \in Runs /\ token \in Nat BY <1>2, <1>14 DEF FinishRun
  <2>2. task[w].outcome \in Outcome BY <1>14, <2>1, TaskKnown DEF FinishRun, Consistent
  <2>3. RepoType' BY <1>1, <1>14, <2>1, <2>2, WorkerTransactionType DEF FinishRun, RepoType
  <2> QED BY <1>1, <1>14, <2>3 DEF FinishRun, Task
<1>15. CASE Abandon(w)
  BY <1>1, <1>15 DEF Abandon, RepoType, Task
<1> QED
  BY <1>4, <1>5, <1>6, <1>7, <1>8, <1>9, <1>10, <1>11, <1>12, <1>13, <1>14, <1>15 DEF WorkerProgress

\* A sweeper keeps the types.
LEMMA SweeperType ==
  ASSUME TypeOK, NEW m \in Sweepers, SweeperProgress(m) \/ SweepAbandon(m)
  PROVE  TypeOK'
<1> DEFINE r == sweep[m].run
           token == sweep[m].token
<1>1. RepoType /\ task \in [Workers -> Task] /\ sweep \in [Sweepers -> Sweep]
  BY DEF TypeOK, RepoType
<1>2. sweep[m].phase # "idle" => sweep[m] \in BusySweep /\ r \in Runs /\ token \in Nat
  BY BusyTyped DEF BusySweep
<1>3. SUFFICES RepoType' /\ task' = task /\ sweep' \in [Sweepers -> Sweep]
  BY <1>1 DEF TypeOK, RepoType
<1>4. CASE SweepRead(m)
  <2>1. PICK q \in Runs :
          sweep' = [sweep EXCEPT ![m] = [phase |-> "fence", run |-> q, token |-> run[q].fence]]
    BY <1>4 DEF SweepRead
  <2>2. run[q].fence \in Nat BY <1>1 DEF RepoType, Row
  <2>3. [phase |-> "fence", run |-> q, token |-> run[q].fence] \in BusySweep
    BY <2>2 DEF BusySweep
  <2> QED BY <1>1, <1>4, <2>1, <2>3 DEF SweepRead, Sweep, RepoType
<1>5. CASE SweepFence(m)
  <2>1. sweep[m] \in BusySweep /\ r \in Runs /\ token \in Nat BY <1>2, <1>5 DEF SweepFence
  <2>2. CASE /\ FenceExpired(r, token)
             /\ sweep' = [sweep EXCEPT ![m].phase = "recover", ![m].token = run'[sweep[m].run].fence]
    <3>1. RepoType' /\ run'[r].fence \in Nat BY <1>1, <2>1, <2>2, MaintenanceType
    <3>2. [sweep[m] EXCEPT !.phase = "recover", !.token = run'[sweep[m].run].fence] \in BusySweep
      BY <2>1, <3>1 DEF BusySweep
    <3> QED BY <1>1, <1>5, <2>2, <3>1, <3>2 DEF SweepFence, Sweep
  <2>3. CASE sweep' = [sweep EXCEPT ![m] = IdleSweep] /\ UNCHANGED <<run, active>>
    BY <1>1, <1>5, <2>3 DEF SweepFence, Sweep, RepoType
  <2> QED BY <1>5, <2>2, <2>3 DEF SweepFence
<1>6. CASE SweepRecover(m)
  <2>1. r \in Runs /\ token \in Nat BY <1>2, <1>6 DEF SweepRecover
  <2>2. RepoType' BY <1>1, <1>6, <2>1, MaintenanceType DEF SweepRecover, RepoType
  <2> QED BY <1>1, <1>6, <2>2 DEF SweepRecover, Sweep
<1>7. CASE SweepAbandon(m)
  BY <1>1, <1>7 DEF SweepAbandon, Sweep, RepoType
<1> QED BY <1>4, <1>5, <1>6, <1>7 DEF SweeperProgress

\* Every step keeps the types.
LEMMA TypeStep == TypeOK /\ [Next]_vars => TypeOK'
<1> SUFFICES ASSUME TypeOK, [Next]_vars PROVE TypeOK'
  OBVIOUS
<1>1. RepoType BY DEF TypeOK, RepoType
<1>2. ASSUME NEW r \in Runs, UserStep(r) PROVE TypeOK'
  <2>1. RepoType'
    BY <1>1, <1>2, CreateType, CancelType, ApproveType DEF UserStep, SuppressSource
  <2> QED BY <1>2, <2>1 DEF UserStep, TypeOK, RepoType
<1>3. ASSUME NEW r \in Runs, TimePasses(r) PROVE TypeOK'
  <2>1. RepoType' BY <1>1, <1>3, TimeType DEF TimePasses
  <2> QED BY <1>3, <2>1 DEF TimePasses, TypeOK, RepoType
<1>4. ASSUME NEW w \in Workers, WorkerProgress(w) \/ Abandon(w) PROVE TypeOK'
  BY <1>4, WorkerType
<1>5. ASSUME NEW m \in Sweepers, SweeperProgress(m) \/ SweepAbandon(m) PROVE TypeOK'
  BY <1>5, SweeperType
<1>6. CASE Expire
  <2>1. RepoType' BY <1>1, <1>6, ExpiryType DEF Expire
  <2> QED BY <1>6, <2>1 DEF Expire, TypeOK, RepoType
<1>7. CASE UNCHANGED vars
  BY <1>7 DEF vars, TypeOK
<1> QED BY <1>2, <1>3, <1>4, <1>5, <1>6, <1>7 DEF Next

\* Rows, sessions, tasks and sweeps stay well formed; in particular a task that is
\* about to stop its run never carries a successful outcome.
THEOREM TypeCorrect == Spec => []TypeOK
BY TypeInit, TypeStep, PTL DEF Spec

-----------------------------------------------------------------------------
(* Safety. *)

Unfinished == Waiting \union Active
Settled    == {"stopping"} \union Terminal

\* NothingLeftOpen and Reasons, for one row.
RowOK(row) ==
  /\ row.approval = "pending" <=> row.status = "waiting_approval"
  /\ row.tool = "running" => row.status \in Active
  /\ row.lease # "none" <=> row.status \in Active
  /\ row.status = "stopping" => row.stopReason # "none"
  /\ row.stopReason # "none" => row.status \in {"stopping", row.stopReason}

\* Whoever holds the row's fence may go on working on it (Guard).
MayWork(row) == row.status = "running" /\ row.lease = "live" /\ "run" \notin row.overdue

\* What a transaction may do to a row, apart from registering a tool call.
RowStep(old, new) ==
  /\ new.fence >= old.fence
  /\ new.fence = old.fence /\ MayWork(new) => MayWork(old)
  /\ old.status \in Settled => new.status \in Settled
  /\ old.status \in Terminal => new = old
  /\ old.stopReason # "none" => new.stopReason = old.stopReason

RepoInv == SessionSlot /\ NothingLeftOpen /\ Reasons

RowsStep == \A q \in Runs : RowOK(run'[q]) /\ RowStep(run[q], run'[q])

Quiet == \A q \in Runs : run'[q].tool = "running" => run[q].tool = "running"

\* What the invariant says of the rows, row by row.
LEMMA Rows == NothingLeftOpen /\ Reasons <=> \A r \in Runs : RowOK(run[r])
BY DEF NothingLeftOpen, Reasons, RowOK

\* The same of the rows after a step.
LEMMA RowsPrime == NothingLeftOpen' /\ Reasons' <=> \A r \in Runs : RowOK(run'[r])
BY DEF NothingLeftOpen, Reasons, RowOK

\* A status is one of waiting, active and terminal, and absent is none of them.
LEMMA Disjoint ==
  /\ Waiting \intersect Active = {} /\ Waiting \intersect Terminal = {}
  /\ Active \intersect Terminal = {} /\ "absent" \notin Waiting \union Active \union Terminal
  /\ {"queued", "waiting_approval"} = Waiting /\ {"running", "stopping"} = Active
  /\ "none" \notin Terminal
  /\ {"succeeded", "failed", "cancelled", "timed_out", "interrupted"} = Terminal
  /\ Outcome = Terminal /\ StopReason = {"none"} \union (Terminal \ {"succeeded"})
BY DEF Waiting, Active, Terminal, Outcome, StopReason

-----------------------------------------------------------------------------
(* The session slot. *)

\* A session keeps its slot when no run becomes or ceases to be unfinished.
LEMMA SlotKept ==
  ASSUME SessionSlot, active' = active,
         \A r \in Runs : run'[r].status \in Unfinished <=> run[r].status \in Unfinished
  PROVE  SessionSlot'
BY DEF SessionSlot, Unfinished

\* A session whose run is finished gives its slot back.
LEMMA SlotReleased ==
  ASSUME SessionSlot, RepoType, NEW X \in SUBSET Runs, active' = Released(X),
         \A r \in Runs : run'[r].status \in Unfinished
                           <=> run[r].status \in Unfinished /\ r \notin X
  PROVE  SessionSlot'
<1> SUFFICES ASSUME NEW r \in Runs
             PROVE  active'[SessionOf[r]] = r <=> active[SessionOf[r]] = r /\ r \notin X
  BY DEF SessionSlot, Unfinished
<1>1. SessionOf[r] \in Sessions /\ NoRun \notin Runs BY RepositoryAssumption
<1>2. active'[SessionOf[r]] =
        IF active[SessionOf[r]] \in X /\ SessionOf[active[SessionOf[r]]] = SessionOf[r]
          THEN NoRun ELSE active[SessionOf[r]]
  BY <1>1 DEF Released
<1> QED BY <1>1, <1>2

-----------------------------------------------------------------------------
(* Rows: one lemma per kind of transaction. *)

\* A row that is closed is in order, and closing it is a step a row may take.
LEMMA ClosedRow ==
  ASSUME NEW row \in Row, RowOK(row), NEW outcome \in Outcome,
         row.status \in Unfinished,
         row.stopReason # "none" => outcome = row.stopReason
  PROVE  /\ RowOK(Closed(row, outcome)) /\ RowStep(row, Closed(row, outcome))
         /\ Closed(row, outcome).tool # "running"
         /\ Closed(row, outcome).status \notin Unfinished
<1> DEFINE new == Closed(row, outcome)
<1>1. /\ new.status = outcome /\ new.fence = row.fence /\ new.stopReason = row.stopReason
      /\ new.lease = "none" /\ new.tool # "running" /\ new.approval # "pending"
  BY DEF Closed, Row
<1>2. outcome \in Terminal /\ row.fence \in Nat /\ row.status \notin Terminal
  BY Disjoint DEF Row, Unfinished
<1> QED BY <1>1, <1>2, Disjoint DEF RowOK, RowStep, MayWork, Settled, Unfinished

\* A run that waits has no reason to stop.
LEMMA WaitingRow ==
  ASSUME NEW row \in Row, RowOK(row), row.status \in Waiting
  PROVE  row.stopReason = "none"
BY Disjoint DEF RowOK, Row

\* A transaction that finishes runs which may end with this outcome.
LEMMA FinishAllSafe ==
  ASSUME RepoType, RepoInv, NEW X \in SUBSET Runs, NEW outcome \in Outcome,
         \A q \in X : /\ run[q].status \in Unfinished
                      /\ run[q].stopReason # "none" => outcome = run[q].stopReason,
         FinishAll(X, outcome)
  PROVE  RepoInv' /\ RowsStep /\ Quiet
<1>1. ASSUME NEW q \in Runs
      PROVE  /\ RowOK(run'[q]) /\ RowStep(run[q], run'[q])
             /\ run'[q].tool = "running" => run[q].tool = "running"
             /\ run'[q].status \in Unfinished <=> run[q].status \in Unfinished /\ q \notin X
  <2>1. run[q] \in Row /\ RowOK(run[q]) BY Rows DEF RepoType, RepoInv
  <2>2. CASE q \in X
    <3>1. run'[q] = Closed(run[q], outcome) BY <2>2 DEF FinishAll
    <3> QED BY <2>1, <2>2, <3>1, ClosedRow
  <2>3. CASE q \notin X
    <3>1. run'[q] = run[q] BY <2>3 DEF FinishAll
    <3> QED BY <2>1, <2>3, <3>1 DEF RowStep, MayWork, Row
  <2> QED BY <2>2, <2>3
<1>2. SessionSlot' BY <1>1, SlotReleased DEF RepoInv, FinishAll
<1> QED BY <1>1, <1>2, RowsPrime DEF RepoInv, RowsStep, Quiet

\* A transaction that changes one row and leaves its session alone.
LEMMA OneRowSafe ==
  ASSUME RepoType, RepoInv, NEW r \in Runs, NEW row,
         run' = [run EXCEPT ![r] = row], active' = active,
         RowOK(row), RowStep(run[r], row),
         row.status \in Unfinished, run[r].status \in Unfinished
  PROVE  /\ RepoInv' /\ RowsStep
         /\ (row.tool = "running" => run[r].tool = "running") => Quiet
<1>1. ASSUME NEW q \in Runs
      PROVE  /\ RowOK(run'[q]) /\ RowStep(run[q], run'[q])
             /\ run'[q].status \in Unfinished <=> run[q].status \in Unfinished
             /\ q # r => run'[q] = run[q]
  <2>1. run[q] \in Row /\ RowOK(run[q]) BY Rows DEF RepoType, RepoInv
  <2>2. run'[q] = IF q = r THEN row ELSE run[q] BY DEF RepoType
  <2> QED BY <2>1, <2>2 DEF RowStep, MayWork, Row
<1>2. SessionSlot' BY <1>1, SlotKept DEF RepoInv
<1>3. run'[r] = row BY DEF RepoType
<1> QED BY <1>1, <1>2, <1>3, RowsPrime DEF RepoInv, RowsStep, Quiet

\* A user creates a run.
LEMMA CreateSafe ==
  ASSUME RepoType, RepoInv, NEW r \in Runs, CreateRun(r)
  PROVE  RepoInv' /\ RowsStep /\ Quiet
<1>1. ASSUME NEW q \in Runs
      PROVE  /\ RowOK(run'[q]) /\ RowStep(run[q], run'[q])
             /\ run'[q].tool = "running" => run[q].tool = "running"
             /\ run'[q].status \in Unfinished <=> run[q].status \in Unfinished \/ q = r
  <2>1. run[q] \in Row /\ RowOK(run[q]) BY Rows DEF RepoType, RepoInv
  <2>2. CASE q = r
    <3>1. run'[q] = [run[q] EXCEPT !.status = "queued"] BY <2>2 DEF CreateRun, RepoType
    <3>2. /\ run'[q].status = "queued" /\ run'[q].fence = run[q].fence
          /\ run'[q].lease = run[q].lease /\ run'[q].stopReason = run[q].stopReason
          /\ run'[q].approval = run[q].approval /\ run'[q].tool = run[q].tool
      BY <2>1, <3>1 DEF Row
    <3>3. run[q].status = "absent" /\ run[q].fence \in Nat /\ run[q].stopReason \in StopReason
      BY <2>1, <2>2 DEF CreateRun, Row
    <3> QED BY <2>1, <2>2, <3>2, <3>3, Disjoint DEF RowOK, RowStep, MayWork, Settled, Unfinished
  <2>3. CASE q # r
    <3>1. run'[q] = run[q] BY <2>3 DEF CreateRun, RepoType
    <3> QED BY <2>1, <2>3, <3>1 DEF RowStep, MayWork, Row
  <2> QED BY <2>2, <2>3
<1>2. SessionSlot'
  <2> SUFFICES ASSUME NEW q \in Runs
               PROVE  active'[SessionOf[q]] = q <=> active[SessionOf[q]] = q \/ q = r
    BY <1>1 DEF SessionSlot, RepoInv, Unfinished
  <2>1. SessionOf[q] \in Sessions /\ SessionOf[r] \in Sessions /\ NoRun \notin Runs
    BY RepositoryAssumption
  <2>2. active' = [active EXCEPT ![SessionOf[r]] = r] /\ active[SessionOf[r]] = NoRun
    BY DEF CreateRun
  <2> QED BY <2>1, <2>2 DEF RepoType
<1> QED BY <1>1, <1>2, RowsPrime DEF RepoInv, RowsStep, Quiet

\* Waiting runs carry no reason, so that any outcome may end them.
LEMMA EndWaitingSafe ==
  ASSUME RepoType, RepoInv, NEW X \in SUBSET Runs, NEW outcome \in Outcome,
         \A q \in X : run[q].status \in Waiting, FinishAll(X, outcome)
  PROVE  RepoInv' /\ RowsStep /\ Quiet
<1>1. \A q \in X : run[q].status \in Unfinished /\ run[q].stopReason = "none"
  BY WaitingRow, Rows DEF RepoType, RepoInv, Unfinished
<1> QED BY <1>1, FinishAllSafe

\* A user cancels a run.
LEMMA CancelSafe ==
  ASSUME RepoType, RepoInv, NEW r \in Runs, Cancel(r)
  PROVE  RepoInv' /\ RowsStep /\ Quiet
<1>1. CASE run[r].status \in Waiting /\ FinishAll({r}, "cancelled")
  BY <1>1, EndWaitingSafe, Disjoint
<1>2. CASE /\ run[r].status = "running"
           /\ run' = [run EXCEPT ![r].status = "stopping", ![r].stopReason = "cancelled"]
           /\ UNCHANGED active
  <2> DEFINE row == [run[r] EXCEPT !.status = "stopping", !.stopReason = "cancelled"]
  <2>1. run[r] \in Row /\ RowOK(run[r]) BY Rows DEF RepoType, RepoInv
  <2>2. run' = [run EXCEPT ![r] = row] /\ active' = active BY <1>2 DEF RepoType
  <2>3. /\ row.status = "stopping" /\ row.stopReason = "cancelled" /\ row.fence = run[r].fence
        /\ row.lease = run[r].lease /\ row.approval = run[r].approval /\ row.tool = run[r].tool
    BY <2>1 DEF Row
  <2>4. run[r].fence \in Nat /\ run[r].stopReason \in StopReason BY <2>1 DEF Row
  <2>5. RowOK(row) /\ RowStep(run[r], row)
    BY <1>2, <2>1, <2>3, <2>4, Disjoint DEF RowOK, RowStep, MayWork, Settled
  <2>6. row.status \in Unfinished /\ run[r].status \in Unfinished
    BY <1>2, <2>3, Disjoint DEF Unfinished
  <2> HIDE DEF row
  <2> QED BY <2>2, <2>3, <2>5, <2>6, OneRowSafe
<1> QED BY <1>1, <1>2 DEF Cancel

\* A user decides.
LEMMA ApproveSafe ==
  ASSUME RepoType, RepoInv, NEW r \in Runs, NEW allow \in BOOLEAN, Approve(r, allow)
  PROVE  RepoInv' /\ RowsStep /\ Quiet
<1>0. run[r] \in Row /\ RowOK(run[r]) /\ run[r].status = "waiting_approval"
  BY Rows DEF RepoType, RepoInv, Approve
<1>a. run[r].stopReason = "none" /\ run[r].fence \in Nat BY <1>0, WaitingRow, Disjoint DEF Row
<1>1. CASE FinishAll({r}, "timed_out")
  BY <1>0, <1>1, EndWaitingSafe, Disjoint
<1>2. CASE /\ run' = [run EXCEPT ![r] = Closed([@ EXCEPT !.approval = "rejected"], "cancelled")]
           /\ active' = Released({r})
  <2> DEFINE row == Closed([run[r] EXCEPT !.approval = "rejected"], "cancelled")
  <2>1. /\ row.status = "cancelled" /\ row.fence = run[r].fence /\ row.lease = "none"
        /\ row.stopReason = "none" /\ row.approval = "rejected" /\ row.tool # "running"
    BY <1>0, <1>a DEF Closed, Row
  <2>2. RowOK(row) /\ RowStep(run[r], row) /\ row.status \notin Unfinished
    BY <1>0, <1>a, <2>1, Disjoint DEF RowOK, RowStep, MayWork, Settled, Unfinished
  <2>3. ASSUME NEW q \in Runs
        PROVE  /\ RowOK(run'[q]) /\ RowStep(run[q], run'[q])
               /\ run'[q].tool = "running" => run[q].tool = "running"
               /\ run'[q].status \in Unfinished <=> run[q].status \in Unfinished /\ q \notin {r}
    <3>1. run[q] \in Row /\ RowOK(run[q]) BY Rows DEF RepoType, RepoInv
    <3>2. run'[q] = IF q = r THEN row ELSE run[q] BY <1>2 DEF RepoType
    <3> HIDE DEF row
    <3> QED BY <2>1, <2>2, <3>1, <3>2 DEF RowStep, MayWork, Row
  <2>4. SessionSlot' BY <1>2, <2>3, SlotReleased DEF RepoInv
  <2> QED BY <2>3, <2>4, RowsPrime DEF RepoInv, RowsStep, Quiet
<1>3. CASE /\ run' = [run EXCEPT ![r].approval = "approved", ![r].status = "queued",
                                 ![r].overdue = @ \ {"queue"}]
           /\ UNCHANGED active
  <2> DEFINE row == [run[r] EXCEPT !.approval = "approved", !.status = "queued",
                                   !.overdue = @ \ {"queue"}]
  <2>1. run' = [run EXCEPT ![r] = row] /\ active' = active BY <1>3 DEF RepoType
  <2>2. /\ row.status = "queued" /\ row.approval = "approved" /\ row.fence = run[r].fence
        /\ row.lease = run[r].lease /\ row.stopReason = run[r].stopReason
        /\ row.tool = run[r].tool
    BY <1>0 DEF Row
  <2>3. RowOK(row) /\ RowStep(run[r], row)
    BY <1>0, <1>a, <2>2, Disjoint DEF RowOK, RowStep, MayWork, Settled
  <2>4. row.status \in Unfinished /\ run[r].status \in Unfinished
    BY <1>0, <2>2, Disjoint DEF Unfinished
  <2> HIDE DEF row
  <2> QED BY <2>1, <2>2, <2>3, <2>4, OneRowSafe
<1> QED BY <1>1, <1>2, <1>3 DEF Approve

\* A worker claims a run: its fence grows, and it has no tool.
LEMMA ClaimSafe ==
  ASSUME RepoType, RepoInv, NEW r \in Runs, NEW X \in SUBSET QueueExpired, ClaimRun(r, X)
  PROVE  /\ RepoInv' /\ RowsStep /\ Quiet
         /\ run'[r].fence = run[r].fence + 1 /\ run'[r].tool # "running"
         /\ run[r].status = "queued"
<1>0. /\ run[r] \in Row /\ RowOK(run[r]) /\ run[r].status = "queued" /\ r \notin X
      /\ X \subseteq Runs /\ \A q \in X : run[q].status = "queued"
  BY Rows DEF RepoType, RepoInv, ClaimRun, Dispatchable, QueueExpired, In
<1> DEFINE row == [run[r] EXCEPT !.status = "running", !.lease = "live", !.fence = @ + 1]
<1>1. /\ row.status = "running" /\ row.lease = "live" /\ row.fence = run[r].fence + 1
      /\ row.stopReason = run[r].stopReason /\ row.approval = run[r].approval
      /\ row.tool = run[r].tool
  BY <1>0 DEF Row
<1>2. RowOK(row) /\ RowStep(run[r], row) /\ row.status \in Unfinished /\ row.tool # "running"
  <2>1. run[r].stopReason = "none" /\ run[r].fence \in Nat
    BY <1>0, WaitingRow, Disjoint DEF Row
  <2> QED BY <1>0, <1>1, <2>1, Disjoint DEF RowOK, RowStep, MayWork, Settled, Unfinished
<1>3. ASSUME NEW q \in Runs
      PROVE  /\ RowOK(run'[q]) /\ RowStep(run[q], run'[q])
             /\ run'[q].tool = "running" => run[q].tool = "running"
             /\ run'[q].status \in Unfinished <=> run[q].status \in Unfinished /\ q \notin X
  <2>1. run[q] \in Row /\ RowOK(run[q]) BY Rows DEF RepoType, RepoInv
  <2>2. CASE q \in X
    <3>1. run'[q] = Closed(run[q], "timed_out") BY <2>2 DEF ClaimRun
    <3>2. run[q].stopReason = "none" /\ run[q].status \in Unfinished
      BY <1>0, <2>1, <2>2, WaitingRow, Disjoint DEF Unfinished
    <3> QED BY <2>1, <2>2, <3>1, <3>2, ClosedRow, Disjoint
  <2>3. CASE q = r
    <3>1. run'[q] = row BY <1>0, <2>3 DEF ClaimRun
    <3>2. run[q].status \in Unfinished BY <1>0, <2>3, Disjoint DEF Unfinished
    <3> HIDE DEF row
    <3> QED BY <1>0, <1>1, <1>2, <2>3, <3>1, <3>2
  <2>4. CASE q # r /\ q \notin X
    <3>1. run'[q] = run[q] BY <2>4 DEF ClaimRun
    <3> QED BY <2>1, <2>4, <3>1 DEF RowStep, MayWork, Row
  <2> QED BY <2>2, <2>3, <2>4
<1>4. SessionSlot' BY <1>0, <1>3, SlotReleased DEF RepoInv, ClaimRun
<1>5. run'[r] = row BY <1>0 DEF ClaimRun
<1> HIDE DEF row
<1> QED BY <1>0, <1>1, <1>2, <1>3, <1>4, <1>5, RowsPrime DEF RepoInv, RowsStep, Quiet

\* A worker renews its lease.
LEMMA HeartbeatSafe ==
  ASSUME RepoType, RepoInv, NEW r \in Runs, NEW token \in Nat, Heartbeat(r, token)
  PROVE  RepoInv' /\ RowsStep /\ Quiet
<1> DEFINE row == [run[r] EXCEPT !.lease = "live"]
<1>1. run[r] \in Row /\ RowOK(run[r]) /\ run[r].status \in Active
  BY Rows DEF RepoType, RepoInv, Heartbeat, GuardStopping
<1>2. run' = [run EXCEPT ![r] = row] /\ active' = active BY DEF Heartbeat, RepoType
<1>3. row = run[r] BY <1>1 DEF Heartbeat, GuardStopping, Row
<1>4. RowStep(run[r], row) BY <1>1, <1>3 DEF RowStep, MayWork, Row
<1>5. run[r].status \in Unfinished BY <1>1 DEF Unfinished
<1> HIDE DEF row
<1> QED BY <1>1, <1>2, <1>3, <1>4, <1>5, OneRowSafe

\* A worker stops its run.
LEMMA StopSafe ==
  ASSUME RepoType, RepoInv, NEW r \in Runs, NEW token \in Nat,
         NEW reason \in Outcome \ {"succeeded"}, Stop(r, token, reason)
  PROVE  RepoInv' /\ RowsStep /\ Quiet
<1>1. run[r] \in Row /\ RowOK(run[r]) /\ run[r].status \in Active
  BY Rows DEF RepoType, RepoInv, Stop, GuardStopping
<1>2. run[r].fence \in Nat /\ run[r].stopReason \in StopReason BY <1>1 DEF Row
<1>3. CASE run[r].status = "stopping"
  <2>1. run' = [run EXCEPT ![r] = run[r]] /\ active' = active BY <1>3 DEF Stop, RepoType
  <2>2. RowStep(run[r], run[r]) BY <1>2 DEF RowStep, MayWork
  <2>3. run[r].status \in Unfinished BY <1>1 DEF Unfinished
  <2> QED BY <1>1, <2>1, <2>2, <2>3, OneRowSafe
<1>4. CASE run[r].status # "stopping"
  <2> DEFINE row == [run[r] EXCEPT !.status = "stopping", !.stopReason = reason]
  <2>1. run' = [run EXCEPT ![r] = row] /\ active' = active BY <1>4 DEF Stop, RepoType
  <2>2. /\ row.status = "stopping" /\ row.stopReason = reason /\ row.fence = run[r].fence
        /\ row.lease = run[r].lease /\ row.approval = run[r].approval /\ row.tool = run[r].tool
    BY <1>1 DEF Row
  <2>3. run[r].stopReason = "none" BY <1>1, <1>2, <1>4, Disjoint DEF RowOK
  <2>4. RowOK(row) /\ RowStep(run[r], row)
    BY <1>1, <1>2, <1>4, <2>2, <2>3, Disjoint DEF RowOK, RowStep, MayWork, Settled
  <2>5. row.status \in Unfinished /\ run[r].status \in Unfinished
    BY <1>1, <2>2, Disjoint DEF Unfinished
  <2> HIDE DEF row
  <2> QED BY <2>1, <2>2, <2>4, <2>5, OneRowSafe
<1> QED BY <1>3, <1>4

\* A worker finishes its run.
LEMMA FinishSafe ==
  ASSUME RepoType, RepoInv, NEW r \in Runs, NEW token \in Nat,
         NEW proposed \in Outcome, Finish(r, token, proposed)
  PROVE  RepoInv' /\ RowsStep /\ Quiet
<1>1. run[r] \in Row /\ RowOK(run[r]) /\ run[r].status \in Active
  BY Rows DEF RepoType, RepoInv, Finish, GuardStopping
<1>2. run[r].stopReason # "none" => run[r].status = "stopping"
  BY <1>1, Disjoint DEF Row, RowOK
<1>3. FinishOutcome(r, proposed) \in Outcome
  BY <1>1, Disjoint DEF FinishOutcome, Row
<1>4. run[r].stopReason # "none" => FinishOutcome(r, proposed) = run[r].stopReason
  BY <1>2 DEF FinishOutcome
<1>5. run[r].status \in Unfinished BY <1>1 DEF Unfinished
<1> QED BY <1>3, <1>4, <1>5, FinishAllSafe DEF Finish

\* The tool call is registered: the only step after which a tool may be running.
LEMMA ToolStartSafe ==
  ASSUME RepoType, RepoInv, NEW r \in Runs, NEW token \in Nat, ToolStart(r, token)
  PROVE  /\ RepoInv' /\ RowsStep
         /\ run[r].fence = token
         /\ \A q \in Runs \ {r} : run'[q] = run[q]
         /\ run'[r].fence = run[r].fence
<1> DEFINE row == [run[r] EXCEPT !.tool = "running"]
<1>1. run[r] \in Row /\ RowOK(run[r]) /\ run[r].status = "running" /\ run[r].fence = token
  BY Rows DEF RepoType, RepoInv, ToolStart, Guard
<1>2. run' = [run EXCEPT ![r] = row] /\ active' = active BY DEF ToolStart, RepoType
<1>3. /\ row.status = run[r].status /\ row.stopReason = run[r].stopReason
      /\ row.fence = run[r].fence /\ row.lease = run[r].lease
      /\ row.approval = run[r].approval /\ run[r].fence \in Nat
  BY <1>1 DEF Row
<1>4. RowOK(row) /\ RowStep(run[r], row)
  BY <1>1, <1>3, Disjoint DEF RowOK, RowStep, MayWork, Settled
<1>5. row.status \in Unfinished /\ run[r].status \in Unfinished
  BY <1>1, <1>3, Disjoint DEF Unfinished
<1>6. \A q \in Runs : run'[q] = IF q = r THEN row ELSE run[q] BY <1>2 DEF RepoType
<1> HIDE DEF row
<1> QED BY <1>1, <1>2, <1>3, <1>4, <1>5, <1>6, OneRowSafe

\* A worker reports the end of its tool.
LEMMA ToolFinishSafe ==
  ASSUME RepoType, RepoInv, NEW r \in Runs, NEW token \in Nat, ToolFinish(r, token)
  PROVE  RepoInv' /\ RowsStep /\ Quiet /\ run'[r].tool # "running"
<1> DEFINE row == [run[r] EXCEPT !.tool = IF @ = "running" THEN "done" ELSE @]
<1>1. run[r] \in Row /\ RowOK(run[r]) /\ run[r].status \in Active
  BY Rows DEF RepoType, RepoInv, ToolFinish, GuardStopping
<1>2. run' = [run EXCEPT ![r] = row] /\ active' = active BY DEF ToolFinish, RepoType
<1>3. /\ row.status = run[r].status /\ row.stopReason = run[r].stopReason
      /\ row.fence = run[r].fence /\ row.lease = run[r].lease
      /\ row.approval = run[r].approval /\ run[r].fence \in Nat /\ row.tool # "running"
  BY <1>1 DEF Row
<1>4. RowOK(row) /\ RowStep(run[r], row)
  BY <1>1, <1>3, Disjoint DEF RowOK, RowStep, MayWork, Settled
<1>5. row.status \in Unfinished /\ run[r].status \in Unfinished
  BY <1>1, <1>3 DEF Unfinished
<1>6. run'[r] = row BY <1>2 DEF RepoType
<1> HIDE DEF row
<1> QED BY <1>1, <1>2, <1>3, <1>4, <1>5, <1>6, OneRowSafe

\* Parking a run leaves nothing open only if its worker has no tool call open.
LEMMA WaitApprovalSafe ==
  ASSUME RepoType, RepoInv, NEW r \in Runs, NEW token \in Nat, WaitApproval(r, token),
         run[r].tool # "running"
  PROVE  RepoInv' /\ RowsStep /\ Quiet
<1> DEFINE row == [run[r] EXCEPT !.status = "waiting_approval", !.lease = "none",
                                 !.approval = "pending", !.overdue = @ \ {"approval"}]
<1>1. run[r] \in Row /\ RowOK(run[r]) /\ run[r].status = "running"
  BY Rows DEF RepoType, RepoInv, WaitApproval, Guard
<1>2. run' = [run EXCEPT ![r] = row] /\ active' = active BY DEF WaitApproval, RepoType
<1>3. /\ row.status = "waiting_approval" /\ row.stopReason = run[r].stopReason
      /\ row.fence = run[r].fence /\ row.lease = "none" /\ row.approval = "pending"
      /\ row.tool = run[r].tool /\ run[r].fence \in Nat /\ run[r].stopReason \in StopReason
  BY <1>1 DEF Row
<1>4. run[r].stopReason = "none" BY <1>1, <1>3, Disjoint DEF RowOK
<1>5. RowOK(row) /\ RowStep(run[r], row)
  BY <1>1, <1>3, <1>4, Disjoint DEF RowOK, RowStep, MayWork, Settled
<1>6. row.status \in Unfinished /\ run[r].status \in Unfinished
  BY <1>1, <1>3, Disjoint DEF Unfinished
<1> HIDE DEF row
<1> QED BY <1>2, <1>3, <1>5, <1>6, OneRowSafe

\* A sweeper fences a run: its fence grows.
LEMMA FenceSafe ==
  ASSUME RepoType, RepoInv, NEW r \in Runs, NEW token \in Nat, FenceExpired(r, token)
  PROVE  /\ RepoInv' /\ RowsStep /\ Quiet
         /\ run[r].fence = token /\ run'[r].fence = token + 1 /\ run'[r].status = "stopping"
<1> DEFINE row == [run[r] EXCEPT !.status = "stopping",
                                 !.stopReason = IF @ = "none" THEN "interrupted" ELSE @,
                                 !.fence = token + 1]
<1>1. run[r] \in Row /\ RowOK(run[r]) /\ run[r].status \in Active /\ run[r].fence = token
  BY Rows DEF RepoType, RepoInv, FenceExpired, LeaseLost
<1>2. run' = [run EXCEPT ![r] = row] /\ active' = active BY DEF FenceExpired, RepoType
<1>3. /\ row.status = "stopping" /\ row.fence = token + 1
      /\ row.stopReason = IF run[r].stopReason = "none" THEN "interrupted" ELSE run[r].stopReason
      /\ row.lease = run[r].lease /\ row.approval = run[r].approval /\ row.tool = run[r].tool
      /\ run[r].stopReason \in StopReason
  BY <1>1 DEF Row
<1>4. RowOK(row) /\ RowStep(run[r], row)
  BY <1>1, <1>3, Disjoint DEF RowOK, RowStep, MayWork, Settled
<1>5. row.status \in Unfinished /\ run[r].status \in Unfinished
  BY <1>1, <1>3, Disjoint DEF Unfinished
<1>6. run'[r] = row BY <1>2 DEF RepoType
<1> HIDE DEF row
<1> QED BY <1>1, <1>2, <1>3, <1>4, <1>5, <1>6, OneRowSafe

\* A sweeper recovers a run it has fenced.
LEMMA RecoverSafe ==
  ASSUME RepoType, RepoInv, NEW r \in Runs, NEW token \in Nat, Recover(r, token)
  PROVE  RepoInv' /\ RowsStep /\ Quiet
<1>0. run[r] \in Row /\ RowOK(run[r]) /\ run[r].status \in Active /\ run[r].fence = token
  BY Rows DEF RepoType, RepoInv, Recover, LeaseLost
<1> DEFINE new == [run[r] EXCEPT !.fence = token + 1]
           row == Closed(new, RecoverOutcome(r))
<1>1. /\ RecoverOutcome(r) \in Terminal
      /\ run[r].stopReason # "none" => RecoverOutcome(r) = run[r].stopReason
  BY <1>0, Disjoint DEF RecoverOutcome, RowOK, Row
<1>2. /\ row.status = RecoverOutcome(r) /\ row.fence = token + 1 /\ row.lease = "none"
      /\ row.stopReason = run[r].stopReason /\ row.approval # "pending" /\ row.tool # "running"
  BY <1>0 DEF Closed, Row
<1>3. RowOK(row) /\ RowStep(run[r], row) /\ row.status \notin Unfinished
  BY <1>0, <1>1, <1>2, Disjoint DEF RowOK, RowStep, MayWork, Settled, Unfinished
<1>4. ASSUME NEW q \in Runs
      PROVE  /\ RowOK(run'[q]) /\ RowStep(run[q], run'[q])
             /\ run'[q].tool = "running" => run[q].tool = "running"
             /\ run'[q].status \in Unfinished <=> run[q].status \in Unfinished /\ q \notin {r}
  <2>1. run[q] \in Row /\ RowOK(run[q]) BY Rows DEF RepoType, RepoInv
  <2>2. run'[q] = IF q = r THEN row ELSE run[q] BY DEF Recover, RepoType
  <2> HIDE DEF row
  <2> QED BY <1>2, <1>3, <2>1, <2>2 DEF RowStep, MayWork, Row
<1>5. SessionSlot' BY <1>4, SlotReleased DEF RepoInv, Recover
<1> QED BY <1>4, <1>5, RowsPrime DEF RepoInv, RowsStep, Quiet

\* What waits too long expires.
LEMMA ExpirySafe ==
  ASSUME RepoType, RepoInv, ExpireWaiting \/ ClaimNothing
  PROVE  RepoInv' /\ RowsStep /\ Quiet
<1>1. CASE ExpireWaiting
  BY <1>1, EndWaitingSafe, Disjoint DEF ExpireWaiting, WaitingExpired, In
<1>2. CASE ClaimNothing
  BY <1>2, EndWaitingSafe, Disjoint DEF ClaimNothing, QueueExpired, In
<1> QED BY <1>1, <1>2

\* Time passes.
LEMMA TimeSafe ==
  ASSUME RepoType, RepoInv, NEW r \in Runs,
         LeaseExpires(r) \/ DeadlinePasses(r) \/ QueueDeadlinePasses(r) \/ ApprovalExpires(r)
  PROVE  RepoInv' /\ RowsStep /\ Quiet
<1>0. ASSUME NEW q \in Runs PROVE run[q] \in Row /\ RowOK(run[q])
  BY Rows DEF RepoType, RepoInv
<1>1. CASE LeaseExpires(r)
  <2> DEFINE row == [run[r] EXCEPT !.lease = "expired"]
  <2>1. run' = [run EXCEPT ![r] = row] /\ active' = active BY <1>1 DEF LeaseExpires, RepoType
  <2>2. /\ row.status = run[r].status /\ row.stopReason = run[r].stopReason
        /\ row.fence = run[r].fence /\ row.lease = "expired"
        /\ row.approval = run[r].approval /\ row.tool = run[r].tool /\ run[r].fence \in Nat
    BY <1>0 DEF Row
  <2>3. RowOK(row) /\ RowStep(run[r], row) /\ run[r].status \in Unfinished
    BY <1>0, <1>1, <2>2, Disjoint DEF RowOK, RowStep, MayWork, LeaseExpires, Settled, Unfinished
  <2> HIDE DEF row
  <2> QED BY <2>1, <2>2, <2>3, OneRowSafe
<1>2. ASSUME NEW overdue, run' = [run EXCEPT ![r].overdue = overdue], active' = active,
             run[r].status \notin Terminal, run[r].overdue \subseteq overdue
      PROVE  RepoInv' /\ RowsStep /\ Quiet
  <2>1. ASSUME NEW q \in Runs
        PROVE  /\ RowOK(run'[q]) /\ RowStep(run[q], run'[q])
               /\ run'[q].tool = run[q].tool /\ run'[q].status = run[q].status
    <3>1. run'[q] = IF q = r THEN [run[q] EXCEPT !.overdue = overdue] ELSE run[q]
      BY <1>2 DEF RepoType
    <3>2. /\ run'[q].status = run[q].status /\ run'[q].stopReason = run[q].stopReason
          /\ run'[q].fence = run[q].fence /\ run'[q].lease = run[q].lease
          /\ run'[q].approval = run[q].approval /\ run'[q].tool = run[q].tool
          /\ run[q].fence \in Nat /\ run[q].overdue \subseteq run'[q].overdue
      BY <1>0, <1>2, <3>1 DEF Row
    <3>3. run[q].status \in Terminal => run'[q] = run[q] BY <1>2, <3>1
    <3> QED BY <1>0, <3>2, <3>3 DEF RowOK, RowStep, MayWork
  <2>2. SessionSlot' BY <1>2, <2>1, SlotKept DEF RepoInv
  <2> QED BY <2>1, <2>2, RowsPrime DEF RepoInv, RowsStep, Quiet
<1>3. CASE DeadlinePasses(r)
  <2>1. run[r].overdue \subseteq Deadline BY <1>0 DEF Row
  <2> QED BY <1>2, <1>3, <2>1 DEF DeadlinePasses
<1>4. CASE QueueDeadlinePasses(r)
  <2>1. run' = [run EXCEPT ![r].overdue = run[r].overdue \union {"queue"}] /\ active' = active
        /\ run[r].status \notin Terminal
    BY <1>4, Disjoint DEF QueueDeadlinePasses
  <2> QED BY <1>2, <2>1
<1>5. CASE ApprovalExpires(r)
  <2>1. run' = [run EXCEPT ![r].overdue = run[r].overdue \union {"approval"}] /\ active' = active
        /\ run[r].status \notin Terminal
    BY <1>5, Disjoint DEF ApprovalExpires
  <2> QED BY <1>2, <2>1
<1> QED BY <1>1, <1>3, <1>4, <1>5

-----------------------------------------------------------------------------
(* Processes: what a worker or a sweeper may conclude from its token. *)

TaskKept(w) ==
  \/ task'[w].phase = "idle"
  \/ /\ task[w].phase # "idle"
     /\ task'[w].run = task[w].run /\ task'[w].token = task[w].token

SweepKept(m) == sweep'[m].phase = "idle" \/ sweep'[m] = sweep[m]

ProcessInv == Tokens /\ OneOwner /\ ToolsOwned /\ FencedStays /\ FencedOut

\* The invariant is about types, rows and processes.
LEMMA InvParts == Inv <=> TypeOK /\ RepoInv /\ ProcessInv
BY DEF Inv, RepoInv, ProcessInv

\* What is known of the run of a worker.
LEMMA TaskFacts ==
  ASSUME TypeOK, Tokens, NEW w \in Workers, task[w].phase # "idle"
  PROVE  /\ task[w].run \in Runs /\ task[w].token \in Nat
         /\ run[task[w].run].fence \in Nat /\ task[w].token <= run[task[w].run].fence
BY BusyTyped, TaskKnown DEF TypeOK, Row, Tokens

\* What is known of the run of a sweeper.
LEMMA SweepFacts ==
  ASSUME TypeOK, Tokens, NEW m \in Sweepers, sweep[m].phase # "idle"
  PROVE  /\ sweep[m].run \in Runs /\ sweep[m].token \in Nat
         /\ run[sweep[m].run].fence \in Nat /\ sweep[m].token <= run[sweep[m].run].fence
BY BusyTyped DEF TypeOK, Row, Tokens, BusySweep

\* No fence ever falls.
LEMMA FencesGrow ==
  ASSUME TypeOK, TypeOK', RowsStep, NEW r \in Runs
  PROVE  run[r].fence \in Nat /\ run'[r].fence \in Nat /\ run'[r].fence >= run[r].fence
BY DEF TypeOK, Row, RowsStep, RowStep

\* A worker that still owns its run after a step owned it before the step.
LEMMA OwnedBefore ==
  ASSUME TypeOK, TypeOK', Tokens, RowsStep, NEW w \in Workers, TaskKept(w),
         task'[w].phase # "idle"
  PROVE  /\ task'[w].token <= run'[task'[w].run].fence
         /\ task'[w].run = task[w].run /\ task'[w].token = task[w].token
         /\ task[w].phase # "idle" /\ task[w].run \in Runs
         /\ Owns(w)' => Owns(w)
<1>1. /\ task[w].phase # "idle" /\ task'[w].run = task[w].run /\ task'[w].token = task[w].token
  BY DEF TaskKept
<1>2. /\ task[w].run \in Runs /\ task[w].token \in Nat
      /\ task[w].token <= run[task[w].run].fence
  BY <1>1, TaskFacts
<1>3. /\ run[task[w].run].fence \in Nat /\ run'[task[w].run].fence \in Nat
      /\ run'[task[w].run].fence >= run[task[w].run].fence
  BY <1>2, FencesGrow
<1> QED BY <1>1, <1>2, <1>3 DEF Owns

\* Steps in which no worker takes a new run and no sweep starts or advances.
LEMMA ProcessesKept ==
  ASSUME TypeOK, TypeOK', ProcessInv, RowsStep,
         \A w \in Workers : TaskKept(w), \A m \in Sweepers : SweepKept(m)
  PROVE  Tokens' /\ OneOwner' /\ FencedStays' /\ FencedOut'
<1>1. ASSUME NEW w \in Workers, task'[w].phase # "idle"
      PROVE  task'[w].token <= run'[task'[w].run].fence
  BY <1>1, OwnedBefore DEF ProcessInv
<1>2. ASSUME NEW m \in Sweepers, sweep'[m].phase # "idle"
      PROVE  /\ sweep'[m] = sweep[m] /\ sweep[m].run \in Runs
             /\ sweep'[m].token <= run'[sweep'[m].run].fence
  <2>1. sweep'[m] = sweep[m] BY <1>2 DEF SweepKept
  <2>2. /\ sweep[m].run \in Runs /\ sweep[m].token \in Nat
        /\ sweep[m].token <= run[sweep[m].run].fence
    BY <1>2, <2>1, SweepFacts DEF ProcessInv
  <2> QED BY <2>1, <2>2, FencesGrow
<1>3. Tokens' BY <1>1, <1>2 DEF Tokens
<1>4. OneOwner'
  <2> SUFFICES ASSUME NEW w1 \in Workers, NEW w2 \in Workers, Owns(w1)', Owns(w2)',
                      task'[w1].run = task'[w2].run
               PROVE  w1 = w2
    BY DEF OneOwner
  <2>1. task'[w1].phase # "idle" /\ task'[w2].phase # "idle" BY DEF Owns
  <2>2. Owns(w1) /\ Owns(w2) /\ task[w1].run = task[w2].run
    BY <2>1, OwnedBefore DEF ProcessInv
  <2> QED BY <2>2 DEF ProcessInv, OneOwner
<1>5. FencedStays'
  <2> SUFFICES ASSUME NEW m \in Sweepers, sweep'[m].phase = "recover"
               PROVE  run'[sweep'[m].run].status \in Settled
    BY DEF FencedStays, Settled
  <2>1. sweep'[m] = sweep[m] /\ sweep[m].run \in Runs BY <1>2
  <2>2. run[sweep[m].run].status \in Settled
    BY <2>1 DEF ProcessInv, FencedStays, Settled
  <2> QED BY <2>1, <2>2 DEF RowsStep, RowStep
<1>6. FencedOut'
  <2> SUFFICES ASSUME NEW m \in Sweepers, NEW w \in Workers, sweep'[m].phase = "recover",
                      task'[w].phase # "idle", task'[w].run = sweep'[m].run
               PROVE  task'[w].token < sweep'[m].token
    BY DEF FencedOut
  <2>1. sweep'[m] = sweep[m] BY <1>2
  <2>2. /\ task[w].phase # "idle" /\ task'[w].run = task[w].run
        /\ task'[w].token = task[w].token
    BY OwnedBefore DEF ProcessInv
  <2> QED BY <2>1, <2>2 DEF ProcessInv, FencedOut
<1> QED BY <1>3, <1>4, <1>5, <1>6

\* A tool stays with the worker that started it when nobody starts one.
LEMMA ToolsKept ==
  ASSUME TypeOK, TypeOK', ProcessInv, RowsStep, Quiet,
         \A w \in Workers : TaskKept(w),
         \A w \in Workers : task'[w].phase = "work" => task[w].phase = "work"
  PROVE  ToolsOwned'
<1> SUFFICES ASSUME NEW w \in Workers, Owns(w)', task'[w].phase = "work"
             PROVE  run'[task'[w].run].tool # "running"
  BY DEF ToolsOwned
<1>1. /\ Owns(w) /\ task'[w].run = task[w].run /\ task[w].run \in Runs
  BY OwnedBefore DEF ProcessInv
<1>2. run[task[w].run].tool # "running" BY <1>1 DEF ProcessInv, ToolsOwned
<1> QED BY <1>1, <1>2 DEF Quiet

\* Steps that leave the processes alone.
LEMMA RepoStepSafe ==
  ASSUME TypeOK, TypeOK', ProcessInv, RowsStep, Quiet, UNCHANGED <<task, sweep>>
  PROVE  ProcessInv'
<1>1. \A w \in Workers : TaskKept(w) BY DEF TaskKept
<1>2. \A m \in Sweepers : SweepKept(m) BY DEF SweepKept
<1>3. Tokens' /\ OneOwner' /\ FencedStays' /\ FencedOut' BY <1>1, <1>2, ProcessesKept
<1>4. ToolsOwned' BY <1>1, ToolsKept
<1> QED BY <1>3, <1>4 DEF ProcessInv

\* Steps of a worker that keeps or drops its run and does not go back to work.
LEMMA WorkerStepSafe ==
  ASSUME TypeOK, TypeOK', ProcessInv, RowsStep, Quiet, NEW w \in Workers, TaskKept(w),
         \A v \in Workers \ {w} : task'[v] = task[v], UNCHANGED sweep,
         task'[w].phase = "work" => task[w].phase = "work"
  PROVE  ProcessInv'
<1>1. \A v \in Workers : TaskKept(v) BY DEF TaskKept
<1>2. \A m \in Sweepers : SweepKept(m) BY DEF SweepKept
<1>3. Tokens' /\ OneOwner' /\ FencedStays' /\ FencedOut' BY <1>1, <1>2, ProcessesKept
<1>4. ToolsOwned' BY <1>1, ToolsKept
<1> QED BY <1>3, <1>4 DEF ProcessInv

\* Steps that leave every row alone.
LEMMA NoRowStep ==
  ASSUME TypeOK, RepoInv, UNCHANGED <<run, active>>
  PROVE  RepoInv' /\ RowsStep /\ Quiet
<1>1. SessionSlot' BY DEF RepoInv, SessionSlot
<1>2. ASSUME NEW q \in Runs PROVE RowOK(run'[q]) /\ RowStep(run[q], run'[q])
  BY Rows DEF RepoInv, RowStep, MayWork, TypeOK, Row
<1> QED BY <1>1, <1>2, RowsPrime DEF RepoInv, RowsStep, Quiet

-----------------------------------------------------------------------------
(* Every step preserves the invariant and moves every row by RowStep. *)

\* A worker takes up a run.
LEMMA ClaimTaskSafe ==
  ASSUME Inv, TypeOK', NEW w \in Workers, ClaimTask(w)
  PROVE  RepoInv' /\ ProcessInv' /\ RowsStep
<1>0. TypeOK /\ RepoType /\ RepoInv /\ ProcessInv BY InvParts DEF TypeOK, RepoType
<1>1. PICK r \in Runs, X \in SUBSET QueueExpired :
        /\ ClaimRun(r, X)
        /\ \/ task' = [task EXCEPT ![w] = [phase |-> "work", run |-> r,
                                           token |-> run'[r].fence, outcome |-> "none"]]
           \/ UNCHANGED task
  BY DEF ClaimTask
<1>2. /\ RepoInv' /\ RowsStep /\ Quiet /\ run'[r].fence = run[r].fence + 1
      /\ run'[r].tool # "running" /\ run[r].status = "queued"
  BY <1>0, <1>1, ClaimSafe
<1>3. CASE UNCHANGED task
  BY <1>0, <1>2, <1>3, RepoStepSafe DEF ClaimTask
<1>4. CASE task' = [task EXCEPT ![w] = [phase |-> "work", run |-> r,
                                        token |-> run'[r].fence, outcome |-> "none"]]
  <2>1. /\ task'[w].phase = "work" /\ task'[w].run = r /\ task'[w].token = run'[r].fence
        /\ \A v \in Workers \ {w} : task'[v] = task[v]
    BY <1>0, <1>4 DEF TypeOK
  <2>2. run[r].fence \in Nat /\ run'[r].fence \in Nat BY <1>0, <1>2, FencesGrow
  <2>3. \A m \in Sweepers : SweepKept(m) BY DEF ClaimTask, SweepKept
  <2>4. \A v \in Workers \ {w} : TaskKept(v) BY <2>1 DEF TaskKept
  <2>5. ASSUME NEW v \in Workers \ {w}, task'[v].phase # "idle"
        PROVE  /\ task[v].phase # "idle" /\ task'[v].token <= run'[task'[v].run].fence
               /\ task'[v].run = r => task'[v].token < run'[r].fence
               /\ Owns(v)' => Owns(v)
    <3>1. task[v].phase # "idle" /\ task'[v] = task[v] BY <2>1, <2>5
    <3>2. /\ task[v].run \in Runs /\ task[v].token \in Nat
          /\ task[v].token <= run[task[v].run].fence
      BY <1>0, <3>1, TaskFacts DEF ProcessInv
    <3>3. TaskKept(v) /\ v \in Workers BY <2>4
    <3>4. task'[v].token <= run'[task'[v].run].fence /\ (Owns(v)' => Owns(v))
      BY <1>0, <1>2, <2>5, <3>3, OwnedBefore DEF ProcessInv
    <3> QED BY <1>2, <2>2, <3>1, <3>2, <3>4
  <2>6. ASSUME NEW m \in Sweepers, sweep'[m].phase # "idle"
        PROVE  /\ sweep'[m] = sweep[m] /\ sweep[m].run \in Runs
               /\ sweep'[m].token <= run'[sweep'[m].run].fence
               /\ sweep[m].phase = "recover" => sweep[m].run # r
    <3>1. sweep'[m] = sweep[m] BY DEF ClaimTask
    <3>2. /\ sweep[m].run \in Runs /\ sweep[m].token \in Nat
          /\ sweep[m].token <= run[sweep[m].run].fence
      BY <1>0, <2>6, <3>1, SweepFacts DEF ProcessInv
    <3>3. sweep[m].phase = "recover" => sweep[m].run # r
      BY <1>0, <1>2, Disjoint DEF ProcessInv, FencedStays
    <3>4. sweep[m].token <= run'[sweep[m].run].fence BY <1>0, <1>2, <3>2, FencesGrow
    <3> QED BY <3>1, <3>2, <3>3, <3>4
  <2>7. Tokens' BY <2>1, <2>2, <2>5, <2>6 DEF Tokens
  <2>8. OneOwner'
    <3> SUFFICES ASSUME NEW w1 \in Workers, NEW w2 \in Workers, Owns(w1)', Owns(w2)',
                        task'[w1].run = task'[w2].run, w1 # w2
                 PROVE  FALSE
      BY DEF OneOwner
    <3>1. task'[w1].phase # "idle" /\ task'[w2].phase # "idle" BY DEF Owns
    <3>2. CASE w1 = w BY <2>1, <2>2, <2>5, <3>1, <3>2 DEF Owns
    <3>3. CASE w2 = w BY <2>1, <2>2, <2>5, <3>1, <3>3 DEF Owns
    <3>4. CASE w1 # w /\ w2 # w
      <4>1. Owns(w1) /\ Owns(w2) BY <2>5, <3>1, <3>4
      <4>2. task[w1].run = task[w2].run BY <2>1, <3>4
      <4> QED BY <1>0, <4>1, <4>2 DEF ProcessInv, OneOwner
    <3> QED BY <3>2, <3>3, <3>4
  <2>9. ToolsOwned'
    <3> SUFFICES ASSUME NEW v \in Workers, Owns(v)', task'[v].phase = "work"
                 PROVE  run'[task'[v].run].tool # "running"
      BY DEF ToolsOwned
    <3>1. CASE v = w BY <1>2, <2>1, <3>1
    <3>2. CASE v # w
      <4>1. Owns(v) /\ task'[v] = task[v] /\ task[v].phase = "work" BY <2>1, <2>5, <3>2
      <4>2. task[v].run \in Runs BY <1>0, <4>1, TaskFacts DEF ProcessInv
      <4>3. run[task[v].run].tool # "running" BY <1>0, <4>1 DEF ProcessInv, ToolsOwned
      <4> QED BY <1>2, <4>1, <4>2, <4>3 DEF Quiet
    <3> QED BY <3>1, <3>2
  <2>10. FencedStays'
    <3> SUFFICES ASSUME NEW m \in Sweepers, sweep'[m].phase = "recover"
                 PROVE  run'[sweep'[m].run].status \in Settled
      BY DEF FencedStays, Settled
    <3>1. run[sweep[m].run].status \in Settled
      BY <1>0, <2>6 DEF ProcessInv, FencedStays, Settled
    <3> QED BY <1>2, <2>6, <3>1 DEF RowsStep, RowStep
  <2>11. FencedOut'
    <3> SUFFICES ASSUME NEW m \in Sweepers, NEW v \in Workers, sweep'[m].phase = "recover",
                        task'[v].phase # "idle", task'[v].run = sweep'[m].run
                 PROVE  task'[v].token < sweep'[m].token
      BY DEF FencedOut
    <3>1. sweep'[m] = sweep[m] /\ sweep[m].run # r BY <2>6
    <3>2. v # w BY <2>1, <3>1
    <3>3. task'[v] = task[v] BY <2>1, <3>2
    <3> QED BY <1>0, <3>1, <3>3 DEF ProcessInv, FencedOut
  <2> QED BY <1>2, <2>7, <2>8, <2>9, <2>10, <2>11 DEF ProcessInv
<1> QED BY <1>1, <1>3, <1>4

\* The worker that registers a tool call leaves phase work in the same step.
LEMMA StartToolSafe ==
  ASSUME Inv, TypeOK', NEW w \in Workers, StartTool(w)
  PROVE  RepoInv' /\ ProcessInv' /\ RowsStep
<1> DEFINE r == task[w].run
<1>0. TypeOK /\ RepoType /\ RepoInv /\ ProcessInv BY InvParts DEF TypeOK, RepoType
<1>1. r \in Runs /\ task[w].token \in Nat /\ ToolStart(r, task[w].token)
      /\ task[w].phase = "work"
  BY <1>0, TaskFacts DEF ProcessInv, StartTool
<1>2. /\ RepoInv' /\ RowsStep /\ run[r].fence = task[w].token
      /\ \A q \in Runs \ {r} : run'[q] = run[q]
      /\ run'[r].fence = run[r].fence
  BY <1>0, <1>1, ToolStartSafe
<1>3. /\ task'[w].phase \in {"tool", "stop"}
      /\ task'[w].run = task[w].run /\ task'[w].token = task[w].token
      /\ \A v \in Workers \ {w} : task'[v] = task[v]
  <2>1. task \in [Workers -> Task] /\ task[w] \in BusyTask
    BY <1>0, <1>1, BusyTyped DEF TypeOK
  <2>2. CASE task' = [task EXCEPT ![w].phase = "tool"] BY <2>1, <2>2 DEF BusyTask
  <2>3. CASE \E outcome \in {"failed", "timed_out", "interrupted"} :
               task' = [task EXCEPT ![w].phase = "stop", ![w].outcome = outcome]
    BY <2>1, <2>3 DEF BusyTask
  <2> QED BY <2>2, <2>3 DEF StartTool
<1>4. \A v \in Workers : TaskKept(v) BY <1>1, <1>3 DEF TaskKept
<1>5. \A m \in Sweepers : SweepKept(m) BY DEF StartTool, SweepKept
<1>6. Tokens' /\ OneOwner' /\ FencedStays' /\ FencedOut'
  BY <1>0, <1>2, <1>4, <1>5, ProcessesKept
<1>7. ToolsOwned'
  <2> SUFFICES ASSUME NEW v \in Workers, Owns(v)', task'[v].phase = "work"
               PROVE  run'[task'[v].run].tool # "running"
    BY DEF ToolsOwned
  <2>1. v # w /\ task'[v] = task[v] BY <1>3
  <2>2. Owns(v) /\ task[v].run \in Runs BY <1>0, <1>2, <1>4, OwnedBefore DEF ProcessInv
  <2>3. Owns(w) BY <1>1, <1>2 DEF Owns
  <2>4. task[v].run # r BY <1>0, <2>1, <2>2, <2>3 DEF ProcessInv, OneOwner
  <2>5. run[task[v].run].tool # "running" BY <1>0, <2>1, <2>2 DEF ProcessInv, ToolsOwned
  <2> QED BY <1>2, <2>1, <2>2, <2>4, <2>5
<1> QED BY <1>2, <1>6, <1>7 DEF ProcessInv

\* The worker that goes back to work has just closed its tool call.
LEMMA ToolEndsSafe ==
  ASSUME Inv, TypeOK', NEW w \in Workers, ToolEnds(w)
  PROVE  RepoInv' /\ ProcessInv' /\ RowsStep
<1> DEFINE r == task[w].run
<1>0. TypeOK /\ RepoType /\ RepoInv /\ ProcessInv BY InvParts DEF TypeOK, RepoType
<1>1. r \in Runs /\ task[w].token \in Nat /\ task[w].phase = "tool"
  BY <1>0, TaskFacts DEF ProcessInv, ToolEnds
<1>2. task \in [Workers -> Task] /\ task[w] \in BusyTask
  BY <1>0, <1>1, BusyTyped DEF TypeOK
<1>3. CASE /\ ToolFinish(r, task[w].token)
           /\ task' = [task EXCEPT ![w].phase = IF task[w].outcome = "none" THEN "work" ELSE "stop"]
  <2>1. RepoInv' /\ RowsStep /\ Quiet /\ run'[r].tool # "running"
    BY <1>0, <1>1, <1>3, ToolFinishSafe
  <2>2. /\ task'[w].run = task[w].run /\ task'[w].token = task[w].token
        /\ \A v \in Workers \ {w} : task'[v] = task[v]
    BY <1>2, <1>3 DEF BusyTask
  <2>3. \A v \in Workers : TaskKept(v) BY <1>1, <2>2 DEF TaskKept
  <2>4. \A m \in Sweepers : SweepKept(m) BY DEF ToolEnds, SweepKept
  <2>5. Tokens' /\ OneOwner' /\ FencedStays' /\ FencedOut'
    BY <1>0, <2>1, <2>3, <2>4, ProcessesKept
  <2>6. ToolsOwned'
    <3> SUFFICES ASSUME NEW v \in Workers, Owns(v)', task'[v].phase = "work"
                 PROVE  run'[task'[v].run].tool # "running"
      BY DEF ToolsOwned
    <3>1. CASE v = w BY <2>1, <2>2, <3>1
    <3>2. CASE v # w
      <4>1. task'[v] = task[v] BY <2>2, <3>2
      <4>2. Owns(v) /\ task[v].run \in Runs BY <1>0, <2>1, <2>3, OwnedBefore DEF ProcessInv
      <4>3. run[task[v].run].tool # "running" BY <1>0, <4>1, <4>2 DEF ProcessInv, ToolsOwned
      <4> QED BY <2>1, <4>1, <4>2, <4>3 DEF Quiet
    <3> QED BY <3>1, <3>2
  <2> QED BY <2>1, <2>5, <2>6 DEF ProcessInv
<1>4. CASE /\ task' = [task EXCEPT ![w].phase = "stop",
                                   ![w].outcome = IF @ = "none" THEN "failed" ELSE @]
           /\ UNCHANGED <<run, active>>
  <2>1. RepoInv' /\ RowsStep /\ Quiet BY <1>0, <1>4, NoRowStep
  <2>2. /\ task'[w].run = task[w].run /\ task'[w].token = task[w].token
        /\ task'[w].phase = "stop" /\ \A v \in Workers \ {w} : task'[v] = task[v]
    BY <1>2, <1>4 DEF BusyTask
  <2>3. TaskKept(w) BY <1>1, <2>2 DEF TaskKept
  <2>4. UNCHANGED sweep BY DEF ToolEnds
  <2>5. ProcessInv' BY <1>0, <2>1, <2>2, <2>3, <2>4, WorkerStepSafe
  <2> QED BY <2>1, <2>5
<1> QED BY <1>3, <1>4 DEF ToolEnds

\* The other steps of a worker keep or drop the run and never go back to work.
LEMMA OtherWorkerSafe ==
  ASSUME Inv, TypeOK', NEW w \in Workers,
         \/ ClaimNone(w) \/ Renew(w) \/ WorkEnds(w) \/ SupervisorStops(w) \/ ToolInterrupted(w)
         \/ AskApproval(w) \/ StopRun(w) \/ FinishRun(w) \/ Abandon(w)
  PROVE  RepoInv' /\ ProcessInv' /\ RowsStep
<1> DEFINE r == task[w].run
           token == task[w].token
<1>0. TypeOK /\ RepoType /\ RepoInv /\ ProcessInv BY InvParts DEF TypeOK, RepoType
<1>1. /\ task \in [Workers -> Task]
      /\ task[w].phase # "idle" =>
           task[w] \in BusyTask /\ r \in Runs /\ token \in Nat
  BY <1>0, BusyTyped, TaskKnown DEF TypeOK
<1>2. CASE ClaimNone(w)
  <2>1. RepoInv' /\ RowsStep /\ Quiet BY <1>0, <1>2, ExpirySafe DEF ClaimNone
  <2> QED BY <1>0, <1>2, <2>1, RepoStepSafe DEF ClaimNone
<1>3. CASE Renew(w)
  <2>1. RepoInv' /\ RowsStep /\ Quiet
    BY <1>0, <1>1, <1>3, HeartbeatSafe DEF Renew, Supervised
  <2> QED BY <1>0, <1>3, <2>1, RepoStepSafe DEF Renew
<1>4. ASSUME task[w].phase # "idle", UNCHANGED sweep, RepoInv', RowsStep, Quiet,
             \A v \in Workers \ {w} : task'[v] = task[v],
             \/ task' = [task EXCEPT ![w] = IdleTask]
             \/ /\ task'[w].run = r /\ task'[w].token = token
                /\ task'[w].phase = "work" => task[w].phase = "work"
      PROVE  RepoInv' /\ ProcessInv' /\ RowsStep
  <2>1. CASE task' = [task EXCEPT ![w] = IdleTask]
    <3>1. task'[w].phase = "idle" BY <1>1, <2>1 DEF IdleTask
    <3>2. TaskKept(w) BY <3>1 DEF TaskKept
    <3>3. ProcessInv' BY <1>0, <1>4, <3>1, <3>2, WorkerStepSafe
    <3> QED BY <1>4, <3>3
  <2>2. CASE /\ task'[w].run = r /\ task'[w].token = token
             /\ task'[w].phase = "work" => task[w].phase = "work"
    <3>1. TaskKept(w) BY <1>4, <2>2 DEF TaskKept
    <3>2. ProcessInv' BY <1>0, <1>4, <2>2, <3>1, WorkerStepSafe
    <3> QED BY <1>4, <3>2
  <2> QED BY <1>4, <2>1, <2>2
<1>5. CASE WorkEnds(w)
  <2>1. RepoInv' /\ RowsStep /\ Quiet BY <1>0, <1>5, NoRowStep DEF WorkEnds
  <2>2. /\ task'[w].run = r /\ task'[w].token = token
        /\ task[w].phase = "work" /\ \A v \in Workers \ {w} : task'[v] = task[v]
    BY <1>1, <1>5 DEF WorkEnds, BusyTask
  <2> QED BY <1>4, <1>5, <2>1, <2>2 DEF WorkEnds
<1>6. CASE SupervisorStops(w)
  <2>1. RepoInv' /\ RowsStep /\ Quiet BY <1>0, <1>6, NoRowStep DEF SupervisorStops
  <2>2. PICK outcome \in SupervisorVerdict(w) :
          task' = [task EXCEPT ![w].phase = IF @ = "work" THEN "stop" ELSE @, ![w].outcome = outcome]
    BY <1>6 DEF SupervisorStops
  <2>3. task[w].phase \in {"work", "tool"} BY <1>6 DEF SupervisorStops, Supervised
  <2>4. /\ task'[w].run = r /\ task'[w].token = token /\ task'[w].phase # "work"
        /\ \A v \in Workers \ {w} : task'[v] = task[v]
    BY <1>1, <2>2, <2>3 DEF BusyTask
  <2> QED BY <1>4, <1>6, <2>1, <2>3, <2>4 DEF SupervisorStops
<1>7. CASE ToolInterrupted(w)
  <2>1. RepoInv' /\ RowsStep /\ Quiet BY <1>0, <1>7, NoRowStep DEF ToolInterrupted
  <2>2. /\ task'[w].run = r /\ task'[w].token = token /\ task'[w].phase = "tool"
        /\ \A v \in Workers \ {w} : task'[v] = task[v]
    BY <1>1, <1>7 DEF ToolInterrupted, BusyTask
  <2> QED BY <1>4, <1>7, <2>1, <2>2 DEF ToolInterrupted
<1>8. CASE AskApproval(w)
  <2>1. r \in Runs /\ token \in Nat /\ WaitApproval(r, token) BY <1>1, <1>8 DEF AskApproval
  <2>2. Owns(w) BY <1>8, <2>1 DEF Owns, AskApproval, WaitApproval, Guard
  <2>3. run[r].tool # "running" BY <1>0, <1>8, <2>2 DEF AskApproval, ProcessInv, ToolsOwned
  <2>4. RepoInv' /\ RowsStep /\ Quiet BY <1>0, <2>1, <2>3, WaitApprovalSafe
  <2>5. CASE task' = [task EXCEPT ![w] = IdleTask]
    <3>1. \A v \in Workers \ {w} : task'[v] = task[v] BY <1>1, <2>5
    <3> QED BY <1>4, <1>8, <2>4, <2>5, <3>1 DEF AskApproval
  <2>6. CASE task' = [task EXCEPT ![w].phase = "stop", ![w].outcome = "failed"]
    <3>1. /\ task'[w].run = r /\ task'[w].token = token /\ task'[w].phase = "stop"
          /\ \A v \in Workers \ {w} : task'[v] = task[v]
      BY <1>1, <1>8, <2>6 DEF AskApproval, BusyTask
    <3> QED BY <1>4, <1>8, <2>4, <3>1 DEF AskApproval
  <2> QED BY <1>8, <2>5, <2>6 DEF AskApproval
<1>9. CASE StopRun(w)
  <2>0. task[w] \in BusyTask /\ r \in Runs /\ token \in Nat /\ task[w].phase = "stop"
    BY <1>1, <1>9 DEF StopRun
  <2>1. task[w].outcome \in Outcome \ {"succeeded"} BY <2>0, TaskKnown DEF Consistent
  <2>2. CASE Stop(r, token, task[w].outcome) /\ task' = [task EXCEPT ![w].phase = "finish"]
    <3>1. RepoInv' /\ RowsStep /\ Quiet BY <1>0, <2>0, <2>1, <2>2, StopSafe
    <3>2. /\ task'[w].run = r /\ task'[w].token = token /\ task'[w].phase = "finish"
          /\ \A v \in Workers \ {w} : task'[v] = task[v]
      BY <1>1, <2>0, <2>2 DEF BusyTask
    <3> QED BY <1>4, <1>9, <2>0, <3>1, <3>2 DEF StopRun
  <2>3. CASE task' = [task EXCEPT ![w] = IdleTask] /\ UNCHANGED <<run, active>>
    <3>1. RepoInv' /\ RowsStep /\ Quiet BY <1>0, <2>3, NoRowStep
    <3>2. \A v \in Workers \ {w} : task'[v] = task[v] BY <1>1, <2>3
    <3> QED BY <1>4, <1>9, <2>0, <2>3, <3>1, <3>2 DEF StopRun
  <2> QED BY <1>9, <2>2, <2>3 DEF StopRun
<1>10. CASE FinishRun(w)
  <2>0. task[w] \in BusyTask /\ r \in Runs /\ token \in Nat /\ task[w].phase = "finish"
    BY <1>1, <1>10 DEF FinishRun
  <2>1. task[w].outcome \in Outcome BY <2>0, TaskKnown DEF Consistent
  <2>2. RepoInv' /\ RowsStep /\ Quiet
    BY <1>0, <1>10, <2>0, <2>1, FinishSafe, NoRowStep DEF FinishRun
  <2>3. \A v \in Workers \ {w} : task'[v] = task[v] BY <1>1, <1>10 DEF FinishRun
  <2> QED BY <1>4, <1>10, <2>0, <2>2, <2>3 DEF FinishRun
<1>11. CASE Abandon(w)
  <2>1. RepoInv' /\ RowsStep /\ Quiet BY <1>0, <1>11, NoRowStep DEF Abandon
  <2>2. \A v \in Workers \ {w} : task'[v] = task[v] BY <1>1, <1>11 DEF Abandon
  <2> QED BY <1>4, <1>11, <2>1, <2>2 DEF Abandon
<1> QED BY <1>2, <1>3, <1>5, <1>6, <1>7, <1>8, <1>9, <1>10, <1>11

\* A sweeper goes on or gives up.
LEMMA SweeperSafe ==
  ASSUME Inv, TypeOK', NEW m \in Sweepers, SweeperProgress(m) \/ SweepAbandon(m)
  PROVE  RepoInv' /\ ProcessInv' /\ RowsStep
<1> DEFINE r == sweep[m].run
           token == sweep[m].token
<1>0. /\ TypeOK /\ RepoType /\ RepoInv /\ ProcessInv /\ Tokens
      /\ sweep \in [Sweepers -> Sweep]
  BY InvParts DEF TypeOK, RepoType, ProcessInv
<1>1. sweep[m].phase # "idle" =>
        sweep[m] \in BusySweep /\ r \in Runs /\ token \in Nat /\ token <= run[r].fence
  BY <1>0, BusyTyped, SweepFacts
<1>2. UNCHANGED task
  BY DEF SweeperProgress, SweepRead, SweepFence, SweepRecover, SweepAbandon
<1>3. \A w \in Workers : TaskKept(w) BY <1>2 DEF TaskKept
\* Steps that end the sweep.
<1>4. ASSUME RepoInv', RowsStep, Quiet, sweep' = [sweep EXCEPT ![m] = IdleSweep]
      PROVE  ProcessInv'
  <2>1. \A n \in Sweepers : SweepKept(n)
    <3> TAKE n \in Sweepers
    <3>1. sweep'[n] = IF n = m THEN IdleSweep ELSE sweep[n] BY <1>0, <1>4
    <3> QED BY <3>1 DEF SweepKept, IdleSweep
  <2>2. Tokens' /\ OneOwner' /\ FencedStays' /\ FencedOut'
    BY <1>0, <1>3, <1>4, <2>1, ProcessesKept
  <2>3. ToolsOwned' BY <1>0, <1>2, <1>3, <1>4, ToolsKept
  <2> QED BY <2>2, <2>3 DEF ProcessInv
\* Steps that start a sweep, or advance one that now holds the current fence.
<1>5. ASSUME RepoInv', RowsStep, Quiet, NEW q \in Runs, NEW new,
             sweep' = [sweep EXCEPT ![m] = new],
             new.run = q, new.token = run'[q].fence,
             new.phase = "recover" =>
               run'[q].status = "stopping" /\ run'[q].fence = run[q].fence + 1
      PROVE  ProcessInv'
  <2>1. /\ sweep'[m] = new /\ \A n \in Sweepers \ {m} : sweep'[n] = sweep[n]
        /\ run[q].fence \in Nat /\ run'[q].fence \in Nat
    BY <1>0, <1>5, FencesGrow
  <2>2. ASSUME NEW w \in Workers, task'[w].phase # "idle"
        PROVE  /\ task'[w].token <= run'[task'[w].run].fence /\ (Owns(w)' => Owns(w))
               /\ task'[w] = task[w] /\ task[w].run \in Runs
               /\ task[w].token \in Nat /\ task[w].token <= run[task[w].run].fence
    BY <1>0, <1>2, <1>3, <1>5, <2>2, OwnedBefore, TaskFacts
  <2>3. ASSUME NEW n \in Sweepers \ {m}, sweep'[n].phase # "idle"
        PROVE  /\ sweep[n].run \in Runs /\ sweep[n].token \in Nat
               /\ sweep[n].token <= run'[sweep[n].run].fence
    <3>1. /\ sweep[n].run \in Runs /\ sweep[n].token \in Nat
          /\ sweep[n].token <= run[sweep[n].run].fence
      BY <1>0, <2>1, <2>3, SweepFacts
    <3> QED BY <1>0, <1>5, <3>1, FencesGrow
  <2>4. Tokens'
    <3>1. ASSUME NEW n \in Sweepers, sweep'[n].phase # "idle"
          PROVE  sweep'[n].token <= run'[sweep'[n].run].fence
      BY <1>5, <2>1, <2>3, <3>1
    <3> QED BY <2>2, <3>1 DEF Tokens
  <2>5. OneOwner'
    <3>1. \A w \in Workers : Owns(w)' => task'[w].phase # "idle" BY DEF Owns
    <3> QED BY <1>0, <2>2, <3>1 DEF ProcessInv, OneOwner
  <2>6. ToolsOwned' BY <1>0, <1>2, <1>3, <1>5, ToolsKept
  <2>7. FencedStays'
    <3> SUFFICES ASSUME NEW n \in Sweepers, sweep'[n].phase = "recover"
                 PROVE  run'[sweep'[n].run].status \in Settled
      BY DEF FencedStays, Settled
    <3>1. CASE n = m BY <1>5, <2>1, <3>1 DEF Settled
    <3>2. CASE n # m
      <4>1. run[sweep[n].run].status \in Settled
        BY <1>0, <2>1, <3>2 DEF ProcessInv, FencedStays, Settled
      <4> QED BY <1>5, <2>1, <2>3, <3>2, <4>1 DEF RowsStep, RowStep
    <3> QED BY <3>1, <3>2
  <2>8. FencedOut'
    <3> SUFFICES ASSUME NEW n \in Sweepers, NEW w \in Workers, sweep'[n].phase = "recover",
                        task'[w].phase # "idle", task'[w].run = sweep'[n].run
                 PROVE  task'[w].token < sweep'[n].token
      BY DEF FencedOut
    <3>1. CASE n = m BY <1>5, <2>1, <2>2, <3>1
    <3>2. CASE n # m BY <1>0, <2>1, <2>2, <3>2 DEF ProcessInv, FencedOut
    <3> QED BY <3>1, <3>2
  <2> QED BY <2>4, <2>5, <2>6, <2>7, <2>8 DEF ProcessInv
<1>6. CASE SweepRead(m)
  <2>1. RepoInv' /\ RowsStep /\ Quiet BY <1>0, <1>6, NoRowStep DEF SweepRead
  <2>2. PICK q \in Runs :
          sweep' = [sweep EXCEPT ![m] = [phase |-> "fence", run |-> q, token |-> run[q].fence]]
    BY <1>6 DEF SweepRead
  <2> DEFINE new == [phase |-> "fence", run |-> q, token |-> run[q].fence]
  <2>3. new.phase = "fence" /\ new.run = q /\ new.token = run'[q].fence
    BY <1>6 DEF SweepRead
  <2>4. sweep' = [sweep EXCEPT ![m] = new] BY <2>2
  <2> HIDE DEF new
  <2> QED BY <1>5, <2>1, <2>3, <2>4
<1>7. CASE SweepFence(m)
  <2>0. sweep[m] \in BusySweep /\ r \in Runs /\ token \in Nat BY <1>1, <1>7 DEF SweepFence
  <2>1. CASE /\ FenceExpired(r, token)
             /\ sweep' = [sweep EXCEPT ![m].phase = "recover", ![m].token = run'[r].fence]
    <3>1. /\ RepoInv' /\ RowsStep /\ Quiet
          /\ run[r].fence = token /\ run'[r].fence = token + 1 /\ run'[r].status = "stopping"
      BY <1>0, <2>0, <2>1, FenceSafe
    <3> DEFINE new == [sweep[m] EXCEPT !.phase = "recover", !.token = run'[r].fence]
    <3>2. sweep' = [sweep EXCEPT ![m] = new] BY <2>1
    <3>3. /\ new.run = r /\ new.token = run'[r].fence
          /\ run'[r].status = "stopping" /\ run'[r].fence = run[r].fence + 1
      BY <2>0, <3>1 DEF BusySweep
    <3> HIDE DEF new
    <3> QED BY <1>5, <2>0, <3>1, <3>2, <3>3
  <2>2. CASE sweep' = [sweep EXCEPT ![m] = IdleSweep] /\ UNCHANGED <<run, active>>
    <3>1. RepoInv' /\ RowsStep /\ Quiet BY <1>0, <2>2, NoRowStep
    <3> QED BY <1>4, <2>2, <3>1
  <2> QED BY <1>7, <2>1, <2>2 DEF SweepFence
<1>8. CASE SweepRecover(m)
  <2>0. r \in Runs /\ token \in Nat BY <1>1, <1>8 DEF SweepRecover
  <2>1. RepoInv' /\ RowsStep /\ Quiet
    BY <1>0, <1>8, <2>0, RecoverSafe, NoRowStep DEF SweepRecover
  <2> QED BY <1>4, <1>8, <2>1 DEF SweepRecover
<1>9. CASE SweepAbandon(m)
  <2>1. RepoInv' /\ RowsStep /\ Quiet BY <1>0, <1>9, NoRowStep DEF SweepAbandon
  <2> QED BY <1>4, <1>9, <2>1 DEF SweepAbandon
<1> QED BY <1>6, <1>7, <1>8, <1>9 DEF SweeperProgress

\* The invariant holds at first.
LEMMA InvInit == Init => Inv
<1> SUFFICES ASSUME Init PROVE Inv
  OBVIOUS
<1>1. TypeOK BY TypeInit
<1>2. \A r \in Runs : run[r] = Unborn BY DEF Init, RepoInit
<1>3. SessionSlot
  <2>1. \A r \in Runs : active[SessionOf[r]] = NoRun /\ r # NoRun
    BY RepositoryAssumption DEF Init, RepoInit
  <2> QED BY <1>2, <2>1, Disjoint DEF SessionSlot, Unborn
<1>4. NothingLeftOpen /\ Reasons
  <2>1. RowOK(Unborn) BY Disjoint DEF RowOK, Unborn
  <2> QED BY <1>2, <2>1, Rows
<1>5. ProcessInv
  <2>1. \A w \in Workers : task[w].phase = "idle" BY DEF Init, IdleTask
  <2>2. \A m \in Sweepers : sweep[m].phase = "idle" BY DEF Init, IdleSweep
  <2> QED BY <2>1, <2>2 DEF ProcessInv, Tokens, OneOwner, Owns, ToolsOwned, FencedStays, FencedOut
<1> QED BY <1>1, <1>3, <1>4, <1>5, InvParts DEF RepoInv

\* Every step keeps the invariant, and moves rows as rows may move.
LEMMA InvStep == Inv /\ [Next]_vars => Inv' /\ RowsStep
<1> SUFFICES ASSUME Inv, [Next]_vars PROVE Inv' /\ RowsStep
  OBVIOUS
<1>0. TypeOK /\ RepoType /\ RepoInv /\ ProcessInv BY InvParts DEF TypeOK, RepoType
<1>1. TypeOK' BY <1>0, TypeStep
<1> SUFFICES RepoInv' /\ ProcessInv' /\ RowsStep
  BY <1>1 DEF Inv, RepoInv, ProcessInv
<1>2. ASSUME NEW r \in Runs, UserStep(r) PROVE RepoInv' /\ ProcessInv' /\ RowsStep
  <2>1. RepoInv' /\ RowsStep /\ Quiet
    BY <1>0, <1>2, CreateSafe, CancelSafe, ApproveSafe DEF UserStep, SuppressSource
  <2> QED BY <1>0, <1>1, <1>2, <2>1, RepoStepSafe DEF UserStep
<1>3. ASSUME NEW r \in Runs, TimePasses(r) PROVE RepoInv' /\ ProcessInv' /\ RowsStep
  <2>1. RepoInv' /\ RowsStep /\ Quiet BY <1>0, <1>3, TimeSafe DEF TimePasses
  <2> QED BY <1>0, <1>1, <1>3, <2>1, RepoStepSafe DEF TimePasses
<1>4. ASSUME NEW w \in Workers, WorkerProgress(w) \/ Abandon(w)
      PROVE  RepoInv' /\ ProcessInv' /\ RowsStep
  BY <1>1, <1>4, ClaimTaskSafe, StartToolSafe, ToolEndsSafe, OtherWorkerSafe DEF WorkerProgress
<1>5. ASSUME NEW m \in Sweepers, SweeperProgress(m) \/ SweepAbandon(m)
      PROVE  RepoInv' /\ ProcessInv' /\ RowsStep
  BY <1>1, <1>5, SweeperSafe
<1>6. CASE Expire
  <2>1. RepoInv' /\ RowsStep /\ Quiet BY <1>0, <1>6, ExpirySafe DEF Expire
  <2> QED BY <1>0, <1>1, <1>6, <2>1, RepoStepSafe DEF Expire
<1>7. CASE UNCHANGED vars
  <2>1. RepoInv' /\ RowsStep /\ Quiet BY <1>0, <1>7, NoRowStep DEF vars
  <2> QED BY <1>0, <1>1, <1>7, <2>1, RepoStepSafe DEF vars
<1> QED BY <1>2, <1>3, <1>4, <1>5, <1>6, <1>7 DEF Next

-----------------------------------------------------------------------------
(* Success: the one transaction that writes it. *)

NoSuccess == \A q \in Runs : run'[q].status = "succeeded" => run[q].status = "succeeded"

\* A row that is closed has its outcome.
LEMMA ClosedStatus ==
  ASSUME NEW row \in Row, NEW outcome
  PROVE  Closed(row, outcome).status = outcome
BY DEF Closed, Row

\* Runs that are finished together do not succeed.
LEMMA FinishAllNoSuccess ==
  ASSUME RepoType, NEW X \in SUBSET Runs, NEW outcome, outcome # "succeeded",
         FinishAll(X, outcome)
  PROVE  NoSuccess
BY ClosedStatus DEF FinishAll, RepoType, NoSuccess

\* No user and no clock makes a run succeed.
LEMMA UserNoSuccess ==
  ASSUME RepoType, NEW r \in Runs, UserStep(r) \/ TimePasses(r)
  PROVE  NoSuccess
<1>0. \A q \in Runs : run[q] \in Row BY DEF RepoType
<1>1. CASE CreateRun(r) BY <1>0, <1>1 DEF CreateRun, RepoType, NoSuccess, Row
<1>2. CASE Cancel(r)
  <2>1. CASE FinishAll({r}, "cancelled") BY <2>1, FinishAllNoSuccess
  <2>2. CASE run' = [run EXCEPT ![r].status = "stopping", ![r].stopReason = "cancelled"]
    BY <1>0, <2>2 DEF RepoType, NoSuccess, Row
  <2> QED BY <1>2, <2>1, <2>2 DEF Cancel
<1>3. ASSUME NEW allow \in BOOLEAN, Approve(r, allow) PROVE NoSuccess
  <2>1. CASE FinishAll({r}, "timed_out") BY <2>1, FinishAllNoSuccess
  <2>2. CASE run' = [run EXCEPT ![r] = Closed([@ EXCEPT !.approval = "rejected"], "cancelled")]
    <3>1. [run[r] EXCEPT !.approval = "rejected"] \in Row BY <1>0 DEF Row
    <3>2. run'[r].status = "cancelled" BY <2>2, <3>1, ClosedStatus DEF RepoType
    <3> QED BY <2>2, <3>2 DEF RepoType, NoSuccess
  <2>3. CASE run' = [run EXCEPT ![r].approval = "approved", ![r].status = "queued",
                                ![r].overdue = @ \ {"queue"}]
    BY <1>0, <2>3 DEF RepoType, NoSuccess, Row
  <2> QED BY <1>3, <2>1, <2>2, <2>3 DEF Approve
<1>4. CASE TimePasses(r)
  BY <1>0, <1>4 DEF TimePasses, LeaseExpires, DeadlinePasses, QueueDeadlinePasses,
                    ApprovalExpires, RepoType, NoSuccess, Row
<1> QED BY <1>1, <1>2, <1>3, <1>4 DEF UserStep, SuppressSource

\* No sweeper and no expiry makes a run succeed.
LEMMA MaintenanceNoSuccess ==
  ASSUME RepoType, NEW r \in Runs, NEW token,
         FenceExpired(r, token) \/ Recover(r, token) \/ ExpireWaiting \/ ClaimNothing
  PROVE  NoSuccess
<1>0. \A q \in Runs : run[q] \in Row BY DEF RepoType
<1>1. CASE FenceExpired(r, token) BY <1>0, <1>1 DEF FenceExpired, RepoType, NoSuccess, Row
<1>2. CASE Recover(r, token)
  <2>1. token \in Nat BY <1>0, <1>2 DEF Recover, Row
  <2>2. [run[r] EXCEPT !.fence = token + 1] \in Row BY <1>0, <2>1 DEF Row
  <2>3. RecoverOutcome(r) # "succeeded" BY <1>0 DEF RecoverOutcome, Row, StopReason
  <2>4. run'[r].status = RecoverOutcome(r) BY <1>2, <2>2, ClosedStatus DEF Recover, RepoType
  <2> QED BY <1>2, <2>3, <2>4 DEF Recover, RepoType, NoSuccess
<1>3. CASE ExpireWaiting
  BY <1>3, FinishAllNoSuccess DEF ExpireWaiting, WaitingExpired, In
<1>4. CASE ClaimNothing
  BY <1>4, FinishAllNoSuccess DEF ClaimNothing, QueueExpired, In
<1> QED BY <1>1, <1>2, <1>3, <1>4

\* No claim makes a run succeed.
LEMMA ClaimNoSuccess ==
  ASSUME RepoType, NEW r \in Runs, NEW X \in SUBSET QueueExpired, ClaimRun(r, X)
  PROVE  NoSuccess
<1> SUFFICES ASSUME NEW q \in Runs, run'[q].status = "succeeded"
             PROVE  run[q].status = "succeeded"
  BY DEF NoSuccess
<1>0. run[q] \in Row BY DEF RepoType
<1>1. CASE q \in X
  <2>1. run'[q] = Closed(run[q], "timed_out") BY <1>1 DEF ClaimRun
  <2> QED BY <1>0, <2>1, ClosedStatus
<1>2. CASE q \notin X /\ q = r
  <2>1. run'[q] = [run[q] EXCEPT !.status = "running", !.lease = "live", !.fence = @ + 1]
    BY <1>2 DEF ClaimRun
  <2> QED BY <1>0, <2>1 DEF Row
<1>3. CASE q \notin X /\ q # r BY <1>3 DEF ClaimRun
<1> QED BY <1>1, <1>2, <1>3

\* No transaction of a worker but the last makes a run succeed.
LEMMA WorkerNoSuccess ==
  ASSUME RepoType, NEW r \in Runs, NEW token, NEW reason,
         \/ Heartbeat(r, token) \/ Stop(r, token, reason)
         \/ ToolStart(r, token) \/ ToolFinish(r, token) \/ WaitApproval(r, token)
  PROVE  NoSuccess
<1>0. \A q \in Runs : run[q] \in Row BY DEF RepoType
<1>1. CASE Heartbeat(r, token) BY <1>0, <1>1 DEF Heartbeat, RepoType, NoSuccess, Row
<1>2. CASE Stop(r, token, reason) BY <1>0, <1>2 DEF Stop, RepoType, NoSuccess, Row
<1>3. CASE ToolStart(r, token) BY <1>0, <1>3 DEF ToolStart, RepoType, NoSuccess, Row
<1>4. CASE ToolFinish(r, token) BY <1>0, <1>4 DEF ToolFinish, RepoType, NoSuccess, Row
<1>5. CASE WaitApproval(r, token) BY <1>0, <1>5 DEF WaitApproval, RepoType, NoSuccess, Row
<1> QED BY <1>1, <1>2, <1>3, <1>4, <1>5

Earned ==
  \A r \in Runs :
    run'[r].status = "succeeded" /\ run[r].status # "succeeded" =>
      /\ run[r].status = "running" /\ run[r].lease = "live"
      /\ "run" \notin run[r].overdue
      /\ \E w \in Workers : /\ task[w].phase = "finish" /\ task[w].outcome = "succeeded"
                            /\ task[w].run = r /\ Owns(w)

\* A worker that finishes its run as succeeded has done its work.
LEMMA FinishEarned ==
  ASSUME Inv, NEW w \in Workers, FinishRun(w)
  PROVE  Earned
<1> DEFINE q == task[w].run
<1>0. TypeOK /\ RepoType /\ Tokens BY DEF Inv, TypeOK, RepoType
<1>1. q \in Runs /\ task[w].phase = "finish" /\ run[q] \in Row
  BY <1>0, TaskFacts DEF FinishRun, RepoType
<1> SUFFICES ASSUME NEW r \in Runs, run'[r].status = "succeeded", run[r].status # "succeeded"
             PROVE  /\ r = q /\ task[w].outcome = "succeeded" /\ Owns(w)
                    /\ run[r].status = "running" /\ run[r].lease = "live"
                    /\ "run" \notin run[r].overdue
  BY <1>1 DEF Earned
<1>2. run' # run BY <1>0
<1>3. Finish(q, task[w].token, task[w].outcome) BY <1>2 DEF FinishRun
<1>4. r = q /\ run'[r] = Closed(run[r], FinishOutcome(r, task[w].outcome))
  BY <1>3 DEF Finish, FinishAll
<1>5. FinishOutcome(r, task[w].outcome) = "succeeded" BY <1>1, <1>4, ClosedStatus
<1>6. run[r].status \in Active /\ run[r].lease = "live" /\ run[r].fence = task[w].token
  BY <1>3, <1>4 DEF Finish, GuardStopping
<1>7. run[r].status = "running" /\ "run" \notin run[r].overdue /\ task[w].outcome = "succeeded"
  BY <1>1, <1>4, <1>5, <1>6 DEF FinishOutcome, Row, StopReason, Active
<1> QED BY <1>1, <1>4, <1>6, <1>7 DEF Owns

\* A step after which a run has succeeded is its worker's.
LEMMA SuccessStep == Inv /\ [Next]_vars => Earned
<1> SUFFICES ASSUME Inv, [Next]_vars PROVE Earned
  OBVIOUS
<1>0. TypeOK /\ RepoType /\ Tokens BY DEF Inv, TypeOK, RepoType
<1>1. NoSuccess => Earned BY DEF NoSuccess, Earned
<1>2. run' = run => NoSuccess BY DEF NoSuccess
<1>3. ASSUME NEW r \in Runs, UserStep(r) \/ TimePasses(r) PROVE Earned
  BY <1>0, <1>1, <1>3, UserNoSuccess
<1>4. ASSUME NEW w \in Workers, WorkerProgress(w) \/ Abandon(w) PROVE Earned
  <2>1. task[w].phase # "idle" => task[w].run \in Runs BY <1>0, TaskFacts
  <2>2. CASE ClaimTask(w) BY <1>0, <1>1, <2>2, ClaimNoSuccess DEF ClaimTask
  <2>3. CASE ClaimNone(w)
    <3>1. ClaimNothing BY <2>3 DEF ClaimNone
    <3>2. Runs # {} BY <3>1 DEF ClaimNothing, QueueExpired, In
    <3> QED BY <1>0, <1>1, <3>1, <3>2, MaintenanceNoSuccess
  <2>4. CASE Renew(w)
    BY <1>0, <1>1, <2>1, <2>4, WorkerNoSuccess DEF Renew, Supervised
  <2>5. CASE WorkEnds(w) \/ SupervisorStops(w) \/ ToolInterrupted(w) \/ Abandon(w)
    BY <1>1, <1>2, <2>5 DEF WorkEnds, SupervisorStops, ToolInterrupted, Abandon
  <2>6. CASE StartTool(w) BY <1>0, <1>1, <2>1, <2>6, WorkerNoSuccess DEF StartTool
  <2>7. CASE ToolEnds(w)
    BY <1>0, <1>1, <1>2, <2>1, <2>7, WorkerNoSuccess DEF ToolEnds
  <2>8. CASE AskApproval(w) BY <1>0, <1>1, <2>1, <2>8, WorkerNoSuccess DEF AskApproval
  <2>9. CASE StopRun(w) BY <1>0, <1>1, <1>2, <2>1, <2>9, WorkerNoSuccess DEF StopRun
  <2>10. CASE FinishRun(w) BY <2>10, FinishEarned
  <2> QED BY <1>4, <2>2, <2>3, <2>4, <2>5, <2>6, <2>7, <2>8, <2>9, <2>10 DEF WorkerProgress
<1>5. ASSUME NEW m \in Sweepers, SweeperProgress(m) \/ SweepAbandon(m) PROVE Earned
  <2>1. sweep[m].phase # "idle" => sweep[m].run \in Runs BY <1>0, SweepFacts
  <2>2. CASE SweepRead(m) \/ SweepAbandon(m) BY <1>1, <1>2, <2>2 DEF SweepRead, SweepAbandon
  <2>3. CASE SweepFence(m)
    BY <1>0, <1>1, <1>2, <2>1, <2>3, MaintenanceNoSuccess DEF SweepFence
  <2>4. CASE SweepRecover(m)
    BY <1>0, <1>1, <1>2, <2>1, <2>4, MaintenanceNoSuccess DEF SweepRecover
  <2> QED BY <1>5, <2>2, <2>3, <2>4 DEF SweeperProgress
<1>6. CASE Expire
  <2>1. ExpireWaiting BY <1>6 DEF Expire
  <2>2. Runs # {} BY <2>1 DEF ExpireWaiting, WaitingExpired, In
  <2> QED BY <1>0, <1>1, <2>1, <2>2, MaintenanceNoSuccess
<1>7. CASE UNCHANGED vars BY <1>1, <1>2, <1>7 DEF vars
<1> QED BY <1>3, <1>4, <1>5, <1>6, <1>7 DEF Next

-----------------------------------------------------------------------------
(* The theorems. *)

\* What every process relies on holds in every state, for every number of users,
\* sessions, runs, workers and sweepers and for every limit.
THEOREM Safety == Spec => []Inv
BY InvInit, InvStep, PTL DEF Spec

\* A session points at its unfinished run, and at nothing once that run is over.
THEOREM SessionSlotHolds == Spec => []SessionSlot
<1>1. Inv => SessionSlot BY DEF Inv
<1> QED BY <1>1, Safety, PTL

\* No finished run keeps a lease, a running tool or a pending approval.
THEOREM NothingLeftOpenHolds == Spec => []NothingLeftOpen
<1>1. Inv => NothingLeftOpen BY DEF Inv
<1> QED BY <1>1, Safety, PTL

\* Two workers never hold the current fence token of the same run.
THEOREM OneOwnerHolds == Spec => []OneOwner
<1>1. Inv => OneOwner BY DEF Inv
<1> QED BY <1>1, Safety, PTL

\* While a fenced run is cleaned up, every worker that still has it is fenced out.
THEOREM FencedOutHolds == Spec => []FencedOut
<1>1. Inv => FencedOut BY DEF Inv
<1> QED BY <1>1, Safety, PTL

\* No late step changes a run that is over.
THEOREM TerminalIsFinalHolds == Spec => TerminalIsFinal
<1>1. RowsStep => \A r \in Runs : run[r].status \in Terminal => run'[r] = run[r]
  BY DEF RowsStep, RowStep, Settled
<1>2. Inv /\ [Next]_vars => [\A r \in Runs : run[r].status \in Terminal => run'[r] = run[r]]_vars
  BY <1>1, InvStep
<1> QED BY <1>2, Safety, PTL DEF Spec, TerminalIsFinal

\* A token that was refused once is refused for ever.
THEOREM RefusedForGoodHolds == Spec => RefusedForGood
<1> DEFINE Refused == \A r \in Runs : \A token \in 1..run[r].fence :
                        ~Guard(r, token) => ~Guard(r, token)'
<1>1. ASSUME Inv, RowsStep, NEW r \in Runs, NEW token \in 1..run[r].fence, Guard(r, token)'
      PROVE  Guard(r, token)
  <2>1. run[r].fence \in Nat /\ token <= run[r].fence BY <1>1 DEF Inv, TypeOK, Row
  <2>2. run'[r].fence = token /\ MayWork(run'[r]) BY <1>1 DEF Guard, MayWork
  <2>3. run'[r].fence >= run[r].fence BY <1>1 DEF RowsStep, RowStep
  <2>4. run'[r].fence = run[r].fence BY <2>1, <2>2, <2>3
  <2>5. MayWork(run[r]) BY <1>1, <2>2, <2>4 DEF RowsStep, RowStep
  <2> QED BY <2>2, <2>4, <2>5 DEF Guard, MayWork
<1>2. Inv /\ [Next]_vars => [Refused]_vars BY <1>1, InvStep
<1> QED BY <1>2, Safety, PTL DEF Spec, RefusedForGood

\* The first reason to stop a run is the one it ends with.
THEOREM FirstReasonWinsHolds == Spec => FirstReasonWins
<1> DEFINE Kept == \A r \in Runs : run[r].stopReason # "none" =>
                     /\ run'[r].stopReason = run[r].stopReason
                     /\ run'[r].status \in {"stopping", run[r].stopReason}
<1>1. RowsStep => Kept BY DEF RowsStep, RowStep, RowOK
<1>2. Inv /\ [Next]_vars => [Kept]_vars BY <1>1, InvStep
<1> QED BY <1>2, Safety, PTL DEF Spec, FirstReasonWins

\* Only the owner of a run whose pipeline returned in time reports success.
THEOREM SuccessIsEarnedHolds == Spec => SuccessIsEarned
<1>1. Inv /\ [Next]_vars => [Earned]_vars BY SuccessStep
<1> QED BY <1>1, Safety, PTL DEF Spec, SuccessIsEarned, Earned

\* What is over is let go of, whoever ended it.
THEOREM FinishedRunsAreReleased == Spec => []FinishedIsReleased
BY SessionSlotHolds, NothingLeftOpenHolds, PTL DEF FinishedIsReleased

\* A run has one owner at a time, and none while it is cleaned up.
THEOREM OwnershipHolds == Spec => []Ownership
BY OneOwnerHolds, FencedOutHolds, PTL DEF Ownership

\* A run ends once, with its first reason or a success that its owner earned.
THEOREM RunsEndOnce == Spec => EndsOnce
BY TerminalIsFinalHolds, FirstReasonWinsHolds, SuccessIsEarnedHolds, RefusedForGoodHolds DEF EndsOnce

-----------------------------------------------------------------------------
(* The service implements its life cycle. *)

\* The phases of the runs, as the life cycle sees them.
Lives == [r \in Runs |-> Life(run[r].status)]

\* Which statuses are which phase.
LEMMA LifeOfStatus ==
  /\ Life("absent") = "none" /\ Life("running") = "executing" /\ Life("stopping") = "stopping"
  /\ Life("succeeded") = "succeeded"
  /\ \A status \in Waiting : Life(status) = "waiting"
  /\ \A status \in Terminal \ {"succeeded"} : Life(status) = "unsuccessful"
BY Disjoint DEF Life, Waiting, Active, Terminal

\* And back.
LEMMA StatusOfLife ==
  ASSUME NEW status \in Status
  PROVE  /\ Life(status) = "none" <=> status = "absent"
         /\ Life(status) = "waiting" <=> status \in Waiting
         /\ Life(status) = "executing" <=> status = "running"
         /\ Life(status) \in {"executing", "stopping"} <=> status \in Active
         /\ Life(status) \in {"waiting", "executing", "stopping"} <=> status \in Unfinished
BY LifeOfStatus DEF Status, Waiting, Active, Terminal, Unfinished

\* What waits and what executes is the same in both.
LEMMA SameRuns ==
  ASSUME RepoType
  PROVE  /\ Lifecycle!Are({"waiting"}) = In(Waiting)
         /\ Lifecycle!Are(Lifecycle!Executing) = In(Active)
         /\ \A u : Lifecycle!AreOf(u, {"waiting"}) = InOf(u, Waiting)
         /\ \A u : Lifecycle!AreOf(u, Lifecycle!Executing) = InOf(u, Active)
<1>1. \A r \in Runs : run[r].status \in Status
  BY DEF RepoType, Row
<1>2. /\ Lifecycle!Are({"waiting"}) = In(Waiting)
      /\ Lifecycle!Are(Lifecycle!Executing) = In(Active)
  BY <1>1, StatusOfLife DEF Lifecycle!Are, Lifecycle!Executing, In
<1> QED
  BY <1>2 DEF Lifecycle!AreOf, InOf, Lifecycle!UserOf, UserOf

\* Both count alike.
LEMMA SameCount == \A S : Lifecycle!Cardinality(S) = Cardinality(S)
BY DEF Lifecycle!Cardinality, Cardinality

\* There is room in the one where there is room in the other.
LEMMA SameRoom ==
  ASSUME RepoType, NEW r \in Runs
  PROVE  /\ Lifecycle!RoomToWait(Lifecycle!UserOf(r)) <=> WaitingSlot(UserOf(r))
         /\ Lifecycle!RoomToExecute(Lifecycle!UserOf(r)) <=>
              Cardinality(InOf(UserOf(r), Active)) < UserRunning /\ Cardinality(In(Active)) < MaxRunning
<1>1. Lifecycle!UserOf(r) = UserOf(r)
  BY DEF Lifecycle!UserOf, UserOf
<1>. DEFINE u == UserOf(r)
<1>2. /\ Lifecycle!Are({"waiting"}) = In(Waiting) /\ Lifecycle!Are(Lifecycle!Executing) = In(Active)
      /\ Lifecycle!AreOf(u, {"waiting"}) = InOf(u, Waiting)
      /\ Lifecycle!AreOf(u, Lifecycle!Executing) = InOf(u, Active)
  BY SameRuns
<1>. HIDE DEF u
<1>3. /\ Lifecycle!RoomToWait(u) <=> WaitingSlot(u)
      /\ Lifecycle!RoomToExecute(u) <=>
           Cardinality(InOf(u, Active)) < UserRunning /\ Cardinality(In(Active)) < MaxRunning
  BY <1>2, SameCount DEF Lifecycle!RoomToWait, WaitingSlot, Lifecycle!RoomToExecute
<1> QED
  BY <1>1, <1>3 DEF u

\* One run comes to another phase.
LEMMA OneLife ==
  ASSUME NEW r \in Runs, NEW status,
         \A q \in Runs : run'[q].status = IF q = r THEN status ELSE run[q].status
  PROVE  Lives' = [Lives EXCEPT ![r] = Life(status)]
BY DEF Lives

\* Runs that end together come to the same phase.
LEMMA EndedLives ==
  ASSUME RepoType, NEW X \in SUBSET Runs, NEW outcome, FinishAll(X, outcome)
  PROVE  Lives' = [r \in Runs |-> IF r \in X THEN Life(outcome) ELSE Lives[r]]
<1>1. ASSUME NEW q \in Runs PROVE run'[q].status = IF q \in X THEN outcome ELSE run[q].status
  <2>1. run[q] \in Row /\ run'[q] = IF q \in X THEN Closed(run[q], outcome) ELSE run[q]
    BY DEF RepoType, FinishAll
  <2> QED
    BY <2>1, ClosedStatus
<1> QED
  BY <1>1 DEF Lives

\* What a step of the service may do to the life of the runs.
Lived == Lifecycle!Next \/ Lives' = Lives

\* Waiting runs that end were given up.
LEMMA EndWaitingLives ==
  ASSUME RepoType, NEW X \in SUBSET In(Waiting), NEW outcome \in Terminal \ {"succeeded"},
         FinishAll(X, outcome)
  PROVE  Lived
<1>1. X \in SUBSET Runs
  BY DEF In
<1>2. Lives' = [r \in Runs |-> IF r \in X THEN "unsuccessful" ELSE Lives[r]]
  BY <1>1, EndedLives, LifeOfStatus
<1>3. CASE X = {}
  BY <1>2, <1>3 DEF Lives, Lived
<1>4. CASE X # {}
  <2>1. Lifecycle!GiveUp(X)
    BY <1>2, <1>4, SameRuns DEF Lifecycle!GiveUp, Lives
  <2> QED
    BY <1>1, <2>1 DEF Lifecycle!Next, Lived
<1> QED
  BY <1>3, <1>4

\* A run that executes ends: as succeeded only if nobody had asked it to stop.
LEMMA EndActiveLives ==
  ASSUME RepoType, NEW r \in Runs, NEW outcome \in Terminal, run[r].status \in Active,
         outcome = "succeeded" => run[r].status = "running",
         \A q \in Runs : run'[q].status = IF q = r THEN outcome ELSE run[q].status
  PROVE  Lived
<1>1. Lives' = [Lives EXCEPT ![r] = Life(outcome)]
  BY DEF Lives
<1>2. Lifecycle!End(r)
  <2>1. run[r].status \in Status
    BY DEF RepoType, Row
  <2>2. Life(run[r].status) \in Lifecycle!Executing
    BY <2>1, StatusOfLife DEF Lifecycle!Executing
  <2> QED
    BY <1>1, <2>1, <2>2, LifeOfStatus DEF Lifecycle!End, Lives
<1> QED
  BY <1>2 DEF Lifecycle!Next, Lived

\* A run that executes is asked to stop; one that stops already goes on stopping.
LEMMA StopLives ==
  ASSUME RepoType, NEW r \in Runs, run[r].status \in Active,
         \A q \in Runs : run'[q].status = IF q = r THEN "stopping" ELSE run[q].status
  PROVE  Lived
<1>1. CASE run[r].status = "stopping"
  BY <1>1 DEF Lives, Lived
<1>2. CASE run[r].status = "running"
  <2>1. Lives' = [Lives EXCEPT ![r] = "stopping"]
    BY LifeOfStatus DEF Lives
  <2>2. Lifecycle!AskToStop(r)
    BY <1>2, <2>1, LifeOfStatus DEF Lifecycle!AskToStop, Lives
  <2> QED
    BY <2>2 DEF Lifecycle!Next, Lived
<1> QED
  BY <1>1, <1>2, Disjoint

\* A request of a user admits a run, gives one up, asks one to stop, or puts one back in the queue.
LEMMA UserLives ==
  ASSUME RepoType, SessionSlot, NEW r \in Runs,
         CreateRun(r) \/ Cancel(r) \/ \E allow \in BOOLEAN : Approve(r, allow)
  PROVE  Lived
<1>0. run[r] \in Row /\ run[r].status \in Status /\ \A q \in Runs : run[q].status \in Status
  BY DEF RepoType, Row
<1>1. CASE CreateRun(r)
  <2>1. Lives' = [Lives EXCEPT ![r] = "waiting"]
    <3>1. \A q \in Runs : run'[q].status = IF q = r THEN "queued" ELSE run[q].status
      BY <1>0, <1>1 DEF CreateRun, Row, RepoType
    <3>2. Life("queued") = "waiting"
      BY LifeOfStatus, Disjoint
    <3> QED
      BY <3>1, <3>2, OneLife
  <2>2. ASSUME NEW q \in Runs, SessionOf[q] = SessionOf[r]
        PROVE  Life(run[q].status) \notin {"waiting", "executing", "stopping"}
    <3>1. active[SessionOf[q]] # q
      BY <1>1, <2>2, RepositoryAssumption DEF CreateRun
    <3>2. run[q].status \notin Unfinished
      BY <3>1 DEF SessionSlot, Unfinished
    <3> QED
      BY <1>0, <3>2, StatusOfLife
  <2>3. Lifecycle!RoomToWait(Lifecycle!UserOf(r))
    BY <1>1, SameRoom DEF CreateRun
  <2>4. Life(run[r].status) = "none"
    BY <1>1, LifeOfStatus DEF CreateRun
  <2>5. Lifecycle!Admit(r)
    BY <2>1, <2>2, <2>3, <2>4 DEF Lifecycle!Admit, Lives, Lifecycle!Unfinished
  <2> QED
    BY <2>5 DEF Lifecycle!Next, Lived
<1>2. CASE Cancel(r)
  <2>1. CASE run[r].status \in Waiting /\ FinishAll({r}, "cancelled")
    BY <2>1, EndWaitingLives, Disjoint DEF In
  <2>2. CASE /\ run[r].status = "running"
             /\ run' = [run EXCEPT ![r].status = "stopping", ![r].stopReason = "cancelled"]
    <3>1. \A q \in Runs : run'[q].status = IF q = r THEN "stopping" ELSE run[q].status
      BY <2>2 DEF Row, RepoType
    <3> QED
      BY <2>2, <3>1, StopLives, Disjoint
  <2> QED
    BY <1>2, <2>1, <2>2 DEF Cancel
<1>3. ASSUME NEW allow \in BOOLEAN, Approve(r, allow) PROVE Lived
  <2>0. run[r].status \in Waiting /\ r \in In(Waiting)
    BY <1>3, Disjoint DEF Approve, In
  <2>1. CASE FinishAll({r}, "timed_out")
    BY <2>0, <2>1, EndWaitingLives, Disjoint
  <2>2. CASE run' = [run EXCEPT ![r] = Closed([@ EXCEPT !.approval = "rejected"], "cancelled")]
    <3>1. [run[r] EXCEPT !.approval = "rejected"] \in Row
      BY <1>0 DEF Row
    <3>2. \A q \in Runs : run'[q].status = IF q = r THEN "cancelled" ELSE run[q].status
      BY <2>2, <3>1, ClosedStatus DEF RepoType
    <3>3. Lives' = [Lives EXCEPT ![r] = "unsuccessful"]
      <4>1. Life("cancelled") = "unsuccessful"
        BY LifeOfStatus, Disjoint
      <4> QED
        BY <3>2, <4>1, OneLife
    <3>4. Lifecycle!GiveUp({r})
      BY <2>0, <3>3, SameRuns DEF Lifecycle!GiveUp, Lives
    <3> QED
      BY <3>4 DEF Lifecycle!Next, Lived
  <2>3. CASE run' = [run EXCEPT ![r].approval = "approved", ![r].status = "queued",
                                ![r].overdue = @ \ {"queue"}]
    <3>1. \A q \in Runs : run'[q].status = IF q = r THEN "queued" ELSE run[q].status
      BY <1>0, <2>3 DEF Row, RepoType
    <3>2. Life("queued") = Life(run[r].status)
      BY <2>0, LifeOfStatus, Disjoint
    <3> QED
      BY <3>1, <3>2 DEF Lives, Lived
  <2> QED
    BY <1>3, <2>1, <2>2, <2>3 DEF Approve
<1> QED
  BY <1>1, <1>2, <1>3

\* Time that passes changes no phase.
LEMMA TimeLives ==
  ASSUME RepoType, NEW r \in Runs,
         LeaseExpires(r) \/ DeadlinePasses(r) \/ QueueDeadlinePasses(r) \/ ApprovalExpires(r)
  PROVE  Lived
<1>1. \A q \in Runs : run[q] \in Row
  BY DEF RepoType
<1>2. \A q \in Runs : run'[q].status = run[q].status
  BY <1>1 DEF LeaseExpires, DeadlinePasses, QueueDeadlinePasses, ApprovalExpires, RepoType, Row
<1> QED
  BY <1>2 DEF Lives, Lived

\* A dispatch starts a run that waits, while there is room, and gives up overdue ones on its way.
LEMMA ClaimLives ==
  ASSUME RepoType, NEW r \in Runs, NEW X \in SUBSET QueueExpired, ClaimRun(r, X)
  PROVE  Lived
<1>0. \A q \in Runs : run[q] \in Row /\ run[q].status \in Status
  BY DEF RepoType, Row
<1>1. /\ r \in In(Waiting) \ X /\ X \subseteq In(Waiting) /\ X \in SUBSET Runs
  BY Disjoint DEF ClaimRun, Dispatchable, QueueExpired, In
<1>2. ASSUME NEW q \in Runs
      PROVE  run'[q].status = IF q \in X THEN "timed_out" ELSE IF q = r THEN "running" ELSE run[q].status
  <2>1. run[q] \in Row
    BY <1>0
  <2>2. [run[q] EXCEPT !.status = "running", !.lease = "live", !.fence = @ + 1].status = "running"
    BY <2>1 DEF Row
  <2>3. Closed(run[q], "timed_out").status = "timed_out"
    BY <2>1, ClosedStatus
  <2> QED
    BY <1>1, <2>2, <2>3 DEF ClaimRun
<1>3. Lives' = [q \in Runs |-> IF q \in X THEN "unsuccessful" ELSE IF q = r THEN "executing" ELSE Lives[q]]
  BY <1>2, LifeOfStatus, Disjoint DEF Lives
<1>4. Lifecycle!RoomToExecute(Lifecycle!UserOf(r))
  BY SameRoom DEF ClaimRun, Dispatchable
<1>5. Lifecycle!Start(r, X)
  BY <1>1, <1>3, <1>4, SameRuns DEF Lifecycle!Start, Lives
<1> QED
  BY <1>1, <1>5 DEF Lifecycle!Next, Lived

\* A pass that finds only overdue runs gives them up, and so does the expiry of the waiting ones.
LEMMA ExpiryLives ==
  ASSUME RepoType, ClaimNothing \/ ExpireWaiting
  PROVE  Lived
<1>1. CASE ClaimNothing
  <2>1. QueueExpired \in SUBSET In(Waiting)
    BY Disjoint DEF QueueExpired, In
  <2> QED
    BY <1>1, <2>1, EndWaitingLives, Disjoint DEF ClaimNothing
<1>2. CASE ExpireWaiting
  <2>1. WaitingExpired \in SUBSET In(Waiting)
    BY Disjoint DEF WaitingExpired, In
  <2> QED
    BY <1>2, <2>1, EndWaitingLives, Disjoint DEF ExpireWaiting
<1> QED
  BY <1>1, <1>2

\* The transactions of the process that executes a run.
LEMMA FencedLives ==
  ASSUME RepoType, NEW r \in Runs, NEW token
  PROVE  /\ Heartbeat(r, token) \/ ToolStart(r, token) \/ ToolFinish(r, token) => Lived
         /\ \A reason : Stop(r, token, reason) => Lived
         /\ \A proposed \in Outcome : Finish(r, token, proposed) => Lived
         /\ WaitApproval(r, token) => Lived
         /\ FenceExpired(r, token) \/ Recover(r, token) => Lived
<1>0. run[r] \in Row /\ run[r].status \in Status /\ \A q \in Runs : run[q] \in Row
  BY DEF RepoType, Row
<1>1. ASSUME Heartbeat(r, token) \/ ToolStart(r, token) \/ ToolFinish(r, token) PROVE Lived
  <2>1. \A q \in Runs : run'[q].status = run[q].status
    BY <1>0, <1>1 DEF Heartbeat, ToolStart, ToolFinish, RepoType, Row
  <2> QED
    BY <2>1 DEF Lives, Lived
<1>2. ASSUME NEW reason, Stop(r, token, reason) PROVE Lived
  <2>1. /\ run[r].status \in Active
        /\ \A q \in Runs : run'[q].status = IF q = r THEN "stopping" ELSE run[q].status
    BY <1>0, <1>2 DEF Stop, GuardStopping, RepoType, Row
  <2> QED
    BY <2>1, StopLives
<1>3. ASSUME NEW proposed \in Outcome, Finish(r, token, proposed) PROVE Lived
  <2>. DEFINE outcome == FinishOutcome(r, proposed)
  <2>1. outcome \in Terminal /\ (outcome = "succeeded" => run[r].status # "stopping")
    BY <1>0, <1>3, Disjoint DEF FinishOutcome, Row
  <2>2. run[r].status \in Active /\ FinishAll({r}, outcome)
    BY <1>3 DEF Finish, GuardStopping
  <2>. HIDE DEF outcome
  <2>3. ASSUME NEW q \in Runs PROVE run'[q].status = IF q = r THEN outcome ELSE run[q].status
    BY <1>0, <2>2, ClosedStatus DEF FinishAll
  <2> QED
    BY <2>1, <2>2, <2>3, EndActiveLives, Disjoint
<1>4. ASSUME WaitApproval(r, token) PROVE Lived
  <2>1. /\ run[r].status = "running"
        /\ \A q \in Runs : run'[q].status = IF q = r THEN "waiting_approval" ELSE run[q].status
    BY <1>0, <1>4 DEF WaitApproval, Guard, RepoType, Row
  <2>2. Lives' = [Lives EXCEPT ![r] = "waiting"]
    BY <2>1, LifeOfStatus, Disjoint DEF Lives
  <2>3. Lifecycle!RoomToWait(Lifecycle!UserOf(r))
    BY <1>4, SameRoom DEF WaitApproval
  <2>4. Lifecycle!Park(r)
    BY <2>1, <2>2, <2>3, LifeOfStatus DEF Lifecycle!Park, Lives
  <2> QED
    BY <2>4 DEF Lifecycle!Next, Lived
<1>5. ASSUME FenceExpired(r, token) PROVE Lived
  <2>1. /\ run[r].status \in Active
        /\ \A q \in Runs : run'[q].status = IF q = r THEN "stopping" ELSE run[q].status
    BY <1>0, <1>5 DEF FenceExpired, LeaseLost, RepoType, Row
  <2> QED
    BY <2>1, StopLives
<1>6. ASSUME Recover(r, token) PROVE Lived
  <2>. DEFINE outcome == RecoverOutcome(r)
  <2>1. outcome \in Terminal \ {"succeeded"}
    BY <1>0, Disjoint DEF RecoverOutcome, Row
  <2>2. [run[r] EXCEPT !.fence = token + 1] \in Row
    BY <1>0, <1>6 DEF Recover, Row
  <2>3. /\ run[r].status \in Active
        /\ run' = [run EXCEPT ![r] = Closed([run[r] EXCEPT !.fence = token + 1], outcome)]
    BY <1>6 DEF Recover, LeaseLost
  <2>. HIDE DEF outcome
  <2>4. Closed([run[r] EXCEPT !.fence = token + 1], outcome).status = outcome
    BY <2>2, ClosedStatus
  <2>5. \A q \in Runs : run'[q].status = IF q = r THEN outcome ELSE run[q].status
    BY <2>3, <2>4 DEF RepoType
  <2> QED
    BY <2>1, <2>3, <2>5, EndActiveLives
<1> QED
  BY <1>1, <1>2, <1>3, <1>4, <1>5, <1>6

\* Every step of the service is a step of the life cycle, or changes no phase.
LEMMA LifeStep == Inv /\ [Next]_vars => Lived
<1> SUFFICES ASSUME Inv, [Next]_vars PROVE Lived
  OBVIOUS
<1>0. TypeOK /\ RepoType /\ Tokens /\ SessionSlot
  BY DEF Inv, TypeOK, RepoType
<1>1. run' = run => Lived
  BY DEF Lives, Lived
<1>2. ASSUME NEW r \in Runs, UserStep(r) \/ TimePasses(r) PROVE Lived
  BY <1>0, <1>2, UserLives, TimeLives DEF UserStep, TimePasses, SuppressSource
<1>3. ASSUME NEW w \in Workers, WorkerProgress(w) \/ Abandon(w) PROVE Lived
  <2>1. task[w].phase # "idle" => task[w].run \in Runs /\ Consistent(task[w].phase, task[w].outcome)
    BY <1>0, BusyTyped, TaskKnown
  <2>2. CASE ClaimTask(w)
    BY <1>0, <2>2, ClaimLives DEF ClaimTask
  <2>3. CASE ClaimNone(w)
    BY <1>0, <2>3, ExpiryLives DEF ClaimNone
  <2>4. CASE Renew(w)
    BY <1>0, <2>1, <2>4, FencedLives DEF Renew, Supervised
  <2>5. CASE WorkEnds(w) \/ SupervisorStops(w) \/ ToolInterrupted(w) \/ Abandon(w)
    BY <1>1, <2>5 DEF WorkEnds, SupervisorStops, ToolInterrupted, Abandon
  <2>6. CASE StartTool(w)
    BY <1>0, <2>1, <2>6, FencedLives DEF StartTool
  <2>7. CASE ToolEnds(w)
    BY <1>0, <1>1, <2>1, <2>7, FencedLives DEF ToolEnds
  <2>8. CASE AskApproval(w)
    BY <1>0, <2>1, <2>8, FencedLives DEF AskApproval
  <2>9. CASE StopRun(w)
    BY <1>0, <1>1, <2>1, <2>9, FencedLives DEF StopRun
  <2>10. CASE FinishRun(w)
    <3>1. task[w].run \in Runs /\ task[w].outcome \in Outcome
      BY <2>1, <2>10 DEF FinishRun, Consistent
    <3> QED
      BY <1>0, <1>1, <2>10, <3>1, FencedLives DEF FinishRun
  <2> QED
    BY <1>3, <2>2, <2>3, <2>4, <2>5, <2>6, <2>7, <2>8, <2>9, <2>10 DEF WorkerProgress
<1>4. ASSUME NEW m \in Sweepers, SweeperProgress(m) \/ SweepAbandon(m) PROVE Lived
  <2>1. sweep[m].phase # "idle" => sweep[m].run \in Runs
    BY <1>0, SweepFacts
  <2>2. CASE SweepRead(m) \/ SweepAbandon(m)
    BY <1>1, <2>2 DEF SweepRead, SweepAbandon
  <2>3. CASE SweepFence(m)
    BY <1>0, <1>1, <2>1, <2>3, FencedLives DEF SweepFence
  <2>4. CASE SweepRecover(m)
    BY <1>0, <1>1, <2>1, <2>4, FencedLives DEF SweepRecover
  <2> QED
    BY <1>4, <2>2, <2>3, <2>4 DEF SweeperProgress
<1>5. CASE Expire
  BY <1>0, <1>5, ExpiryLives DEF Expire
<1>6. CASE UNCHANGED vars
  BY <1>1, <1>6 DEF vars
<1> QED
  BY <1>2, <1>3, <1>4, <1>5, <1>6 DEF Next

\* At first no run has begun to live.
LEMMA LifeBegins == Init => Lifecycle!Init
BY LifeOfStatus DEF Init, RepoInit, Unborn, Lifecycle!Init

\* The service implements the life cycle it promises, for every number of users, runs, workers
\* and sweepers and for every limit: admission, dispatch, parking, stopping and the end of a run,
\* with leases, tokens and failures in between, are steps of the life cycle.
THEOREM ServiceImplementsLifecycle == Spec => ImplementsLifecycle
<1>1. Inv /\ [Next]_vars => [Lifecycle!Next]_Lives
  BY LifeStep DEF Lived
<1> QED
  BY <1>1, LifeBegins, Safety, PTL DEF Spec, ImplementsLifecycle, Lifecycle!Spec, Lives

-----------------------------------------------------------------------------
(* Its limits. *)

\* A set that gains at most one member while there is room for it stays within its limit.
LEMMA OneMoreFits ==
  ASSUME NEW S, NEW T, IsFiniteSet(S), NEW limit \in Nat, NEW x,
         \/ T \subseteq S /\ Cardinality(S) <= limit
         \/ T \subseteq S \union {x} /\ Cardinality(S) < limit
  PROVE  Cardinality(T) <= limit
<1>1. Cardinality(S) \in Nat
  BY FS_CardinalityType
<1>2. /\ IsFiniteSet(S \union {x})
      /\ Cardinality(S \union {x}) = IF x \in S THEN Cardinality(S) ELSE Cardinality(S) + 1
  BY FS_AddElement
<1>3. CASE T \subseteq S /\ Cardinality(S) <= limit
  <2>1. Cardinality(T) <= Cardinality(S) /\ Cardinality(T) \in Nat
    BY <1>3, FS_Subset, FS_CardinalityType
  <2> QED
    BY <1>1, <1>3, <2>1
<1>4. CASE T \subseteq S \union {x} /\ Cardinality(S) < limit
  <2>1. Cardinality(T) <= Cardinality(S \union {x}) /\ Cardinality(T) \in Nat
    BY <1>2, <1>4, FS_Subset, FS_CardinalityType
  <2> QED
    BY <1>1, <1>2, <1>4, <2>1
<1> QED
  BY <1>3, <1>4

\* What a step does to the runs that wait or execute: the set loses members, or gains one run
\* while there is room for it, for all and for its user.
Gains(phases, phasesNext, limit, userLimit) ==
  \/ phasesNext \subseteq phases
  \/ \E r \in Runs : /\ phasesNext \subseteq phases \union {r} /\ Cardinality(phases) < limit
                     /\ Cardinality({q \in phases : UserOf(q) = UserOf(r)}) < userLimit

\* The limits hold after such a step.
LEMMA GainsFit ==
  ASSUME NEW S \in SUBSET Runs, NEW T \in SUBSET Runs, NEW limit \in Nat, NEW userLimit \in Nat,
         Gains(S, T, limit, userLimit), Cardinality(S) <= limit,
         \A u \in Users : Cardinality({q \in S : UserOf(q) = u}) <= userLimit
  PROVE  /\ Cardinality(T) <= limit
         /\ \A u \in Users : Cardinality({q \in T : UserOf(q) = u}) <= userLimit
<1>1. \A X \in SUBSET Runs : IsFiniteSet(X)
  BY RepositoryAssumption, FS_Subset
<1>2. Cardinality(T) <= limit
  BY <1>1, OneMoreFits DEF Gains
<1>3. ASSUME NEW u \in Users PROVE Cardinality({q \in T : UserOf(q) = u}) <= userLimit
  <2>. DEFINE A == {q \in S : UserOf(q) = u}
              B == {q \in T : UserOf(q) = u}
  <2>1. IsFiniteSet(A) /\ Cardinality(A) <= userLimit
    BY <1>1
  <2>2. CASE T \subseteq S
    <3>1. B \subseteq A
      BY <2>2
    <3> QED
      BY <2>1, <3>1, OneMoreFits
  <2>3. ASSUME NEW r \in Runs, T \subseteq S \union {r},
               Cardinality({q \in S : UserOf(q) = UserOf(r)}) < userLimit
        PROVE  Cardinality(B) <= userLimit
    <3>1. CASE UserOf(r) = u
      <4>1. B \subseteq A \union {r} /\ Cardinality(A) < userLimit
        BY <2>3, <3>1
      <4> QED
        BY <2>1, <4>1, OneMoreFits
    <3>2. CASE UserOf(r) # u
      <4>1. B \subseteq A
        BY <2>3, <3>2
      <4> QED
        BY <2>1, <4>1, OneMoreFits
    <3> QED
      BY <3>1, <3>2
  <2> QED
    BY <2>2, <2>3 DEF Gains
<1> QED
  BY <1>2, <1>3

\* A step of the life cycle gains at most one run that waits or executes, where there is room.
LEMMA LifeGains ==
  ASSUME RepoType, RepoType', Lived
  PROVE  /\ Gains(In(Waiting), In(Waiting)', MaxWaiting, UserWaiting)
         /\ Gains(In(Active), In(Active)', MaxRunning, UserRunning)
<1>. DEFINE W == In(Waiting)
            A == In(Active)
            V == In(Waiting)'
            B == In(Active)'
            Fits == Gains(W, V, MaxWaiting, UserWaiting) /\ Gains(A, B, MaxRunning, UserRunning)
<1>1. /\ \A q \in Runs : run[q].status \in Status /\ run'[q].status \in Status
      /\ \A u : InOf(u, Waiting) = {q \in W : UserOf(q) = u} /\ InOf(u, Active) = {q \in A : UserOf(q) = u}
  BY DEF RepoType, Row, InOf
<1>2. /\ W = {q \in Runs : Lives[q] = "waiting"} /\ V = {q \in Runs : Lives'[q] = "waiting"}
      /\ A = {q \in Runs : Lives[q] \in {"executing", "stopping"}}
      /\ B = {q \in Runs : Lives'[q] \in {"executing", "stopping"}}
  BY <1>1, StatusOfLife DEF Lives, In
<1>. HIDE DEF W, A, V, B
<1>3. CASE Lives' = Lives
  BY <1>2, <1>3 DEF Gains, W, A, V, B
<1>4. ASSUME NEW r \in Runs, Lifecycle!Admit(r) \/ Lifecycle!Park(r) PROVE Fits
  <2>1. /\ Lives' = [Lives EXCEPT ![r] = "waiting"]
        /\ Lifecycle!RoomToWait(Lifecycle!UserOf(r))
    BY <1>4 DEF Lifecycle!Admit, Lifecycle!Park, Lives
  <2>2. V \subseteq W \union {r} /\ B \subseteq A
    BY <1>2, <2>1 DEF Lives
  <2>3. Cardinality(W) < MaxWaiting /\ Cardinality({q \in W : UserOf(q) = UserOf(r)}) < UserWaiting
    BY <1>1, <2>1, SameRoom DEF WaitingSlot, W
  <2> QED
    BY <2>2, <2>3 DEF Gains
<1>5. ASSUME NEW r \in Runs, Lifecycle!AskToStop(r) \/ Lifecycle!End(r) PROVE Fits
  <2>1. PICK phase \in {"stopping", "succeeded", "unsuccessful"} :
          Lives' = [Lives EXCEPT ![r] = phase] /\ Lives[r] \in {"executing", "stopping"}
    BY <1>5 DEF Lifecycle!AskToStop, Lifecycle!End, Lifecycle!Executing, Lives
  <2>2. V \subseteq W /\ B \subseteq A
    BY <1>2, <2>1 DEF Lives
  <2> QED
    BY <2>2 DEF Gains
<1>6. ASSUME NEW X \in SUBSET Runs, Lifecycle!GiveUp(X) PROVE Fits
  <2>1. Lives' = [q \in Runs |-> IF q \in X THEN "unsuccessful" ELSE Lives[q]]
    BY <1>6 DEF Lifecycle!GiveUp, Lives
  <2>2. V \subseteq W /\ B \subseteq A
    BY <1>2, <2>1
  <2> QED
    BY <2>2 DEF Gains
<1>7. ASSUME NEW X \in SUBSET Runs, NEW r \in Runs, Lifecycle!Start(r, X) PROVE Fits
  <2>1. /\ Lives' = [q \in Runs |-> IF q \in X THEN "unsuccessful" ELSE IF q = r THEN "executing" ELSE Lives[q]]
        /\ Lifecycle!RoomToExecute(Lifecycle!UserOf(r))
    BY <1>7 DEF Lifecycle!Start, Lives
  <2>2. V \subseteq W /\ B \subseteq A \union {r}
    BY <1>2, <2>1
  <2>3. Cardinality(A) < MaxRunning /\ Cardinality({q \in A : UserOf(q) = UserOf(r)}) < UserRunning
    BY <1>1, <2>1, SameRoom DEF A
  <2> QED
    BY <2>2, <2>3 DEF Gains
<1> QED
  BY <1>3, <1>4, <1>5, <1>6, <1>7 DEF Lived, Lifecycle!Next, W, A, V, B

\* At first nothing waits and nothing executes.
LEMMA CapacityBegins == RepoInit => CapacityRespected
<1> SUFFICES ASSUME RepoInit PROVE CapacityRespected
  OBVIOUS
<1>1. In(Waiting) = {} /\ In(Active) = {}
  BY Disjoint DEF RepoInit, Unborn, In
<1>2. \A u : InOf(u, Waiting) = {} /\ InOf(u, Active) = {}
  BY <1>1 DEF InOf
<1> QED
  BY <1>1, <1>2, FS_EmptySet, RepositoryAssumption DEF CapacityRespected

\* No step of the service exceeds a limit.
LEMMA LimitsKept ==
  ASSUME RepoType, RepoType', Lived, CapacityRespected
  PROVE  CapacityRespected'
<1>2. /\ Gains(In(Waiting), In(Waiting)', MaxWaiting, UserWaiting)
      /\ Gains(In(Active), In(Active)', MaxRunning, UserRunning)
  BY LifeGains
<1>3. /\ In(Waiting) \in SUBSET Runs /\ In(Waiting)' \in SUBSET Runs
      /\ In(Active) \in SUBSET Runs /\ In(Active)' \in SUBSET Runs
  BY DEF In
<1>4. /\ Cardinality(In(Waiting)) <= MaxWaiting /\ Cardinality(In(Active)) <= MaxRunning
      /\ \A u \in Users : Cardinality({q \in In(Waiting) : UserOf(q) = u}) <= UserWaiting
      /\ \A u \in Users : Cardinality({q \in In(Active) : UserOf(q) = u}) <= UserRunning
  BY DEF CapacityRespected, InOf
<1>5. /\ Cardinality(In(Waiting)') <= MaxWaiting
      /\ \A u \in Users : Cardinality({q \in In(Waiting)' : UserOf(q) = u}) <= UserWaiting
  BY <1>2, <1>3, <1>4, GainsFit, RepositoryAssumption
<1>6. /\ Cardinality(In(Active)') <= MaxRunning
      /\ \A u \in Users : Cardinality({q \in In(Active)' : UserOf(q) = u}) <= UserRunning
  BY <1>2, <1>3, <1>4, GainsFit, RepositoryAssumption
<1> QED
  BY <1>5, <1>6 DEF CapacityRespected, InOf, UserOf

\* Every step keeps within the capacities.
LEMMA CapacityStep == Inv /\ CapacityRespected /\ [Next]_vars => CapacityRespected'
BY InvStep, LifeStep, LimitsKept DEF Inv, TypeOK, RepoType

\* Neither the deployment nor a user ever exceeds what it may have waiting or executing, whatever
\* is claimed, parked, approved and recovered, since the life cycle admits and starts where there
\* is room.
THEOREM CapacityHolds == Spec => []CapacityRespected
<1>1. Init => CapacityRespected
  BY CapacityBegins DEF Init
<1>2. Inv /\ CapacityRespected /\ [Next]_vars => CapacityRespected'
  BY CapacityStep
<1> QED
  BY <1>1, <1>2, Safety, PTL DEF Spec

-----------------------------------------------------------------------------
(* The order of the dispatch. *)

\* What a step of the dispatch model relies on: a well-formed repository in which no tool runs.
RowsAreSound == RepoType /\ RepoInv /\ \A r \in Runs : run[r].tool # "running"

\* The order of last_dispatch_at has no two users before each other, and who was served while
\* another waited now comes after it.
TurnsAreKept ==
  /\ overtaken \in [Users \X Users -> Nat]
  /\ \A u, v \in Users : <<u, v>> \in earlier => <<v, u>> \notin earlier
  /\ \A u, v \in Users : overtaken[<<u, v>>] <= 1
  /\ \A u, v \in Users : overtaken[<<u, v>>] > 0 => <<u, v>> \in earlier

DispatchInv == RowsAreSound /\ TurnsAreKept /\ CapacityRespected

\* What a step does to the repository, whoever takes it.
RowsMove == RepoType' /\ RepoInv' /\ Quiet /\ Lived

\* Rows that move as they may stay sound and within the capacities.
LEMMA RowsMoveSoundly ==
  ASSUME RowsAreSound, CapacityRespected, RowsMove
  PROVE  RowsAreSound' /\ CapacityRespected'
<1>1. RowsAreSound'
  BY DEF RowsAreSound, RowsMove, Quiet
<1>2. CapacityRespected'
  BY LimitsKept DEF RowsAreSound, RowsMove
<1> QED
  BY <1>1, <1>2

\* Requests, the end and the parking of a run, and the passing of time.
LEMMA RowsOfARun ==
  ASSUME RowsAreSound, NEW r \in Runs, Submit(r) \/ UserRequest(r) \/ Execution(r) \/ Waits(r)
  PROVE  RowsMove
<1>0. RepoType /\ RepoInv /\ SessionSlot /\ run[r].tool # "running" /\ run[r].fence \in Nat
  BY DEF RowsAreSound, RepoInv, RepoType, Row
<1>1. CASE Submit(r)
  BY <1>0, <1>1, CreateType, CreateSafe, UserLives DEF Submit, RowsMove
<1>2. CASE UserRequest(r)
  BY <1>0, <1>2, CancelType, ApproveType, CancelSafe, ApproveSafe, UserLives DEF UserRequest, RowsMove
<1>3. CASE Execution(r)
  <2>1. CASE WaitApproval(r, run[r].fence)
    BY <1>0, <2>1, WorkerTransactionType, WaitApprovalSafe, FencedLives DEF RowsMove
  <2>2. CASE Finish(r, run[r].fence, "succeeded")
    <3>1. "succeeded" \in Outcome
      BY DEF Outcome, Terminal
    <3> QED
      BY <1>0, <2>2, <3>1, WorkerTransactionType, FinishSafe, FencedLives DEF RowsMove
  <2> QED
    BY <1>3, <2>1, <2>2 DEF Execution
<1>4. CASE Waits(r)
  BY <1>0, <1>4, TimeType, TimeSafe, TimeLives DEF Waits, RowsMove
<1> QED
  BY <1>1, <1>2, <1>3, <1>4

\* Every step moves the rows as a transaction of the repository does.
LEMMA DispatchRows == ASSUME RowsAreSound, [DispatchNext]_dispatchVars PROVE RowsMove
<1>0. RepoType /\ RepoInv
  BY DEF RowsAreSound
<1>1. UNCHANGED repoVars => RowsMove
  <2> SUFFICES ASSUME UNCHANGED repoVars PROVE RowsMove
    OBVIOUS
  <2>1. RepoType' /\ Quiet
    BY <1>0 DEF repoVars, RepoType, Quiet
  <2>2. RepoInv'
    BY <1>0 DEF repoVars, RepoInv, SessionSlot, NothingLeftOpen, Reasons
  <2>3. Lived
    BY DEF repoVars, Lived, Lives
  <2> QED
    BY <2>1, <2>2, <2>3 DEF RowsMove
<1>2. CASE Dispatch
  <2>1. PICK r \in Hit : ClaimRun(r, Met(r))
    BY <1>2 DEF Dispatch
  <2>2. r \in Runs /\ Met(r) \in SUBSET QueueExpired
    BY <2>1 DEF Hit, Dispatchable, In, Met
  <2> QED
    BY <1>0, <2>1, <2>2, ClaimType, ClaimSafe, ClaimLives DEF RowsMove
<1>3. CASE DispatchNothing \/ Expires
  BY <1>0, <1>3, ExpiryType, ExpirySafe, ExpiryLives DEF DispatchNothing, Expires, RowsMove
<1>4. ASSUME NEW u \in Users, SetAccount(u) PROVE RowsMove
  BY <1>1, <1>4 DEF SetAccount, repoVars
<1>5. CASE UNCHANGED dispatchVars
  BY <1>1, <1>5 DEF dispatchVars, repoVars
<1> QED
  BY <1>2, <1>3, <1>4, <1>5, RowsOfARun DEF DispatchNext

\* A step that serves nobody takes no turn.
LEMMA NobodyServed ==
  ASSUME TurnsAreKept, Overtaking({}), UNCHANGED earlier
  PROVE  TurnsAreKept'
BY DEF TurnsAreKept, Overtaking

\* Who is served goes behind everybody that waits; it was not there before, or the run of
\* another would have come first.
LEMMA ServedGoesLast ==
  ASSUME RowsAreSound, TurnsAreKept, NEW r \in Hit, earlier' = NowLast(UserOf(r)),
         Overtaking({UserOf(r)})
  PROVE  TurnsAreKept'
<1>. DEFINE v == UserOf(r)
<1>1. r \in Runs /\ v \in Users
  BY RepositoryAssumption DEF Hit, Dispatchable, In, UserOf
<1>2. ASSUME NEW u \in Users, u # v, WaitsForTurn(u) PROVE overtaken[<<u, v>>] = 0
  <2>1. PICK q \in Dispatchable : UserOf(q) = u
    BY <1>2 DEF WaitsForTurn
  <2>2. Before(r, q)
    BY <1>2, <2>1 DEF Hit
  <2>3. <<u, v>> \notin earlier
    BY <1>1, <1>2, <2>1, <2>2 DEF Before, TurnsAreKept
  <2> QED
    BY <1>1, <2>3 DEF TurnsAreKept
<1>3. \A a, b \in Users :
        <<a, b>> \in earlier' <=> a # v /\ (b = v \/ <<a, b>> \in earlier)
  BY DEF NowLast
<1>4. \A a, b \in Users : <<a, b>> \in earlier' => <<b, a>> \notin earlier'
  BY <1>3 DEF TurnsAreKept
<1>5. ASSUME NEW a \in Users, NEW b \in Users
      PROVE  /\ overtaken'[<<a, b>>] \in {0, 1}
             /\ overtaken'[<<a, b>>] > 0 => <<a, b>> \in earlier'
  <2>0. overtaken[<<a, b>>] \in {0, 1}
    BY DEF TurnsAreKept
  <2>1. CASE ~WaitsForTurn(a) \/ ~WaitsForTurn(a)' \/ a = v
    <3>1. overtaken'[<<a, b>>] = 0
      BY <2>1 DEF Overtaking
    <3> QED
      BY <3>1
  <2>2. CASE WaitsForTurn(a) /\ WaitsForTurn(a)' /\ a # v /\ b = v
    <3>1. overtaken'[<<a, b>>] = 1
      BY <1>2, <2>2 DEF Overtaking
    <3> QED
      BY <1>3, <2>2, <3>1
  <2>3. CASE WaitsForTurn(a) /\ WaitsForTurn(a)' /\ a # v /\ b # v
    <3>1. overtaken'[<<a, b>>] = overtaken[<<a, b>>]
      BY <2>3 DEF Overtaking
    <3> QED
      BY <1>3, <2>0, <2>3, <3>1 DEF TurnsAreKept
  <2> QED
    BY <2>1, <2>2, <2>3
<1>6. overtaken' = [p \in Users \X Users |-> overtaken'[p]]
  BY DEF Overtaking
<1>7. \A p \in Users \X Users : overtaken'[p] \in Nat
  BY <1>5
<1> QED
  BY <1>4, <1>5, <1>6, <1>7 DEF TurnsAreKept

\* Every step of the dispatch keeps its invariant.
LEMMA DispatchStep == DispatchInv /\ [DispatchNext]_dispatchVars => DispatchInv'
<1> SUFFICES ASSUME DispatchInv, [DispatchNext]_dispatchVars PROVE DispatchInv'
  OBVIOUS
<1>1. RowsAreSound' /\ CapacityRespected'
  BY DispatchRows, RowsMoveSoundly DEF DispatchInv
<1>2. TurnsAreKept'
  <2>1. CASE Dispatch
    BY <2>1, ServedGoesLast DEF Dispatch, DispatchInv
  <2>2. CASE DispatchNothing \/ Expires
    BY <2>2, NobodyServed DEF DispatchNothing, Expires, Order, DispatchInv
  <2>3. ASSUME NEW r \in Runs, Submit(r) \/ UserRequest(r) \/ Execution(r) \/ Waits(r)
        PROVE  TurnsAreKept'
    BY <2>3, NobodyServed DEF Submit, UserRequest, Execution, Waits, Order, DispatchInv
  <2>4. CASE UNCHANGED dispatchVars \/ \E u \in Users : SetAccount(u)
    BY <2>4 DEF dispatchVars, SetAccount, TurnsAreKept, DispatchInv
  <2> QED
    BY <2>1, <2>2, <2>3, <2>4 DEF DispatchNext
<1> QED
  BY <1>1, <1>2 DEF DispatchInv

\* The invariant of the dispatch holds at first.
LEMMA DispatchBegins == DispatchInit => DispatchInv
<1> SUFFICES ASSUME DispatchInit PROVE DispatchInv
  OBVIOUS
<1>1. RowsAreSound
  <2>1. \A r \in Runs : Unborn \in Row /\ run[r] = Unborn /\ active[SessionOf[r]] # r
    BY RepositoryAssumption DEF DispatchInit, RepoInit, Unborn, Row, Status, StopReason, Deadline
  <2>2. RepoType
    BY <2>1 DEF DispatchInit, RepoInit, RepoType
  <2>3. RepoInv
    BY <2>1, Disjoint DEF RepoInv, SessionSlot, NothingLeftOpen, Reasons, Unborn
  <2> QED
    BY <2>1, <2>2, <2>3 DEF RowsAreSound, Unborn
<1>2. TurnsAreKept
  BY DEF DispatchInit, TurnsAreKept
<1>3. CapacityRespected
  BY CapacityBegins DEF DispatchInit
<1> QED
  BY <1>1, <1>2, <1>3 DEF DispatchInv

\* Every user gets its share.
THEOREM FairShareHolds == DispatchSpec => []FairShare
<1>1. DispatchInv => FairShare
  BY DEF DispatchInv, FairShare, TurnsAreKept, UsersTakeTurns
<1> QED
  BY <1>1, DispatchBegins, DispatchStep, PTL DEF DispatchSpec
=============================================================================
