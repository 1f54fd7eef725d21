------------------------- MODULE HostedSandbox_proofs -------------------------
(***************************************************************************)
(* The service with its containers implements the service without them, so *)
(* that the safety theorems of HostedRuns hold for it. Every step of the   *)
(* detailed service either is one of the coarser one, with a cleanup       *)
(* confirmed where that one assumes it, or leaves its variables alone.     *)
(* Then the containers: one worker at a time works on a run (Apart), and a *)
(* run has one request at a time, none of which is left when a worker goes *)
(* on (Followed).                                                          *)
(***************************************************************************)
EXTENDS HostedSandbox, HostedRuns_proofs

\* What a worker does with a sandbox is a step of the worker of HostedRuns, or none.
LEMMA WorkerMaps ==
  ASSUME NEW w \in Workers, SandboxWorkerProgress(w) \/ SandboxAbandon(w)
  PROVE  WorkerProgress(w) \/ Abandon(w) \/ UNCHANGED vars
<1>1. CASE (ClaimTask(w) \/ ClaimNone(w) \/ Renew(w) \/ StopRun(w)) /\ UNCHANGED call /\ Unsandboxed
  BY <1>1 DEF WorkerProgress
<1>2. CASE SandboxStartTool(w) \/ SandboxStopped(w) \/ SandboxToolEnds(w)
  BY <1>2 DEF SandboxStartTool, SandboxStopped, SandboxToolEnds, WorkerProgress
<1>3. CASE SandboxWorkEnds(w) \/ SandboxAskApproval(w) \/ SandboxFinishRun(w)
  BY <1>3 DEF SandboxWorkEnds, SandboxAskApproval, SandboxFinishRun, WorkerProgress
<1>4. CASE Send(w) \/ CallBreaks(w) \/ CallCleanup(w) \/ FinalCleanup(w)
  BY <1>4 DEF Send, CallBreaks, CallCleanup, FinalCleanup
<1>5. CASE SandboxAbandon(w)
  BY <1>5 DEF SandboxAbandon
<1> QED BY <1>1, <1>2, <1>3, <1>4, <1>5 DEF SandboxWorkerProgress

\* What a sweeper does with a sandbox is a step of the sweeper of HostedRuns, or none.
LEMMA SweeperMaps ==
  ASSUME NEW m \in Sweepers, SandboxSweeperProgress(m)
  PROVE  SweeperProgress(m) \/ SweepAbandon(m) \/ UNCHANGED vars
<1>1. CASE (SweepRead(m) \/ SweepFence(m)) /\ UNCHANGED call /\ Unsandboxed
  BY <1>1 DEF SweeperProgress
<1>2. CASE SweepCleanup(m) \/ SandboxSweepEnds(m)
  BY <1>2 DEF SweepCleanup, SandboxSweepEnds, SweeperProgress
<1> QED BY <1>1, <1>2 DEF SandboxSweeperProgress

\* The executor and Docker never touch the store.
LEMMA ExecutorMaps ==
  ASSUME \/ \E q \in Requests : RequestProgress(q) \/ Reap(q) \/ Created(q) \/ Executes(q) \/ Exits(q)
         \/ ExecutorDies
  PROVE  UNCHANGED vars
<1>1. ASSUME NEW q \in Requests, RequestProgress(q) PROVE UNCHANGED vars
  BY <1>1 DEF RequestProgress, Refuse, Admit, Spawn, Recheck, Fails, Succeeds,
              HandlerCleanup, HandlerEnds
<1>2. ASSUME NEW q \in Requests, Reap(q) \/ Created(q) \/ Executes(q) \/ Exits(q)
      PROVE  UNCHANGED vars
  BY <1>2 DEF Reap, Created, Executes, Exits, Becomes
<1>3. ASSUME ExecutorDies PROVE UNCHANGED vars
  BY <1>3 DEF ExecutorDies
<1> QED BY <1>1, <1>2, <1>3

\* Every step with sandboxes is a step of HostedRuns, or none.
LEMMA StepMaps == [SandboxNext]_sandboxVars => [Next]_vars
<1> SUFFICES ASSUME [SandboxNext]_sandboxVars PROVE Next \/ UNCHANGED vars
  OBVIOUS
<1>1. ASSUME NEW r \in Runs, UserStep(r) \/ TimePasses(r) PROVE Next
  BY <1>1 DEF Next
<1>2. ASSUME NEW w \in Workers, SandboxWorkerProgress(w) \/ SandboxAbandon(w)
      PROVE  Next \/ UNCHANGED vars
  BY <1>2, WorkerMaps DEF Next
<1>3. ASSUME NEW m \in Sweepers, SandboxSweeperProgress(m) PROVE Next \/ UNCHANGED vars
  BY <1>3, SweeperMaps DEF Next
<1>4. CASE Expire BY <1>4 DEF Next
<1>5. CASE UNCHANGED sandboxVars BY <1>5 DEF sandboxVars, vars
<1> QED BY <1>1, <1>2, <1>3, <1>4, <1>5, ExecutorMaps DEF SandboxNext

\* What the executor, the reaper and Docker add never shows in the runs, the sessions
\* or the tokens.
LEMMA SandboxRefines == SandboxSpec => Spec
<1>1. SandboxInit => Init BY DEF SandboxInit
<1> QED BY <1>1, StepMaps, PTL DEF SandboxSpec, Spec

\* So the invariant of the hosted runs, and with it everything it implies, survives the
\* executor.
THEOREM SandboxSafety == SandboxSpec => []Inv
BY SandboxRefines, Safety, PTL

-----------------------------------------------------------------------------
(* What was begun stays begun, until it is parked. *)

\* A run that was claimed and has not been parked since.
Begun(r) == run[r].status \notin Waiting \union {"absent"}

\* Whoever runs a transaction other than that of a worker that parks its run, the runs that
\* were begun stay so.
StayBegun == \A r \in Runs : Begun(r) => Begun(r)'

\* What has begun stays begun when runs are finished.
LEMMA FinishAllBegun ==
  ASSUME RepoType, NEW X \in SUBSET Runs, NEW outcome \in Terminal, FinishAll(X, outcome)
  PROVE  StayBegun
<1>1. ASSUME NEW q \in Runs PROVE run'[q].status = IF q \in X THEN outcome ELSE run[q].status
  BY ClosedStatus DEF FinishAll, RepoType
<1> QED
  BY <1>1, Disjoint DEF StayBegun, Begun

\* What has begun stays begun by a step that changes one row, to a row that has begun or from one that had not.
LEMMA OneRowBegun ==
  ASSUME NEW r \in Runs, NEW status, ~Begun(r) \/ status \in Active \union Terminal,
         \A q \in Runs : run'[q].status = IF q = r THEN status ELSE run[q].status
  PROVE  StayBegun
BY Disjoint DEF StayBegun, Begun

\* The transactions of users, the passing of time, and claiming.
LEMMA UserBegun ==
  ASSUME RepoType, NEW r \in Runs, UserStep(r) \/ TimePasses(r)
  PROVE  StayBegun
<1>0. \A q \in Runs : run[q] \in Row
  BY DEF RepoType
<1>1. CASE CreateRun(r)
  <2>1. \A q \in Runs : run'[q].status = IF q = r THEN "queued" ELSE run[q].status
    BY <1>0, <1>1 DEF CreateRun, RepoType, Row
  <2> QED
    BY <1>1, <2>1, OneRowBegun DEF CreateRun, Begun
<1>2. ASSUME Cancel(r) PROVE StayBegun
  <2>1. CASE FinishAll({r}, "cancelled")
    BY <2>1, FinishAllBegun, Disjoint
  <2>2. CASE run' = [run EXCEPT ![r].status = "stopping", ![r].stopReason = "cancelled"]
    <3>1. \A q \in Runs : run'[q].status = IF q = r THEN "stopping" ELSE run[q].status
      BY <1>0, <2>2 DEF RepoType, Row
    <3> QED
      BY <3>1, OneRowBegun, Disjoint
  <2> QED
    BY <1>2, <2>1, <2>2 DEF Cancel
<1>3. ASSUME NEW allow \in BOOLEAN, Approve(r, allow) PROVE StayBegun
  <2>1. CASE FinishAll({r}, "timed_out")
    BY <2>1, FinishAllBegun, Disjoint
  <2>2. CASE run[r].status = "waiting_approval"
    <3>1. ~Begun(r) /\ \A q \in Runs \ {r} : run'[q] = run[q]
      BY <1>3, <2>2, Disjoint DEF Approve, RepoType, FinishAll, Begun
    <3> QED
      BY <3>1 DEF StayBegun, Begun
  <2> QED
    BY <1>3, <2>1, <2>2 DEF Approve
<1>4. CASE TimePasses(r)
  <2>1. \A q \in Runs : run'[q].status = run[q].status
    BY <1>0, <1>4 DEF TimePasses, LeaseExpires, DeadlinePasses, QueueDeadlinePasses,
                      ApprovalExpires, RepoType, Row
  <2> QED
    BY <2>1 DEF StayBegun, Begun
<1> QED
  BY <1>1, <1>2, <1>3, <1>4 DEF UserStep, SuppressSource

\* Expiry begins no run.
LEMMA ExpiryBegun ==
  ASSUME RepoType, ExpireWaiting \/ ClaimNothing
  PROVE  StayBegun
<1>1. WaitingExpired \subseteq Runs /\ QueueExpired \subseteq Runs
  BY DEF WaitingExpired, QueueExpired, In
<1> QED
  BY <1>1, FinishAllBegun, Disjoint DEF ExpireWaiting, ClaimNothing

\* A claim begins the run it takes, which had not begun.
LEMMA ClaimBegun ==
  ASSUME RepoType, NEW r \in Runs, NEW X \in SUBSET QueueExpired, ClaimRun(r, X)
  PROVE  StayBegun /\ ~Begun(r) /\ Begun(r)'
<1>0. \A q \in Runs : run[q] \in Row
  BY DEF RepoType
<1>1. r \notin X /\ run[r].status = "queued"
  BY DEF ClaimRun, Dispatchable, In
<1>2. \A q \in Runs : run'[q].status = IF q \in X THEN "timed_out"
                                       ELSE IF q = r THEN "running" ELSE run[q].status
  <2>1. \A q \in X : Closed(run[q], "timed_out").status = "timed_out"
    BY <1>0, ClosedStatus DEF QueueExpired, In
  <2> QED
    BY <1>0, <2>1 DEF ClaimRun, RepoType, Row
<1>3. "timed_out" \in Terminal /\ "running" \in Active /\ "queued" \in Waiting
  BY Disjoint
<1> QED
  BY <1>1, <1>2, <1>3, Disjoint DEF StayBegun, Begun

\* The fenced transactions, but for parking.
LEMMA FencedBegun ==
  ASSUME RepoType, NEW r \in Runs, NEW token,
         \/ Heartbeat(r, token) \/ ToolStart(r, token) \/ ToolFinish(r, token)
         \/ \E reason : Stop(r, token, reason)
         \/ \E outcome \in Terminal : FinishAll({r}, outcome)
         \/ FenceExpired(r, token) \/ Recover(r, token)
  PROVE  StayBegun
<1>0. \A q \in Runs : run[q] \in Row
  BY DEF RepoType
<1>1. CASE Heartbeat(r, token) \/ ToolStart(r, token) \/ ToolFinish(r, token)
  <2>1. \A q \in Runs : run'[q].status = run[q].status
    BY <1>0, <1>1 DEF Heartbeat, ToolStart, ToolFinish, RepoType, Row
  <2> QED
    BY <2>1 DEF StayBegun, Begun
<1>2. ASSUME NEW reason, Stop(r, token, reason) PROVE StayBegun
  <2>1. CASE run' = run
    BY <2>1 DEF StayBegun, Begun
  <2>2. CASE run' = [run EXCEPT ![r].status = "stopping", ![r].stopReason = reason]
    <3>1. \A q \in Runs : run'[q].status = IF q = r THEN "stopping" ELSE run[q].status
      BY <1>0, <2>2 DEF RepoType, Row
    <3> QED
      BY <3>1, OneRowBegun, Disjoint
  <2> QED
    BY <1>2, <2>1, <2>2 DEF Stop
<1>3. ASSUME NEW outcome \in Terminal, FinishAll({r}, outcome) PROVE StayBegun
  BY <1>3, FinishAllBegun
<1>4. CASE FenceExpired(r, token)
  <2>1. \A q \in Runs : run'[q].status = IF q = r THEN "stopping" ELSE run[q].status
    BY <1>0, <1>4 DEF FenceExpired, RepoType, Row
  <2> QED
    BY <2>1, OneRowBegun, Disjoint
<1>5. CASE Recover(r, token)
  <2>. DEFINE row == [run[r] EXCEPT !.fence = token + 1]
  <2>1. \A q \in Runs \ {r} : run'[q] = run[q]
    BY <1>5 DEF Recover, RepoType
  <2>2. run'[r] = Closed(row, RecoverOutcome(r))
    BY <1>5 DEF Recover, RepoType
  <2>3. RecoverOutcome(r) \in Terminal
    BY <1>0, Disjoint DEF RecoverOutcome, Row
  <2>. HIDE DEF row
  <2>4. run'[r].status = RecoverOutcome(r)
    BY <2>2 DEF Closed, row, Row
  <2> QED
    BY <2>1, <2>3, <2>4, OneRowBegun
<1> QED
  BY <1>1, <1>2, <1>3, <1>4, <1>5

-----------------------------------------------------------------------------
(* One worker at a time works on a run. *)

\* A worker whose pipeline is at work.
AtWork(w) == task[w].phase \in {"work", "tool"}

\* What is worked on was begun and not parked, and one worker works on it, whatever tokens
\* others still have.
Apart ==
  /\ \A w \in Workers : AtWork(w) => task[w].run \in Runs /\ Begun(task[w].run)
  /\ \A v, w \in Workers : AtWork(v) /\ AtWork(w) /\ task[v].run = task[w].run => v = w

\* No worker takes up work.
NoNewWork ==
  \A w \in Workers : AtWork(w)' => AtWork(w) /\ task'[w].run = task[w].run

\* Two workers stay apart when nobody takes up work.
LEMMA ApartKept ==
  ASSUME Apart, NoNewWork, StayBegun
  PROVE  Apart'
BY DEF Apart, NoNewWork, StayBegun

\* A worker that goes on with its own run takes up no work.
LEMMA RestKept ==
  ASSUME TypeOK, NEW w \in Workers, \A v \in Workers \ {w} : task'[v] = task[v],
         AtWork(w)' => AtWork(w) /\ task'[w].run = task[w].run
  PROVE  NoNewWork
BY DEF NoNewWork, AtWork

\* What a step of a worker does to what it works on.
LEMMA WorkerWork ==
  ASSUME Inv, NEW w \in Workers, WorkerProgress(w) \/ Abandon(w), ~ClaimTask(w)
  PROVE  NoNewWork
<1>0. TypeOK /\ task \in [Workers -> Task]
  BY DEF Inv, TypeOK
<1>1. CASE ClaimNone(w) \/ Renew(w)
  BY <1>1 DEF ClaimNone, Renew, NoNewWork, AtWork
<1>2. CASE WorkEnds(w) \/ SupervisorStops(w) \/ ToolInterrupted(w) \/ Abandon(w)
  BY <1>0, <1>2, RestKept DEF WorkEnds, SupervisorStops, ToolInterrupted, Abandon, AfterWork,
                          AtWork, IdleTask, Supervised, Task, BusyTask
<1>3. CASE StartTool(w) \/ ToolEnds(w) \/ AskApproval(w)
  BY <1>0, <1>3, RestKept DEF StartTool, ToolEnds, AskApproval, AtWork, IdleTask, Task, BusyTask
<1>4. CASE StopRun(w) \/ FinishRun(w)
  BY <1>0, <1>4, RestKept DEF StopRun, FinishRun, AtWork, IdleTask, Task, BusyTask
<1> QED
  BY <1>1, <1>2, <1>3, <1>4 DEF WorkerProgress

\* Only a worker that parks its run takes it back to those that wait.
LEMMA WorkerBegun ==
  ASSUME Inv, NEW w \in Workers,
         \/ ClaimTask(w) \/ ClaimNone(w) \/ Renew(w) \/ WorkEnds(w) \/ SupervisorStops(w)
         \/ StartTool(w) \/ ToolInterrupted(w) \/ ToolEnds(w)
         \/ StopRun(w) \/ FinishRun(w) \/ Abandon(w)
  PROVE  StayBegun
<1>0. TypeOK /\ RepoType /\ Tokens
  BY DEF Inv, TypeOK, RepoType
<1>1. task[w].phase # "idle" => task[w].run \in Runs /\ Consistent(task[w].phase, task[w].outcome)
  BY <1>0, BusyTyped, TaskKnown
<1>2. CASE UNCHANGED run
  BY <1>2 DEF StayBegun, Begun
<1>3. CASE ClaimTask(w)
  BY <1>0, <1>3, ClaimBegun DEF ClaimTask
<1>4. CASE ClaimNone(w)
  BY <1>0, <1>4, ExpiryBegun DEF ClaimNone
<1>5. CASE Renew(w) \/ StartTool(w)
  BY <1>0, <1>1, <1>5, FencedBegun DEF Renew, Supervised, StartTool
<1>6. CASE ToolEnds(w) \/ StopRun(w)
  BY <1>0, <1>1, <1>2, <1>6, FencedBegun DEF ToolEnds, StopRun
<1>7. CASE FinishRun(w)
  <2>1. task[w].run \in Runs /\ task[w].outcome \in Terminal
    BY <1>1, <1>7, Disjoint DEF FinishRun, Consistent
  <2>2. ASSUME Finish(task[w].run, task[w].token, task[w].outcome)
        PROVE  \E outcome \in Terminal : FinishAll({task[w].run}, outcome)
    <3>1. run[task[w].run] \in Row
      BY <1>0, <2>1 DEF RepoType
    <3>2. FinishOutcome(task[w].run, task[w].outcome) \in Terminal
      BY <2>1, <3>1, Disjoint DEF FinishOutcome, Row
    <3> QED
      BY <2>2, <3>2 DEF Finish
  <2> QED
    BY <1>0, <1>2, <1>7, <2>1, <2>2, FencedBegun DEF FinishRun
<1>8. CASE WorkEnds(w) \/ SupervisorStops(w) \/ ToolInterrupted(w) \/ Abandon(w)
  BY <1>2, <1>8 DEF WorkEnds, SupervisorStops, ToolInterrupted, Abandon
<1> QED
  BY <1>3, <1>4, <1>5, <1>6, <1>7, <1>8

\* Parking: the run of the worker alone goes back.
LEMMA ParkBegun ==
  ASSUME Inv, NEW w \in Workers, AskApproval(w)
  PROVE  /\ \A r \in Runs \ {task[w].run} : run'[r] = run[r]
         /\ ~AtWork(w)' /\ AtWork(w) /\ \A v \in Workers \ {w} : task'[v] = task[v]
<1>1. task \in [Workers -> Task] /\ run \in [Runs -> Row]
  BY DEF Inv, TypeOK
<1> QED
  BY <1>1 DEF AskApproval, WaitApproval, AtWork, IdleTask, Task, BusyTask

\* The other steps.
LEMMA OtherBegun ==
  ASSUME Inv,
         \/ \E r \in Runs : UserStep(r) \/ TimePasses(r)
         \/ \E m \in Sweepers : SweeperProgress(m) \/ SweepAbandon(m)
         \/ Expire \/ UNCHANGED vars
  PROVE  StayBegun /\ UNCHANGED task
<1>0. TypeOK /\ RepoType /\ Tokens
  BY DEF Inv, TypeOK, RepoType
<1>1. ASSUME NEW r \in Runs, UserStep(r) \/ TimePasses(r) PROVE StayBegun /\ UNCHANGED task
  BY <1>0, <1>1, UserBegun DEF UserStep, TimePasses
<1>2. ASSUME NEW m \in Sweepers, SweeperProgress(m) \/ SweepAbandon(m)
      PROVE  StayBegun /\ UNCHANGED task
  <2>1. sweep[m].phase # "idle" => sweep[m].run \in Runs
    BY <1>0, SweepFacts
  <2>2. CASE UNCHANGED run
    BY <1>2, <2>2 DEF SweeperProgress, SweepRead, SweepFence, SweepRecover, SweepAbandon,
                    StayBegun, Begun
  <2>3. CASE SweepFence(m) \/ SweepRecover(m)
    BY <1>0, <2>1, <2>2, <2>3, FencedBegun DEF SweepFence, SweepRecover, SweeperProgress
  <2>4. CASE SweepRead(m) \/ SweepAbandon(m)
    BY <2>2, <2>4 DEF SweepRead, SweepAbandon
  <2> QED
    BY <1>2, <2>3, <2>4 DEF SweeperProgress
<1>3. CASE Expire
  BY <1>0, <1>3, ExpiryBegun DEF Expire
<1>4. CASE UNCHANGED vars
  BY <1>4 DEF vars, StayBegun, Begun
<1> QED
  BY <1>1, <1>2, <1>3, <1>4

\* Nobody works yet.
LEMMA ApartBegins == Init => Apart
BY DEF Init, Apart, AtWork, IdleTask

\* One worker at a time works on a run: a run is claimed while it waits, and whoever parked it
\* had stopped working on it.
LEMMA ApartStep == Inv /\ Apart /\ [Next]_vars => Apart'
<1> SUFFICES ASSUME Inv, Apart, [Next]_vars PROVE Apart'
  OBVIOUS
<1>1. ASSUME \/ \E r \in Runs : UserStep(r) \/ TimePasses(r)
             \/ \E m \in Sweepers : SweeperProgress(m) \/ SweepAbandon(m)
             \/ Expire \/ UNCHANGED vars
      PROVE  Apart'
  <2>1. StayBegun /\ NoNewWork
    BY <1>1, OtherBegun DEF NoNewWork, AtWork
  <2> QED
    BY <2>1, ApartKept
<1>2. ASSUME NEW w \in Workers, WorkerProgress(w) \/ Abandon(w) PROVE Apart'
  <2>1. CASE ~ClaimTask(w) /\ ~AskApproval(w)
    BY <1>2, <2>1, WorkerWork, WorkerBegun, ApartKept DEF WorkerProgress
  <2>2. CASE AskApproval(w)
    BY <2>2, ParkBegun DEF Apart, AtWork, Begun
  <2>3. CASE ClaimTask(w)
    <3>0. RepoType /\ task \in [Workers -> Task]
      BY DEF Inv, TypeOK, RepoType
    <3>1. PICK r \in Runs, X \in SUBSET QueueExpired :
            /\ ClaimRun(r, X)
            /\ \/ task' = [task EXCEPT ![w] = [phase |-> "work", run |-> r,
                                               token |-> run'[r].fence, outcome |-> "none"]]
               \/ UNCHANGED task
      BY <2>3 DEF ClaimTask
    <3>2. StayBegun /\ ~Begun(r) /\ Begun(r)'
      BY <3>0, <3>1, ClaimBegun
    <3>3. \A v \in Workers : AtWork(v) => task[v].run # r
      BY <3>2 DEF Apart
    <3>4. CASE UNCHANGED task
      BY <3>2, <3>4, ApartKept DEF NoNewWork, AtWork
    <3>5. CASE /\ \A v \in Workers \ {w} : task'[v] = task[v]
               /\ AtWork(w)' /\ task'[w].run = r
      BY <3>2, <3>3, <3>5 DEF Apart, AtWork, StayBegun
    <3> QED
      BY <3>0, <3>1, <3>4, <3>5 DEF AtWork
  <2> QED
    BY <2>1, <2>2, <2>3
<1> QED
  BY <1>1, <1>2 DEF Next

-----------------------------------------------------------------------------
(* One container at a time. *)

\* The types of calls, requests and containers.
RequestRow == [phase : RequestPhase, run : Runs \union {NoRun}, fence : Nat,
               data : BOOLEAN, ok : BOOLEAN]
SandboxTyped ==
  call \in [Workers -> Call] /\ request \in [Requests -> RequestRow] /\ box \in [Requests -> Box]

\* A worker that may still start a tool, or go on after the one it started.
GoesOn(w) ==
  \/ task[w].phase = "work" /\ call[w] # "failed"
  \/ task[w].phase = "tool" /\ call[w] \in {"none", "new", "ok"}

\* A request is of a run that was begun, there is one for each run at a time, and none when a
\* worker goes on.
BusyBegun == \A q \in Requests : ~Free(q) => request[q].run \in Runs /\ Begun(request[q].run)
OneRequest ==
  \A p, q \in Requests : ~Free(p) /\ ~Free(q) /\ request[p].run = request[q].run => p = q
NothingBehind ==
  \A w \in Workers, q \in Requests : GoesOn(w) /\ request[q].run = task[w].run => Free(q)
Followed == BusyBegun /\ OneRequest /\ NothingBehind

\* A call is part of a tool.
CallsInTools ==
  \A w \in Workers : call[w] \in {"new", "open", "cleanup", "ok"} => task[w].phase = "tool"

\* Success is answered when the container has exited and was removed.
RemovedFirst(row, state) ==
  row.ok => \/ row.phase = "cleanup" /\ state \in {"exited", "none"}
            \/ row.phase = "kill" /\ state = "none"
            \/ row.phase = "gone"
OkIsRemoved == \A q \in Requests : RemovedFirst(request[q], box[q])

\* The inductive invariant.
SandboxInv == Apart /\ SandboxTyped /\ Followed /\ CallsInTools /\ OkIsRemoved

\* No request begins.
NoNewRequest ==
  \A q \in Requests : request'[q].run = request[q].run /\ (Free(q) => Free(q)')

\* Nobody goes on who did not.
NobodyGoesOn ==
  \A w \in Workers : GoesOn(w)' => GoesOn(w) /\ task'[w].run = task[w].run

\* A call is still followed when nobody asks for a new one or goes on.
LEMMA FollowedKept ==
  ASSUME Followed, NoNewRequest, NobodyGoesOn, StayBegun
  PROVE  Followed'
<1>1. BusyBegun'
  BY DEF Followed, BusyBegun, NoNewRequest, StayBegun
<1>2. OneRequest'
  BY DEF Followed, OneRequest, NoNewRequest
<1>3. NothingBehind'
  BY DEF Followed, NothingBehind, NoNewRequest, NobodyGoesOn
<1> QED
  BY <1>1, <1>2, <1>3 DEF Followed

\* What a confirmed cleanup does to the containers.
LEMMA CleanupKeeps ==
  ASSUME SandboxTyped, NEW r, Cleanup(r) \/ UNCHANGED box
  PROVE  /\ box' \in [Requests -> Box]
         /\ \A q \in Requests : box'[q] = box[q] \/ box'[q] = "none"
         /\ Cleanup(r) => \A q \in Requests : request[q].run = r /\ box[q] \in Listed => box'[q] = "none"
BY DEF SandboxTyped, Cleanup, Removed, Box

\* Containers that vanish break nothing.
LEMMA VanishKept ==
  ASSUME SandboxTyped, OkIsRemoved, UNCHANGED request, box' \in [Requests -> Box],
         \A q \in Requests : box'[q] = box[q] \/ box'[q] = "none"
  PROVE  NoNewRequest /\ OkIsRemoved'
<1>1. NoNewRequest
  BY DEF NoNewRequest, Free
<1>2. OkIsRemoved'
  BY DEF OkIsRemoved, RemovedFirst
<1> QED
  BY <1>1, <1>2

\* A step that touches neither calls nor requests, nor the work of a worker.
LEMMA ElsewhereKept ==
  ASSUME SandboxInv, StayBegun, UNCHANGED <<task, call, request>>, box' \in [Requests -> Box],
         \A q \in Requests : box'[q] = box[q] \/ box'[q] = "none"
  PROVE  SandboxTyped' /\ Followed' /\ CallsInTools' /\ OkIsRemoved'
<1>1. NoNewRequest /\ OkIsRemoved'
  BY VanishKept DEF SandboxInv
<1>2. NobodyGoesOn
  BY DEF NobodyGoesOn, GoesOn
<1>3. Followed'
  BY <1>1, <1>2, FollowedKept DEF SandboxInv
<1>4. SandboxTyped' /\ CallsInTools'
  BY DEF SandboxInv, SandboxTyped, CallsInTools
<1> QED
  BY <1>1, <1>3, <1>4

\* A step of a worker that sends nothing.
LEMMA WorkerKept ==
  ASSUME SandboxInv, StayBegun, NEW w \in Workers, NEW c \in Call,
         \A v \in Workers \ {w} : task'[v] = task[v], call' = [call EXCEPT ![w] = c],
         UNCHANGED request, box' \in [Requests -> Box],
         \A q \in Requests : box'[q] = box[q] \/ box'[q] = "none",
         c \in {"new", "open", "cleanup", "ok"} => task'[w].phase = "tool",
         GoesOn(w)' => GoesOn(w) /\ task'[w].run = task[w].run
  PROVE  SandboxTyped' /\ Followed' /\ CallsInTools' /\ OkIsRemoved'
<1>1. NoNewRequest /\ OkIsRemoved'
  BY VanishKept DEF SandboxInv
<1>2. /\ call' \in [Workers -> Call] /\ call'[w] = c
      /\ \A v \in Workers \ {w} : call'[v] = call[v]
  BY DEF SandboxInv, SandboxTyped
<1>3. NobodyGoesOn
  BY <1>2 DEF NobodyGoesOn, GoesOn
<1>4. Followed'
  BY <1>1, <1>3, FollowedKept DEF SandboxInv
<1>5. SandboxTyped'
  BY <1>2 DEF SandboxInv, SandboxTyped
<1>6. CallsInTools'
  BY <1>2 DEF SandboxInv, CallsInTools
<1> QED
  BY <1>1, <1>4, <1>5, <1>6

\* The same when the call stays what it is.
LEMMA CallKept ==
  ASSUME SandboxInv, StayBegun, NEW w \in Workers,
         \A v \in Workers \ {w} : task'[v] = task[v], UNCHANGED call, Unsandboxed,
         call[w] \in {"new", "open", "cleanup", "ok"} => task'[w].phase = "tool",
         GoesOn(w)' => GoesOn(w) /\ task'[w].run = task[w].run
  PROVE  SandboxTyped' /\ Followed' /\ CallsInTools' /\ OkIsRemoved'
<1>1. call[w] \in Call /\ call' = [call EXCEPT ![w] = call[w]]
  BY DEF SandboxInv, SandboxTyped
<1>2. /\ UNCHANGED request /\ box' \in [Requests -> Box]
      /\ \A q \in Requests : box'[q] = box[q] \/ box'[q] = "none"
  BY DEF Unsandboxed, SandboxInv, SandboxTyped
<1> QED
  BY <1>1, <1>2, WorkerKept

\* A worker sends its one request: what it left behind before is gone.
LEMMA SendKept ==
  ASSUME Inv, SandboxInv, NEW w \in Workers, Send(w)
  PROVE  SandboxTyped' /\ Followed' /\ CallsInTools' /\ OkIsRemoved'
<1>0. SandboxTyped /\ Followed /\ Apart /\ CallsInTools /\ OkIsRemoved
  BY DEF SandboxInv
<1>1. PICK q \in Requests :
        /\ Free(q)
        /\ request' = [request EXCEPT ![q] = [phase |-> "sent", run |-> task[w].run,
                                              fence |-> task[w].token,
                                              data |-> FALSE, ok |-> FALSE]]
  BY DEF Send
<1>2. /\ task[w].phase = "tool" /\ AtWork(w) /\ GoesOn(w)
      /\ task[w].run \in Runs /\ Begun(task[w].run)
  BY <1>0 DEF Send, CallsInTools, AtWork, GoesOn, Apart
<1>3. task[w].token \in Nat
  BY <1>2, TaskFacts DEF Inv
<1>4. /\ request'[q] = [phase |-> "sent", run |-> task[w].run, fence |-> task[w].token,
                        data |-> FALSE, ok |-> FALSE]
      /\ \A p \in Requests \ {q} : request'[p] = request[p]
      /\ request' \in [Requests -> RequestRow]
  BY <1>0, <1>1, <1>2, <1>3 DEF SandboxTyped, RequestRow, RequestPhase
<1>5. /\ UNCHANGED <<run, task, box>> /\ call' = [call EXCEPT ![w] = "open"]
  BY DEF Send, vars
<1>6. SandboxTyped'
  BY <1>0, <1>4, <1>5 DEF SandboxTyped, Call
<1>7. CallsInTools'
  BY <1>0, <1>2, <1>5 DEF CallsInTools, SandboxTyped
<1>8. OkIsRemoved'
  BY <1>0, <1>4, <1>5 DEF OkIsRemoved, RemovedFirst
<1>9. \A p \in Requests : request[p].run = task[w].run => Free(p)
  BY <1>0, <1>2 DEF Followed, NothingBehind
<1>10. \A p \in Requests \ {q} : Free(p)' <=> Free(p)
  BY <1>4, <1>5 DEF Free
<1>11. BusyBegun'
  BY <1>0, <1>2, <1>4, <1>5, <1>10 DEF Followed, BusyBegun, Begun
<1>12. OneRequest'
  BY <1>0, <1>4, <1>9, <1>10 DEF Followed, OneRequest
<1>13. NothingBehind'
  <2>1. ASSUME NEW v \in Workers, GoesOn(v)' PROVE v # w /\ GoesOn(v) /\ task[v].run # task[w].run
    <3>1. v # w
      BY <1>0, <1>2, <1>5, <2>1 DEF GoesOn, SandboxTyped
    <3>2. GoesOn(v)
      BY <1>0, <1>5, <2>1, <3>1 DEF GoesOn, SandboxTyped
    <3> QED
      BY <1>0, <1>2, <3>1, <3>2 DEF Apart, AtWork, GoesOn
  <2> QED
    BY <1>0, <1>4, <1>5, <1>10, <2>1 DEF Followed, NothingBehind
<1> QED
  BY <1>6, <1>7, <1>8, <1>11, <1>12, <1>13 DEF Followed

\* A worker claims a run that waited, and left nothing behind.
LEMMA ClaimKept ==
  ASSUME Inv, SandboxInv, NEW w \in Workers, ClaimTask(w), UNCHANGED call, Unsandboxed
  PROVE  SandboxTyped' /\ Followed' /\ CallsInTools' /\ OkIsRemoved'
<1>0. RepoType /\ task \in [Workers -> Task] /\ Followed /\ CallsInTools /\ OkIsRemoved
  BY DEF Inv, TypeOK, RepoType, SandboxInv
<1>1. PICK r \in Runs, X \in SUBSET QueueExpired :
        /\ ClaimRun(r, X)
        /\ \/ task' = [task EXCEPT ![w] = [phase |-> "work", run |-> r,
                                           token |-> run'[r].fence, outcome |-> "none"]]
           \/ UNCHANGED task
  BY DEF ClaimTask
<1>2. StayBegun /\ ~Begun(r) /\ Begun(r)'
  BY <1>0, <1>1, ClaimBegun
<1>3. \A v \in Workers \ {w} : task'[v] = task[v]
  BY <1>0, <1>1
<1>4. UNCHANGED <<call, request, box>>
  BY DEF Unsandboxed
<1>5. \A q \in Requests : request[q].run = r => Free(q)
  BY <1>0, <1>2 DEF Followed, BusyBegun
<1>6. NoNewRequest /\ SandboxTyped' /\ OkIsRemoved'
  BY <1>0, <1>4 DEF NoNewRequest, Free, SandboxInv, SandboxTyped, OkIsRemoved
<1>7. task'[w] = task[w] \/ (task'[w].phase = "work" /\ task'[w].run = r)
  BY <1>0, <1>1
<1>8. CallsInTools'
  BY <1>0, <1>3, <1>4, <1>7 DEF CallsInTools, ClaimTask
<1>9. BusyBegun' /\ OneRequest'
  BY <1>0, <1>2, <1>6 DEF Followed, BusyBegun, OneRequest, NoNewRequest, StayBegun
<1>10. NothingBehind'
  <2>1. ASSUME NEW v \in Workers, NEW q \in Requests, GoesOn(v)', request'[q].run = task'[v].run
        PROVE  Free(q)
    <3>1. CASE task'[v] = task[v]
      BY <1>0, <1>4, <2>1, <3>1 DEF Followed, NothingBehind, GoesOn
    <3>2. CASE task'[v].run = r
      BY <1>4, <1>5, <2>1, <3>2
    <3> QED
      BY <1>3, <1>7, <3>1, <3>2
  <2> QED
    BY <1>6, <2>1 DEF NothingBehind, NoNewRequest
<1> QED
  BY <1>6, <1>8, <1>9, <1>10 DEF Followed

\* A run is parked without a container.
LEMMA ParkKept ==
  ASSUME Inv, SandboxInv, NEW w \in Workers, SandboxAskApproval(w)
  PROVE  SandboxTyped' /\ Followed' /\ CallsInTools' /\ OkIsRemoved'
<1>0. SandboxTyped /\ Followed /\ CallsInTools /\ OkIsRemoved
  BY DEF SandboxInv
<1>1. /\ \A r \in Runs \ {task[w].run} : run'[r] = run[r]
      /\ ~AtWork(w)' /\ AtWork(w) /\ \A v \in Workers \ {w} : task'[v] = task[v]
  BY ParkBegun DEF SandboxAskApproval
<1>2. UNCHANGED <<call, request, box>> /\ call[w] = "none" /\ task[w].phase = "work"
  BY DEF SandboxAskApproval, Unsandboxed, AskApproval
<1>3. \A q \in Requests : request[q].run = task[w].run => Free(q)
  BY <1>0, <1>2 DEF Followed, NothingBehind, GoesOn
<1>4. NoNewRequest /\ NobodyGoesOn
  BY <1>1, <1>2 DEF NoNewRequest, Free, NobodyGoesOn, GoesOn, AtWork
<1>5. BusyBegun'
  BY <1>0, <1>1, <1>3, <1>4 DEF Followed, BusyBegun, NoNewRequest, Begun
<1>6. OneRequest' /\ NothingBehind'
  BY <1>0, <1>4 DEF Followed, OneRequest, NothingBehind, NoNewRequest, NobodyGoesOn
<1>7. SandboxTyped' /\ CallsInTools' /\ OkIsRemoved'
  BY <1>0, <1>1, <1>2 DEF SandboxTyped, CallsInTools, OkIsRemoved
<1> QED
  BY <1>5, <1>6, <1>7 DEF Followed

\* The steps of a worker.
LEMMA WorkerStays ==
  ASSUME Inv, SandboxInv, NEW w \in Workers, SandboxWorkerProgress(w) \/ SandboxAbandon(w)
  PROVE  SandboxTyped' /\ Followed' /\ CallsInTools' /\ OkIsRemoved'
<1> DEFINE Kept == SandboxTyped' /\ Followed' /\ CallsInTools' /\ OkIsRemoved'
<1>0. /\ SandboxTyped /\ Apart /\ CallsInTools
      /\ task \in [Workers -> Task] /\ call \in [Workers -> Call] /\ box \in [Requests -> Box]
  BY DEF Inv, TypeOK, SandboxInv, SandboxTyped
<1>a. UNCHANGED box => /\ box' \in [Requests -> Box]
                       /\ \A q \in Requests : box'[q] = box[q] \/ box'[q] = "none"
  BY <1>0
<1>c. task[w].phase # "idle" => task[w] \in BusyTask
  BY BusyTyped DEF Inv
<1>b. UNCHANGED run => StayBegun
  BY DEF StayBegun, Begun
<1>1. ASSUME ClaimNone(w) \/ Renew(w) \/ StopRun(w), UNCHANGED call, Unsandboxed PROVE Kept
  <2>1. StayBegun
    BY <1>1, WorkerBegun
  <2>2. /\ \A v \in Workers \ {w} : task'[v] = task[v]
        /\ \/ task'[w].phase \in {"idle", "finish"} /\ task[w].phase = "stop"
           \/ task'[w] = task[w]
    BY <1>0, <1>1 DEF ClaimNone, Renew, StopRun, IdleTask, Task, BusyTask
  <2>3. GoesOn(w)' => GoesOn(w) /\ task'[w].run = task[w].run
    BY <1>1, <2>2 DEF GoesOn
  <2>4. call[w] \in {"new", "open", "cleanup", "ok"} => task'[w].phase = "tool"
    BY <1>0, <2>2 DEF CallsInTools
  <2> QED
    BY <1>1, <2>1, <2>2, <2>3, <2>4, CallKept
<1>2. CASE ClaimTask(w) /\ UNCHANGED call /\ Unsandboxed
  BY <1>2, ClaimKept
<1>3. CASE SandboxStartTool(w)
  <2>1. /\ call[w] = "none" /\ task[w].phase = "work" /\ StartTool(w)
        /\ UNCHANGED request /\ UNCHANGED box
    BY <1>3 DEF SandboxStartTool, StartTool, Unsandboxed
  <2>2. StayBegun
    BY <2>1, WorkerBegun
  <2>3. PICK c \in {"none", "new"} :
          call' = [call EXCEPT ![w] = IF task'[w].phase = "tool" THEN c ELSE "none"]
    BY <1>3 DEF SandboxStartTool
  <2>4. /\ \A v \in Workers \ {w} : task'[v] = task[v]
        /\ task'[w].phase \in {"tool", "stop"} /\ task'[w].run = task[w].run
    BY <1>0, <1>c, <2>1 DEF StartTool, BusyTask
  <2>. DEFINE d == IF task'[w].phase = "tool" THEN c ELSE "none"
  <2>5. d \in Call /\ (d \in {"new", "open", "cleanup", "ok"} => task'[w].phase = "tool")
    BY DEF Call
  <2>6. GoesOn(w)' => GoesOn(w) /\ task'[w].run = task[w].run
    BY <2>1, <2>4 DEF GoesOn
  <2>7. call' = [call EXCEPT ![w] = d]
    BY <2>3
  <2>. HIDE DEF d
  <2> QED
    BY <1>a, <2>1, <2>2, <2>4, <2>5, <2>6, <2>7, WorkerKept
<1>4. CASE Send(w)
  BY <1>4, SendKept
<1>5. CASE SandboxStopped(w)
  <2>1. /\ SupervisorStops(w) \/ ToolInterrupted(w)
        /\ UNCHANGED <<run, request, box>>
        /\ call' = [call EXCEPT ![w] = IF task[w].phase = "tool" THEN GiveUp(call[w]) ELSE "none"]
    BY <1>5 DEF SandboxStopped, SupervisorStops, ToolInterrupted, Unsandboxed
  <2>2. /\ \A v \in Workers \ {w} : task'[v] = task[v]
        /\ task'[w].run = task[w].run
        /\ task[w].phase = "tool" => task'[w].phase = "tool"
        /\ task[w].phase # "tool" => task'[w].phase = "stop"
    BY <1>0, <1>c, <2>1 DEF SupervisorStops, ToolInterrupted, Supervised, BusyTask
  <2>. DEFINE d == IF task[w].phase = "tool" THEN GiveUp(call[w]) ELSE "none"
  <2>3. /\ d \in Call /\ (d \in {"new", "open", "cleanup", "ok"} => task'[w].phase = "tool")
        /\ d \in {"none", "new", "ok"} /\ task[w].phase = "tool" => d = call[w]
    BY <1>0, <2>2 DEF GiveUp, Call
  <2>4. call' = [call EXCEPT ![w] = d] /\ call'[w] = d
    BY <1>0, <2>1
  <2>5. GoesOn(w)' => GoesOn(w) /\ task'[w].run = task[w].run
    BY <2>2, <2>3, <2>4 DEF GoesOn
  <2>. HIDE DEF d
  <2> QED
    BY <1>a, <1>b, <2>1, <2>2, <2>3, <2>4, <2>5, WorkerKept
<1>6. CASE CallBreaks(w) \/ CallCleanup(w)
  <2>1. /\ UNCHANGED <<run, task, request>> /\ (Cleanup(task[w].run) \/ UNCHANGED box)
        /\ \/ call' = [call EXCEPT ![w] = "cleanup"] /\ call[w] \in {"new", "open"}
           \/ call' = [call EXCEPT ![w] = "failed"] /\ call[w] = "cleanup"
    BY <1>6 DEF CallBreaks, CallCleanup, vars
  <2>2. task'[w].phase = "tool"
    BY <1>0, <2>1 DEF CallsInTools
  <2>3. ~GoesOn(w)'
    BY <1>0, <2>1, <2>2 DEF GoesOn
  <2>4. "cleanup" \in Call /\ "failed" \in Call
    BY DEF Call
  <2>5. /\ box' \in [Requests -> Box]
        /\ \A q \in Requests : box'[q] = box[q] \/ box'[q] = "none"
    BY <1>0, <2>1, CleanupKeeps
  <2> QED
    BY <1>b, <2>1, <2>2, <2>3, <2>4, <2>5, WorkerKept
<1>7. CASE SandboxToolEnds(w)
  <2>1. /\ ToolEnds(w) /\ UNCHANGED <<request, box>> /\ task[w].phase = "tool"
        /\ call[w] \in {"none", "ok", "failed"}
        /\ call' = [call EXCEPT ![w] = IF call[w] = "failed" /\ task'[w].phase = "work"
                                         THEN "failed" ELSE "none"]
    BY <1>7 DEF SandboxToolEnds, ToolEnds, Unsandboxed
  <2>2. StayBegun
    BY <2>1, WorkerBegun
  <2>3. /\ \A v \in Workers \ {w} : task'[v] = task[v]
        /\ task'[w].phase \in {"work", "stop"} /\ task'[w].run = task[w].run
    BY <1>0, <1>c, <2>1 DEF ToolEnds, BusyTask
  <2>. DEFINE d == IF call[w] = "failed" /\ task'[w].phase = "work" THEN "failed" ELSE "none"
  <2>4. d \in Call /\ d \notin {"new", "open", "cleanup", "ok"}
    BY DEF Call
  <2>5. call' = [call EXCEPT ![w] = d] /\ call'[w] = d
    BY <1>0, <2>1
  <2>6. GoesOn(w)' => GoesOn(w) /\ task'[w].run = task[w].run
    BY <2>1, <2>3, <2>5 DEF GoesOn
  <2>. HIDE DEF d
  <2> QED
    BY <1>a, <2>1, <2>2, <2>3, <2>4, <2>5, <2>6, WorkerKept
<1>8. CASE SandboxWorkEnds(w) \/ SandboxFinishRun(w) \/ SandboxAbandon(w)
  <2>1. /\ WorkEnds(w) \/ FinishRun(w) \/ Abandon(w)
        /\ UNCHANGED <<request, box>> /\ call' = [call EXCEPT ![w] = "none"]
    BY <1>8 DEF SandboxWorkEnds, SandboxFinishRun, SandboxAbandon, Unsandboxed
  <2>2. StayBegun
    BY <2>1, WorkerBegun
  <2>3. /\ \A v \in Workers \ {w} : task'[v] = task[v]
        /\ task'[w].phase \in {"idle", "stop", "finish"}
    BY <1>0, <2>1 DEF WorkEnds, FinishRun, Abandon, AfterWork, IdleTask, Task, BusyTask
  <2>4. ~GoesOn(w)' /\ "none" \in Call
    BY <2>3 DEF GoesOn, Call
  <2> QED
    BY <1>a, <2>1, <2>2, <2>3, <2>4, WorkerKept
<1>9. CASE SandboxAskApproval(w)
  BY <1>9, ParkKept
<1>10. CASE FinalCleanup(w)
  <2>1. /\ UNCHANGED <<run, task, request>> /\ Cleanup(task[w].run)
        /\ task[w].phase = "finish" /\ call' = [call EXCEPT ![w] = "clean"]
    BY <1>10 DEF FinalCleanup, vars
  <2>2. /\ box' \in [Requests -> Box]
        /\ \A q \in Requests : box'[q] = box[q] \/ box'[q] = "none"
    BY <1>0, <2>1, CleanupKeeps
  <2>3. ~GoesOn(w)' /\ "clean" \in Call
    BY <2>1 DEF GoesOn, Call
  <2> QED
    BY <1>b, <2>1, <2>2, <2>3, WorkerKept
<1> QED
  BY <1>1, <1>2, <1>3, <1>4, <1>5, <1>6, <1>7, <1>8, <1>9, <1>10 DEF SandboxWorkerProgress

\* The executor goes on with one request, or all its handlers die.
LEMMA RequestKept ==
  ASSUME SandboxInv, UNCHANGED vars, NEW q \in Requests, NEW row \in RequestRow,
         request' = [request EXCEPT ![q] = row], row.run = request[q].run, ~Free(q),
         box' \in [Requests -> Box],
         \A p \in Requests \ {q} : box'[p] = box[p] \/ box'[p] = "none",
         RemovedFirst(row, box'[q])
  PROVE  NoNewRequest /\ StayBegun /\ request' \in [Requests -> RequestRow] /\ OkIsRemoved'
<1>0. request \in [Requests -> RequestRow] /\ OkIsRemoved
  BY DEF SandboxInv, SandboxTyped
<1>1. /\ request'[q] = row /\ \A p \in Requests \ {q} : request'[p] = request[p]
      /\ request' \in [Requests -> RequestRow]
  BY <1>0
<1>2. NoNewRequest
  BY <1>1 DEF NoNewRequest, Free
<1>3. OkIsRemoved'
  BY <1>0, <1>1 DEF OkIsRemoved, RemovedFirst
<1>4. StayBegun
  BY DEF StayBegun, Begun, vars
<1> QED
  BY <1>1, <1>2, <1>3, <1>4

\* What the callers are told.
LEMMA ToldKept ==
  ASSUME SandboxInv, UNCHANGED vars, NoNewRequest, StayBegun, NEW answers,
         call' = [w \in Workers |-> answers[w]],
         \A w \in Workers : /\ answers[w] \in Call
                            /\ answers[w] # call[w] =>
                                 call[w] = "open" /\ answers[w] \notin {"none", "new", "clean"}
                            /\ answers[w] = "ok" /\ call[w] # "ok" =>
                                 \A q \in Requests : request'[q].run = task[w].run => Free(q)'
  PROVE  Followed' /\ CallsInTools' /\ call' \in [Workers -> Call]
<1>0. Followed /\ CallsInTools
  BY DEF SandboxInv
<1>1. UNCHANGED <<run, task>>
  BY DEF vars
<1>2. BusyBegun' /\ OneRequest'
  BY <1>0 DEF Followed, BusyBegun, OneRequest, NoNewRequest, StayBegun
<1>3. NothingBehind'
  <2>1. ASSUME NEW w \in Workers, NEW q \in Requests, GoesOn(w)', request'[q].run = task'[w].run
        PROVE  Free(q)'
    <3>1. CASE GoesOn(w)
      BY <1>0, <1>1, <2>1, <3>1 DEF Followed, NothingBehind, NoNewRequest
    <3>2. CASE ~GoesOn(w)
      <4>1. call'[w] = answers[w] /\ call[w] # answers[w]
        BY <1>1, <2>1, <3>2 DEF GoesOn
      <4>2. call[w] = "open" /\ answers[w] = "ok"
        BY <1>0, <1>1, <2>1, <4>1 DEF GoesOn, CallsInTools
      <4> QED
        BY <1>1, <2>1, <4>2
    <3> QED
      BY <3>1, <3>2
  <2> QED
    BY <2>1 DEF NothingBehind
<1>4. CallsInTools'
  BY <1>0, <1>1 DEF CallsInTools
<1> QED
  BY <1>2, <1>3, <1>4 DEF Followed

\* The steps of the executor for one request that tell nobody anything.
LEMMA SilentKept ==
  ASSUME SandboxInv, NEW q \in Requests,
         Admit(q) \/ Spawn(q) \/ Recheck(q) \/ Fails(q) \/ Succeeds(q) \/ HandlerCleanup(q)
  PROVE  SandboxTyped' /\ Followed' /\ CallsInTools' /\ OkIsRemoved'
<1>0. /\ request \in [Requests -> RequestRow] /\ box \in [Requests -> Box] /\ request[q] \in RequestRow
      /\ RemovedFirst(request[q], box[q]) /\ UNCHANGED vars /\ UNCHANGED call
  BY DEF SandboxInv, SandboxTyped, OkIsRemoved, Admit, Spawn, Recheck, Fails, Succeeds, HandlerCleanup
<1>1. request[q].phase # "gone" /\ ~Free(q)
  BY DEF Admit, Spawn, Recheck, Fails, Succeeds, HandlerCleanup, Free
<1>2. \E row \in RequestRow :
        /\ request' = [request EXCEPT ![q] = row] /\ row.run = request[q].run
        /\ box' \in [Requests -> Box] /\ RemovedFirst(row, box'[q])
        /\ \A p \in Requests \ {q} : box'[p] = box[p] \/ box'[p] = "none"
  <2>. DEFINE At(phase) == [request[q] EXCEPT !.phase = phase]
  <2>1. /\ At("valid") \in RequestRow /\ At("cleanup") \in RequestRow
        /\ At("spawned") \in RequestRow /\ At("kill") \in RequestRow
        /\ \A phase \in {"valid", "cleanup", "spawned", "kill"} :
             /\ At(phase).run = request[q].run /\ At(phase).phase = phase
             /\ At(phase).ok = request[q].ok
    BY <1>0 DEF RequestRow, RequestPhase
  <2>2. \A phase : Continue(q, phase) => request' = [request EXCEPT ![q] = At(phase)]
    BY <1>0 DEF Continue
  <2>3. UNCHANGED box => /\ box' \in [Requests -> Box]
                         /\ \A p \in Requests \ {q} : box'[p] = box[p] \/ box'[p] = "none"
    BY <1>0
  <2>4. request[q].phase \in {"sent", "valid", "spawned", "running"} => ~request[q].ok
    BY <1>0 DEF RemovedFirst
  <2>. HIDE DEF At
  <2>5. CASE Admit(q)
    BY <2>1, <2>2, <2>3, <2>4, <2>5 DEF Admit, RemovedFirst
  <2>6. CASE Spawn(q)
    <3>1. CASE Continue(q, "spawned") /\ box' = [box EXCEPT ![q] = "pending"]
      <4>1. /\ box' \in [Requests -> Box]
            /\ \A p \in Requests \ {q} : box'[p] = box[p] \/ box'[p] = "none"
        BY <1>0, <3>1 DEF Box
      <4> QED
        BY <2>1, <2>2, <2>4, <2>6, <3>1, <4>1 DEF Spawn, RemovedFirst
    <3>2. CASE Continue(q, "cleanup") /\ UNCHANGED box
      BY <2>1, <2>2, <2>3, <2>4, <2>6, <3>2 DEF Spawn, RemovedFirst
    <3> QED
      BY <2>6, <3>1, <3>2 DEF Spawn
  <2>7. CASE Recheck(q)
    <3>. DEFINE row == [request[q] EXCEPT !.phase = "running", !.data = TRUE]
    <3>1. row \in RequestRow /\ row.run = request[q].run /\ row.ok = request[q].ok
      BY <1>0 DEF RequestRow, RequestPhase
    <3>2. Valid(q) => request' = [request EXCEPT ![q] = row]
      BY <1>0, <2>7 DEF Recheck
    <3>. HIDE DEF row
    <3>3. CASE Valid(q)
      BY <2>3, <2>4, <2>7, <3>1, <3>2, <3>3 DEF Recheck, RemovedFirst
    <3>4. CASE ~Valid(q)
      BY <2>1, <2>2, <2>3, <2>4, <2>7, <3>4 DEF Recheck, RemovedFirst
    <3> QED
      BY <3>3, <3>4
  <2>8. CASE Fails(q)
    BY <2>1, <2>2, <2>3, <2>4, <2>8 DEF Fails, RemovedFirst
  <2>9. CASE Succeeds(q)
    <3>. DEFINE row == [request[q] EXCEPT !.phase = "cleanup", !.ok = TRUE]
    <3>1. row \in RequestRow /\ row.run = request[q].run /\ row.phase = "cleanup"
      BY <1>0 DEF RequestRow, RequestPhase
    <3>2. request' = [request EXCEPT ![q] = row] /\ box'[q] = "exited" /\ UNCHANGED box
      BY <1>0, <2>9 DEF Succeeds
    <3>. HIDE DEF row
    <3> QED
      BY <2>3, <3>1, <3>2 DEF RemovedFirst
  <2>10. CASE HandlerCleanup(q)
    <3>0. request[q].phase = "cleanup"
      BY <2>10 DEF HandlerCleanup
    <3>1. CASE Cleanup(request[q].run) /\ Continue(q, "kill")
      <4>1. /\ box' \in [Requests -> Box]
            /\ \A p \in Requests : box'[p] = box[p] \/ box'[p] = "none"
            /\ box[q] \in Listed => box'[q] = "none"
        BY <3>1, CleanupKeeps DEF SandboxInv
      <4>2. request[q].ok => box'[q] = "none"
        BY <1>0, <3>0, <4>1 DEF RemovedFirst, Listed
      <4> QED
        BY <2>1, <2>2, <3>1, <4>1, <4>2 DEF RemovedFirst
    <3>2. CASE request' = [request EXCEPT ![q].phase = "kill", ![q].ok = FALSE] /\ UNCHANGED box
      <4>. DEFINE row == [request[q] EXCEPT !.phase = "kill", !.ok = FALSE]
      <4>1. row \in RequestRow /\ row.run = request[q].run /\ ~row.ok
        BY <1>0 DEF RequestRow, RequestPhase
      <4>2. request' = [request EXCEPT ![q] = row]
        BY <1>0, <3>2
      <4>. HIDE DEF row
      <4> QED
        BY <2>3, <3>2, <4>1, <4>2 DEF RemovedFirst
    <3> QED
      BY <2>10, <3>1, <3>2 DEF HandlerCleanup
  <2> QED
    BY <2>5, <2>6, <2>7, <2>8, <2>9, <2>10
<1>3. NoNewRequest /\ StayBegun /\ request' \in [Requests -> RequestRow] /\ OkIsRemoved'
  BY <1>0, <1>1, <1>2, RequestKept
<1>4. NobodyGoesOn
  BY <1>0 DEF NobodyGoesOn, GoesOn, vars
<1>5. Followed'
  BY <1>3, <1>4, FollowedKept DEF SandboxInv
<1>6. SandboxTyped' /\ CallsInTools'
  BY <1>0, <1>2, <1>3 DEF SandboxInv, SandboxTyped, CallsInTools, vars
<1> QED
  BY <1>3, <1>5, <1>6

\* A request that ends, with the answer its caller gets.
LEMMA AnswerKept ==
  ASSUME SandboxInv, NEW q \in Requests, Refuse(q) \/ HandlerEnds(q)
  PROVE  SandboxTyped' /\ Followed' /\ CallsInTools' /\ OkIsRemoved'
<1>0. /\ request \in [Requests -> RequestRow] /\ box \in [Requests -> Box] /\ request[q] \in RequestRow
      /\ call \in [Workers -> Call] /\ Followed
      /\ RemovedFirst(request[q], box[q]) /\ UNCHANGED vars /\ UNCHANGED box
  BY DEF SandboxInv, SandboxTyped, OkIsRemoved, Refuse, HandlerEnds
<1>1. request[q].phase \in {"sent", "kill"} /\ ~Free(q)
  BY DEF Refuse, HandlerEnds, Free
<1>2. PICK row \in RequestRow :
        request' = [request EXCEPT ![q] = row] /\ row.run = request[q].run /\ row.phase = "gone"
  <2>1. CASE Refuse(q)
    <3>. DEFINE ended == [request[q] EXCEPT !.phase = "gone"]
    <3>1. ended \in RequestRow /\ ended.run = request[q].run /\ ended.phase = "gone"
      BY <1>0 DEF RequestRow, RequestPhase
    <3>2. request' = [request EXCEPT ![q] = ended]
      BY <1>0, <2>1 DEF Refuse, Continue
    <3> QED
      BY <3>1, <3>2
  <2>2. CASE HandlerEnds(q)
    <3>. DEFINE ended == [request[q] EXCEPT !.phase = "gone", !.data = FALSE]
    <3>1. ended \in RequestRow /\ ended.run = request[q].run /\ ended.phase = "gone"
      BY <1>0 DEF RequestRow, RequestPhase
    <3>2. request' = [request EXCEPT ![q] = ended]
      BY <1>0, <2>2 DEF HandlerEnds
    <3> QED
      BY <3>1, <3>2
  <2> QED
    BY <2>1, <2>2
<1>3. NoNewRequest /\ StayBegun /\ request' \in [Requests -> RequestRow] /\ OkIsRemoved'
  <2>1. RemovedFirst(row, box'[q])
    BY <1>2 DEF RemovedFirst
  <2>2. /\ box' \in [Requests -> Box]
        /\ \A p \in Requests \ {q} : box'[p] = box[p] \/ box'[p] = "none"
    BY <1>0
  <2> QED
    BY <1>0, <1>1, <1>2, <2>1, <2>2, RequestKept
<1>4. PICK answer \in {"ok", "failed", "cleanup"} :
        Answer(q, answer) /\ (answer = "ok" => request[q].ok /\ request[q].phase = "kill")
  BY DEF Refuse, HandlerEnds
<1>. DEFINE answers == [w \in Workers |->
                          IF /\ call[w] = "open"
                             /\ task[w].run = request[q].run
                             /\ task[w].token = request[q].fence
                            THEN answer ELSE call[w]]
<1>5. call' = [w \in Workers |-> answers[w]]
  BY <1>4 DEF Answer
<1>6. answer = "ok" => Free(q)' /\ \A p \in Requests : request[p].run = request[q].run => Free(p)'
  <2>1. SUFFICES ASSUME answer = "ok", NEW p \in Requests, request[p].run = request[q].run
                 PROVE  Free(p)' /\ Free(q)'
    OBVIOUS
  <2>2. box[q] = "none"
    BY <1>0, <1>4, <2>1 DEF RemovedFirst
  <2>3. Free(q)'
    BY <1>0, <1>2, <2>2 DEF Free
  <2>4. p # q => Free(p)
    BY <1>0, <1>1, <2>1 DEF Followed, OneRequest
  <2> QED
    BY <1>3, <2>3, <2>4 DEF NoNewRequest
<1>7. \A w \in Workers :
        /\ answers[w] \in Call
        /\ answers[w] # call[w] => call[w] = "open" /\ answers[w] \notin {"none", "new", "clean"}
        /\ answers[w] = "ok" /\ call[w] # "ok" =>
             \A p \in Requests : request'[p].run = task[w].run => Free(p)'
  <2>1. ASSUME NEW w \in Workers, answers[w] # call[w]
        PROVE  call[w] = "open" /\ task[w].run = request[q].run /\ answers[w] = answer
    BY <2>1
  <2>2. ASSUME NEW w \in Workers PROVE answers[w] \in Call
    BY <1>0 DEF Call
  <2>3. \A p \in Requests : request'[p].run = request[p].run
    BY <1>3 DEF NoNewRequest
  <2>. HIDE DEF answers
  <2> QED
    BY <1>6, <2>1, <2>2, <2>3
<1>. HIDE DEF answers
<1>8. Followed' /\ CallsInTools' /\ call' \in [Workers -> Call]
  BY <1>0, <1>3, <1>5, <1>7, ToldKept
<1>9. SandboxTyped'
  BY <1>0, <1>3, <1>8 DEF SandboxTyped
<1> QED
  BY <1>3, <1>8, <1>9

\* The executor dies with all its handlers.
LEMMA DeathKept ==
  ASSUME SandboxInv, ExecutorDies
  PROVE  SandboxTyped' /\ Followed' /\ CallsInTools' /\ OkIsRemoved'
<1>0. /\ request \in [Requests -> RequestRow] /\ box \in [Requests -> Box]
      /\ call \in [Workers -> Call] /\ UNCHANGED vars /\ UNCHANGED box
  BY DEF SandboxInv, SandboxTyped, ExecutorDies
<1>1. \A q \in Requests : /\ request'[q] \in RequestRow
                          /\ request'[q].phase = "gone" /\ request'[q].run = request[q].run
  BY <1>0 DEF ExecutorDies, RequestRow, RequestPhase
<1>2. request' \in [Requests -> RequestRow]
  BY <1>1 DEF ExecutorDies
<1>3. NoNewRequest /\ StayBegun /\ OkIsRemoved'
  BY <1>0, <1>1 DEF NoNewRequest, Free, StayBegun, Begun, vars, OkIsRemoved, RemovedFirst
<1>. DEFINE answers == [w \in Workers |-> IF call[w] = "open" THEN "cleanup" ELSE call[w]]
<1>4. call' = [w \in Workers |-> answers[w]]
  BY DEF ExecutorDies
<1>5. \A w \in Workers :
        /\ answers[w] \in Call
        /\ answers[w] # call[w] => call[w] = "open" /\ answers[w] \notin {"none", "new", "clean"}
        /\ ~(answers[w] = "ok" /\ call[w] # "ok")
  BY <1>0 DEF Call
<1>. HIDE DEF answers
<1>6. Followed' /\ CallsInTools' /\ call' \in [Workers -> Call]
  BY <1>0, <1>3, <1>4, <1>5, ToldKept
<1>7. SandboxTyped'
  BY <1>0, <1>2, <1>6 DEF SandboxTyped
<1> QED
  BY <1>3, <1>6, <1>7

\* A container moves on, or is reaped.
LEMMA BoxKept ==
  ASSUME SandboxInv, NEW q \in Requests, Reap(q) \/ Created(q) \/ Executes(q) \/ Exits(q)
  PROVE  SandboxTyped' /\ Followed' /\ CallsInTools' /\ OkIsRemoved'
<1>0. /\ box \in [Requests -> Box] /\ OkIsRemoved /\ SandboxTyped /\ Followed /\ CallsInTools
      /\ UNCHANGED <<run, task, call, request>>
  BY DEF SandboxInv, SandboxTyped, Reap, Created, Executes, Exits, Becomes, vars
<1>1. PICK next \in Box : /\ box' = [box EXCEPT ![q] = next] /\ box[q] # "none"
                          /\ box[q] = "exited" => next = "none"
  BY DEF Reap, Created, Executes, Exits, Becomes, Box, Listed
<1>2. box'[q] = next /\ (\A p \in Requests \ {q} : box'[p] = box[p]) /\ box' \in [Requests -> Box]
  BY <1>0, <1>1
<1>3. NoNewRequest
  BY <1>0, <1>1, <1>2 DEF NoNewRequest, Free
<1>4. StayBegun /\ NobodyGoesOn
  BY <1>0 DEF StayBegun, Begun, NobodyGoesOn, GoesOn
<1>5. Followed'
  BY <1>0, <1>3, <1>4, FollowedKept
<1>6. OkIsRemoved'
  BY <1>0, <1>1, <1>2 DEF OkIsRemoved, RemovedFirst
<1>7. SandboxTyped' /\ CallsInTools'
  BY <1>0, <1>2 DEF SandboxTyped, CallsInTools
<1> QED
  BY <1>5, <1>6, <1>7

\* At first nobody calls.
LEMMA SandboxBegins == SandboxInit => SandboxInv
<1> SUFFICES ASSUME SandboxInit PROVE SandboxInv
  OBVIOUS
<1>1. Apart /\ task = [w \in Workers |-> IdleTask]
  BY ApartBegins DEF SandboxInit, Init
<1>2. NoRequest \in RequestRow /\ NoRequest.phase = "gone" /\ ~NoRequest.ok
  BY DEF NoRequest, RequestRow, RequestPhase
<1>3. \A q \in Requests : Free(q) /\ request[q] = NoRequest /\ box[q] = "none"
  BY <1>2 DEF SandboxInit, Free
<1>4. SandboxTyped
  BY <1>2 DEF SandboxInit, SandboxTyped, Call, Box
<1>5. Followed /\ OkIsRemoved
  BY <1>2, <1>3 DEF Followed, BusyBegun, OneRequest, NothingBehind, OkIsRemoved, RemovedFirst
<1>6. CallsInTools
  BY DEF SandboxInit, CallsInTools
<1> QED
  BY <1>1, <1>4, <1>5, <1>6 DEF SandboxInv

\* Every step keeps the invariant of the sandboxes.
LEMMA SandboxStep == Inv /\ SandboxInv /\ [SandboxNext]_sandboxVars => SandboxInv'
<1> SUFFICES ASSUME Inv, SandboxInv, [SandboxNext]_sandboxVars PROVE SandboxInv'
  OBVIOUS
<1>1. Apart'
  BY StepMaps, ApartStep DEF SandboxInv
<1> DEFINE Kept == SandboxTyped' /\ Followed' /\ CallsInTools' /\ OkIsRemoved'
<1>2. ASSUME \/ \E r \in Runs : UserStep(r) \/ TimePasses(r)
             \/ \E m \in Sweepers : SweeperProgress(m) \/ SweepAbandon(m)
             \/ Expire \/ UNCHANGED vars,
             UNCHANGED <<call, request>>,
             UNCHANGED box \/ \E r : Cleanup(r)
      PROVE  Kept
  <2>1. StayBegun /\ UNCHANGED <<task, call, request>>
    BY <1>2, OtherBegun
  <2>2. /\ box' \in [Requests -> Box]
        /\ \A q \in Requests : box'[q] = box[q] \/ box'[q] = "none"
    BY <1>2, CleanupKeeps DEF SandboxInv
  <2> QED
    BY <2>1, <2>2, ElsewhereKept
<1>3. ASSUME NEW w \in Workers, SandboxWorkerProgress(w) \/ SandboxAbandon(w) PROVE Kept
  BY <1>3, WorkerStays
<1>4. ASSUME NEW m \in Sweepers, SandboxSweeperProgress(m) PROVE Kept
  <2>1. /\ SweeperProgress(m) \/ SweepAbandon(m) \/ UNCHANGED vars
        /\ UNCHANGED <<call, request>> /\ (UNCHANGED box \/ Cleanup(sweep[m].run))
    BY <1>4, SweeperMaps DEF SandboxSweeperProgress, SweepCleanup, SandboxSweepEnds, Unsandboxed
  <2> QED
    BY <1>2, <2>1
<1>5. ASSUME NEW q \in Requests, RequestProgress(q) PROVE Kept
  BY <1>5, SilentKept, AnswerKept DEF RequestProgress
<1>6. ASSUME NEW q \in Requests, Reap(q) \/ Created(q) \/ Executes(q) \/ Exits(q) PROVE Kept
  BY <1>6, BoxKept
<1>7. ASSUME ExecutorDies PROVE Kept
  BY <1>7, DeathKept
<1>8. ASSUME UNCHANGED sandboxVars PROVE Kept
  <2>1. UNCHANGED vars /\ UNCHANGED <<call, request, box>>
    BY <1>8 DEF sandboxVars, vars
  <2> QED
    BY <1>2, <2>1
<1>9. ASSUME NEW r \in Runs, UserStep(r) \/ TimePasses(r), UNCHANGED call, Unsandboxed PROVE Kept
  BY <1>2, <1>9 DEF Unsandboxed
<1>10. ASSUME Expire, UNCHANGED call, Unsandboxed PROVE Kept
  BY <1>2, <1>10 DEF Unsandboxed
<1>11. Kept
  BY <1>3, <1>4, <1>5, <1>6, <1>7, <1>8, <1>9, <1>10 DEF SandboxNext
<1> QED
  BY <1>1, <1>11 DEF SandboxInv

\* For any number of workers, sweepers, runs and requests, and whatever dies, answers late or is
\* left behind: a run never has two containers, and what a worker was told succeeded left none.
THEOREM ContainersFollowEachOther == SandboxSpec => []OneCleanSandbox
<1>1. SandboxInv => OneCleanSandbox
  <2> SUFFICES ASSUME SandboxInv PROVE OneCleanSandbox
    OBVIOUS
  <2>1. OneSandbox
    BY DEF SandboxInv, Followed, OneRequest, Free, OneSandbox
  <2>2. ReportedClean
    BY DEF SandboxInv, Followed, NothingBehind, CallsInTools, GoesOn, Free, ReportedClean
  <2> QED
    BY <2>1, <2>2 DEF OneCleanSandbox
<1> QED
  BY <1>1, SandboxBegins, SandboxStep, SandboxSafety, PTL DEF SandboxSpec

=============================================================================
