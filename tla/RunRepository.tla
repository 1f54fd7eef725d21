---------------------------- MODULE RunRepository ----------------------------
(***************************************************************************)
(* The durable store of the agent hosting service: the transactions of     *)
(* hosting/repository.py that move a run through its life.                 *)
(*                                                                         *)
(* Every write transaction takes the row lock of the global capacity row   *)
(* first (Repository.tx), so each transaction is one atomic step here.     *)
(* A run is identified by the (user, idempotency key) pair of the request  *)
(* that created it: the unique index makes a repeated request return the   *)
(* row that exists.                                                        *)
(*                                                                         *)
(* Time is abstracted to what the transactions compare with the clock:     *)
(* whether a lease is live or expired, and which deadlines have passed.    *)
(* Messages, audit rows and the event log are left out.                    *)
(***************************************************************************)
EXTENDS Naturals, FiniteSets

CONSTANTS
  Users,
  Sessions,
  Runs,
  NoRun,          \* the null of agent_sessions.active_run_id
  OwnerOf,        \* agent_sessions.user_id
  SessionOf,      \* agent_runs.session_id
  MaxRunning,     \* capacity of the deployment
  UserRunning,    \* capacity of one user
  MaxWaiting,     \* queue length of the deployment
  UserWaiting     \* queue length of one user

ASSUME RepositoryAssumption ==
  /\ IsFiniteSet(Runs)
  /\ NoRun \notin Runs
  /\ OwnerOf \in [Sessions -> Users]
  /\ SessionOf \in [Runs -> Sessions]
  /\ MaxRunning \in Nat /\ UserRunning \in Nat
  /\ MaxWaiting \in Nat /\ UserWaiting \in Nat

VARIABLES
  run,            \* the rows of agent_runs, with the run's tool call and approval
  active          \* agent_sessions.active_run_id

repoVars == <<run, active>>

UserOf(r) == OwnerOf[SessionOf[r]]

-----------------------------------------------------------------------------
(* The states of a run. *)

Active   == {"running", "stopping"}
Waiting  == {"queued", "waiting_approval"}
Terminal == {"succeeded", "failed", "cancelled", "timed_out", "interrupted"}
Outcome  == Terminal
Status   == {"absent"} \union Waiting \union Active \union Terminal

\* The columns that run.stop_reason can hold: a run is never stopped as succeeded.
StopReason == {"none"} \union (Terminal \ {"succeeded"})

(* The deadlines of a run that have passed: queue_deadline, deadline_at and  *)
(* the expires_at of its pending approval, which is never after deadline_at. *)
Deadline == {"queue", "run", "approval"}

Row == [ status          : Status,
         fence           : Nat,
         lease           : {"none", "live", "expired"},
         overdue         : SUBSET Deadline,
         stopReason      : StopReason,
         approval        : {"none", "pending", "approved", "rejected", "expired"},
         tool            : {"none", "running", "done", "interrupted"} ]

Unborn == [ status |-> "absent", fence |-> 0, lease |-> "none", overdue |-> {},
            stopReason |-> "none", approval |-> "none", tool |-> "none" ]

RepoInit ==
  /\ run = [r \in Runs |-> Unborn]
  /\ active = [s \in Sessions |-> NoRun]

-----------------------------------------------------------------------------
(* Helpers that run inside a transaction. *)

In(states) == {r \in Runs : run[r].status \in states}

InOf(user, states) == {r \in In(states) : UserOf(r) = user}

\* Faulty: an off-by-one that counts the new run as free room.
WaitingSlotOffByOne(user) ==
  /\ Cardinality(InOf(user, Waiting)) <= UserWaiting
  /\ Cardinality(In(Waiting)) <= MaxWaiting

WaitingSlot(user) ==
  /\ Cardinality(InOf(user, Waiting)) < UserWaiting
  /\ Cardinality(In(Waiting)) < MaxWaiting

\* Faulty: an old token still passes.
GuardStoppingUnfenced(r, token) ==
  run[r].status \in Active /\ run[r].lease = "live"

\* guard(..., stopping=True): the caller still owns the run, which may be stopping.
GuardStopping(r, token) ==
  /\ run[r].fence = token
  /\ run[r].status \in Active
  /\ run[r].lease = "live"

\* guard(...): the caller still owns the run and may go on working on it.
Guard(r, token) ==
  /\ run[r].fence = token
  /\ run[r].status = "running"
  /\ run[r].lease = "live"
  /\ "run" \notin run[r].overdue

\* Faulty: the approval that the run waits for is left open.
ClosedButApproval(row, outcome) ==
  [row EXCEPT !.status = outcome,
              !.lease = "none",
              !.overdue = {},
              !.tool = IF @ = "running" THEN "interrupted" ELSE @]

\* The row that _finish leaves: no lease, no running tool, no pending approval.
\* Nothing compares the deadlines of a finished run with the clock again.
Closed(row, outcome) ==
  [row EXCEPT !.status = outcome,
              !.lease = "none",
              !.overdue = {},
              !.tool = IF @ = "running" THEN "interrupted" ELSE @,
              !.approval = IF @ = "pending" THEN "expired" ELSE @]

\* Faulty: the session keeps pointing at its finished run.
ReleasedNothing(X) == active

\* The sessions after _finish of the runs X: a session is released only by its own run.
Released(X) ==
  [s \in Sessions |-> IF active[s] \in X /\ SessionOf[active[s]] = s
                        THEN NoRun ELSE active[s]]

FinishAll(X, outcome) ==
  /\ run' = [r \in Runs |-> IF r \in X THEN Closed(run[r], outcome) ELSE run[r]]
  /\ active' = Released(X)

-----------------------------------------------------------------------------
(* Requests of a user, through the HTTP API. *)

\* Faulty: nobody looks whether the session is busy.
CreateRunBusy(r) ==
  /\ run[r].status = "absent"
  /\ WaitingSlot(UserOf(r))
  /\ run' = [run EXCEPT ![r].status = "queued"]
  /\ active' = [active EXCEPT ![SessionOf[r]] = r]

CreateRun(r) ==
  /\ run[r].status = "absent"
  /\ active[SessionOf[r]] = NoRun
  /\ WaitingSlot(UserOf(r))
  /\ run' = [run EXCEPT ![r].status = "queued"]
  /\ active' = [active EXCEPT ![SessionOf[r]] = r]

\* Faulty: the early return for a finished run is missing.
CancelAnything(r) ==
  \/ run[r].status \in Waiting /\ FinishAll({r}, "cancelled")
  \/ /\ run[r].status \notin Waiting \union {"absent", "stopping"}
     /\ run' = [run EXCEPT ![r].status = "stopping", ![r].stopReason = "cancelled"]
     /\ UNCHANGED active

Cancel(r) ==
  \/ /\ run[r].status \in Waiting
     /\ FinishAll({r}, "cancelled")
  \/ /\ run[r].status = "running"
     /\ run' = [run EXCEPT ![r].status = "stopping",
                           ![r].stopReason = "cancelled"]
     /\ UNCHANGED active

\* Erasing a message of the session cancels the session's run in the same way.
SuppressSource(r) == Cancel(r)

\* A decision that comes too late ends the run; a rejection cancels it; an
\* approval puts it back in the queue with a new queue deadline.
Approve(r, allow) ==
  /\ run[r].approval = "pending"
  /\ run[r].status = "waiting_approval"
  /\ \/ /\ run[r].overdue \intersect {"approval", "run"} # {}
        /\ FinishAll({r}, "timed_out")
     \/ /\ run[r].overdue \intersect {"approval", "run"} = {}
        /\ ~allow
        /\ run' = [run EXCEPT ![r] = Closed([@ EXCEPT !.approval = "rejected"], "cancelled")]
        /\ active' = Released({r})
     \/ /\ run[r].overdue \intersect {"approval", "run"} = {}
        /\ allow
        /\ run' = [run EXCEPT ![r].approval = "approved",
                              ![r].status = "queued",
                              ![r].overdue = @ \ {"queue"}]
        /\ UNCHANGED active

-----------------------------------------------------------------------------
(* Transactions of the process that executes the run, fenced by its token. *)

QueueExpired == {r \in In({"queued"}) : run[r].overdue \intersect {"queue", "run"} # {}}

\* Faulty: the limit of the user is forgotten.
DispatchableAny == In({"queued"}) \ QueueExpired

Dispatchable == {r \in In({"queued"}) \ QueueExpired :
                   Cardinality(InOf(UserOf(r), Active)) < UserRunning}

\* Faulty: the fence token is not advanced.
ClaimUnfenced(r, X) ==
  /\ Cardinality(In(Active)) < MaxRunning
  /\ r \in Dispatchable
  /\ X = {}
  /\ run' = [run EXCEPT ![r].status = "running", ![r].lease = "live"]
  /\ UNCHANGED active

\* claim returns r. X are the expired runs met before r in dispatch order, which
\* the same transaction times out.
ClaimRun(r, X) ==
  /\ Cardinality(In(Active)) < MaxRunning
  /\ r \in Dispatchable
  /\ X \subseteq QueueExpired
  /\ run' = [q \in Runs |->
               IF q \in X THEN Closed(run[q], "timed_out")
               ELSE IF q = r THEN [run[q] EXCEPT !.status = "running",
                                                 !.lease = "live",
                                                 !.fence = @ + 1]
               ELSE run[q]]
  /\ active' = Released(X)

\* claim returns nothing, having timed out every expired run it met.
ClaimNothing ==
  /\ Cardinality(In(Active)) < MaxRunning
  /\ Dispatchable = {}
  /\ QueueExpired # {}
  /\ FinishAll(QueueExpired, "timed_out")

\* Faulty: an expired lease is revived by a late heartbeat.
HeartbeatLate(r, token) ==
  /\ run[r].fence = token
  /\ run[r].status \in Active
  /\ run' = [run EXCEPT ![r].lease = "live"]
  /\ UNCHANGED active

Heartbeat(r, token) ==
  /\ GuardStopping(r, token)
  /\ run' = [run EXCEPT ![r].lease = "live"]
  /\ UNCHANGED active

Stop(r, token, reason) ==
  /\ GuardStopping(r, token)
  /\ run' = IF run[r].status = "stopping" THEN run
            ELSE [run EXCEPT ![r].status = "stopping", ![r].stopReason = reason]
  /\ UNCHANGED active

\* Faulty: the caller decides, whatever happened since.
FinishAsProposed(r, proposed) == proposed

\* finish decides the outcome itself: a run that was asked to stop, or is past
\* its deadline, does not take the outcome the caller proposes.
FinishOutcome(r, proposed) ==
  IF run[r].status = "stopping"
    THEN IF run[r].stopReason = "none" THEN "cancelled" ELSE run[r].stopReason
    ELSE IF "run" \in run[r].overdue THEN "timed_out" ELSE proposed

Finish(r, token, proposed) ==
  /\ GuardStopping(r, token)
  /\ FinishAll({r}, FinishOutcome(r, proposed))

ToolStart(r, token) ==
  /\ Guard(r, token)
  /\ run' = [run EXCEPT ![r].tool = "running"]
  /\ UNCHANGED active

ToolFinish(r, token) ==
  /\ GuardStopping(r, token)
  /\ run' = [run EXCEPT ![r].tool = IF @ = "running" THEN "done" ELSE @]
  /\ UNCHANGED active

\* The run leaves its worker and joins the waiting ones, which must have room.
WaitApproval(r, token) ==
  /\ Guard(r, token)
  /\ WaitingSlot(UserOf(r))
  /\ run' = [run EXCEPT ![r].status = "waiting_approval",
                        ![r].lease = "none",
                        ![r].approval = "pending",
                        ![r].overdue = @ \ {"approval"}]
  /\ UNCHANGED active

-----------------------------------------------------------------------------
(* Transactions of the maintenance pass. *)

LeaseLost(r) == run[r].status \in Active /\ run[r].lease = "expired"

\* Faulty: the reason of an earlier cancel or timeout is overwritten.
FenceOverReason(r, token) ==
  /\ LeaseLost(r)
  /\ run[r].fence = token
  /\ run' = [run EXCEPT ![r].status = "stopping",
                        ![r].stopReason = "interrupted",
                        ![r].fence = token + 1]
  /\ UNCHANGED active

\* Faulty: the run is marked but its worker keeps a valid token.
MarkExpired(r, token) ==
  /\ LeaseLost(r)
  /\ run[r].fence = token
  /\ run' = [run EXCEPT ![r].status = "stopping",
                        ![r].stopReason = IF @ = "none" THEN "interrupted" ELSE @]
  /\ UNCHANGED active

FenceExpired(r, token) ==
  /\ LeaseLost(r)
  /\ run[r].fence = token
  /\ run' = [run EXCEPT ![r].status = "stopping",
                        ![r].stopReason = IF @ = "none" THEN "interrupted" ELSE @,
                        ![r].fence = token + 1]
  /\ UNCHANGED active

RecoverOutcome(r) ==
  IF run[r].status = "stopping" /\ run[r].stopReason # "none"
    THEN run[r].stopReason ELSE "interrupted"

Recover(r, token) ==
  /\ LeaseLost(r)
  /\ run[r].fence = token
  /\ run' = [run EXCEPT ![r] = Closed([@ EXCEPT !.fence = token + 1], RecoverOutcome(r))]
  /\ active' = Released({r})

\* Faulty: only the queue is swept.
QueuedExpired == {r \in In({"queued"}) : "queue" \in run[r].overdue}

\* The waiting runs that expire_waiting times out, in one transaction.
WaitingExpired ==
  {r \in In({"queued"}) : "queue" \in run[r].overdue}
    \union {r \in In({"waiting_approval"}) : run[r].overdue \intersect {"approval", "run"} # {}}

ExpireWaiting ==
  /\ WaitingExpired # {}
  /\ FinishAll(WaitingExpired, "timed_out")

-----------------------------------------------------------------------------
(* The passing of time, seen by the next transaction. *)

LeaseExpires(r) ==
  /\ run[r].status \in Active
  /\ run[r].lease = "live"
  /\ run' = [run EXCEPT ![r].lease = "expired"]
  /\ UNCHANGED active

\* deadline_at is set by the first claim; when it passes, so have the queue
\* deadline and the approval expiry derived from it.
DeadlinePasses(r) ==
  /\ run[r].status \notin Terminal
  /\ run[r].fence > 0
  /\ "run" \notin run[r].overdue
  /\ run' = [run EXCEPT ![r].overdue = Deadline]
  /\ UNCHANGED active

QueueDeadlinePasses(r) ==
  /\ run[r].status = "queued"
  /\ "queue" \notin run[r].overdue
  /\ run' = [run EXCEPT ![r].overdue = @ \union {"queue"}]
  /\ UNCHANGED active

ApprovalExpires(r) ==
  /\ run[r].status = "waiting_approval"
  /\ "approval" \notin run[r].overdue
  /\ run' = [run EXCEPT ![r].overdue = @ \union {"approval"}]
  /\ UNCHANGED active

-----------------------------------------------------------------------------
\* Neither the deployment nor a user exceeds its running and waiting limits,
\* whatever the mix of claims, parked runs and approvals.
CapacityRespected ==
  /\ Cardinality(In(Active)) <= MaxRunning
  /\ Cardinality(In(Waiting)) <= MaxWaiting
  /\ \A u \in Users : /\ Cardinality(InOf(u, Active)) <= UserRunning
                      /\ Cardinality(InOf(u, Waiting)) <= UserWaiting

=============================================================================
