---------------------------- MODULE HostedSandbox ----------------------------
(***************************************************************************)
(* Shell tools in containers: the client of hosting/sandbox.py, which a    *)
(* worker and a maintenance pass use, the executor of hosting/executor.py  *)
(* and the Docker daemon behind it.                                        *)
(*                                                                         *)
(* The module details the tool calls and the cleanups of HostedRuns: every *)
(* step here is a step of that module or leaves its variables alone. A     *)
(* request is one call of POST /execute. It lives on in the executor when  *)
(* its caller gives up, and its container lives on when it ends. Docker    *)
(* creates a container some time after docker run was spawned, and lists   *)
(* it only then.                                                           *)
(*                                                                         *)
(* The host limit on containers, which depends on other runs, is an error  *)
(* that any call can meet. Outputs and snapshots are left out.             *)
(***************************************************************************)
EXTENDS HostedRuns

CONSTANT Requests

VARIABLES
  call,         \* what a worker knows of its shell call, or of its final cleanup
  swept,        \* whether a maintenance pass has its cleanup confirmed
  request,      \* the executions in the executor, until their container is gone
  box           \* the container of every request

sandboxVars == <<run, active, task, sweep, call, swept, request, box>>

-----------------------------------------------------------------------------
(* none     no shell call, or a tool that needs no sandbox                  *)
(* new      the tool is registered, the call is not yet sent                *)
(* open     the call waits for its response                                 *)
(* cleanup  the call was given up; its sandbox is being removed             *)
(* ok       the executor reported success                                   *)
(* failed   the call raised, or reported a failure: the run cannot succeed  *)
(* clean    the run is to be finished, and its sandbox is confirmed removed *)
Call == {"none", "new", "open", "cleanup", "ok", "failed", "clean"}

(* sent     on its way to the executor                                      *)
(* valid    admitted, and its right to run has been validated               *)
(* spawned  docker run is spawned, nothing is sent to it yet                *)
(* running  the command is sent; the watchdog validates every half second   *)
(* cleanup, kill  the two steps of the finally clause of execute            *)
(* gone     the handler has ended, or died with the executor                *)
RequestPhase == {"sent", "valid", "spawned", "running", "cleanup", "kill", "gone"}

\* data: the command is in the pipe to the container; ok: the result to report.
\* The command is sent after the second validation; success is known before the cleanup.
Request ==
  {x \in [phase : RequestPhase, run : Runs, fence : Nat, data : BOOLEAN, ok : BOOLEAN] :
     /\ x.phase \in {"sent", "valid", "spawned"} => ~x.data
     /\ x.phase \in {"sent", "valid", "spawned", "running"} => ~x.ok
     /\ x.ok => x.data \/ x.phase = "gone"}
NoRequest == [phase |-> "gone", run |-> NoRun, fence |-> 0, data |-> FALSE, ok |-> FALSE]

Listed == {"blocked", "executing", "exited"}
Box == {"none", "pending"} \union Listed

SandboxInit ==
  /\ Init
  /\ call = [w \in Workers |-> "none"]
  /\ swept = [m \in Sweepers |-> FALSE]
  /\ request = [q \in Requests |-> NoRequest]
  /\ box = [q \in Requests |-> "none"]

Free(q) == request[q].phase = "gone" /\ box[q] = "none"

\* Executor.cleanup removes what docker ps lists for the run. It confirms that
\* nothing is listed any more; a container that is still being created is not.
Removed(r) ==
  [q \in Requests |-> IF request[q].run = r /\ box[q] \in Listed THEN "none" ELSE box[q]]

\* Faulty: the caller takes an unanswered cleanup for a confirmed one.
CleanupUnconfirmed(r) == UNCHANGED box

Cleanup(r) == box' = Removed(r)

-----------------------------------------------------------------------------
(* The worker. *)

Unsandboxed == UNCHANGED <<swept, request, box>>

\* A registered tool is a shell call or any other tool.
SandboxStartTool(w) ==
  /\ call[w] = "none"
  /\ StartTool(w)
  /\ \E c \in {"none", "new"} :
       call' = [call EXCEPT ![w] = IF task'[w].phase = "tool" THEN c ELSE "none"]
  /\ Unsandboxed

\* Requests are numbers of calls: which one is free is of no matter.
Send(w) ==
  /\ call[w] = "new"
  /\ \E q \in Requests : Free(q)
  /\ LET q == CHOOSE p \in Requests : Free(p) IN
     request' = [request EXCEPT ![q] = [phase |-> "sent", run |-> task[w].run, fence |-> task[w].token,
                                        data |-> FALSE, ok |-> FALSE]]
  /\ call' = [call EXCEPT ![w] = "open"]
  /\ UNCHANGED <<vars, swept, box>>

\* What SandboxClient.execute does when its work is cancelled: it removes the sandbox,
\* unless it was doing so already and is interrupted in that.
GiveUp(c) ==
  CASE c \in {"new", "open"} -> "cleanup" [] c = "cleanup" -> "failed" [] OTHER -> c

SandboxStopped(w) ==
  /\ SupervisorStops(w) \/ ToolInterrupted(w)
  /\ call' = [call EXCEPT ![w] = IF task[w].phase = "tool" THEN GiveUp(@) ELSE "none"]
  /\ Unsandboxed

\* A timeout or a transport error.
CallBreaks(w) ==
  /\ call[w] \in {"new", "open"}
  /\ call' = [call EXCEPT ![w] = "cleanup"]
  /\ UNCHANGED <<vars, swept, request, box>>

\* The cleanup that follows; its own error replaces the first one.
CallCleanup(w) ==
  /\ call[w] = "cleanup"
  /\ Cleanup(task[w].run) \/ UNCHANGED box
  /\ call' = [call EXCEPT ![w] = "failed"]
  /\ UNCHANGED <<vars, swept, request>>

\* A shell call that failed leaves the pipeline no way to go on.
SandboxToolEnds(w) ==
  /\ call[w] \in {"none", "ok", "failed"}
  /\ ToolEnds(w)
  /\ call' = [call EXCEPT ![w] = IF @ = "failed" /\ task'[w].phase = "work"
                                   THEN "failed" ELSE "none"]
  /\ Unsandboxed

SandboxWorkEnds(w) ==
  /\ WorkEnds(w)
  /\ call[w] = "failed" => task'[w].outcome # "succeeded"
  /\ call' = [call EXCEPT ![w] = "none"]
  /\ Unsandboxed

SandboxAskApproval(w) ==
  /\ call[w] = "none"
  /\ AskApproval(w)
  /\ UNCHANGED call /\ Unsandboxed

\* The cleanup before finish; if it raises, the task is abandoned.
FinalCleanup(w) ==
  /\ task[w].phase = "finish"
  /\ call[w] = "none"
  /\ Cleanup(task[w].run)
  /\ call' = [call EXCEPT ![w] = "clean"]
  /\ UNCHANGED <<vars, swept, request>>

SandboxFinishRun(w) ==
  /\ call[w] = "clean"
  /\ FinishRun(w)
  /\ call' = [call EXCEPT ![w] = "none"]
  /\ Unsandboxed

SandboxAbandon(w) ==
  /\ Abandon(w)
  /\ call' = [call EXCEPT ![w] = "none"]
  /\ Unsandboxed

-----------------------------------------------------------------------------
(* The maintenance pass. *)

SweepCleanup(m) ==
  /\ sweep[m].phase = "recover"
  /\ ~swept[m]
  /\ Cleanup(sweep[m].run)
  /\ swept' = [swept EXCEPT ![m] = TRUE]
  /\ UNCHANGED <<vars, call, request>>

SandboxSweepEnds(m) ==
  /\ (swept[m] /\ SweepRecover(m)) \/ SweepAbandon(m)
  /\ swept' = [swept EXCEPT ![m] = FALSE]
  /\ UNCHANGED <<call, request, box>>

-----------------------------------------------------------------------------
(* The executor. *)

\* Executor.validate: the caller owns the run, may go on, and registered the tool.
Valid(q) ==
  /\ Guard(request[q].run, request[q].fence)
  /\ run[request[q].run].tool = "running"

Continue(q, phase) == request' = [request EXCEPT ![q].phase = phase]

\* The caller's answer, if it still waits for one. On a response that is an error it removes
\* the sandbox, as it does when there is none.
Answer(q, answer) ==
  call' = [w \in Workers |->
             IF /\ call[w] = "open"
                /\ task[w].run = request[q].run
                /\ task[w].token = request[q].fence
               THEN answer ELSE call[w]]

\* The host limit: nothing was started, so nothing is cleaned up.
Refuse(q) ==
  /\ request[q].phase = "sent"
  /\ Continue(q, "gone")
  /\ Answer(q, "cleanup")
  /\ UNCHANGED <<vars, swept, box>>

Admit(q) ==
  /\ request[q].phase = "sent"
  /\ Continue(q, IF Valid(q) THEN "valid" ELSE "cleanup")
  /\ UNCHANGED <<vars, call, swept, box>>

Spawn(q) ==
  /\ request[q].phase = "valid"
  /\ \/ Continue(q, "spawned") /\ box' = [box EXCEPT ![q] = "pending"]
     \/ Continue(q, "cleanup") /\ UNCHANGED box
  /\ UNCHANGED <<vars, call, swept>>

Recheck(q) ==
  /\ request[q].phase = "spawned"
  /\ IF Valid(q)
       THEN request' = [request EXCEPT ![q].phase = "running", ![q].data = TRUE]
       ELSE Continue(q, "cleanup")
  /\ UNCHANGED <<vars, call, swept, box>>

\* The watchdog, the timeout, docker run failing, or a command that did not succeed.
Fails(q) ==
  /\ request[q].phase = "running"
  /\ Continue(q, "cleanup")
  /\ UNCHANGED <<vars, call, swept, box>>

\* Faulty: the caller is answered before the container is removed.
AnswersEarly(q) ==
  /\ request[q].phase = "running"
  /\ box[q] = "exited"
  /\ Guard(request[q].run, request[q].fence)
  /\ request' = [request EXCEPT ![q].phase = "kill", ![q].ok = TRUE]
  /\ UNCHANGED <<vars, call, swept, box>>

\* The command succeeded and its snapshot is recorded under the caller's token.
Succeeds(q) ==
  /\ request[q].phase = "running"
  /\ box[q] = "exited"
  /\ Guard(request[q].run, request[q].fence)
  /\ request' = [request EXCEPT ![q].phase = "cleanup", ![q].ok = TRUE]
  /\ UNCHANGED <<vars, call, swept, box>>

HandlerCleanup(q) ==
  /\ request[q].phase = "cleanup"
  /\ \/ Cleanup(request[q].run) /\ Continue(q, "kill")
     \/ /\ request' = [request EXCEPT ![q].phase = "kill", ![q].ok = FALSE]
        /\ UNCHANGED box
  /\ UNCHANGED <<vars, call, swept>>

\* docker run is killed with what it has not yet passed on, and the caller gets its answer:
\* the result, of a command that may have failed, or the error that was raised.
HandlerEnds(q) ==
  /\ request[q].phase = "kill"
  /\ request' = [request EXCEPT ![q].phase = "gone", ![q].data = FALSE]
  /\ \E answer \in (IF request[q].ok THEN {"ok"} ELSE {"failed", "cleanup"}) : Answer(q, answer)
  /\ UNCHANGED <<vars, swept, box>>

\* The executor is restarted: its handlers are gone, docker run and containers are not.
ExecutorDies ==
  /\ request' = [q \in Requests |-> [request[q] EXCEPT !.phase = "gone"]]
  /\ call' = [w \in Workers |-> IF call[w] = "open" THEN "cleanup" ELSE call[w]]
  /\ UNCHANGED <<vars, swept, box>>

\* Faulty: docker ps without -a lists only what is running.
OrphanedRunning(q) == box[q] = "executing" /\ ~Guard(request[q].run, request[q].fence)

\* The reaper removes a container whose run is no longer executed under its token.
\* It also does when the store is down or the container's deadline has passed.
Orphaned(q) == box[q] \in Listed /\ ~Guard(request[q].run, request[q].fence)

Reap(q) ==
  /\ box[q] \in Listed
  /\ box' = [box EXCEPT ![q] = "none"]
  /\ UNCHANGED <<vars, call, swept, request>>

-----------------------------------------------------------------------------
(* Docker. *)

Becomes(q, from, to) ==
  /\ box[q] = from
  /\ box' = [box EXCEPT ![q] = to]
  /\ UNCHANGED <<vars, call, swept, request>>

Created(q) == Becomes(q, "pending", "blocked") \/ Becomes(q, "pending", "none")

\* The container starts and waits until it gets its command.
Executes(q) == request[q].data /\ Becomes(q, "blocked", "executing")

Exits(q) == Becomes(q, "executing", "exited")

-----------------------------------------------------------------------------
RequestProgress(q) ==
  \/ Refuse(q) \/ Admit(q) \/ Spawn(q) \/ Recheck(q) \/ Fails(q) \/ Succeeds(q)
  \/ HandlerCleanup(q) \/ HandlerEnds(q)

SandboxWorkerProgress(w) ==
  \/ (ClaimTask(w) \/ ClaimNone(w) \/ Renew(w) \/ StopRun(w)) /\ UNCHANGED call /\ Unsandboxed
  \/ SandboxStartTool(w) \/ Send(w) \/ SandboxStopped(w)
  \/ CallBreaks(w) \/ CallCleanup(w) \/ SandboxToolEnds(w)
  \/ SandboxWorkEnds(w) \/ SandboxAskApproval(w)
  \/ FinalCleanup(w) \/ SandboxFinishRun(w)

SandboxSweeperProgress(m) ==
  \/ (SweepRead(m) \/ SweepFence(m)) /\ UNCHANGED call /\ Unsandboxed
  \/ SweepCleanup(m) \/ SandboxSweepEnds(m)

SandboxNext ==
  \/ \E r \in Runs : (UserStep(r) \/ TimePasses(r)) /\ UNCHANGED call /\ Unsandboxed
  \/ \E w \in Workers : SandboxWorkerProgress(w) \/ SandboxAbandon(w)
  \/ \E m \in Sweepers : SandboxSweeperProgress(m)
  \/ Expire /\ UNCHANGED call /\ Unsandboxed
  \/ \E q \in Requests : RequestProgress(q) \/ Reap(q) \/ Created(q) \/ Executes(q) \/ Exits(q)
  \/ ExecutorDies

SandboxSpec == SandboxInit /\ [][SandboxNext]_sandboxVars

-----------------------------------------------------------------------------
(* Properties. *)

SandboxTypeOK ==
  /\ TypeOK
  /\ call \in [Workers -> Call]
  /\ swept \in [Sweepers -> BOOLEAN]
  /\ request \in [Requests -> Request \union {NoRequest}]
  /\ box \in [Requests -> Box]

\* A run never has two containers, not even one left by a worker that was fenced
\* or died and one of its successor: a shell step is never started again while an
\* earlier attempt may still be running.
OneSandbox ==
  \A q1, q2 \in Requests :
    box[q1] # "none" /\ box[q2] # "none" /\ request[q1].run = request[q2].run => q1 = q2

\* A worker goes on with the output of a command only after the container that
\* produced it is gone, so that parking the run leaves none behind.
ReportedClean ==
  \A w \in Workers, q \in Requests :
    call[w] = "ok" /\ request[q].run = task[w].run => box[q] = "none"

\* Whatever is retried, fenced or answered late, the containers of a run follow each other
\* (Executor.shell, cleanup).
OneCleanSandbox == OneSandbox /\ ReportedClean

\* The hosting documentation: after a cancel or a timeout the containers are stopped
\* and their removal is confirmed, and then the capacity of the run is released.
\* (For a run that is ended by its own worker: nobody has fenced it.)
StoppedBeforeRelease ==
  \A q \in Requests :
    box[q] = "executing" /\ run[request[q].run].fence = request[q].fence
      => run[request[q].run].status \in Active

-----------------------------------------------------------------------------
(* Liveness. Time passes, except that a live worker may renew a lease; every *)
(* step of the supervisor, of the executor and of a cleanup has a timeout;   *)
(* Docker creates a container or refuses to; the reaper runs every second    *)
(* and the maintenance pass every five, in one of the worker processes.      *)
(* Nothing is assumed of users, of the pipeline or of the dispatch of runs.  *)

RunTime(r) ==
  /\ \/ LeaseExpires(r) /\ ~Renewed(r)
     \/ DeadlinePasses(r) \/ QueueDeadlinePasses(r) \/ ApprovalExpires(r)
  /\ UNCHANGED <<task, sweep, call>> /\ Unsandboxed

CallEnds(w) == CallBreaks(w) \/ CallCleanup(w) \/ SandboxToolEnds(w)

RunEnds(w) ==
  \/ StopRun(w) /\ UNCHANGED call /\ Unsandboxed
  \/ FinalCleanup(w) \/ SandboxFinishRun(w)

SweepGoesOn(m) ==
  \/ (SweepRead(m) \/ SweepFence(m)) /\ UNCHANGED call /\ Unsandboxed
  \/ SweepCleanup(m)
  \/ swept[m] /\ SweepRecover(m) /\ SandboxSweepEnds(m)

SandboxFairness ==
  /\ \A q \in Requests : /\ WF_sandboxVars(RequestProgress(q))
                          /\ WF_sandboxVars(Created(q))
                          /\ WF_sandboxVars(Orphaned(q) /\ Reap(q))
  /\ \A w \in Workers : /\ WF_sandboxVars(SandboxStopped(w))
                         /\ WF_sandboxVars(CallEnds(w))
                         /\ WF_sandboxVars(RunEnds(w))
  /\ \A r \in Runs : WF_sandboxVars(RunTime(r))
  /\ WF_sandboxVars(Expire /\ UNCHANGED call /\ Unsandboxed)
  /\ \A m \in Sweepers : WF_sandboxVars(SweepGoesOn(m))

FairSandboxSpec == SandboxSpec /\ SandboxFairness

\* Whatever crashes - the worker, the executor, both - and however late Docker
\* creates it, every container is removed some day.
SandboxesVanish ==
  \A q \in Requests : box[q] # "none" ~> box[q] = "none"

=============================================================================
