------------------------------- MODULE StudioJobs -------------------------------
(* The jobs of the merchant studio: they are queued by requests (routes/studio.routes.ts, *)
(* studio/store.ts), worked off by processes under leases (studio/worker.ts) and need     *)
(* calls of the Python service that are paid (api/studio.py, api/video.py). A worker may  *)
(* be slow or die at any point, a reply may be lost after the provider took the order.    *)
EXTENDS Naturals, Sequences, FiniteSets

CONSTANTS StudioWorkers,
          Orders,       \* what merchants ask for: kinds of jobs, in the order of their rows
          QueryLimit,   \* claims of a video before it is left to an operator
          MaxActive,    \* jobs of a brand at a time
          MaxRetries,   \* bound: of a job, by the number of jobs there are
          NoWorker

ASSUME StudioAssumption ==
  /\ Orders \subseteq Seq({"text", "analysis", "image", "video"})
  /\ IsFiniteSet(StudioWorkers) /\ QueryLimit \in Nat /\ NoWorker \notin StudioWorkers

VARIABLES jobs,     \* the rows of merchant_studio_jobs, and what their requests saw
          task,     \* the provider's task of a video
          changed,  \* jobs whose scheme was changed or whose permission was revoked
          studio,   \* what each worker does
          billed,   \* how often the order of a job reached the provider
          outputs,  \* how often its result was stored
          retries

studioVars == <<jobs, task, changed, studio, billed, outputs, retries>>

Jobs == DOMAIN jobs
Media(j) == jobs[j].kind \in {"image", "video"}  \* orders that are not repeated
AtRest == [at |-> "idle", job |-> 0, seen |-> 0]
StudioInit ==
  /\ \E order \in Orders :
       jobs = [j \in DOMAIN order |-> [kind |-> order[j], status |-> "none", holder |-> NoWorker,
                                       leased |-> FALSE, attempts |-> 0, known |-> FALSE]]
  /\ task = [j \in Jobs |-> "none"] /\ changed = {}
  /\ studio = [w \in StudioWorkers |-> AtRest]
  /\ billed = [j \in Jobs |-> 0] /\ outputs = [j \in Jobs |-> 0] /\ retries = [j \in Jobs |-> 0]

Pending == {"queued", "running", "submitted", "submission_unknown"}
Claimed == {studio[w].job : w \in {x \in StudioWorkers : studio[x].at = "claiming"}}  \* rows that are locked
Sets(j, row) == jobs' = [jobs EXCEPT ![j] = row]
Works(w, at) == studio' = [studio EXCEPT ![w].at = at]
Rests(w) == studio' = [studio EXCEPT ![w] = AtRest]

--------------------------------------------------------------------------------
(* What merchants do *)

\* What a request must not find in its session: a video or an image that is pending, or, for a
\* text, a text or an image that is not over. Each asset is analysed once.
InTheWay(j) ==
  CASE jobs[j].kind = "text" -> {k \in Jobs : jobs[k].kind \in {"text", "image"} /\ jobs[k].status \in {"queued", "running"}}
    [] Media(j) -> {k \in Jobs : jobs[k].kind = jobs[j].kind /\ jobs[k].status \in Pending}
    [] OTHER -> {}
\* The request of an image has looked, and locks the session afterwards.
AskJob(j) ==
  /\ jobs[j].status = "none" /\ jobs[j].kind = "image" /\ InTheWay(j) = {}
  /\ Sets(j, [jobs[j] EXCEPT !.status = "asked"])
  /\ UNCHANGED <<task, changed, studio, billed, outputs, retries>>
\* A text or a video looks while it holds the lock of the session.
QueueJob(j) ==
  /\ \/ jobs[j].status = "asked"
     \/ jobs[j].status = "none" /\ jobs[j].kind # "image" /\ InTheWay(j) = {}
  /\ Sets(j, [jobs[j] EXCEPT !.status = "queued"])
  /\ UNCHANGED <<task, changed, studio, billed, outputs, retries>>

CancelJob(j) ==
  /\ jobs[j].status = "queued" /\ j \notin Claimed
  /\ Sets(j, [jobs[j] EXCEPT !.status = "cancelled"])
  /\ UNCHANGED <<task, changed, studio, billed, outputs, retries>>

\* Only what is known to have failed; a video goes on being asked for, it is not ordered again.
MayRetry(j) == jobs[j].status = "failed" /\ (jobs[j].kind = "video" => jobs[j].known)
RetryJob(j) ==
  /\ MayRetry(j) /\ retries[j] < MaxRetries[Len(jobs)]
  /\ Sets(j, [jobs[j] EXCEPT !.status = IF jobs[j].known THEN "submitted" ELSE "queued",
                             !.holder = NoWorker, !.leased = FALSE, !.attempts = 0])
  /\ retries' = [retries EXCEPT ![j] = @ + 1]
  /\ UNCHANGED <<task, changed, studio, billed, outputs>>

\* The scheme is edited, the authorization is over, or the permission is withdrawn.
Withdraw(j) ==
  /\ j \notin changed /\ jobs[j].status \in Pending /\ changed' = changed \union {j}
  /\ UNCHANGED <<jobs, task, studio, billed, outputs, retries>>

--------------------------------------------------------------------------------
(* Leases *)

Expire(j) ==
  /\ jobs[j].leased /\ Sets(j, [jobs[j] EXCEPT !.leased = FALSE])
  /\ UNCHANGED <<task, changed, studio, billed, outputs, retries>>

\* What becomes of a job whose worker lost its lease: an order that may have been placed is
\* not placed again.
Requeued(j) == IF jobs[j].attempts < 2 THEN "queued" ELSE "failed"
Interrupted(j) ==
  IF Media(j) THEN "submission_unknown" ELSE IF jobs[j].attempts < 2 THEN "queued" ELSE "failed"
Swept == [j \in Jobs |-> IF jobs[j].status = "running" /\ ~jobs[j].leased
                         THEN [jobs[j] EXCEPT !.status = Interrupted(j), !.holder = NoWorker] ELSE jobs[j]]

\* claim: the first row that is due and not locked, and how many are active in the snapshot
\* of the transaction.
Due(rows) == {j \in Jobs \ Claimed : rows[j].status \in {"queued", "submitted"} /\ ~rows[j].leased}
ActiveJobs(rows) == Cardinality({j \in Jobs : rows[j].status \in {"running", "submitted"} /\ rows[j].leased})
LookForJob(w) ==
  /\ studio[w].at = "idle" /\ jobs' = Swept
  /\ LET due == Due(Swept) IN
     IF due = {} THEN UNCHANGED studio
     ELSE \E first \in due :
       /\ \A k \in due : first <= k
       /\ studio' = [studio EXCEPT ![w] = [at |-> "claiming", job |-> first, seen |-> ActiveJobs(Swept)]]
  /\ UNCHANGED <<task, changed, billed, outputs, retries>>

ClaimJob(w) ==
  LET j == studio[w].job row == jobs[j] IN
  /\ studio[w].at = "claiming"
  /\ \/ j \in changed /\ Sets(j, [row EXCEPT !.status = "blocked"]) /\ Rests(w)
     \/ studio[w].seen >= MaxActive /\ Rests(w) /\ UNCHANGED jobs
     \/ /\ studio[w].seen < MaxActive
        /\ IF row.status = "submitted" /\ row.attempts >= QueryLimit
           THEN Sets(j, [row EXCEPT !.status = "failed"]) /\ Rests(w)
           ELSE /\ Sets(j, [row EXCEPT !.status = IF @ = "queued" THEN "running" ELSE @,
                              !.holder = w, !.leased = TRUE, !.attempts = @ + 1])
                /\ Works(w, IF row.status = "submitted" THEN "asking" ELSE "ordering")
  /\ UNCHANGED <<task, changed, billed, outputs, retries>>

--------------------------------------------------------------------------------
(* tick *)

\* Only the holder of a lease writes, whatever it found out; without the permission the
\* job is blocked, but the task of the provider is kept.
Holds(w, j) == jobs[j].holder = w /\ jobs[j].leased
Report(w, j, status, known) ==
  /\ IF Holds(w, j)
     THEN \E s \in {status} \union (IF j \in changed THEN {"blocked"} ELSE {}) :
            Sets(j, [jobs[j] EXCEPT !.status = s, !.holder = NoWorker, !.leased = s = "submitted",
                                    !.known = @ \/ known])
     ELSE UNCHANGED jobs
  /\ Rests(w)

\* Before a video is ordered, and before a text is generated from the material, the
\* authorization, the scheme and the request are looked at again.
RejectJob(w) ==
  /\ studio[w].at = "ordering" /\ studio[w].job \in changed
  /\ Report(w, studio[w].job, IF jobs[studio[w].job].kind = "image" THEN "submission_unknown" ELSE "failed", FALSE)
  /\ UNCHANGED <<task, changed, billed, outputs, retries>>

\* The service refuses it, the gate is busy, or the material cannot be searched: nothing
\* was ordered, but for a video or an image the worker does not know.
Unanswered(j) == IF Media(j) THEN "submission_unknown" ELSE "failed"
OrderRefused(w) ==
  /\ studio[w].at = "ordering"
  /\ Report(w, studio[w].job, Unanswered(studio[w].job), FALSE)
  /\ UNCHANGED <<task, changed, billed, outputs, retries>>

\* The order reaches the provider.
PlaceOrder(w) ==
  LET j == studio[w].job IN
  /\ studio[w].at = "ordering" /\ (jobs[j].kind = "video" => j \notin changed)
  /\ billed' = [billed EXCEPT ![j] = @ + 1]
  /\ task' = [task EXCEPT ![j] = IF jobs[j].kind = "video" THEN "running" ELSE @]
  /\ Works(w, "ordered")
  /\ UNCHANGED <<jobs, changed, outputs, retries>>

\* The time is over, the reply is lost, broken, or not what was asked for.
OrderFails(w) ==
  /\ studio[w].at = "ordered"
  /\ Report(w, studio[w].job, Unanswered(studio[w].job), FALSE)
  /\ UNCHANGED <<task, changed, billed, outputs, retries>>

VideoOrdered(w) ==
  /\ studio[w].at = "ordered" /\ jobs[studio[w].job].kind = "video"
  /\ Report(w, studio[w].job, "submitted", TRUE)
  /\ UNCHANGED <<task, changed, billed, outputs, retries>>

ResultArrives(w) ==
  /\ studio[w].at = "ordered" /\ jobs[studio[w].job].kind # "video" /\ Works(w, "storing")
  /\ UNCHANGED <<jobs, task, changed, billed, outputs, retries>>

RenderVideo(j) ==
  /\ task[j] = "running" /\ \E end \in {"succeeded", "failed"} : task' = [task EXCEPT ![j] = end]
  /\ UNCHANGED <<jobs, changed, studio, billed, outputs, retries>>

\* A video is asked for; a failure of the question, or of the download, changes nothing.
AskForVideo(w) ==
  LET j == studio[w].job IN
  /\ studio[w].at = "asking"
  /\ \/ task[j] = "succeeded" /\ Works(w, "storing") /\ UNCHANGED jobs
     \/ task[j] = "failed" /\ Report(w, j, "failed", FALSE)
     \/ Report(w, j, "submitted", FALSE)
  /\ UNCHANGED <<task, changed, billed, outputs, retries>>

\* One transaction stores the result and ends the job. It fails when the permission is
\* withdrawn, or, for a text, its material has changed.
StoreResult(w) ==
  LET j == studio[w].job IN
  /\ studio[w].at = "storing"
  /\ \/ /\ Holds(w, j)
        /\ Sets(j, [jobs[j] EXCEPT !.status = "succeeded", !.holder = NoWorker, !.leased = FALSE])
        /\ outputs' = [outputs EXCEPT ![j] = @ + 1] /\ Rests(w)
     \/ /\ Report(w, j, IF jobs[j].kind = "video" THEN "submitted" ELSE Unanswered(j), FALSE)
        /\ UNCHANGED outputs
  /\ UNCHANGED <<task, changed, billed, retries>>

KillStudio(w) ==
  /\ studio[w].at # "idle" /\ Rests(w)
  /\ UNCHANGED <<jobs, task, changed, billed, outputs, retries>>

StudioNext ==
  \/ \E j \in Jobs : AskJob(j) \/ QueueJob(j) \/ CancelJob(j) \/ RetryJob(j) \/ Withdraw(j) \/ Expire(j) \/ RenderVideo(j)
  \/ \E w \in StudioWorkers :
       \/ LookForJob(w) \/ ClaimJob(w) \/ RejectJob(w) \/ OrderRefused(w) \/ PlaceOrder(w) \/ OrderFails(w)
       \/ VideoOrdered(w) \/ ResultArrives(w) \/ AskForVideo(w) \/ StoreResult(w) \/ KillStudio(w)
StudioSpec == StudioInit /\ [][StudioNext]_studioVars

--------------------------------------------------------------------------------
\* An image or a video is ordered once, whoever was slow, died, was told nothing or tried
\* again; a text is generated at most twice for each time its merchant asked. What is
\* reported as failed or cancelled, with no task to go on with, was never ordered.
OrderedOnce ==
  \A j \in Jobs :
    /\ billed[j] <= IF Media(j) THEN 1 ELSE 2 * (1 + retries[j])
    /\ Media(j) /\ jobs[j].status \in {"failed", "cancelled"} /\ ~jobs[j].known => billed[j] = 0

\* A job has one result, and has it exactly when it succeeded.
StoredOnce == \A j \in Jobs : outputs[j] = IF jobs[j].status = "succeeded" THEN 1 ELSE 0

\* Two texts, or two videos, of a session are only under way together when one that had failed
\* was tried again: a second click, or another scheme of the session, is refused meanwhile. Of
\* images there may be two, because their check comes before the lock (studio.routes.ts:232-234).
UnderWay(j) == jobs[j].status \in IF jobs[j].kind = "text" THEN {"queued", "running"} ELSE Pending
OneAtATime ==
  \A j, k \in Jobs :
    j # k /\ jobs[j].kind = jobs[k].kind /\ jobs[j].kind \in {"text", "video"} /\ UnderWay(j) /\ UnderWay(k)
      => retries[j] + retries[k] > 0

\* What a merchant asked for is ordered once and kept once, and not asked for twice.
OrderedAndKeptOnce == OrderedOnce /\ StoredOnce /\ OneAtATime
=============================================================================
