----------------------------- MODULE AgentMemory -----------------------------
(***************************************************************************)
(* The durable memory of the agent: memory/repository.py and the           *)
(* extraction jobs of memory/jobs.py.                                      *)
(*                                                                         *)
(* One user, one preference field. Runs are numbered in the order of       *)
(* created_at; a run stands for its two messages as well, so a watermark   *)
(* is the number of a run. Text is the set of the runs it was made from.   *)
(* Every transaction takes the global row lock first and is one step.      *)
(***************************************************************************)
EXTENDS Naturals, FiniteSets

CONSTANTS
  NRuns,         \* bound on the runs
  Sessions,
  SessionOf,     \* the session of every run
  Values,        \* the values of the preference field
  Says,          \* the lasting preference that the user states in a run, or NoValue
  NoValue,
  Workers,       \* worker processes; each has one memory task
  Editors,       \* open pages in which the user edits what is remembered
  MaxAttempts,   \* 5 in the code
  MaxActs        \* bound on the requests of the user, decisions apart

Runs == 1..NRuns

ASSUME MemoryAssumption ==
  /\ NRuns \in Nat /\ MaxAttempts \in Nat \ {0}
  /\ SessionOf \in [Runs -> Sessions]
  /\ NoValue \notin Values
  /\ Says \in [Runs -> Values \union {NoValue}]

VARIABLES
  run,        \* of a run: absent, active, stopping, or over
  erased,     \* the messages that were erased: <<run, role>>
  cutoff,     \* of a session: the runs created before its last erasure
  job,        \* the extraction job of a run
  summary,    \* the summary entry of a session
  pref,       \* the row of the preference
  revisions,  \* the runs that a readable revision of the preference names
  drafts,     \* the runs that a readable revision of a session's summary was made from
  candidate,  \* of a run: the preference that awaits, or got, a confirmation
  cleared,    \* history: the sessions whose summary the user cleared
  seen,       \* of an editor: the row of the preference it shows, or nothing
  task,       \* the memory task of a worker process
  acts        \* bound: the requests so far

store == <<run, erased, cutoff, job, summary, pref, revisions, drafts, candidate>>
memoryVars == <<store, cleared, seen, task, acts>>

Role == {"user", "assistant"}
JobStatus == {"none", "pending", "running", "retry", "dead", "succeeded"}

\* lease is whether lease_until lies in the future.
Job == [status : JobStatus, attempts : 0..MaxAttempts, token : Nat, lease : BOOLEAN]
NoJob == [status |-> "none", attempts |-> 0, token |-> 0, lease |-> FALSE]

\* A row that is not active has an empty text.
Entry == {x \in [status : {"none", "active", "revoked"}, text : SUBSET Runs, mark : 0..NRuns] :
            x.status # "active" => x.text = {}}
NoEntry == [status |-> "none", text |-> {}, mark |-> 0]

\* version 0: no row. upTo: the runs created by source_order. A revoked row has no value.
Pref == [version : Nat, value : Values \union {NoValue}, source : 0..NRuns, upTo : 0..NRuns]
NoPref == [version |-> 0, value |-> NoValue, source |-> 0, upTo |-> 0]

\* claimed: the job is claimed; read: its source and the summary are read; extract: no
\* earlier job is pending; commit: the model has answered and the source is read again.
Phase == {"idle", "claimed", "read", "extract", "commit", "fail"}
Task ==
  {x \in [phase : Phase, run : 0..NRuns, token : Nat, attempts : 0..MaxAttempts,
          text : SUBSET Runs, user : BOOLEAN] : x.phase # "idle" => x.run \in Runs}
IdleTask == [phase |-> "idle", run |-> 0, token |-> 0, attempts |-> 0, text |-> {}, user |-> FALSE]

MemoryInit ==
  /\ run = [r \in Runs |-> "absent"]
  /\ erased = {}
  /\ cutoff = [s \in Sessions |-> 0]
  /\ job = [r \in Runs |-> NoJob]
  /\ summary = [s \in Sessions |-> NoEntry]
  /\ pref = NoPref
  /\ revisions = {}
  /\ drafts = [s \in Sessions |-> {}]
  /\ candidate = [r \in Runs |-> "none"]
  /\ cleared = {} /\ seen = [e \in Editors |-> {}]
  /\ task = [w \in Workers |-> IdleTask]
  /\ acts = 0

Created == {r \in Runs : run[r] # "absent"}
OfSession(s) == {r \in Runs : SessionOf[r] = s}
Earlier(r) == {q \in OfSession(SessionOf[r]) : q < r}
Act == acts < MaxActs /\ acts' = acts + 1

-----------------------------------------------------------------------------
(* Runs. *)

StartRun(r) ==
  /\ run[r] = "absent" /\ Created = 1..(r - 1)
  /\ \A q \in OfSession(SessionOf[r]) : run[q] \in {"absent", "over"}
  /\ run' = [run EXCEPT ![r] = "active"]
  /\ UNCHANGED <<erased, cutoff, job, summary, pref, revisions, drafts, candidate, cleared, seen, task, acts>>

\* Repository._finish: an eligible success enqueues its job in the same transaction.
FinishRun(r) ==
  /\ run[r] \in {"active", "stopping"}
  /\ run' = [run EXCEPT ![r] = "over"]
  /\ \/ UNCHANGED job
     \/ run[r] = "active" /\ job' = [job EXCEPT ![r].status = "pending"]
  /\ UNCHANGED <<erased, cutoff, summary, pref, revisions, drafts, candidate, cleared, seen, task, acts>>

-----------------------------------------------------------------------------
(* The jobs. *)

Claimable(r) ==
  /\ job[r].status \in {"pending", "retry"} \/ (job[r].status = "running" /\ ~job[r].lease)
  /\ job[r].attempts < MaxAttempts

\* A job that waits for its next attempt may be passed over. The order between
\* sessions is left open.
Claim(w, r) ==
  /\ task[w].phase = "idle"
  /\ Claimable(r)
  /\ \A q \in Earlier(r) : Claimable(q) => job[q].status = "retry"
  /\ job' = [job EXCEPT ![r] = [status |-> "running", attempts |-> @.attempts + 1,
                                token |-> @.token + 1, lease |-> TRUE]]
  /\ task' = [task EXCEPT ![w] = [phase |-> "claimed", run |-> r, token |-> job[r].token + 1,
                                  attempts |-> job[r].attempts + 1, text |-> {}, user |-> FALSE]]
  /\ UNCHANGED <<run, erased, cutoff, summary, pref, revisions, drafts, candidate, cleared, seen, acts>>

\* Faulty: a job whose last attempt was lost stays running.
ClaimNoneOnly(w) ==
  /\ task[w].phase = "idle"
  /\ \A r \in Runs : Claimable(r) => job[r].status = "retry"
  /\ UNCHANGED memoryVars

\* With nothing to claim, jobs whose last attempt was lost are given up.
ClaimNone(w) ==
  /\ task[w].phase = "idle"
  /\ \A r \in Runs : Claimable(r) => job[r].status = "retry"
  /\ job' = [r \in Runs |->
               IF job[r].status = "running" /\ ~job[r].lease /\ job[r].attempts = MaxAttempts
               THEN [job[r] EXCEPT !.status = "dead"] ELSE job[r]]
  /\ UNCHANGED <<run, erased, cutoff, summary, pref, revisions, drafts, candidate, cleared, seen, task, acts>>

Kept(r, role) == <<r, role>> \notin erased

\* The messages of the run and the summary so far.
ReadSource(w) ==
  /\ task[w].phase = "claimed"
  /\ LET s == SessionOf[task[w].run] IN
     task' = [task EXCEPT ![w].phase = "read",
                          ![w].text = summary[s].text \union {task[w].run}]
  /\ UNCHANGED <<store, cleared, seen, acts>>

\* Faulty: a dead job no longer blocks its successors.
EarlierOpen(r) == \E q \in Earlier(r) : job[q].status \in {"pending", "running", "retry"}

EarlierPending(r) == \E q \in Earlier(r) : job[q].status \notin {"none", "succeeded"}

CheckEarlier(w) ==
  /\ task[w].phase = "read"
  /\ task' = [task EXCEPT ![w].phase = IF EarlierPending(task[w].run) THEN "fail" ELSE "extract"]
  /\ UNCHANGED <<store, cleared, seen, acts>>

\* The model answers; complete reads the source again before its transaction.
Extract(w) ==
  /\ task[w].phase = "extract"
  /\ task' = [task EXCEPT ![w].phase = "commit", ![w].user = Kept(task[w].run, "user")]
  /\ UNCHANGED <<store, cleared, seen, acts>>

\* Reading the source, the model, or the 35 seconds of the task fail.
Breaks(w) ==
  /\ task[w].phase \in {"claimed", "read", "extract", "commit"}
  /\ task' = [task EXCEPT ![w].phase = "fail"]
  /\ UNCHANGED <<store, cleared, seen, acts>>

Holds(w) ==
  LET j == job[task[w].run] IN
  j.status = "running" /\ j.token = task[w].token /\ j.lease

Succeeded(r) == job' = [job EXCEPT ![r] = [@ EXCEPT !.status = "succeeded", !.lease = FALSE]]

LosesLease(w) ==
  /\ task[w].phase = "commit"
  /\ ~Holds(w)
  /\ task' = [task EXCEPT ![w].phase = "fail"]
  /\ UNCHANGED <<store, cleared, seen, acts>>

\* The user's message is gone, or a message of the session was erased after the run
\* was created.
SourceErased(w) == ~task[w].user \/ task[w].run <= cutoff[SessionOf[task[w].run]]

\* Faulty: a revoked summary is written like a missing one.
SummariseAgain(w) ==
  LET r == task[w].run  s == SessionOf[r] IN
  /\ summary' = [summary EXCEPT ![s] = [status |-> "active", text |-> task[w].text, mark |-> r]]
  /\ drafts' = [drafts EXCEPT ![s] = @ \union task[w].text]

\* A summary that was revoked is not written again.
Summarise(w) ==
  LET r == task[w].run  s == SessionOf[r] IN
  IF summary[s].status = "none" \/ (summary[s].status = "active" /\ summary[s].mark < r)
  THEN /\ summary' = [summary EXCEPT ![s] = [status |-> "active", text |-> task[w].text, mark |-> r]]
       /\ drafts' = [drafts EXCEPT ![s] = @ \union task[w].text]
  ELSE UNCHANGED <<summary, drafts>>

\* Faulty: the latest statement wins.
LearnLatest(r) ==
  /\ pref' = [version |-> pref.version + 1, value |-> Says[r], source |-> r, upTo |-> r]
  /\ revisions' = revisions \union {r}
  /\ UNCHANGED candidate

\* Repository._preference, automatic = True: an older statement is ignored; one that
\* differs from what there is, or that follows a revocation, waits for a confirmation.
Learn(r) ==
  LET row == [version |-> pref.version + 1, value |-> Says[r], source |-> r, upTo |-> r] IN
  CASE pref.version = 0 \/ (r > pref.upTo /\ pref.value = Says[r]) ->
         pref' = row /\ revisions' = revisions \union {r} /\ UNCHANGED candidate
    [] pref.version > 0 /\ r > pref.upTo /\ pref.value # Says[r] ->
         /\ candidate' = [candidate EXCEPT ![r] = IF @ = "none" THEN "pending" ELSE @]
         /\ UNCHANGED <<pref, revisions>>
    [] OTHER -> UNCHANGED <<pref, revisions, candidate>>

Complete(w) ==
  /\ task[w].phase = "commit"
  /\ Holds(w)
  /\ IF SourceErased(w)
       THEN UNCHANGED <<summary, drafts, pref, revisions, candidate>>
       ELSE /\ Summarise(w)
            /\ \/ UNCHANGED <<pref, revisions, candidate>>
               \/ Says[task[w].run] # NoValue /\ Learn(task[w].run)
  /\ Succeeded(task[w].run)
  /\ task' = [task EXCEPT ![w] = IdleTask]
  /\ UNCHANGED <<run, erased, cutoff, cleared, seen, acts>>

Fail(w) ==
  /\ task[w].phase = "fail"
  /\ LET r == task[w].run IN
     job' = [job EXCEPT ![r] =
               IF @.token = task[w].token /\ @.status = "running"
               THEN [@ EXCEPT !.lease = FALSE,
                              !.status = IF task[w].attempts >= MaxAttempts THEN "dead" ELSE "retry"]
               ELSE @]
  /\ task' = [task EXCEPT ![w] = IdleTask]
  /\ UNCHANGED <<run, erased, cutoff, summary, pref, revisions, drafts, candidate, cleared, seen, acts>>

\* The process stops, or fail itself cannot be written.
Crash(w) ==
  /\ task[w].phase # "idle"
  /\ task' = [task EXCEPT ![w] = IdleTask]
  /\ UNCHANGED <<store, cleared, seen, acts>>

LeaseExpires(r) ==
  /\ job[r].lease
  /\ job' = [job EXCEPT ![r].lease = FALSE]
  /\ UNCHANGED <<run, erased, cutoff, summary, pref, revisions, drafts, candidate, cleared, seen, task, acts>>

-----------------------------------------------------------------------------
(* The user. *)

\* An edit that carries the current version. No value revokes.
Edit(value, source) ==
  /\ pref' = [version |-> pref.version + 1, value |-> value, source |-> source,
              upTo |-> Cardinality(Created)]
  /\ revisions' = revisions \union ({source, pref.source} \ {0})

\* An editor shows the preference; what it sends carries the version that it shows. It
\* looks while there is something left to send.
Look(e) ==
  /\ acts < MaxActs \/ \E r \in Runs : candidate[r] = "pending"
  /\ seen' = [seen EXCEPT ![e] = {pref}]
  /\ UNCHANGED <<store, cleared, task, acts>>

Sends(e) == seen[e] # {} /\ seen' = [seen EXCEPT ![e] = {}]

\* Faulty: the last edit wins.
AnyVersion(e) == TRUE
ExpectedVersion(e) == \E row \in seen[e] : row.version = pref.version

SetPreference(e, value) ==
  /\ Act /\ Sends(e)
  /\ IF ExpectedVersion(e) THEN Edit(value, 0) ELSE UNCHANGED <<pref, revisions>>
  /\ UNCHANGED <<run, erased, cutoff, job, summary, drafts, candidate, cleared, task>>

\* Only an acceptance needs the version.
Decide(e, r, accept) ==
  /\ Sends(e)
  /\ IF candidate[r] = "pending" /\ (accept => ExpectedVersion(e))
     THEN /\ candidate' = [candidate EXCEPT ![r] = IF accept THEN "accepted" ELSE "rejected"]
          /\ IF accept THEN Edit(Says[r], r) ELSE UNCHANGED <<pref, revisions>>
     ELSE UNCHANGED <<candidate, pref, revisions>>
  /\ UNCHANGED <<run, erased, cutoff, job, summary, drafts, cleared, task, acts>>

\* clear_session: the summary is revoked for good.
Clear(s) ==
  /\ Act
  /\ summary' = [summary EXCEPT ![s] = [status |-> "revoked", text |-> {},
                                        mark |-> Cardinality(Created)]]
  /\ cleared' = cleared \union {s}
  /\ UNCHANGED <<run, erased, cutoff, job, pref, revisions, drafts, candidate, seen, task>>

\* Faulty: any job can be replayed.
ReplayAny(r) ==
  /\ job[r].status # "none"
  /\ Act
  /\ job' = [job EXCEPT ![r] = [status |-> "pending", attempts |-> 0, token |-> @.token + 1, lease |-> FALSE]]
  /\ UNCHANGED <<run, erased, cutoff, summary, pref, revisions, drafts, candidate, cleared, seen, task>>

Replay(r) ==
  /\ job[r].status \in {"dead", "retry"}
  /\ Act
  /\ job' = [job EXCEPT ![r] = [status |-> "pending", attempts |-> 0, token |-> @.token + 1, lease |-> FALSE]]
  /\ UNCHANGED <<run, erased, cutoff, summary, pref, revisions, drafts, candidate, cleared, seen, task>>

\* Faulty: a statement that awaits its confirmation is left.
UnlearnRow(r) ==
  /\ pref' = IF pref.source # r THEN pref
             ELSE [pref EXCEPT !.version = @ + 1, !.value = NoValue, !.source = 0]
  /\ revisions' = revisions \ {r}
  /\ UNCHANGED candidate

\* What was learnt from the user's message of a run.
Unlearn(r) ==
  /\ pref' = IF pref.source # r THEN pref
             ELSE [pref EXCEPT !.version = @ + 1, !.value = NoValue, !.source = 0]
  /\ revisions' = revisions \ {r}
  /\ candidate' = [candidate EXCEPT ![r] = IF @ = "none" THEN @ ELSE "revoked"]

\* suppress_source: erases a message, and stops or fences whatever was made from it; a
\* run that is queued or waits is over at once.
Erase(r, role) ==
  LET s == SessionOf[r] IN
  /\ run[r] # "absent"
  /\ Act
  /\ erased' = erased \union {<<r, role>>}
  /\ cutoff' = [cutoff EXCEPT ![s] = IF Kept(r, role) THEN Cardinality(Created) ELSE @]
  /\ summary' = [summary EXCEPT ![s] = IF @.status = "none" THEN @
                                       ELSE [@ EXCEPT !.status = "revoked", !.text = {}]]
  /\ drafts' = [drafts EXCEPT ![s] = {}]
  /\ IF role = "user" THEN Unlearn(r) ELSE UNCHANGED <<pref, revisions, candidate>>
  /\ \E end \in {"stopping", "over"} :
       run' = [q \in Runs |-> IF SessionOf[q] = s /\ run[q] = "active" THEN end ELSE run[q]]
  /\ job' = [q \in Runs |->
               IF SessionOf[q] = s /\ job[q].status \notin {"none", "succeeded"}
               THEN [job[q] EXCEPT !.status = "succeeded", !.token = @ + 1, !.lease = FALSE]
               ELSE job[q]]
  /\ UNCHANGED <<cleared, seen, task>>

-----------------------------------------------------------------------------
TaskStep(w) ==
  \/ \E r \in Runs : Claim(w, r)
  \/ ClaimNone(w) \/ ReadSource(w) \/ CheckEarlier(w) \/ Extract(w) \/ Breaks(w)
  \/ LosesLease(w) \/ Complete(w) \/ Fail(w)

EditorStep(e) ==
  \/ Look(e)
  \/ \E value \in Values \union {NoValue} : SetPreference(e, value)
  \/ \E r \in Runs, accept \in BOOLEAN : Decide(e, r, accept)

UserStep ==
  \/ \E e \in Editors : EditorStep(e)
  \/ \E r \in Runs : Replay(r)
  \/ \E s \in Sessions : Clear(s)
  \/ \E r \in Runs, role \in Role : Erase(r, role)

MemoryNext ==
  \/ \E r \in Runs : StartRun(r) \/ FinishRun(r) \/ LeaseExpires(r)
  \/ \E w \in Workers : TaskStep(w) \/ Crash(w)
  \/ UserStep

MemorySpec == MemoryInit /\ [][MemoryNext]_memoryVars

-----------------------------------------------------------------------------
(* Properties. *)

MemoryTypeOK ==
  /\ run \in [Runs -> {"absent", "active", "stopping", "over"}]
  /\ erased \subseteq Runs \X Role
  /\ cutoff \in [Sessions -> 0..NRuns]
  /\ job \in [Runs -> Job]
  /\ summary \in [Sessions -> Entry]
  /\ pref \in Pref
  /\ revisions \subseteq Runs
  /\ drafts \in [Sessions -> SUBSET Runs]
  /\ candidate \in [Runs -> {"none", "pending", "accepted", "rejected", "revoked"}]
  /\ cleared \subseteq Sessions
  /\ seen \in [Editors -> SUBSET Pref]
  /\ task \in [Workers -> Task]

\* The summary covers a run only after every earlier job of the session is done, so
\* that no failed, retried, dead or replayed job is left behind the watermark.
CoveredInOrder ==
  \A s \in Sessions, r \in Runs :
    summary[s].status = "active" /\ r \in OfSession(s) /\ r <= summary[s].mark
      => ~(r < summary[s].mark /\ job[r].status \notin {"none", "succeeded"})

\* Once a message is erased, nothing made from it can be read again: no summary, no
\* draft of one, and for a message of the user no preference, revision or candidate,
\* although a job that has read the message may still be under way.
ErasedLeavesNothing ==
  \A m \in erased :
    /\ m[1] \notin summary[SessionOf[m[1]]].text
    /\ m[1] \notin drafts[SessionOf[m[1]]]
    /\ m[2] = "user" => /\ pref.source # m[1]
                        /\ m[1] \notin revisions
                        /\ candidate[m[1]] \notin {"pending", "accepted"}

(* Why they hold: the inductive invariant. *)

\* The runs of a session follow each other, a job belongs to a run that is over, and
\* has a lease only while it runs.
RunsInTurn ==
  \A r \in Runs :
    /\ run[r] # "absent" => \A q \in Earlier(r) : run[q] = "over"
    /\ job[r].status # "none" => run[r] = "over"
    /\ job[r].lease => job[r].status = "running"

\* An earlier run of the session has no job, and gets none, or one that is done.
Settled(r) == \A q \in Earlier(r) : run[q] = "over" /\ job[q].status \in {"none", "succeeded"}

\* The watermark of a summary, and a job that passed its check, have nothing open before.
NothingOpenBefore ==
  /\ \A s \in Sessions : summary[s].status = "active" =>
       summary[s].mark \in OfSession(s) /\ Settled(summary[s].mark)
  /\ \A w \in Workers : task[w].phase \in {"extract", "commit"} => Settled(task[w].run)

\* A task has a claimed job and never a token from the future.
Claimed ==
  \A w \in Workers : task[w].phase # "idle" =>
    /\ job[task[w].run].status # "none"
    /\ task[w].token <= job[task[w].run].token

Lost(w) == task[w].token < job[task[w].run].token \/ job[task[w].run].status = "succeeded"

\* A run with an erased message has no job and gets none, or one that is done; a task
\* that has read the message, or a summary with it, has lost its job for good.
ErasedIsFenced ==
  \A m \in erased :
    /\ run[m[1]] \in {"stopping", "over"}
    /\ job[m[1]].status \in {"none", "succeeded"}
    /\ \A w \in Workers :
         /\ task[w].phase # "idle" /\ m[1] \in task[w].text
         /\ SessionOf[task[w].run] = SessionOf[m[1]]
         => Lost(w)

\* What was cleared is revoked, and a version was given to one row only, so that an editor
\* that shows the version of the preference shows the preference.
LooksAreTrue ==
  /\ \A s \in cleared : summary[s].status = "revoked"
  /\ \A e \in Editors : \A row \in seen[e] :
       /\ seen[e] = {row} /\ row.version <= pref.version
       /\ row.version = pref.version => row = pref

MemoryInv ==
  /\ MemoryTypeOK /\ RunsInTurn /\ NothingOpenBefore /\ Claimed /\ ErasedIsFenced /\ LooksAreTrue
  /\ CoveredInOrder /\ ErasedLeavesNothing

\* A job never changes or revives a preference that was there: only the user does,
\* by an edit, a confirmation or an erasure.
UserDecides ==
  [][pref.version > 0 /\ pref'.value # pref.value => UNCHANGED <<job, task>> \/ erased' # erased
    ]_memoryVars

\* An edit, or a candidate that is accepted, replaces exactly the row that its editor
\* showed, although jobs, erasures and other editors may change the preference meanwhile.
EditsAreInformed ==
  [][\A e \in Editors : seen'[e] # seen[e] /\ pref' # pref => seen[e] = {pref}]_memoryVars

\* A summary that its user cleared is not written again by a job that was claimed,
\* retried or replayed before or after.
ClearedForGood == [][\A s \in cleared : summary'[s].status = "revoked"]_memoryVars

\* What a user edited, confirmed or cleared is not changed by a job that read it before
\* (complete, clear_session, suppress_source), nor by an edit whose author did not see it.
UsersHaveTheLastWord == UserDecides /\ EditsAreInformed /\ ClearedForGood

\* A source takes effect once: a job that is done stays so, and a later attempt of it
\* changes neither summary nor preference.
EffectOnce ==
  [][\A r \in Runs : job[r].status = "succeeded" =>
       /\ job'[r] = job[r]
       /\ pref'.source = r /\ pref.source # r => candidate[r] = "pending"]_memoryVars

\* Whatever fails, every job is done or dead some day, and so are the tasks.
EveryJobSettles ==
  \A r \in Runs : job[r].status # "none" ~> job[r].status \in {"succeeded", "dead"}

(* The lease runs out, every step of a task has a timeout, and some worker *)
(* process keeps looking for jobs.                                         *)
MemoryFairness ==
  /\ \A r \in Runs : WF_memoryVars(LeaseExpires(r))
  /\ \A w \in Workers : WF_memoryVars(TaskStep(w))

FairMemorySpec == MemorySpec /\ MemoryFairness

\* The design document: a message that was not summarised must not be marked as
\* covered. Every job that is done is in the summary whose watermark has passed it.
NothingSkipped ==
  \A s \in Sessions : summary[s].status = "active" =>
    \A r \in OfSession(s) :
      r <= summary[s].mark /\ job[r].status = "succeeded" /\ r > cutoff[s] => r \in summary[s].text

\* The design document: a summary that was made from several sources must be rebuilt when
\* one of them is erased. At the latest when the job of a run that was created afterwards
\* is done the session has a summary again, unless the user cleared it.
LostASource(s) == \E m \in erased : SessionOf[m[1]] = s
MixedIsRebuilt ==
  \A s \in Sessions :
    LostASource(s) /\ (\E r \in OfSession(s) : r > cutoff[s] /\ job[r].status = "succeeded")
      ~> summary[s].status = "active" \/ s \in cleared
=============================================================================
