-------------------------- MODULE AgentMemory_proofs --------------------------
(* Proofs about AgentMemory, for every number of runs, sessions and workers. *)
EXTENDS AgentMemory, FiniteSetTheorems, TLAPS

\* A count of runs is a number of runs.
LEMMA CreatedCount == Cardinality(Created) \in 0..NRuns
<1>1. IsFiniteSet(Runs) /\ Cardinality(Runs) = NRuns
  BY FS_Interval, MemoryAssumption DEF Runs
<1>2. Created \subseteq Runs
  BY DEF Created
<1>3. IsFiniteSet(Created) /\ Cardinality(Created) <= Cardinality(Runs)
  BY <1>1, <1>2, FS_Subset
<1>. QED
  BY <1>1, <1>3, FS_CardinalityType, MemoryAssumption

\* The changes of a row leave it a row.
LEMMA JobRows ==
  ASSUME NEW j \in Job, NEW new \in JobStatus
  PROVE  /\ [j EXCEPT !.status = new] \in Job
         /\ [j EXCEPT !.status = new, !.lease = FALSE] \in Job
         /\ [j EXCEPT !.lease = FALSE, !.status = new] \in Job
         /\ [j EXCEPT !.status = new, !.token = @ + 1, !.lease = FALSE] \in Job
<1>1. [j EXCEPT !.status = new] \in Job
  BY DEF Job
<1>2. [j EXCEPT !.status = new, !.lease = FALSE] \in Job
  BY DEF Job
<1>3. [j EXCEPT !.lease = FALSE, !.status = new] \in Job
  BY DEF Job
<1>4. [j EXCEPT !.status = new, !.token = @ + 1, !.lease = FALSE] \in Job
  <2>1. j.token + 1 \in Nat
    BY DEF Job
  <2>. QED
    BY <2>1 DEF Job
<1>. QED
  BY <1>1, <1>2, <1>3, <1>4

\* An entry that is revoked is an entry, a preference that is cleared is a preference.
LEMMA OtherRows ==
  /\ \A e \in Entry : [e EXCEPT !.status = "revoked", !.text = {}] \in Entry
  /\ \A p \in Pref : [p EXCEPT !.version = @ + 1, !.value = NoValue, !.source = 0] \in Pref
<1>1. ASSUME NEW e \in Entry PROVE [e EXCEPT !.status = "revoked", !.text = {}] \in Entry
  BY DEF Entry
<1>2. ASSUME NEW p \in Pref
      PROVE  [p EXCEPT !.version = @ + 1, !.value = NoValue, !.source = 0] \in Pref
  <2>1. p.version + 1 \in Nat /\ 0 \in 0..NRuns
    BY MemoryAssumption DEF Pref
  <2>. QED
    BY <2>1 DEF Pref
<1>. QED
  BY <1>1, <1>2

\* What a task, a user or time changes keeps its type.
LEMMA TypeStep == MemoryTypeOK /\ [MemoryNext]_memoryVars => MemoryTypeOK'
<1>. SUFFICES ASSUME MemoryTypeOK, [MemoryNext]_memoryVars PROVE MemoryTypeOK'
  OBVIOUS
<1>. USE MemoryAssumption DEF MemoryTypeOK
<1>1. ASSUME NEW r \in Runs, StartRun(r) PROVE MemoryTypeOK'
  BY <1>1 DEF StartRun
<1>2. ASSUME NEW r \in Runs, FinishRun(r) PROVE MemoryTypeOK'
  <2>1. [job[r] EXCEPT !.status = "pending"] \in Job
    BY DEF Job, JobStatus
  <2>. DEFINE new == [job[r] EXCEPT !.status = "pending"]
  <2>2. job' = job \/ job' = [job EXCEPT ![r] = new]
    BY <1>2 DEF FinishRun
  <2>3. job' \in [Runs -> Job]
    BY <2>1, <2>2
  <2>. QED
    BY <2>3, <1>2 DEF FinishRun
<1>3. ASSUME NEW r \in Runs, LeaseExpires(r) PROVE MemoryTypeOK'
  <2>1. job' \in [Runs -> Job]
    BY <1>3 DEF LeaseExpires, Job
  <2>. QED
    BY <2>1, <1>3 DEF LeaseExpires
<1>4. ASSUME NEW w \in Workers, NEW r \in Runs, Claim(w, r) PROVE MemoryTypeOK'
  <2>1. job[r] \in Job /\ job[r].attempts < MaxAttempts
    BY <1>4 DEF Claim, Claimable
  <2>2. job[r].attempts + 1 \in 0..MaxAttempts /\ job[r].token + 1 \in Nat
    BY <2>1 DEF Job
  <2>3. job' \in [Runs -> Job]
    BY <1>4, <2>2 DEF Claim, Job, JobStatus
  <2>4. [phase |-> "claimed", run |-> r, token |-> job[r].token + 1,
         attempts |-> job[r].attempts + 1, text |-> {}, user |-> FALSE] \in Task
    BY <2>2 DEF Task, Phase, Runs
  <2>5. task' \in [Workers -> Task]
    BY <1>4, <2>4 DEF Claim
  <2>. QED
    BY <2>3, <2>5, <1>4 DEF Claim
<1>5. ASSUME NEW w \in Workers, ClaimNone(w) PROVE MemoryTypeOK'
  <2>1. job' \in [Runs -> Job]
    BY <1>5 DEF ClaimNone, Job, JobStatus
  <2>. QED
    BY <2>1, <1>5 DEF ClaimNone
<1>6. ASSUME NEW w \in Workers,
             ReadSource(w) \/ CheckEarlier(w) \/ Extract(w) \/ Breaks(w) \/ LosesLease(w) \/ Crash(w)
      PROVE  MemoryTypeOK'
  <2>1. task[w] \in Task /\ UNCHANGED <<store, cleared, seen>>
    BY <1>6 DEF ReadSource, CheckEarlier, Extract, Breaks, LosesLease, Crash
  <2>2. ASSUME NEW new, task' = [task EXCEPT ![w] = new], new \in Task PROVE MemoryTypeOK'
    BY <2>1, <2>2 DEF store
  <2>3. CASE ReadSource(w)
    <3>. DEFINE s == SessionOf[task[w].run]
                new == [task[w] EXCEPT !.phase = "read", !.text = summary[s].text \union {task[w].run}]
    <3>1. task[w].run \in Runs
      BY <2>3, <2>1 DEF ReadSource, Task
    <3>2. summary[s].text \union {task[w].run} \in SUBSET Runs
      BY <3>1 DEF Entry
    <3>3. new \in Task
      <4>. HIDE DEF s
      <4>. QED
        BY <3>1, <3>2, <2>1 DEF Task, Phase
    <3>4. task' = [task EXCEPT ![w] = new]
      BY <2>3 DEF ReadSource
    <3>. QED
      BY <3>3, <3>4, <2>2
  <2>4. CASE CheckEarlier(w)
    <3>. DEFINE new == [task[w] EXCEPT !.phase = IF EarlierPending(task[w].run) THEN "fail" ELSE "extract"]
    <3>1. new \in Task
      BY <2>4, <2>1 DEF CheckEarlier, Task, Phase
    <3>2. task' = [task EXCEPT ![w] = new]
      BY <2>4 DEF CheckEarlier
    <3>. QED
      BY <3>1, <3>2, <2>2
  <2>5. CASE Extract(w)
    <3>. DEFINE new == [task[w] EXCEPT !.phase = "commit", !.user = Kept(task[w].run, "user")]
    <3>1. new \in Task
      BY <2>5, <2>1 DEF Extract, Task, Phase, Kept
    <3>2. task' = [task EXCEPT ![w] = new]
      BY <2>5 DEF Extract
    <3>. QED
      BY <3>1, <3>2, <2>2
  <2>6. CASE Breaks(w) \/ LosesLease(w)
    <3>. DEFINE new == [task[w] EXCEPT !.phase = "fail"]
    <3>1. new \in Task
      BY <2>6, <2>1 DEF Breaks, LosesLease, Task, Phase
    <3>2. task' = [task EXCEPT ![w] = new]
      BY <2>6 DEF Breaks, LosesLease
    <3>. QED
      BY <3>1, <3>2, <2>2
  <2>7. CASE Crash(w)
    <3>1. IdleTask \in Task
      BY DEF IdleTask, Task, Phase
    <3>. QED
      BY <3>1, <2>7, <2>2 DEF Crash
  <2>. QED
    BY <1>6, <2>3, <2>4, <2>5, <2>6, <2>7
<1>7. ASSUME NEW w \in Workers, Complete(w) PROVE MemoryTypeOK'
  <2>. DEFINE r == task[w].run  s == SessionOf[r]
  <2>1. task[w] \in Task /\ r \in Runs /\ s \in Sessions /\ task[w].text \subseteq Runs
    BY <1>7 DEF Complete, Task
  <2>2. job' \in [Runs -> Job]
    BY <1>7, <2>1, JobRows DEF Complete, Succeeded, JobStatus
  <2>3. task' \in [Workers -> Task]
    BY <1>7 DEF Complete, IdleTask, Task, Phase
  <2>4. summary' \in [Sessions -> Entry] /\ drafts' \in [Sessions -> SUBSET Runs]
    <3>1. CASE UNCHANGED <<summary, drafts>>
      BY <3>1
    <3>2. CASE Summarise(w)
      <4>1. [status |-> "active", text |-> task[w].text, mark |-> r] \in Entry
        BY <2>1 DEF Entry, Runs
      <4>2. drafts[s] \union task[w].text \in SUBSET Runs
        BY <2>1
      <4>. QED
        BY <3>2, <4>1, <4>2, <2>1 DEF Summarise
    <3>. QED
      BY <3>1, <3>2, <1>7 DEF Complete
  <2>5. /\ pref' \in Pref /\ revisions' \subseteq Runs
        /\ candidate' \in [Runs -> {"none", "pending", "accepted", "rejected", "revoked"}]
    <3>1. CASE UNCHANGED <<pref, revisions, candidate>>
      BY <3>1
    <3>2. CASE Says[r] # NoValue /\ Learn(r)
      <4>1. [version |-> pref.version + 1, value |-> Says[r], source |-> r, upTo |-> r] \in Pref
        BY <2>1 DEF Pref, Runs
      <4>. QED
        BY <3>2, <4>1, <2>1 DEF Learn
    <3>. QED
      BY <3>1, <3>2, <1>7 DEF Complete
  <2>. QED
    BY <1>7, <2>2, <2>3, <2>4, <2>5 DEF Complete
<1>8. ASSUME NEW w \in Workers, Fail(w) PROVE MemoryTypeOK'
  <2>. DEFINE r == task[w].run
              new == [job[r] EXCEPT !.lease = FALSE,
                                    !.status = IF task[w].attempts >= MaxAttempts THEN "dead" ELSE "retry"]
  <2>a. new \in Job
    BY <1>8, JobRows DEF Fail, Task, JobStatus
  <2>b. job' = [job EXCEPT ![r] = new] \/ job' = [job EXCEPT ![r] = job[r]]
    BY <1>8 DEF Fail
  <2>1. job' \in [Runs -> Job]
    <3>. HIDE DEF new
    <3>. QED
      BY <2>a, <2>b
  <2>2. task' \in [Workers -> Task]
    BY <1>8 DEF Fail, IdleTask, Task, Phase
  <2>. QED
    BY <2>1, <2>2, <1>8 DEF Fail
<1>9. ASSUME NEW value \in Values \union {NoValue}, NEW source \in 0..NRuns, Edit(value, source)
      PROVE  pref' \in Pref /\ revisions' \subseteq Runs
  <2>1. pref.version + 1 \in Nat /\ pref.source \in 0..NRuns
    BY DEF Pref
  <2>2. pref' \in Pref
    BY <1>9, <2>1, CreatedCount DEF Edit, Pref
  <2>3. {source, pref.source} \ {0} \subseteq Runs
    BY <2>1 DEF Runs
  <2>. QED
    BY <1>9, <2>2, <2>3 DEF Edit
<1>10. ASSUME NEW e \in Editors, NEW value \in Values \union {NoValue}, SetPreference(e, value)
       PROVE  MemoryTypeOK'
  <2>1. pref' \in Pref /\ revisions' \subseteq Runs
    BY <1>9, <1>10 DEF SetPreference
  <2>2. seen' \in [Editors -> SUBSET Pref]
    BY <1>10 DEF SetPreference, Sends
  <2>. QED
    BY <2>1, <2>2, <1>10 DEF SetPreference
<1>11. ASSUME NEW e \in Editors, NEW r \in Runs, NEW accept \in BOOLEAN, Decide(e, r, accept)
       PROVE  MemoryTypeOK'
  <2>1. r \in 0..NRuns /\ Says[r] \in Values \union {NoValue}
    BY DEF Runs
  <2>2. candidate' \in [Runs -> {"none", "pending", "accepted", "rejected", "revoked"}]
    BY <1>11 DEF Decide
  <2>3. pref' \in Pref /\ revisions' \subseteq Runs
    <3>1. CASE Edit(Says[r], r)
      BY <1>9, <2>1, <3>1
    <3>2. CASE UNCHANGED <<pref, revisions>>
      BY <3>2
    <3>. QED
      BY <3>1, <3>2, <1>11 DEF Decide
  <2>4. seen' \in [Editors -> SUBSET Pref]
    BY <1>11 DEF Decide, Sends
  <2>. QED
    BY <2>2, <2>3, <2>4, <1>11 DEF Decide
<1>16. ASSUME NEW e \in Editors, Look(e) PROVE MemoryTypeOK'
  <2>1. seen' \in [Editors -> SUBSET Pref]
    BY <1>16 DEF Look
  <2>. QED
    BY <2>1, <1>16 DEF Look, store
<1>12. ASSUME NEW s \in Sessions, Clear(s) PROVE MemoryTypeOK'
  <2>1. [status |-> "revoked", text |-> {}, mark |-> Cardinality(Created)] \in Entry
    BY CreatedCount DEF Entry
  <2>2. summary' \in [Sessions -> Entry]
    BY <1>12, <2>1 DEF Clear
  <2>. QED
    BY <2>2, <1>12 DEF Clear
<1>13. ASSUME NEW r \in Runs, Replay(r) PROVE MemoryTypeOK'
  <2>1. job' \in [Runs -> Job]
    BY <1>13 DEF Replay, Job, JobStatus
  <2>. QED
    BY <2>1, <1>13 DEF Replay
<1>14. ASSUME NEW r \in Runs, NEW role \in Role, Erase(r, role) PROVE MemoryTypeOK'
  <2>. DEFINE s == SessionOf[r]
  <2>1. s \in Sessions
    OBVIOUS
  <2>2. erased' \subseteq Runs \X Role /\ cutoff' \in [Sessions -> 0..NRuns]
    <3>1. erased' = erased \union {<<r, role>>}
      BY <1>14 DEF Erase
    <3>2. cutoff' = [cutoff EXCEPT ![s] = IF Kept(r, role) THEN Cardinality(Created) ELSE @]
      BY <1>14 DEF Erase
    <3>3. (IF Kept(r, role) THEN Cardinality(Created) ELSE cutoff[s]) \in 0..NRuns
      BY <2>1, CreatedCount
    <3>4. cutoff' \in [Sessions -> 0..NRuns]
      BY <3>2, <3>3
    <3>. QED
      BY <3>1, <3>4
  <2>3. job' \in [Runs -> Job]
    <3>1. \A q \in Runs : [job[q] EXCEPT !.status = "succeeded", !.token = @ + 1, !.lease = FALSE] \in Job
      BY JobRows DEF JobStatus
    <3>. QED
      BY <1>14, <3>1 DEF Erase
  <2>4. summary' \in [Sessions -> Entry]
    <3>1. [summary[s] EXCEPT !.status = "revoked", !.text = {}] \in Entry
      BY <2>1, OtherRows
    <3>. QED
      BY <1>14, <2>1, <3>1 DEF Erase
  <2>5. drafts' \in [Sessions -> SUBSET Runs]
    BY <1>14, <2>1 DEF Erase
  <2>6. run' \in [Runs -> {"absent", "active", "stopping", "over"}]
    BY <1>14 DEF Erase
  <2>7. /\ pref' \in Pref /\ revisions' \subseteq Runs
        /\ candidate' \in [Runs -> {"none", "pending", "accepted", "rejected", "revoked"}]
    <3>1. [pref EXCEPT !.version = @ + 1, !.value = NoValue, !.source = 0] \in Pref
      BY OtherRows
    <3>. QED
      BY <1>14, <3>1 DEF Erase, Unlearn
  <2>. QED
    BY <1>14, <2>2, <2>3, <2>4, <2>5, <2>6, <2>7 DEF Erase
<1>15. CASE UNCHANGED memoryVars
  BY <1>15 DEF memoryVars, store
<1>. QED
  BY <1>1, <1>2, <1>3, <1>4, <1>5, <1>6, <1>7, <1>8, <1>10, <1>11, <1>12, <1>13, <1>14, <1>15,
     <1>16
  DEF MemoryNext, TaskStep, UserStep, EditorStep

\* The first state is typed.
LEMMA InitTyped == MemoryInit => MemoryTypeOK
<1>1. ASSUME MemoryInit PROVE MemoryTypeOK
  BY <1>1, MemoryAssumption
     DEF MemoryInit, MemoryTypeOK, NoJob, Job, JobStatus, NoEntry, Entry, NoPref, Pref,
         IdleTask, Task, Phase
<1>. QED
  BY <1>1

\* The rows of the memory and the tasks stay well formed.
THEOREM MemoryTyped == MemorySpec => []MemoryTypeOK
  BY InitTyped, TypeStep, PTL DEF MemorySpec

-----------------------------------------------------------------------------
(* Safety: MemoryInv is inductive. *)

\* How a step may change the run and the job of a run.
LEMMA RowSteps ==
  ASSUME MemoryTypeOK, RunsInTurn, Claimed, [MemoryNext]_memoryVars, NEW r \in Runs
  PROVE  /\ run[r] = "over" => run'[r] = "over"
         /\ run[r] = "stopping" => run'[r] \in {"stopping", "over"}
         /\ run[r] # "active" /\ job[r].status \in {"none", "succeeded"} => job'[r].status = job[r].status
         /\ job[r].status = "succeeded" => job'[r] = job[r]
         /\ job[r].status # "none" => job'[r].status # "none"
         /\ job'[r].token \in Nat /\ job'[r].token >= job[r].token
         /\ run[r] = "absent" => run'[r] = "absent" \/ \A q \in Earlier(r) : run[q] = "over"
         /\ job[r].status = "none" => job'[r].status = "none" \/ run'[r] = "over"
         /\ job'[r].lease => job'[r].status = "running"
<1>. DEFINE G == /\ run[r] = "over" => run'[r] = "over"
                 /\ run[r] = "stopping" => run'[r] \in {"stopping", "over"}
                 /\ run[r] # "active" /\ job[r].status \in {"none", "succeeded"}
                      => job'[r].status = job[r].status
                 /\ job[r].status = "succeeded" => job'[r] = job[r]
                 /\ job[r].status # "none" => job'[r].status # "none"
                 /\ job'[r].token \in Nat /\ job'[r].token >= job[r].token
                 /\ run[r] = "absent" => run'[r] = "absent" \/ \A q \in Earlier(r) : run[q] = "over"
                 /\ job[r].status = "none" => job'[r].status = "none" \/ run'[r] = "over"
                 /\ job'[r].lease => job'[r].status = "running"
<1>1. /\ run \in [Runs -> {"absent", "active", "stopping", "over"}]
      /\ job \in [Runs -> Job] /\ task \in [Workers -> Task]
  BY DEF MemoryTypeOK
<1>2. /\ job[r].token \in Nat /\ job[r].token + 1 > job[r].token /\ job[r].token + 1 \in Nat
      /\ job[r].lease => job[r].status = "running"
  BY <1>1 DEF Job, RunsInTurn
<1>3. ASSUME UNCHANGED job, run' = run PROVE G
  BY <1>2, <1>3
<1>4. ASSUME NEW q \in Runs, StartRun(q) PROVE G
  <2>1. run' = [run EXCEPT ![q] = "active"] /\ run[q] = "absent" /\ job' = job
    BY <1>4 DEF StartRun
  <2>2. \A p \in Earlier(q) : run[p] = "over"
    <3>1. \A p \in Earlier(q) : p \in Created /\ p \in OfSession(SessionOf[q])
      BY <1>4, MemoryAssumption DEF StartRun, Earlier, OfSession, Runs
    <3>. QED
      BY <1>4, <3>1 DEF StartRun, Created
  <2>. HIDE DEF Earlier
  <2>. QED
    BY <1>1, <1>2, <2>1, <2>2
<1>5. ASSUME NEW q \in Runs, FinishRun(q) PROVE G
  <2>1. job[q].status = "none" \/ run[q] = "stopping"
    BY <1>5 DEF FinishRun, RunsInTurn
  <2>. DEFINE row == [job[q] EXCEPT !.status = "pending"]
  <2>2. job' = job \/ (run[q] = "active" /\ job' = [job EXCEPT ![q] = row])
    BY <1>5 DEF FinishRun
  <2>3. run' = [run EXCEPT ![q] = "over"] /\ run[q] \in {"active", "stopping"}
    BY <1>5 DEF FinishRun
  <2>4. row.status = "pending" /\ row.token = job[q].token /\ row.lease = job[q].lease
    BY <1>1 DEF Job
  <2>5. job[q].lease => job[q].status = "running"
    BY DEF RunsInTurn
  <2>. HIDE DEF row
  <2>. QED
    BY <1>1, <1>2, <2>1, <2>2, <2>3, <2>4, <2>5
<1>6. ASSUME NEW q \in Runs, LeaseExpires(q) PROVE G
  <2>1. /\ job' = [job EXCEPT ![q] = [job[q] EXCEPT !.lease = FALSE]] /\ run' = run
        /\ job[q].status = "running"
    BY <1>6 DEF LeaseExpires, RunsInTurn
  <2>. QED
    BY <1>1, <1>2, <2>1 DEF Job
<1>7. ASSUME NEW q \in Runs, NEW w \in Workers, Claim(w, q) PROVE G
  <2>1. /\ job[q].status \in {"pending", "retry", "running"} /\ run' = run
        /\ job' = [job EXCEPT ![q] = [status |-> "running", attempts |-> job[q].attempts + 1,
                                     token |-> job[q].token + 1, lease |-> TRUE]]
    BY <1>7 DEF Claim, Claimable
  <2>. QED
    BY <1>1, <1>2, <2>1
<1>8. ASSUME NEW w \in Workers, ClaimNone(w) PROVE G
  <2>1. /\ job'[r] = job[r] \/ (job[r].status = "running" /\ ~job[r].lease
                                /\ job'[r] = [job[r] EXCEPT !.status = "dead"])
        /\ run' = run
    BY <1>8 DEF ClaimNone
  <2>. QED
    BY <1>1, <1>2, <2>1 DEF Job
<1>9. ASSUME NEW w \in Workers, Complete(w) PROVE G
  <2>1. /\ job[task[w].run].status = "running" /\ run' = run
        /\ job' = [job EXCEPT ![task[w].run] = [job[task[w].run] EXCEPT !.status = "succeeded", !.lease = FALSE]]
    BY <1>9 DEF Complete, Holds, Succeeded
  <2>2. task[w].run \in Runs
    BY <1>1, <1>9 DEF Complete, Task
  <2>. QED
    BY <1>1, <1>2, <2>1, <2>2 DEF Job
<1>10. ASSUME NEW w \in Workers, Fail(w) PROVE G
  <2>. DEFINE q == task[w].run
              new == IF task[w].attempts >= MaxAttempts THEN "dead" ELSE "retry"
  <2>1. /\ job' = job \/ (/\ job[q].status = "running"
                         /\ job' = [job EXCEPT ![q] = [job[q] EXCEPT !.lease = FALSE, !.status = new]])
        /\ run' = run
    <3>1. q \in Runs
      BY <1>1, <1>10 DEF Fail, Task
    <3>. QED
      BY <1>1, <1>10, <3>1 DEF Fail
  <2>2. new # "none" /\ new \in {"dead", "retry"} /\ q \in Runs
    BY <1>1, <1>10 DEF Fail, Task
  <2>. DEFINE row == [job[q] EXCEPT !.lease = FALSE, !.status = new]
  <2>3. row.status = new /\ row.token = job[q].token /\ ~row.lease
    BY <1>1, <2>2 DEF Job
  <2>4. job' = job \/ (job[q].status = "running" /\ job' = [job EXCEPT ![q] = row])
    BY <2>1
  <2>. HIDE DEF q, new, row
  <2>. QED
    BY <1>1, <1>2, <2>1, <2>2, <2>3, <2>4
<1>11. ASSUME NEW q \in Runs, Replay(q) PROVE G
  BY <1>1, <1>2, <1>11 DEF Replay
<1>12. ASSUME NEW q \in Runs, NEW role \in Role, Erase(q, role) PROVE G
  <2>1. run'[r] = run[r] \/ (run[r] = "active" /\ run'[r] \in {"stopping", "over"})
    BY <1>12 DEF Erase
  <2>. DEFINE row == [job[r] EXCEPT !.status = "succeeded", !.token = @ + 1, !.lease = FALSE]
  <2>2. job'[r] = job[r] \/ (job[r].status \notin {"none", "succeeded"} /\ job'[r] = row)
    BY <1>12 DEF Erase
  <2>3. row.status = "succeeded" /\ row.token = job[r].token + 1 /\ ~row.lease
    BY <1>1 DEF Job
  <2>. HIDE DEF row
  <2>. QED
    BY <1>2, <2>1, <2>2, <2>3
<1>13. \A w \in Workers : ReadSource(w) \/ CheckEarlier(w) \/ Extract(w) \/ Breaks(w) \/ LosesLease(w)
                          \/ Crash(w) => UNCHANGED job /\ run' = run
  BY DEF ReadSource, CheckEarlier, Extract, Breaks, LosesLease, Crash, store
<1>14. (\E e \in Editors : EditorStep(e)) \/ (\E s \in Sessions : Clear(s)) \/ UNCHANGED memoryVars
       => UNCHANGED job /\ run' = run
  BY DEF EditorStep, Look, SetPreference, Clear, Decide, memoryVars, store
<1>15. G
  <2>. HIDE DEF G
  <2>. QED
    BY <1>3, <1>4, <1>5, <1>6, <1>7, <1>8, <1>9, <1>10, <1>11, <1>12, <1>13, <1>14
    DEF MemoryNext, TaskStep, UserStep
<1>. QED
  BY <1>15

\* How a step may change a task.
LEMMA TaskSteps ==
  ASSUME MemoryTypeOK, [MemoryNext]_memoryVars, NEW w \in Workers
  PROVE  \/ task'[w] = task[w]
         \/ task'[w].phase = "idle"
         \/ /\ task'[w].run \in Runs /\ job'[task'[w].run].status = "running"
            /\ task'[w].token = job'[task'[w].run].token
            /\ task'[w].text = {} /\ task'[w].phase = "claimed"
         \/ /\ task[w].phase # "idle" /\ task[w].run \in Runs
            /\ task'[w].run = task[w].run /\ task'[w].token = task[w].token
            /\ \/ task'[w].text = task[w].text
               \/ task'[w].text = summary[SessionOf[task[w].run]].text \union {task[w].run}
            /\ task'[w].phase \in {"extract", "commit"}
                 => task[w].phase \in {"extract", "commit"} \/ ~EarlierPending(task[w].run)
<1>. DEFINE Same(v) == task'[v] = task[v]
            Claims(v) == /\ task'[v].run \in Runs /\ job'[task'[v].run].status = "running"
                         /\ task'[v].token = job'[task'[v].run].token
                         /\ task'[v].text = {} /\ task'[v].phase = "claimed"
            Goes(v) == /\ task[v].phase # "idle" /\ task[v].run \in Runs
                       /\ task'[v].run = task[v].run /\ task'[v].token = task[v].token
                       /\ \/ task'[v].text = task[v].text
                          \/ task'[v].text = summary[SessionOf[task[v].run]].text \union {task[v].run}
                       /\ task'[v].phase \in {"extract", "commit"}
                            => task[v].phase \in {"extract", "commit"} \/ ~EarlierPending(task[v].run)
            G == Same(w) \/ task'[w].phase = "idle" \/ Claims(w) \/ Goes(w)
<1>1. job \in [Runs -> Job] /\ task \in [Workers -> Task]
  BY DEF MemoryTypeOK
<1>2. ASSUME task' = task PROVE G
  BY <1>2
<1>3. ASSUME NEW v \in Workers, NEW r \in Runs, Claim(v, r) PROVE G
  BY <1>1, <1>3 DEF Claim
<1>4. ASSUME NEW v \in Workers, task' = [task EXCEPT ![v] = IdleTask] PROVE G
  BY <1>1, <1>4 DEF IdleTask
<1>5. ASSUME NEW v \in Workers, ReadSource(v) PROVE G
  <2>1. task[v] \in Task /\ task[v].phase = "claimed" /\ task[v].run \in Runs
    BY <1>1, <1>5 DEF ReadSource, Task
  <2>. DEFINE text == summary[SessionOf[task[v].run]].text \union {task[v].run}
  <2>2. task' = [task EXCEPT ![v] = [task[v] EXCEPT !.phase = "read", !.text = text]]
    BY <1>5 DEF ReadSource
  <2>. DEFINE new == [task[v] EXCEPT !.phase = "read", !.text = text]
  <2>3. /\ new.phase = "read" /\ new.run = task[v].run /\ new.token = task[v].token
        /\ new.text = text
    <3>. HIDE DEF text
    <3>. QED
      BY <2>1 DEF Task
  <2>4. task'[w] = IF v = w THEN new ELSE task[w]
    BY <1>1, <2>2
  <2>. HIDE DEF new
  <2>. QED
    BY <2>1, <2>3, <2>4
<1>6. ASSUME NEW v \in Workers, CheckEarlier(v) PROVE G
  <2>1. task[v] \in Task /\ task[v].phase = "read" /\ task[v].run \in Runs
    BY <1>1, <1>6 DEF CheckEarlier, Task
  <2>. DEFINE phase == IF EarlierPending(task[v].run) THEN "fail" ELSE "extract"
              new == [task[v] EXCEPT !.phase = phase]
  <2>2. task' = [task EXCEPT ![v] = new]
    BY <1>6 DEF CheckEarlier
  <2>3. /\ new.phase = phase /\ new.run = task[v].run /\ new.token = task[v].token
        /\ new.text = task[v].text
    BY <2>1 DEF Task
  <2>4. task'[w] = IF v = w THEN new ELSE task[w]
    BY <1>1, <2>2
  <2>5. phase \in {"extract", "commit"} => ~EarlierPending(task[v].run)
    OBVIOUS
  <2>. HIDE DEF new, phase
  <2>. QED
    BY <2>1, <2>3, <2>4, <2>5
<1>7. ASSUME NEW v \in Workers, Extract(v) PROVE G
  <2>1. task[v] \in Task /\ task[v].phase = "extract" /\ task[v].run \in Runs
    BY <1>1, <1>7 DEF Extract, Task
  <2>. DEFINE kept == Kept(task[v].run, "user")
              new == [task[v] EXCEPT !.phase = "commit", !.user = kept]
  <2>2. task' = [task EXCEPT ![v] = new]
    BY <1>7 DEF Extract
  <2>3. new.run = task[v].run /\ new.token = task[v].token /\ new.text = task[v].text
    <3>. HIDE DEF kept
    <3>. QED
      BY <2>1 DEF Task
  <2>4. task'[w] = IF v = w THEN new ELSE task[w]
    BY <1>1, <2>2
  <2>. HIDE DEF new
  <2>. QED
    BY <2>1, <2>3, <2>4
<1>8. ASSUME NEW v \in Workers, Breaks(v) \/ LosesLease(v) PROVE G
  <2>1. task[v] \in Task /\ task[v].phase # "idle" /\ task[v].run \in Runs
    BY <1>1, <1>8 DEF Breaks, LosesLease, Task
  <2>. DEFINE new == [task[v] EXCEPT !.phase = "fail"]
  <2>2. task' = [task EXCEPT ![v] = new]
    BY <1>8 DEF Breaks, LosesLease
  <2>3. /\ new.phase = "fail" /\ new.run = task[v].run /\ new.token = task[v].token
        /\ new.text = task[v].text
    BY <2>1 DEF Task
  <2>4. task'[w] = IF v = w THEN new ELSE task[w]
    BY <1>1, <2>2
  <2>. HIDE DEF new
  <2>. QED
    BY <2>1, <2>3, <2>4
<1>9. \A v \in Workers : ClaimNone(v) => task' = task
  BY DEF ClaimNone
<1>10. \A v \in Workers : Complete(v) \/ Fail(v) \/ Crash(v) => task' = [task EXCEPT ![v] = IdleTask]
  BY DEF Complete, Fail, Crash
<1>11. (\E r \in Runs : StartRun(r) \/ FinishRun(r) \/ LeaseExpires(r)) \/ UserStep \/ UNCHANGED memoryVars
       => task' = task
  BY DEF StartRun, FinishRun, LeaseExpires, UserStep, EditorStep, Look, SetPreference, Replay, Decide,
         Clear, Erase,
         memoryVars
<1>12. G
  <2>. HIDE DEF G
  <2>. QED
    BY <1>2, <1>3, <1>4, <1>5, <1>6, <1>7, <1>8, <1>9, <1>10, <1>11 DEF MemoryNext, TaskStep
<1>. QED
  BY <1>12

\* How a step may change the summary of a session, and the drafts of it.
LEMMA SummarySteps ==
  ASSUME MemoryTypeOK, [MemoryNext]_memoryVars, NEW s \in Sessions
  PROVE  \/ summary'[s] = summary[s] /\ drafts'[s] = drafts[s]
         \/ /\ summary'[s] = summary[s] \/ (summary'[s].status = "revoked" /\ summary'[s].text = {})
            /\ drafts'[s] \subseteq drafts[s]
         \/ \E w \in Workers :
              /\ Complete(w) /\ s = SessionOf[task[w].run] /\ summary[s].status # "revoked"
              /\ summary'[s] = [status |-> "active", text |-> task[w].text, mark |-> task[w].run]
              /\ drafts'[s] = drafts[s] \union task[w].text
<1>. DEFINE New(w) == /\ s = SessionOf[task[w].run] /\ summary[s].status # "revoked"
                      /\ summary'[s] = [status |-> "active", text |-> task[w].text, mark |-> task[w].run]
                      /\ drafts'[s] = drafts[s] \union task[w].text
            G == \/ summary'[s] = summary[s] /\ drafts'[s] = drafts[s]
                 \/ /\ summary'[s] = summary[s] \/ (summary'[s].status = "revoked" /\ summary'[s].text = {})
                    /\ drafts'[s] \subseteq drafts[s]
                 \/ \E w \in Workers : Complete(w) /\ New(w)
<1>1. summary \in [Sessions -> Entry] /\ drafts \in [Sessions -> SUBSET Runs]
  BY DEF MemoryTypeOK
<1>2. ASSUME UNCHANGED <<summary, drafts>> PROVE G
  BY <1>2
<1>3. ASSUME NEW w \in Workers, Complete(w) PROVE G
  <2>1. UNCHANGED <<summary, drafts>> \/ Summarise(w)
    BY <1>3 DEF Complete
  <2>2. ASSUME Summarise(w) PROVE (summary'[s] = summary[s] /\ drafts'[s] = drafts[s]) \/ New(w)
    BY <2>2, <1>1 DEF Summarise
  <2>. HIDE DEF New
  <2>. QED
    BY <2>1, <2>2, <1>2, <1>3
<1>4. ASSUME NEW q \in Sessions, Clear(q) PROVE G
  BY <1>1, <1>4 DEF Clear
<1>5. ASSUME NEW r \in Runs, NEW role \in Role, Erase(r, role) PROVE G
  <2>. DEFINE q == SessionOf[r]
              new == [summary[q] EXCEPT !.status = "revoked", !.text = {}]
  <2>1. q \in Sessions
    BY MemoryAssumption
  <2>2. drafts' = [drafts EXCEPT ![q] = {}]
    BY <1>5 DEF Erase
  <2>3. summary' = summary \/ summary' = [summary EXCEPT ![q] = new]
    <3>1. summary' = [summary EXCEPT ![q] = IF summary[q].status = "none" THEN summary[q] ELSE new]
      BY <1>5 DEF Erase
    <3>. HIDE DEF new
    <3>. QED
      BY <3>1, <1>1
  <2>4. new.status = "revoked" /\ new.text = {}
    BY <1>1, <2>1 DEF Entry
  <2>. HIDE DEF q, new
  <2>. QED
    BY <1>1, <2>1, <2>2, <2>3, <2>4
<1>6. \A w \in Workers :
        ClaimNone(w) \/ ReadSource(w) \/ CheckEarlier(w) \/ Extract(w) \/ Breaks(w) \/ LosesLease(w)
        \/ Fail(w) \/ Crash(w) \/ (\E r \in Runs : Claim(w, r)) => UNCHANGED <<summary, drafts>>
  BY DEF ClaimNone, ReadSource, CheckEarlier, Extract, Breaks, LosesLease, Fail, Crash, Claim, store
<1>7. \/ \E r \in Runs : StartRun(r) \/ FinishRun(r) \/ LeaseExpires(r) \/ Replay(r)
      \/ \E e \in Editors : EditorStep(e)
      \/ UNCHANGED memoryVars
      => UNCHANGED <<summary, drafts>>
  BY DEF StartRun, FinishRun, LeaseExpires, EditorStep, Look, SetPreference, Replay, Decide,
         memoryVars, store
<1>8. G
  <2>. HIDE DEF G
  <2>. QED
    BY <1>2, <1>3, <1>4, <1>5, <1>6, <1>7 DEF MemoryNext, TaskStep, UserStep
<1>. QED
  BY <1>8

\* What was learnt from a run that has no open job stays away once it is gone.
LEMMA Unlearnt ==
  ASSUME MemoryTypeOK, [MemoryNext]_memoryVars, NEW r \in Runs,
         job[r].status \in {"none", "succeeded"},
         pref.source # r, r \notin revisions, candidate[r] \notin {"pending", "accepted"}
  PROVE  pref'.source # r /\ r \notin revisions' /\ candidate'[r] \notin {"pending", "accepted"}
<1>. DEFINE G == pref'.source # r /\ r \notin revisions' /\ candidate'[r] \notin {"pending", "accepted"}
<1>1. /\ pref \in Pref /\ task \in [Workers -> Task]
      /\ candidate \in [Runs -> {"none", "pending", "accepted", "rejected", "revoked"}]
  BY DEF MemoryTypeOK
<1>2. ASSUME UNCHANGED <<pref, revisions, candidate>> PROVE G
  BY <1>2
<1>3. ASSUME NEW w \in Workers, Complete(w) PROVE G
  <2>. DEFINE q == task[w].run
  <2>1. q # r /\ q \in Runs
    BY <1>1, <1>3 DEF Complete, Holds, Task
  <2>2. UNCHANGED <<pref, revisions, candidate>> \/ Learn(q)
    BY <1>3 DEF Complete
  <2>3. ASSUME Learn(q) PROVE G
    <3>. HIDE DEF q
    <3>1. pref'.source \in {pref.source, q} /\ revisions' \subseteq revisions \union {q}
      BY <2>3 DEF Learn
    <3>2. candidate'[r] = candidate[r]
      BY <2>1, <2>3, <1>1 DEF Learn
    <3>. QED
      BY <2>1, <3>1, <3>2
  <2>. QED
    BY <1>2, <2>2, <2>3
<1>4. ASSUME NEW e \in Editors, NEW value \in Values \union {NoValue}, SetPreference(e, value) PROVE G
  <2>1. r # 0
    BY MemoryAssumption DEF Runs
  <2>. QED
    BY <1>4, <2>1 DEF SetPreference, Edit
<1>5. ASSUME NEW e \in Editors, NEW q \in Runs, NEW accept \in BOOLEAN, Decide(e, q, accept) PROVE G
  <2>1. CASE UNCHANGED <<pref, revisions, candidate>>
    BY <2>1
  <2>2. CASE candidate[q] = "pending"
    <3>1. q # r
      BY <2>2
    <3>2. candidate'[r] = candidate[r]
      BY <1>1, <1>5, <3>1 DEF Decide
    <3>. QED
      BY <1>5, <3>1, <3>2 DEF Decide, Edit
  <2>. QED
    BY <1>5, <2>1, <2>2 DEF Decide
<1>6. ASSUME NEW q \in Runs, NEW role \in Role, Erase(q, role) PROVE G
  <2>1. UNCHANGED <<pref, revisions, candidate>> \/ Unlearn(q)
    BY <1>6 DEF Erase
  <2>2. ASSUME Unlearn(q) PROVE G
    <3>1. r # 0
      BY MemoryAssumption DEF Runs
    <3>2. pref'.source # r
      <4>. DEFINE new == [pref EXCEPT !.version = @ + 1, !.value = NoValue, !.source = 0]
      <4>1. new.source = 0
        BY <1>1 DEF Pref
      <4>2. pref' = pref \/ pref' = new
        BY <2>2 DEF Unlearn
      <4>. HIDE DEF new
      <4>. QED
        BY <3>1, <4>1, <4>2
    <3>. QED
      BY <1>1, <2>2, <3>2 DEF Unlearn
  <2>. QED
    BY <1>2, <2>1, <2>2
<1>7. \A w \in Workers :
        ClaimNone(w) \/ ReadSource(w) \/ CheckEarlier(w) \/ Extract(w) \/ Breaks(w) \/ LosesLease(w)
        \/ Fail(w) \/ Crash(w) \/ (\E q \in Runs : Claim(w, q)) => UNCHANGED <<pref, revisions, candidate>>
  BY DEF ClaimNone, ReadSource, CheckEarlier, Extract, Breaks, LosesLease, Fail, Crash, Claim, store
<1>8. \/ \E q \in Runs : StartRun(q) \/ FinishRun(q) \/ LeaseExpires(q) \/ Replay(q)
      \/ \E s \in Sessions : Clear(s)
      \/ \E e \in Editors : Look(e)
      \/ UNCHANGED memoryVars
      => UNCHANGED <<pref, revisions, candidate>>
  BY DEF StartRun, FinishRun, LeaseExpires, Replay, Clear, Look, memoryVars, store
<1>9. G
  <2>. HIDE DEF G
  <2>. QED
    BY <1>2, <1>3, <1>4, <1>5, <1>6, <1>7, <1>8 DEF MemoryNext, TaskStep, UserStep, EditorStep
<1>. QED
  BY <1>9

\* The runs that are earlier than a run are runs.
LEMMA EarlierRuns == \A r \in Runs : Earlier(r) \subseteq Runs
  BY DEF Earlier, OfSession

\* Every step keeps the runs of a session in turn.
LEMMA TurnStep == ASSUME MemoryInv, [MemoryNext]_memoryVars PROVE RunsInTurn'
<1>1. MemoryTypeOK /\ RunsInTurn /\ Claimed
  BY DEF MemoryInv
<1>2. ASSUME NEW r \in Runs
      PROVE  /\ run'[r] # "absent" => \A q \in Earlier(r) : run'[q] = "over"
             /\ job'[r].status # "none" => run'[r] = "over"
             /\ job'[r].lease => job'[r].status = "running"
  <2>1. ASSUME run'[r] # "absent", NEW q \in Earlier(r) PROVE run'[q] = "over"
    <3>1. run[q] = "over"
      BY <1>1, <2>1, RowSteps DEF RunsInTurn
    <3>. QED
      BY <1>1, <3>1, EarlierRuns, RowSteps
  <2>2. job'[r].status # "none" => run'[r] = "over"
    BY <1>1, RowSteps DEF RunsInTurn
  <2>. QED
    BY <1>1, <2>1, <2>2, RowSteps
<1>. QED
  BY <1>2 DEF RunsInTurn, Earlier, OfSession

\* A run that is settled stays settled.
LEMMA SettledStep ==
  ASSUME MemoryInv, [MemoryNext]_memoryVars, NEW r \in Runs, Settled(r) PROVE Settled(r)'
<1>1. MemoryTypeOK /\ RunsInTurn /\ Claimed
  BY DEF MemoryInv
<1>2. ASSUME NEW q \in Earlier(r) PROVE run'[q] = "over" /\ job'[q].status \in {"none", "succeeded"}
  <2>1. run[q] = "over" /\ job[q].status \in {"none", "succeeded"} /\ q \in Runs
    BY EarlierRuns DEF Settled
  <2>. QED
    BY <1>1, <2>1, RowSteps
<1>. QED
  BY <1>2 DEF Settled, Earlier, OfSession

\* Nothing before the watermark opens again.
LEMMA NothingOpenStep == ASSUME MemoryInv, [MemoryNext]_memoryVars PROVE NothingOpenBefore'
<1>1. MemoryTypeOK /\ RunsInTurn /\ Claimed /\ NothingOpenBefore
  BY DEF MemoryInv
<1>2. ASSUME NEW s \in Sessions, summary'[s].status = "active"
      PROVE  (summary[s].mark \in OfSession(s) /\ Settled(summary[s].mark))'
  <2>1. CASE summary'[s] = summary[s]
    <3>1. summary[s].mark \in Runs /\ summary[s].mark \in OfSession(s) /\ Settled(summary[s].mark)
      BY <1>1, <1>2, <2>1 DEF NothingOpenBefore, OfSession
    <3>2. ASSUME NEW r \in Runs, r = summary[s].mark PROVE Settled(r)'
      BY <3>1, <3>2, SettledStep
    <3>. QED
      BY <2>1, <3>1, <3>2 DEF Settled, Earlier, OfSession
  <2>2. ASSUME NEW w \in Workers, Complete(w), s = SessionOf[task[w].run],
               summary'[s] = [status |-> "active", text |-> task[w].text, mark |-> task[w].run]
        PROVE  (summary[s].mark \in OfSession(s) /\ Settled(summary[s].mark))'
    <3>1. task[w].phase = "commit" /\ task[w].run \in Runs
      BY <1>1, <2>2 DEF Complete, MemoryTypeOK, Task
    <3>2. ASSUME NEW r \in Runs, r = task[w].run PROVE Settled(r)'
      BY <1>1, <3>1, <3>2, SettledStep DEF NothingOpenBefore
    <3>. QED
      BY <2>2, <3>1, <3>2 DEF Settled, Earlier, OfSession
  <2>. QED
    BY <1>1, <1>2, <2>1, <2>2, SummarySteps
<1>3. ASSUME NEW w \in Workers, task'[w].phase \in {"extract", "commit"} PROVE Settled(task[w].run)'
  <2>1. task[w].phase # "idle" /\ task'[w].run = task[w].run /\ task[w].run \in Runs
    BY <1>1, <1>3, TaskSteps DEF MemoryTypeOK, Task
  <2>2. task[w].phase \in {"extract", "commit"} \/ ~EarlierPending(task[w].run)
    BY <1>1, <1>3, TaskSteps
  <2>3. Settled(task[w].run)
    <3>1. CASE ~EarlierPending(task[w].run)
      BY <1>1, <2>1, <3>1 DEF EarlierPending, Settled, Claimed, RunsInTurn
    <3>. QED
      BY <1>1, <2>2, <3>1 DEF NothingOpenBefore
  <2>4. ASSUME NEW r \in Runs, r = task[w].run PROVE Settled(r)'
    BY <2>3, <2>4, SettledStep
  <2>. QED
    BY <2>1, <2>4 DEF Settled, Earlier, OfSession
<1>. QED
  BY <1>2, <1>3 DEF NothingOpenBefore, OfSession

\* Every step keeps what tasks have claimed.
LEMMA ClaimedStep == ASSUME MemoryInv, [MemoryNext]_memoryVars PROVE Claimed'
<1>1. MemoryTypeOK /\ RunsInTurn /\ Claimed
  BY DEF MemoryInv
<1>2. ASSUME NEW w \in Workers, task'[w].phase # "idle"
      PROVE  job'[task'[w].run].status # "none" /\ task'[w].token <= job'[task'[w].run].token
  <2>1. CASE job'[task'[w].run].status = "running" /\ task'[w].token = job'[task'[w].run].token
             /\ task'[w].run \in Runs
    BY <1>1, <2>1, RowSteps
  <2>2. CASE task[w].phase # "idle" /\ task'[w].run = task[w].run /\ task'[w].token = task[w].token
    <3>1. /\ task[w].run \in Runs /\ task[w].token \in Nat /\ job[task[w].run].token \in Nat
          /\ task[w].token <= job[task[w].run].token /\ job[task[w].run].status # "none"
      BY <1>1, <2>2 DEF MemoryTypeOK, Task, Job, Claimed
    <3>. QED
      BY <1>1, <2>2, <3>1, RowSteps
  <2>. QED
    BY <1>1, <1>2, <2>1, <2>2, TaskSteps
<1>. QED
  BY <1>2 DEF Claimed

\* A task that has lost its job never gets it back.
LEMMA LostStep ==
  ASSUME MemoryInv, [MemoryNext]_memoryVars, NEW w \in Workers, task[w].run \in Runs, Lost(w),
         task'[w].run = task[w].run, task'[w].token = task[w].token, task[w].token \in Nat
  PROVE  Lost(w)'
<1>1. MemoryTypeOK /\ RunsInTurn /\ Claimed
  BY DEF MemoryInv
<1>2. /\ job[task[w].run].token \in Nat /\ job'[task[w].run].token \in Nat
      /\ job'[task[w].run].token >= job[task[w].run].token
      /\ job[task[w].run].status = "succeeded" => job'[task[w].run].status = "succeeded"
  BY <1>1, RowSteps DEF MemoryTypeOK, Job
<1>. QED
  BY <1>2 DEF Lost

\* An erasure stops the runs and jobs of the session.
LEMMA EraseFences ==
  ASSUME MemoryInv, NEW r \in Runs, NEW role \in Role, Erase(r, role)
  PROVE  /\ run'[r] \in {"stopping", "over"} /\ job'[r].status \in {"none", "succeeded"}
         /\ \A w \in Workers : task'[w].phase # "idle" /\ SessionOf[task'[w].run] = SessionOf[r]
              => Lost(w)'
<1>1. MemoryTypeOK /\ RunsInTurn /\ Claimed
  BY DEF MemoryInv
<1>2. run[r] # "absent" /\ run'[r] \in (IF run[r] = "active" THEN {"stopping", "over"} ELSE {run[r]}) /\ task' = task
  BY <1>1 DEF Erase
<1>3. run'[r] \in {"stopping", "over"}
  BY <1>1, <1>2 DEF MemoryTypeOK
<1>4. ASSUME NEW q \in Runs, SessionOf[q] = SessionOf[r]
      PROVE  /\ job[q].status \in {"none", "succeeded"} => job'[q] = job[q]
             /\ job[q].status \notin {"none", "succeeded"} =>
                  job'[q].status = "succeeded"
  <2>. DEFINE row == [job[q] EXCEPT !.status = "succeeded", !.token = @ + 1, !.lease = FALSE]
  <2>1. job'[q] = IF job[q].status \notin {"none", "succeeded"} THEN row ELSE job[q]
    BY <1>4 DEF Erase
  <2>2. row.status = "succeeded"
    BY <1>1 DEF MemoryTypeOK, Job
  <2>. HIDE DEF row
  <2>. QED
    BY <2>1, <2>2
<1>5. ASSUME NEW w \in Workers, task'[w].phase # "idle", SessionOf[task'[w].run] = SessionOf[r]
      PROVE  Lost(w)'
  <2>1. task[w].run \in Runs /\ task'[w].run = task[w].run /\ job[task[w].run].status # "none"
    BY <1>1, <1>2, <1>5 DEF MemoryTypeOK, Task, Claimed
  <2>2. job'[task[w].run].status = "succeeded"
    BY <1>4, <1>5, <2>1
  <2>. QED
    BY <2>1, <2>2 DEF Lost
<1>. QED
  BY <1>3, <1>4, <1>5

\* What is erased now and was not before is erased by that step.
LEMMA ErasureSteps ==
  ASSUME [MemoryNext]_memoryVars, NEW m \in erased', m \notin erased
  PROVE  \E r \in Runs, role \in Role : Erase(r, role) /\ m = <<r, role>>
<1>1. \A w \in Workers : TaskStep(w) \/ Crash(w) => erased' = erased
  BY DEF TaskStep, Claim, ClaimNone, ReadSource, CheckEarlier, Extract, Breaks, LosesLease, Complete, Fail,
         Crash, store
<1>2. \/ \E r \in Runs : StartRun(r) \/ FinishRun(r) \/ LeaseExpires(r) \/ Replay(r)
      \/ \E e \in Editors : EditorStep(e)
      \/ \E s \in Sessions : Clear(s)
      \/ UNCHANGED memoryVars
      => erased' = erased
  BY DEF StartRun, FinishRun, LeaseExpires, Replay, EditorStep, Look, Decide, SetPreference, Clear,
         memoryVars, store
<1>3. \E r \in Runs, role \in Role : Erase(r, role)
  BY <1>1, <1>2 DEF MemoryNext, UserStep
<1>4. PICK r \in Runs, role \in Role : Erase(r, role)
  BY <1>3
<1>5. m = <<r, role>>
  BY <1>4 DEF Erase
<1>. QED
  BY <1>4, <1>5

\* Every step keeps the fence around what was erased.
LEMMA FencedStep == ASSUME MemoryInv, [MemoryNext]_memoryVars PROVE ErasedIsFenced'
<1>1. MemoryTypeOK /\ RunsInTurn /\ Claimed /\ ErasedIsFenced /\ ErasedLeavesNothing
  BY DEF MemoryInv
<1>. DEFINE Fenced(m) == /\ run[m[1]] \in {"stopping", "over"}
                         /\ job[m[1]].status \in {"none", "succeeded"}
                         /\ \A w \in Workers :
                              /\ task[w].phase # "idle" /\ m[1] \in task[w].text
                              /\ SessionOf[task[w].run] = SessionOf[m[1]]
                              => Lost(w)
<1>2. ASSUME NEW m \in erased PROVE Fenced(m)'
  <2>1. m[1] \in Runs /\ Fenced(m)
    BY <1>1 DEF MemoryTypeOK, ErasedIsFenced
  <2>2. run'[m[1]] \in {"stopping", "over"} /\ job'[m[1]].status \in {"none", "succeeded"}
    BY <1>1, <2>1, RowSteps
  <2>3. ASSUME NEW w \in Workers, task'[w].phase # "idle", m[1] \in task'[w].text,
               SessionOf[task'[w].run] = SessionOf[m[1]]
        PROVE  Lost(w)'
    <3>1. /\ task[w].phase # "idle" /\ task[w].run \in Runs /\ task[w].token \in Nat
          /\ task'[w].run = task[w].run /\ task'[w].token = task[w].token
          /\ \/ m[1] \in task[w].text
             \/ m[1] \in summary[SessionOf[task[w].run]].text \union {task[w].run}
      BY <1>1, <2>3, TaskSteps DEF MemoryTypeOK, Task
    <3>2. CASE m[1] \in task[w].text
      BY <2>1, <2>3, <3>1, <3>2, LostStep
    <3>3. CASE m[1] \in summary[SessionOf[task[w].run]].text
      BY <1>1, <2>3, <3>1, <3>3 DEF ErasedLeavesNothing
    <3>4. CASE m[1] = task[w].run
      <4>1. Lost(w)
        BY <1>1, <2>1, <3>1, <3>4 DEF Claimed, Lost
      <4>. QED
        BY <3>1, <4>1, LostStep
    <3>. QED
      BY <3>1, <3>2, <3>3, <3>4
  <2>. QED
    BY <2>2, <2>3
<1>3. ASSUME NEW m \in erased', m \notin erased PROVE Fenced(m)'
  <2>1. PICK r \in Runs, role \in Role : Erase(r, role) /\ m = <<r, role>>
    BY <1>3, ErasureSteps
  <2>. QED
    BY <2>1, EraseFences
<1>. QED
  BY <1>2, <1>3 DEF ErasedIsFenced

\* Every step leaves nothing of what was erased.
LEMMA LeavesStep == ASSUME MemoryInv, [MemoryNext]_memoryVars PROVE ErasedLeavesNothing'
<1>1. MemoryTypeOK /\ RunsInTurn /\ Claimed /\ ErasedIsFenced /\ ErasedLeavesNothing
  BY DEF MemoryInv
<1>. DEFINE Left(m) == /\ m[1] \notin summary[SessionOf[m[1]]].text
                       /\ m[1] \notin drafts[SessionOf[m[1]]]
                       /\ m[2] = "user" => /\ pref.source # m[1]
                                           /\ m[1] \notin revisions
                                           /\ candidate[m[1]] \notin {"pending", "accepted"}
<1>2. ASSUME NEW m \in erased PROVE Left(m)'
  <2>. DEFINE s == SessionOf[m[1]]
  <2>1. m[1] \in Runs /\ s \in Sessions /\ Left(m) /\ job[m[1]].status \in {"none", "succeeded"}
    BY <1>1, MemoryAssumption DEF MemoryTypeOK, ErasedIsFenced, ErasedLeavesNothing
  <2>2. ASSUME NEW w \in Workers, Complete(w), s = SessionOf[task[w].run]
        PROVE  m[1] \notin task[w].text
    <3>1. /\ task[w].phase = "commit" /\ task[w].run \in Runs /\ task[w].token \in Nat
          /\ job[task[w].run].status = "running" /\ job[task[w].run].token = task[w].token
      BY <1>1, <2>2 DEF Complete, Holds, MemoryTypeOK, Task
    <3>2. ~Lost(w)
      BY <3>1 DEF Lost
    <3>. QED
      BY <1>1, <2>2, <3>1, <3>2 DEF ErasedIsFenced
  <2>3. m[1] \notin summary'[s].text /\ m[1] \notin drafts'[s]
    <3>1. CASE summary'[s] = summary[s] /\ drafts'[s] = drafts[s]
      BY <2>1, <3>1
    <3>2. CASE /\ summary'[s] = summary[s] \/ (summary'[s].status = "revoked" /\ summary'[s].text = {})
               /\ drafts'[s] \subseteq drafts[s]
      BY <2>1, <3>2
    <3>3. ASSUME NEW w \in Workers, Complete(w), s = SessionOf[task[w].run],
                 summary'[s] = [status |-> "active", text |-> task[w].text, mark |-> task[w].run],
                 drafts'[s] = drafts[s] \union task[w].text
          PROVE  m[1] \notin summary'[s].text /\ m[1] \notin drafts'[s]
      BY <2>1, <2>2, <3>3
    <3>. HIDE DEF s
    <3>. QED
      BY <1>1, <2>1, <3>1, <3>2, <3>3, SummarySteps
  <2>4. m[2] = "user" => /\ pref'.source # m[1]
                         /\ m[1] \notin revisions'
                         /\ candidate'[m[1]] \notin {"pending", "accepted"}
    BY <1>1, <2>1, Unlearnt
  <2>. QED
    BY <2>3, <2>4
<1>3. ASSUME NEW m \in erased', m \notin erased PROVE Left(m)'
  <2>1. PICK r \in Runs, role \in Role : Erase(r, role) /\ m = <<r, role>>
    BY <1>3, ErasureSteps
  <2>. DEFINE s == SessionOf[r]
  <2>2. s \in Sessions /\ m[1] = r /\ m[2] = role /\ r # 0
    BY <2>1, MemoryAssumption DEF Runs
  <2>3. r \notin summary'[s].text
    <3>. DEFINE new == [summary[s] EXCEPT !.status = "revoked", !.text = {}]
    <3>1. summary'[s] = IF summary[s].status = "none" THEN summary[s] ELSE new
      BY <1>1, <2>1, <2>2 DEF Erase, MemoryTypeOK
    <3>2. new.text = {} /\ (summary[s].status = "none" => summary[s].text = {})
      BY <1>1, <2>2 DEF MemoryTypeOK, Entry
    <3>. HIDE DEF new
    <3>. QED
      BY <3>1, <3>2
  <2>4. r \notin drafts'[s]
    BY <1>1, <2>1, <2>2 DEF Erase, MemoryTypeOK
  <2>5. ASSUME role = "user"
        PROVE  pref'.source # r /\ r \notin revisions' /\ candidate'[r] \notin {"pending", "accepted"}
    <3>1. Unlearn(r)
      BY <2>1, <2>5 DEF Erase
    <3>2. pref'.source # r
      <4>. DEFINE new == [pref EXCEPT !.version = @ + 1, !.value = NoValue, !.source = 0]
      <4>1. new.source = 0
        BY <1>1 DEF MemoryTypeOK, Pref
      <4>2. pref' = IF pref.source # r THEN pref ELSE new
        BY <3>1 DEF Unlearn
      <4>. HIDE DEF new
      <4>. QED
        BY <2>2, <4>1, <4>2
    <3>. QED
      BY <1>1, <3>1, <3>2 DEF Unlearn, MemoryTypeOK
  <2>. QED
    BY <2>2, <2>3, <2>4, <2>5
<1>. QED
  BY <1>2, <1>3 DEF ErasedLeavesNothing

\* How a step may change the preference.
LEMMA PrefSteps ==
  ASSUME MemoryInv, [MemoryNext]_memoryVars
  PROVE  \/ pref' = pref
         \/ /\ pref'.version = pref.version + 1
            /\ \/ \E w \in Workers :
                    /\ Complete(w) /\ pref'.source = task[w].run
                    /\ pref.version = 0 \/ pref'.value = pref.value
               \/ /\ UNCHANGED <<job, task>>
                  /\ pref'.source = 0 \/ (\E r \in Runs : candidate[r] = "pending" /\ pref'.source = r)
               \/ erased' # erased /\ pref'.source = 0
<1>. DEFINE Learns == \E w \in Workers : /\ Complete(w) /\ pref'.source = task[w].run
                                         /\ pref.version = 0 \/ pref'.value = pref.value
            Edits == /\ UNCHANGED <<job, task>>
                     /\ pref'.source = 0 \/ (\E r \in Runs : candidate[r] = "pending" /\ pref'.source = r)
            Unlearns == erased' # erased /\ pref'.source = 0
            G == pref' = pref \/ (pref'.version = pref.version + 1 /\ (Learns \/ Edits \/ Unlearns))
<1>1. MemoryTypeOK /\ ErasedLeavesNothing /\ pref \in Pref /\ pref.version \in Nat
  BY DEF MemoryInv, MemoryTypeOK, Pref
<1>2. ASSUME NEW w \in Workers, Complete(w) PROVE G
  <2>. DEFINE r == task[w].run
              row == [version |-> pref.version + 1, value |-> Says[r], source |-> r, upTo |-> r]
  <2>1. pref' = pref \/ Learn(r)
    BY <1>2 DEF Complete
  <2>2. ASSUME Learn(r) PROVE pref' = pref \/ (pref' = row /\ (pref.version = 0 \/ pref.value = Says[r]))
    <3>. HIDE DEF r
    <3>. QED
      BY <2>2 DEF Learn
  <2>3. ASSUME pref' = row, pref.version = 0 \/ pref.value = Says[r] PROVE G
    BY <1>2, <2>3
  <2>. HIDE DEF r, row, G
  <2>. QED
    BY <2>1, <2>2, <2>3 DEF G
<1>3. ASSUME NEW e \in Editors, NEW value \in Values \union {NoValue}, SetPreference(e, value) PROVE G
  BY <1>3 DEF SetPreference, Edit
<1>4. ASSUME NEW e \in Editors, NEW r \in Runs, NEW accept \in BOOLEAN, Decide(e, r, accept) PROVE G
  BY <1>4 DEF Decide, Edit
<1>5. ASSUME NEW r \in Runs, NEW role \in Role, Erase(r, role) PROVE G
  <2>. DEFINE new == [pref EXCEPT !.version = @ + 1, !.value = NoValue, !.source = 0]
  <2>1. new.version = pref.version + 1 /\ new.source = 0
    BY <1>1 DEF Pref
  <2>2. pref' = pref \/ (pref.source = r /\ role = "user" /\ pref' = new)
    BY <1>5 DEF Erase, Unlearn
  <2>3. ASSUME pref.source = r, role = "user" PROVE erased' # erased
    <3>1. <<r, role>> \notin erased
      BY <1>1, <2>3 DEF ErasedLeavesNothing
    <3>2. <<r, role>> \in erased'
      BY <1>5 DEF Erase
    <3>. QED
      BY <3>1, <3>2
  <2>. HIDE DEF new
  <2>. QED
    BY <2>1, <2>2, <2>3
<1>6. \A w \in Workers :
        ClaimNone(w) \/ ReadSource(w) \/ CheckEarlier(w) \/ Extract(w) \/ Breaks(w) \/ LosesLease(w)
        \/ Fail(w) \/ Crash(w) \/ (\E q \in Runs : Claim(w, q)) => pref' = pref
  BY DEF ClaimNone, ReadSource, CheckEarlier, Extract, Breaks, LosesLease, Fail, Crash, Claim, store
<1>7. \/ \E q \in Runs : StartRun(q) \/ FinishRun(q) \/ LeaseExpires(q) \/ Replay(q)
      \/ \E s \in Sessions : Clear(s)
      \/ \E e \in Editors : Look(e)
      \/ UNCHANGED memoryVars
      => pref' = pref
  BY DEF StartRun, FinishRun, LeaseExpires, Replay, Clear, Look, memoryVars, store
<1>8. G
  <2>0. pref' = pref => G
    OBVIOUS
  <2>. HIDE DEF G
  <2>. QED
    BY <2>0, <1>2, <1>3, <1>4, <1>5, <1>6, <1>7 DEF MemoryNext, TaskStep, UserStep, EditorStep
<1>. QED
  BY <1>8

\* How a step may change what is cleared.
LEMMA ClearingSteps ==
  ASSUME [MemoryNext]_memoryVars
  PROVE  cleared' = cleared \/ (\E s \in Sessions : Clear(s) /\ cleared' = cleared \union {s})
<1>1. ASSUME NEW s \in Sessions, Clear(s)
      PROVE  \E q \in Sessions : Clear(q) /\ cleared' = cleared \union {q}
  BY <1>1 DEF Clear
<1>2. \A w \in Workers : TaskStep(w) \/ Crash(w) => cleared' = cleared
  BY DEF TaskStep, Claim, ClaimNone, ReadSource, CheckEarlier, Extract, Breaks, LosesLease, Complete, Fail,
         Crash
<1>3. \/ \E r \in Runs : StartRun(r) \/ FinishRun(r) \/ LeaseExpires(r) \/ Replay(r)
      \/ \E r \in Runs, role \in Role : Erase(r, role)
      \/ \E e \in Editors : EditorStep(e)
      \/ UNCHANGED memoryVars
      => cleared' = cleared
  BY DEF StartRun, FinishRun, LeaseExpires, Replay, Erase, EditorStep, Look, SetPreference, Decide,
         memoryVars
<1>. QED
  BY <1>1, <1>2, <1>3 DEF MemoryNext, UserStep

\* How a step may change what an editor shows.
LEMMA SeenSteps ==
  ASSUME MemoryTypeOK, [MemoryNext]_memoryVars, NEW e \in Editors
  PROVE  \/ seen'[e] = seen[e]
         \/ seen'[e] = {pref} /\ pref' = pref
         \/ seen'[e] = {} /\ (pref' = pref \/ ExpectedVersion(e))
<1>. DEFINE S == \/ seen'[e] = seen[e]
                 \/ seen'[e] = {pref} /\ pref' = pref
                 \/ seen'[e] = {} /\ (pref' = pref \/ ExpectedVersion(e))
<1>1. seen \in [Editors -> SUBSET Pref]
  BY DEF MemoryTypeOK
<1>2. ASSUME NEW d \in Editors, EditorStep(d) PROVE S
  <2>1. CASE Look(d)
    BY <1>1, <2>1 DEF Look, store
  <2>2. ASSUME NEW value, SetPreference(d, value) PROVE S
    BY <1>1, <2>2 DEF SetPreference, Sends
  <2>3. ASSUME NEW r, NEW accept, Decide(d, r, accept) PROVE S
    BY <1>1, <2>3 DEF Decide, Sends
  <2>. HIDE DEF S
  <2>. QED
    BY <1>2, <2>1, <2>2, <2>3 DEF EditorStep
<1>3. ASSUME NEW s \in Sessions, Clear(s) PROVE S
  BY <1>3 DEF Clear
<1>4. \A w \in Workers : TaskStep(w) \/ Crash(w) => seen' = seen
  BY DEF TaskStep, Claim, ClaimNone, ReadSource, CheckEarlier, Extract, Breaks, LosesLease, Complete, Fail,
         Crash
<1>5. \/ \E r \in Runs : StartRun(r) \/ FinishRun(r) \/ LeaseExpires(r) \/ Replay(r)
      \/ \E r \in Runs, role \in Role : Erase(r, role)
      \/ UNCHANGED memoryVars
      => seen' = seen
  BY DEF StartRun, FinishRun, LeaseExpires, Replay, Erase, memoryVars
<1>6. seen' = seen => S
  OBVIOUS
<1>7. S
  <2>. HIDE DEF S
  <2>. QED
    BY <1>2, <1>3, <1>4, <1>5, <1>6 DEF MemoryNext, UserStep
<1>. QED
  BY <1>7

\* Every step keeps what was cleared revoked, and what editors show behind the preference.
LEMMA LooksStep == ASSUME MemoryInv, [MemoryNext]_memoryVars PROVE LooksAreTrue'
<1>1. /\ MemoryTypeOK /\ LooksAreTrue /\ pref.version \in Nat
      /\ pref' = pref \/ pref'.version = pref.version + 1
  BY PrefSteps DEF MemoryInv, MemoryTypeOK, Pref
<1>2. ASSUME NEW s \in cleared' PROVE summary'[s].status = "revoked"
  <2>1. CASE s \in cleared
    BY <1>1, <2>1, SummarySteps DEF MemoryTypeOK, LooksAreTrue
  <2>2. CASE s \notin cleared
    BY <1>1, <1>2, <2>2, ClearingSteps DEF Clear, MemoryTypeOK
  <2>. QED
    BY <2>1, <2>2
<1>3. ASSUME NEW e \in Editors, NEW row \in seen'[e]
      PROVE  /\ seen'[e] = {row} /\ row.version <= pref'.version
             /\ row.version = pref'.version => row = pref'
  <2>1. CASE seen'[e] = seen[e]
    <3>1. /\ seen[e] = {row} /\ row.version <= pref.version /\ row.version \in Nat
          /\ row.version = pref.version => row = pref
      BY <1>1, <1>3, <2>1 DEF LooksAreTrue, MemoryTypeOK, Pref
    <3>. QED
      BY <1>1, <2>1, <3>1
  <2>2. CASE seen'[e] = {pref} /\ pref' = pref
    BY <1>1, <1>3, <2>2
  <2>. QED
    BY <1>1, <1>3, <2>1, <2>2, SeenSteps
<1>. QED
  BY <1>2, <1>3 DEF LooksAreTrue

\* The watermark follows from what is open before it.
LEMMA Covered == MemoryTypeOK /\ NothingOpenBefore => CoveredInOrder
<1>. SUFFICES ASSUME MemoryTypeOK, NothingOpenBefore, NEW s \in Sessions, NEW r \in Runs,
                     summary[s].status = "active", r \in OfSession(s), r < summary[s].mark
              PROVE  job[r].status \in {"none", "succeeded"}
  BY DEF CoveredInOrder
<1>1. summary[s].mark \in OfSession(s) /\ Settled(summary[s].mark)
  BY DEF NothingOpenBefore
<1>2. r \in Earlier(summary[s].mark)
  BY <1>1 DEF Earlier, OfSession
<1>. QED
  BY <1>1, <1>2 DEF Settled

\* The invariant holds at first.
LEMMA InvInit == MemoryInit => MemoryInv
<1>. SUFFICES ASSUME MemoryInit PROVE MemoryInv
  OBVIOUS
<1>1. MemoryTypeOK
  BY InitTyped
<1>2. RunsInTurn /\ NothingOpenBefore /\ Claimed /\ ErasedIsFenced /\ LooksAreTrue
      /\ ErasedLeavesNothing
  BY DEF MemoryInit, RunsInTurn, NothingOpenBefore, Claimed, ErasedIsFenced, LooksAreTrue,
         ErasedLeavesNothing, NoJob, NoEntry, IdleTask
<1>. QED
  BY <1>1, <1>2, Covered DEF MemoryInv

\* Every step keeps the invariant.
LEMMA InvStep == MemoryInv /\ [MemoryNext]_memoryVars => MemoryInv'
<1>. SUFFICES ASSUME MemoryInv, [MemoryNext]_memoryVars PROVE MemoryInv'
  OBVIOUS
<1>1. MemoryTypeOK'
  BY TypeStep DEF MemoryInv
<1>2. NothingOpenBefore'
  BY NothingOpenStep
<1>3. CoveredInOrder'
  BY <1>1, <1>2, Covered, PTL
<1>. QED
  BY <1>1, <1>2, <1>3, TurnStep, ClaimedStep, FencedStep, LooksStep, LeavesStep DEF MemoryInv

\* The inductive invariant of the memory holds in every state.
THEOREM MemoryIsSafe == MemorySpec => []MemoryInv
  BY InvInit, InvStep, PTL DEF MemorySpec

\* No watermark passes an open job: a summary claims no run that a failed, dead or
\* replayed job of the session still has to give.
THEOREM CoversInOrder == MemorySpec => []CoveredInOrder
  BY MemoryIsSafe, PTL DEF MemoryInv

\* What was made from an erased message is never read again.
THEOREM ErasureHolds == MemorySpec => []ErasedLeavesNothing
  BY MemoryIsSafe, PTL DEF MemoryInv

\* A summary that its user cleared is not written again by a job that was claimed, retried or
\* replayed before or after.
THEOREM ClearHolds == MemorySpec => ClearedForGood
<1>1. ASSUME MemoryInv, [MemoryNext]_memoryVars, NEW s \in cleared PROVE summary'[s].status = "revoked"
  <2>1. MemoryTypeOK /\ s \in Sessions /\ summary[s].status = "revoked"
    BY <1>1 DEF MemoryInv, MemoryTypeOK, LooksAreTrue
  <2>. QED
    BY <1>1, <2>1, SummarySteps
<1>2. MemoryInv /\ [MemoryNext]_memoryVars
        => [\A s \in cleared : summary'[s].status = "revoked"]_memoryVars
  BY <1>1
<1>. QED
  BY <1>2, MemoryIsSafe, PTL DEF MemorySpec, ClearedForGood

\* An edit or a confirmation replaces the row that its author saw and no other, whatever jobs,
\* erasures and other editors did since it looked.
THEOREM EditsHold == MemorySpec => EditsAreInformed
<1>1. ASSUME MemoryInv, [MemoryNext]_memoryVars, NEW e \in Editors, seen'[e] # seen[e], pref' # pref
      PROVE  seen[e] = {pref}
  <2>1. MemoryTypeOK /\ LooksAreTrue
    BY <1>1 DEF MemoryInv
  <2>2. ExpectedVersion(e)
    BY <1>1, <2>1, SeenSteps
  <2>. QED
    BY <2>1, <2>2 DEF ExpectedVersion, LooksAreTrue
<1>2. MemoryInv /\ [MemoryNext]_memoryVars =>
        [\A e \in Editors : seen'[e] # seen[e] /\ pref' # pref => seen[e] = {pref}]_memoryVars
  BY <1>1
<1>. QED
  BY <1>2, MemoryIsSafe, PTL DEF MemorySpec, EditsAreInformed

\* No job changes a preference that was there.
THEOREM TheUserDecides == MemorySpec => UserDecides
<1>1. MemoryInv /\ [MemoryNext]_memoryVars
        => [pref.version > 0 /\ pref'.value # pref.value
              => UNCHANGED <<job, task>> \/ erased' # erased]_memoryVars
  BY PrefSteps DEF MemoryInv, MemoryTypeOK, Pref
<1>. QED
  BY <1>1, MemoryIsSafe, PTL DEF MemorySpec, UserDecides

\* A job takes effect once.
THEOREM TakesEffectOnce == MemorySpec => EffectOnce
<1>1. ASSUME MemoryInv, [MemoryNext]_memoryVars, NEW r \in Runs, job[r].status = "succeeded"
      PROVE  job'[r] = job[r] /\ (pref'.source = r /\ pref.source # r => candidate[r] = "pending")
  <2>1. job'[r] = job[r]
    BY <1>1, RowSteps DEF MemoryInv
  <2>2. r # 0 /\ \A w \in Workers : Complete(w) => task[w].run # r
    BY <1>1, MemoryAssumption DEF Complete, Holds, Runs
  <2>. QED
    BY <1>1, <2>1, <2>2, PrefSteps
<1>2. MemoryInv /\ [MemoryNext]_memoryVars =>
        [\A r \in Runs : job[r].status = "succeeded" =>
           /\ job'[r] = job[r]
           /\ pref'.source = r /\ pref.source # r => candidate[r] = "pending"]_memoryVars
  BY <1>1
<1>. QED
  BY <1>2, MemoryIsSafe, PTL DEF MemorySpec, EffectOnce

\* What its user changed or cleared is not brought back by a job, nor by an edit of somebody
\* who has not seen it.
THEOREM TheUserHasTheLastWord == MemorySpec => UsersHaveTheLastWord
  BY TheUserDecides, EditsHold, ClearHolds DEF UsersHaveTheLastWord
=============================================================================
