------------------------- MODULE ClientPromises_proofs -------------------------
(* Theorems about what the clients of the services are told: by the pipeline of a run    *)
(* (HostedPipeline), for any number of runs, messages and preferences, and, in the       *)
(* second half, by the caches, the streams and the compatible call (ClientPromises), and *)
(* what an agent is told of the rules (AgentSkills).                                      *)
(*   What a run was told is free of what was forgotten because forgetting stops every    *)
(* run that could have read it; what is left to show is that a later run finds nothing   *)
(* of it but in a copy: not in the history, which is cut, not in the replies after the   *)
(* cut, and not in the preferences.                                                       *)
EXTENDS WellFoundedInduction, HostedPipeline, ClientPromises, AgentSkills, SequenceTheorems, FiniteSetTheorems, TLAPS

Statuses == {"queued", "waiting", "running", "stopping"} \union Over
Stages == {"off", "identity", "history", "cutoff", "preflight", "memory", "snapshot", "tools", "model",
           "generated", "shell", "shelling", "finish"}

Message == [run : Nat, role : {"user", "assistant"}, partial : BOOLEAN, from : SUBSET Nat]
RunRow == [kind : {"chat", "command", "shell"}, status : Statuses, parent : Nat, approval : {"none", "approved"},
           shell : BOOLEAN, pinned : SUBSET (Items \X Nat)]
WorkRow == [at : Stages, version : Nat, rows : SUBSET Nat, memory : SUBSET (Items \X Nat), told : SUBSET Nat]

PipelineTyped ==
  /\ message \in Seq(Message) /\ version \in Nat
  /\ cached \in [version : Nat, rows : SUBSET Nat]
  /\ memory \in [Items -> [version : Nat, active : BOOLEAN, source : Nat]]
  /\ runs \in Seq(RunRow) /\ work \in Seq(WorkRow) /\ shells \in Seq({0, 1})
  /\ Len(work) = Len(runs) /\ Len(shells) = Len(runs)

\* A run in this status may still succeed.
Live == {"queued", "waiting", "running"}

\* What is gone was told by a copy that is not, if at all.
Covered(told, gone, said) ==
  \A m \in told \intersect gone :
    \E copy \in told \ gone : copy \in DOMAIN said /\ said[copy].role = "user" /\ m \in said[copy].from

\* How the row of a run, its pipeline and its command fit together.
Fits(row, w, n) ==
  /\ row.shell => /\ row.status \notin {"queued", "waiting"} /\ row.approval = "approved"
                  /\ w.at \in {"shelling", "finish", "off"}
  /\ w.at \in {"shell", "shelling"} => row.approval = "approved"
  /\ w.at = "shelling" => row.shell /\ n = 0
  /\ n = 1 => row.shell
  /\ w.memory \subseteq row.pinned
  /\ row.status = "running" => Covered(w.told, forgotten, message)
RunsFit == \A r \in RunRows : Fits(runs[r], work[r], shells[r])

\* What was read of the history is complete, but for what the cutoff leaves out.
Fresh(rows) == \A m \in rows : m \in DOMAIN message /\ (m > cutoff => ~message[m].partial)
ReadingsAreFresh == Fresh(cached.rows) /\ \A r \in RunRows : Fresh(work[r].rows)

\* A run that is resumed is over and has not started its command; the new one may use no
\* more of the memory.
Resumes(row, p) ==
  p # 0 => /\ p \in RunRows /\ runs[p].status = "ended" /\ ~runs[p].shell
           /\ row.pinned \subseteq runs[p].pinned
ResumedFit == \A r \in RunRows : Resumes(runs[r], runs[r].parent)

RequestsAreKept ==
  \A r \in RunRows : \E m \in DOMAIN message : message[m].run = r /\ message[m].role = "user"
\* No run that can still succeed was asked for before the last forgetting.
LiveAreRecent ==
  \A r \in RunRows : runs[r].status \in Live => \A m \in DOMAIN message : message[m].run = r => m > cutoff
RepliesAreClean ==
  \A m \in DOMAIN message :
    /\ message[m].run \in RunRows
    /\ m > cutoff /\ ~message[m].partial => Covered({m} \union message[m].from, forgotten, message)
ForgottenIsCut == cutoff \in Nat /\ cutoff <= Len(message) /\ forgotten \subseteq 1..cutoff
MemoryIsClean ==
  \A i \in Items : memory[i].active /\ memory[i].source # 0 =>
    memory[i].source \in DOMAIN message \ forgotten /\ message[memory[i].source].role = "user"

PipelineInv ==
  /\ PipelineTyped /\ RunsFit /\ ReadingsAreFresh /\ ResumedFit /\ RequestsAreKept
  /\ LiveAreRecent /\ RepliesAreClean /\ ForgottenIsCut /\ MemoryIsClean

--------------------------------------------------------------------------------
(* Rows that are added and replaced *)

\* A sequence that grows by one row keeps its rows.
LEMMA RowAdded ==
  ASSUME NEW S, NEW s \in Seq(S), NEW e \in S
  PROVE  /\ Append(s, e) \in Seq(S) /\ Len(Append(s, e)) = Len(s) + 1
         /\ DOMAIN Append(s, e) = 1..(Len(s) + 1) /\ DOMAIN s = 1..Len(s) /\ Len(s) \in Nat
         /\ \A i \in DOMAIN s : Append(s, e)[i] = s[i]
         /\ Append(s, e)[Len(s) + 1] = e
BY AppendProperties

\* A sequence one row of which is replaced keeps the others.
LEMMA RowReplaced ==
  ASSUME NEW S, NEW s \in Seq(S), NEW i \in DOMAIN s, NEW e \in S
  PROVE  /\ [s EXCEPT ![i] = e] \in Seq(S) /\ Len([s EXCEPT ![i] = e]) = Len(s)
         /\ DOMAIN [s EXCEPT ![i] = e] = DOMAIN s
         /\ [s EXCEPT ![i] = e][i] = e
         /\ \A j \in DOMAIN s : j # i => [s EXCEPT ![i] = e][j] = s[j]
<1>1. i \in 1..Len(s) /\ DOMAIN s = 1..Len(s) /\ Len(s) \in Nat /\ s \in [1..Len(s) -> S]
  OBVIOUS
<1>2. [s EXCEPT ![i] = e] \in [1..Len(s) -> S] /\ DOMAIN [s EXCEPT ![i] = e] = 1..Len(s)
  BY <1>1
<1>3. [s EXCEPT ![i] = e] \in Seq(S) /\ Len([s EXCEPT ![i] = e]) = Len(s)
  BY <1>1, <1>2
<1> QED BY <1>1, <1>2, <1>3

\* Every run has a row, a place in its pipeline and a command, each of its type.
LEMMA RowsOfRuns ==
  ASSUME PipelineTyped, NEW r \in RunRows
  PROVE  /\ runs[r] \in RunRow /\ work[r] \in WorkRow /\ shells[r] \in {0, 1}
         /\ DOMAIN work = RunRows /\ DOMAIN shells = RunRows /\ RunRows = 1..Len(runs) /\ Len(runs) \in Nat
         /\ r \in Nat /\ r # 0
BY DEF PipelineTyped, RunRows

\* Messages that are added take nothing away, and what covers parts covers all of them.
LEMMA StaysCovered ==
  ASSUME NEW told, NEW gone, NEW said, NEW more, Covered(told, gone, said),
         DOMAIN said \subseteq DOMAIN more, \A m \in DOMAIN said : more[m] = said[m]
  PROVE  Covered(told, gone, more)
BY DEF Covered
LEMMA AllCovered ==
  ASSUME NEW parts, NEW gone, NEW said, \A part \in parts : Covered(part, gone, said)
  PROVE  Covered(UNION parts, gone, said)
<1> SUFFICES ASSUME NEW part \in parts, NEW m \in part \intersect gone
             PROVE  \E copy \in (UNION parts) \ gone :
                      copy \in DOMAIN said /\ said[copy].role = "user" /\ m \in said[copy].from
  BY DEF Covered
<1>1. PICK copy \in part \ gone : copy \in DOMAIN said /\ said[copy].role = "user" /\ m \in said[copy].from
  BY DEF Covered
<1> QED BY <1>1
\* A request covers itself and what it was copied from, and a reply what it was made from.
LEMMA RequestCovered ==
  ASSUME NEW gone, NEW said, NEW m \in DOMAIN said, m \notin gone, said[m].role = "user" \/ Covered(said[m].from, gone, said)
  PROVE  Covered({m} \union said[m].from, gone, said)
BY DEF Covered

\* Nothing has been asked yet.
LEMMA PipelineBegins == PipelineInit => PipelineInv
<1> SUFFICES ASSUME PipelineInit PROVE PipelineInv
  OBVIOUS
<1>1. message = <<>> /\ runs = <<>> /\ work = <<>> /\ shells = <<>> /\ forgotten = {} /\ cutoff = 0 /\ version = 0
  BY DEF PipelineInit
<1>2. RunRows = {} /\ DOMAIN message = {} /\ Len(message) = 0
  BY <1>1 DEF RunRows
<1>3. PipelineTyped
  BY <1>1 DEF PipelineInit, PipelineTyped
<1>4. Fresh(cached.rows)
  BY DEF PipelineInit, Fresh
<1> QED
  BY <1>1, <1>2, <1>3, <1>4
  DEF PipelineInit, PipelineInv, RunsFit, ReadingsAreFresh, ResumedFit, RequestsAreKept, LiveAreRecent, RepliesAreClean,
      ForgottenIsCut, MemoryIsClean

--------------------------------------------------------------------------------
(* One run moves *)

\* A reply of run r, which rests on nothing forgotten or is partial, or none.
Replied(r) ==
  \/ UNCHANGED <<message, version>>
  \/ \E partial \in BOOLEAN, from \in SUBSET Nat :
       /\ partial \/ Covered(from, forgotten, message)
       /\ message' = Append(message, [run |-> r, role |-> "assistant", partial |-> partial, from |-> from])
       /\ version' = version + 1

\* A reply is added to the messages, which stay as they are.
LEMMA RepliesAdd ==
  ASSUME PipelineInv, NEW r \in RunRows, Replied(r), UNCHANGED <<forgotten, cutoff>>
  PROVE  /\ message' \in Seq(Message) /\ version' \in Nat
         /\ DOMAIN message \subseteq DOMAIN message'
         /\ \A m \in DOMAIN message : message'[m] = message[m]
         /\ \A m \in DOMAIN message' \ DOMAIN message :
              /\ m > cutoff /\ message'[m].run = r
              /\ ~message'[m].partial => Covered({m} \union message'[m].from, forgotten, message')
         /\ ForgottenIsCut'
<1>1. /\ message \in Seq(Message) /\ version \in Nat /\ cutoff \in Nat /\ cutoff <= Len(message)
      /\ forgotten \subseteq 1..cutoff /\ r \in Nat
  BY RowsOfRuns DEF PipelineInv, PipelineTyped, ForgottenIsCut
<1>2. CASE UNCHANGED <<message, version>>
  BY <1>1, <1>2 DEF ForgottenIsCut
<1>3. ASSUME NEW partial \in BOOLEAN, NEW from \in SUBSET Nat, partial \/ Covered(from, forgotten, message),
             message' = Append(message, [run |-> r, role |-> "assistant", partial |-> partial, from |-> from]),
             version' = version + 1
      PROVE  /\ message' \in Seq(Message) /\ version' \in Nat
             /\ DOMAIN message \subseteq DOMAIN message'
             /\ \A m \in DOMAIN message : message'[m] = message[m]
             /\ \A m \in DOMAIN message' \ DOMAIN message :
                  /\ m > cutoff /\ message'[m].run = r
                  /\ ~message'[m].partial => Covered({m} \union message'[m].from, forgotten, message')
             /\ ForgottenIsCut'
  <2> DEFINE e == [run |-> r, role |-> "assistant", partial |-> partial, from |-> from]
  <2>1. e \in Message /\ e.run = r /\ e.partial = partial /\ e.from = from
    BY <1>1 DEF Message
  <2>2. message' = Append(message, e)
    BY <1>3
  <2> HIDE DEF e
  <2>3. /\ message' \in Seq(Message) /\ Len(message') = Len(message) + 1
        /\ DOMAIN message' = 1..(Len(message) + 1) /\ DOMAIN message = 1..Len(message) /\ Len(message) \in Nat
        /\ \A m \in DOMAIN message : message'[m] = message[m]
        /\ message'[Len(message) + 1] = e
    BY <1>1, <2>1, <2>2, RowAdded
  <2>4. \A m \in DOMAIN message' \ DOMAIN message : m = Len(message) + 1
    BY <2>3
  <2>5. ForgottenIsCut'
    BY <1>1, <2>3 DEF ForgottenIsCut
  <2>6. version' \in Nat
    BY <1>1, <1>3
  <2>7. Len(message) + 1 > cutoff
    BY <1>1, <2>3
  <2>8. ASSUME NEW m \in DOMAIN message' \ DOMAIN message
        PROVE  /\ m > cutoff /\ message'[m].run = r
               /\ ~message'[m].partial => Covered({m} \union message'[m].from, forgotten, message')
    <3>1. message'[m] = e /\ m > cutoff /\ m \notin forgotten /\ m \in DOMAIN message'
      BY <1>1, <2>3, <2>4, <2>7
    <3>2. partial \/ Covered(from, forgotten, message')
      <4>1. CASE Covered(from, forgotten, message)
        BY <4>1, <2>3, StaysCovered
      <4> QED BY <4>1, <1>3
    <3>3. ASSUME ~message'[m].partial PROVE Covered({m} \union message'[m].from, forgotten, message')
      <4>1. Covered(message'[m].from, forgotten, message')
        BY <2>1, <3>1, <3>2, <3>3
      <4> QED BY <3>1, <4>1, RequestCovered
    <3> QED BY <3>1, <3>3, <2>1
  <2>9. DOMAIN message \subseteq DOMAIN message'
    BY <2>3
  <2> QED BY <2>3, <2>5, <2>6, <2>8, <2>9
<1> QED BY <1>2, <1>3 DEF Replied

\* A step that changes one run keeps the invariant if what it makes of that run fits.
LEMMA OneRunMoves ==
  ASSUME PipelineInv, NEW r \in RunRows, NEW row \in RunRow, NEW w \in WorkRow, NEW n \in {0, 1},
         runs' = [runs EXCEPT ![r] = row], work' = [work EXCEPT ![r] = w], shells' = [shells EXCEPT ![r] = n],
         UNCHANGED <<memory, forgotten, cutoff>>, Replied(r),
         cached' \in [version : Nat, rows : SUBSET Nat], Fresh(cached'.rows), Fresh(w.rows),
         Fits(row, w, n), row.parent = runs[r].parent, row.pinned \subseteq runs[r].pinned,
         runs[r].status = "ended" => row = runs[r],
         row.status \in Live => runs[r].status \in Live
  PROVE  PipelineInv'
<1>1. /\ message' \in Seq(Message) /\ version' \in Nat
      /\ DOMAIN message \subseteq DOMAIN message'
      /\ \A m \in DOMAIN message : message'[m] = message[m]
      /\ \A m \in DOMAIN message' \ DOMAIN message :
           /\ m > cutoff /\ message'[m].run = r
           /\ ~message'[m].partial => Covered({m} \union message'[m].from, forgotten, message')
      /\ ForgottenIsCut'
  BY RepliesAdd
<1>2. /\ runs \in Seq(RunRow) /\ work \in Seq(WorkRow) /\ shells \in Seq({0, 1})
      /\ Len(work) = Len(runs) /\ Len(shells) = Len(runs)
      /\ r \in DOMAIN runs /\ r \in DOMAIN work /\ r \in DOMAIN shells /\ DOMAIN work = RunRows /\ DOMAIN shells = RunRows
  BY RowsOfRuns DEF PipelineInv, PipelineTyped, RunRows
<1>3. /\ runs' \in Seq(RunRow) /\ Len(runs') = Len(runs) /\ RunRows' = RunRows
      /\ runs'[r] = row /\ \A q \in RunRows : q # r => runs'[q] = runs[q]
  BY <1>2, RowReplaced DEF RunRows
<1>4. /\ work' \in Seq(WorkRow) /\ Len(work') = Len(work)
      /\ work'[r] = w /\ \A q \in RunRows : q # r => work'[q] = work[q]
  BY <1>2, RowReplaced
<1>5. /\ shells' \in Seq({0, 1}) /\ Len(shells') = Len(shells)
      /\ shells'[r] = n /\ \A q \in RunRows : q # r => shells'[q] = shells[q]
  BY <1>2, RowReplaced
<1>6. PipelineTyped'
  BY <1>1, <1>2, <1>3, <1>4, <1>5 DEF PipelineInv, PipelineTyped
<1>7. RunsFit'
  <2> SUFFICES ASSUME NEW q \in RunRows PROVE Fits(runs[q], work[q], shells[q])'
    BY <1>3 DEF RunsFit
  <2>0. \A told : Covered(told, forgotten, message) => Covered(told, forgotten', message')
    BY <1>1, StaysCovered
  <2>1. CASE q = r
    BY <2>0, <2>1, <1>3, <1>4, <1>5 DEF Fits
  <2>2. CASE q # r
    <3>1. Fits(runs[q], work[q], shells[q])
      BY DEF PipelineInv, RunsFit
    <3> QED BY <2>0, <2>2, <3>1, <1>3, <1>4, <1>5 DEF Fits
  <2> QED BY <2>1, <2>2
<1>8. ReadingsAreFresh'
  <2>1. \A rows : Fresh(rows) => \A m \in rows : m \in DOMAIN message' /\ (m > cutoff' => ~message'[m].partial)
    BY <1>1 DEF Fresh
  <2>2. \A m \in cached'.rows : m \in DOMAIN message' /\ (m > cutoff' => ~message'[m].partial)
    BY <2>1
  <2>3. ASSUME NEW q \in RunRows
        PROVE  \A m \in work'[q].rows : m \in DOMAIN message' /\ (m > cutoff' => ~message'[m].partial)
    <3>1. Fresh(work[q].rows) /\ Fresh(w.rows)
      BY DEF PipelineInv, ReadingsAreFresh
    <3> QED BY <2>1, <3>1, <1>4
  <2> QED BY <2>2, <2>3, <1>3 DEF ReadingsAreFresh, Fresh
<1>9. ResumedFit'
  <2> SUFFICES ASSUME NEW q \in RunRows, runs'[q].parent # 0
               PROVE  LET p == runs'[q].parent IN
                        /\ p \in RunRows /\ runs'[p].status = "ended" /\ ~runs'[p].shell
                        /\ runs'[q].pinned \subseteq runs'[p].pinned
    BY <1>3 DEF ResumedFit, Resumes
  <2> DEFINE p == runs[q].parent
  <2>1. runs'[q].parent = p /\ runs'[q].pinned \subseteq runs[q].pinned
    BY <1>3
  <2>2. p \in RunRows /\ runs[p].status = "ended" /\ ~runs[p].shell /\ runs[q].pinned \subseteq runs[p].pinned
    BY <2>1 DEF PipelineInv, ResumedFit, Resumes
  <2>3. runs'[p] = runs[p]
    BY <2>2, <1>3
  <2> QED BY <2>1, <2>2, <2>3
<1>10. RequestsAreKept'
  <2>1. ASSUME NEW q \in RunRows PROVE \E m \in DOMAIN message' : message'[m].run = q /\ message'[m].role = "user"
    <3>1. PICK m \in DOMAIN message : message[m].run = q /\ message[m].role = "user"
      BY DEF PipelineInv, RequestsAreKept
    <3>2. m \in DOMAIN message' /\ message'[m] = message[m]
      BY <1>1
    <3> QED BY <3>1, <3>2
  <2> QED BY <2>1, <1>3 DEF RequestsAreKept
<1>11. LiveAreRecent'
  <2> SUFFICES ASSUME NEW q \in RunRows, runs'[q].status \in Live, NEW m \in DOMAIN message', message'[m].run = q
               PROVE  m > cutoff
    BY <1>3 DEF LiveAreRecent
  <2>1. runs[q].status \in Live
    BY <1>3
  <2> QED BY <2>1, <1>1 DEF PipelineInv, LiveAreRecent
<1>12. RepliesAreClean'
  <2>0. \A told : Covered(told, forgotten, message) => Covered(told, forgotten', message')
    BY <1>1, StaysCovered
  <2> SUFFICES ASSUME NEW m \in DOMAIN message'
               PROVE  /\ message'[m].run \in RunRows'
                      /\ m > cutoff /\ ~message'[m].partial => Covered({m} \union message'[m].from, forgotten, message')
    BY DEF RepliesAreClean
  <2>1. CASE m \in DOMAIN message
    BY <2>0, <2>1, <1>1, <1>3 DEF PipelineInv, RepliesAreClean
  <2>2. CASE m \notin DOMAIN message
    BY <2>2, <1>1, <1>3
  <2> QED BY <2>1, <2>2
<1>13. MemoryIsClean'
  BY <1>1 DEF PipelineInv, MemoryIsClean
<1> QED BY <1>1, <1>6, <1>7, <1>8, <1>9, <1>10, <1>11, <1>12, <1>13 DEF PipelineInv

\* The cache is left alone, or has what was read of the table.
CacheKept == cached' = cached \/ \E v \in Nat : cached' = [version |-> v, rows |-> Readable]

\* A cache that was kept, emptied or filled anew holds the rows of its version.
LEMMA CacheIsFresh ==
  ASSUME PipelineInv, CacheKept
  PROVE  cached' \in [version : Nat, rows : SUBSET Nat] /\ Fresh(cached'.rows)
<1>1. cached \in [version : Nat, rows : SUBSET Nat] /\ Fresh(cached.rows)
  BY DEF PipelineInv, PipelineTyped, ReadingsAreFresh
<1>2. Readable \in SUBSET Nat /\ Fresh(Readable)
  BY DEF PipelineInv, PipelineTyped, Readable, Fresh
<1>3. CASE cached' = cached
  BY <1>1, <1>3
<1>4. ASSUME NEW v \in Nat, cached' = [version |-> v, rows |-> Readable]
      PROVE  cached' \in [version : Nat, rows : SUBSET Nat] /\ Fresh(cached'.rows)
  <2>1. cached'.rows = Readable /\ cached' \in [version : Nat, rows : SUBSET Nat]
    BY <1>2, <1>4
  <2> QED BY <1>2, <2>1
<1> QED BY <1>3, <1>4 DEF CacheKept

\* A row that is replaced by itself changes nothing.
LEMMA RowsAsTheyAre ==
  ASSUME PipelineTyped, NEW r \in RunRows
  PROVE  /\ runs = [runs EXCEPT ![r] = runs[r]] /\ shells = [shells EXCEPT ![r] = shells[r]]
         /\ work = [work EXCEPT ![r] = work[r]]
<1>1. /\ runs \in [1..Len(runs) -> RunRow] /\ shells \in [1..Len(shells) -> {0, 1}]
      /\ work \in [1..Len(work) -> WorkRow]
  BY DEF PipelineTyped
<1> QED BY <1>1

\* Only the pipeline of the run moves.
LEMMA PipelineMoves ==
  ASSUME PipelineInv, NEW r \in RunRows, NEW w \in WorkRow, Then(r, w), CacheKept,
         UNCHANGED <<message, version, forgotten, cutoff, memory, runs, shells>>,
         Fresh(w.rows), Fits(runs[r], w, shells[r])
  PROVE  PipelineInv'
<1>1. runs[r] \in RunRow /\ shells[r] \in {0, 1}
  BY RowsOfRuns DEF PipelineInv
<1>2. runs' = [runs EXCEPT ![r] = runs[r]] /\ shells' = [shells EXCEPT ![r] = shells[r]]
  BY RowsAsTheyAre DEF PipelineInv
<1>3. work' = [work EXCEPT ![r] = w] /\ Replied(r)
  BY DEF Then, Replied
<1> QED BY <1>1, <1>2, <1>3, CacheIsFresh, OneRunMoves

\* What the invariant says of one run.
LEMMA FactsOfRun ==
  ASSUME PipelineInv, NEW r \in RunRows
  PROVE  /\ runs[r] \in RunRow /\ work[r] \in WorkRow /\ shells[r] \in {0, 1}
         /\ Fits(runs[r], work[r], shells[r]) /\ Fresh(work[r].rows)
BY RowsOfRuns DEF PipelineInv, RunsFit, ReadingsAreFresh

\* A run that may still succeed was asked by a message that is not forgotten.
LEMMA Requested ==
  ASSUME PipelineInv, NEW r \in RunRows
  PROVE  /\ RequestOf(r) \in DOMAIN message /\ RequestOf(r) \in Nat
         /\ message[RequestOf(r)].role = "user" /\ Behind(RequestOf(r)) \in SUBSET Nat
         /\ runs[r].status \in Live => Covered(Behind(RequestOf(r)), forgotten, message)
<1>1. \E m \in DOMAIN message : message[m].run = r /\ message[m].role = "user"
  BY DEF PipelineInv, RequestsAreKept
<1>2. RequestOf(r) \in DOMAIN message /\ message[RequestOf(r)].run = r /\ message[RequestOf(r)].role = "user"
  BY <1>1 DEF RequestOf
<1>3. RequestOf(r) \in Nat /\ message[RequestOf(r)] \in Message
  BY <1>2 DEF PipelineInv, PipelineTyped
<1>5. Behind(RequestOf(r)) \in SUBSET Nat
  BY <1>3 DEF Behind, Message
<1>4. ASSUME runs[r].status \in Live PROVE Covered(Behind(RequestOf(r)), forgotten, message)
  <2>1. RequestOf(r) > cutoff
    BY <1>2, <1>4 DEF PipelineInv, LiveAreRecent
  <2>2. RequestOf(r) \notin forgotten
    BY <2>1, <1>3 DEF PipelineInv, ForgottenIsCut
  <2> QED BY <2>2, <1>2, RequestCovered DEF Behind
<1> QED BY <1>2, <1>3, <1>4, <1>5

\* A pipeline that has read nothing rests on nothing that is stale.
LEMMA NothingRead == NoWork \in WorkRow /\ Fresh(NoWork.rows)
BY DEF NoWork, WorkRow, Stages, Fresh

\* A run reads who asks.
LEMMA ReadIdentitySafe == ASSUME PipelineInv, NEW r \in RunRows, ReadIdentity(r) PROVE PipelineInv'
<1> DEFINE w == [work[r] EXCEPT !.at = "history", !.version = version]
<1>1. work[r] \in WorkRow /\ version \in Nat /\ work[r].at = "identity" /\ Then(r, w) /\ OnlyWork
  BY FactsOfRun DEF ReadIdentity, Does, PipelineInv, PipelineTyped
<1>2. w \in WorkRow /\ w.at = "history" /\ w.rows = work[r].rows /\ w.told = work[r].told /\ w.memory = work[r].memory
  BY <1>1 DEF WorkRow, Stages
<1> HIDE DEF w
<1>3. Fits(runs[r], w, shells[r]) /\ Fresh(w.rows)
  BY <1>1, <1>2, FactsOfRun DEF Fits
<1>4. CacheKept /\ UNCHANGED <<message, version, forgotten, cutoff, memory, runs, shells>>
  BY <1>1 DEF OnlyWork, session, outside, CacheKept
<1> QED BY <1>1, <1>2, <1>3, <1>4, PipelineMoves

\* A run reads the history, from the cache or from the rows.
LEMMA ReadHistorySafe == ASSUME PipelineInv, NEW r \in RunRows, ReadHistory(r) PROVE PipelineInv'
<1>1. work[r] \in WorkRow /\ work[r].at = "history" /\ work[r].version \in Nat
  BY FactsOfRun DEF ReadHistory, Does, WorkRow
<1>2. PICK rows \in {cached.rows, Readable} : Then(r, [work[r] EXCEPT !.at = "cutoff", !.rows = rows])
  BY DEF ReadHistory
<1> DEFINE w == [work[r] EXCEPT !.at = "cutoff", !.rows = rows]
<1>3. rows \in SUBSET Nat /\ Fresh(rows)
  BY DEF PipelineInv, PipelineTyped, ReadingsAreFresh, Readable, Fresh
<1>4. w \in WorkRow /\ w.at = "cutoff" /\ w.rows = rows /\ w.told = work[r].told /\ w.memory = work[r].memory
  BY <1>1, <1>3 DEF WorkRow, Stages
<1>5. Then(r, w)
  BY <1>2
<1> HIDE DEF w
<1>6. Fits(runs[r], w, shells[r])
  BY <1>1, <1>4, FactsOfRun DEF Fits
<1>7. CacheKept /\ UNCHANGED <<message, version, forgotten, cutoff, memory, runs, shells>>
  BY <1>1 DEF ReadHistory, outside, CacheKept
<1> QED BY <1>3, <1>4, <1>5, <1>6, <1>7, PipelineMoves

\* A run leaves out the messages from before the last forgetting.
LEMMA ReadCutoffSafe == ASSUME PipelineInv, NEW r \in RunRows, ReadCutoff(r) PROVE PipelineInv'
<1> DEFINE rows == {m \in work[r].rows : m > cutoff /\ message[m].run # r}
           told == UNION {Behind(m) : m \in rows \union {RequestOf(r)}}
           w == [NoWork EXCEPT !.at = "preflight", !.told = told]
<1>1. work[r] \in WorkRow /\ work[r].at = "cutoff" /\ Then(r, w) /\ OnlyWork
  BY FactsOfRun DEF ReadCutoff, Does
<1>2. ASSUME NEW m \in rows
      PROVE  Behind(m) \in SUBSET Nat /\ Covered(Behind(m), forgotten, message)
  <2>1. m \in DOMAIN message /\ m > cutoff /\ ~message[m].partial
    BY FactsOfRun DEF Fresh
  <2>2. message[m] \in Message /\ m \in Nat
    BY <2>1 DEF PipelineInv, PipelineTyped
  <2>3. Covered({m} \union message[m].from, forgotten, message)
    BY <2>1 DEF PipelineInv, RepliesAreClean
  <2> QED BY <2>2, <2>3 DEF Behind, Message
<1>3. told \in SUBSET Nat /\ (runs[r].status = "running" => Covered(told, forgotten, message))
  <2>1. told \in SUBSET Nat
    BY <1>2, Requested
  <2>2. ASSUME runs[r].status = "running" PROVE Covered(told, forgotten, message)
    <3> DEFINE parts == {Behind(m) : m \in rows \union {RequestOf(r)}}
    <3>1. Covered(Behind(RequestOf(r)), forgotten, message)
      BY <2>2, Requested DEF Live
    <3>2. \A part \in parts : Covered(part, forgotten, message)
      BY <1>2, <3>1
    <3> HIDE DEF parts
    <3>3. Covered(UNION parts, forgotten, message)
      BY <3>2, AllCovered
    <3> QED BY <3>3 DEF parts
  <2> QED BY <2>1, <2>2
<1> HIDE DEF told
<1>4. /\ w \in WorkRow /\ w.at = "preflight" /\ w.rows = {} /\ w.told = told /\ w.memory = {}
  BY <1>3 DEF WorkRow, Stages, NoWork
<1> HIDE DEF w
<1>5. Fits(runs[r], w, shells[r]) /\ Fresh(w.rows)
  BY <1>1, <1>3, <1>4, FactsOfRun DEF Fits, Fresh, Covered
<1>6. CacheKept /\ UNCHANGED <<message, version, forgotten, cutoff, memory, runs, shells>>
  BY <1>1 DEF OnlyWork, session, outside, CacheKept
<1> QED BY <1>1, <1>4, <1>5, <1>6, PipelineMoves

\* The steps after which the run goes on somewhere else with what it was told.
GoesTo(r, to) ==
  /\ work[r].at \notin {"shelling", "finish", "off"} /\ to \in Stages \ {"shelling"}
  /\ to = "shell" => runs[r].approval = "approved"

\* A run goes on and is told what is not forgotten.
LEMMA GoesOnSafe ==
  ASSUME PipelineInv, NEW r \in RunRows, NEW to, NEW w \in WorkRow, GoesTo(r, to), Then(r, w), OnlyWork,
         w.at = to, w.rows = work[r].rows, w.memory \subseteq runs[r].pinned,
         runs[r].status = "running" => Covered(w.told, forgotten, message)
  PROVE  PipelineInv'
<1>1. Fits(runs[r], w, shells[r]) /\ Fresh(w.rows)
  BY FactsOfRun DEF Fits, GoesTo
<1>2. CacheKept /\ UNCHANGED <<message, version, forgotten, cutoff, memory, runs, shells>>
  BY DEF OnlyWork, session, outside, CacheKept
<1> QED BY <1>1, <1>2, PipelineMoves

\* A run finds that it can be answered at once, has its command approved or goes on.
LEMMA PreflightSafe == ASSUME PipelineInv, NEW r \in RunRows, Preflight(r) PROVE PipelineInv'
<1>1. work[r] \in WorkRow /\ work[r].at = "preflight" /\ OnlyWork
  BY FactsOfRun DEF Preflight, Does
<1>2. PICK to \in {"finish", "shell", "memory"} :
        Then(r, [work[r] EXCEPT !.at = to]) /\ (to = "shell" => runs[r].approval = "approved")
  BY DEF Preflight, Permitted
<1> DEFINE w == [work[r] EXCEPT !.at = to]
<1>3. w \in WorkRow /\ w.at = to /\ w.rows = work[r].rows /\ w.memory = work[r].memory /\ w.told = work[r].told
  BY <1>1 DEF WorkRow, Stages
<1>4. GoesTo(r, to) /\ Then(r, w)
  BY <1>1, <1>2 DEF GoesTo, Stages
<1> HIDE DEF w
<1> QED BY <1>1, <1>3, <1>4, FactsOfRun, GoesOnSafe DEF Fits

\* A run reads the preferences that are put before its model.
LEMMA ReadMemorySafe == ASSUME PipelineInv, NEW r \in RunRows, ReadMemory(r) PROVE PipelineInv'
<1>1. work[r] \in WorkRow /\ work[r].at = "memory" /\ OnlyWork
  BY FactsOfRun DEF ReadMemory, Does
<1>2. CASE Then(r, [work[r] EXCEPT !.at = "tools"])
  <2> DEFINE w == [work[r] EXCEPT !.at = "tools"]
  <2>1. w \in WorkRow /\ w.at = "tools" /\ w.rows = work[r].rows /\ w.memory = work[r].memory /\ w.told = work[r].told
    BY <1>1 DEF WorkRow, Stages
  <2>2. GoesTo(r, "tools") /\ Then(r, w)
    BY <1>1, <1>2 DEF GoesTo, Stages
  <2> HIDE DEF w
  <2> QED BY <1>1, <2>1, <2>2, FactsOfRun, GoesOnSafe DEF Fits
<1>3. CASE Then(r, [work[r] EXCEPT !.at = "snapshot", !.memory = Bundle(r),
                    !.told = @ \union UNION {Behind(m) : m \in {memory[x[1]].source : x \in Bundle(r)} \ {0}}])
  <2> DEFINE parts == {Behind(m) : m \in {memory[x[1]].source : x \in Bundle(r)} \ {0}}
             sources == UNION parts
             w == [work[r] EXCEPT !.at = "snapshot", !.memory = Bundle(r), !.told = @ \union sources]
  <2>1. Bundle(r) \in SUBSET (Items \X Nat) /\ Bundle(r) \subseteq runs[r].pinned
    BY FactsOfRun DEF Bundle, RunRow
  <2>2. ASSUME NEW x \in Bundle(r), memory[x[1]].source # 0
        PROVE  Behind(memory[x[1]].source) \in SUBSET Nat /\ Covered(Behind(memory[x[1]].source), forgotten, message)
    <3> DEFINE m == memory[x[1]].source
    <3>1. PICK i \in Items : memory[i].active /\ x = <<i, memory[i].version>>
      BY DEF Bundle, UsableNow
    <3>2. m \in DOMAIN message /\ m \notin forgotten /\ message[m].role = "user"
      BY <2>2, <3>1 DEF PipelineInv, MemoryIsClean
    <3>3. message[m] \in Message /\ m \in Nat
      BY <3>2 DEF PipelineInv, PipelineTyped
    <3> HIDE DEF m
    <3>4. Behind(m) \in SUBSET Nat /\ Covered(Behind(m), forgotten, message)
      BY <3>2, <3>3, RequestCovered DEF Behind, Message
    <3> QED BY <3>4 DEF m
  <2>3. sources \in SUBSET Nat /\ Covered(sources, forgotten, message)
    <3>1. \A part \in parts : part \in SUBSET Nat /\ Covered(part, forgotten, message)
      BY <2>2
    <3> HIDE DEF parts
    <3> QED BY <3>1, AllCovered
  <2> HIDE DEF sources
  <2>4. w \in WorkRow /\ w.at = "snapshot" /\ w.rows = work[r].rows /\ w.memory = Bundle(r)
        /\ w.told = work[r].told \union sources
    BY <1>1, <2>1, <2>3 DEF WorkRow, Stages
  <2>5. GoesTo(r, "snapshot")
    BY <1>1 DEF GoesTo, Stages
  <2>6. Then(r, w)
    BY <1>3 DEF sources
  <2> HIDE DEF w, parts
  <2>7. runs[r].status = "running" => Covered(w.told, forgotten, message)
    <3> SUFFICES ASSUME runs[r].status = "running" PROVE Covered(w.told, forgotten, message)
      OBVIOUS
    <3>1. Covered(work[r].told, forgotten, message)
      BY FactsOfRun DEF Fits
    <3>2. Covered(UNION {work[r].told, sources}, forgotten, message)
      BY <2>3, <3>1, AllCovered
    <3>3. w.told = UNION {work[r].told, sources}
      BY <2>4
    <3> QED BY <3>2, <3>3
  <2> QED BY <1>1, <2>1, <2>4, <2>5, <2>6, <2>7, GoesOnSafe
<1> QED BY <1>2, <1>3 DEF ReadMemory

\* A run searches the knowledge base.
LEMMA SearchSafe == ASSUME PipelineInv, NEW r \in RunRows, SearchKnowledge(r) PROVE PipelineInv'
<1>1. work[r] \in WorkRow /\ work[r].at = "tools" /\ OnlyWork
  BY FactsOfRun DEF SearchKnowledge, Does
<1>2. PICK to \in {"model", "finish"} : Then(r, [work[r] EXCEPT !.at = to])
  BY DEF SearchKnowledge
<1> DEFINE w == [work[r] EXCEPT !.at = to]
<1>3. w \in WorkRow /\ w.at = to /\ w.rows = work[r].rows /\ w.memory = work[r].memory /\ w.told = work[r].told
  BY <1>1 DEF WorkRow, Stages
<1>4. GoesTo(r, to) /\ Then(r, w)
  BY <1>1, <1>2 DEF GoesTo, Stages
<1> HIDE DEF w
<1> QED BY <1>1, <1>3, <1>4, FactsOfRun, GoesOnSafe DEF Fits

\* A run generates its answer and delivers it.
LEMMA AnswerSafe ==
  ASSUME PipelineInv, NEW r \in RunRows, GenerateAnswer(r) \/ DeliverAnswer(r) PROVE PipelineInv'
<1>1. work[r] \in WorkRow /\ work[r].at \in {"model", "generated"} /\ OnlyWork
  BY FactsOfRun DEF GenerateAnswer, DeliverAnswer, Does
<1>2. PICK to \in {"generated", "finish"} : Then(r, [work[r] EXCEPT !.at = to])
  BY DEF GenerateAnswer, DeliverAnswer
<1> DEFINE w == [work[r] EXCEPT !.at = to]
<1>3. w \in WorkRow /\ w.at = to /\ w.rows = work[r].rows /\ w.memory = work[r].memory /\ w.told = work[r].told
  BY <1>1 DEF WorkRow, Stages
<1>4. GoesTo(r, to) /\ Then(r, w)
  BY <1>1, <1>2 DEF GoesTo, Stages
<1> HIDE DEF w
<1> QED BY <1>1, <1>3, <1>4, FactsOfRun, GoesOnSafe DEF Fits

\* The row of the run moves too, and it may reply.
LEMMA RowMovesToo ==
  ASSUME PipelineInv, NEW r \in RunRows, NEW row \in RunRow, NEW w \in WorkRow,
         runs' = [runs EXCEPT ![r] = row], work' = [work EXCEPT ![r] = w],
         UNCHANGED <<memory, forgotten, cutoff, cached, shells>>, Replied(r),
         Fresh(w.rows), Fits(row, w, shells[r]),
         row.parent = runs[r].parent, row.pinned \subseteq runs[r].pinned,
         runs[r].status # "ended", row.status \in Live => runs[r].status \in Live
  PROVE  PipelineInv'
<1>1. shells[r] \in {0, 1} /\ shells' = [shells EXCEPT ![r] = shells[r]]
  BY RowsOfRuns, RowsAsTheyAre DEF PipelineInv
<1>2. cached' \in [version : Nat, rows : SUBSET Nat] /\ Fresh(cached'.rows)
  BY CacheIsFresh DEF CacheKept
<1> QED BY <1>1, <1>2, OneRunMoves

\* A worker claims a run.
LEMMA ClaimSafe == ASSUME PipelineInv, NEW r \in RunRows, Claim(r) PROVE PipelineInv'
<1> DEFINE row == [runs[r] EXCEPT !.status = "running"]
           w == [NoWork EXCEPT !.at = "identity"]
<1>1. runs[r] \in RunRow /\ runs[r].status = "queued" /\ work' = [work EXCEPT ![r] = w] /\ UNCHANGED <<session, outside, shells>>
  BY FactsOfRun DEF Claim
<1>2. runs' = [runs EXCEPT ![r] = row]
  BY DEF Claim
<1>3. /\ row \in RunRow /\ row.status = "running" /\ row.shell = runs[r].shell /\ row.parent = runs[r].parent
      /\ row.pinned = runs[r].pinned /\ row.approval = runs[r].approval
  BY <1>1 DEF RunRow, Statuses
<1>4. w \in WorkRow /\ w.at = "identity" /\ w.rows = {} /\ w.memory = {} /\ w.told = {}
  BY DEF WorkRow, Stages, NoWork
<1> HIDE DEF row, w
<1>5. Fits(row, w, shells[r]) /\ Fresh(w.rows)
  BY <1>1, <1>3, <1>4, FactsOfRun DEF Fits, Fresh, Covered
<1>6. Replied(r) /\ UNCHANGED <<memory, forgotten, cutoff, cached, shells>>
  BY <1>1 DEF Replied, session, outside
<1>7. runs[r].status # "ended" /\ runs[r].status \in Live
  BY <1>1 DEF Live
<1> QED BY <1>2, <1>1, <1>3, <1>4, <1>5, <1>6, <1>7, RowMovesToo

\* The user, the sweeper and the worker that gives up move the status of the row.
LEMMA StatusSafe ==
  ASSUME PipelineInv, NEW r \in RunRows, ApproveCommand(r) \/ RejectRun(r) \/ GiveUpRun(r)
  PROVE  PipelineInv'
<1>1. /\ runs[r] \in RunRow /\ work[r] \in WorkRow /\ work' = [work EXCEPT ![r] = work[r]]
      /\ UNCHANGED <<session, outside, shells>>
  BY FactsOfRun, RowsAsTheyAre DEF ApproveCommand, RejectRun, GiveUpRun, PipelineInv
<1>2. PICK row \in RunRow :
        /\ runs' = [runs EXCEPT ![r] = row] /\ row.shell = runs[r].shell /\ row.parent = runs[r].parent
        /\ row.pinned = runs[r].pinned /\ runs[r].status # "ended"
        /\ \/ row.status = "ended" /\ row.approval = runs[r].approval
           \/ row.status = "queued" /\ row.approval = "approved" /\ runs[r].status = "waiting"
  <2>1. CASE ApproveCommand(r)
    <3> DEFINE row == [runs[r] EXCEPT !.approval = "approved", !.status = "queued"]
    <3>1. /\ row \in RunRow /\ row.shell = runs[r].shell /\ row.parent = runs[r].parent
          /\ row.pinned = runs[r].pinned /\ row.status = "queued" /\ row.approval = "approved"
      BY <1>1 DEF RunRow, Statuses
    <3>2. runs' = [runs EXCEPT ![r] = row] /\ runs[r].status = "waiting"
      <4>1. runs \in [1..Len(runs) -> RunRow] /\ r \in 1..Len(runs)
        BY DEF PipelineInv, PipelineTyped, RunRows
      <4> QED BY <2>1, <4>1 DEF ApproveCommand
    <3> HIDE DEF row
    <3> QED BY <3>1, <3>2
  <2>2. CASE RejectRun(r) \/ GiveUpRun(r)
    <3> DEFINE row == [runs[r] EXCEPT !.status = "ended"]
    <3>1. /\ row \in RunRow /\ row.shell = runs[r].shell /\ row.parent = runs[r].parent
          /\ row.pinned = runs[r].pinned /\ row.status = "ended" /\ row.approval = runs[r].approval
      BY <1>1 DEF RunRow, Statuses, Over
    <3>2. runs' = [runs EXCEPT ![r] = row] /\ runs[r].status # "ended"
      BY <2>2 DEF RejectRun, GiveUpRun
    <3> HIDE DEF row
    <3> QED BY <3>1, <3>2
  <2> QED BY <2>1, <2>2
<1>3. Fits(row, work[r], shells[r]) /\ Fresh(work[r].rows)
  BY <1>2, FactsOfRun DEF Fits
<1>4. Replied(r) /\ UNCHANGED <<memory, forgotten, cutoff, cached, shells>>
  BY <1>1 DEF Replied, session, outside
<1>5. row.status \in Live => runs[r].status \in Live
  BY <1>2 DEF Live
<1> QED BY <1>1, <1>2, <1>3, <1>4, <1>5, RowMovesToo

\* A reply that rests on nothing forgotten is said.
LEMMA ReplySaid ==
  ASSUME PipelineInv, NEW r \in RunRows, NEW partial \in BOOLEAN, NEW from \in SUBSET Nat,
         Say(r, "assistant", partial, from), partial \/ Covered(from, forgotten, message)
  PROVE  Replied(r) /\ UNCHANGED <<forgotten, cutoff, cached>>
BY DEF Say, Replied

\* A run waits for its approval.
LEMMA ParkSafe == ASSUME PipelineInv, NEW r \in RunRows, Park(r) PROVE PipelineInv'
<1> DEFINE row == [runs[r] EXCEPT !.status = "waiting"]
<1>1. /\ runs[r] \in RunRow /\ runs[r].status = "running" /\ work[r].at = "preflight" /\ work' = [work EXCEPT ![r] = NoWork]
      /\ UNCHANGED <<outside, shells>>
  BY FactsOfRun DEF Park, Does, Leased, Then
<1>2. runs' = [runs EXCEPT ![r] = row]
  BY DEF Park
<1>3. /\ row \in RunRow /\ row.status = "waiting" /\ row.shell = runs[r].shell /\ row.parent = runs[r].parent
      /\ row.pinned = runs[r].pinned /\ row.approval = runs[r].approval
  BY <1>1 DEF RunRow, Statuses
<1> HIDE DEF row
<1>4. NoWork \in WorkRow /\ Fresh(NoWork.rows) /\ NoWork.at = "off" /\ NoWork.memory = {} /\ NoWork.told = {}
  BY NothingRead DEF NoWork
<1>5. Fits(row, NoWork, shells[r])
  BY <1>1, <1>3, <1>4, FactsOfRun DEF Fits
<1>6. Replied(r) /\ UNCHANGED <<forgotten, cutoff, cached>>
  <2>1. runs[r].status \in Live
    BY <1>1 DEF Live
  <2>2. Behind(RequestOf(r)) \in SUBSET Nat /\ Covered(Behind(RequestOf(r)), forgotten, message)
    BY <2>1, Requested
  <2>3. Say(r, "assistant", FALSE, Behind(RequestOf(r)))
    BY DEF Park
  <2> QED BY <2>2, <2>3, ReplySaid
<1>7. runs[r].status # "ended" /\ runs[r].status \in Live /\ UNCHANGED <<memory, forgotten, cutoff, cached, shells>>
  BY <1>1, <1>6 DEF Live, outside
<1> QED BY <1>1, <1>2, <1>3, <1>4, <1>5, <1>6, <1>7, RowMovesToo

\* A run pins the preferences it has read.
LEMMA SaveSnapshotSafe == ASSUME PipelineInv, NEW r \in RunRows, SaveSnapshot(r) PROVE PipelineInv'
<1> DEFINE row == [runs[r] EXCEPT !.pinned = work[r].memory]
           w == [work[r] EXCEPT !.at = "tools"]
<1>1. /\ runs[r] \in RunRow /\ work[r] \in WorkRow /\ work[r].at = "snapshot"
      /\ work' = [work EXCEPT ![r] = w] /\ Then(r, w) /\ UNCHANGED <<session, outside, shells>>
  BY FactsOfRun DEF SaveSnapshot, Does, Leased, Then
<1>2. UNCHANGED runs \/ (runs' = [runs EXCEPT ![r] = row] /\ runs[r].status = "running")
  BY DEF SaveSnapshot, Leased
<1>3. /\ row \in RunRow /\ row.status = runs[r].status /\ row.shell = runs[r].shell /\ row.parent = runs[r].parent
      /\ row.pinned = work[r].memory /\ row.approval = runs[r].approval
  BY <1>1 DEF RunRow, WorkRow
<1>4. w \in WorkRow /\ w.at = "tools" /\ w.rows = work[r].rows /\ w.memory = work[r].memory /\ w.told = work[r].told
  BY <1>1 DEF WorkRow, Stages
<1> HIDE DEF row, w
<1>5. /\ Fits(row, w, shells[r]) /\ Fresh(w.rows) /\ row.pinned \subseteq runs[r].pinned
      /\ Fits(runs[r], w, shells[r])
  BY <1>1, <1>3, <1>4, FactsOfRun DEF Fits
<1>6. Replied(r) /\ UNCHANGED <<message, version, memory, forgotten, cutoff, cached, shells>> /\ CacheKept
  BY <1>1 DEF Replied, session, outside, CacheKept
<1>7. CASE UNCHANGED runs
  BY <1>1, <1>4, <1>5, <1>6, <1>7, PipelineMoves
<1>8. CASE runs' = [runs EXCEPT ![r] = row] /\ runs[r].status = "running"
  BY <1>1, <1>8, <1>3, <1>4, <1>5, <1>6, RowMovesToo
<1> QED BY <1>2, <1>7, <1>8

\* A run starts its command.
LEMMA StartShellSafe == ASSUME PipelineInv, NEW r \in RunRows, StartShell(r) PROVE PipelineInv'
<1> DEFINE row == [runs[r] EXCEPT !.shell = TRUE]
           w == [work[r] EXCEPT !.at = "shelling"]
<1>1. /\ runs[r] \in RunRow /\ work[r] \in WorkRow /\ runs[r].status = "running" /\ work[r].at = "shell"
      /\ work' = [work EXCEPT ![r] = w] /\ UNCHANGED <<session, outside, shells>>
  BY FactsOfRun DEF StartShell, Does, Leased, Then
<1>2. runs' = [runs EXCEPT ![r] = row]
  BY DEF StartShell
<1>3. /\ row \in RunRow /\ row.status = runs[r].status /\ row.shell = TRUE /\ row.parent = runs[r].parent
      /\ row.pinned = runs[r].pinned /\ row.approval = runs[r].approval
  BY <1>1 DEF RunRow
<1>4. w \in WorkRow /\ w.at = "shelling" /\ w.rows = work[r].rows /\ w.memory = work[r].memory /\ w.told = work[r].told
  BY <1>1 DEF WorkRow, Stages
<1> HIDE DEF row, w
<1>5. Fits(row, w, shells[r]) /\ Fresh(w.rows)
  BY <1>1, <1>3, <1>4, FactsOfRun DEF Fits
<1>6. Replied(r) /\ UNCHANGED <<memory, forgotten, cutoff, cached, shells>>
  BY <1>1 DEF Replied, session, outside
<1>7. runs[r].status # "ended"
  BY <1>1
<1> QED BY <1>1, <1>2, <1>3, <1>4, <1>5, <1>6, <1>7, RowMovesToo

\* The command of a run is executed.
LEMMA RunShellSafe == ASSUME PipelineInv, NEW r \in RunRows, RunShell(r) PROVE PipelineInv'
<1> DEFINE w == [work[r] EXCEPT !.at = "finish"]
<1>1. /\ runs[r] \in RunRow /\ work[r] \in WorkRow /\ work[r].at = "shelling" /\ shells[r] = 0 /\ runs[r].shell
      /\ work' = [work EXCEPT ![r] = w] /\ UNCHANGED <<session, outside, runs>>
      /\ runs' = [runs EXCEPT ![r] = runs[r]] /\ shells' = [shells EXCEPT ![r] = shells[r] + 1]
  BY FactsOfRun, RowsAsTheyAre DEF RunShell, Does, Then, Fits, PipelineInv
<1>2. w \in WorkRow /\ w.at = "finish" /\ w.rows = work[r].rows /\ w.memory = work[r].memory /\ w.told = work[r].told
  BY <1>1 DEF WorkRow, Stages
<1> HIDE DEF w
<1>3. shells' = [shells EXCEPT ![r] = 1]
  BY <1>1
<1>4. Fits(runs[r], w, 1) /\ Fresh(w.rows)
  BY <1>1, <1>2, FactsOfRun DEF Fits
<1>5. Replied(r) /\ UNCHANGED <<memory, forgotten, cutoff, cached>> /\ cached' \in [version : Nat, rows : SUBSET Nat] /\ Fresh(cached'.rows)
  BY <1>1, CacheIsFresh DEF Replied, session, outside, CacheKept
<1> QED BY <1>1, <1>2, <1>3, <1>4, <1>5, OneRunMoves

\* A run ends, with an answer or without.
LEMMA EndSafe == ASSUME PipelineInv, NEW r \in RunRows, Conclude(r) \/ Abort(r) PROVE PipelineInv'
<1>1. /\ runs[r] \in RunRow /\ work[r] \in WorkRow /\ runs[r].status \in {"running", "stopping"}
      /\ work' = [work EXCEPT ![r] = NoWork] /\ UNCHANGED <<outside, shells>>
  BY FactsOfRun DEF Conclude, Abort, Then
<1>2. PICK end \in {"ended", "succeeded"} : runs' = [runs EXCEPT ![r].status = end]
  BY DEF Conclude, Abort
<1> DEFINE row == [runs[r] EXCEPT !.status = end]
<1>3. /\ row \in RunRow /\ row.status = end /\ row.shell = runs[r].shell /\ row.parent = runs[r].parent
      /\ row.pinned = runs[r].pinned /\ row.approval = runs[r].approval
  BY <1>1 DEF RunRow, Statuses, Over
<1>4. runs' = [runs EXCEPT ![r] = row]
  BY <1>2
<1> HIDE DEF row
<1>5. NoWork \in WorkRow /\ Fresh(NoWork.rows) /\ NoWork.at = "off" /\ NoWork.memory = {} /\ NoWork.told = {}
  BY NothingRead DEF NoWork
<1>6. Fits(row, NoWork, shells[r])
  BY <1>3, <1>5, FactsOfRun DEF Fits
<1>7. Replied(r) /\ UNCHANGED <<forgotten, cutoff, cached>>
  <2>1. CASE Conclude(r)
    <3>1. Say(r, "assistant", runs[r].status = "stopping", work[r].told)
      BY <2>1 DEF Conclude
    <3>2. (runs[r].status = "stopping") \in BOOLEAN /\ work[r].told \in SUBSET Nat
      BY <1>1 DEF WorkRow
    <3>3. (runs[r].status = "stopping") \/ Covered(work[r].told, forgotten, message)
      BY <1>1, FactsOfRun DEF Fits
    <3> QED BY <3>1, <3>2, <3>3, ReplySaid
  <2>2. CASE Say(r, "assistant", TRUE, work[r].told)
    <3>1. work[r].told \in SUBSET Nat
      BY <1>1 DEF WorkRow
    <3> QED BY <2>2, <3>1, ReplySaid
  <2>3. CASE UNCHANGED session
    BY <2>3 DEF session, Replied
  <2> QED BY <2>1, <2>2, <2>3 DEF Abort
<1>8. runs[r].status # "ended" /\ row.status \notin Live /\ UNCHANGED <<memory, forgotten, cutoff, cached, shells>>
  BY <1>1, <1>3, <1>7 DEF Live, outside
<1> QED BY <1>1, <1>3, <1>4, <1>5, <1>6, <1>7, <1>8, RowMovesToo

\* The worker of a run loses its lease.
LEMMA LoseLeaseSafe == ASSUME PipelineInv, NEW r \in RunRows, LoseLease(r) PROVE PipelineInv'
<1>1. /\ NoWork \in WorkRow /\ Fresh(NoWork.rows) /\ NoWork.at = "off" /\ NoWork.memory = {} /\ NoWork.told = {}
      /\ Then(r, NoWork) /\ OnlyWork
  BY NothingRead DEF NoWork, LoseLease
<1>2. Fits(runs[r], NoWork, shells[r])
  BY <1>1, FactsOfRun DEF Fits, Covered
<1>3. CacheKept /\ UNCHANGED <<message, version, forgotten, cutoff, memory, runs, shells>>
  BY <1>1 DEF OnlyWork, session, outside, CacheKept
<1> QED BY <1>1, <1>2, <1>3, PipelineMoves

--------------------------------------------------------------------------------
(* A run is added *)

\* A run is queued; what it resumes never ran its command.
LEMMA NewRunSafe ==
  ASSUME PipelineInv, NEW row \in RunRow, NEW from \in SUBSET Nat, NewRun(row, from),
         row.status = "queued", ~row.shell,
         Resumes(row, row.parent)
  PROVE  PipelineInv'
<1> DEFINE n == Len(runs) + 1
           e == [run |-> n, role |-> "user", partial |-> FALSE, from |-> from]
<1>1. /\ runs \in Seq(RunRow) /\ work \in Seq(WorkRow) /\ shells \in Seq({0, 1}) /\ message \in Seq(Message)
      /\ Len(work) = Len(runs) /\ Len(shells) = Len(runs) /\ version \in Nat /\ RunRows = 1..Len(runs) /\ Len(runs) \in Nat
      /\ cutoff \in Nat /\ cutoff <= Len(message) /\ forgotten \subseteq 1..cutoff
  BY DEF PipelineInv, PipelineTyped, RunRows, ForgottenIsCut
<1>2. /\ runs' = Append(runs, row) /\ work' = Append(work, NoWork) /\ shells' = Append(shells, 0)
      /\ message' = Append(message, e) /\ version' = version + 1
      /\ UNCHANGED <<forgotten, cutoff, cached, memory>>
  BY DEF NewRun, Say, outside
<1>3. n \in Nat /\ n \notin RunRows /\ e \in Message /\ e.run = n /\ e.role = "user" /\ e.partial = FALSE
  BY <1>1 DEF Message
<1> HIDE DEF e
<1>4. /\ runs' \in Seq(RunRow) /\ Len(runs') = n /\ RunRows' = RunRows \union {n}
      /\ runs'[n] = row /\ \A q \in RunRows : runs'[q] = runs[q]
  <2>1. /\ runs' \in Seq(RunRow) /\ Len(runs') = Len(runs) + 1 /\ DOMAIN runs' = 1..(Len(runs) + 1)
        /\ (\A q \in DOMAIN runs : runs'[q] = runs[q]) /\ runs'[Len(runs) + 1] = row
    BY <1>1, <1>2, RowAdded
  <2> QED BY <1>1, <2>1 DEF RunRows
<1>5. /\ work' \in Seq(WorkRow) /\ Len(work') = n
      /\ work'[n] = NoWork /\ \A q \in RunRows : work'[q] = work[q]
  <2>1. /\ work' \in Seq(WorkRow) /\ Len(work') = Len(work) + 1
        /\ (\A q \in DOMAIN work : work'[q] = work[q]) /\ work'[Len(work) + 1] = NoWork /\ DOMAIN work = 1..Len(work)
    BY <1>1, <1>2, NothingRead, RowAdded
  <2> QED BY <1>1, <2>1
<1>6. /\ shells' \in Seq({0, 1}) /\ Len(shells') = n
      /\ shells'[n] = 0 /\ \A q \in RunRows : shells'[q] = shells[q]
  <2>1. /\ shells' \in Seq({0, 1}) /\ Len(shells') = Len(shells) + 1
        /\ (\A q \in DOMAIN shells : shells'[q] = shells[q]) /\ shells'[Len(shells) + 1] = 0 /\ DOMAIN shells = 1..Len(shells)
    BY <1>1, <1>2, RowAdded
  <2> QED BY <1>1, <2>1
<1>7. /\ message' \in Seq(Message) /\ Len(message') = Len(message) + 1
      /\ DOMAIN message' = DOMAIN message \union {Len(message) + 1} /\ Len(message) \in Nat
      /\ message'[Len(message) + 1] = e /\ \A m \in DOMAIN message : message'[m] = message[m]
  <2>1. /\ message' \in Seq(Message) /\ Len(message') = Len(message) + 1 /\ DOMAIN message' = 1..(Len(message) + 1)
        /\ DOMAIN message = 1..Len(message) /\ Len(message) \in Nat
        /\ message'[Len(message) + 1] = e /\ \A m \in DOMAIN message : message'[m] = message[m]
    BY <1>1, <1>2, <1>3, RowAdded
  <2> QED BY <2>1
<1>8. Len(message) + 1 > cutoff /\ version' \in Nat
  BY <1>1, <1>2, <1>7
<1> HIDE DEF n
<1>18. \A told : Covered(told, forgotten, message) => Covered(told, forgotten', message')
  BY <1>2, <1>7, StaysCovered
<1>9. PipelineTyped'
  BY <1>2, <1>4, <1>5, <1>6, <1>7, <1>8 DEF PipelineInv, PipelineTyped
<1>10. RunsFit'
  <2> SUFFICES ASSUME NEW q \in RunRows' PROVE Fits(runs[q], work[q], shells[q])'
    BY DEF RunsFit
  <2>1. CASE q = n
    BY <2>1, <1>4, <1>5, <1>6 DEF Fits, NoWork
  <2>2. CASE q \in RunRows
    <3>1. Fits(runs[q], work[q], shells[q])
      BY <2>2 DEF PipelineInv, RunsFit
    <3> QED BY <2>2, <3>1, <1>2, <1>4, <1>5, <1>6, <1>18 DEF Fits
  <2> QED BY <2>1, <2>2, <1>4
<1>11. ReadingsAreFresh'
  <2>1. ASSUME NEW rows, Fresh(rows)
        PROVE  \A m \in rows : m \in DOMAIN message' /\ (m > cutoff' => ~message'[m].partial)
    BY <2>1, <1>2, <1>7 DEF Fresh
  <2>2. \A m \in cached'.rows : m \in DOMAIN message' /\ (m > cutoff' => ~message'[m].partial)
    BY <2>1, <1>2 DEF PipelineInv, ReadingsAreFresh
  <2>3. ASSUME NEW q \in RunRows'
        PROVE  \A m \in work'[q].rows : m \in DOMAIN message' /\ (m > cutoff' => ~message'[m].partial)
    <3>1. CASE q = n
      BY <3>1, <1>5 DEF NoWork
    <3>2. CASE q \in RunRows
      BY <3>2, <2>1, <1>5 DEF PipelineInv, ReadingsAreFresh
    <3> QED BY <3>1, <3>2, <1>4
  <2> QED BY <2>2, <2>3 DEF ReadingsAreFresh, Fresh
<1>12. ResumedFit'
  <2> SUFFICES ASSUME NEW q \in RunRows' PROVE Resumes(runs[q], runs[q].parent)'
    BY DEF ResumedFit
  <2>1. ASSUME NEW old, NEW p, Resumes(old, p)
        PROVE  p # 0 => /\ p \in RunRows' /\ runs'[p].status = "ended" /\ ~runs'[p].shell
                        /\ old.pinned \subseteq runs'[p].pinned
    BY <2>1, <1>4 DEF Resumes
  <2>2. CASE q = n
    BY <2>1, <2>2, <1>4 DEF Resumes
  <2>3. CASE q \in RunRows
    <3>1. Resumes(runs[q], runs[q].parent) /\ runs'[q] = runs[q]
      BY <2>3, <1>4 DEF PipelineInv, ResumedFit
    <3> QED BY <2>1, <3>1 DEF Resumes
  <2> QED BY <2>2, <2>3, <1>4
<1>13. RequestsAreKept'
  <2> SUFFICES ASSUME NEW q \in RunRows' PROVE \E m \in DOMAIN message' : message'[m].run = q /\ message'[m].role = "user"
    BY DEF RequestsAreKept
  <2>1. CASE q = n
    BY <2>1, <1>3, <1>7
  <2>2. CASE q \in RunRows
    BY <2>2, <1>7 DEF PipelineInv, RequestsAreKept
  <2> QED BY <2>1, <2>2, <1>4
<1>14. LiveAreRecent'
  <2> SUFFICES ASSUME NEW q \in RunRows', runs'[q].status \in Live, NEW m \in DOMAIN message', message'[m].run = q
               PROVE  m > cutoff
    BY <1>2 DEF LiveAreRecent
  <2>1. CASE m = Len(message) + 1
    BY <2>1, <1>8
  <2>2. CASE m \in DOMAIN message
    <3>1. message[m].run = q /\ q \in RunRows
      BY <2>2, <1>7 DEF PipelineInv, RepliesAreClean
    <3> QED BY <2>2, <3>1, <1>4 DEF PipelineInv, LiveAreRecent
  <2> QED BY <2>1, <2>2, <1>7
<1>15. RepliesAreClean'
  <2> SUFFICES ASSUME NEW m \in DOMAIN message'
               PROVE  /\ message'[m].run \in RunRows'
                      /\ m > cutoff /\ ~message'[m].partial => Covered({m} \union message'[m].from, forgotten, message')
    BY <1>2 DEF RepliesAreClean
  <2>1. CASE m = Len(message) + 1
    <3>1. m \notin forgotten /\ message'[m].role = "user" /\ m \in DOMAIN message'
      BY <1>1, <2>1, <1>3, <1>7, <1>8
    <3> QED BY <3>1, <2>1, <1>3, <1>4, <1>7, RequestCovered
  <2>2. CASE m \in DOMAIN message
    BY <2>2, <1>2, <1>4, <1>7, <1>18 DEF PipelineInv, RepliesAreClean
  <2> QED BY <2>1, <2>2, <1>7
<1>16. ForgottenIsCut'
  BY <1>1, <1>2, <1>7 DEF ForgottenIsCut
<1>17. MemoryIsClean'
  BY <1>2, <1>7 DEF PipelineInv, MemoryIsClean
<1> QED BY <1>9, <1>10, <1>11, <1>12, <1>13, <1>14, <1>15, <1>16, <1>17 DEF PipelineInv

\* A request is accepted.
LEMMA AcceptSafe ==
  ASSUME PipelineInv, NEW kind \in {"chat", "command", "shell"}, AcceptRequest(kind) PROVE PipelineInv'
<1> DEFINE row == [kind |-> kind, status |-> "queued", parent |-> 0, approval |-> "none",
                   shell |-> FALSE, pinned |-> AnyMemory]
<1>1. AnyMemory \in SUBSET (Items \X Nat)
  BY DEF AnyMemory
<1>2. row \in RunRow /\ row.status = "queued" /\ ~row.shell /\ row.parent = 0
  BY <1>1 DEF RunRow, Statuses
<1>3. NewRun(row, {})
  BY DEF AcceptRequest
<1> HIDE DEF row
<1> QED BY <1>2, <1>3, NewRunSafe DEF Resumes

\* A run is resumed by another.
LEMMA ResumeSafe == ASSUME PipelineInv, NEW p \in RunRows, ResumeRun(p) PROVE PipelineInv'
<1> DEFINE row == [runs[p] EXCEPT !.status = "queued", !.parent = p, !.approval = "none", !.shell = FALSE]
<1>1. runs[p] \in RunRow /\ p \in Nat
  BY RowsOfRuns DEF PipelineInv
<1>2. runs[p].status = "ended" /\ ~runs[p].shell
  BY DEF ResumeRun, MayResume, Over
<1>3. row \in RunRow /\ row.status = "queued" /\ ~row.shell /\ row.parent = p /\ row.pinned = runs[p].pinned
  BY <1>1 DEF RunRow, Statuses
<1>4. NewRun(row, Behind(RequestOf(p))) /\ Behind(RequestOf(p)) \in SUBSET Nat
  BY Requested DEF ResumeRun
<1> HIDE DEF row
<1>5. Resumes(row, row.parent)
  BY <1>2, <1>3 DEF Resumes
<1> QED BY <1>3, <1>4, <1>5, NewRunSafe

--------------------------------------------------------------------------------
(* What happens outside *)

\* Forgetting cuts everything that was said so far, and stops every run that could succeed.
LEMMA ForgetSafe == ASSUME PipelineInv, NEW m \in DOMAIN message, ForgetMessage(m) PROVE PipelineInv'
<1> DEFINE e == [message[m] EXCEPT !.partial = TRUE]
<1>1. /\ runs \in Seq(RunRow) /\ message \in Seq(Message) /\ Len(runs) \in Nat /\ RunRows = 1..Len(runs)
      /\ DOMAIN message = 1..Len(message) /\ Len(message) \in Nat /\ version \in Nat
      /\ cutoff \in Nat /\ cutoff <= Len(message) /\ forgotten \subseteq 1..cutoff
  BY DEF PipelineInv, PipelineTyped, RunRows, ForgottenIsCut
<1>2. /\ forgotten' = forgotten \union {m} /\ cutoff' = Len(message) /\ version' = version + 1
      /\ message' = [message EXCEPT ![m].partial = TRUE]
      /\ memory' = [i \in Items |-> IF memory[i].source = m
           THEN [version |-> memory[i].version + 1, active |-> FALSE, source |-> 0] ELSE memory[i]]
      /\ runs' = [r \in RunRows |-> [runs[r] EXCEPT !.status = WithoutSource(runs[r].status)]]
      /\ UNCHANGED <<cached, work, shells>>
  BY DEF ForgetMessage
<1>3. /\ message' \in Seq(Message) /\ Len(message') = Len(message) /\ DOMAIN message' = DOMAIN message
      /\ \A k \in DOMAIN message : /\ message'[k].run = message[k].run /\ message'[k].role = message[k].role
  <2>0. message[m] \in Message
    BY <1>1
  <2>1. e \in Message /\ e.run = message[m].run /\ e.role = message[m].role
    BY <2>0 DEF Message
  <2>2. message' = [message EXCEPT ![m] = e]
    BY <1>2
  <2> HIDE DEF e
  <2> QED BY <1>1, <2>1, <2>2, RowReplaced
<1>4. ASSUME NEW r \in RunRows
      PROVE  /\ runs'[r] \in RunRow /\ runs'[r].status = WithoutSource(runs[r].status) /\ runs'[r].status \notin Live
             /\ runs'[r].parent = runs[r].parent /\ runs'[r].shell = runs[r].shell
             /\ runs'[r].pinned = runs[r].pinned /\ runs'[r].approval = runs[r].approval
  <2>1. runs[r] \in RunRow /\ runs'[r] = [runs[r] EXCEPT !.status = WithoutSource(runs[r].status)]
    BY <1>1, <1>2
  <2>2. WithoutSource(runs[r].status) \in Statuses \ Live
    BY <2>1 DEF RunRow, WithoutSource, Statuses, Live, Over
  <2> QED BY <2>1, <2>2 DEF RunRow
<1>5. runs' \in Seq(RunRow) /\ Len(runs') = Len(runs) /\ RunRows' = RunRows
  <2>1. runs' \in [1..Len(runs) -> RunRow] /\ DOMAIN runs' = 1..Len(runs)
    BY <1>1, <1>2, <1>4
  <2> QED BY <1>1, <2>1 DEF RunRows
<1>6. memory' \in [Items -> [version : Nat, active : BOOLEAN, source : Nat]]
  BY <1>2 DEF PipelineInv, PipelineTyped
<1>7. PipelineTyped'
  BY <1>1, <1>2, <1>3, <1>5, <1>6 DEF PipelineInv, PipelineTyped
<1>8. RunsFit'
  <2> SUFFICES ASSUME NEW r \in RunRows PROVE Fits(runs[r], work[r], shells[r])'
    BY <1>5 DEF RunsFit
  <2>1. Fits(runs[r], work[r], shells[r])
    BY DEF PipelineInv, RunsFit
  <2>2. runs'[r].status \notin {"queued", "waiting", "running"}
    BY <1>4 DEF Live
  <2> QED BY <1>2, <1>4, <2>1, <2>2 DEF Fits
<1>9. ReadingsAreFresh'
  <2>1. \A rows : Fresh(rows) => \A k \in rows : k \in DOMAIN message' /\ ~(k > cutoff')
    BY <1>1, <1>2, <1>3 DEF Fresh
  <2> QED BY <2>1, <1>2, <1>5 DEF PipelineInv, ReadingsAreFresh, Fresh
<1>10. ResumedFit'
  <2> SUFFICES ASSUME NEW q \in RunRows, runs'[q].parent # 0
               PROVE  LET p == runs'[q].parent IN
                        /\ p \in RunRows /\ runs'[p].status = "ended" /\ ~runs'[p].shell
                        /\ runs'[q].pinned \subseteq runs'[p].pinned
    BY <1>5 DEF ResumedFit, Resumes
  <2> DEFINE p == runs[q].parent
  <2>1. p \in RunRows /\ runs[p].status = "ended" /\ ~runs[p].shell /\ runs[q].pinned \subseteq runs[p].pinned
    BY <1>4 DEF PipelineInv, ResumedFit, Resumes
  <2> QED BY <2>1, <1>4 DEF WithoutSource
<1>11. RequestsAreKept'
  BY <1>3, <1>5 DEF PipelineInv, RequestsAreKept
<1>12. LiveAreRecent'
  BY <1>4, <1>5 DEF LiveAreRecent
<1>13. RepliesAreClean'
  <2>0. \A k \in DOMAIN message : message[k].run \in RunRows
    BY DEF PipelineInv, RepliesAreClean
  <2>1. \A k \in DOMAIN message' : message'[k].run \in RunRows' /\ ~(k > cutoff')
    BY <1>1, <1>2, <1>3, <1>5, <2>0
  <2> QED BY <2>1 DEF RepliesAreClean
<1>14. ForgottenIsCut'
  BY <1>1, <1>2, <1>3 DEF ForgottenIsCut
<1>15. MemoryIsClean'
  <2> SUFFICES ASSUME NEW i \in Items, memory'[i].active, memory'[i].source # 0
               PROVE  memory'[i].source \in DOMAIN message' \ forgotten' /\ message'[memory'[i].source].role = "user"
    BY DEF MemoryIsClean
  <2>1. memory[i].source # m /\ memory'[i] = memory[i]
    BY <1>2
  <2> QED BY <1>2, <1>3, <2>1 DEF PipelineInv, MemoryIsClean
<1> QED BY <1>7, <1>8, <1>9, <1>10, <1>11, <1>12, <1>13, <1>14, <1>15 DEF PipelineInv

\* A preference is stored or changed.
LEMMA PreferSafe == ASSUME PipelineInv, NEW i \in Items, Prefer(i) PROVE PipelineInv'
<1>1. PICK source \in {0} \union (Learnable \ forgotten) :
        memory' = [memory EXCEPT ![i] = [version |-> memory[i].version + 1, active |-> TRUE, source |-> source]]
  BY DEF Prefer
<1>2. /\ UNCHANGED <<message, forgotten, cutoff, version, cached, runs, work, shells>>
      /\ memory \in [Items -> [version : Nat, active : BOOLEAN, source : Nat]]
  BY DEF Prefer, session, PipelineInv, PipelineTyped
<1>3. source \in Nat /\ (source # 0 => source \in DOMAIN message \ forgotten /\ message[source].role = "user")
  BY Requested DEF Learnable
<1>4. memory' \in [Items -> [version : Nat, active : BOOLEAN, source : Nat]] /\ MemoryIsClean'
  BY <1>1, <1>2, <1>3 DEF PipelineInv, MemoryIsClean
<1>5. RunRows' = RunRows
  BY <1>2 DEF RunRows
<1> QED
  BY <1>2, <1>4, <1>5
  DEF PipelineInv, PipelineTyped, RunsFit, Fits, ReadingsAreFresh, Fresh, ResumedFit, Resumes, RequestsAreKept,
      LiveAreRecent, RepliesAreClean, ForgottenIsCut, Covered

\* A preference is withdrawn.
LEMMA WithdrawSafe == ASSUME PipelineInv, NEW i \in Items, WithdrawPreference(i) PROVE PipelineInv'
<1>1. /\ UNCHANGED <<message, forgotten, cutoff, version, cached, runs, work, shells>>
      /\ memory \in [Items -> [version : Nat, active : BOOLEAN, source : Nat]]
      /\ memory' = [memory EXCEPT ![i] = [version |-> memory[i].version + 1, active |-> FALSE, source |-> 0]]
  BY DEF WithdrawPreference, session, PipelineInv, PipelineTyped
<1>2. memory' \in [Items -> [version : Nat, active : BOOLEAN, source : Nat]] /\ MemoryIsClean' /\ RunRows' = RunRows
  BY <1>1 DEF PipelineInv, MemoryIsClean, RunRows
<1> QED
  BY <1>1, <1>2
  DEF PipelineInv, PipelineTyped, RunsFit, Fits, ReadingsAreFresh, Fresh, ResumedFit, Resumes, RequestsAreKept,
      LiveAreRecent, RepliesAreClean, ForgottenIsCut, Covered

\* When nothing moves the invariant stays.
LEMMA NothingMoves ==
  ASSUME PipelineInv, UNCHANGED <<message, forgotten, cutoff, version, cached, memory, runs, work, shells>>
  PROVE  PipelineInv'
BY DEF PipelineInv, PipelineTyped, RunsFit, Fits, ReadingsAreFresh, Fresh, ResumedFit, Resumes, RequestsAreKept,
       LiveAreRecent, RepliesAreClean, ForgottenIsCut, MemoryIsClean, RunRows, Covered

\* Every step of the pipeline keeps the invariant.
LEMMA PipelineGoesOn == PipelineInv /\ [PipelineNext]_pipelineVars => PipelineInv'
<1> SUFFICES ASSUME PipelineInv, [PipelineNext]_pipelineVars PROVE PipelineInv'
  OBVIOUS
<1>1. CASE UNCHANGED pipelineVars
  BY <1>1, NothingMoves DEF pipelineVars, session, outside
<1>3. CASE \E i \in Items : Prefer(i) \/ WithdrawPreference(i)
  BY <1>3, PreferSafe, WithdrawSafe
<1>4. CASE \E m \in DOMAIN message : ForgetMessage(m)
  BY <1>4, ForgetSafe
<1>5. CASE \E kind \in {"chat", "command", "shell"} : AcceptRequest(kind)
  BY <1>5, AcceptSafe
<1>6. ASSUME NEW r \in RunRows, ResumeRun(r) \/ Claim(r) \/ ApproveCommand(r) \/ RejectRun(r) \/ GiveUpRun(r)
      PROVE  PipelineInv'
  BY <1>6, ResumeSafe, ClaimSafe, StatusSafe
<1>7. ASSUME NEW r \in RunRows, ReadIdentity(r) \/ ReadHistory(r) \/ ReadCutoff(r) \/ Preflight(r) \/ Park(r)
      PROVE  PipelineInv'
  BY <1>7, ReadIdentitySafe, ReadHistorySafe, ReadCutoffSafe, PreflightSafe, ParkSafe
<1>8. ASSUME NEW r \in RunRows,
             ReadMemory(r) \/ SaveSnapshot(r) \/ StartShell(r) \/ RunShell(r) \/ SearchKnowledge(r)
      PROVE  PipelineInv'
  BY <1>8, ReadMemorySafe, SaveSnapshotSafe, StartShellSafe, RunShellSafe, SearchSafe
<1>9. ASSUME NEW r \in RunRows,
             GenerateAnswer(r) \/ DeliverAnswer(r) \/ Conclude(r) \/ Abort(r) \/ LoseLease(r)
      PROVE  PipelineInv'
  BY <1>9, AnswerSafe, EndSafe, LoseLeaseSafe
<1> QED BY <1>1, <1>3, <1>4, <1>5, <1>6, <1>7, <1>8, <1>9 DEF PipelineNext

\* The invariant of the pipeline holds in every state.
LEMMA PipelineInvariant == PipelineSpec => []PipelineInv
<1>1. PipelineInit => PipelineInv
  BY PipelineBegins
<1>2. PipelineInv /\ [PipelineNext]_pipelineVars => PipelineInv'
  BY PipelineGoesOn
<1> QED BY <1>1, <1>2, PTL DEF PipelineSpec

--------------------------------------------------------------------------------
(* The theorems *)

\* The invariant says that runs go on as agreed.
LEMMA AgreedFollows == PipelineInv => GoesOnAsAgreed
<1> SUFFICES ASSUME PipelineInv, NEW r \in RunRows
             PROVE  /\ shells[r] <= 1
                    /\ shells[r] > 0 => runs[r].approval = "approved"
                    /\ runs[r].parent # 0 => /\ shells[runs[r].parent] = 0
                                             /\ work[r].memory \subseteq runs[runs[r].parent].pinned
  BY DEF GoesOnAsAgreed, CommandsRunOnce, ResumedTellsNoMore
<1>1. shells[r] \in {0, 1} /\ Fits(runs[r], work[r], shells[r])
  BY FactsOfRun
<1>2. ASSUME runs[r].parent # 0
      PROVE  /\ shells[runs[r].parent] = 0
             /\ work[r].memory \subseteq runs[runs[r].parent].pinned
  <2> DEFINE p == runs[r].parent
  <2>1. p \in RunRows /\ ~runs[p].shell /\ runs[r].pinned \subseteq runs[p].pinned
    BY <1>2 DEF PipelineInv, ResumedFit, Resumes
  <2>2. shells[p] \in {0, 1} /\ Fits(runs[p], work[p], shells[p])
    BY <2>1, FactsOfRun
  <2> QED BY <1>1, <2>1, <2>2 DEF Fits
<1> QED BY <1>1, <1>2 DEF Fits

\* A run executes its command once, after it was approved, and what is resumed never did;
\* it is never told of more than the run it resumes (repository.create_run, tool_start,
\* Pipeline.__call__), whatever number of runs resume which.
THEOREM AgreementsHold == PipelineSpec => []GoesOnAsAgreed
BY PipelineInvariant, AgreedFollows, PTL

\* Who succeeds: the only step that ends a run as succeeded is the end of its pipeline.
LEMMA SuccessIsClean ==
  PipelineInv /\ [PipelineNext]_pipelineVars =>
    \A r \in RunRows : runs[r].status # "succeeded" /\ runs'[r].status = "succeeded"
      => Covered(work[r].told, forgotten, message)
<1> SUFFICES ASSUME PipelineInv, [PipelineNext]_pipelineVars, NEW r \in RunRows,
                    runs[r].status # "succeeded", runs'[r].status = "succeeded"
             PROVE  Covered(work[r].told, forgotten, message)
  OBVIOUS
<1>1. runs \in Seq(RunRow) /\ RunRows = 1..Len(runs) /\ Len(runs) \in Nat
  BY DEF PipelineInv, PipelineTyped, RunRows
<1>2. CASE UNCHANGED runs
  BY <1>2
<1>3. ASSUME NEW row, NEW from, NewRun(row, from) PROVE FALSE
  <2>1. runs'[r] = runs[r]
    BY <1>1, <1>3 DEF NewRun
  <2> QED BY <2>1
<1>4. ASSUME NEW m, ForgetMessage(m) PROVE FALSE
  <2>0. runs[r] \in RunRow /\ runs'[r] = [runs[r] EXCEPT !.status = WithoutSource(runs[r].status)]
    BY <1>1, <1>4 DEF ForgetMessage
  <2>1. runs'[r].status = WithoutSource(runs[r].status)
    BY <2>0 DEF RunRow
  <2> QED BY <2>1 DEF WithoutSource
<1>5. ASSUME NEW q \in RunRows, NEW end, runs' = [runs EXCEPT ![q].status = end], q = r => end # "succeeded"
      PROVE  FALSE
  <2>1. runs[q] \in RunRow /\ runs[r] \in RunRow
    BY <1>1
  <2>2. runs'[r] = IF q = r THEN [runs[r] EXCEPT !.status = end] ELSE runs[r]
    BY <1>1, <1>5
  <2> QED BY <1>5, <2>1, <2>2 DEF RunRow
<1>6. ASSUME NEW q \in RunRows, Conclude(q) PROVE Covered(work[r].told, forgotten, message)
  <2>1. q = r /\ runs[r].status # "stopping"
    <3>1. runs' = [runs EXCEPT ![q].status = IF runs[q].status = "stopping" THEN "ended" ELSE "succeeded"]
      BY <1>6 DEF Conclude
    <3> QED BY <3>1, <1>5
  <2>2. runs[r].status = "running"
    BY <1>6, <2>1 DEF Conclude
  <2> QED BY <2>2, FactsOfRun DEF Fits
<1>7. ASSUME NEW q \in RunRows, Claim(q) \/ ApproveCommand(q) \/ RejectRun(q) \/ GiveUpRun(q) \/ Park(q) \/ Abort(q)
      PROVE  FALSE
  <2>1. CASE ApproveCommand(q)
    <3>1. runs[q] \in RunRow /\ runs[r] \in RunRow
      BY <1>1
    <3>2. runs'[r] = IF q = r THEN [runs[r] EXCEPT !.approval = "approved", !.status = "queued"] ELSE runs[r]
      BY <1>1, <2>1 DEF ApproveCommand
    <3> QED BY <3>1, <3>2 DEF RunRow
  <2>2. CASE Claim(q)
    BY <2>2, <1>5 DEF Claim
  <2>3. CASE RejectRun(q)
    BY <2>3, <1>5 DEF RejectRun
  <2>4. CASE GiveUpRun(q)
    BY <2>4, <1>5 DEF GiveUpRun
  <2>5. CASE Park(q)
    BY <2>5, <1>5 DEF Park
  <2>6. CASE Abort(q)
    BY <2>6, <1>5 DEF Abort
  <2> QED BY <1>7, <2>1, <2>2, <2>3, <2>4, <2>5, <2>6
<1>8. ASSUME NEW q \in RunRows, SaveSnapshot(q) \/ StartShell(q) PROVE FALSE
  <2>1. runs[q] \in RunRow /\ runs[r] \in RunRow
    BY <1>1
  <2> DEFINE pinned == [runs[q] EXCEPT !.pinned = work[q].memory]
             shell == [runs[q] EXCEPT !.shell = TRUE]
  <2>2. pinned.status = runs[q].status /\ shell.status = runs[q].status
    BY <2>1 DEF RunRow
  <2>4. runs' = runs \/ runs' = [runs EXCEPT ![q] = pinned] \/ runs' = [runs EXCEPT ![q] = shell]
    BY <1>8 DEF SaveSnapshot, StartShell
  <2> HIDE DEF pinned, shell
  <2>3. runs'[r].status = runs[r].status
    BY <1>1, <2>2, <2>4
  <2> QED BY <2>3
<1>9. ASSUME NEW q \in RunRows,
             \/ ReadIdentity(q) \/ ReadHistory(q) \/ ReadCutoff(q) \/ Preflight(q) \/ ReadMemory(q) \/ RunShell(q)
             \/ SearchKnowledge(q) \/ GenerateAnswer(q) \/ DeliverAnswer(q) \/ LoseLease(q)
      PROVE  UNCHANGED runs
  BY <1>9 DEF ReadIdentity, ReadHistory, ReadCutoff, Preflight, ReadMemory, RunShell, SearchKnowledge,
              GenerateAnswer, DeliverAnswer, LoseLease, OnlyWork
<1>10. ASSUME NEW q \in RunRows, ResumeRun(q) PROVE FALSE
  BY <1>10, <1>3 DEF ResumeRun
<1>11. CASE \E kind \in {"chat", "command", "shell"} : AcceptRequest(kind)
  BY <1>11, <1>3 DEF AcceptRequest
<1>12. CASE (\E i \in Items : Prefer(i) \/ WithdrawPreference(i)) \/ UNCHANGED pipelineVars
  BY <1>12, <1>2 DEF Prefer, WithdrawPreference, pipelineVars
<1> QED BY <1>2, <1>4, <1>6, <1>7, <1>8, <1>9, <1>10, <1>11, <1>12 DEF PipelineNext

\* Nothing the user has forgotten in a session reaches a run of it that succeeds, through the
\* history, an older reply, the cache or a preference, but in the copy that a resumed request
\* is (Pipeline.__call__, MemoryRepository.suppress_source).
THEOREM WithdrawnHolds == PipelineSpec => ForgottenStaysOut
<1>1. ASSUME NEW told, NEW gone, NEW said, Covered(told, gone, said)
      PROVE  \A m \in told \intersect gone : \E copy \in told \ gone : said[copy].role = "user" /\ m \in said[copy].from
  BY <1>1 DEF Covered
<1>2. PipelineInv /\ [PipelineNext]_pipelineVars =>
        \A r \in RunRows : runs[r].status # "succeeded" /\ runs'[r].status = "succeeded"
          => \A m \in work[r].told \intersect forgotten :
               \E copy \in work[r].told \ forgotten : message[copy].role = "user" /\ m \in message[copy].from
  BY <1>1, SuccessIsClean
<1> QED BY <1>2, PipelineInvariant, PTL DEF PipelineSpec, ForgottenStaysOut

-----------------------------------------------------------------------------
(* The cache of tool results: the limit that is left of a call and the age of what it has read add up to at most the limit, so that what is cached is as old as its life and a limit allow *)

\* A call is running, or answering from what it has read; what is left of its limit and the
\* age of what it has read add up to no more than the limit.
ToolTyped ==
  /\ cache \in [age : Nat, left : Nat]
  /\ call \in [Callers -> [at : {"idle", "running", "answering"}, left : Nat, patience : Nat, age : Nat]]
  /\ result \in [Callers -> [kind : {"none", "cached", "fresh", "fallback"}, age : Nat]]
CallsAreYoung == \A c \in Callers : call[c].age + call[c].left <= Timeout
CacheIsYoung == cache.age + cache.left <= Ttl + Timeout
ToolInv == ToolTyped /\ CallsAreYoung /\ CacheIsYoung /\ StalenessIsBounded

\* The smaller and the larger of two numbers.
LEMMA MinOfBoth ==
  ASSUME NEW a \in Nat, NEW b \in Nat
  PROVE  Min({a, b}) = IF a <= b THEN a ELSE b
BY DEF Min

\* The times are natural numbers.
LEMMA ToolNumbers == Ttl \in Nat /\ Timeout \in Nat /\ StageTimeout \in Nat /\ MaxAge \in Nat /\ Ttl > 0 /\ Timeout > 0
BY ToolAssumption

\* An age grows by one at most.
LEMMA UpGrows ==
  ASSUME NEW n \in Nat
  PROVE  Up(n) \in Nat /\ Up(n) <= n + 1
<1>1. n + 1 \in Nat /\ MaxAge \in Nat
  BY ToolNumbers
<1>. QED
  BY <1>1, MinOfBoth, ToolNumbers DEF Up

\* The invariant is inductive: the limit of a call and the life of an entry run down as fast
\* as what they hold grows older.
LEMMA ToolInvInductive == ToolInv /\ [ToolNext]_toolVars => ToolInv'
<1>. SUFFICES ASSUME ToolInv, [ToolNext]_toolVars
              PROVE  ToolInv'
  OBVIOUS
<1>. USE ToolNumbers DEF ToolInv, ToolTyped, CallsAreYoung, CacheIsYoung, StalenessIsBounded, NoCall, NoResult, Gets, Ends
<1>1. ASSUME NEW c \in Callers, ServeCached(c)
      PROVE  ToolInv'
  BY <1>1 DEF ServeCached, Cached
<1>2. ASSUME NEW c \in Callers, Refuse(c)
      PROVE  ToolInv'
  BY <1>2 DEF Refuse
<1>3. ASSUME NEW c \in Callers, Begin(c)
      PROVE  ToolInv'
  BY <1>3 DEF Begin
<1>4. ASSUME NEW c \in Callers, ReadSource(c)
      PROVE  ToolInv'
  <2>. DEFINE row == [call[c] EXCEPT !.at = "answering", !.age = 0]
  <2>1. /\ row \in [at : {"idle", "running", "answering"}, left : Nat, patience : Nat, age : Nat]
        /\ row.age = 0 /\ row.left = call[c].left
    OBVIOUS
  <2>2. call' = [call EXCEPT ![c] = row] /\ UNCHANGED <<cache, result>>
    BY <1>4 DEF ReadSource
  <2>. HIDE DEF row
  <2>. QED
    BY <2>1, <2>2
<1>5. ASSUME NEW c \in Callers, Succeed(c)
      PROVE  ToolInv'
  BY <1>5 DEF Succeed
<1>6. ASSUME NEW c \in Callers, Break(c)
      PROVE  ToolInv'
  BY <1>6 DEF Break
<1>7. ASSUME NEW c \in Callers, GiveUp(c)
      PROVE  ToolInv'
  BY <1>7 DEF GiveUp
<1>8. CASE ToolTick
  <2>. DEFINE Older(c) == [call[c] EXCEPT !.left = @ - 1, !.patience = @ - 1,
                                          !.age = IF call[c].at = "answering" THEN Up(@) ELSE @]
  <2>1. ASSUME NEW c \in Callers, call[c].at # "idle"
        PROVE  /\ Older(c) \in [at : {"idle", "running", "answering"}, left : Nat, patience : Nat, age : Nat]
               /\ Older(c).age + Older(c).left <= call[c].age + call[c].left
    <3>1. call[c].left - 1 \in Nat /\ call[c].patience - 1 \in Nat
      <4>1. call[c].left > 0 /\ call[c].patience > 0
        BY <1>8, <2>1 DEF ToolTick
      <4>2. call[c].left \in Nat /\ call[c].patience \in Nat
        OBVIOUS
      <4>. QED
        BY <4>1, <4>2
    <3>2. call[c].age \in Nat /\ Up(call[c].age) \in Nat /\ Up(call[c].age) <= call[c].age + 1
      BY UpGrows
    <3>3. call[c] \in [at : {"idle", "running", "answering"}, left : Nat, patience : Nat, age : Nat]
      OBVIOUS
    <3>4. /\ Older(c).left = call[c].left - 1 /\ Older(c).patience = call[c].patience - 1
          /\ Older(c).age \in {call[c].age, Up(call[c].age)}
          /\ Older(c) \in [at : {"idle", "running", "answering"}, left : Nat, patience : Nat, age : Nat]
      BY <3>1, <3>2, <3>3
    <3>. QED
      BY <3>1, <3>2, <3>3, <3>4
  <2>2. \A c \in Callers : call'[c] = IF call[c].at = "idle" THEN call[c] ELSE Older(c)
    BY <1>8 DEF ToolTick
  <2>3. call' \in [Callers -> [at : {"idle", "running", "answering"}, left : Nat, patience : Nat, age : Nat]]
    <3>1. call' = [c \in Callers |-> IF call[c].at = "idle" THEN call[c] ELSE Older(c)]
      BY <1>8 DEF ToolTick
    <3>. HIDE DEF Older
    <3>. QED
      BY <2>1, <3>1
  <2>4. CallsAreYoung'
    <3>. SUFFICES ASSUME NEW c \in Callers
                  PROVE  call'[c].age + call'[c].left <= Timeout
      OBVIOUS
    <3>1. CASE call[c].at = "idle"
      BY <2>2, <3>1
    <3>2. CASE call[c].at # "idle"
      <4>1. call'[c] = Older(c)
        BY <2>2, <3>2
      <4>2. Older(c).age + Older(c).left <= call[c].age + call[c].left
        BY <2>1, <3>2
      <4>3. call[c].age + call[c].left <= Timeout /\ call[c].age + call[c].left \in Nat
        OBVIOUS
      <4>4. Older(c).age \in Nat /\ Older(c).left \in Nat
        BY <2>1, <3>2
      <4>. HIDE DEF Older
      <4>. QED
        BY <4>1, <4>2, <4>3, <4>4
    <3>. QED
      BY <3>1, <3>2
  <2>5. cache' \in [age : Nat, left : Nat] /\ CacheIsYoung'
    <3>1. cache.age \in Nat /\ cache.left \in Nat /\ Up(cache.age) \in Nat /\ Up(cache.age) <= cache.age + 1
      BY UpGrows
    <3>2. cache' = [age |-> IF cache.left > 0 THEN Up(cache.age) ELSE 0, left |-> Down(cache.left)]
      BY <1>8 DEF ToolTick, Cached
    <3>3. Down(cache.left) = IF cache.left > 0 THEN cache.left - 1 ELSE 0
      BY DEF Down
    <3>. QED
      BY <3>1, <3>2, <3>3
  <2>6. result' \in [Callers -> [kind : {"none", "cached", "fresh", "fallback"}, age : Nat]] /\ StalenessIsBounded'
    <3>1. result' = [c \in Callers |-> NoResult]
      BY <1>8 DEF ToolTick
    <3>. QED
      BY <3>1
  <2>. QED
    BY <2>3, <2>4, <2>5, <2>6
<1>9. CASE UNCHANGED toolVars
  BY <1>9 DEF toolVars
<1>. QED
  BY <1>1, <1>2, <1>3, <1>4, <1>5, <1>6, <1>7, <1>8, <1>9 DEF ToolNext

\* The invariant of the tools holds in every state.
LEMMA ToolInvHolds == ToolSpec => []ToolInv
<1>1. ToolInit => ToolInv
  BY ToolNumbers DEF ToolInit, ToolInv, ToolTyped, CallsAreYoung, CacheIsYoung, StalenessIsBounded, NoCall, NoResult
<1>. QED
  BY <1>1, ToolInvInductive, PTL DEF ToolSpec

-----------------------------------------------------------------------------
(* The cache of reviewed answers *)

\* What a call of the FAQ cache has reached.
Question ==
  {NoQuestion}
  \union [at : {"embedding", "reading"}, key : Hashes, wording : Wordings]
  \union [at : {"generating", "keeping"}, key : Hashes, wording : Wordings, keeps : BOOLEAN, left : Nat]
\* The wordings whose answers a key has.
Kepts(k) == DOMAIN hashes[k].ages
FaqReply ==
  {NotAnswered} \union [kind : {"agents", "failed", "generated"}]
  \union [kind : {"cached"}, of : Hashes, wording : Wordings, age : Nat]
FaqTyped ==
  /\ asker \in [FaqAskers -> Question]
  /\ hashes = [k \in Hashes |-> hashes[k]]
  /\ \A k \in Hashes : hashes[k].left \in Nat /\ \A v \in Kepts(k) : hashes[k].ages[v] \in Nat
  /\ replied \in [FaqAskers -> FaqReply]
QuestionFits(q) ==
  /\ q.at # "idle" => q.wording \in WordingsOf[q.key]
  /\ q.at \in {"generating", "keeping"} => q.left <= Generation
  /\ q.at = "keeping" => q.keeps
QuestionsFit == \A p \in FaqAskers : QuestionFits(asker[p])
HashesFit == \A k \in Hashes : Kepts(k) \subseteq WordingsOf[k] /\ hashes[k].left <= HashTtl

\* One life for every wording but the newest, and what has passed since that one was
\* first kept: no more than one generation and the time since the last write, ...
Lives(k) == (Cardinality(Kepts(k)) - 1) * (HashTtl + Generation)
AgesAreBounded ==
  \A k \in Hashes : \A v \in Kepts(k) :
    hashes[k].ages[v] <= Lives(k) + Generation + HashTtl - hashes[k].left
\* ... and less when a call that missed a wording before that is still to keep it.
Writes(q, k) ==
  q.at \in {"generating", "keeping"} /\ q.keeps /\ q.key = k /\ q.wording \in Kepts(k)
WritesAreNear ==
  \A p \in FaqAskers : \A k \in Hashes : \A v \in Kepts(k) :
    Writes(asker[p], k) => hashes[k].ages[v] <= Lives(k) + Generation - asker[p].left
FaqInv == FaqTyped /\ QuestionsFit /\ HashesFit /\ AgesAreBounded /\ WritesAreNear /\ FaqAgesOut

\* The times of the cache are natural numbers, and a question has finitely many wordings.
LEMMA FaqNumbers == HashTtl \in Nat /\ Generation \in Nat /\ HashTtl > 0 /\ \A k \in Hashes : IsFiniteSet(WordingsOf[k])
BY FaqAssumption

\* One life more.
LEMMA OneLifeMore ==
  ASSUME NEW n \in Nat, NEW d \in Nat
  PROVE  ((n + 1) - 1) * d = (n - 1) * d + d
OBVIOUS

\* Fewer lives are not longer.
LEMMA LivesAdd ==
  ASSUME NEW m \in Nat, NEW n \in Nat, m <= n, NEW d \in Nat
  PROVE  m * d <= n * d /\ m * d \in Nat
<1>1. PICK c \in Nat : n = m + c
  <2>1. n - m \in Nat /\ n = m + (n - m)
    OBVIOUS
  <2>. QED
    BY <2>1
<1>2. (m + c) * d = m * d + c * d
  OBVIOUS
<1>3. c * d \in Nat /\ m * d \in Nat
  OBVIOUS
<1>. QED
  BY <1>1, <1>2, <1>3

\* The wordings of a key that have an answer are finitely many.
LEMMA KeptsAreFinite ==
  ASSUME FaqInv, NEW k \in Hashes
  PROVE  /\ IsFiniteSet(Kepts(k)) /\ Cardinality(Kepts(k)) \in Nat
         /\ Cardinality(Kepts(k)) <= Cardinality(WordingsOf[k])
         /\ Cardinality(WordingsOf[k]) \in Nat
<1>1. Kepts(k) \subseteq WordingsOf[k] /\ IsFiniteSet(WordingsOf[k])
  BY FaqNumbers DEF FaqInv, HashesFit
<1>. QED
  BY <1>1, FS_Subset, FS_CardinalityType

\* An answer is gone after one life for each wording.
LEMMA NoAnswerIsOlder ==
  ASSUME FaqInv, NEW k \in Hashes, NEW v \in Kepts(k)
  PROVE  /\ hashes[k].ages[v] <= Cardinality(WordingsOf[k]) * (HashTtl + Generation)
         /\ Lives(k) \in Nat /\ hashes[k].ages[v] \in Nat
         /\ hashes[k].ages[v] <= Cardinality(Kepts(k)) * (HashTtl + Generation)
<1>. DEFINE n == Cardinality(Kepts(k))
            all == Cardinality(WordingsOf[k])
            d == HashTtl + Generation
<1>1. n \in Nat /\ all \in Nat /\ n <= all /\ IsFiniteSet(Kepts(k))
  BY KeptsAreFinite
<1>2. n # 0
  BY <1>1, FS_EmptySet
<1>3. d \in Nat
  BY FaqNumbers
<1>4. hashes[k].ages[v] <= (n - 1) * d + Generation + HashTtl - hashes[k].left
  BY DEF FaqInv, AgesAreBounded, Lives
<1>5. hashes[k].left \in Nat /\ hashes[k].ages[v] \in Nat
  BY DEF FaqInv, FaqTyped
<1>6. n - 1 \in Nat /\ (n - 1) * d + d = n * d
  <2>. HIDE DEF n, d
  <2>1. PICK m \in Nat : n = m + 1
    <3>1. n - 1 \in Nat /\ n = (n - 1) + 1
      BY <1>1, <1>2
    <3>. QED
      BY <3>1
  <2>2. ((m + 1) - 1) * d = (m - 1) * d + d /\ (m + 1) - 1 = m /\ (m + 1) * d = m * d + d
    BY <1>3
  <2>. QED
    BY <2>1, <2>2
<1>7. (n - 1) * d \in Nat /\ n * d <= all * d /\ n * d \in Nat /\ all * d \in Nat
  <2>. HIDE DEF n, d, all
  <2>. QED
    BY <1>1, <1>3, <1>6, LivesAdd
<1>8. hashes[k].ages[v] <= n * d
  <2>. DEFINE age == hashes[k].ages[v]
              left == hashes[k].left
              less == (n - 1) * d
              much == n * d
  <2>1. age <= less + Generation + HashTtl - left /\ less + (HashTtl + Generation) = much
    BY <1>4, <1>6
  <2>2. age \in Nat /\ left \in Nat /\ less \in Nat /\ much \in Nat /\ HashTtl \in Nat /\ Generation \in Nat
    BY <1>5, <1>7, FaqNumbers
  <2>. HIDE DEF age, left, less, much
  <2>3. age <= much
    BY <2>1, <2>2
  <2>. QED
    BY <2>3 DEF age, much
<1>9. hashes[k].ages[v] <= all * d
  <2>. DEFINE age == hashes[k].ages[v]
              much == n * d
              most == all * d
  <2>1. age <= much /\ much <= most /\ age \in Nat /\ much \in Nat /\ most \in Nat
    BY <1>5, <1>7, <1>8
  <2>. HIDE DEF age, much, most
  <2>2. age <= most
    BY <2>1
  <2>. QED
    BY <2>2 DEF age, most
<1>. QED
  BY <1>5, <1>7, <1>8, <1>9 DEF Lives

\* What a call may be told.
ReplyFits(a) ==
  a.kind = "cached" => /\ a.age <= Cardinality(WordingsOf[a.of]) * (HashTtl + Generation)
                       /\ a.wording \in WordingsOf[a.of]

\* A call moves on and the hashes stay: the invariant holds on when a call that is about to
\* write a wording that has an answer was about to do so before.
LEMMA AskerMoves ==
  ASSUME FaqInv, NEW p \in FaqAskers, NEW q \in Question, NEW a \in FaqReply,
         QuestionFits(q), ReplyFits(a), UNCHANGED hashes,
         asker' = [asker EXCEPT ![p] = q], replied' = [replied EXCEPT ![p] = a],
         \A k \in Hashes : Writes(q, k) => Writes(asker[p], k) /\ q.left = asker[p].left
  PROVE  FaqInv'
<1>1. /\ asker \in [FaqAskers -> Question] /\ replied \in [FaqAskers -> FaqReply]
  BY DEF FaqInv, FaqTyped
<1>2. \A x \in FaqAskers : asker'[x] = (IF x = p THEN q ELSE asker[x]) /\ replied'[x] = (IF x = p THEN a ELSE replied[x])
  BY <1>1
<1>3. FaqTyped'
  BY <1>1 DEF FaqInv, FaqTyped, Kepts
<1>4. QuestionsFit'
  BY <1>2 DEF FaqInv, QuestionsFit, QuestionFits
<1>5. HashesFit' /\ AgesAreBounded'
  BY DEF FaqInv, HashesFit, AgesAreBounded, Kepts, Lives
<1>6. WritesAreNear'
  <2>. SUFFICES ASSUME NEW x \in FaqAskers, NEW k \in Hashes, NEW v \in Kepts(k), Writes(asker'[x], k)
                PROVE  hashes[k].ages[v] <= Lives(k) + Generation - asker'[x].left
    BY DEF WritesAreNear, Kepts, Lives, Writes
  <2>1. Writes(asker[x], k) /\ asker'[x].left = asker[x].left
    BY <1>2
  <2>. QED
    BY <2>1 DEF FaqInv, WritesAreNear
<1>7. FaqAgesOut'
  BY <1>2 DEF FaqInv, FaqAgesOut, ReplyFits
<1>. QED
  BY <1>3, <1>4, <1>5, <1>6, <1>7 DEF FaqInv

\* The same when it is told nothing new.
LEMMA AskerProceeds ==
  ASSUME FaqInv, NEW p \in FaqAskers, NEW q \in Question,
         QuestionFits(q), UNCHANGED <<hashes, replied>>, asker' = [asker EXCEPT ![p] = q],
         \A k \in Hashes : Writes(q, k) => Writes(asker[p], k) /\ q.left = asker[p].left
  PROVE  FaqInv'
<1>1. replied' = [replied EXCEPT ![p] = replied[p]] /\ replied[p] \in FaqReply
  BY DEF FaqInv, FaqTyped
<1>2. ReplyFits(replied[p])
  BY DEF FaqInv, FaqAgesOut, ReplyFits
<1>. QED
  BY <1>1, <1>2, AskerMoves

\* A call that is over writes nothing, and any reply but one from the cache fits.
LEMMA AskerIsTold ==
  ASSUME FaqInv, NEW p \in FaqAskers, NEW a \in FaqReply, ReplyFits(a), UNCHANGED hashes, Tells(p, a)
  PROVE  FaqInv'
<1>1. NoQuestion \in Question /\ QuestionFits(NoQuestion) /\ \A k \in Hashes : ~Writes(NoQuestion, k)
  BY DEF Question, NoQuestion, QuestionFits, Writes
<1>. QED
  BY <1>1, AskerMoves DEF Tells

\* Every step of a call keeps the invariant of the cache.
LEMMA FaqStepsOfACall ==
  ASSUME FaqInv, NEW p \in FaqAskers
  PROVE  /\ (\E k \in Hashes, w \in Wordings, alone \in BOOLEAN : AskFaq(p, k, w, alone)) => FaqInv'
         /\ Embed(p) \/ ServeAnswer(p) \/ Miss(p) \/ Generate(p) \/ Interrupt(p) => FaqInv'
<1>1. asker[p] \in Question /\ QuestionFits(asker[p])
  BY DEF FaqInv, FaqTyped, QuestionsFit
<1>2. /\ [kind |-> "agents"] \in FaqReply /\ [kind |-> "failed"] \in FaqReply /\ [kind |-> "generated"] \in FaqReply
      /\ NotAnswered \in FaqReply
      /\ ReplyFits([kind |-> "agents"]) /\ ReplyFits([kind |-> "failed"]) /\ ReplyFits([kind |-> "generated"])
      /\ ReplyFits(NotAnswered)
  BY DEF FaqReply, ReplyFits, NotAnswered
<1>3. ASSUME NEW k \in Hashes, NEW w \in Wordings, NEW alone \in BOOLEAN, AskFaq(p, k, w, alone)
      PROVE  FaqInv'
  <2>1. CASE Eligible(k, w, alone)
    <3>. DEFINE q == [at |-> "embedding", key |-> k, wording |-> w]
    <3>1. q \in Question /\ QuestionFits(q) /\ \A h \in Hashes : ~Writes(q, h)
      BY <2>1 DEF Question, QuestionFits, Writes, Eligible
    <3>2. asker' = [asker EXCEPT ![p] = q] /\ replied' = [replied EXCEPT ![p] = NotAnswered] /\ UNCHANGED hashes
      BY <1>3, <2>1 DEF AskFaq
    <3>. QED
      BY <1>2, <3>1, <3>2, AskerMoves
  <2>2. CASE ~Eligible(k, w, alone)
    BY <1>2, <1>3, <2>2, AskerIsTold DEF AskFaq
  <2>. QED
    BY <2>1, <2>2
<1>4. ASSUME NEW keeps \in BOOLEAN, asker[p].at \in {"embedding", "reading"}, Misses(p, keeps), UNCHANGED hashes,
             keeps => Near(asker[p].key, asker[p].wording) = {}
      PROVE  FaqInv'
  <2>. DEFINE q == [at |-> "generating", key |-> asker[p].key, wording |-> asker[p].wording,
                    keeps |-> keeps, left |-> Generation]
  <2>1. asker[p] \in [at : {"embedding", "reading"}, key : Hashes, wording : Wordings]
    BY <1>1, <1>4 DEF Question, NoQuestion
  <2>2. q \in Question /\ QuestionFits(q)
    BY <1>1, <1>4, <2>1, FaqNumbers DEF Question, QuestionFits
  <2>3. ASSUME NEW k \in Hashes PROVE ~Writes(q, k)
    BY <1>4 DEF Writes, Near, Kepts
  <2>4. asker' = [asker EXCEPT ![p] = q] /\ UNCHANGED replied
    BY <1>4 DEF Misses, Proceeds
  <2>. HIDE DEF q
  <2>. QED
    BY <1>4, <2>2, <2>3, <2>4, AskerProceeds
<1>5. CASE Embed(p)
  <2>1. CASE Misses(p, FALSE)
    BY <1>4, <1>5, <2>1 DEF Embed
  <2>2. CASE Proceeds(p, [asker[p] EXCEPT !.at = "reading"])
    <3>. DEFINE q == [asker[p] EXCEPT !.at = "reading"]
    <3>1. asker[p] \in [at : {"embedding", "reading"}, key : Hashes, wording : Wordings]
      BY <1>1, <1>5 DEF Embed, Question, NoQuestion
    <3>2. q \in Question /\ QuestionFits(q) /\ q.at = "reading"
      BY <1>1, <1>5, <3>1 DEF Embed, Question, QuestionFits
    <3>3. asker' = [asker EXCEPT ![p] = q] /\ UNCHANGED <<hashes, replied>>
      BY <1>5, <2>2 DEF Embed, Proceeds
    <3>. HIDE DEF q
    <3>. QED
      BY <3>2, <3>3, AskerProceeds DEF Writes
  <2>. QED
    BY <1>5, <2>1, <2>2 DEF Embed
<1>6. CASE ServeAnswer(p)
  <2>. DEFINE q == asker[p]
  <2>1. asker[p] \in [at : {"embedding", "reading"}, key : Hashes, wording : Wordings]
    BY <1>1, <1>6 DEF ServeAnswer, Question, NoQuestion
  <2>2. PICK v \in Near(q.key, q.wording) :
             Tells(p, [kind |-> "cached", of |-> q.key, wording |-> v, age |-> hashes[q.key].ages[v]])
    BY <1>6 DEF ServeAnswer
  <2>3. q.key \in Hashes /\ v \in Kepts(q.key)
    BY <2>1, <2>2 DEF Near, Kepts
  <2>4. v \in WordingsOf[q.key] /\ v \in Wordings
    BY <2>3 DEF FaqInv, HashesFit, Wordings
  <2>5. hashes[q.key].ages[v] \in Nat /\ hashes[q.key].ages[v] <= Cardinality(WordingsOf[q.key]) * (HashTtl + Generation)
    BY <2>3, NoAnswerIsOlder
  <2>6. UNCHANGED hashes
    BY <1>6 DEF ServeAnswer
  <2>. DEFINE a == [kind |-> "cached", of |-> q.key, wording |-> v, age |-> hashes[q.key].ages[v]]
  <2>7. a \in FaqReply /\ ReplyFits(a)
    BY <2>3, <2>4, <2>5 DEF FaqReply, ReplyFits
  <2>. QED
    BY <2>2, <2>6, <2>7, AskerIsTold
<1>7. CASE Miss(p)
  BY <1>4, <1>7 DEF Miss
<1>8. CASE Generate(p)
  <2>1. CASE asker[p].keeps /\ Proceeds(p, [asker[p] EXCEPT !.at = "keeping"])
    <3>. DEFINE q == [asker[p] EXCEPT !.at = "keeping"]
    <3>1. asker[p] \in [at : {"generating", "keeping"}, key : Hashes, wording : Wordings, keeps : BOOLEAN, left : Nat]
      BY <1>1, <1>8 DEF Generate, Question, NoQuestion
    <3>2. /\ q \in Question /\ QuestionFits(q)
          /\ q.key = asker[p].key /\ q.wording = asker[p].wording /\ q.keeps = asker[p].keeps /\ q.left = asker[p].left
      BY <1>1, <1>8, <2>1, <3>1 DEF Generate, Question, QuestionFits
    <3>3. asker' = [asker EXCEPT ![p] = q] /\ UNCHANGED <<hashes, replied>>
      BY <1>8, <2>1 DEF Generate, Proceeds
    <3>4. asker[p].at = "generating"
      BY <1>8 DEF Generate
    <3>. HIDE DEF q
    <3>. QED
      BY <3>2, <3>3, <3>4, AskerProceeds DEF Writes
  <2>2. CASE Tells(p, [kind |-> "failed"]) \/ Tells(p, [kind |-> "generated"])
    BY <1>2, <1>8, <2>2, AskerIsTold DEF Generate
  <2>. QED
    BY <1>8, <2>1, <2>2 DEF Generate
<1>9. CASE Interrupt(p)
  <2>1. NoQuestion \in Question /\ QuestionFits(NoQuestion) /\ \A k \in Hashes : ~Writes(NoQuestion, k)
    BY DEF Question, NoQuestion, QuestionFits, Writes
  <2>. QED
    BY <1>9, <2>1, AskerProceeds DEF Interrupt
<1>. QED
  BY <1>3, <1>5, <1>6, <1>7, <1>8, <1>9

\* A set that gains a member has one more.
LEMMA OneMoreMember ==
  ASSUME NEW S, NEW x, IsFiniteSet(S), x \notin S
  PROVE  Cardinality(S \cup {x}) = Cardinality(S) + 1
BY FS_AddElement

\* An answer is written: either its wording had one, and this call missed it before, or the
\* wordings become one more.
LEMMA AnswerIsKept ==
  ASSUME FaqInv, NEW p \in FaqAskers, NEW k, NEW w, NEW l,
         asker[p].key = k, asker[p].wording = w, asker[p].left = l, KeepAnswer(p), Kept(k, w)
  PROVE  FaqInv'
<1>. DEFINE d == HashTtl + Generation
<1>1. /\ asker[p].at = "keeping" /\ asker[p].keeps /\ l \in Nat /\ l <= Generation
      /\ k \in Hashes /\ w \in WordingsOf[k]
  <2>1. asker[p] \in [at : {"generating", "keeping"}, key : Hashes, wording : Wordings, keeps : BOOLEAN, left : Nat]
    BY DEF KeepAnswer, FaqInv, FaqTyped, Question, NoQuestion
  <2>. QED
    BY <2>1 DEF KeepAnswer, FaqInv, QuestionsFit, QuestionFits
<1>2. d \in Nat /\ HashTtl \in Nat /\ Generation \in Nat
  BY FaqNumbers
<1>3. /\ hashes' = [h \in Hashes |-> hashes'[h]]
      /\ \A h \in Hashes \ {k} : hashes'[h] = hashes[h]
      /\ hashes'[k] = [left |-> HashTtl, ages |-> [v \in Kepts(k) \cup {w} |-> IF v = w THEN 0 ELSE hashes[k].ages[v]]]
  BY <1>1 DEF Kept, FaqInv, FaqTyped, Kepts
<1>4. /\ Kepts(k)' = Kepts(k) \cup {w} /\ hashes'[k].left = HashTtl
      /\ \A v \in Kepts(k)' : hashes'[k].ages[v] = IF v = w THEN 0 ELSE hashes[k].ages[v]
      /\ \A h \in Hashes \ {k} : Kepts(h)' = Kepts(h) /\ Lives(h)' = Lives(h)
  BY <1>3 DEF Kepts, Lives
<1>5. /\ asker' = [asker EXCEPT ![p] = NoQuestion] /\ replied' = [replied EXCEPT ![p] = [kind |-> "generated"]]
  BY DEF KeepAnswer, Tells
<1>6. \A x \in FaqAskers : asker'[x] = (IF x = p THEN NoQuestion ELSE asker[x])
  BY <1>5 DEF FaqInv, FaqTyped
<1>7. Lives(k)' \in Nat /\ \A v \in Kepts(k)' : hashes'[k].ages[v] \in Nat /\ hashes'[k].ages[v] <= Lives(k)' + Generation
  <2>1. \A v \in Kepts(k) : hashes[k].ages[v] \in Nat
    BY <1>1 DEF FaqInv, FaqTyped
  <2>2. CASE w \in Kepts(k)
    <3>1. Kepts(k)' = Kepts(k) /\ Lives(k)' = Lives(k) /\ Lives(k) \in Nat
      <4>1. Kepts(k)' = Kepts(k)
        BY <1>4, <2>2
      <4>. QED
        BY <1>1, <2>2, <4>1, NoAnswerIsOlder DEF Lives
    <3>2. ASSUME NEW v \in Kepts(k)
          PROVE  hashes[k].ages[v] <= Lives(k) + Generation
      <4>1. hashes[k].ages[v] <= Lives(k) + Generation - l
        BY <1>1, <2>2 DEF FaqInv, WritesAreNear, Writes
      <4>. DEFINE age == hashes[k].ages[v]
                  lives == Lives(k)
      <4>2. age \in Nat /\ lives \in Nat /\ l \in Nat /\ age <= lives + Generation - l
        BY <1>1, <2>1, <3>1, <4>1
      <4>. HIDE DEF age, lives
      <4>3. age <= lives + Generation
        BY <1>2, <4>2
      <4>. QED
        BY <4>3 DEF age, lives
    <3>. QED
      BY <1>2, <1>4, <2>1, <3>1, <3>2
  <2>3. CASE w \notin Kepts(k)
    <3>. DEFINE n == Cardinality(Kepts(k))
    <3>1. n \in Nat /\ IsFiniteSet(Kepts(k))
      BY <1>1, KeptsAreFinite
    <3>2. Cardinality(Kepts(k)') = n + 1
      <4>1. Cardinality(Kepts(k) \cup {w}) = n + 1
        BY ONLY <2>3, <3>1, OneMoreMember
      <4>. QED
        BY ONLY <1>4, <4>1
    <3>3. Lives(k)' = ((n + 1) - 1) * d
      BY <3>2 DEF Lives
    <3>4. Lives(k)' = n * d /\ n * d \in Nat
      <4>. HIDE DEF n, d
      <4>1. (n + 1) - 1 = n
        BY <3>1
      <4>2. n * d \in Nat
        BY <1>2, <3>1
      <4>. QED
        BY <3>3, <4>1, <4>2
    <3>5. \A v \in Kepts(k) : hashes[k].ages[v] <= n * d
      BY <1>1, NoAnswerIsOlder
    <3>. DEFINE most == n * d
    <3>6. most \in Nat /\ Lives(k)' = most /\ \A v \in Kepts(k) : hashes[k].ages[v] <= most
      BY <3>4, <3>5
    <3>. HIDE DEF most
    <3>. QED
      BY <1>2, <1>4, <2>1, <3>6
  <2>. QED
    BY <2>2, <2>3
<1>8. FaqTyped'
  <2>1. [kind |-> "generated"] \in FaqReply /\ NoQuestion \in Question
    BY DEF FaqReply, Question
  <2>2. asker' \in [FaqAskers -> Question] /\ replied' \in [FaqAskers -> FaqReply]
    BY <1>5, <2>1 DEF FaqInv, FaqTyped
  <2>3. ASSUME NEW h \in Hashes
        PROVE  hashes'[h].left \in Nat /\ \A v \in Kepts(h)' : hashes'[h].ages[v] \in Nat
    <3>1. CASE h = k
      BY <1>2, <1>4, <1>7, <3>1
    <3>2. CASE h # k
      BY <1>3, <1>4, <3>2 DEF FaqInv, FaqTyped
    <3>. QED
      BY <3>1, <3>2
  <2>. QED
    BY <1>3, <2>2, <2>3 DEF FaqTyped
<1>9. QuestionsFit'
  BY <1>6 DEF FaqInv, QuestionsFit, QuestionFits, NoQuestion
<1>10. HashesFit'
  <2>. SUFFICES ASSUME NEW h \in Hashes
                PROVE  Kepts(h)' \subseteq WordingsOf[h] /\ hashes'[h].left <= HashTtl
    BY DEF HashesFit
  <2>1. CASE h = k
    BY <1>1, <1>2, <1>4, <2>1 DEF FaqInv, HashesFit
  <2>2. CASE h # k
    BY <1>3, <1>4, <2>2 DEF FaqInv, HashesFit
  <2>. QED
    BY <2>1, <2>2
<1>11. AgesAreBounded'
  <2>. SUFFICES ASSUME NEW h \in Hashes, NEW v \in Kepts(h)'
                PROVE  hashes'[h].ages[v] <= Lives(h)' + Generation + HashTtl - hashes'[h].left
    BY DEF AgesAreBounded
  <2>1. CASE h = k
    <3>. DEFINE age == hashes'[k].ages[v]
                lives == Lives(k)'
    <3>1. age \in Nat /\ lives \in Nat /\ age <= lives + Generation
      BY <1>7, <2>1
    <3>. HIDE DEF age, lives
    <3>2. age <= lives + Generation + HashTtl - HashTtl
      BY <1>2, <3>1
    <3>. QED
      BY <1>4, <2>1, <3>2 DEF age, lives
  <2>2. CASE h # k
    BY <1>3, <1>4, <2>2 DEF FaqInv, AgesAreBounded
  <2>. QED
    BY <2>1, <2>2
<1>12. WritesAreNear'
  <2>. SUFFICES ASSUME NEW x \in FaqAskers, NEW h \in Hashes, NEW v \in Kepts(h)', Writes(asker[x], h)'
                PROVE  hashes'[h].ages[v] <= Lives(h)' + Generation - asker'[x].left
    BY DEF WritesAreNear
  <2>1. x # p /\ asker'[x] = asker[x] /\ QuestionFits(asker[x]) /\ asker[x] \in Question
    BY <1>6 DEF Writes, NoQuestion, FaqInv, FaqTyped, QuestionsFit
  <2>2. /\ asker[x].at \in {"generating", "keeping"} /\ asker[x].keeps /\ asker[x].key = h
        /\ asker[x].wording \in Kepts(h)' /\ asker[x].left \in Nat /\ asker[x].left <= Generation
    BY <2>1 DEF Writes, QuestionFits, Question, NoQuestion
  <2>3. CASE h # k
    <3>1. Writes(asker[x], h) /\ v \in Kepts(h)
      BY <1>4, <2>2, <2>3 DEF Writes
    <3>. QED
      BY <1>3, <1>4, <2>1, <2>3, <3>1 DEF FaqInv, WritesAreNear
  <2>4. CASE h = k
    <3>. DEFINE left == asker[x].left
                age == hashes'[k].ages[v]
                lives == Lives(k)'
    <3>1. age \in Nat /\ lives \in Nat /\ left \in Nat /\ left <= Generation
      BY <1>7, <2>2, <2>4
    <3>2. CASE w \in Kepts(k)
      <4>1. Kepts(k)' = Kepts(k) /\ Lives(k)' = Lives(k)
        <5>1. Kepts(k)' = Kepts(k)
          BY <1>4, <3>2
        <5>. QED
          BY <5>1 DEF Lives
      <4>2. hashes[k].ages[v] <= Lives(k) + Generation - left
        BY <1>1, <2>2, <2>4, <4>1 DEF FaqInv, WritesAreNear, Writes
      <4>3. age = 0 \/ age = hashes[k].ages[v]
        BY <1>4, <2>4
      <4>4. age <= lives + Generation - left
        <5>1. age = 0 \/ age <= lives + Generation - left
          BY <4>1, <4>2, <4>3
        <5>. HIDE DEF age, lives, left
        <5>. QED
          BY <1>2, <3>1, <5>1
      <4>. QED
        BY <2>1, <2>4, <4>4
    <3>3. CASE w \notin Kepts(k)
      <4>. DEFINE n == Cardinality(Kepts(k))
      <4>1. n \in Nat /\ IsFiniteSet(Kepts(k))
        BY <1>1, KeptsAreFinite
      <4>2. Cardinality(Kepts(k)') = n + 1
        <5>1. Cardinality(Kepts(k) \cup {w}) = n + 1
          BY ONLY <3>3, <4>1, OneMoreMember
        <5>. QED
          BY ONLY <1>4, <5>1
      <4>3. (n + 1) - 1 = n
        BY <4>1
      <4>4. lives = n * d
        BY <4>2, <4>3 DEF Lives
      <4>5. age = 0 \/ age <= n * d
        BY <1>1, <1>4, <2>4, NoAnswerIsOlder
      <4>6. age <= lives + Generation - left
        <5>1. age = 0 \/ age <= lives
          BY <4>4, <4>5
        <5>. HIDE DEF age, lives, left
        <5>. QED
          BY <1>2, <3>1, <5>1
      <4>. QED
        BY <2>1, <2>4, <4>6
    <3>. QED
      BY <3>2, <3>3
  <2>. QED
    BY <2>3, <2>4
<1>13. FaqAgesOut'
  BY <1>5 DEF FaqInv, FaqTyped, FaqAgesOut
<1>. QED
  BY <1>8, <1>9, <1>10, <1>11, <1>12, <1>13 DEF FaqInv

\* Time passes: a hash dies, or its answers grow older as fast as its life runs out, and so
\* do the answers that are still to be written.
LEMMA FaqTimePasses == FaqInv /\ FaqTick => FaqInv'
<1>. SUFFICES ASSUME FaqInv, FaqTick
              PROVE  FaqInv'
  OBVIOUS
<1>1. \A k \in Hashes : hashes'[k] = IF hashes[k].left <= 1 THEN [left |-> 0, ages |-> NoAnswers]
        ELSE [left |-> hashes[k].left - 1, ages |-> [v \in DOMAIN hashes[k].ages |-> hashes[k].ages[v] + 1]]
  BY DEF FaqTick
<1>2. ASSUME NEW k \in Hashes
      PROVE  \/ Kepts(k)' = {} /\ hashes'[k].left = 0
             \/ /\ Kepts(k)' = Kepts(k) /\ Lives(k)' = Lives(k)
                /\ hashes'[k].left \in Nat /\ hashes'[k].left = hashes[k].left - 1
                /\ \A v \in Kepts(k) : hashes'[k].ages[v] = hashes[k].ages[v] + 1
  <2>1. CASE hashes[k].left <= 1
    <3>1. hashes'[k] = [left |-> 0, ages |-> NoAnswers]
      BY <1>1, <2>1
    <3>2. hashes'[k].left = 0 /\ DOMAIN hashes'[k].ages = {}
      BY <3>1 DEF NoAnswers
    <3>. QED
      BY <3>2 DEF Kepts
  <2>2. CASE ~(hashes[k].left <= 1)
    <3>1. hashes'[k] = [left |-> hashes[k].left - 1, ages |-> [v \in Kepts(k) |-> hashes[k].ages[v] + 1]]
      BY <1>1, <2>2 DEF Kepts
    <3>2. Kepts(k)' = Kepts(k) /\ \A v \in Kepts(k) : hashes'[k].ages[v] = hashes[k].ages[v] + 1
      BY <3>1 DEF Kepts
    <3>3. hashes[k].left \in Nat /\ hashes'[k].left = hashes[k].left - 1
      BY <3>1 DEF FaqInv, FaqTyped
    <3>. QED
      BY <2>2, <3>2, <3>3 DEF Lives
  <2>. QED
    BY <2>1, <2>2
<1>3. ASSUME NEW p \in FaqAskers
      PROVE  \/ asker[p].at \notin {"generating", "keeping"} /\ asker'[p] = asker[p]
             \/ /\ asker[p].at \in {"generating", "keeping"} /\ asker[p].left \in Nat /\ asker[p].left > 0
                /\ asker'[p] = [asker[p] EXCEPT !.left = @ - 1]
                /\ asker[p] \in [at : {"generating", "keeping"}, key : Hashes, wording : Wordings, keeps : BOOLEAN, left : Nat]
  <2>1. asker[p] \in Question
    BY DEF FaqInv, FaqTyped
  <2>2. CASE asker[p].at \notin {"generating", "keeping"}
    BY <2>2 DEF FaqTick
  <2>3. CASE asker[p].at \in {"generating", "keeping"}
    <3>1. asker[p] \in [at : {"generating", "keeping"}, key : Hashes, wording : Wordings, keeps : BOOLEAN, left : Nat]
      BY <2>1, <2>3 DEF Question, NoQuestion
    <3>. QED
      BY <2>3, <3>1 DEF FaqTick
  <2>. QED
    BY <2>2, <2>3
<1>4. ASSUME NEW p \in FaqAskers
      PROVE  /\ asker'[p] \in Question /\ QuestionFits(asker'[p])
             /\ asker'[p].at \in {"generating", "keeping"} =>
                  /\ asker[p].at \in {"generating", "keeping"} /\ asker'[p].key = asker[p].key
                  /\ asker'[p].wording = asker[p].wording /\ asker'[p].keeps = asker[p].keeps
                  /\ asker[p].left \in Nat /\ asker'[p].left = asker[p].left - 1
  <2>1. asker[p] \in Question /\ QuestionFits(asker[p])
    BY DEF FaqInv, FaqTyped, QuestionsFit
  <2>2. CASE asker[p].at \notin {"generating", "keeping"} /\ asker'[p] = asker[p]
    BY <2>1, <2>2
  <2>3. CASE /\ asker[p].at \in {"generating", "keeping"} /\ asker[p].left \in Nat /\ asker[p].left > 0
             /\ asker'[p] = [asker[p] EXCEPT !.left = @ - 1]
             /\ asker[p] \in [at : {"generating", "keeping"}, key : Hashes, wording : Wordings, keeps : BOOLEAN, left : Nat]
    <3>1. /\ asker'[p] \in [at : {"generating", "keeping"}, key : Hashes, wording : Wordings, keeps : BOOLEAN, left : Nat]
          /\ asker'[p].at = asker[p].at /\ asker'[p].key = asker[p].key
          /\ asker'[p].wording = asker[p].wording /\ asker'[p].keeps = asker[p].keeps
          /\ asker'[p].left = asker[p].left - 1
      BY <2>3
    <3>2. asker[p].left <= Generation
      BY <2>1, <2>3 DEF QuestionFits
    <3>. QED
      BY <2>1, <2>3, <3>1, <3>2, FaqNumbers DEF Question, QuestionFits
  <2>. QED
    BY <1>3, <2>2, <2>3
<1>5. FaqTyped'
  <2>1. asker' \in [FaqAskers -> Question]
    <3>1. asker' = [p \in FaqAskers |-> asker'[p]]
      BY DEF FaqTick
    <3>. QED
      BY <1>4, <3>1
  <2>2. replied' \in [FaqAskers -> FaqReply]
    BY DEF FaqTick, FaqReply
  <2>3. hashes' = [k \in Hashes |-> hashes'[k]]
    BY DEF FaqTick
  <2>4. ASSUME NEW k \in Hashes
        PROVE  hashes'[k].left \in Nat /\ \A v \in Kepts(k)' : hashes'[k].ages[v] \in Nat
    <3>1. \A v \in Kepts(k) : hashes[k].ages[v] \in Nat
      BY DEF FaqInv, FaqTyped
    <3>. QED
      BY <1>2, <3>1
  <2>. QED
    BY <2>1, <2>2, <2>3, <2>4 DEF FaqTyped
<1>6. QuestionsFit'
  BY <1>4 DEF QuestionsFit
<1>7. HashesFit'
  <2>. SUFFICES ASSUME NEW k \in Hashes
                PROVE  Kepts(k)' \subseteq WordingsOf[k] /\ hashes'[k].left <= HashTtl
    BY DEF HashesFit
  <2>1. Kepts(k) \subseteq WordingsOf[k] /\ hashes[k].left <= HashTtl /\ hashes[k].left \in Nat
    BY DEF FaqInv, HashesFit, FaqTyped
  <2>. QED
    BY <1>2, <2>1, FaqNumbers
<1>8. AgesAreBounded'
  <2>. SUFFICES ASSUME NEW k \in Hashes, NEW v \in Kepts(k)'
                PROVE  hashes'[k].ages[v] <= Lives(k)' + Generation + HashTtl - hashes'[k].left
    BY DEF AgesAreBounded
  <2>. DEFINE age == hashes[k].ages[v]
              lives == Lives(k)
              left == hashes[k].left
  <2>1. /\ v \in Kepts(k) /\ Lives(k)' = lives /\ hashes'[k].left = left - 1 /\ hashes'[k].ages[v] = age + 1
    BY <1>2
  <2>2. age \in Nat /\ lives \in Nat /\ left \in Nat /\ age <= lives + Generation + HashTtl - left
    BY <2>1, NoAnswerIsOlder DEF FaqInv, FaqTyped, AgesAreBounded
  <2>. HIDE DEF age, lives, left
  <2>3. age + 1 <= lives + Generation + HashTtl - (left - 1)
    BY <2>2, FaqNumbers
  <2>. QED
    BY <2>1, <2>3
<1>9. WritesAreNear'
  <2>. SUFFICES ASSUME NEW p \in FaqAskers, NEW k \in Hashes, NEW v \in Kepts(k)', Writes(asker[p], k)'
                PROVE  hashes'[k].ages[v] <= Lives(k)' + Generation - asker'[p].left
    BY DEF WritesAreNear
  <2>. DEFINE age == hashes[k].ages[v]
              lives == Lives(k)
              left == asker[p].left
  <2>1. /\ v \in Kepts(k) /\ Kepts(k)' = Kepts(k) /\ Lives(k)' = lives /\ hashes'[k].ages[v] = age + 1
    BY <1>2
  <2>2. Writes(asker[p], k) /\ left \in Nat /\ asker'[p].left = left - 1
    BY <1>4, <2>1 DEF Writes
  <2>3. age \in Nat /\ lives \in Nat /\ age <= lives + Generation - left
    BY <2>1, <2>2, NoAnswerIsOlder DEF FaqInv, WritesAreNear
  <2>4. age + 1 <= lives + Generation - (left - 1)
    <3>. HIDE DEF age, lives, left
    <3>. QED
      BY <2>2, <2>3, FaqNumbers
  <2>. QED
    BY <2>1, <2>2, <2>4
<1>10. FaqAgesOut'
  BY DEF FaqTick, FaqAgesOut, NotAnswered
<1>. QED
  BY <1>5, <1>6, <1>7, <1>8, <1>9, <1>10 DEF FaqInv

\* Every step keeps the invariant of the cache.
LEMMA FaqInvInductive == FaqInv /\ [FaqNext]_faqVars => FaqInv'
<1>. SUFFICES ASSUME FaqInv, [FaqNext]_faqVars
              PROVE  FaqInv'
  OBVIOUS
<1>1. ASSUME NEW p \in FaqAskers, KeepAnswer(p)
      PROVE  FaqInv'
  <2>1. [kind |-> "generated"] \in FaqReply /\ ReplyFits([kind |-> "generated"])
    BY DEF FaqReply, ReplyFits
  <2>2. CASE UNCHANGED hashes
    BY <1>1, <2>1, <2>2, AskerIsTold DEF KeepAnswer
  <2>3. CASE Kept(asker[p].key, asker[p].wording)
    <3>1. PICK k, w, l : asker[p].key = k /\ asker[p].wording = w /\ asker[p].left = l
      OBVIOUS
    <3>. QED
      BY <1>1, <2>3, <3>1, AnswerIsKept
  <2>. QED
    BY <1>1, <2>2, <2>3 DEF KeepAnswer
<1>2. CASE UNCHANGED faqVars
  <2>1. UNCHANGED <<hashes, asker, replied>>
    BY <1>2 DEF faqVars
  <2>. QED
    BY <2>1 DEF FaqInv, FaqTyped, QuestionsFit, QuestionFits, HashesFit, AgesAreBounded, WritesAreNear,
                Writes, FaqAgesOut, Kepts, Lives
<1>. QED
  BY <1>1, <1>2, FaqStepsOfACall, FaqTimePasses DEF FaqNext

\* The invariant of the cache holds in every state.
LEMMA FaqInvHolds == FaqSpec => []FaqInv
<1>1. FaqInit => FaqInv
  <2>. SUFFICES ASSUME FaqInit
                PROVE  FaqInv
    OBVIOUS
  <2>1. \A k \in Hashes : Kepts(k) = {} /\ hashes[k].left = 0
    BY DEF FaqInit, Kepts, NoAnswers
  <2>2. \A p \in FaqAskers : asker[p] = NoQuestion /\ replied[p] = NotAnswered
    BY DEF FaqInit
  <2>3. FaqTyped
    BY <2>1 DEF FaqInit, FaqTyped, Question, FaqReply
  <2>4. QuestionsFit /\ WritesAreNear /\ FaqAgesOut
    BY <2>2 DEF QuestionsFit, QuestionFits, WritesAreNear, Writes, FaqAgesOut, NoQuestion, NotAnswered
  <2>5. HashesFit /\ AgesAreBounded
    BY <2>1, FaqNumbers DEF HashesFit, AgesAreBounded
  <2>. QED
    BY <2>3, <2>4, <2>5 DEF FaqInv
<1>. QED
  BY <1>1, FaqInvInductive, PTL DEF FaqSpec

-----------------------------------------------------------------------------
(* The stream of events *)

\* A set of numbers that is not empty has a least one.
LEMMA LeastNumber ==
  ASSUME NEW T, T \subseteq Nat, T # {}
  PROVE  \E n \in T : \A m \in T : n <= m
<1>1. PICK n \in T : \A m \in T : ~(<<m, n>> \in OpToRel(<, Nat))
  BY NatLessThanWellFounded, WFMin
<1>2. \A m \in T : ~(m < n)
  BY <1>1 DEF OpToRel
<1> QED BY <1>2

\* Min of a non-empty set of natural numbers is one of them.
LEMMA LeastIsMin ==
  ASSUME NEW T, T \subseteq Nat, T # {}
  PROVE  Min(T) \in T /\ \A m \in T : Min(T) <= m
BY LeastNumber DEF Min

\* Max of a non-empty set of natural numbers that is bounded is one of them.
LEMMA GreatestIsMax ==
  ASSUME NEW b \in Nat, NEW T, T \subseteq 1..b, T # {}
  PROVE  Max(T) \in T /\ \A m \in T : m <= Max(T)
<1>. DEFINE U == {b - m : m \in T}
<1>1. U \subseteq Nat /\ U # {}
  <2>1. \A m \in T : m \in 1..b /\ b - m \in Nat
    OBVIOUS
  <2>. QED
    BY <2>1
<1>2. PICK k \in U : \A x \in U : k <= x
  BY <1>1, LeastNumber
<1>3. PICK n \in T : k = b - n
  BY <1>2
<1>4. \A m \in T : n >= m
  <2>. SUFFICES ASSUME NEW m \in T PROVE n >= m
    OBVIOUS
  <2>1. b - m \in U
    OBVIOUS
  <2>2. b - n <= b - m
    BY <1>2, <1>3, <2>1
  <2>. QED
    BY <1>3, <2>2
<1>5. \E n_1 \in T : \A m \in T : n_1 >= m
  BY <1>4
<1>6. Max(T) \in T /\ \A m \in T : Max(T) >= m
  BY <1>5 DEF Max
<1>. QED
  BY <1>6

EventTypes == {"run.queued", "run.started", "approval.required", "progress", "run.finished"}
StreamRow == [open : BOOLEAN, after : Nat, rows : SUBSET Nat, ends : BOOLEAN]
HeardRow == [events : SUBSET Nat, last : Nat, verdict : {"none", "erased", "expired", "complete"}]

\* Nothing is purged of a run that has not ended.
StreamTyped ==
  /\ status \in {"queued", "running", "waiting", "stopping", "ended"} /\ erased \in BOOLEAN
  /\ log \in Seq(EventTypes) /\ Len(log) > 0
  /\ stored \subseteq 1..Len(log) /\ (status # "ended" => stored = 1..Len(log))
  /\ stream \in [Readers -> StreamRow] /\ heard \in [Readers -> HeardRow]

\* What is still to be sent on a stream are all stored events that follow the last one that
\* was heard, up to the last one that was read; a stream that ends has read the end.
Sends(s, h) ==
  /\ h.last <= Len(log)
  /\ s.open => /\ h.verdict = "none" /\ h.last <= s.after /\ s.after <= Len(log)
               /\ s.rows \subseteq (h.last + 1)..s.after /\ s.after \in s.rows \union {h.last}
               /\ \A n \in stored : h.last < n /\ n <= s.after => n \in s.rows
  /\ ~s.open => s.rows = {} /\ ~s.ends
  /\ s.ends => status = "ended" /\ s.after = Len(log)

\* What a client has heard: all that is stored up to its last event, and the verdict is true.
Hears(h) ==
  /\ \A n \in stored : n <= h.last => n \in h.events
  /\ h.verdict = "expired" => status = "ended" /\ h.last + 1 \notin stored
  /\ h.verdict = "complete" => status = "ended" /\ h.last = Len(log)
StreamsFollow == \A c \in Readers : Sends(stream[c], heard[c]) /\ Hears(heard[c])

StreamInv == StreamTyped /\ StreamsFollow /\ StreamTellsStatus

\* The invariant says what is promised.
LEMMA StreamInvFollows == StreamInv => FollowsTheRun
<1>. SUFFICES ASSUME StreamInv, NEW c \in Readers
              PROVE  LET missed == (1..heard[c].last) \ heard[c].events IN
                     /\ missed \intersect stored = {} /\ (missed # {} => status = "ended")
                     /\ heard[c].verdict = "expired" => heard[c].last + 1 \notin stored
                     /\ heard[c].verdict = "complete" => status = "ended" /\ heard[c].last = Len(log)
  BY DEF FollowsTheRun
<1>1. /\ Hears(heard[c]) /\ heard[c].last <= Len(log) /\ heard[c].last \in Nat /\ Len(log) \in Nat
      /\ status # "ended" => stored = 1..Len(log)
  BY DEF StreamInv, StreamsFollow, Sends, StreamTyped, HeardRow
<1>2. status # "ended" => 1..heard[c].last \subseteq heard[c].events
  <2>. SUFFICES ASSUME status # "ended", NEW n \in 1..heard[c].last PROVE n \in heard[c].events
    OBVIOUS
  <2>1. n \in stored /\ n <= heard[c].last
    BY <1>1
  <2>. QED
    BY <1>1, <2>1 DEF Hears
<1>3. /\ heard[c].verdict = "expired" => heard[c].last + 1 \notin stored
      /\ heard[c].verdict = "complete" => status = "ended" /\ heard[c].last = Len(log)
  BY <1>1 DEF Hears
<1>4. ((1..heard[c].last) \ heard[c].events) \intersect stored = {}
  BY <1>1 DEF Hears
<1>. QED
  BY <1>2, <1>3, <1>4

\* The log is one event longer, or as it was.
LEMMA LogLonger ==
  ASSUME StreamTyped, NEW t \in EventTypes, log' = Append(log, t)
  PROVE  /\ log' \in Seq(EventTypes) /\ Len(log') = Len(log) + 1 /\ Len(log) \in Nat /\ Len(log') > 0
         /\ \A n \in DOMAIN log : log'[n] = log[n]
         /\ log'[Len(log) + 1] = t /\ DOMAIN log = 1..Len(log) /\ DOMAIN log' = 1..(Len(log) + 1)
<1>1. log \in Seq(EventTypes)
  BY DEF StreamTyped
<1>2. /\ Append(log, t) \in Seq(EventTypes) /\ Len(Append(log, t)) = Len(log) + 1
      /\ \A n \in 1..Len(log) : Append(log, t)[n] = log[n]
      /\ Append(log, t)[Len(log) + 1] = t
  BY <1>1, AppendProperties
<1>3. Len(log) \in Nat /\ DOMAIN log = 1..Len(log) /\ DOMAIN log' = 1..Len(log')
  BY <1>1, <1>2
<1>. QED
  BY <1>2, <1>3

\* What was read and heard of a log that ends at most once, and is purged only then, stays
\* true of it.
LEMMA ReadersKeepUp ==
  ASSUME StreamInv, UNCHANGED <<stream, heard>>,
         \/ /\ log' = log /\ (status = "ended" => status' = "ended")
            /\ stored' \subseteq stored
         \/ /\ status # "ended" /\ \E t \in EventTypes : log' = Append(log, t)
            /\ stored' = stored \union {Len(log) + 1}
  PROVE  StreamsFollow'
<1>1. Len(log) \in Nat /\ Len(log') \in Nat /\ Len(log) <= Len(log')
  BY LogLonger DEF StreamInv, StreamTyped
<1>2. status = "ended" => status' = "ended" /\ log' = log /\ stored' \subseteq stored
  OBVIOUS
<1>3. \A n \in stored' : n \in Nat /\ (n \in stored \/ n > Len(log))
  <2>1. stored \subseteq Nat /\ Len(log) + 1 \in Nat /\ Len(log) + 1 > Len(log)
    BY <1>1 DEF StreamInv, StreamTyped
  <2>2. stored' \subseteq stored \/ stored' = stored \union {Len(log) + 1}
    OBVIOUS
  <2>. QED
    BY <2>1, <2>2
<1>. SUFFICES ASSUME NEW c \in Readers PROVE Sends(stream[c], heard[c])' /\ Hears(heard[c])'
  BY DEF StreamsFollow
<1>4. /\ Sends(stream[c], heard[c]) /\ Hears(heard[c]) /\ stream[c] \in StreamRow
      /\ stream[c].after \in Nat /\ heard[c].last \in Nat
  BY DEF StreamInv, StreamsFollow, StreamTyped, StreamRow, HeardRow
<1>5. heard[c].last <= Len(log') /\ (stream[c].open => stream[c].after <= Len(log'))
  BY <1>1, <1>4 DEF Sends
<1>6. stream[c].ends => status' = "ended" /\ stream[c].after = Len(log')
  BY <1>2, <1>4 DEF Sends
<1>7. stream[c].open => \A n \in stored' : heard[c].last < n /\ n <= stream[c].after => n \in stream[c].rows
  <2>. SUFFICES ASSUME stream[c].open, NEW n \in stored', heard[c].last < n, n <= stream[c].after
                PROVE  n \in stream[c].rows
    OBVIOUS
  <2>1. stream[c].after <= Len(log)
    BY <1>4 DEF Sends
  <2>2. n \in stored
    <3>1. CASE n > Len(log)
      <4>1. n \in Nat
        BY <1>3
      <4>. QED
        BY <1>1, <1>4, <2>1, <3>1, <4>1
    <3>. QED
      BY <1>3, <3>1
  <2>. QED
    BY <1>4, <2>2 DEF Sends
<1>8. Sends(stream[c], heard[c])'
  BY <1>4, <1>5, <1>6, <1>7 DEF Sends
<1>9. \A n \in stored' : n <= heard[c].last => n \in heard[c].events
  <2>. SUFFICES ASSUME NEW n \in stored', n <= heard[c].last PROVE n \in heard[c].events
    OBVIOUS
  <2>1. heard[c].last <= Len(log)
    BY <1>4 DEF Sends
  <2>2. n \in stored
    <3>1. CASE n > Len(log)
      <4>1. n \in Nat
        BY <1>3
      <4>. QED
        BY <1>1, <1>4, <2>1, <3>1, <4>1
    <3>. QED
      BY <1>3, <3>1
  <2>. QED
    BY <1>4, <2>2 DEF Hears
<1>10. Hears(heard[c])'
  BY <1>2, <1>4, <1>9 DEF Hears
<1>. QED
  BY <1>8, <1>10

\* An event is written that tells the new status.
LEMMA StatusIsWritten ==
  ASSUME StreamInv, status # "ended", NEW t \in EventTypes, log' = Append(log, t),
         status' \in {"queued", "running", "waiting", "stopping", "ended"},
         status' = "queued" <=> t = "run.queued",
         status' = "waiting" <=> t = "approval.required",
         status' = "ended" <=> t = "run.finished"
  PROVE  StreamTellsStatus'
<1>1. /\ Len(log') = Len(log) + 1 /\ \A n \in DOMAIN log : log'[n] = log[n]
      /\ log'[Len(log) + 1] = t /\ DOMAIN log' = 1..(Len(log) + 1) /\ Len(log) \in Nat /\ DOMAIN log = 1..Len(log)
  BY LogLonger DEF StreamInv
<1>2. Last(log)' = t
  BY <1>1 DEF Last
<1>3. \A n \in DOMAIN log : log[n] # "run.finished"
  BY DEF StreamInv, StreamTellsStatus
<1>4. (\E n \in DOMAIN log' : log'[n] = "run.finished") <=> t = "run.finished"
  <2>1. ASSUME t = "run.finished" PROVE \E n \in DOMAIN log' : log'[n] = "run.finished"
    <3>1. Len(log) + 1 \in DOMAIN log'
      BY <1>1
    <3>. QED
      BY <1>1, <2>1, <3>1
  <2>2. ASSUME NEW n \in DOMAIN log', log'[n] = "run.finished" PROVE t = "run.finished"
    <3>1. n \in DOMAIN log \/ n = Len(log) + 1
      BY <1>1
    <3>. QED
      BY <1>1, <1>3, <2>2, <3>1
  <2>. QED
    BY <2>1, <2>2
<1>. QED
  BY <1>2, <1>4 DEF StreamTellsStatus

\* The steps of the runs keep the invariant of the stream.
LEMMA RunMovesKeep == StreamInv /\ RunMoves => StreamInv'
<1>. SUFFICES ASSUME StreamInv, RunMoves
              PROVE  StreamInv'
  OBVIOUS
<1>. USE DEF EventTypes
<1>1. UNCHANGED <<tickets, others, stream, heard>> /\ StreamTyped /\ StreamTellsStatus
  BY DEF RunMoves, StreamInv
<1>. DEFINE Written ==
              \E t \in EventTypes :
                /\ log' = Append(log, t) /\ stored' = stored \union {Len(log) + 1}
                /\ status # "ended" /\ erased' \in BOOLEAN
                /\ status' \in {"queued", "running", "waiting", "stopping", "ended"}
                /\ (status' = "queued" <=> t = "run.queued")
                /\ (status' = "waiting" <=> t = "approval.required")
                /\ (status' = "ended" <=> t = "run.finished")
            Quiet ==
              /\ log' = log /\ stored' \subseteq stored /\ erased' \in BOOLEAN
              /\ (status' = status \/ (status = "running" /\ status' = "stopping"))
              /\ (status # "ended" => stored' = stored)
<1>2. Written \/ Quiet
  <2>1. CASE StartRun \/ AskUser \/ UserApproves \/ Progress \/ EndRun
    BY <1>1, <2>1 DEF StartRun, AskUser, UserApproves, Progress, EndRun, Moves, Write, StreamTyped
  <2>2. CASE StopRun \/ EraseSource
    BY <1>1, <2>2 DEF StopRun, EraseSource, Write, StreamTyped
  <2>3. CASE Cleanup
    BY <1>1, <2>3 DEF Cleanup, Purgeable, StreamTyped
  <2>. QED
    BY <2>1, <2>2, <2>3 DEF RunMoves
<1>3. StreamTyped'
  <2>1. CASE Written
    <3>1. PICK t \in EventTypes : log' = Append(log, t)
      BY <2>1
    <3>2. log' \in Seq(EventTypes) /\ Len(log') = Len(log) + 1 /\ Len(log) \in Nat /\ Len(log') > 0
      BY <1>1, <3>1, LogLonger
    <3>3. stored' = 1..Len(log')
      BY <1>1, <2>1, <3>2 DEF StreamTyped
    <3>. QED
      BY <1>1, <2>1, <3>2, <3>3 DEF StreamTyped
  <2>2. CASE Quiet
    BY <1>1, <2>2 DEF StreamTyped
  <2>. QED
    BY <1>2, <2>1, <2>2
<1>4. StreamsFollow'
  BY <1>1, <1>2, ReadersKeepUp
<1>5. StreamTellsStatus'
  <2>1. CASE Quiet
    BY <1>1, <2>1 DEF StreamTellsStatus, Last
  <2>. QED
    BY <1>2, <2>1, StatusIsWritten
<1>. QED
  BY <1>3, <1>4, <1>5 DEF StreamInv

\* One client and its stream move, the run does not.
LEMMA ClientMoves ==
  ASSUME StreamInv, NEW c \in Readers, NEW s \in StreamRow, NEW h \in HeardRow, UNCHANGED runVars,
         stream' = [stream EXCEPT ![c] = s], heard' = [heard EXCEPT ![c] = h],
         Sends(s, h), Hears(h)
  PROVE  StreamInv'
<1>1. UNCHANGED <<status, log, stored, erased>>
  BY DEF runVars
<1>2. stream \in [Readers -> StreamRow] /\ heard \in [Readers -> HeardRow]
  BY DEF StreamInv, StreamTyped
<1>3. \A x \in Readers : stream'[x] = (IF x = c THEN s ELSE stream[x]) /\ heard'[x] = (IF x = c THEN h ELSE heard[x])
  BY <1>2
<1>4. StreamTyped'
  BY <1>1, <1>2 DEF StreamInv, StreamTyped
<1>5. StreamsFollow'
  <2>. SUFFICES ASSUME NEW x \in Readers PROVE Sends(stream[x], heard[x])' /\ Hears(heard[x])'
    BY DEF StreamsFollow
  <2>1. Sends(stream'[x], heard'[x]) /\ Hears(heard'[x])
    BY <1>3 DEF StreamInv, StreamsFollow
  <2>. QED
    BY <1>1, <2>1 DEF Sends, Hears
<1>6. StreamTellsStatus'
  BY <1>1 DEF StreamInv, StreamTellsStatus, Last
<1>. QED
  BY <1>4, <1>5, <1>6 DEF StreamInv

\* What is known of a client and its stream.
LEMMA ClientRows ==
  ASSUME StreamInv, NEW c \in Readers
  PROVE  /\ stream[c] \in StreamRow /\ heard[c] \in HeardRow /\ Sends(stream[c], heard[c]) /\ Hears(heard[c])
         /\ stream = [x \in Readers |-> stream[x]] /\ heard = [x \in Readers |-> heard[x]]
         /\ Shut \in StreamRow /\ Sends(Shut, heard[c])
<1>1. Shut \in StreamRow /\ ~Shut.open /\ ~Shut.ends /\ Shut.rows = {}
  BY DEF Shut, StreamRow
<1>. QED
  BY <1>1 DEF StreamInv, StreamTyped, StreamsFollow, Sends

\* A stream is closed, with or without a verdict.
LEMMA StreamCloses ==
  ASSUME StreamInv, NEW c \in Readers, stream' = [stream EXCEPT ![c] = Shut], UNCHANGED <<runVars, heard>>
  PROVE  StreamInv'
<1>1. heard' = [heard EXCEPT ![c] = heard[c]]
  BY ClientRows
<1>. QED
  BY <1>1, ClientRows, ClientMoves

\* The verdict of a client whose stream is closed.
LEMMA VerdictIsGiven ==
  ASSUME StreamInv, NEW c \in Readers, NEW v \in {"erased", "expired", "complete"},
         v = "complete" => status = "ended" /\ heard[c].last = Len(log),
         v = "expired" => status = "ended" /\ heard[c].last + 1 \notin stored,
         stream' = [stream EXCEPT ![c] = Shut], Judges(c, v), UNCHANGED runVars
  PROVE  StreamInv'
<1>. DEFINE h == [heard[c] EXCEPT !.verdict = v]
<1>1. h \in HeardRow /\ h.events = heard[c].events /\ h.last = heard[c].last /\ h.verdict = v
  BY ClientRows DEF HeardRow
<1>2. heard' = [heard EXCEPT ![c] = h]
  BY DEF Judges
<1>3. Sends(Shut, h) /\ Hears(h)
  BY <1>1, ClientRows DEF Sends, Shut, Hears
<1>. HIDE DEF h
<1>. QED
  BY <1>1, <1>2, <1>3, ClientRows, ClientMoves

\* What a read after the last event that was heard is refused for is so.
LEMMA RefusalIsTrue ==
  ASSUME StreamInv, NEW c \in Readers
  PROVE  /\ Refusal(heard[c].last) \in {"none", "erased", "expired"}
         /\ Refusal(heard[c].last) = "expired" => status = "ended" /\ heard[c].last + 1 \notin stored
<1>1. heard[c].last \in Nat /\ Len(log) \in Nat /\ Len(log) > 0 /\ (status # "ended" => stored = 1..Len(log))
      /\ stored \subseteq Nat
  BY DEF StreamInv, StreamTyped, HeardRow
<1>2. ASSUME \A m \in stored : heard[c].last + 1 < m
      PROVE  status = "ended" /\ heard[c].last + 1 \notin stored
  <2>1. heard[c].last + 1 \notin stored
    BY <1>1, <1>2
  <2>2. ASSUME status # "ended" PROVE FALSE
    <3>1. 1 \in stored
      BY <1>1, <2>2
    <3>. QED
      BY <1>1, <1>2, <3>1
  <2>. QED
    BY <2>1, <2>2
<1>. QED
  BY <1>2 DEF Refusal

\* A reader follows the stream.
LEMMA FollowKeeps == \A c \in Readers : StreamInv /\ Follow(c) => StreamInv'
<1>. SUFFICES ASSUME StreamInv, NEW c \in Readers, Follow(c)
              PROVE  StreamInv'
  OBVIOUS
<1>1. ~stream[c].open /\ heard[c].verdict = "none" /\ UNCHANGED runVars
  BY DEF Follow
<1>2. CASE Refusal(heard[c].last) # "none" /\ Judges(c, Refusal(heard[c].last)) /\ UNCHANGED stream
  <2>. DEFINE h == [heard[c] EXCEPT !.verdict = Refusal(heard[c].last)]
  <2>1. /\ Refusal(heard[c].last) \in {"erased", "expired"}
        /\ Refusal(heard[c].last) = "expired" => status = "ended" /\ heard[c].last + 1 \notin stored
    BY <1>2, RefusalIsTrue
  <2>2. h \in HeardRow /\ h.events = heard[c].events /\ h.last = heard[c].last /\ h.verdict = Refusal(heard[c].last)
    BY <2>1, ClientRows DEF HeardRow
  <2>3. heard' = [heard EXCEPT ![c] = h] /\ stream' = [stream EXCEPT ![c] = stream[c]]
    BY <1>2, ClientRows DEF Judges
  <2>. HIDE DEF h
  <2>4. Sends(stream[c], h) /\ Hears(h)
    BY <1>1, <2>1, <2>2, ClientRows DEF Sends, Hears
  <2>. QED
    BY <1>1, <2>2, <2>3, <2>4, ClientRows, ClientMoves
<1>3. CASE /\ stream' = [stream EXCEPT ![c] = [Shut EXCEPT !.open = TRUE, !.after = heard[c].last]]
           /\ UNCHANGED heard
  <2>. DEFINE s == [Shut EXCEPT !.open = TRUE, !.after = heard[c].last]
  <2>1. stream' = [stream EXCEPT ![c] = s]
    BY <1>3
  <2>2. s \in StreamRow /\ s.open /\ s.after = heard[c].last /\ s.rows = {} /\ ~s.ends
    BY ClientRows DEF StreamRow, HeardRow, Shut
  <2>3. heard[c].last <= Len(log) /\ heard[c].last \in Nat /\ stored \subseteq Nat
    BY ClientRows DEF Sends, StreamInv, StreamTyped, HeardRow
  <2>4. Sends(s, heard[c])
    <3>. HIDE DEF s
    <3>. QED
      BY <1>1, <2>2, <2>3 DEF Sends
  <2>5. heard' = [heard EXCEPT ![c] = heard[c]]
    BY <1>3, ClientRows
  <2>. HIDE DEF s
  <2>. QED
    BY <1>1, <2>1, <2>2, <2>4, <2>5, ClientRows, ClientMoves
<1>. QED
  BY <1>2, <1>3 DEF Follow

\* The rows after event n are stored, and the first ones of those: what is stored between
\* event n and one of them is among them.
LEMMA RowsFollow ==
  ASSUME StreamTyped, NEW n \in Nat
  PROVE  /\ RowsAfter(n) \subseteq {m \in stored : n < m}
         /\ \A m \in RowsAfter(n), k \in stored : n < k /\ k <= m => k \in RowsAfter(n)
<1>. DEFINE beyond == {m \in stored : n < m}
            Upto(m) == {k \in beyond : k <= m}
<1>1. RowsAfter(n) = {m \in beyond : Cardinality(Upto(m)) <= Page}
  BY DEF RowsAfter
<1>2. stored \subseteq 1..Len(log) /\ Len(log) \in Nat /\ Page \in Nat
  BY StreamAssumption DEF StreamTyped
<1>3. ASSUME NEW m \in RowsAfter(n), NEW k \in stored, n < k, k <= m
      PROVE  k \in RowsAfter(n)
  <2>1. m \in beyond /\ Cardinality(Upto(m)) <= Page /\ k \in beyond
    BY <1>1, <1>3
  <2>2. IsFiniteSet(1..Len(log)) /\ Upto(m) \in SUBSET (1..Len(log))
    <3>1. IsFiniteSet(1..Len(log)) /\ beyond \subseteq 1..Len(log)
      <4>1. 1 \in Int /\ Len(log) \in Int
        BY <1>2
      <4>2. IsFiniteSet(1..Len(log))
        BY <4>1, FS_Interval
      <4>. QED
        BY <1>2, <4>2
    <3>2. Upto(m) \subseteq beyond
      OBVIOUS
    <3>. QED
      BY <3>1, <3>2
  <2>3. Upto(k) \in SUBSET Upto(m)
    <3>. SUFFICES ASSUME NEW j \in Upto(k) PROVE j \in Upto(m)
      OBVIOUS
    <3>1. j \in beyond /\ j <= k /\ j \in Nat /\ k \in Nat /\ m \in Nat
      BY <1>2, <2>1
    <3>2. j <= m
      BY <1>3, <3>1
    <3>. QED
      BY <3>1, <3>2
  <2>4. IsFiniteSet(Upto(m)) /\ IsFiniteSet(Upto(k))
    BY <2>2, <2>3, FS_Subset
  <2>. HIDE DEF Upto, beyond
  <2>5. Cardinality(Upto(k)) <= Cardinality(Upto(m)) /\ Cardinality(Upto(k)) \in Nat /\ Cardinality(Upto(m)) \in Nat
    BY <2>3, <2>4, FS_Subset, FS_CardinalityType
  <2>6. Cardinality(Upto(k)) <= Page
    BY <1>2, <2>1, <2>5
  <2>. QED
    BY <1>1, <2>1, <2>6
<1>. QED
  BY <1>1, <1>3

\* A reader polls the log.
LEMMA PollKeeps == \A c \in Readers : StreamInv /\ PollLog(c) => StreamInv'
<1>. SUFFICES ASSUME StreamInv, NEW c \in Readers, PollLog(c)
              PROVE  StreamInv'
  OBVIOUS
<1>1. stream[c].open /\ stream[c].rows = {} /\ ~stream[c].ends /\ UNCHANGED <<runVars, heard>>
  BY DEF PollLog
<1>2. CASE Refusal(stream[c].after) # "none"
  BY <1>1, <1>2, StreamCloses DEF PollLog, Hangs
<1>3. CASE Refusal(stream[c].after) = "none"
  <2>. DEFINE n == stream[c].after
              rows == RowsAfter(n)
              upto == IF rows = {} THEN n ELSE Max(rows)
              over == status = "ended" /\ upto = Len(log)
              s == [stream[c] EXCEPT !.rows = rows, !.after = upto, !.ends = over]
  <2>1. /\ n \in Nat /\ n = heard[c].last /\ n <= Len(log) /\ heard[c].verdict = "none" /\ Len(log) \in Nat
        /\ StreamTyped /\ stored \subseteq 1..Len(log)
    BY <1>1, ClientRows DEF StreamRow, HeardRow, Sends, StreamInv, StreamTyped
  <2>2. /\ rows \subseteq {m \in stored : n < m}
        /\ \A m \in rows, k \in stored : n < k /\ k <= m => k \in rows
    BY <2>1, RowsFollow
  <2>3. /\ upto \in Nat /\ n <= upto /\ upto <= Len(log) /\ upto \in rows \union {n}
        /\ \A m \in rows : m <= upto
    <3>1. CASE rows = {}
      BY <2>1, <3>1
    <3>2. CASE rows # {}
      <4>1. rows \subseteq 1..Len(log)
        BY <2>1, <2>2
      <4>2. Max(rows) \in rows /\ \A m \in rows : m <= Max(rows)
        <5>. HIDE DEF rows
        <5>. QED
          BY <2>1, <3>2, <4>1, GreatestIsMax
      <4>. HIDE DEF rows
      <4>. QED
        BY <2>1, <2>2, <3>2, <4>1, <4>2
    <3>. QED
      BY <3>1, <3>2
  <2>4. rows \in SUBSET Nat
    <3>1. rows \subseteq stored /\ stored \subseteq Nat
      BY <2>1, <2>2
    <3>. QED
      BY <3>1
  <2>5. s \in StreamRow /\ s.open /\ s.rows = rows /\ s.after = upto /\ s.ends = over
    <3>1. over \in BOOLEAN /\ stream[c] \in StreamRow
      BY ClientRows
    <3>. HIDE DEF rows, over, n, upto
    <3>. QED
      BY <1>1, <2>3, <2>4, <3>1 DEF StreamRow
  <2>6. stream' = [stream EXCEPT ![c] = s]
    BY <1>3 DEF PollLog
  <2>7. rows \subseteq (n + 1)..upto /\ \A k \in stored : n < k /\ k <= upto => k \in rows
    <3>1. \A m \in rows : m \in Nat /\ n < m /\ m <= upto
      <4>. HIDE DEF rows, upto, n
      <4>. QED
        BY <2>2, <2>3, <2>4
    <3>2. ASSUME NEW k \in stored, n < k, k <= upto PROVE k \in rows
      <4>1. upto \in rows
        <5>. HIDE DEF rows, upto, n
        <5>1. k \in Nat /\ upto # n
          BY <2>1, <2>3, <3>2
        <5>. QED
          BY <2>3, <5>1
      <4>. HIDE DEF rows, upto, n
      <4>. QED
        BY <2>2, <3>2, <4>1
    <3>. HIDE DEF rows, upto, n
    <3>. QED
      BY <2>1, <2>3, <3>1, <3>2
  <2>8. Sends(s, heard[c])
    <3>. HIDE DEF s, rows, n, upto
    <3>. QED
      BY <2>1, <2>3, <2>5, <2>7 DEF Sends
  <2>9. heard' = [heard EXCEPT ![c] = heard[c]]
    BY <1>1, ClientRows
  <2>. HIDE DEF s, rows, over, n, upto
  <2>. QED
    BY <1>1, <2>5, <2>6, <2>8, <2>9, ClientRows, ClientMoves
<1>. QED
  BY <1>2, <1>3

\* A reader is sent the next row.
LEMMA SendKeeps == \A c \in Readers : StreamInv /\ Send(c) => StreamInv'
<1>. SUFFICES ASSUME StreamInv, NEW c \in Readers, Send(c)
              PROVE  StreamInv'
  OBVIOUS
<1>. DEFINE rows == stream[c].rows
            last == heard[c].last
            n == Min(rows)
            s == [stream[c] EXCEPT !.rows = rows \ {n}]
            h == [heard[c] EXCEPT !.events = @ \union {n}, !.last = n]
<1>1. rows # {} /\ rows \subseteq Nat /\ stream[c] \in StreamRow /\ heard[c] \in HeardRow /\ last \in Nat
      /\ stream[c].after \in Nat /\ Len(log) \in Nat /\ stored \subseteq Nat
  BY ClientRows DEF Send, StreamRow, HeardRow, StreamInv, StreamTyped
<1>2. stream[c].open
  BY <1>1, ClientRows DEF Sends
<1>3. /\ heard[c].verdict = "none" /\ last <= stream[c].after /\ stream[c].after <= Len(log)
      /\ rows \subseteq (last + 1)..stream[c].after /\ stream[c].after \in rows \union {last}
      /\ \A k \in stored : last < k /\ k <= stream[c].after => k \in rows
      /\ stream[c].ends => status = "ended" /\ stream[c].after = Len(log)
  BY <1>2, ClientRows DEF Sends
<1>4. n \in rows /\ \A m \in rows : n <= m
  BY <1>1, LeastIsMin
<1>5. n \in Nat /\ last < n /\ n <= stream[c].after
  <2>. DEFINE after == stream[c].after
  <2>1. rows \subseteq (last + 1)..after /\ after \in Nat /\ last \in Nat /\ n \in rows
    BY <1>1, <1>3, <1>4
  <2>. HIDE DEF n, rows, last, after
  <2>2. n \in (last + 1)..after
    BY <2>1
  <2>3. n \in Nat /\ last < n /\ n <= after
    BY <2>1, <2>2
  <2>. QED
    BY <2>3 DEF after
<1>6. s \in StreamRow /\ s.rows = rows \ {n} /\ s.open /\ s.after = stream[c].after /\ s.ends = stream[c].ends
  <2>. HIDE DEF n
  <2>. QED
    BY <1>1, <1>2 DEF StreamRow
<1>7. h \in HeardRow /\ h.events = heard[c].events \union {n} /\ h.last = n /\ h.verdict = "none"
  <2>. HIDE DEF n
  <2>. QED
    BY <1>1, <1>3, <1>5 DEF HeardRow
<1>8. stream' = [stream EXCEPT ![c] = s] /\ heard' = [heard EXCEPT ![c] = h] /\ UNCHANGED runVars
  BY DEF Send
<1>9. Sends(s, h)
  <2>. DEFINE after == stream[c].after
  <2>1. /\ n <= Len(log) /\ rows \ {n} \subseteq (n + 1)..after /\ after \in (rows \ {n}) \union {n}
        /\ \A k \in stored : n < k /\ k <= after => k \in rows \ {n}
    <3>1. /\ rows \subseteq (last + 1)..after /\ after \in Nat /\ last \in Nat /\ n \in rows /\ n \in Nat /\ last < n
          /\ after \in rows \union {last} /\ n <= after /\ after <= Len(log) /\ Len(log) \in Nat
          /\ \A m \in rows : n <= m
          /\ \A k \in stored : last < k /\ k <= after => k \in rows
          /\ stored \subseteq Nat
      BY <1>1, <1>3, <1>4, <1>5
    <3>. HIDE DEF n, rows, last, after
    <3>2. n <= Len(log)
      BY <3>1
    <3>3. rows \ {n} \subseteq (n + 1)..after
      <4>. SUFFICES ASSUME NEW m \in rows, m # n PROVE m \in (n + 1)..after
        OBVIOUS
      <4>1. m \in (last + 1)..after /\ n <= m
        BY <3>1
      <4>. QED
        BY <3>1, <4>1
    <3>4. after \in rows
      BY <3>1
    <3>5. \A k \in stored : n < k /\ k <= after => k \in rows \ {n}
      BY <3>1
    <3>. QED
      BY <3>2, <3>3, <3>4, <3>5
  <2>. HIDE DEF s, h, last, rows, n, after
  <2>2. after = stream[c].after
    BY DEF after
  <2>. QED
    BY <1>3, <1>5, <1>6, <1>7, <2>1, <2>2 DEF Sends
<1>10. Hears(h)
  <2>1. \A m \in stored : m <= last => m \in heard[c].events
    BY ClientRows DEF Hears
  <2>2. ASSUME NEW m \in stored, m <= n PROVE m \in h.events
    <3>1. CASE m <= last
      BY <1>7, <2>1, <3>1
    <3>2. CASE last < m
      <4>1. m \in Nat /\ m <= stream[c].after
        <5>. HIDE DEF n, last
        <5>. QED
          BY <1>1, <1>5, <2>2
      <4>2. m \in rows
        BY <1>3, <3>2, <4>1
      <4>3. m = n
        <5>. HIDE DEF n, rows
        <5>. QED
          BY <1>4, <1>5, <2>2, <4>1, <4>2
      <4>. QED
        BY <1>7, <4>3
    <3>. QED
      <4>. HIDE DEF last
      <4>. QED
        BY <1>1, <3>1, <3>2
  <2>. HIDE DEF h, last, rows, n
  <2>. QED
    BY <1>7, <2>2 DEF Hears
<1>. HIDE DEF s, h
<1>. QED
  BY <1>6, <1>7, <1>8, <1>9, <1>10, ClientMoves

\* Every step keeps the invariant of the stream.
LEMMA StreamInvInductive == StreamInv /\ [StreamNext]_streamVars => StreamInv'
<1>. SUFFICES ASSUME StreamInv, [StreamNext]_streamVars
              PROVE  StreamInv'
  OBVIOUS
<1>1. ASSUME NEW c \in Readers, EndStream(c)
      PROVE  StreamInv'
  <2>1. status = "ended" /\ heard[c].last = Len(log)
    BY <1>1, ClientRows DEF EndStream, Sends
  <2>. QED
    BY <1>1, <2>1, VerdictIsGiven DEF EndStream, Hangs
<1>2. ASSUME NEW c \in Readers, BreakStream(c) \/ Vanish(c)
      PROVE  StreamInv'
  BY <1>2, StreamCloses DEF BreakStream, Vanish, Hangs
<1>3. ASSUME UNCHANGED <<runVars, stream, heard>>
      PROVE  StreamInv'
  BY <1>3 DEF runVars, StreamInv, StreamTyped, StreamsFollow, Sends, Hears, StreamTellsStatus, Last
<1>4. ASSUME NEW c \in Readers, RunsOut(c) \/ Beat(c)
      PROVE  StreamInv'
  BY <1>3, <1>4, StreamCloses DEF RunsOut, Beat, Hangs
<1>5. CASE UNCHANGED streamVars \/ OtherStreams
  BY <1>3, <1>5 DEF streamVars, runVars, OtherStreams
<1>. QED
  BY <1>1, <1>2, <1>4, <1>5, RunMovesKeep, FollowKeeps, PollKeeps, SendKeeps DEF StreamNext

\* The invariant of the stream holds in every state.
LEMMA StreamInvHolds == StreamSpec => []StreamInv
<1>1. StreamInit => StreamInv
  <2>. SUFFICES ASSUME StreamInit
                PROVE  StreamInv
    OBVIOUS
  <2>1. log = <<"run.queued">> /\ log \in Seq(EventTypes) /\ Len(log) = 1 /\ DOMAIN log = {1} /\ log[1] = "run.queued"
    BY DEF StreamInit, EventTypes
  <2>2. StreamTyped
    <3>1. Shut \in StreamRow
      BY DEF StreamRow, Shut
    <3>2. [events |-> {}, last |-> 0, verdict |-> "none"] \in HeardRow
      BY DEF HeardRow
    <3>3. stream \in [Readers -> StreamRow] /\ heard \in [Readers -> HeardRow]
      BY <3>1, <3>2 DEF StreamInit
    <3>4. status = "queued" /\ stored = 1..Len(log) /\ erased = FALSE /\ log \in Seq(EventTypes) /\ Len(log) > 0
      <4>1. status = "queued" /\ stored = {1} /\ erased = FALSE
        BY DEF StreamInit
      <4>2. 1..Len(log) = {1}
        BY <2>1
      <4>. QED
        BY <2>1, <4>1, <4>2
    <3>. QED
      BY <3>3, <3>4 DEF StreamTyped
  <2>3. StreamsFollow
    <3>1. \A c \in Readers : stream[c] = Shut /\ heard[c].last = 0 /\ heard[c].verdict = "none"
      BY DEF StreamInit
    <3>2. ~Shut.open /\ ~Shut.ends /\ Shut.rows = {} /\ 0 <= Len(log)
      BY <2>1 DEF Shut
    <3>3. \A n \in stored : ~(n <= 0)
      BY DEF StreamInit
    <3>. QED
      BY <3>1, <3>2, <3>3 DEF StreamsFollow, Sends, Hears
  <2>4. StreamTellsStatus
    BY <2>1 DEF StreamInit, StreamTellsStatus, Last
  <2>. QED
    BY <2>2, <2>3, <2>4 DEF StreamInv
<1>. QED
  BY <1>1, StreamInvInductive, PTL DEF StreamSpec

-----------------------------------------------------------------------------
(* The compatible call *)

\* All that may be sent.
AllAsks == UNION {AsksOf[g] : g \in Gateways}
AcceptedRow == [key : {q.key : q \in AllAsks}, session : Nat, text : {q.text : q \in AllAsks},
                status : {"active", "approving", "succeeded", "ended"},
                said : {"nothing", "question", "answer"}, parked : BOOLEAN]
SyncTyped ==
  /\ sessionOf \in [Aliases -> Nat] /\ opened \in Nat
  /\ accepted \in Seq(AcceptedRow)
  /\ gateway = [g \in Gateways |-> gateway[g]] /\ answers = [g \in Gateways |-> answers[g]]

\* A run says its answer when it succeeds, and asked its question when it was parked.
RowTells(row) ==
  /\ row.status = "succeeded" => row.said = "answer"
  /\ row.status = "approving" => row.parked
  /\ row.parked => row.said # "nothing"
RowsTell == \A r \in DOMAIN accepted : RowTells(accepted[r])

\* A run is the one of what was asked, in the session of its conversation.
RunOf(ask, r, rows, names) ==
  /\ ask \in AllAsks /\ r \in DOMAIN rows /\ names[ask.alias] # 0
  /\ rows[r].key = ask.key /\ rows[r].text = ask.text /\ rows[r].session = names[ask.alias]

\* What a call has reached, and what it was answered, follows from the rows, and later
\* rows do not change that.
GatewayFits(w, rows, names) ==
  /\ w.at # "idle" => w.ask \in AllAsks
  /\ w.at = "accepting" => w.session = names[w.ask.alias] /\ w.session # 0
  /\ w.at \in {"waiting", "asking", "answering"} => RunOf(w.ask, w.run, rows, names)
  /\ w.at \in {"asking", "answering"} => (w.status = "succeeded" => rows[w.run].status = "succeeded")
  /\ w.at = "answering" => (w.approval => rows[w.run].parked)
AnswerFits(a, rows, names) ==
  a.kind = "answered" =>
    /\ RunOf(a.ask, a.run, rows, names)
    /\ a.status = "succeeded" => a.says = "answer"
    /\ a.approval => rows[a.run].parked /\ a.says # "nothing"
CallsFit ==
  \A g \in Gateways : GatewayFits(gateway[g], accepted, sessionOf) /\ AnswerFits(answers[g], accepted, sessionOf)

SessionsAreCounted ==
  /\ IsFiniteSet({x \in Aliases : sessionOf[x] # 0})
  /\ opened = Cardinality({x \in Aliases : sessionOf[x] # 0})
KeysAreUsedOnce == \A r1, r2 \in DOMAIN accepted : accepted[r1].key = accepted[r2].key => r1 = r2
SyncInv == SyncTyped /\ RowsTell /\ CallsFit /\ SessionsAreCounted /\ KeysAreUsedOnce

\* Names keep their sessions and runs what they are for; what succeeded or was parked stays so.
Later(rows, names, rows2, names2) ==
  /\ \A x \in Aliases : names[x] # 0 => names2[x] = names[x]
  /\ \A r \in DOMAIN rows :
       /\ r \in DOMAIN rows2 /\ rows2[r].key = rows[r].key /\ rows2[r].text = rows[r].text
       /\ rows2[r].session = rows[r].session
       /\ rows[r].status = "succeeded" => rows2[r].status = "succeeded"
       /\ rows[r].parked => rows2[r].parked

\* The name in a request is one of the names.
LEMMA AliasOfAsk ==
  ASSUME NEW q \in AllAsks
  PROVE  q.alias \in Aliases
BY DEF AllAsks, Aliases

\* What a call has heard stays true when the rows and names move forward.
LEMMA FitsLater ==
  ASSUME NEW rows, NEW names, NEW rows2, NEW names2, Later(rows, names, rows2, names2)
  PROVE  /\ \A ask, r : RunOf(ask, r, rows, names) => RunOf(ask, r, rows2, names2)
         /\ \A w : GatewayFits(w, rows, names) => GatewayFits(w, rows2, names2)
         /\ \A a : AnswerFits(a, rows, names) => AnswerFits(a, rows2, names2)
<1>1. ASSUME NEW ask, NEW r, RunOf(ask, r, rows, names)
      PROVE  RunOf(ask, r, rows2, names2)
  BY <1>1, AliasOfAsk DEF RunOf, Later
<1>2. ASSUME NEW w, GatewayFits(w, rows, names)
      PROVE  GatewayFits(w, rows2, names2)
  <2>1. w.at = "accepting" => w.session = names2[w.ask.alias] /\ w.session # 0
    BY <1>2, AliasOfAsk DEF GatewayFits, Later
  <2>2. w.at \in {"waiting", "asking", "answering"} => w.run \in DOMAIN rows /\ RunOf(w.ask, w.run, rows2, names2)
    BY <1>1, <1>2 DEF GatewayFits, RunOf
  <2>. QED
    BY <1>2, <2>1, <2>2 DEF GatewayFits, Later
<1>3. ASSUME NEW a, AnswerFits(a, rows, names)
      PROVE  AnswerFits(a, rows2, names2)
  <2>1. a.kind = "answered" => a.run \in DOMAIN rows /\ RunOf(a.ask, a.run, rows2, names2)
    BY <1>1, <1>3 DEF AnswerFits, RunOf
  <2>. QED
    BY <1>3, <2>1 DEF AnswerFits, Later
<1>. QED
  BY <1>1, <1>2, <1>3

\* One call moves on: to w, with the answer a.
LEMMA CallMoves ==
  ASSUME SyncInv, NEW g \in Gateways, NEW w, NEW a,
         gateway' = [gateway EXCEPT ![g] = w], answers' = [answers EXCEPT ![g] = a],
         Later(accepted, sessionOf, accepted', sessionOf'),
         GatewayFits(w, accepted', sessionOf'), AnswerFits(a, accepted', sessionOf'),
         sessionOf' \in [Aliases -> Nat], opened' \in Nat, accepted' \in Seq(AcceptedRow),
         RowsTell', SessionsAreCounted', KeysAreUsedOnce'
  PROVE  SyncInv'
<1>1. \A x \in Gateways : gateway'[x] = (IF x = g THEN w ELSE gateway[x]) /\ answers'[x] = (IF x = g THEN a ELSE answers[x])
  BY DEF SyncInv, SyncTyped
<1>2. SyncTyped'
  <2>1. gateway' = [x \in Gateways |-> gateway'[x]] /\ answers' = [x \in Gateways |-> answers'[x]]
    BY DEF SyncInv, SyncTyped
  <2>. QED
    BY <2>1 DEF SyncTyped
<1>3. CallsFit'
  <2>. SUFFICES ASSUME NEW x \in Gateways
                PROVE  GatewayFits(gateway'[x], accepted', sessionOf') /\ AnswerFits(answers'[x], accepted', sessionOf')
    BY DEF CallsFit
  <2>1. CASE x = g
    BY <1>1, <2>1
  <2>2. CASE x # g
    <3>1. GatewayFits(gateway[x], accepted, sessionOf) /\ AnswerFits(answers[x], accepted, sessionOf)
      BY DEF SyncInv, CallsFit
    <3>2. GatewayFits(gateway[x], accepted', sessionOf') /\ AnswerFits(answers[x], accepted', sessionOf')
      BY <3>1, FitsLater
    <3>. QED
      BY <1>1, <2>2, <3>2
  <2>. QED
    BY <2>1, <2>2
<1>. QED
  BY <1>2, <1>3 DEF SyncInv

\* A call moves on and nothing is stored.
LEMMA CallOnly ==
  ASSUME SyncInv, NEW g \in Gateways, NEW w, NEW a,
         gateway' = [gateway EXCEPT ![g] = w], answers' = [answers EXCEPT ![g] = a],
         GatewayFits(w, accepted, sessionOf), AnswerFits(a, accepted, sessionOf),
         UNCHANGED <<sessionOf, opened, accepted>>
  PROVE  SyncInv'
<1>1. Later(accepted, sessionOf, accepted', sessionOf')
  BY DEF Later
<1>2. /\ sessionOf' \in [Aliases -> Nat] /\ opened' \in Nat /\ accepted' \in Seq(AcceptedRow)
      /\ RowsTell' /\ SessionsAreCounted' /\ KeysAreUsedOnce'
  BY DEF SyncInv, SyncTyped, RowsTell, RowTells, SessionsAreCounted, KeysAreUsedOnce
<1>. QED
  BY <1>1, <1>2, CallMoves

\* What the invariant says of one call.
LEMMA CallRows ==
  ASSUME SyncInv, NEW g \in Gateways
  PROVE  /\ GatewayFits(gateway[g], accepted, sessionOf) /\ AnswerFits(answers[g], accepted, sessionOf)
         /\ answers = [answers EXCEPT ![g] = answers[g]]
         /\ GatewayFits(Unsent, accepted, sessionOf) /\ AnswerFits(Silence, accepted, sessionOf)
         /\ AnswerFits([kind |-> "refused"], accepted, sessionOf)
BY DEF SyncInv, SyncTyped, CallsFit, GatewayFits, AnswerFits, Unsent, Silence

\* Every step of a call keeps the invariant.
LEMMA CallsKeep ==
  ASSUME SyncInv, NEW g \in Gateways
  PROVE  /\ (\E q \in AsksOf[g] : Call(g, q)) => SyncInv'
         /\ PollRun(g) \/ ReadApproval(g) \/ ReadAnswer(g) \/ LoseCall(g) => SyncInv'
<1>1. ASSUME NEW q \in AsksOf[g], Call(g, q)
      PROVE  SyncInv'
  <2>. DEFINE w == [at |-> "resolving", ask |-> q]
  <2>1. GatewayFits(w, accepted, sessionOf)
    BY DEF GatewayFits, AllAsks
  <2>. QED
    BY <1>1, <2>1, CallRows, CallOnly DEF Call, Reaches
<1>2. CASE PollRun(g)
  <2>. DEFINE run == gateway[g].run
              ask == gateway[g].ask
              w == [at |-> "asking", ask |-> ask, run |-> run, status |-> accepted[run].status]
  <2>1. ask \in AllAsks /\ RunOf(ask, run, accepted, sessionOf)
    BY <1>2, CallRows DEF PollRun, GatewayFits
  <2>2. CASE gateway' = [gateway EXCEPT ![g] = w] /\ UNCHANGED answers
    <3>1. GatewayFits(w, accepted, sessionOf)
      BY <2>1 DEF GatewayFits
    <3>. QED
      BY <1>2, <2>2, <3>1, CallRows, CallOnly DEF PollRun
  <2>3. CASE Replies(g, [kind |-> "pending", run |-> run])
    <3>1. AnswerFits([kind |-> "pending", run |-> run], accepted, sessionOf)
      BY DEF AnswerFits
    <3>. QED
      BY <1>2, <2>3, <3>1, CallRows, CallOnly DEF PollRun, Replies, Reaches
  <2>. QED
    BY <1>2, <2>2, <2>3 DEF PollRun, Reaches
<1>3. CASE ReadApproval(g)
  <2>. DEFINE v == gateway[g]
              w == [at |-> "answering", ask |-> v.ask, run |-> v.run, status |-> v.status,
                    approval |-> accepted[v.run].status = "approving"]
  <2>1. v.ask \in AllAsks /\ RunOf(v.ask, v.run, accepted, sessionOf) /\ v.run \in DOMAIN accepted
        /\ (v.status = "succeeded" => accepted[v.run].status = "succeeded")
    BY <1>3, CallRows DEF ReadApproval, GatewayFits, RunOf
  <2>2. accepted[v.run].status = "approving" => accepted[v.run].parked
    BY <2>1 DEF SyncInv, RowsTell, RowTells
  <2>3. GatewayFits(w, accepted, sessionOf)
    BY <2>1, <2>2 DEF GatewayFits
  <2>4. gateway' = [gateway EXCEPT ![g] = w]
    BY <1>3 DEF ReadApproval, Reaches
  <2>. HIDE DEF w
  <2>. QED
    BY <1>3, <2>3, <2>4, CallRows, CallOnly DEF ReadApproval
<1>4. CASE ReadAnswer(g)
  <2>. DEFINE w == gateway[g]
              a == [kind |-> "answered", ask |-> w.ask, run |-> w.run, status |-> w.status, approval |-> w.approval,
                    says |-> accepted[w.run].said]
  <2>1. /\ RunOf(w.ask, w.run, accepted, sessionOf) /\ w.run \in DOMAIN accepted
        /\ (w.status = "succeeded" => accepted[w.run].status = "succeeded")
        /\ (w.approval => accepted[w.run].parked)
    BY <1>4, CallRows DEF ReadAnswer, GatewayFits, RunOf
  <2>2. RowTells(accepted[w.run])
    BY <2>1 DEF SyncInv, RowsTell
  <2>3. AnswerFits(a, accepted, sessionOf)
    BY <2>1, <2>2 DEF AnswerFits, RowTells
  <2>4. answers' = [answers EXCEPT ![g] = a] /\ gateway' = [gateway EXCEPT ![g] = Unsent]
    BY <1>4 DEF ReadAnswer, Replies, Reaches
  <2>. HIDE DEF a
  <2>. QED
    BY <1>4, <2>3, <2>4, CallRows, CallOnly DEF ReadAnswer
<1>5. CASE LoseCall(g)
  BY <1>5, CallRows, CallOnly DEF LoseCall, Reaches
<1>. QED
  BY <1>1, <1>2, <1>3, <1>4, <1>5

\* A name keeps its session; a new session gets a new number.
LEMMA ResolveKeeps ==
  ASSUME SyncInv, NEW g \in Gateways, Resolve(g)
  PROVE  SyncInv'
<1>. DEFINE ask == gateway[g].ask
            x == ask.alias
<1>1. ask \in AllAsks /\ x \in Aliases /\ UNCHANGED accepted
  BY CallRows, AliasOfAsk DEF Resolve, GatewayFits
<1>2. CASE SessionFound(g)
  <2>. DEFINE w == [at |-> "accepting", ask |-> ask, session |-> sessionOf[x]]
  <2>1. GatewayFits(w, accepted, sessionOf)
    BY <1>1, <1>2 DEF GatewayFits, SessionFound
  <2>. QED
    BY <1>1, <1>2, <2>1, CallRows, CallOnly DEF SessionFound, Reaches
<1>3. CASE sessionOf[x] = 0 /\ SessionAnew(g)
  <2>1. PICK y, n, q : y = x /\ n = opened + 1 /\ q = ask
    OBVIOUS
  <2>. DEFINE w == [at |-> "accepting", ask |-> q, session |-> n]
  <2>2. /\ opened' = n /\ sessionOf' = [sessionOf EXCEPT ![y] = n] /\ gateway' = [gateway EXCEPT ![g] = w]
        /\ UNCHANGED answers
    BY <1>3, <2>1 DEF SessionAnew, Reaches
  <2>3. opened \in Nat /\ sessionOf \in [Aliases -> Nat] /\ n \in Nat /\ n # 0 /\ y \in Aliases /\ sessionOf[y] = 0
        /\ q \in AllAsks /\ q.alias = y
    BY <1>1, <1>3, <2>1 DEF SyncInv, SyncTyped
  <2>4. \A z \in Aliases : sessionOf'[z] = IF z = y THEN n ELSE sessionOf[z]
    BY <2>2, <2>3
  <2>5. Later(accepted, sessionOf, accepted', sessionOf')
    BY <1>1, <2>3, <2>4 DEF Later
  <2>6. GatewayFits(w, accepted', sessionOf')
    BY <2>3, <2>4 DEF GatewayFits
  <2>7. AnswerFits(answers[g], accepted', sessionOf')
    BY <2>5, CallRows, FitsLater
  <2>8. SessionsAreCounted'
    <3>. DEFINE named == {z \in Aliases : sessionOf[z] # 0}
    <3>1. {z \in Aliases : sessionOf'[z] # 0} = named \union {y} /\ y \notin named
      BY <2>3, <2>4
    <3>2. IsFiniteSet(named) /\ opened = Cardinality(named)
      BY DEF SyncInv, SessionsAreCounted
    <3>3. IsFiniteSet(named \union {y}) /\ Cardinality(named \union {y}) = opened + 1
      BY <3>1, <3>2, FS_AddElement
    <3>. QED
      BY <2>1, <2>2, <3>1, <3>3 DEF SessionsAreCounted
  <2>9. /\ sessionOf' \in [Aliases -> Nat] /\ opened' \in Nat /\ accepted' \in Seq(AcceptedRow)
        /\ RowsTell' /\ KeysAreUsedOnce'
    BY <1>1, <2>2, <2>3 DEF SyncInv, SyncTyped, RowsTell, RowTells, KeysAreUsedOnce
  <2>10. answers' = [answers EXCEPT ![g] = answers[g]]
    BY <2>2, CallRows
  <2>. HIDE DEF w
  <2>. QED
    BY <2>2, <2>5, <2>6, <2>7, <2>8, <2>9, <2>10, CallMoves
<1>4. CASE Replies(g, [kind |-> "refused"]) /\ UNCHANGED <<sessionOf, opened>>
  BY <1>1, <1>4, CallRows, CallOnly DEF Replies, Reaches
<1>. QED
  BY <1>2, <1>3, <1>4 DEF Resolve, KeepsSession

\* create_run: the run of the key is found, or it is the first of its key.
LEMMA AcceptKeeps ==
  ASSUME SyncInv, NEW g \in Gateways, Accept(g)
  PROVE  SyncInv'
<1>1. PICK q, s : q = gateway[g].ask /\ s = gateway[g].session
  OBVIOUS
<1>2. q \in AllAsks /\ s = sessionOf[q.alias] /\ s # 0 /\ s \in Nat /\ UNCHANGED <<sessionOf, opened>>
  BY <1>1, CallRows, AliasOfAsk DEF Accept, GatewayFits, SyncInv, SyncTyped
<1>3. CASE Replies(g, [kind |-> "refused"]) /\ UNCHANGED accepted
  BY <1>2, <1>3, CallRows, CallOnly DEF Replies, Reaches
<1>4. ASSUME NEW r \in WithKey(q.key), accepted[r].session = s, accepted[r].text = q.text, UNCHANGED <<accepted, answers>>,
             gateway' = [gateway EXCEPT ![g] = [at |-> "waiting", ask |-> q, run |-> r]]
      PROVE  SyncInv'
  <2>. DEFINE w == [at |-> "waiting", ask |-> q, run |-> r]
  <2>1. RunOf(q, r, accepted, sessionOf)
    BY <1>2, <1>4 DEF RunOf, WithKey
  <2>2. GatewayFits(w, accepted, sessionOf)
    BY <1>2, <2>1 DEF GatewayFits
  <2>. QED
    BY <1>2, <1>4, <2>2, CallRows, CallOnly
<1>5. ASSUME WithKey(q.key) = {}, UNCHANGED answers, NEW row,
             row = [key |-> q.key, session |-> s, text |-> q.text, status |-> "active", said |-> "nothing", parked |-> FALSE],
             accepted' = Append(accepted, row),
             gateway' = [gateway EXCEPT ![g] = [at |-> "waiting", ask |-> q, run |-> Len(accepted')]]
      PROVE  SyncInv'
  <2>1. PICK n : n = Len(accepted) + 1
    OBVIOUS
  <2>2. row \in AcceptedRow /\ row.key = q.key /\ row.session = s /\ row.text = q.text /\ RowTells(row)
    BY <1>2, <1>5 DEF AcceptedRow, RowTells
  <2>3. accepted \in Seq(AcceptedRow)
    BY DEF SyncInv, SyncTyped
  <2>4. /\ accepted' \in Seq(AcceptedRow) /\ Len(accepted') = n /\ DOMAIN accepted' = 1..n
        /\ DOMAIN accepted = 1..Len(accepted) /\ Len(accepted) \in Nat
        /\ \A i \in DOMAIN accepted : accepted'[i] = accepted[i]
        /\ accepted'[n] = row
    BY <1>5, <2>1, <2>2, <2>3, RowAdded
  <2>5. n \in DOMAIN accepted' /\ \A i \in DOMAIN accepted' : i = n \/ i \in DOMAIN accepted
    BY <2>1, <2>4
  <2>6. DOMAIN accepted \subseteq DOMAIN accepted'
    BY <2>1, <2>4
  <2>7. Later(accepted, sessionOf, accepted', sessionOf')
    BY <1>2, <2>4, <2>6 DEF Later
  <2>8. RowsTell'
    BY <2>2, <2>4, <2>5 DEF SyncInv, RowsTell
  <2>9. KeysAreUsedOnce'
    <3>1. \A i \in DOMAIN accepted : accepted[i].key # q.key
      BY <1>5 DEF WithKey
    <3>2. \A i, j \in DOMAIN accepted : accepted[i].key = accepted[j].key => i = j
      BY DEF SyncInv, KeysAreUsedOnce
    <3>. QED
      BY <2>2, <2>4, <2>5, <3>1, <3>2 DEF KeysAreUsedOnce
  <2>. DEFINE w == [at |-> "waiting", ask |-> q, run |-> n]
  <2>10. GatewayFits(w, accepted', sessionOf')
    <3>1. RunOf(q, n, accepted', sessionOf')
      BY <1>2, <2>2, <2>4, <2>5 DEF RunOf
    <3>. QED
      BY <1>2, <3>1 DEF GatewayFits
  <2>11. AnswerFits(answers[g], accepted', sessionOf')
    BY <2>7, CallRows, FitsLater
  <2>12. gateway' = [gateway EXCEPT ![g] = w] /\ answers' = [answers EXCEPT ![g] = answers[g]]
    BY <1>5, <2>4, CallRows
  <2>13. sessionOf' \in [Aliases -> Nat] /\ opened' \in Nat /\ SessionsAreCounted'
    BY <1>2 DEF SyncInv, SyncTyped, SessionsAreCounted
  <2>. HIDE DEF w
  <2>. QED
    BY <2>4, <2>7, <2>8, <2>9, <2>10, <2>11, <2>12, <2>13, CallMoves
<1>. QED
  BY <1>1, <1>3, <1>4, <1>5 DEF Accept, Reaches

\* A run goes on while calls wait for it.
LEMMA ProgressKeeps ==
  ASSUME SyncInv, NEW r \in DOMAIN accepted, RunProgress(r)
  PROVE  SyncInv'
<1>. DEFINE row == accepted[r]
<1>1. accepted \in Seq(AcceptedRow) /\ row \in AcceptedRow /\ RowTells(row)
  BY DEF SyncInv, SyncTyped, RowsTell
<1>2. PICK status2, said2 :
        /\ Becoming(r, status2, said2) /\ row.status # "succeeded"
        /\ status2 \in {"active", "approving", "succeeded", "ended"} /\ said2 \in {"nothing", "question", "answer"}
        /\ status2 = "succeeded" => said2 = "answer"
        /\ row.parked \/ status2 = "approving" => said2 # "nothing"
  BY <1>1 DEF RunProgress, AcceptedRow, RowTells, IsOver
<1>3. PICK new : new = [row EXCEPT !.status = status2, !.said = said2, !.parked = @ \/ status2 = "approving"]
  OBVIOUS
<1>4. /\ new \in AcceptedRow /\ new.key = row.key /\ new.text = row.text /\ new.session = row.session
      /\ new.status = status2 /\ new.said = said2 /\ (new.parked <=> row.parked \/ status2 = "approving")
  <2>1. row.parked \in BOOLEAN /\ (row.parked \/ status2 = "approving") \in BOOLEAN
    BY <1>1 DEF AcceptedRow
  <2>. QED
    BY <1>1, <1>2, <1>3, <2>1 DEF AcceptedRow
<1>5. accepted' = [accepted EXCEPT ![r] = new] /\ UNCHANGED <<sessionOf, opened, gateway, answers>>
  BY <1>2, <1>3 DEF Becoming
<1>6. /\ accepted' \in Seq(AcceptedRow) /\ DOMAIN accepted' = DOMAIN accepted /\ accepted'[r] = new
      /\ \A i \in DOMAIN accepted : i # r => accepted'[i] = accepted[i]
  BY <1>1, <1>4, <1>5, RowReplaced
<1>7. Later(accepted, sessionOf, accepted', sessionOf')
  BY <1>2, <1>4, <1>5, <1>6 DEF Later
<1>8. RowsTell'
  <2>1. RowTells(new)
    BY <1>2, <1>4 DEF RowTells
  <2>. QED
    BY <1>6, <2>1 DEF SyncInv, RowsTell
<1>9. KeysAreUsedOnce'
  <2>1. \A i \in DOMAIN accepted : accepted'[i].key = accepted[i].key
    BY <1>4, <1>6
  <2>. QED
    BY <1>6, <2>1 DEF SyncInv, KeysAreUsedOnce
<1>10. CallsFit'
  <2>. SUFFICES ASSUME NEW g \in Gateways
                PROVE  GatewayFits(gateway[g], accepted', sessionOf') /\ AnswerFits(answers[g], accepted', sessionOf')
    BY <1>5 DEF CallsFit
  <2>. QED
    BY <1>7, CallRows, FitsLater
<1>11. SyncTyped' /\ SessionsAreCounted'
  BY <1>5, <1>6 DEF SyncInv, SyncTyped, SessionsAreCounted
<1>. QED
  BY <1>8, <1>9, <1>10, <1>11 DEF SyncInv

\* Every step keeps the invariant of the compatible call.
LEMMA SyncInvInductive == SyncInv /\ [SyncNext]_syncVars => SyncInv'
<1>. SUFFICES ASSUME SyncInv, [SyncNext]_syncVars
              PROVE  SyncInv'
  OBVIOUS
<1>1. CASE UNCHANGED syncVars
  <2>1. UNCHANGED <<sessionOf, opened, accepted, gateway, answers>>
    BY <1>1 DEF syncVars
  <2>. QED
    BY <2>1 DEF SyncInv, SyncTyped, RowsTell, RowTells, CallsFit, SessionsAreCounted, KeysAreUsedOnce
<1>. QED
  BY <1>1, CallsKeep, ResolveKeeps, AcceptKeeps, ProgressKeeps DEF SyncNext

\* The invariant of the compatible call holds in every state.
LEMMA SyncInvHolds == SyncSpec => []SyncInv
<1>1. SyncInit => SyncInv
  <2>. SUFFICES ASSUME SyncInit
                PROVE  SyncInv
    OBVIOUS
  <2>1. accepted = <<>> /\ DOMAIN accepted = {} /\ accepted \in Seq(AcceptedRow)
    BY DEF SyncInit
  <2>2. SyncTyped /\ RowsTell /\ KeysAreUsedOnce
    BY <2>1 DEF SyncInit, SyncTyped, RowsTell, KeysAreUsedOnce
  <2>3. CallsFit
    BY DEF SyncInit, CallsFit, GatewayFits, AnswerFits, Unsent, Silence
  <2>4. SessionsAreCounted
    <3>1. {x \in Aliases : sessionOf[x] # 0} = {} /\ opened = 0
      BY DEF SyncInit
    <3>. QED
      BY <3>1, FS_EmptySet DEF SessionsAreCounted
  <2>. QED
    BY <2>2, <2>3, <2>4 DEF SyncInv
<1>. QED
  BY <1>1, SyncInvInductive, PTL DEF SyncSpec

\* The invariant says that a message is run once and answered by its run.
LEMMA SyncInvTells == SyncInv => AskedOnce
BY DEF SyncInv, AskedOnce, SessionsAreCounted, KeysAreUsedOnce, CallsFit, AnswerFits, RunOf

-----------------------------------------------------------------------------
\* A tool result that is served from the cache is no older than its life, or the age that is
\* asked for, and the limit of the call that read it; a reviewed answer that is served for
\* another wording of its question is as old as the wordings that renewed it allow
\* (ToolManager.invoke_tool, FAQCacheService.get and put).
THEOREM CachesAreFresh == ToolSpec /\ FaqSpec => []CachesAgeOut
<1>1. ToolInv /\ FaqInv => CachesAgeOut
  BY DEF ToolInv, FaqInv, CachesAgeOut
<1> QED BY <1>1, ToolInvHolds, FaqInvHolds, PTL

\* A reader of the event stream has heard a run without gaps and is told that it is complete
\* only when it is, or that what it missed was erased; the compatible call runs a message once
\* and answers with what the run has said (EventLog.read, the streaming route, the sync
\* gateway).
THEOREM ClientsAreTold == StreamSpec /\ SyncSpec => []ToldAsItHappened
<1>1. StreamInv => LogIsHeard
  BY StreamInvFollows DEF StreamInv, LogIsHeard
<1>2. StreamInv /\ SyncInv => ToldAsItHappened
  BY <1>1, SyncInvTells DEF ToldAsItHappened
<1> QED BY <1>2, StreamInvHolds, SyncInvHolds, PTL
-----------------------------------------------------------------------------
(* The rules of the business: what is told follows the skills one by one, by a least counterexample *)

\* What is told after each of the skills is well defined.
LEMMA AfterSkills ==
  ASSUME Len(skills) \in Nat, NEW who, NEW says
  PROVE  LET acc == AfterSkill(who, says) IN
         /\ acc[0] = [told |-> <<>>, left |-> Budget]
         /\ \A n \in 1..Len(skills) :
              acc[n] = IF Applies(acc[n - 1], skills[n], who, says) THEN Appended(acc[n - 1], skills[n]) ELSE acc[n - 1]
<1> DEFINE start == [told |-> <<>>, left |-> Budget]
           Step(acc, n) == IF Applies(acc, skills[n], who, says) THEN Appended(acc, skills[n]) ELSE acc
           Unfolds(f, k) == f = [n \in 0..k |-> IF n = 0 THEN start ELSE Step(f[n - 1], n)]
           undefined == {k \in 0..Len(skills) : ~ \E f : Unfolds(f, k)}
<1>1. AfterSkill(who, says) = CHOOSE f : Unfolds(f, Len(skills))
  BY DEF AfterSkill
<1> HIDE DEF start, Step
<1>2. undefined = {}
  <2> SUFFICES ASSUME undefined # {} PROVE FALSE
    OBVIOUS
  <2>1. PICK k \in undefined : \A m \in undefined : k <= m
    <3>1. undefined \subseteq Nat
      OBVIOUS
    <3> HIDE DEF undefined
    <3> QED BY <3>1, LeastNumber
  <2>2. k \in 0..Len(skills) /\ ~ \E f : Unfolds(f, k)
    BY <2>1
  <2>5. k # 0 => k - 1 \notin undefined
    <3> HIDE DEF undefined
    <3> QED BY <2>1, <2>2
  <2>3. CASE k = 0
    <3>1. Unfolds([n \in 0..0 |-> start], 0)
      OBVIOUS
    <3> QED BY <2>2, <2>3, <3>1
  <2>4. CASE k # 0
    <3>1. k \in Nat /\ k - 1 \in 0..Len(skills) /\ k - 1 < k
      BY <2>2, <2>4
    <3>3. PICK g : Unfolds(g, k - 1)
      BY <2>4, <2>5, <3>1
    <3> DEFINE f == [n \in 0..k |-> IF n = k THEN Step(g[k - 1], k) ELSE g[n]]
    <3>4. \A n \in 0..(k - 1) : g[n] = IF n = 0 THEN start ELSE Step(g[n - 1], n)
      BY <3>3
    <3>5. ASSUME NEW n \in 0..k PROVE f[n] = IF n = 0 THEN start ELSE Step(f[n - 1], n)
      <4>1. CASE n = k
        <5>1. f[n - 1] = g[k - 1]
          BY <3>1, <4>1
        <5> QED BY <2>4, <4>1, <5>1
      <4>2. CASE n = 0 /\ n # k
        BY <3>1, <3>4, <4>2
      <4>3. CASE n # 0 /\ n # k
        <5>1. n \in 0..(k - 1) /\ n - 1 \in 0..k /\ n - 1 # k
          BY <3>1, <4>3
        <5>2. f[n] = g[n] /\ f[n - 1] = g[n - 1]
          BY <4>3, <5>1
        <5> QED BY <3>4, <4>3, <5>1, <5>2
      <4> QED BY <4>1, <4>2, <4>3
    <3>6. Unfolds(f, k)
      <4>1. f = [n \in 0..k |-> f[n]]
        OBVIOUS
      <4> HIDE DEF f
      <4> QED BY <3>5, <4>1
    <3> QED BY <2>2, <3>6
  <2> QED BY <2>3, <2>4
<1>3. \E f : Unfolds(f, Len(skills))
  BY <1>2
<1>4. Unfolds(AfterSkill(who, says), Len(skills))
  <2> HIDE DEF Unfolds
  <2> QED BY <1>1, <1>3
<1> DEFINE all == AfterSkill(who, says)
<1> HIDE DEF all
<1>5. \A n \in 0..Len(skills) : all[n] = IF n = 0 THEN start ELSE Step(all[n - 1], n)
  BY <1>4 DEF all
<1>6. all[0] = start /\ \A n \in 1..Len(skills) : all[n] = Step(all[n - 1], n)
  BY <1>5
<1> QED BY <1>6 DEF all, start, Step

-----------------------------------------------------------------------------
SkillRow == [file : 1..Files, rule : Drafts]
Block == [file : 1..Files, rule : Drafts, from : Int, size : Int]

\* Rules that were in their files since the last scan began, in the order of the files.
RowsFit(rows) ==
  /\ rows \in Seq(SkillRow)
  /\ \A n \in 1..Len(rows) : rows[n].rule \in held[rows[n].file] /\ IsRule(rows[n].rule)
  /\ \A m, n \in 1..Len(rows) : m < n => Rank(rows[m].file) < Rank(rows[n].file)

\* A file that held nothing but this rule since the last scan began.
Holds(f, rule) == held[f] = {rule} /\ IsRule(rule)
Listed(rows, f) == \E n \in 1..Len(rows) : rows[n].file = f

\* What is told of the first skills: it follows them, and whatever is left out had no room.
RightlyTold(acc, n, who, says) ==
  /\ acc.told \in Seq(Block) /\ acc.left \in Int /\ acc.left >= -Dots
  /\ acc.left = Budget - End(acc.told, Len(acc.told))
  /\ \A i \in 1..Len(acc.told) :
       /\ acc.told[i].rule \in held[acc.told[i].file] /\ (acc.told[i].size # SkillBlock(acc.told[i].rule) =>
            i = Len(acc.told) /\ acc.left <= 0 /\ acc.told[i].size < SkillBlock(acc.told[i].rule) + Dots)
       /\ acc.told[i].from = End(acc.told, i - 1)
       /\ \E m \in 1..n : acc.told[i].file = skills[m].file
  /\ \A i, j \in 1..Len(acc.told) : i < j => Rank(acc.told[i].file) < Rank(acc.told[j].file)
  /\ \A m \in 1..n : Matches(skills[m].rule, who, says) =>
       \/ Listed(acc.told, skills[m].file)
       \/ acc.told # <<>> /\ acc.left <= 0 /\ Rank(acc.told[Len(acc.told)].file) < Rank(skills[m].file)

\* One more skill, told or not.
LEMMA OneMoreSkill ==
  ASSUME RowsFit(skills), NEW who, NEW says, NEW acc, NEW n \in 1..Len(skills), RightlyTold(acc, n - 1, who, says)
  PROVE  RightlyTold(IF Applies(acc, skills[n], who, says) THEN Appended(acc, skills[n]) ELSE acc, n, who, says)
<1> DEFINE told == acc.told
           left == acc.left
           skill == skills[n]
<1>1. /\ PerSkill \in Nat /\ Budget \in Nat /\ Dots \in Nat /\ Files \in Nat
      /\ \A draft \in Drafts : IsRule(draft) => draft.head \in Nat /\ draft.body \in Nat
  BY SkillAssumption
<1>2. /\ skills \in Seq(SkillRow) /\ Len(skills) \in Nat
      /\ \A m \in 1..Len(skills) : skills[m] \in SkillRow /\ skills[m].file \in 1..Files /\ skills[m].rule \in Drafts
      /\ \A m \in 1..Len(skills) : skills[m].rule \in held[skills[m].file] /\ IsRule(skills[m].rule)
      /\ \A k, m \in 1..Len(skills) : k < m => Rank(skills[k].file) < Rank(skills[m].file)
      /\ \A m \in 1..Len(skills) : Rank(skills[m].file) \in Int
  <2>3. \A f \in 1..Files : Rank(f) \in Int
    BY <1>1 DEF Rank
  <2>1. skills \in Seq(SkillRow) /\ Len(skills) \in Nat /\ \A m \in 1..Len(skills) : skills[m] \in SkillRow
    BY DEF RowsFit
  <2>2. \A row \in SkillRow : row.file \in 1..Files /\ row.rule \in Drafts
    BY DEF SkillRow
  <2> QED BY <2>1, <2>2, <2>3 DEF RowsFit
<1>3. /\ told \in Seq(Block) /\ left \in Int /\ left >= -Dots /\ left = Budget - End(told, Len(told))
      /\ \A i \in 1..Len(told) :
           /\ told[i].rule \in held[told[i].file]
           /\ told[i].size # SkillBlock(told[i].rule) =>
                i = Len(told) /\ left <= 0 /\ told[i].size < SkillBlock(told[i].rule) + Dots
           /\ told[i].from = End(told, i - 1)
           /\ \E m \in 1..(n - 1) : told[i].file = skills[m].file
      /\ \A i, j \in 1..Len(told) : i < j => Rank(told[i].file) < Rank(told[j].file)
  BY DEF RightlyTold
<1>4. \A m \in 1..(n - 1) : Matches(skills[m].rule, who, says) =>
        \/ Listed(told, skills[m].file)
        \/ told # <<>> /\ left <= 0 /\ Rank(told[Len(told)].file) < Rank(skills[m].file)
  BY DEF RightlyTold
<1>5. n \in Nat /\ n >= 1 /\ skill.file \in 1..Files /\ skill.rule \in Drafts /\ skill.rule \in held[skill.file]
      /\ skill.rule.head \in Nat /\ skill.rule.body \in Nat /\ Rank(skill.file) \in Int
  BY <1>1, <1>2
<1>10. \A m \in 1..(n - 1) : Rank(skills[m].file) < Rank(skill.file)
  <2>1. \A m \in 1..(n - 1) : m \in 1..Len(skills) /\ m < n
    BY <1>2, <1>5
  <2> QED BY <1>2, <2>1
<1> HIDE DEF told, left, skill
<1>6. \A i \in 1..Len(told) : Rank(told[i].file) < Rank(skill.file)
  BY <1>3, <1>10
<1>7. told = <<>> <=> Len(told) = 0
  BY <1>3, EmptySeq
<1>8. CASE ~Applies(acc, skill, who, says)
  <2>1. Matches(skill.rule, who, says) => told # <<>> /\ left <= 0
    BY <1>3, <1>8 DEF Applies, told, left
  <2>2. told # <<>> => Rank(told[Len(told)].file) < Rank(skill.file)
    BY <1>3, <1>6, <1>7
  <2>3. \A m \in 1..n : Matches(skills[m].rule, who, says) =>
          \/ Listed(told, skills[m].file)
          \/ told # <<>> /\ left <= 0 /\ Rank(told[Len(told)].file) < Rank(skills[m].file)
    <3>1. \A m \in 1..n : m = n \/ m \in 1..(n - 1)
      BY <1>5
    <3> QED BY <1>4, <2>1, <2>2, <3>1 DEF skill
  <2>4. \A i \in 1..Len(told) : \E m \in 1..n : told[i].file = skills[m].file
    BY <1>3, <1>5
  <2>5. RightlyTold(acc, n, who, says)
    BY <1>3, <2>3, <2>4 DEF RightlyTold, told, left
  <2> QED BY <1>8, <2>5 DEF skill
<1>9. CASE Applies(acc, skill, who, says)
  <2> DEFINE size == IF SkillBlock(skill.rule) > left THEN left + Dots ELSE SkillBlock(skill.rule)
             block == [file |-> skill.file, rule |-> skill.rule, from |-> Budget - left, size |-> size]
             more == Append(told, block)
             rest == left - size
             next == [told |-> more, left |-> rest]
  <2>1. Appended(acc, skill) = next
    BY DEF Appended, told, left
  <2>2. SkillBlock(skill.rule) \in Nat
    <3> DEFINE head == skill.rule.head
               body == skill.rule.body
    <3>1. head \in Nat /\ body \in Nat /\ SkillBlock(skill.rule) = head + IF body > PerSkill THEN PerSkill + Dots ELSE body
      BY <1>5 DEF SkillBlock
    <3> HIDE DEF head, body
    <3> QED BY <1>1, <3>1
  <2>3. /\ size \in Int /\ rest \in Int /\ rest >= -Dots
        /\ size # SkillBlock(skill.rule) => rest <= 0 /\ size < SkillBlock(skill.rule) + Dots
    <3> DEFINE whole == SkillBlock(skill.rule)
    <3>1. whole \in Nat /\ size = IF whole > left THEN left + Dots ELSE whole
      BY <2>2
    <3>2. Dots \in Nat /\ left \in Int /\ left >= -Dots /\ rest = left - size
      BY <1>1, <1>3
    <3> HIDE DEF whole, left, size, rest
    <3>3. size \in Int /\ rest \in Int /\ rest >= -Dots
      BY ONLY <3>1, <3>2
    <3>4. size # whole => rest <= 0 /\ size < whole + Dots
      BY ONLY <3>1, <3>2
    <3> QED BY <3>3, <3>4 DEF whole
  <2>4. block \in Block /\ block.file = skill.file /\ block.rule = skill.rule /\ block.from = Budget - left
        /\ block.size = size
    BY <1>1, <1>3, <1>5, <2>3 DEF Block
  <2>5. rest = left - size
    OBVIOUS
  <2> HIDE DEF size, block, rest
  <2>6. /\ more \in Seq(Block) /\ Len(more) = Len(told) + 1 /\ more[Len(told) + 1] = block
        /\ \A i \in 1..Len(told) : more[i] = told[i]
    BY <1>3, <2>4, AppendProperties
  <2>7. more # <<>>
    BY <1>3, <2>6, EmptySeq
  <2>8. Len(told) \in Nat
    BY <1>3
  <2> HIDE DEF more
  <2>9. End(more, Len(told)) = End(told, Len(told)) /\ \A i \in 1..Len(told) : End(more, i - 1) = End(told, i - 1)
    <3>1. \A i \in 0..Len(told) : i = 0 \/ (i # 0 /\ i \in 1..Len(told))
      BY <2>8
    <3>2. \A i \in 0..Len(told) : End(more, i) = End(told, i)
      BY <2>6, <3>1 DEF End
    <3> QED BY <2>8, <3>2
  <2>10. rest = Budget - End(more, Len(more))
    <3>1. End(more, Len(more)) = (Budget - left) + size
      BY <2>4, <2>6, <2>8 DEF End
    <3>2. Budget \in Int /\ left \in Int /\ size \in Int
      BY <1>1, <1>3, <2>3
    <3> DEFINE end == End(more, Len(more))
    <3>3. end = (Budget - left) + size
      BY <3>1
    <3> HIDE DEF end
    <3>4. left - size = Budget - end
      BY ONLY <3>2, <3>3
    <3> QED BY <2>5, <3>4 DEF end
  <2>11. ASSUME NEW i \in 1..Len(more)
         PROVE  /\ more[i].rule \in held[more[i].file]
                /\ more[i].size # SkillBlock(more[i].rule) =>
                     i = Len(more) /\ rest <= 0 /\ more[i].size < SkillBlock(more[i].rule) + Dots
                /\ more[i].from = End(more, i - 1)
                /\ \E m \in 1..n : more[i].file = skills[m].file
    <3>1. CASE i \in 1..Len(told)
      <4>1. more[i] = told[i] /\ End(more, i - 1) = End(told, i - 1)
        BY <2>6, <2>9, <3>1
      <4>2. /\ told[i].rule \in held[told[i].file] /\ told[i].size = SkillBlock(told[i].rule)
            /\ told[i].from = End(told, i - 1)
        <5>1. left > 0
          BY <1>7, <1>9, <2>8, <3>1 DEF Applies, told, left
        <5>2. ~(left <= 0)
          BY <1>3, <5>1
        <5> QED BY <1>3, <3>1, <5>2
      <4>3. PICK m \in 1..(n - 1) : told[i].file = skills[m].file
        BY <1>3, <3>1
      <4>4. m \in 1..n
        BY <1>5
      <4> QED BY <4>1, <4>2, <4>3, <4>4
    <3>2. CASE i = Len(told) + 1
      <4>1. more[i] = block /\ End(more, i - 1) = Budget - left
        <5>1. i - 1 = Len(told) /\ End(more, i - 1) = End(told, Len(told))
          BY <2>8, <2>9, <3>2
        <5>2. End(told, Len(told)) \in Int
          <6>1. CASE Len(told) = 0
            BY <6>1 DEF End
          <6>2. CASE Len(told) # 0
            <7>1. told[Len(told)] \in Block
              BY <1>3, <2>8, <6>2
            <7> QED BY <6>2, <7>1 DEF End, Block
          <6> QED BY <6>1, <6>2
        <5>3. more[i] = block
          BY <2>6, <3>2
        <5>4. Budget \in Int /\ left \in Int /\ left = Budget - End(told, Len(told))
          BY <1>1, <1>3
        <5>5. End(told, Len(told)) = Budget - left
          BY ONLY <5>2, <5>4
        <5> QED BY <5>1, <5>3, <5>5
      <4>2. n \in 1..n /\ block.file = skills[n].file
        BY <1>5, <2>4 DEF skill
      <4> QED BY <1>5, <2>3, <2>4, <2>6, <3>2, <4>1, <4>2
    <3> QED BY <2>6, <2>8, <3>1, <3>2
  <2>12. \A i, j \in 1..Len(more) : i < j => Rank(more[i].file) < Rank(more[j].file)
    <3> SUFFICES ASSUME NEW i \in 1..Len(more), NEW j \in 1..Len(more), i < j PROVE Rank(more[i].file) < Rank(more[j].file)
      OBVIOUS
    <3>1. i \in 1..Len(told) /\ (j \in 1..Len(told) \/ j = Len(told) + 1)
      <4>1. Len(more) = Len(told) + 1 /\ i \in 1..Len(more) /\ j \in 1..Len(more) /\ i < j
        BY <2>6
      <4> QED BY ONLY <2>8, <4>1
    <3> QED BY <1>3, <1>6, <2>4, <2>6, <3>1
  <2>13. ASSUME NEW m \in 1..n, Matches(skills[m].rule, who, says) PROVE Listed(more, skills[m].file)
    <3>1. CASE m = n
      <4>1. Len(more) \in 1..Len(more) /\ more[Len(more)].file = skills[m].file
        BY <2>4, <2>6, <2>8, <3>1 DEF skill
      <4> QED BY <4>1 DEF Listed
    <3>2. CASE m # n
      <4>1. m \in 1..(n - 1)
        BY <1>5, <3>2
      <4>2. Listed(told, skills[m].file)
        BY <1>3, <1>4, <1>9, <2>13, <4>1 DEF Applies, told, left
      <4>3. PICK i \in 1..Len(told) : told[i].file = skills[m].file
        BY <4>2 DEF Listed
      <4>4. i \in 1..Len(more) /\ more[i] = told[i]
        BY <2>6, <2>8
      <4> QED BY <4>3, <4>4 DEF Listed
    <3> QED BY <3>1, <3>2
  <2>14. next.told = more /\ next.left = rest
    OBVIOUS
  <2> HIDE DEF next
  <2>15. RightlyTold(next, n, who, says)
    BY <2>3, <2>6, <2>10, <2>11, <2>12, <2>13, <2>14 DEF RightlyTold
  <2> QED BY <1>9, <2>1, <2>15 DEF skill
<1> QED BY <1>8, <1>9

\* All skills, one after another.
LEMMA AllSkills ==
  ASSUME RowsFit(skills), NEW who, NEW says
  PROVE  RightlyTold(AfterSkill(who, says)[Len(skills)], Len(skills), who, says)
<1> DEFINE acc == AfterSkill(who, says)
           broken == {n \in 0..Len(skills) : ~RightlyTold(acc[n], n, who, says)}
<1>1. Len(skills) \in Nat
  BY DEF RowsFit
<1>2. /\ acc[0] = [told |-> <<>>, left |-> Budget]
      /\ \A n \in 1..Len(skills) :
           acc[n] = IF Applies(acc[n - 1], skills[n], who, says) THEN Appended(acc[n - 1], skills[n]) ELSE acc[n - 1]
  BY <1>1, AfterSkills
<1> HIDE DEF acc
<1>3. RightlyTold(acc[0], 0, who, says)
  <2>1. acc[0].told = <<>> /\ acc[0].left = Budget
    BY <1>2
  <2>2. Len(<<>>) = 0 /\ <<>> \in Seq(Block)
    OBVIOUS
  <2>3. Budget \in Nat /\ Dots \in Nat
    BY SkillAssumption
  <2> QED BY <2>1, <2>2, <2>3 DEF RightlyTold, End
<1>4. broken = {}
  <2> SUFFICES ASSUME broken # {} PROVE FALSE
    OBVIOUS
  <2>1. broken \subseteq Nat
    OBVIOUS
  <2>2. PICK n \in broken : \A m \in broken : n <= m
    <3> HIDE DEF broken
    <3> QED BY <2>1, LeastNumber
  <2>3. n \in 0..Len(skills) /\ ~RightlyTold(acc[n], n, who, says)
    BY <2>2
  <2>4. n # 0
    BY <1>3, <2>3
  <2>5. n \in 1..Len(skills) /\ n - 1 \in 0..Len(skills)
    BY <1>1, <2>3, <2>4
  <2>6. n - 1 \notin broken
    <3> HIDE DEF broken
    <3> QED BY <2>2, <2>5
  <2>7. RightlyTold(acc[n - 1], n - 1, who, says)
    BY <2>5, <2>6
  <2> QED BY <1>2, <2>3, <2>5, <2>7, OneMoreSkill
<1> QED BY <1>1, <1>4 DEF acc

-----------------------------------------------------------------------------
SkillsTyped ==
  /\ file \in [1..Files -> Drafts] /\ held \in [1..Files -> SUBSET Drafts]
  /\ \A f \in 1..Files : file[f] \in held[f]
  /\ scan \in [on : BOOLEAN, first : SUBSET (1..Files), listed : BOOLEAN, left : SUBSET (1..Files), found : Seq(SkillRow), failed : SUBSET (1..Files)]

\* A scan has found, or will read, whatever a file has held all the time.
ScanFits ==
  scan.on =>
    /\ RowsFit(scan.found)
    /\ \A n \in 1..Len(scan.found) : \A f \in scan.left : Rank(scan.found[n].file) < Rank(f)
    /\ ~scan.listed => scan.left \subseteq scan.first /\ \A n \in 1..Len(scan.found) : scan.found[n].file \in scan.first
    /\ scan.listed => scan.left \intersect scan.first = {}
    /\ \A f \in 1..Files : \A rule \in held[f] : Holds(f, rule) =>
         \/ f \in scan.left
         \/ ~scan.listed /\ f \notin scan.first
         \/ Listed(scan.found, f)

\* What is loaded, when no scan goes on.
SkillsFit ==
  ~scan.on =>
    /\ RowsFit(skills)
    /\ \A f \in 1..Files : \A rule \in held[f] : Holds(f, rule) => Listed(skills, f)

\* Nobody is told anything while files are read.
PromptFits == (prompt.asked => ~scan.on) /\ prompt.asked \in BOOLEAN /\ RulesAreTold

SkillsInv == SkillsTyped /\ ScanFits /\ SkillsFit /\ PromptFits

\* Nothing is loaded yet.
LEMMA SkillsInvStarts == SkillsInit => SkillsInv
<1> SUFFICES ASSUME SkillsInit PROVE SkillsInv
  OBVIOUS
<1>2. Files \in Nat /\ Folder \in [1..Files -> Drafts] /\ Named \subseteq 1..Files
  BY SkillAssumption
<1>3. /\ scan.on = TRUE /\ scan.first = scan.left /\ scan.listed = FALSE /\ scan.left = {f \in Named : file[f] # Absent}
      /\ scan.found = <<>> /\ scan.failed = {}
      /\ scan = [on |-> TRUE, first |-> {f \in Named : file[f] # Absent}, listed |-> FALSE, left |-> {f \in Named : file[f] # Absent}, found |-> <<>>, failed |-> {}]
  BY DEF SkillsInit, ScanOfNamed, NoScan, Discovered
<1>4. file = Folder /\ held = [f \in 1..Files |-> {Folder[f]}] /\ prompt.asked = FALSE
  BY DEF SkillsInit
<1>5. Len(scan.found) = 0 /\ scan.found \in Seq(SkillRow)
  BY <1>3
<1>6. SkillsTyped
  <2>1. file \in [1..Files -> Drafts] /\ held \in [1..Files -> SUBSET Drafts] /\ \A f \in 1..Files : file[f] \in held[f]
    BY <1>2, <1>4
  <2>2. {f \in Named : file[f] # Absent} \subseteq 1..Files
    BY <1>2
  <2>3. scan \in [on : BOOLEAN, first : SUBSET (1..Files), listed : BOOLEAN, left : SUBSET (1..Files), found : Seq(SkillRow), failed : SUBSET (1..Files)]
    BY <1>3, <1>5, <2>2
  <2> QED BY <2>1, <2>3 DEF SkillsTyped
<1>7. RowsFit(scan.found)
  BY <1>5 DEF RowsFit
<1>8. \A f \in 1..Files : \A rule \in held[f] : Holds(f, rule) => f \in scan.left \/ f \notin scan.first
  BY <1>2, <1>3, <1>4 DEF Holds, IsRule
<1>9. ScanFits
  BY <1>3, <1>5, <1>7, <1>8 DEF ScanFits
<1> QED BY <1>3, <1>4, <1>6, <1>9 DEF SkillsInv, SkillsFit, PromptFits, RulesAreTold

\* What the invariant says of the state before a step.
LEMMA SkillsState ==
  ASSUME SkillsInv
  PROVE  /\ file \in [1..Files -> Drafts] /\ held \in [1..Files -> SUBSET Drafts] /\ Files \in Nat
         /\ \A f \in 1..Files : file[f] \in held[f] /\ file[f] \in Drafts
         /\ scan.on \in BOOLEAN /\ scan.listed \in BOOLEAN /\ scan.left \subseteq 1..Files
         /\ scan.found \in Seq(SkillRow) /\ scan.failed \subseteq 1..Files /\ scan.first \subseteq 1..Files
         /\ Named \subseteq 1..Files /\ (\A f \in 1..Files : Rank(f) \in Int)
         /\ (\A f \in scan.first : \A g \in (1..Files) \ scan.first : Rank(f) < Rank(g))
         /\ Len(scan.found) \in Nat
<1>2. Files \in Nat /\ Named \subseteq 1..Files
  BY SkillAssumption
<1>1. scan.first \subseteq 1..Files
  BY DEF SkillsInv, SkillsTyped
<1>3. /\ \A f \in 1..Files : Rank(f) \in Int
      /\ \A f \in scan.first : \A g \in (1..Files) \ scan.first : Rank(f) < Rank(g)
  BY <1>1, <1>2 DEF Rank
<1>4. /\ scan.on \in BOOLEAN /\ scan.listed \in BOOLEAN /\ scan.left \subseteq 1..Files
      /\ scan.found \in Seq(SkillRow) /\ scan.failed \subseteq 1..Files
  BY DEF SkillsInv, SkillsTyped
<1> QED BY <1>1, <1>2, <1>3, <1>4 DEF SkillsInv, SkillsTyped

\* A scan begins with the files that are named.
LEMMA ReloadKeeps == ASSUME SkillsInv, Reload PROVE SkillsInv'
<1>1. /\ scan'.on = TRUE /\ scan'.first = scan'.left /\ scan'.listed = FALSE /\ scan'.left = {f \in Named : file[f] # Absent}
      /\ scan'.found = <<>> /\ scan'.failed = {}
      /\ scan' = [on |-> TRUE, first |-> {f \in Named : file[f] # Absent}, listed |-> FALSE, left |-> {f \in Named : file[f] # Absent}, found |-> <<>>, failed |-> {}]
  BY DEF Reload, ScanOfNamed, NoScan, Discovered
<1>2. file' = file /\ held' = [f \in 1..Files |-> {file[f]}]
  BY DEF Reload
<1>3. prompt'.asked = FALSE
  <2>1. prompt' = [prompt EXCEPT !.asked = FALSE, !.told = <<>>]
    BY DEF Reload
  <2> QED BY <2>1
<1>4. Len(scan'.found) = 0 /\ scan'.found \in Seq(SkillRow)
  BY <1>1
<1>5. SkillsTyped'
  BY <1>1, <1>2, <1>4, SkillsState DEF SkillsTyped
<1>6. RowsFit(scan.found)'
  BY <1>4 DEF RowsFit
<1>7. \A f \in 1..Files : \A rule \in held'[f] : Holds(f, rule)' => f \in scan'.left \/ f \notin scan'.first
  BY <1>1, <1>2, SkillsState DEF Holds, IsRule
<1>8. ScanFits'
  BY <1>1, <1>4, <1>6, <1>7 DEF ScanFits
<1> QED BY <1>1, <1>3, <1>5, <1>8 DEF SkillsInv, SkillsFit, PromptFits, RulesAreTold

\* The other files are listed when those have been read.
LEMMA ListOthersKeeps == ASSUME SkillsInv, ListOthers PROVE SkillsInv'
<1>1. /\ scan.on /\ scan.left = {} /\ ~scan.listed
      /\ scan' = [scan EXCEPT !.listed = TRUE, !.left = {f \in (1..Files) \ scan.first : file[f] # Absent}]
      /\ file' = file /\ held' = held /\ skills' = skills /\ prompt' = prompt
  BY DEF ListOthers, ListTheRest, Discovered
<1>2. scan'.on = TRUE /\ scan'.listed = TRUE /\ scan'.left = {f \in (1..Files) \ scan.first : file[f] # Absent}
      /\ scan'.found = scan.found /\ scan'.failed = scan.failed /\ scan'.first = scan.first
  BY <1>1 DEF SkillsInv, SkillsTyped
<1>3. SkillsTyped'
  <2>1. scan' \in [on : BOOLEAN, first : SUBSET (1..Files), listed : BOOLEAN, left : SUBSET (1..Files), found : Seq(SkillRow), failed : SUBSET (1..Files)]
    <3> DEFINE remaining == {f \in (1..Files) \ scan.first : file[f] # Absent}
    <3>1. remaining \subseteq 1..Files /\ scan' = [scan EXCEPT !.listed = TRUE, !.left = remaining]
      BY <1>1
    <3> HIDE DEF remaining
    <3>2. scan' = [on |-> scan.on, first |-> scan.first, listed |-> TRUE, left |-> remaining, found |-> scan.found, failed |-> scan.failed]
      BY <3>1 DEF SkillsInv, SkillsTyped
    <3> QED BY <3>1, <3>2, SkillsState
  <2> QED BY <1>1, <2>1 DEF SkillsInv, SkillsTyped
<1>4. RowsFit(scan.found) /\ RowsFit(scan.found)'
  BY <1>1, <1>2 DEF SkillsInv, ScanFits, RowsFit, Rank
<1>5. \A n \in 1..Len(scan'.found) : \A f \in scan'.left : Rank(scan.found[n].file)' < Rank(f)'
  <2>1. \A n \in 1..Len(scan.found) : scan.found[n].file \in scan.first
    BY <1>1 DEF SkillsInv, ScanFits
  <2>2. \A f : Rank(f)' = Rank(f)
    BY <1>2 DEF Rank
  <2>3. \A n \in 1..Len(scan.found) : Rank(scan.found[n].file)' = Rank(scan.found[n].file)
    BY <1>2, <2>1 DEF Rank
  <2> QED BY <1>2, <2>1, <2>2, <2>3, SkillsState
<1>6. ASSUME NEW f \in 1..Files, NEW rule \in held'[f], Holds(f, rule)' PROVE f \in scan'.left \/ Listed(scan.found, f)'
  <2>1. Holds(f, rule) /\ rule \in held[f] /\ file[f] = rule
    BY <1>1, <1>6, SkillsState DEF Holds
  <2>2. f \notin scan.first \/ Listed(scan.found, f)
    BY <1>1, <2>1 DEF SkillsInv, ScanFits
  <2>3. CASE f \notin scan.first
    BY <1>2, <2>1, <2>3 DEF Holds, IsRule
  <2>4. CASE Listed(scan.found, f)
    BY <1>2, <2>4 DEF Listed
  <2> QED BY <2>2, <2>3, <2>4
<1>7. ScanFits'
  BY <1>2, <1>4, <1>5, <1>6 DEF ScanFits
<1> QED BY <1>1, <1>2, <1>3, <1>7 DEF SkillsInv, SkillsFit, PromptFits, RulesAreTold

\* The next file is read: a rule is found, or the file is noted as failed.
LEMMA ReadSkillKeeps == ASSUME SkillsInv, ReadSkill PROVE SkillsInv'
<1> DEFINE f == Min(scan.left)
           row == [file |-> f, rule |-> file[f]]
           rows == IF IsRule(file[f]) THEN Append(scan.found, row) ELSE scan.found
           fails == IF Unloadable(f) THEN scan.failed \union {f} ELSE scan.failed
<1>1. /\ scan.on /\ scan.left # {}
      /\ scan' = [scan EXCEPT !.left = scan.left \ {f}, !.found = rows, !.failed = fails]
      /\ file' = file /\ held' = held /\ skills' = skills /\ prompt' = prompt
  BY DEF ReadSkill, Loads, SkillsInv, SkillsTyped
<1>2. scan'.on = TRUE /\ scan'.listed = scan.listed /\ scan'.left = scan.left \ {f} /\ scan'.found = rows
      /\ scan'.failed = fails /\ scan'.first = scan.first
  BY <1>1 DEF SkillsInv, SkillsTyped
<1>3. f \in scan.left /\ (\A g \in scan.left : f <= g) /\ f \in 1..Files
  <2>1. scan.left \subseteq Nat /\ scan.left \subseteq 1..Files
    BY SkillsState
  <2> QED BY <1>1, <2>1, LeastIsMin
<1> HIDE DEF f
<1>4. row \in SkillRow /\ row.file = f /\ row.rule = file[f]
  BY <1>3, SkillsState DEF SkillRow
<1> HIDE DEF row
<1>5. /\ rows \in Seq(SkillRow) /\ Len(rows) \in Nat
      /\ \A n \in 1..Len(scan.found) : n \in 1..Len(rows) /\ rows[n] = scan.found[n]
      /\ \A n \in 1..Len(rows) : n \in 1..Len(scan.found) \/ (n = Len(scan.found) + 1 /\ rows[n] = row /\ IsRule(file[f]))
      /\ IsRule(file[f]) => \E n \in 1..Len(rows) : rows[n] = row
  <2>1. scan.found \in Seq(SkillRow) /\ Len(scan.found) \in Nat
    BY SkillsState
  <2>2. CASE ~IsRule(file[f])
    BY <2>1, <2>2
  <2>3. CASE IsRule(file[f])
    <3>1. /\ rows \in Seq(SkillRow) /\ Len(rows) = Len(scan.found) + 1 /\ rows[Len(scan.found) + 1] = row
          /\ \A n \in 1..Len(scan.found) : rows[n] = scan.found[n]
      BY <1>4, <2>1, <2>3, AppendProperties
    <3> HIDE DEF rows
    <3>2. Len(scan.found) + 1 \in 1..Len(rows)
      BY <2>1, <3>1
    <3> QED BY <2>1, <2>3, <3>1, <3>2
  <2> QED BY <2>2, <2>3
<1>6. fails \subseteq 1..Files
  BY <1>3, SkillsState
<1> HIDE DEF rows, fails
<1>7. SkillsTyped'
  BY <1>1, <1>5, <1>6 DEF SkillsInv, SkillsTyped
<1>8. /\ RowsFit(scan.found)
      /\ \A n \in 1..Len(scan.found) : \A g \in scan.left : Rank(scan.found[n].file) < Rank(g)
      /\ ~scan.listed => scan.left \subseteq scan.first /\ \A n \in 1..Len(scan.found) : scan.found[n].file \in scan.first
      /\ scan.listed => scan.left \intersect scan.first = {}
      /\ \A g \in 1..Files : \A rule \in held[g] : Holds(g, rule) =>
           \/ g \in scan.left \/ (~scan.listed /\ g \notin scan.first) \/ Listed(scan.found, g)
  BY <1>1 DEF SkillsInv, ScanFits
<1>9. RowsFit(rows)
  <2>1. \A n \in 1..Len(rows) : rows[n].rule \in held[rows[n].file] /\ IsRule(rows[n].rule)
    BY <1>3, <1>4, <1>5, <1>8, SkillsState DEF RowsFit
  <2>2. ASSUME NEW m \in 1..Len(rows), NEW n \in 1..Len(rows), m < n PROVE Rank(rows[m].file) < Rank(rows[n].file)
    <3>1. m \in 1..Len(scan.found) /\ rows[m] = scan.found[m]
      <4>1. Len(scan.found) \in Nat /\ Len(rows) \in Nat /\ (n \in 1..Len(scan.found) \/ n = Len(scan.found) + 1)
        BY <1>5, SkillsState
      <4>2. m \in 1..Len(scan.found)
        BY ONLY <2>2, <4>1
      <4> QED BY <1>5, <4>2
    <3>2. CASE n \in 1..Len(scan.found)
      BY <1>5, <1>8, <2>2, <3>1, <3>2 DEF RowsFit
    <3>3. CASE rows[n] = row
      BY <1>3, <1>4, <1>8, <3>1, <3>3
    <3> QED BY <1>5, <3>2, <3>3
  <2> QED BY <1>5, <2>1, <2>2 DEF RowsFit
<1>10. RowsFit(scan.found)'
  BY <1>1, <1>2, <1>9 DEF RowsFit, Rank
<1>11. ASSUME NEW n \in 1..Len(rows), NEW g \in scan.left \ {f} PROVE Rank(rows[n].file) < Rank(g)
  <2>1. f < g
    <3>1. f \in Int /\ g \in Int /\ f <= g /\ f # g
      BY <1>3, SkillsState
    <3> QED BY ONLY <3>1
  <2>2. Rank(f) < Rank(g)
    <3>1. f \in scan.first <=> g \in scan.first
      BY <1>3, <1>8, SkillsState
    <3>2. f \in Int /\ g \in Int /\ Files \in Nat
      BY <1>3, SkillsState
    <3> QED BY <2>1, <3>1, <3>2 DEF Rank
  <2> QED BY <1>4, <1>5, <1>8, <2>2
<1>12. ~scan.listed => \A n \in 1..Len(rows) : rows[n].file \in scan.first
  BY <1>3, <1>4, <1>5, <1>8
<1>13. ASSUME NEW g \in 1..Files, NEW rule \in held[g], Holds(g, rule)
       PROVE  g \in scan.left \ {f} \/ (~scan.listed /\ g \notin scan.first) \/ \E n \in 1..Len(rows) : rows[n].file = g
  <2>1. CASE g = f
    <3>1. IsRule(file[f])
      BY <1>13, <2>1, SkillsState DEF Holds
    <3> QED BY <1>4, <1>5, <2>1, <3>1
  <2>2. CASE Listed(scan.found, g)
    BY <1>5, <2>2 DEF Listed
  <2> QED BY <1>8, <1>13, <2>1, <2>2
<1>14. \A g \in 1..Files : \A rule \in held'[g] : Holds(g, rule)' =>
         \/ g \in scan'.left \/ (~scan'.listed /\ g \notin scan'.first) \/ Listed(scan.found, g)'
  BY <1>1, <1>2, <1>13 DEF Holds, Listed
<1>15. ScanFits'
  <2>1. \A n \in 1..Len(scan'.found) : \A g \in scan'.left : Rank(scan.found[n].file)' < Rank(g)'
    BY <1>2, <1>11 DEF Rank
  <2>3. scan'.listed => scan'.left \intersect scan'.first = {}
    BY <1>2, <1>8
  <2>2. ~scan'.listed => scan'.left \subseteq scan'.first /\ \A n \in 1..Len(scan'.found) : scan'.found[n].file \in scan'.first
    BY <1>2, <1>8, <1>12
  <2> QED BY <1>10, <1>14, <2>1, <2>2, <2>3 DEF ScanFits
<1> QED BY <1>1, <1>2, <1>7, <1>15 DEF SkillsInv, SkillsFit, PromptFits, RulesAreTold

\* What was found is loaded.
LEMMA EndScanKeeps == ASSUME SkillsInv, EndScan PROVE SkillsInv'
<1>1. /\ scan.on /\ scan.left = {} /\ scan.listed /\ skills' = scan.found
      /\ scan' = [on |-> FALSE, first |-> scan.first, listed |-> FALSE, left |-> {}, found |-> <<>>, failed |-> {}]
      /\ file' = file /\ held' = held /\ prompt' = prompt
  BY DEF EndScan, NoScan
<1>2. SkillsTyped'
  BY <1>1 DEF SkillsInv, SkillsTyped
<1>3. RowsFit(scan.found) /\ \A f \in 1..Files : \A rule \in held[f] : Holds(f, rule) => Listed(scan.found, f)
  BY <1>1 DEF SkillsInv, ScanFits
<1>4. RowsFit(skills)' /\ \A f \in 1..Files : \A rule \in held'[f] : Holds(f, rule)' => Listed(skills, f)'
  BY <1>1, <1>3 DEF RowsFit, Holds, Listed, Rank
<1>5. ~prompt'.asked
  BY <1>1 DEF SkillsInv, PromptFits
<1> QED BY <1>1, <1>2, <1>4, <1>5 DEF SkillsInv, ScanFits, SkillsFit, PromptFits, RulesAreTold

\* A request is told the rules that concern it.
LEMMA BuildPromptKeeps == ASSUME SkillsInv, NEW who \in AgentTypes, NEW says \in SUBSET Words, BuildPrompt(who, says) PROVE SkillsInv'
<1> DEFINE acc == AfterSkill(who, says)[Len(skills)]
           told == acc.told
<1>1. /\ ~scan.on /\ prompt' = [asked |-> TRUE, told |-> told, agent |-> who, says |-> says]
      /\ file' = file /\ held' = held /\ skills' = skills /\ scan' = scan
  BY DEF BuildPrompt, PromptFor
<1>2. RowsFit(skills) /\ \A f \in 1..Files : \A rule \in held[f] : Holds(f, rule) => Listed(skills, f)
  BY <1>1 DEF SkillsInv, SkillsFit
<1>3. RightlyTold(acc, Len(skills), who, says)
  BY <1>2, AllSkills
<1>4. SkillsTyped' /\ ScanFits' /\ SkillsFit'
  BY <1>1, <1>2 DEF SkillsInv, SkillsTyped, ScanFits, SkillsFit, RowsFit, Holds, Listed, Rank
<1> HIDE DEF acc
<1>5. /\ told \in Seq(Block) /\ acc.left \in Int /\ acc.left >= -Dots
      /\ acc.left = Budget - End(told, Len(told))
      /\ \A i \in 1..Len(told) :
           /\ told[i].rule \in held[told[i].file]
           /\ told[i].size # SkillBlock(told[i].rule) => i = Len(told) /\ told[i].size < SkillBlock(told[i].rule) + Dots
           /\ told[i].from = End(told, i - 1)
      /\ \A i, j \in 1..Len(told) : i < j => Rank(told[i].file) < Rank(told[j].file)
  BY <1>3 DEF RightlyTold
<1>6. \A m \in 1..Len(skills) : Matches(skills[m].rule, who, says) =>
       \/ Listed(told, skills[m].file)
       \/ told # <<>> /\ acc.left <= 0 /\ Rank(told[Len(told)].file) < Rank(skills[m].file)
  BY <1>3 DEF RightlyTold
<1>7. DOMAIN told = 1..Len(told) /\ Len(told) \in Nat
  BY <1>5
<1>8. End(told, Len(told)) \in Int
  <2>1. CASE Len(told) = 0
    BY <2>1 DEF End
  <2>2. CASE Len(told) # 0
    <3>1. told[Len(told)] \in Block
      BY <1>5, <1>7, <2>2
    <3> QED BY <2>2, <3>1 DEF End, Block
  <2> QED BY <2>1, <2>2
<1>9. Budget \in Int /\ Dots \in Int
  BY SkillAssumption
<1>10. /\ End(told, Len(told)) <= Budget + Dots
       /\ acc.left <= 0 => End(told, Len(told)) >= Budget
  <2> DEFINE end == End(told, Len(told))
             left == acc.left
  <2>1. end \in Int /\ left \in Int /\ left >= -Dots /\ left = Budget - end
    BY <1>5, <1>8
  <2> HIDE DEF end, left
  <2>2. end <= Budget + Dots /\ (left <= 0 => end >= Budget)
    BY ONLY <1>9, <2>1
  <2> QED BY <2>2 DEF end, left
<1>11. ASSUME NEW f \in 1..Files, NEW rule \in held[f], held[f] = {rule}, IsRule(rule), Matches(rule, who, says)
       PROVE  \/ \E n \in DOMAIN told : told[n].file = f
              \/ told # <<>> /\ End(told, Len(told)) >= Budget /\ Rank(told[Len(told)].file) < Rank(f)
  <2>1. PICK m \in 1..Len(skills) : skills[m].file = f
    BY <1>2, <1>11 DEF Holds, Listed
  <2>2. skills[m].rule = rule
    <3>1. skills[m].rule \in held[f]
      BY <1>2, <2>1 DEF RowsFit
    <3> QED BY <1>11, <3>1
  <2>3. \/ Listed(told, f)
        \/ told # <<>> /\ acc.left <= 0 /\ Rank(told[Len(told)].file) < Rank(f)
    BY <1>6, <1>11, <2>1, <2>2
  <2>4. CASE Listed(told, f)
    BY <1>7, <2>4 DEF Listed
  <2> QED BY <1>10, <2>3, <2>4
<1> HIDE DEF told
<1>12. prompt'.asked = TRUE /\ prompt'.told = told /\ prompt'.agent = who /\ prompt'.says = says
  BY <1>1
<1>13. \A n \in DOMAIN told :
         /\ told[n].rule \in held[told[n].file]
         /\ told[n].size # SkillBlock(told[n].rule) => n = Len(told) /\ told[n].size < SkillBlock(told[n].rule) + Dots
         /\ told[n].from = End(told, n - 1)
  BY <1>5, <1>7
<1>14. \A m, n \in DOMAIN told : m < n => Rank(told[m].file) < Rank(told[n].file)
  BY <1>5, <1>7
<1>15. RulesAreTold'
  <2>1. prompt' = [asked |-> TRUE, told |-> told, agent |-> who, says |-> says] /\ held' = held /\ scan' = scan
    BY <1>1
  <2> QED BY <1>10, <1>11, <1>12, <1>13, <1>14, <2>1 DEF RulesAreTold, End, Rank
<1>16. PromptFits'
  BY <1>1, <1>12, <1>15 DEF PromptFits
<1> QED BY <1>4, <1>16 DEF SkillsInv

\* The operator writes a file.
LEMMA EditSkillKeeps == ASSUME SkillsInv, NEW e \in 1..Files, NEW draft \in Drafts, EditSkill(e, draft) PROVE SkillsInv'
<1>1. /\ draft # file[e] /\ file' = [file EXCEPT ![e] = draft] /\ held' = [held EXCEPT ![e] = @ \union {draft}]
      /\ prompt' = [prompt EXCEPT !.asked = FALSE, !.told = <<>>] /\ scan' = scan /\ skills' = skills
  BY DEF EditSkill
<1>2. \A f \in 1..Files : /\ file'[f] = (IF f = e THEN draft ELSE file[f])
                          /\ held'[f] = (IF f = e THEN held[e] \union {draft} ELSE held[f])
                          /\ file[f] \in held[f] /\ held[f] \subseteq Drafts
  BY <1>1, SkillsState
<1>3. SkillsTyped'
  BY <1>1, <1>2, SkillsState DEF SkillsInv, SkillsTyped
<1>4. \A row \in SkillRow : row.file \in 1..Files
  BY DEF SkillRow
<1>5. \A f \in 1..Files : \A rule \in held'[f] : Holds(f, rule)' => Holds(f, rule) /\ rule \in held[f]
  BY <1>1, <1>2 DEF Holds
<1>6. ASSUME RowsFit(scan.found) PROVE RowsFit(scan.found)'
  BY <1>1, <1>2, <1>4, <1>6 DEF RowsFit, Rank
<1>7. ASSUME RowsFit(skills) PROVE RowsFit(skills)'
  BY <1>1, <1>2, <1>4, <1>7 DEF RowsFit, Rank
<1>8. ScanFits'
  BY <1>1, <1>5, <1>6 DEF SkillsInv, ScanFits, Listed, Rank
<1>9. SkillsFit'
  BY <1>1, <1>5, <1>7 DEF SkillsInv, SkillsFit, Listed
<1>10. prompt'.asked = FALSE
  BY <1>1
<1> QED BY <1>3, <1>8, <1>9, <1>10 DEF SkillsInv, PromptFits, RulesAreTold

\* Every step of a scan, a request or the operator keeps what is loaded in order.
LEMMA SkillsInvStays == SkillsInv /\ [SkillsNext]_skillVars => SkillsInv'
<1> SUFFICES ASSUME SkillsInv, [SkillsNext]_skillVars PROVE SkillsInv'
  OBVIOUS
<1>1. CASE Reload
  BY <1>1, ReloadKeeps
<1>2. CASE ListOthers
  BY <1>2, ListOthersKeeps
<1>3. CASE ReadSkill
  BY <1>3, ReadSkillKeeps
<1>4. CASE EndScan
  BY <1>4, EndScanKeeps
<1>5. CASE \E who \in AgentTypes, says \in SUBSET Words : BuildPrompt(who, says)
  BY <1>5, BuildPromptKeeps
<1>6. CASE \E f \in 1..Files, draft \in Drafts : EditSkill(f, draft)
  BY <1>6, EditSkillKeeps
<1>7. CASE UNCHANGED skillVars
  BY <1>7 DEF skillVars, SkillsInv, SkillsTyped, ScanFits, SkillsFit, PromptFits, RulesAreTold, RowsFit, Holds, Listed, Rank
<1> QED BY <1>1, <1>2, <1>3, <1>4, <1>5, <1>6, <1>7 DEF SkillsNext

\* What is loaded and told is in order at all times.
LEMMA SkillsInvHolds == SkillsSpec => []SkillsInv
BY SkillsInvStarts, SkillsInvStays, PTL DEF SkillsSpec

\* What an agent is told are the rules that concern it, for any files, edits, and lengths of
\* the rules and of the prompt (SkillManager.load and prompt_for).
THEOREM RulesReachTheAgents == SkillsSpec => []RulesAreTold
<1>1. SkillsInv => RulesAreTold
  BY DEF SkillsInv, PromptFits
<1> QED BY <1>1, SkillsInvHolds, PTL
=============================================================================
