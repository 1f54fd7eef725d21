------------------------- MODULE PaidExperiment_proofs -------------------------
(* Proofs about PaidExperiment: no call is paid twice, the budgets hold but for what runs *)
(* at the same time, and a row that succeeded has received what it rests on, for any      *)
(* number of rows, runners and starts and for every kind of experiment.                   *)
(*   What an arm has read is known exactly: a row of this run that keeps its reading, or one *)
(* of an earlier run whose first row in the trace read, and nothing else.                 *)
(*   A receipt has one owner while its call is under way. The budget of calls is kept by  *)
(* counting who is about to create a receipt. The budget of money only counts calls that  *)
(* succeeded; what bounds the others is that a call nobody knows the end of is in the way *)
(* of whoever starts again: until there is a trace all of them belong to one row, and     *)
(* from then on nobody starts again.                                                      *)
EXTENDS PaidExperiment, WellFoundedInduction, SequenceTheorems, FiniteSetTheorems, TLAPS

\* The rows, what a runner may be about, and the rows of the trace.
Listed == ToSet(Rows)
CallStages == {"route", "read", "answer"}
Owning == {"posting", "saving", "saved", "refused"}
RunnerState ==
  [at : {"off", "next", "calling", "creating"} \union Owning, row : 0..(Len(Rows) + 1), stage : CallStages,
   read : BOOLEAN, done : SUBSET Listed, earlier : SUBSET Listed, state : SUBSET Listed]
TraceRow == [row : Listed, status : {"succeeded", "failed"}, read : BOOLEAN]

PaidTyped ==
  /\ experiment \in Experiments
  /\ receipt \in [CallKeys -> {"absent", "submitting", "succeeded", "failed"}]
  /\ response \subseteq CallKeys /\ paid \in [CallKeys -> Nat]
  /\ saved \subseteq Setup /\ trace \in Seq(TraceRow)
  /\ runner \in [Runners -> RunnerState]
  /\ \A r \in Runners :
       /\ runner[r].at # "off" => runner[r].row >= 1
       /\ runner[r].at \notin {"off", "next"} => runner[r].row <= Len(Rows)

\* What the runners that estimate their costs have in common.
LEMMA RulesFit ==
  ASSUME experiment \in Experiments
  PROVE  /\ Rules.stages \subseteq {"route", "read", "answer"} /\ Rules.stages # {}
         /\ Rules.lenientSetup \in BOOLEAN /\ Rules.lenient \in BOOLEAN /\ Rules.overspends \in BOOLEAN
         /\ Rules.capped => /\ ~Rules.resumes /\ ~Rules.reuses /\ ~Rules.overspends
                            /\ Rules.rowReplays = "stops"
         /\ Rules.caches => Rules.keeps /\ "route" \notin Rules.stages
<1>1. CASE experiment = "observation"
  BY <1>1 DEF Rules, Observation
<1>2. CASE experiment = "effect"
  BY <1>2 DEF Rules, Effect, Observation
<1>3. CASE experiment = "fix"
  BY <1>3 DEF Rules, FixV3, Observation
<1>4. CASE experiment = "e3"
  BY <1>4 DEF Rules, E3, E4, FixV3, Observation
<1>5. CASE experiment = "e4"
  BY <1>5 DEF Rules, E4, FixV3, Observation
<1>6. CASE experiment = "bracelets"
  BY <1>6 DEF Rules, Bracelets, FixV3, Observation
<1>7. CASE experiment = "links"
  BY <1>7 DEF Rules, Links, Bracelets, FixV3, Observation
<1>8. CASE experiment = "evidence"
  BY <1>8 DEF Rules, Evidence, Links, Bracelets, FixV3, Observation
<1> QED BY <1>1, <1>2, <1>3, <1>4, <1>5, <1>6, <1>7, <1>8, PaidAssumption

\* The rows have places, and a runner that works is at one of them.
LEMMA RowsHavePlaces ==
  /\ Len(Rows) \in Nat /\ DOMAIN Rows = 1..Len(Rows)
  /\ \A x : x \in Listed <=> \E i \in 1..Len(Rows) : Rows[i] = x
  /\ Setup \subseteq Listed /\ Routed \subseteq Listed /\ Repeats \subseteq Routed \X Routed
  /\ \A i, j \in 1..Len(Rows) : Rows[i] = Rows[j] => i = j
BY PaidAssumption DEF ToSet, Listed

\* A runner that is at a row is at one of the rows, and its call has a key.
LEMMA KeysFit ==
  ASSUME PaidTyped, NEW r \in Runners, runner[r].at \notin {"off", "next"}
  PROVE  /\ CurrentRow(r) \in Listed /\ runner[r].row \in 1..Len(Rows)
         /\ CurrentKey(r) = <<CurrentRow(r), runner[r].stage>> /\ CurrentKey(r) \in CallKeys
<1>1. runner[r] \in RunnerState /\ runner[r].row >= 1 /\ runner[r].row <= Len(Rows)
  <2>1. runner[r].at # "off"
    OBVIOUS
  <2> QED BY <2>1 DEF PaidTyped
<1>2. runner[r].row \in 1..Len(Rows)
  BY <1>1, RowsHavePlaces DEF RunnerState
<1> QED BY <1>1, <1>2, RowsHavePlaces DEF CurrentRow, CurrentKey, CallKeys, RunnerState, CallStages, Listed

--------------------------------------------------------------------------------
\* The steps of a runner, as far as the promises tell them apart. All others keep what they do.
Alone(r) == runner' \in [Runners -> RunnerState] /\ \A q \in Runners \ {r} : runner'[q] = runner[q]
FilesKept == UNCHANGED <<filed, saved, trace>>

Started(r) ==
  /\ Alone(r) /\ FilesKept /\ runner[r].at = "off" /\ (Rules.resumes \/ trace = <<>>)
  /\ runner'[r].at = "next" /\ runner'[r].row = 1 /\ runner'[r].state = {}
  /\ runner'[r].earlier = {t.row : t \in ToSet(trace)}
  /\ runner'[r].done = runner'[r].earlier \union (IF Rules.reuses THEN saved ELSE {})
Skipped(r) ==
  /\ Alone(r) /\ FilesKept /\ runner[r].at = "next" /\ runner[r].row \in 1..Len(Rows)
  /\ CurrentRow(r) \in runner[r].done
  /\ runner'[r].at = "next" /\ runner'[r].row = runner[r].row + 1 /\ runner'[r].done = runner[r].done
  /\ runner'[r].earlier = runner[r].earlier
  /\ runner'[r].state = runner[r].state \union Recovered(CurrentRow(r))
Begun(r) ==
  /\ Alone(r) /\ FilesKept /\ runner[r].at = "next" /\ runner[r].row \in 1..Len(Rows)
  /\ runner'[r].stage \in FirstStages(r, CurrentRow(r)) /\ ~runner'[r].read
  /\ CurrentRow(r) \notin runner[r].done
  /\ runner'[r].at = "calling" /\ runner'[r].row = runner[r].row /\ runner'[r].earlier = runner[r].earlier
  /\ runner'[r].done = runner[r].done /\ runner'[r].state = runner[r].state
Stopped(r) == Alone(r) /\ FilesKept /\ runner[r].at # "off" /\ runner'[r] = Off

\* A call goes on, and is for the same row and stage.
SameCall(r) ==
  /\ Alone(r) /\ runner'[r].row = runner[r].row /\ runner'[r].stage = runner[r].stage
  /\ runner'[r].read = runner[r].read /\ runner'[r].earlier = runner[r].earlier
  /\ runner'[r].done = runner[r].done /\ runner'[r].state = runner[r].state
  /\ UNCHANGED <<experiment, saved, trace>>
Asked(r) ==
  /\ SameCall(r) /\ UNCHANGED filed /\ runner[r].at = "calling" /\ runner'[r].at = "creating"
  /\ receipt[CurrentKey(r)] = "absent" /\ Receipts < MaxCalls /\ Affordable
Created(r) ==
  /\ SameCall(r) /\ UNCHANGED <<response, paid>> /\ runner[r].at = "creating" /\ runner'[r].at = "posting"
  /\ receipt[CurrentKey(r)] = "absent" /\ receipt' = [receipt EXCEPT ![CurrentKey(r)] = "submitting"]
Posted(r) ==
  /\ SameCall(r) /\ UNCHANGED <<receipt, response>> /\ runner[r].at = "posting"
  /\ runner'[r].at \in {"saving", "refused"} /\ paid' = [paid EXCEPT ![CurrentKey(r)] = @ + 1]
Received(r) ==
  /\ SameCall(r) /\ UNCHANGED <<receipt, paid>> /\ runner[r].at = "saving" /\ runner'[r].at = "saved"
  /\ response' = response \union {CurrentKey(r)}

\* A response is used, fresh or replayed: the row goes on with its next call.
Settled(r) == receipt' = [receipt EXCEPT ![CurrentKey(r)] = "succeeded"]
Proceeded(r) ==
  /\ Alone(r) /\ UNCHANGED <<experiment, response, paid, saved, trace>> /\ Settled(r)
  /\ runner[r].at = "calling" => receipt[CurrentKey(r)] = "succeeded"
  /\ runner[r].at \in {"calling", "saved"} /\ runner'[r].at = "calling"
  /\ \/ runner[r].stage = "route" /\ runner'[r].stage \in {"read", "answer"} /\ ~runner'[r].read
     \/ runner[r].stage = "read" /\ runner'[r].stage = "answer" /\ runner'[r].read
  /\ runner'[r].row = runner[r].row /\ runner'[r].earlier = runner[r].earlier
  /\ runner'[r].done = runner[r].done /\ runner'[r].state = runner[r].state

\* What the arm keeps of a row that ends.
KeptOf(r, status) ==
  IF CurrentRow(r) \in Routed /\ runner[r].read /\ (status = "succeeded" \/ Rules.keeps) THEN {CurrentRow(r)}
  ELSE {}
\* A row ends, and the run goes on with the next one or stops.
Ends(r, status, goesOn) ==
  LET x == CurrentRow(r) IN
  /\ Alone(r)
  /\ goesOn => /\ runner'[r].at = "next" /\ runner'[r].row = runner[r].row + 1
               /\ runner'[r].done = runner[r].done \union {x} /\ runner'[r].earlier = runner[r].earlier
               /\ runner'[r].state = runner[r].state \union KeptOf(r, status)
  /\ ~goesOn => runner'[r] = Off
  /\ x \in Setup => trace' = trace /\ saved' \subseteq Setup
  /\ x \notin Setup => /\ saved' = saved /\ trace' \in Seq(TraceRow)
                       /\ trace' = Append(trace, [row |-> x, status |-> status, read |-> runner[r].read])
Ended(r, status, goesOn) ==
  LET k == CurrentKey(r) IN
  /\ Ends(r, status, goesOn) /\ UNCHANGED <<experiment, response, paid>>
  /\ runner[r].at \notin {"off", "next", "posting", "saving"}
  /\ \/ runner[r].at \in {"calling", "creating"} /\ receipt' = receipt
     \/ runner[r].at = "saved" /\ Settled(r)
     \/ runner[r].at = "refused" /\ receipt' = [receipt EXCEPT ![k] = "failed"]
  /\ status = "succeeded" => runner[r].stage = "answer" /\ receipt'[k] = "succeeded"
  /\ Rules.capped /\ goesOn => receipt'[k] = "succeeded" /\ (CurrentRow(r) \in Setup \/ runner[r].at = "saved")

StepOf(r) ==
  \/ Started(r) \/ Skipped(r) \/ Begun(r) \/ Stopped(r)
  \/ Asked(r) \/ Created(r) \/ Posted(r) \/ Received(r) \/ Proceeded(r)
  \/ \E status \in {"succeeded", "failed"}, goesOn \in BOOLEAN : Ended(r, status, goesOn)

\* What the end of a row changes.
LEMMA RowEnds ==
  ASSUME PaidTyped, NEW r \in Runners, runner[r].at \notin {"off", "next"},
         NEW status \in {"succeeded", "failed"}, NEW goesOn, EndRow(r, status, goesOn)
  PROVE  Ends(r, status, goesOn)
<1> DEFINE x == CurrentRow(r)
           read == runner[r].read
           kept == IF x \in Routed /\ read /\ (status = "succeeded" \/ Rules.keeps) THEN {x} ELSE {}
           old == runner[r]
           on == [old EXCEPT !.at = "next", !.row = old.row + 1, !.done = old.done \union {x},
                         !.state = old.state \union kept]
           file == IF x \in Setup
                   THEN saved' = (IF goesOn THEN saved \union {x} ELSE saved) /\ UNCHANGED trace
                   ELSE trace' = Append(trace, [row |-> x, status |-> status, read |-> read]) /\ UNCHANGED saved
           t == [row |-> x, status |-> status, read |-> read]
<1>1. old \in RunnerState /\ x \in Listed /\ old.row \in 1..Len(Rows) /\ Len(Rows) \in Nat
  BY KeysFit, RowsHavePlaces DEF PaidTyped
<1>2. kept \subseteq {x} /\ kept = KeptOf(r, status)
  BY DEF KeptOf
<1>3. /\ runner' = [runner EXCEPT ![r] = IF goesOn THEN on ELSE Off]
      /\ x \in Setup => saved' = (IF goesOn THEN saved \union {x} ELSE saved) /\ trace' = trace
      /\ x \notin Setup => trace' = Append(trace, t) /\ saved' = saved
  <2>1. runner' = [runner EXCEPT ![r] = IF goesOn THEN on ELSE Off]
    BY DEF EndRow
  <2>2. file
    BY DEF EndRow
  <2> QED BY <2>1, <2>2
<1>4. t \in TraceRow
  BY <1>1 DEF TraceRow, RunnerState
<1> HIDE DEF kept, x, old, t, read
<1>5. /\ on \in RunnerState /\ on.at = "next" /\ on.row = old.row + 1 /\ on.done = old.done \union {x}
      /\ on.state = old.state \union kept /\ on.earlier = old.earlier
  <2>1. old.row + 1 \in 0..(Len(Rows) + 1) /\ old.done \union {x} \in SUBSET Listed
        /\ old.state \union kept \in SUBSET Listed
    BY <1>1, <1>2 DEF RunnerState
  <2> QED BY <1>1, <2>1 DEF RunnerState
<1>6. Off \in RunnerState
  BY <1>1 DEF Off, RunnerState, CallStages
<1> HIDE DEF on, old, x, t, read
<1>7. runner \in [Runners -> RunnerState] /\ trace \in Seq(TraceRow) /\ saved \subseteq Setup
  BY DEF PaidTyped
<1>8. Alone(r) /\ (goesOn => runner'[r] = on) /\ (~goesOn => runner'[r] = Off)
  BY <1>3, <1>5, <1>6, <1>7 DEF Alone
<1>9. x \notin Setup => trace' \in Seq(TraceRow)
  BY <1>3, <1>4, <1>7, AppendProperties
<1> QED BY <1>2, <1>3, <1>5, <1>7, <1>8, <1>9 DEF Ends, x, t, old, read

\* What changes when a runner begins a call.
LEMMA CallGoes ==
  ASSUME PaidTyped, NEW r \in Runners, NEW to \in {"calling", "creating"}, NEW stage \in CallStages,
         NEW read \in BOOLEAN, RunnerGoes(r, to, stage, read)
  PROVE  /\ Alone(r) /\ UNCHANGED <<saved, trace>>
         /\ runner'[r].at = to /\ runner'[r].stage = stage /\ runner'[r].read = read
         /\ runner'[r].row = runner[r].row /\ runner'[r].done = runner[r].done
         /\ runner'[r].state = runner[r].state /\ runner'[r].earlier = runner[r].earlier
<1> DEFINE new == [runner[r] EXCEPT !.at = to, !.stage = stage, !.read = read]
<1>1. runner \in [Runners -> RunnerState] /\ runner[r] \in RunnerState
  BY DEF PaidTyped
<1>2. new \in RunnerState /\ runner' = [runner EXCEPT ![r] = new]
  BY <1>1 DEF RunnerGoes, RunnerState
<1>3. runner'[r] = new /\ Alone(r)
  BY <1>1, <1>2 DEF Alone
<1> QED BY <1>1, <1>3 DEF RunnerGoes, RunnerState

\* A runner that goes on with its call keeps its row and its stage.
LEMMA CallStays ==
  ASSUME PaidTyped, NEW r \in Runners, NEW to \in Owning, RunnerAt(r, to), UNCHANGED <<experiment, saved, trace>>
  PROVE  SameCall(r) /\ runner'[r].at = to
<1> DEFINE new == [runner[r] EXCEPT !.at = to]
<1>1. runner \in [Runners -> RunnerState] /\ runner[r] \in RunnerState
  BY DEF PaidTyped
<1>2. new \in RunnerState /\ runner' = [runner EXCEPT ![r] = new]
  BY <1>1 DEF RunnerAt, RunnerState
<1>3. runner'[r] = new /\ Alone(r)
  BY <1>1, <1>2 DEF Alone
<1> QED BY <1>1, <1>3 DEF SameCall, RunnerState

\* A response that is used leads on, or ends the row.
LEMMA ResponseLeads ==
  ASSUME PaidTyped, NEW r \in Runners, runner[r].at \in {"calling", "saved"}, UsesResponse(r), Settled(r),
         runner[r].at = "calling" => receipt[CurrentKey(r)] = "succeeded" /\ AcceptsReplay(r),
         UNCHANGED <<experiment, response, paid>>
  PROVE  \/ Proceeded(r)
         \/ \E status \in {"succeeded", "failed"}, goesOn \in BOOLEAN : Ended(r, status, goesOn)
<1> DEFINE k == CurrentKey(r)
           inSetup == CurrentRow(r) \in Setup
           lenient == IF inSetup THEN Rules.lenientSetup ELSE Rules.lenient
<1>1. k \in CallKeys /\ runner[r] \in RunnerState /\ receipt \in [CallKeys -> {"absent", "submitting", "succeeded", "failed"}]
  BY KeysFit DEF PaidTyped
<1>2. receipt'[k] = "succeeded" /\ (runner[r].at = "calling" => receipt' = receipt)
  BY <1>1 DEF Settled
<1>3. Rules.capped /\ runner[r].at = "calling" => inSetup
  BY RulesFit DEF AcceptsReplay, PaidTyped
<1>4. ASSUME NEW stage \in {"read", "answer"}, runner[r].stage = "route", RunnerGoes(r, "calling", stage, FALSE)
      PROVE  Proceeded(r)
  BY <1>1, <1>4, CallGoes DEF Proceeded, CallStages
<1>5. ASSUME runner[r].stage = "read", RunnerGoes(r, "calling", "answer", TRUE)
      PROVE  Proceeded(r)
  BY <1>1, <1>5, CallGoes DEF Proceeded, CallStages
<1>6. ASSUME NEW status \in {"succeeded", "failed"}, NEW goesOn \in BOOLEAN, EndRow(r, status, goesOn),
             status = "succeeded" => runner[r].stage = "answer"
      PROVE  Ended(r, status, goesOn)
  BY <1>2, <1>3, <1>6, RowEnds DEF Ended
<1>7. CASE runner[r].stage = "answer" /\ EndRow(r, "succeeded", TRUE)
  BY <1>6, <1>7
<1>8. CASE EndRow(r, "failed", lenient)
  <2>1. lenient \in BOOLEAN
    BY RulesFit DEF PaidTyped
  <2> QED BY <1>6, <1>8, <2>1
<1> QED BY <1>4, <1>5, <1>7, <1>8 DEF UsesResponse

\* Every step is of one of those kinds.
LEMMA StepsAreKnown ==
  ASSUME PaidTyped, PaidNext
  PROVE  \E r \in Runners : StepOf(r)
<1> PICK r \in Runners : \/ StartRunner(r) \/ SkipRow(r) \/ BeginRow(r) \/ FinishRun(r) \/ LookUp(r)
                         \/ CreateReceipt(r) \/ Post(r) \/ SaveResponse(r) \/ SaveReceipt(r)
                         \/ CallFails(r) \/ Kill(r)
  BY DEF PaidNext
<1> DEFINE k == CurrentKey(r)
<1> SUFFICES StepOf(r) OBVIOUS
<1>1. /\ runner \in [Runners -> RunnerState] /\ runner[r] \in RunnerState
      /\ receipt \in [CallKeys -> {"absent", "submitting", "succeeded", "failed"}]
      /\ Len(Rows) \in Nat /\ trace \in Seq(TraceRow) /\ saved \subseteq Listed
      /\ runner[r].at # "off" => runner[r].row >= 1
      /\ (runner[r].at \notin {"off", "next"} => k \in CallKeys)
  BY KeysFit, RowsHavePlaces DEF PaidTyped
<1>2. Off \in RunnerState
  BY <1>1 DEF Off, RunnerState, CallStages
<1>3. {t.row : t \in ToSet(trace)} \subseteq Listed
  <2>1. ASSUME NEW n \in DOMAIN trace PROVE trace[n].row \in Listed
    <3>1. trace[n] \in TraceRow
      BY <1>1
    <3> QED BY <3>1 DEF TraceRow
  <2> QED BY <2>1 DEF ToSet
<1>4. CASE StartRunner(r)
  <2> DEFINE earlier == {t.row : t \in ToSet(trace)}
             done == earlier \union (IF Rules.reuses THEN saved ELSE {})
             new == [Off EXCEPT !.at = "next", !.row = 1, !.earlier = earlier, !.done = done]
  <2>1. runner' = [runner EXCEPT ![r] = new] /\ FilesKept /\ runner[r].at = "off" /\ (Rules.resumes \/ trace = <<>>)
    BY <1>4 DEF StartRunner, FilesKept, Untouched
  <2>2. done \subseteq Listed /\ earlier \subseteq Listed
    BY <1>1, <1>3
  <2> HIDE DEF done, earlier
  <2>3. /\ new \in RunnerState /\ new.at = "next" /\ new.row = 1 /\ new.done = done /\ new.state = {}
        /\ new.earlier = earlier
    <3>1. 1 \in 0..(Len(Rows) + 1)
      BY <1>1
    <3>2. new \in RunnerState /\ new.at = "next" /\ new.row = 1 /\ new.done = done /\ new.earlier = earlier
      BY <1>2, <2>2, <3>1 DEF RunnerState
    <3> QED BY <3>2 DEF Off
  <2> HIDE DEF new
  <2>4. runner'[r] = new /\ Alone(r)
    BY <1>1, <2>1, <2>3 DEF Alone
  <2> QED BY <2>1, <2>3, <2>4 DEF Started, StepOf, done, earlier
<1>5. CASE SkipRow(r)
  <2> DEFINE x == CurrentRow(r)
             new == [runner[r] EXCEPT !.row = runner[r].row + 1, !.state = runner[r].state \union Recovered(x)]
  <2>1. /\ runner[r].at = "next" /\ runner[r].row \in 1..Len(Rows) /\ x \in runner[r].done /\ FilesKept
        /\ runner' = [runner EXCEPT ![r].row = @ + 1, ![r].state = @ \union Recovered(x)]
    BY <1>1, <1>5 DEF SkipRow, FilesKept, RunnerState
  <2>2. Recovered(x) \subseteq Listed
    BY RowsHavePlaces DEF Recovered
  <2> HIDE DEF x
  <2>3. new \in RunnerState /\ new.at = "next" /\ new.row = runner[r].row + 1 /\ new.done = runner[r].done
        /\ new.state = runner[r].state \union Recovered(x) /\ new.earlier = runner[r].earlier
    <3>1. runner[r].row + 1 \in 0..(Len(Rows) + 1)
      BY <1>1, <2>1
    <3>2. runner[r].state \union Recovered(x) \in SUBSET Listed
      BY <1>1, <2>2 DEF RunnerState
    <3> QED BY <1>1, <2>1, <3>1, <3>2 DEF RunnerState
  <2>4. runner' = [runner EXCEPT ![r] = new]
    BY <1>1, <2>1 DEF RunnerState
  <2> HIDE DEF new
  <2>5. runner'[r] = new /\ Alone(r)
    BY <1>1, <2>3, <2>4 DEF Alone
  <2> QED BY <2>1, <2>3, <2>5 DEF Skipped, StepOf, x
<1>6. CASE BeginRow(r)
  <2> DEFINE x == CurrentRow(r)
  <2>1. PICK stage \in FirstStages(r, x) :
          runner' = [runner EXCEPT ![r].at = "calling", ![r].stage = stage, ![r].read = FALSE]
    BY <1>6 DEF BeginRow
  <2>2. /\ runner[r].at = "next" /\ runner[r].row \in 1..Len(Rows) /\ FilesKept /\ x \notin runner[r].done
    <3>1. runner[r].at = "next" /\ runner[r].row <= Len(Rows) /\ x \notin runner[r].done /\ UNCHANGED <<filed, saved, trace>>
      BY <1>6 DEF BeginRow
    <3> QED BY <1>1, <3>1 DEF FilesKept, RunnerState
  <2>3. stage \in CallStages
    BY RulesFit DEF FirstStages, CallStages, PaidTyped
  <2> DEFINE new == [runner[r] EXCEPT !.at = "calling", !.stage = stage, !.read = FALSE]
  <2>4. new \in RunnerState /\ runner' = [runner EXCEPT ![r] = new]
    BY <1>1, <2>1, <2>3 DEF RunnerState
  <2>5. /\ new.at = "calling" /\ new.stage = stage /\ ~new.read /\ new.row = runner[r].row
        /\ new.done = runner[r].done /\ new.state = runner[r].state /\ new.earlier = runner[r].earlier
    BY <1>1 DEF RunnerState
  <2> HIDE DEF new
  <2>6. runner'[r] = new /\ Alone(r)
    BY <1>1, <2>4 DEF Alone
  <2> QED BY <2>2, <2>5, <2>6 DEF Begun, StepOf
<1>7. CASE FinishRun(r) \/ Kill(r)
  <2>1. runner' = [runner EXCEPT ![r] = Off] /\ FilesKept /\ runner[r].at # "off"
    BY <1>7 DEF FinishRun, Kill, FilesKept
  <2>2. runner'[r] = Off /\ Alone(r)
    BY <1>1, <1>2, <2>1 DEF Alone
  <2> QED BY <2>1, <2>2 DEF Stopped, StepOf
<1>8. CASE LookUp(r)
  <2> USE DEF filed
  <2>1. runner[r].at = "calling" /\ UNCHANGED filed /\ k \in CallKeys /\ receipt' = receipt
    BY <1>1, <1>8 DEF LookUp
  <2>2. ASSUME NEW goesOn \in BOOLEAN, Rules.capped => ~goesOn, EndRow(r, "failed", goesOn)
        PROVE  StepOf(r)
    BY <2>1, <2>2, RowEnds DEF Ended, StepOf
  <2>3. CASE ~Affordable
    BY <1>8, <2>2, <2>3 DEF LookUp, RunnerStops
  <2>4. CASE Affordable /\ receipt[k] = "absent"
    <3>1. IF Receipts < MaxCalls THEN RunnerGoes(r, "creating", runner[r].stage, runner[r].read)
          ELSE EndRow(r, "failed", Rules.overspends /\ CurrentRow(r) \notin Setup)
      BY <1>8, <2>4 DEF LookUp
    <3>2. CASE Receipts < MaxCalls
      <4>1. RunnerGoes(r, "creating", runner[r].stage, runner[r].read)
        BY <3>1, <3>2
      <4>2. Asked(r)
        BY <1>1, <2>1, <2>4, <3>2, <4>1, CallGoes DEF Asked, SameCall, RunnerState
      <4> QED BY <4>2 DEF StepOf
    <3>3. CASE ~(Receipts < MaxCalls)
      BY <2>2, <3>1, <3>3, RulesFit DEF PaidTyped
    <3> QED BY <3>2, <3>3
  <2>5. CASE Affordable /\ receipt[k] = "succeeded"
    <3>1. \/ RunnerStops(r)
          \/ IF AcceptsReplay(r) THEN UsesResponse(r)
             ELSE EndRow(r, "failed", Rules.rowReplays = "fails" /\ CurrentRow(r) \notin Setup)
      BY <1>8, <2>5 DEF LookUp
    <3>2. CASE AcceptsReplay(r) /\ UsesResponse(r)
      <4>1. Settled(r)
        BY <1>1, <2>1, <2>5 DEF Settled
      <4> QED BY <2>1, <2>5, <3>2, <4>1, ResponseLeads DEF StepOf
    <3>3. CASE ~AcceptsReplay(r) /\ EndRow(r, "failed", Rules.rowReplays = "fails" /\ CurrentRow(r) \notin Setup)
      BY <2>2, <3>3, RulesFit DEF PaidTyped
    <3>4. CASE RunnerStops(r)
      BY <2>2, <3>4 DEF RunnerStops
    <3> QED BY <3>1, <3>2, <3>3, <3>4
  <2>6. CASE Affordable /\ receipt[k] \in {"submitting", "failed"}
    BY <1>8, <2>2, <2>6 DEF LookUp, RunnerStops
  <2> QED BY <1>1, <2>1, <2>3, <2>4, <2>5, <2>6
<1>9. CASE CreateReceipt(r)
  <2>1. CASE Exclusive(k)
    BY <1>9, <2>1, CallStays DEF CreateReceipt, Created, StepOf, Exclusive, Owning
  <2>2. CASE ~Exclusive(k)
    <3>1. EndRow(r, "failed", FALSE) /\ receipt' = receipt /\ UNCHANGED <<experiment, response, paid>>
      BY <1>9, <2>2 DEF CreateReceipt, RunnerStops
    <3>2. runner[r].at = "creating"
      BY <1>9 DEF CreateReceipt
    <3> QED BY <3>1, <3>2, RowEnds DEF Ended, StepOf
  <2> QED BY <2>1, <2>2
<1>10. CASE Post(r)
  <2>1. PICK to \in {"saving", "refused"} : RunnerAt(r, to)
    BY <1>10 DEF Post
  <2>2. SameCall(r) /\ runner'[r].at = to
    BY <1>10, <2>1, CallStays DEF Post, Owning
  <2> QED BY <1>10, <2>2 DEF Post, Posted, StepOf
<1>11. CASE SaveResponse(r)
  BY <1>11, CallStays DEF SaveResponse, Received, StepOf, Owning
<1>12. CASE SaveReceipt(r)
  BY <1>12, ResponseLeads DEF SaveReceipt, Settled, StepOf
<1>13. CASE CallFails(r)
  <2>1. /\ EndRow(r, "failed", FALSE) /\ receipt' = [receipt EXCEPT ![k] = "failed"]
        /\ UNCHANGED <<experiment, response, paid>> /\ runner[r].at = "refused"
    BY <1>13 DEF CallFails, RunnerStops
  <2> QED BY <2>1, RowEnds DEF Ended, StepOf
<1> QED BY <1>4, <1>5, <1>6, <1>7, <1>8, <1>9, <1>10, <1>11, <1>12, <1>13

--------------------------------------------------------------------------------
\* The inductive invariant.

\* The arm of a row may decide whether to read the image, and its router is asked first.
HasRoute(x) == x \notin Setup /\ x \in Routed /\ "route" \in Rules.stages
Succeeded(x, stage) == receipt[<<x, stage>>] = "succeeded"

\* A call is paid under a receipt, which succeeds with a response, and only after the router
\* was asked.
ReceiptsFit ==
  /\ \A k \in CallKeys :
       paid[k] <= 1 /\ (receipt[k] = "absent" => paid[k] = 0) /\ (receipt[k] = "succeeded" => k \in response)
  /\ \A x \in Listed, stage \in CallStages : receipt[<<x, stage>>] # "absent" =>
       /\ x \in Setup => stage = "answer"
       /\ stage = "route" => HasRoute(x)
       /\ HasRoute(x) /\ stage # "route" => Succeeded(x, "route")

\* The receipt of a call that is under way has one owner.
CallsAreOwned ==
  /\ \A r \in Runners : runner[r].at \in Owning =>
       /\ receipt[CurrentKey(r)] = "submitting"
       /\ paid[CurrentKey(r)] = IF runner[r].at = "posting" THEN 0 ELSE 1
       /\ runner[r].at = "saved" => CurrentKey(r) \in response
  /\ \A q, r \in Runners :
       runner[q].at \in Owning /\ runner[r].at \in Owning /\ CurrentKey(q) = CurrentKey(r) => q = r

\* What a runner works at rests on what its row has received.
WorkFits == \A r \in Runners : runner[r].at \notin {"off", "next"} =>
  /\ CurrentRow(r) \in Setup => runner[r].stage = "answer"
  /\ runner[r].stage = "route" => HasRoute(CurrentRow(r))
  /\ HasRoute(CurrentRow(r)) /\ runner[r].stage # "route" => Succeeded(CurrentRow(r), "route")
  /\ runner[r].read => Succeeded(CurrentRow(r), "read")

\* And so does what is traced.
RowFits(t) ==
  /\ t.row \notin Setup
  /\ t.status = "succeeded" => /\ Succeeded(t.row, "answer") /\ (t.read => Succeeded(t.row, "read"))
                               /\ HasRoute(t.row) => Succeeded(t.row, "route")
TraceFits == \A n \in DOMAIN trace : RowFits(trace[n])

\* Who is about to make a call was counted before.
RunnersAt(places) == {r \in Runners : runner[r].at \in places}
Made == {k \in CallKeys : receipt[k] # "absent"}
CallsFit == Cardinality(Made) + Cardinality(RunnersAt({"creating"})) < MaxCalls + Cardinality(Runners)

\* The calls that were charged, and those nobody knows the end of.
Charged == {k \in CallKeys : paid[k] > 0}
Unclear == {k \in CallKeys : paid[k] > 0 /\ receipt[k] # "succeeded"}
CostsFit == Rules.capped =>
  Cardinality(Charged) + Cardinality(RunnersAt({"creating", "posting"})) < Cap + 2 * Cardinality(Runners)

\* Once there is a trace nobody starts again, and whoever runs leaves one more call unclear.
EndIsNear == Rules.capped /\ trace # <<>> =>
  Cardinality(Unclear) + Cardinality(RunnersAt({"next", "calling", "creating", "posting"}))
    <= Cardinality(Runners) + 1

\* Until then nobody gets past a row of the setup whose call has not succeeded.
Cleared == {x \in Setup : Succeeded(x, "answer")}
SetupFirst == Rules.capped /\ trace = <<>> =>
  /\ \A r \in Runners : runner[r].at # "off" =>
       runner[r].done \subseteq Cleared /\ \A i \in 1..(runner[r].row - 1) : Rows[i] \in Cleared
  /\ \A k \in Made : \E i \in 1..Len(Rows) : Rows[i] = k[1] /\ \A j \in 1..(i - 1) : Rows[j] \in Cleared

\* What is done is traced, and what was read of it is in the state of the arm.
DoneFits == \A r \in Runners : \A x \in runner[r].done :
  x \in Setup \/ \E n \in DOMAIN trace : trace[n].row = x

\* What a runner has passed, and what an arm keeps of it.
WentBy(r, x) == \E i \in 1..(runner[r].row - 1) : Rows[i] = x
ReadAndKept(t) == t.read /\ (t.status = "succeeded" \/ Rules.keeps)
DoneIsKnown(r) ==
  /\ \A x \in runner[r].done : x \in Setup \/ x \in runner[r].earlier \/ WentBy(r, x)
  /\ runner[r].earlier \subseteq runner[r].done
  /\ \A x \in runner[r].earlier : \E n \in DOMAIN trace : trace[n].row = x
  /\ runner[r].at # "next" => CurrentRow(r) \notin runner[r].done
StateIsKnown(r) == \A x \in runner[r].state :
  /\ x \in Routed /\ WentBy(r, x)
  /\ x \in runner[r].earlier => Rules.recovers /\ Traced(x).read
  /\ x \notin runner[r].earlier => \E n \in DOMAIN trace : trace[n].row = x /\ ReadAndKept(trace[n])
StateIsFull(r) == \A x \in runner[r].done \intersect Routed : WentBy(r, x) /\ x \notin runner[r].state =>
  /\ x \in runner[r].earlier => ~(Rules.recovers /\ Traced(x).read)
  /\ x \notin runner[r].earlier => \E n \in DOMAIN trace : trace[n].row = x /\ ~ReadAndKept(trace[n])
ReadsAnew(r) == runner[r].at # "next" /\ Rules.caches /\ runner[r].stage = "read" =>
  \A y \in runner[r].state : <<CurrentRow(r), y>> \notin Repeats
StatesKept == \A r \in Runners : runner[r].at # "off" =>
  DoneIsKnown(r) /\ StateIsKnown(r) /\ StateIsFull(r) /\ ReadsAnew(r)

PaidInv ==
  /\ PaidTyped /\ ReceiptsFit /\ CallsAreOwned /\ WorkFits /\ TraceFits
  /\ CallsFit /\ CostsFit /\ EndIsNear /\ SetupFirst /\ DoneFits /\ StatesKept

--------------------------------------------------------------------------------
\* What a step does to the files.
LEMMA Accounts ==
  ASSUME PaidInv, NEW r \in Runners, StepOf(r)
  PROVE  /\ experiment' = experiment /\ Alone(r)
         /\ receipt' \in [CallKeys -> {"absent", "submitting", "succeeded", "failed"}]
         /\ \A k \in CallKeys : receipt[k] = "succeeded" => receipt'[k] = "succeeded"
         /\ \A k \in CallKeys : receipt'[k] = "absent" <=> receipt[k] = "absent" /\ ~(Created(r) /\ k = CurrentKey(r))
         /\ \A k \in CallKeys : k = CurrentKey(r) \/ receipt'[k] = receipt[k]
         /\ response \subseteq response' /\ response' \subseteq CallKeys /\ paid' \in [CallKeys -> Nat]
         /\ saved' \subseteq Setup /\ trace' \in Seq(TraceRow)
         /\ \/ trace' = trace
            \/ \E status \in {"succeeded", "failed"} :
                 trace' = Append(trace, [row |-> CurrentRow(r), status |-> status, read |-> runner[r].read])
<1> DEFINE k == CurrentKey(r)
<1>1. /\ receipt \in [CallKeys -> {"absent", "submitting", "succeeded", "failed"}]
      /\ response \subseteq CallKeys /\ paid \in [CallKeys -> Nat] /\ saved \subseteq Setup /\ trace \in Seq(TraceRow)
      /\ runner[r].at \notin {"off", "next"} => k \in CallKeys
      /\ runner[r].at \in Owning => receipt[k] = "submitting"
  BY KeysFit DEF PaidInv, PaidTyped, CallsAreOwned
<1> HIDE DEF k
<1>2. CASE Started(r) \/ Skipped(r) \/ Begun(r) \/ Stopped(r) \/ Asked(r)
  <2>1. Alone(r) /\ UNCHANGED <<experiment, receipt, response, paid, saved, trace>>
    BY <1>2 DEF Started, Skipped, Begun, Stopped, Asked, SameCall, FilesKept, filed
  <2>2. ~Created(r)
    BY <1>1, <1>2 DEF Started, Skipped, Begun, Stopped, Asked, SameCall, Created, Owning, Off
  <2> QED BY <1>1, <2>1, <2>2
<1>3. CASE Created(r)
  <2>1. /\ Alone(r) /\ UNCHANGED <<experiment, response, paid, saved, trace>>
        /\ k \in CallKeys /\ receipt[k] = "absent" /\ receipt' = [receipt EXCEPT ![k] = "submitting"]
    BY <1>1, <1>3 DEF Created, SameCall, k
  <2> QED BY <1>1, <1>3, <2>1 DEF k
<1>4. CASE Posted(r)
  <2>1. /\ Alone(r) /\ UNCHANGED <<experiment, receipt, response, saved, trace>> /\ k \in CallKeys
        /\ paid' = [paid EXCEPT ![k] = @ + 1] /\ ~Created(r)
    BY <1>1, <1>4 DEF Posted, Created, SameCall, k
  <2> QED BY <1>1, <2>1
<1>5. CASE Received(r)
  <2>1. /\ Alone(r) /\ UNCHANGED <<experiment, receipt, paid, saved, trace>> /\ k \in CallKeys
        /\ response' = response \union {k} /\ ~Created(r)
    BY <1>1, <1>5 DEF Received, Created, SameCall, k
  <2> QED BY <1>1, <2>1
<1>6. CASE Proceeded(r)
  <2>1. /\ Alone(r) /\ UNCHANGED <<experiment, response, paid, saved, trace>> /\ k \in CallKeys
        /\ receipt' = [receipt EXCEPT ![k] = "succeeded"] /\ receipt[k] # "absent" /\ ~Created(r)
    BY <1>1, <1>6 DEF Proceeded, Created, SameCall, Settled, Owning, k
  <2> QED BY <1>1, <2>1 DEF k
<1>7. ASSUME NEW status \in {"succeeded", "failed"}, NEW goesOn \in BOOLEAN, Ended(r, status, goesOn)
      PROVE  /\ experiment' = experiment /\ Alone(r)
             /\ receipt' \in [CallKeys -> {"absent", "submitting", "succeeded", "failed"}]
             /\ \A c \in CallKeys : receipt[c] = "succeeded" => receipt'[c] = "succeeded"
             /\ \A c \in CallKeys : receipt'[c] = "absent" <=> receipt[c] = "absent" /\ ~(Created(r) /\ c = k)
             /\ \A c \in CallKeys : c = k \/ receipt'[c] = receipt[c]
             /\ response \subseteq response' /\ response' \subseteq CallKeys /\ paid' \in [CallKeys -> Nat]
             /\ saved' \subseteq Setup /\ trace' \in Seq(TraceRow)
             /\ \/ trace' = trace
                \/ trace' = Append(trace, [row |-> CurrentRow(r), status |-> status, read |-> runner[r].read])
  <2>1. /\ Ends(r, status, goesOn) /\ UNCHANGED <<experiment, response, paid>> /\ k \in CallKeys
        /\ \/ runner[r].at \in {"calling", "creating"} /\ receipt' = receipt
           \/ runner[r].at = "saved" /\ receipt' = [receipt EXCEPT ![k] = "succeeded"]
           \/ runner[r].at = "refused" /\ receipt' = [receipt EXCEPT ![k] = "failed"]
    BY <1>1, <1>7 DEF Ended, Settled, k
  <2>2. /\ Alone(r) /\ ~Created(r) /\ saved' \subseteq Setup /\ trace' \in Seq(TraceRow)
        /\ \/ trace' = trace
           \/ trace' = Append(trace, [row |-> CurrentRow(r), status |-> status, read |-> runner[r].read])
    <3>1. ~Created(r)
      <4>1. CASE goesOn
        BY <2>1, <4>1 DEF Ends, Created
      <4>2. CASE ~goesOn
        BY <2>1, <4>2 DEF Ends, Created, Off
      <4> QED BY <4>1, <4>2
    <3> QED BY <1>1, <2>1, <3>1 DEF Ends
  <2>3. receipt' \in [CallKeys -> {"absent", "submitting", "succeeded", "failed"}]
        /\ \A c \in CallKeys : c = k \/ receipt'[c] = receipt[c]
    BY <1>1, <2>1
  <2>4. receipt'[k] # receipt[k] => receipt[k] = "submitting" /\ receipt'[k] \in {"succeeded", "failed"}
    BY <1>1, <2>1 DEF Owning
  <2>5. \A c \in CallKeys : receipt[c] = "succeeded" => receipt'[c] = "succeeded"
    BY <2>3, <2>4
  <2>6. \A c \in CallKeys : receipt'[c] = "absent" <=> receipt[c] = "absent" /\ ~(Created(r) /\ c = k)
    BY <2>2, <2>3, <2>4
  <2>7. /\ experiment' = experiment /\ response \subseteq response' /\ response' \subseteq CallKeys
        /\ paid' \in [CallKeys -> Nat]
    BY <1>1, <2>1
  <2> QED BY <2>2, <2>3, <2>5, <2>6, <2>7
<1>8. CASE \E status \in {"succeeded", "failed"}, goesOn \in BOOLEAN : Ended(r, status, goesOn)
  <2> PICK status \in {"succeeded", "failed"}, goesOn \in BOOLEAN : Ended(r, status, goesOn)
    BY <1>8
  <2> QED BY <1>7 DEF k
<1> QED BY <1>2, <1>3, <1>4, <1>5, <1>6, <1>8 DEF StepOf

\* The other runners stay where they are.
LEMMA OthersStay ==
  ASSUME PaidInv, NEW r \in Runners, Alone(r), NEW q \in Runners \ {r}
  PROVE  runner'[q] = runner[q] /\ CurrentRow(q)' = CurrentRow(q) /\ CurrentKey(q)' = CurrentKey(q)
BY DEF Alone, CurrentRow, CurrentKey

\* The rules of the experiment are read from its record alone.
LEMMA RulesStay ==
  ASSUME experiment' = experiment
  PROVE  Rules' = Rules /\ \A x : HasRoute(x)' <=> HasRoute(x)
BY DEF Rules, HasRoute

\* Every step of a runner keeps the types.
LEMMA TypeStays ==
  ASSUME PaidInv, NEW r \in Runners, StepOf(r)
  PROVE  PaidTyped'
<1> DEFINE Placed(q) == /\ runner'[q].at # "off" => runner'[q].row >= 1
                        /\ runner'[q].at \notin {"off", "next"} => runner'[q].row <= Len(Rows)
<1>1. PaidTyped /\ Len(Rows) \in Nat
  BY RowsHavePlaces DEF PaidInv
<1>2. runner[r] \in RunnerState /\ (runner[r].at # "off" => runner[r].row >= 1)
      /\ (runner[r].at \notin {"off", "next"} => runner[r].row <= Len(Rows))
  BY <1>1 DEF PaidTyped
<1>3. Placed(r)
  <2>1. CASE Started(r)
    BY <1>1, <2>1 DEF Started
  <2>2. CASE Skipped(r) \/ Begun(r)
    BY <1>1, <2>2 DEF Skipped, Begun
  <2>3. CASE Stopped(r)
    BY <2>3 DEF Stopped, Off
  <2>4. CASE Asked(r) \/ Created(r) \/ Posted(r) \/ Received(r)
    BY <1>2, <2>4 DEF Asked, Created, Posted, Received, SameCall
  <2>5. CASE Proceeded(r)
    BY <1>2, <2>5 DEF Proceeded
  <2>6. ASSUME NEW status \in {"succeeded", "failed"}, NEW goesOn \in BOOLEAN, Ended(r, status, goesOn)
        PROVE  Placed(r)
    <3>1. runner[r].row >= 1 /\ Ends(r, status, goesOn) /\ runner[r].row \in 0..(Len(Rows) + 1)
      BY <1>2, <2>6 DEF Ended, RunnerState
    <3>2. CASE goesOn
      BY <1>1, <3>1, <3>2 DEF Ends
    <3>3. CASE ~goesOn
      BY <3>1, <3>3 DEF Ends, Off
    <3> QED BY <3>2, <3>3
  <2> QED BY <2>1, <2>2, <2>3, <2>4, <2>5, <2>6 DEF StepOf
<1>4. Alone(r)
  BY Accounts
<1>5. \A q \in Runners : Placed(q)
  BY <1>1, <1>3, <1>4 DEF Alone, PaidTyped
<1> QED BY <1>1, <1>4, <1>5, Accounts DEF PaidTyped, Alone

\* The key of the call of a runner after its step, which is never between the rows.
LEMMA KeysAfter ==
  ASSUME PaidInv, NEW r \in Runners, StepOf(r), runner'[r].at \notin {"off", "next"}
  PROVE  /\ CurrentRow(r)' \in Listed
         /\ CurrentKey(r)' = <<CurrentRow(r)', runner'[r].stage>> /\ CurrentKey(r)' \in CallKeys
         /\ CurrentRow(r)' = CurrentRow(r)
<1>1. PaidTyped'
  BY TypeStays
<1>2. runner'[r] \in RunnerState /\ runner'[r].row \in 1..Len(Rows)
  <2>1. runner'[r].at # "off"
    OBVIOUS
  <2> QED BY <1>1, <2>1, RowsHavePlaces DEF PaidTyped, RunnerState
<1>3. runner'[r].row = runner[r].row
  <2>1. ASSUME NEW status \in {"succeeded", "failed"}, NEW goesOn \in BOOLEAN, Ended(r, status, goesOn)
        PROVE  FALSE
    BY <2>1 DEF Ended, Ends, Off
  <2> QED BY <2>1 DEF StepOf, Started, Skipped, Begun, Stopped, Off, Asked, Created, Posted, Received, SameCall, Proceeded
<1> QED BY <1>2, <1>3, RowsHavePlaces DEF CurrentRow, CurrentKey, CallKeys, RunnerState, CallStages, Listed

\* Receipts: a call is paid once, and what it rests on was received.
LEMMA ReceiptsStay ==
  ASSUME PaidInv, NEW r \in Runners, StepOf(r)
  PROVE  ReceiptsFit'
<1> DEFINE k == CurrentKey(r)
<1>1. /\ PaidTyped /\ ReceiptsFit /\ CallsAreOwned /\ WorkFits
  BY DEF PaidInv
<1>2. /\ experiment' = experiment /\ receipt' \in [CallKeys -> {"absent", "submitting", "succeeded", "failed"}]
      /\ \A c \in CallKeys : receipt[c] = "succeeded" => receipt'[c] = "succeeded"
      /\ \A c \in CallKeys : receipt'[c] = "absent" <=> receipt[c] = "absent" /\ ~(Created(r) /\ c = k)
      /\ \A c \in CallKeys : c = k \/ receipt'[c] = receipt[c]
      /\ response \subseteq response'
  BY Accounts
<1>3. \A x : HasRoute(x)' <=> HasRoute(x)
  BY <1>2, RulesStay
<1>4. \A c \in CallKeys : /\ paid'[c] <= 1 /\ (receipt'[c] = "absent" => paid'[c] = 0)
                          /\ receipt'[c] = "succeeded" => c \in response'
  <2>1. ASSUME NEW c \in CallKeys, receipt'[c] = "succeeded"
        PROVE  c \in response'
    <3>1. CASE receipt[c] = "succeeded"
      BY <1>1, <1>2, <3>1 DEF ReceiptsFit
    <3>2. CASE receipt[c] # "succeeded"
      <4>1. c = k /\ receipt'[k] # receipt[k]
        BY <1>2, <2>1, <3>2
      <4>2. runner[r].at = "saved"
        <5>1. ASSUME NEW status \in {"succeeded", "failed"}, NEW goesOn \in BOOLEAN, Ended(r, status, goesOn)
              PROVE  runner[r].at = "saved"
          BY <1>1, <2>1, <4>1, <5>1 DEF Ended, Settled, PaidTyped
        <5>2. CASE Proceeded(r)
          BY <2>1, <3>2, <4>1, <5>2 DEF Proceeded
        <5>3. CASE Created(r)
          BY <1>1, <2>1, <4>1, <5>3 DEF Created, PaidTyped
        <5> QED BY <4>1, <5>1, <5>2, <5>3
            DEF StepOf, Started, Skipped, Begun, Stopped, FilesKept, filed, Asked, Posted, Received
      <4> QED BY <1>1, <1>2, <4>1, <4>2 DEF CallsAreOwned, Owning
    <3> QED BY <3>1, <3>2
  <2>2. CASE Posted(r)
    <3>1. k \in CallKeys /\ paid[k] = 0 /\ receipt[k] = "submitting" /\ receipt' = receipt
          /\ paid' = [paid EXCEPT ![k] = @ + 1] /\ paid \in [CallKeys -> Nat]
      BY <1>1, <2>2, KeysFit DEF Posted, CallsAreOwned, Owning, PaidTyped
    <3> HIDE DEF k
    <3> QED BY <1>1, <2>1, <3>1 DEF ReceiptsFit
  <2>3. CASE ~Posted(r)
    <3>1. paid' = paid
      BY <2>3 DEF StepOf, Started, Skipped, Begun, Stopped, FilesKept, filed, Asked, Created, Received, Proceeded, Ended
    <3> QED BY <1>1, <1>2, <2>1, <3>1 DEF ReceiptsFit
  <2> QED BY <2>2, <2>3
<1>5. ASSUME NEW x \in Listed, NEW stage \in CallStages, receipt'[<<x, stage>>] # "absent"
      PROVE  /\ x \in Setup => stage = "answer"
             /\ stage = "route" => HasRoute(x)
             /\ HasRoute(x) /\ stage # "route" => Succeeded(x, "route")'
  <2>1. <<x, stage>> \in CallKeys /\ <<x, "route">> \in CallKeys
    BY DEF CallKeys, CallStages, Listed
  <2>2. CASE receipt[<<x, stage>>] # "absent"
    BY <1>1, <1>2, <2>1, <2>2 DEF ReceiptsFit, Succeeded
  <2>3. CASE receipt[<<x, stage>>] = "absent"
    <3>1. Created(r) /\ <<x, stage>> = k
      BY <1>2, <1>5, <2>1, <2>3
    <3>2. runner[r].at = "creating"
      BY <3>1 DEF Created
    <3>3. x = CurrentRow(r) /\ stage = runner[r].stage
      BY <3>1 DEF CurrentKey
    <3> QED BY <1>1, <1>2, <2>1, <3>2, <3>3 DEF WorkFits, Succeeded
  <2> QED BY <2>2, <2>3
<1> QED BY <1>3, <1>4, <1>5 DEF ReceiptsFit

\* No two runners own the same receipt, and a call that is owned was not paid before.
LEMMA CallsStayOwned ==
  ASSUME PaidInv, NEW r \in Runners, StepOf(r)
  PROVE  CallsAreOwned'
<1> DEFINE k == CurrentKey(r)
           Mine == /\ receipt'[CurrentKey(r)'] = "submitting"
                   /\ paid'[CurrentKey(r)'] = IF runner'[r].at = "posting" THEN 0 ELSE 1
                   /\ runner'[r].at = "saved" => CurrentKey(r)' \in response'
<1>1. PaidTyped /\ ReceiptsFit /\ CallsAreOwned /\ Alone(r)
  BY Accounts DEF PaidInv
<1>2. /\ \A c \in CallKeys : c = k \/ receipt'[c] = receipt[c]
      /\ response \subseteq response'
  BY Accounts
<1>3. \A c \in CallKeys : c = k \/ paid'[c] = paid[c]
  BY <1>1 DEF PaidTyped, StepOf, Started, Skipped, Begun, Stopped, FilesKept, filed, Asked, Created, Posted, Received,
              Proceeded, Ended
<1>4. ASSUME NEW q \in Runners \ {r}, runner[q].at \in Owning
      PROVE  CurrentKey(q) \in CallKeys /\ (CurrentKey(q) = k => paid'[k] = paid[k] /\ receipt'[k] = receipt[k])
  <2>1. CurrentKey(q) \in CallKeys
    BY <1>1, <1>4, KeysFit DEF Owning
  <2>2. ASSUME CurrentKey(q) = k PROVE paid'[k] = paid[k] /\ receipt'[k] = receipt[k]
    <3>1. runner[r].at \notin Owning
      BY <1>1, <1>4, <2>2 DEF CallsAreOwned
    <3>2. receipt[k] = "submitting"
      BY <1>1, <1>4, <2>2 DEF CallsAreOwned
    <3>3. ASSUME NEW status \in {"succeeded", "failed"}, NEW goesOn \in BOOLEAN, Ended(r, status, goesOn)
          PROVE  UNCHANGED <<paid, receipt>>
      BY <3>1, <3>3 DEF Ended, Owning
    <3> QED BY <3>1, <3>2, <3>3 DEF StepOf, Started, Skipped, Begun, Stopped, FilesKept, filed, Asked, Created, Posted,
              Received, Proceeded, Owning
  <2> QED BY <2>1, <2>2
<1>5. ASSUME NEW q \in Runners \ {r}, runner'[q].at \in Owning
      PROVE  /\ receipt'[CurrentKey(q)'] = "submitting"
             /\ paid'[CurrentKey(q)'] = IF runner'[q].at = "posting" THEN 0 ELSE 1
             /\ runner'[q].at = "saved" => CurrentKey(q)' \in response'
  <2>1. runner'[q] = runner[q] /\ CurrentKey(q)' = CurrentKey(q) /\ runner[q].at \in Owning
    BY <1>1, <1>5, OthersStay
  <2>2. receipt'[CurrentKey(q)] = receipt[CurrentKey(q)] /\ paid'[CurrentKey(q)] = paid[CurrentKey(q)]
    BY <1>2, <1>3, <1>4, <2>1
  <2> QED BY <1>1, <1>2, <2>1, <2>2 DEF CallsAreOwned
<1>6. ASSUME runner'[r].at \in Owning
      PROVE  /\ Created(r) \/ Posted(r) \/ Received(r)
             /\ k \in CallKeys /\ CurrentKey(r)' = k /\ runner[r].at \notin {"off", "next"}
  <2>1. ASSUME NEW status \in {"succeeded", "failed"}, NEW goesOn \in BOOLEAN, Ended(r, status, goesOn)
        PROVE  FALSE
    BY <1>6, <2>1 DEF Ended, Ends, Off, Owning
  <2>2. Created(r) \/ Posted(r) \/ Received(r)
    BY <1>6, <2>1 DEF StepOf, Started, Skipped, Begun, Stopped, Off, Asked, Proceeded, Owning
  <2>3. SameCall(r) /\ runner[r].at \notin {"off", "next"}
    BY <2>2 DEF Created, Posted, Received
  <2> QED BY <1>1, <2>2, <2>3, KeysFit DEF SameCall, CurrentKey, CurrentRow
<1>7. ASSUME runner'[r].at \in Owning PROVE Mine
  <2>1. CASE Created(r)
    BY <1>1, <1>6, <1>7, <2>1 DEF Created, PaidTyped, ReceiptsFit
  <2>2. CASE Posted(r)
    <3>1. /\ receipt' = receipt /\ runner[r].at = "posting" /\ runner'[r].at \in {"saving", "refused"}
          /\ paid' = [paid EXCEPT ![k] = @ + 1] /\ k \in CallKeys /\ CurrentKey(r)' = k
      BY <1>6, <1>7, <2>2 DEF Posted
    <3>2. receipt[k] = "submitting" /\ paid[k] = 0 /\ paid \in [CallKeys -> Nat]
      BY <1>1, <3>1 DEF CallsAreOwned, PaidTyped, Owning
    <3> HIDE DEF k
    <3> QED BY <3>1, <3>2
  <2>3. CASE Received(r)
    <3>1. UNCHANGED <<receipt, paid>> /\ runner[r].at = "saving" /\ runner'[r].at = "saved"
          /\ response' = response \union {k} /\ CurrentKey(r)' = k
      BY <1>6, <1>7, <2>3 DEF Received
    <3>2. receipt[k] = "submitting" /\ paid[k] = 1
      BY <1>1, <3>1 DEF CallsAreOwned, Owning
    <3> HIDE DEF k
    <3> QED BY <3>1, <3>2
  <2> QED BY <1>6, <1>7, <2>1, <2>2, <2>3
<1>8. ASSUME NEW q \in Runners \ {r}, runner'[q].at \in Owning, runner'[r].at \in Owning
      PROVE  CurrentKey(q)' # CurrentKey(r)'
  <2>1. runner[q].at \in Owning /\ CurrentKey(q)' = CurrentKey(q) /\ CurrentKey(r)' = k
    BY <1>1, <1>6, <1>8, OthersStay
  <2>2. CASE Created(r)
    BY <1>1, <2>1, <2>2 DEF Created, CallsAreOwned
  <2>3. CASE Posted(r) \/ Received(r)
    BY <1>1, <2>1, <2>3 DEF Posted, Received, CallsAreOwned, Owning
  <2> QED BY <1>6, <1>8, <2>2, <2>3
<1>9. ASSUME NEW p \in Runners \ {r}, NEW q \in Runners \ {r}, runner'[p].at \in Owning, runner'[q].at \in Owning,
             CurrentKey(p)' = CurrentKey(q)'
      PROVE  p = q
  BY <1>1, <1>9, OthersStay DEF CallsAreOwned
<1> QED BY <1>5, <1>7, <1>8, <1>9 DEF CallsAreOwned

\* What a runner works at next rests on what its row has received.
LEMMA WorkStaysFit ==
  ASSUME PaidInv, NEW r \in Runners, StepOf(r)
  PROVE  WorkFits'
<1> DEFINE x == CurrentRow(r)
           stage == runner'[r].stage
           NowRow(q) == Rows[runner'[q].row]
           Now(y, s) == receipt'[<<y, s>>] = "succeeded"
           Fit(row, s, read) ==
             /\ row \in Setup => s = "answer"
             /\ s = "route" => HasRoute(row)
             /\ HasRoute(row) /\ s # "route" => Now(row, "route")
             /\ read => Now(row, "read")
<1>1. PaidTyped /\ WorkFits /\ Alone(r) /\ experiment' = experiment /\ PaidTyped'
  BY Accounts, TypeStays DEF PaidInv
<1>2. \A c \in CallKeys : receipt[c] = "succeeded" => receipt'[c] = "succeeded"
  BY Accounts
<1>3. \A y : HasRoute(y)' <=> HasRoute(y)
  BY <1>1, RulesStay
<1>4. \A y \in Listed, s \in CallStages : <<y, s>> \in CallKeys /\ (Succeeded(y, s) => Now(y, s))
  BY <1>2 DEF Succeeded, CallKeys, Listed, CallStages
<1>5. "route" \in CallStages /\ "read" \in CallStages
  BY DEF CallStages
<1>6. ASSUME NEW q \in Runners \ {r}, runner'[q].at \notin {"off", "next"}
      PROVE  Fit(NowRow(q), runner'[q].stage, runner'[q].read)
  <2>1. runner'[q] = runner[q] /\ NowRow(q) = CurrentRow(q) /\ CurrentRow(q) \in Listed
    BY <1>1, <1>6, OthersStay, KeysFit DEF CurrentRow
  <2> QED BY <1>1, <1>4, <1>5, <1>6, <2>1 DEF WorkFits
<1>7. ASSUME runner'[r].at \notin {"off", "next"}
      PROVE  Fit(NowRow(r), runner'[r].stage, runner'[r].read)
  <2>1. NowRow(r) = x /\ x \in Listed
    BY <1>7, KeysAfter DEF CurrentRow
  <2>2. CASE Begun(r)
    <3>1. stage \in FirstStages(r, x) /\ ~runner'[r].read
      BY <2>2 DEF Begun
    <3>2. Rules.stages \subseteq {"route", "read", "answer"}
      BY <1>1, RulesFit DEF PaidTyped
    <3>3. CASE x \in Setup
      BY <2>1, <3>1, <3>3 DEF FirstStages, HasRoute
    <3>4. CASE x \notin Setup /\ x \in Routed
      <4>1. AlreadyRead(r, x) => "route" \notin Rules.stages /\ stage = "answer"
        BY <1>1, <3>1, RulesFit DEF AlreadyRead, FirstStages, PaidTyped
      <4> QED BY <2>1, <3>1, <3>2, <3>4, <4>1 DEF FirstStages, HasRoute
    <3>5. CASE x \notin Setup /\ x \notin Routed
      BY <2>1, <3>1, <3>5 DEF FirstStages, HasRoute, AlreadyRead
    <3> QED BY <3>3, <3>4, <3>5
  <2>3. CASE Asked(r) \/ Created(r) \/ Posted(r) \/ Received(r)
    <3>1. runner[r].at \notin {"off", "next"} /\ runner'[r].stage = runner[r].stage /\ runner'[r].read = runner[r].read
      BY <2>3 DEF Asked, Created, Posted, Received, SameCall
    <3> QED BY <1>1, <1>4, <1>5, <2>1, <3>1 DEF WorkFits
  <2>4. CASE Proceeded(r)
    <3>1. runner[r].at \notin {"off", "next"} /\ <<x, runner[r].stage>> = CurrentKey(r)
          /\ CurrentKey(r) \in CallKeys
      BY <1>1, <2>4, KeysFit DEF Proceeded
    <3>2. Now(x, runner[r].stage)
      BY <1>1, <2>1, <2>4, <3>1 DEF Proceeded, Settled, Succeeded, PaidTyped
    <3>3. \/ runner[r].stage = "route" /\ stage \in {"read", "answer"} /\ ~runner'[r].read
          \/ runner[r].stage = "read" /\ stage = "answer" /\ runner'[r].read
      BY <2>4 DEF Proceeded
    <3>4. /\ x \in Setup => runner[r].stage = "answer"
          /\ HasRoute(x) /\ runner[r].stage # "route" => Succeeded(x, "route")
      BY <1>1, <3>1 DEF WorkFits
    <3> QED BY <1>4, <1>5, <2>1, <3>2, <3>3, <3>4
  <2>5. ASSUME NEW status \in {"succeeded", "failed"}, NEW goesOn \in BOOLEAN, Ended(r, status, goesOn)
        PROVE  FALSE
    BY <1>7, <2>5 DEF Ended, Ends, Off
  <2> QED BY <1>7, <2>2, <2>3, <2>4, <2>5 DEF StepOf, Started, Skipped, Stopped, Off
<1>8. \A q \in Runners : runner'[q].at \notin {"off", "next"} => Fit(NowRow(q), runner'[q].stage, runner'[q].read)
  BY <1>6, <1>7
<1>9. Rules' = Rules
  BY <1>1, RulesStay
<1> QED BY <1>8, <1>9 DEF WorkFits, HasRoute, Succeeded, CurrentRow

\* A row that is traced as a success has received what it rests on.
LEMMA TraceStaysFit ==
  ASSUME PaidInv, NEW r \in Runners, StepOf(r)
  PROVE  TraceFits'
<1> DEFINE x == CurrentRow(r)
           Now(y, s) == receipt'[<<y, s>>] = "succeeded"
<1>1. PaidTyped /\ WorkFits /\ TraceFits /\ experiment' = experiment /\ trace \in Seq(TraceRow) /\ trace' \in Seq(TraceRow)
  BY Accounts DEF PaidInv, PaidTyped
<1>2. \A c \in CallKeys : receipt[c] = "succeeded" => receipt'[c] = "succeeded"
  BY Accounts
<1>3. \A y : HasRoute(y)' <=> HasRoute(y)
  BY <1>1, RulesStay
<1>4. \A y \in Listed, s \in CallStages : <<y, s>> \in CallKeys /\ (Succeeded(y, s) => Now(y, s))
  BY <1>2 DEF Succeeded, CallKeys, Listed, CallStages
<1>5. {"route", "read", "answer"} \subseteq CallStages
  BY DEF CallStages
<1> DEFINE FitsNow(t) == /\ t.row \notin Setup
                         /\ t.status = "succeeded" => /\ Now(t.row, "answer") /\ (t.read => Now(t.row, "read"))
                                                      /\ HasRoute(t.row) => Now(t.row, "route")
<1>6. \A n \in DOMAIN trace : trace[n] \in TraceRow /\ FitsNow(trace[n])
  <2> SUFFICES ASSUME NEW n \in DOMAIN trace PROVE trace[n] \in TraceRow /\ FitsNow(trace[n])
    OBVIOUS
  <2>1. trace[n] \in TraceRow
    BY <1>1
  <2>2. trace[n].row \in Listed
    BY <2>1 DEF TraceRow
  <2> QED BY <1>1, <1>4, <1>5, <2>1, <2>2 DEF TraceFits, RowFits
<1>7. \A n \in DOMAIN trace' : FitsNow(trace'[n])
  <2>1. CASE trace' = trace
    BY <1>6, <2>1
  <2>2. CASE trace' # trace
    <3>1. PICK status \in {"succeeded", "failed"}, goesOn \in BOOLEAN : Ended(r, status, goesOn)
      BY <2>2 DEF StepOf, Started, Skipped, Begun, Stopped, FilesKept, Asked, Created, Posted, Received, SameCall, Proceeded
    <3> DEFINE t == [row |-> x, status |-> status, read |-> runner[r].read]
    <3>2. x \notin Setup /\ trace' = Append(trace, t)
      BY <2>2, <3>1 DEF Ended, Ends
    <3>3. runner[r].at \notin {"off", "next"} /\ x \in Listed /\ CurrentKey(r) = <<x, runner[r].stage>>
      BY <1>1, <3>1, KeysFit DEF Ended
    <3>4. status = "succeeded" => runner[r].stage = "answer" /\ Now(x, "answer")
      BY <3>1, <3>3 DEF Ended, Succeeded
    <3>5. t.row = x /\ t.status = status /\ t.read = runner[r].read
      OBVIOUS
    <3>6. /\ runner[r].read => Now(x, "read")
          /\ HasRoute(x) /\ runner[r].stage # "route" => Now(x, "route")
      BY <1>1, <1>4, <1>5, <3>3 DEF WorkFits
    <3>7. FitsNow(t)
      BY <3>2, <3>4, <3>5, <3>6
    <3> HIDE DEF t
    <3>8. t \in TraceRow
      BY <1>1, <3>3, <3>1 DEF t, TraceRow, PaidTyped, RunnerState
    <3>9. \A n \in DOMAIN trace' : (n \in DOMAIN trace /\ trace'[n] = trace[n]) \/ trace'[n] = t
      BY <1>1, <3>2, <3>8
    <3> QED BY <1>6, <3>7, <3>9
  <2> QED BY <2>1, <2>2
<1>8. Rules' = Rules
  BY <1>1, RulesStay
<1> QED BY <1>7, <1>8 DEF TraceFits, RowFits, HasRoute, Succeeded

\* What is done was traced or belongs to the setup.
LEMMA DoneStaysFit ==
  ASSUME PaidInv, NEW r \in Runners, StepOf(r)
  PROVE  DoneFits'
<1> DEFINE Traces(x) == x \in Setup \/ \E n \in DOMAIN trace' : trace'[n].row = x
<1>1. PaidTyped /\ DoneFits /\ Alone(r) /\ trace \in Seq(TraceRow) /\ trace' \in Seq(TraceRow) /\ saved \subseteq Setup
  BY Accounts DEF PaidInv, PaidTyped
<1>2. ASSUME NEW n \in DOMAIN trace PROVE n \in DOMAIN trace' /\ trace'[n] = trace[n]
  <2>1. CASE trace' = trace
    BY <2>1
  <2>2. ASSUME NEW t, trace' = Append(trace, t) PROVE n \in DOMAIN trace' /\ trace'[n] = trace[n]
    BY <1>1, <2>2
  <2> QED BY <2>1, <2>2, Accounts
<1>3. \A q \in Runners : \A x \in runner[q].done : Traces(x)
  BY <1>1, <1>2 DEF DoneFits
<1>4. \A x \in runner'[r].done : Traces(x)
  <2>1. CASE Started(r)
    BY <1>1, <1>2, <2>1 DEF Started, ToSet
  <2>2. CASE Skipped(r) \/ Begun(r) \/ Asked(r) \/ Created(r) \/ Posted(r) \/ Received(r) \/ Proceeded(r)
    <3>1. runner'[r].done = runner[r].done
      BY <2>2 DEF Skipped, Begun, Asked, Created, Posted, Received, SameCall, Proceeded
    <3> QED BY <1>3, <3>1
  <2>3. CASE Stopped(r)
    BY <2>3 DEF Stopped, Off
  <2>4. ASSUME NEW status \in {"succeeded", "failed"}, NEW goesOn \in BOOLEAN, Ended(r, status, goesOn)
        PROVE  \A x \in runner'[r].done : Traces(x)
    <3>1. Ends(r, status, goesOn)
      BY <2>4 DEF Ended
    <3>2. CASE ~goesOn
      BY <3>1, <3>2 DEF Ends, Off
    <3>3. CASE goesOn
      <4>1. runner'[r].done = runner[r].done \union {CurrentRow(r)}
        BY <3>1, <3>3 DEF Ends
      <4>2. ASSUME CurrentRow(r) \notin Setup PROVE \E n \in DOMAIN trace' : trace'[n].row = CurrentRow(r)
        <5> DEFINE t == [row |-> CurrentRow(r), status |-> status, read |-> runner[r].read]
        <5>1. trace' = Append(trace, t) /\ t.row = CurrentRow(r)
          BY <3>1, <4>2 DEF Ends
        <5> HIDE DEF t
        <5>2. Len(trace) + 1 \in DOMAIN trace' /\ trace'[Len(trace) + 1] = t
          BY <1>1, <5>1
        <5> QED BY <5>1, <5>2
      <4> QED BY <1>3, <4>1, <4>2
    <3> QED BY <3>2, <3>3
  <2> QED BY <2>1, <2>2, <2>3, <2>4 DEF StepOf
<1> QED BY <1>1, <1>3, <1>4 DEF DoneFits, Alone

\* The trace only grows.
LEMMA TraceGrows ==
  ASSUME PaidInv, NEW r \in Runners, StepOf(r)
  PROVE  /\ \A n \in DOMAIN trace : n \in DOMAIN trace' /\ trace'[n] = trace[n]
         /\ trace' = <<>> => trace = <<>> /\ trace' = trace
<1>1. trace \in Seq(TraceRow)
  BY DEF PaidInv, PaidTyped
<1>2. ASSUME NEW t, trace' = Append(trace, t)
      PROVE  trace' # <<>> /\ \A n \in DOMAIN trace : n \in DOMAIN trace' /\ trace'[n] = trace[n]
  <2>1. Len(trace') = Len(trace) + 1 /\ Len(trace) \in Nat
    BY <1>1, <1>2
  <2> QED BY <1>1, <1>2, <2>1
<1> QED BY <1>2, Accounts

\* Until there is a trace, nobody gets past a row of the setup that is not cleared.
LEMMA SetupStaysFirst ==
  ASSUME PaidInv, NEW r \in Runners, StepOf(r)
  PROVE  SetupFirst'
<1> DEFINE x == CurrentRow(r)
           Now == {y \in Setup : receipt'[<<y, "answer">>] = "succeeded"}
           Passed(q) == /\ runner'[q].done \subseteq Now
                        /\ \A i \in 1..(runner'[q].row - 1) : Rows[i] \in Now
<1>1. PaidTyped /\ WorkFits /\ SetupFirst /\ Alone(r) /\ experiment' = experiment
  BY Accounts DEF PaidInv
<1>2. /\ \A c \in CallKeys : receipt[c] = "succeeded" => receipt'[c] = "succeeded"
      /\ \A c \in CallKeys : receipt'[c] = "absent" <=> receipt[c] = "absent" /\ ~(Created(r) /\ c = CurrentKey(r))
  BY Accounts
<1>3. \A y \in Setup : <<y, "answer">> \in CallKeys
  BY RowsHavePlaces DEF CallKeys, Listed
<1>4. Cleared \subseteq Now
  BY <1>2, <1>3 DEF Cleared, Succeeded
<1>5. Rules' = Rules
  BY <1>1, RulesStay
<1> SUFFICES ASSUME Rules.capped, trace' = <<>>
             PROVE  /\ \A q \in Runners : runner'[q].at # "off" => Passed(q)
                    /\ \A k \in Made' : \E i \in 1..Len(Rows) : Rows[i] = k[1] /\ \A j \in 1..(i - 1) : Rows[j] \in Now
  BY <1>5 DEF SetupFirst, Cleared, Succeeded
<1>6. trace = <<>> /\ trace' = trace
  BY TraceGrows
<1>7. /\ \A q \in Runners : runner[q].at # "off" =>
           runner[q].done \subseteq Now /\ \A i \in 1..(runner[q].row - 1) : Rows[i] \in Now
      /\ \A k \in Made : \E i \in 1..Len(Rows) : Rows[i] = k[1] /\ \A j \in 1..(i - 1) : Rows[j] \in Now
  BY <1>1, <1>4, <1>6 DEF SetupFirst
<1>8. runner[r].at # "off" => runner[r].row \in Nat /\ runner[r].row >= 1
  BY <1>1, RowsHavePlaces DEF PaidTyped, RunnerState
<1> HIDE DEF Now
<1>9. ASSUME runner'[r].at # "off" PROVE Passed(r)
  <2>1. CASE Started(r)
    <3>1. runner'[r].done = {} /\ runner'[r].row = 1
      BY <1>1, <1>6, <2>1, RulesFit DEF Started, ToSet, PaidTyped
    <3> QED BY <3>1
  <2>2. CASE Skipped(r)
    <3>1. /\ runner[r].at = "next" /\ runner'[r].done = runner[r].done /\ runner'[r].row = runner[r].row + 1
          /\ Rows[runner[r].row] \in runner[r].done
      BY <2>2 DEF Skipped, CurrentRow
    <3> QED BY <1>7, <1>8, <3>1
  <2>3. CASE Begun(r) \/ Asked(r) \/ Created(r) \/ Posted(r) \/ Received(r) \/ Proceeded(r)
    <3>1. runner'[r].done = runner[r].done /\ runner'[r].row = runner[r].row /\ runner[r].at # "off"
      BY <2>3 DEF Begun, Asked, Created, Posted, Received, SameCall, Proceeded
    <3> QED BY <1>7, <3>1
  <2>4. ASSUME NEW status \in {"succeeded", "failed"}, NEW goesOn \in BOOLEAN, Ended(r, status, goesOn)
        PROVE  Passed(r)
    <3>1. goesOn /\ runner'[r].done = runner[r].done \union {x} /\ runner'[r].row = runner[r].row + 1
      BY <1>9, <2>4 DEF Ended, Ends, Off
    <3>2. x \in Setup
      <4>1. ASSUME x \notin Setup PROVE FALSE
        <5> DEFINE t == [row |-> x, status |-> status, read |-> runner[r].read]
        <5>1. trace' = Append(<<>>, t)
          BY <1>6, <2>4, <4>1 DEF Ended, Ends
        <5> HIDE DEF t
        <5>2. Len(trace') = 1
          BY <5>1
        <5> QED BY <1>6, <5>2
      <4> QED BY <4>1
    <3>3. runner[r].at \notin {"off", "next"} /\ receipt'[CurrentKey(r)] = "succeeded"
      BY <2>4, <3>1 DEF Ended
    <3>4. CurrentKey(r) = <<x, "answer">>
      BY <1>1, <3>2, <3>3 DEF WorkFits, CurrentKey
    <3>5. x \in Now
      BY <3>2, <3>3, <3>4 DEF Now
    <3> QED BY <1>7, <1>8, <3>1, <3>3, <3>5 DEF CurrentRow
  <2> QED BY <1>9, <2>1, <2>2, <2>3, <2>4 DEF StepOf, Stopped, Off
<1>10. ASSUME NEW k \in Made'
       PROVE  \E i \in 1..Len(Rows) : Rows[i] = k[1] /\ \A j \in 1..(i - 1) : Rows[j] \in Now
  <2>1. CASE k \in Made
    BY <1>7, <2>1
  <2>2. CASE k \notin Made
    <3>1. Created(r) /\ k = CurrentKey(r)
      BY <1>2, <1>10, <2>2 DEF Made
    <3>2. runner[r].at = "creating"
      BY <3>1 DEF Created
    <3>3. runner[r].row \in 1..Len(Rows) /\ k[1] = Rows[runner[r].row]
      BY <1>1, <3>1, <3>2, KeysFit DEF CurrentKey, CurrentRow
    <3> QED BY <1>7, <3>2, <3>3
  <2> QED BY <2>1, <2>2
<1> QED BY <1>1, <1>7, <1>9, <1>10 DEF Alone

\* The first row that was traced for x is one of its rows, and the first of them.
LEMMA TracedIsTraced ==
  ASSUME PaidTyped, NEW x, \E n \in DOMAIN trace : trace[n].row = x
  PROVE  \E n \in DOMAIN trace : /\ trace[n].row = x /\ Traced(x) = trace[n]
                                 /\ n = Min({m \in DOMAIN trace : trace[m].row = x})
                                 /\ \A m \in DOMAIN trace : trace[m].row = x => n <= m
<1> DEFINE T == {n \in DOMAIN trace : trace[n].row = x}
<1>1. T \subseteq Nat /\ T # {}
  BY DEF PaidTyped
<1>2. \E n \in T : \A m \in T : n <= m
  <2>1. IsWellFoundedOn(OpToRel(<, Nat), Nat)
    BY NatLessThanWellFounded
  <2>2. PICK n \in T : \A m \in T : ~(<<m, n>> \in OpToRel(<, Nat))
    BY <1>1, <2>1, WFMin
  <2>3. \A m \in T : ~(m < n)
    BY <1>1, <2>2 DEF OpToRel
  <2> QED BY <1>1, <2>3
<1>3. Min(T) \in T /\ \A m \in T : Min(T) <= m
  BY <1>2 DEF Min
<1> QED BY <1>3 DEF Traced

\* And stays the first.
LEMMA TracedStays ==
  ASSUME PaidInv, NEW r \in Runners, StepOf(r), NEW x, \E n \in DOMAIN trace : trace[n].row = x
  PROVE  Traced(x)' = Traced(x)
<1> DEFINE T == {m \in DOMAIN trace : trace[m].row = x}
           U == {m \in DOMAIN trace' : trace'[m].row = x}
<1>1. PICK n \in DOMAIN trace : /\ trace[n].row = x /\ Traced(x) = trace[n] /\ \A m \in T : n <= m
  BY TracedIsTraced DEF PaidInv
<1>2. trace \in Seq(TraceRow) /\ n \in 1..Len(trace) /\ Len(trace) \in Nat
  BY <1>1 DEF PaidInv, PaidTyped
<1>3. n \in DOMAIN trace' /\ trace'[n] = trace[n]
  BY <1>1, TraceGrows
<1>4. \A m \in U : m \in Nat /\ n <= m
  <2>1. CASE trace' = trace
    BY <1>1, <1>2, <2>1
  <2>2. ASSUME NEW t, trace' = Append(trace, t) PROVE \A m \in U : m \in Nat /\ n <= m
    <3>1. Len(trace') = Len(trace) + 1 /\ DOMAIN trace' = 1..(Len(trace) + 1)
          /\ \A m \in 1..Len(trace) : trace'[m] = trace[m]
      BY <1>2, <2>2
    <3>2. ASSUME NEW m \in U PROVE m \in Nat /\ n <= m
      <4>1. m \in 1..(Len(trace) + 1)
        BY <3>1
      <4>2. CASE m \in 1..Len(trace)
        BY <1>1, <1>2, <3>1, <4>2
      <4>3. CASE m = Len(trace) + 1
        BY <1>2, <4>3
      <4> QED BY <1>2, <4>1, <4>2, <4>3
    <3> QED BY <3>2
  <2> QED BY <2>1, <2>2, Accounts
<1>5. n \in U
  BY <1>1, <1>3
<1> HIDE DEF U
<1>6. Min(U) = n
  <2>1. Min(U) \in U /\ \A m \in U : Min(U) <= m
    BY <1>4, <1>5 DEF Min
  <2> QED BY <1>2, <1>4, <1>5, <2>1
<1>7. Traced(x)' = trace'[Min(U)]
  BY DEF Traced, U, Min
<1> QED BY <1>1, <1>3, <1>6, <1>7

\* What the trace says of a row that is in it stays, and more may be said.
LEMMA SaysTheSame ==
  ASSUME PaidInv, NEW r \in Runners, StepOf(r)
  PROVE  /\ Rules' = Rules
         /\ \A x : (\E n \in DOMAIN trace : trace[n].row = x) =>
              /\ Traced(x)' = Traced(x)
              /\ \E n \in DOMAIN trace' : trace'[n].row = x
         /\ \A x : (\E n \in DOMAIN trace : trace[n].row = x /\ ReadAndKept(trace[n])) =>
              \E n \in DOMAIN trace' : trace'[n].row = x /\ ReadAndKept(trace[n])'
         /\ \A x : (\E n \in DOMAIN trace : trace[n].row = x /\ ~ReadAndKept(trace[n])) =>
              \E n \in DOMAIN trace' : trace'[n].row = x /\ ~ReadAndKept(trace[n])'
<1>1. Rules' = Rules
  BY Accounts, RulesStay
<1> QED BY <1>1, TracedStays, TraceGrows DEF ReadAndKept

\* The row that ends is traced, unless it is one of the setup.
LEMMA EndIsTraced ==
  ASSUME PaidInv, NEW r \in Runners, NEW status \in {"succeeded", "failed"}, NEW goesOn \in BOOLEAN,
         Ended(r, status, goesOn), CurrentRow(r) \notin Setup
  PROVE  \E n \in DOMAIN trace' : /\ trace'[n].row = CurrentRow(r)
                                  /\ trace'[n].status = status /\ trace'[n].read = runner[r].read
<1> DEFINE t == [row |-> CurrentRow(r), status |-> status, read |-> runner[r].read]
<1>1. trace' = Append(trace, t)
  BY DEF Ended, Ends
<1>2. t.row = CurrentRow(r) /\ t.status = status /\ t.read = runner[r].read
  OBVIOUS
<1> HIDE DEF t
<1>3. Len(trace) + 1 \in DOMAIN trace' /\ trace'[Len(trace) + 1] = t
  <2>1. trace \in Seq(TraceRow)
    BY DEF PaidInv, PaidTyped
  <2> QED BY <1>1, <2>1
<1> QED BY <1>2, <1>3

\* How what a runner knows changes.
Onwards(r) ==
  /\ runner[r].at # "off" /\ runner'[r].earlier = runner[r].earlier
  /\ \/ /\ runner'[r].row = runner[r].row /\ runner'[r].done = runner[r].done
        /\ runner'[r].state = runner[r].state /\ runner'[r].at # "next"
        /\ runner[r].at = "next" => Begun(r)
     \/ runner'[r].at = "next" /\ runner'[r].row = runner[r].row + 1
LEMMA KnowledgeGoesOn ==
  ASSUME PaidInv, NEW r \in Runners, StepOf(r), runner'[r].at # "off", ~Started(r)
  PROVE  Onwards(r)
<1>1. CASE Skipped(r)
  BY <1>1 DEF Skipped, Onwards
<1>2. CASE Begun(r) \/ Asked(r) \/ Created(r) \/ Posted(r) \/ Received(r) \/ Proceeded(r)
  BY <1>2 DEF Begun, Asked, Created, Posted, Received, SameCall, Proceeded, Onwards
<1>3. ASSUME NEW status \in {"succeeded", "failed"}, NEW goesOn \in BOOLEAN, Ended(r, status, goesOn)
      PROVE  Onwards(r)
  <2>1. goesOn
    BY <1>3 DEF Ended, Ends, Off
  <2> QED BY <1>3, <2>1 DEF Ended, Ends, Onwards
<1> QED BY <1>1, <1>2, <1>3 DEF StepOf, Stopped, Off

\* A runner knows what is done, through every step of its own.
LEMMA DoneStaysKnown ==
  ASSUME PaidInv, NEW r \in Runners, StepOf(r), runner'[r].at # "off"
  PROVE  DoneIsKnown(r)'
<1> DEFINE x == CurrentRow(r)
<1>1. /\ PaidTyped /\ (runner[r].at # "off" => DoneIsKnown(r) /\ runner[r].row \in Nat /\ runner[r].row >= 1)
      /\ trace \in Seq(TraceRow)
  BY RowsHavePlaces DEF PaidInv, StatesKept, PaidTyped, RunnerState
<1>2. /\ \A y : (\E n \in DOMAIN trace : trace[n].row = y) => \E n \in DOMAIN trace' : trace'[n].row = y
  BY SaysTheSame
<1>3. ASSUME runner[r].at # "off", runner'[r].row = runner[r].row \/ runner'[r].row = runner[r].row + 1
      PROVE  /\ \A y : WentBy(r, y) => WentBy(r, y)'
             /\ \A y : runner'[r].row = runner[r].row + 1 /\ y = x => WentBy(r, y)'
  <2>1. runner'[r].row \in Nat /\ runner'[r].row >= runner[r].row
    BY <1>1, <1>3
  <2>2. \A y : WentBy(r, y) => WentBy(r, y)'
    BY <1>1, <1>3, <2>1 DEF WentBy
  <2>3. ASSUME NEW y, y = x, runner'[r].row = runner[r].row + 1 PROVE WentBy(r, y)'
    <3>1. runner[r].row \in 1..(runner'[r].row - 1) /\ Rows[runner[r].row] = y
      BY <1>1, <1>3, <2>1, <2>3 DEF CurrentRow
    <3> QED BY <3>1 DEF WentBy
  <2> QED BY <2>2, <2>3
<1>4. CASE Started(r)
  <2>1. \A y \in runner'[r].earlier : \E n \in DOMAIN trace' : trace'[n].row = y
    <3>1. ASSUME NEW y \in runner'[r].earlier PROVE \E n \in DOMAIN trace : trace[n].row = y
      <4>1. PICK t \in ToSet(trace) : t.row = y
        BY <1>4 DEF Started
      <4> QED BY <4>1 DEF ToSet
    <3> QED BY <1>2, <3>1
  <2>2. saved \subseteq Setup
    BY <1>1 DEF PaidTyped
  <2> QED BY <1>4, <2>1, <2>2 DEF Started, DoneIsKnown
<1>5. CASE Skipped(r)
  <2>1. /\ runner[r].at # "off" /\ runner'[r].at = "next" /\ runner'[r].row = runner[r].row + 1
        /\ runner'[r].done = runner[r].done /\ runner'[r].earlier = runner[r].earlier
    BY <1>5 DEF Skipped
  <2> QED BY <1>1, <1>2, <1>3, <2>1 DEF DoneIsKnown
<1>6. CASE Begun(r) \/ Asked(r) \/ Created(r) \/ Posted(r) \/ Received(r) \/ Proceeded(r)
  <2>1. /\ runner[r].at # "off" /\ runner'[r].row = runner[r].row
        /\ runner'[r].done = runner[r].done /\ runner'[r].earlier = runner[r].earlier
        /\ runner[r].at = "next" => x \notin runner[r].done
    BY <1>6 DEF Begun, Asked, Created, Posted, Received, SameCall, Proceeded
  <2>2. CurrentRow(r)' = x /\ (runner[r].at # "off" => CurrentRow(r)' \notin runner[r].done)
    BY <1>1, <2>1 DEF CurrentRow, DoneIsKnown
  <2> QED BY <1>1, <1>2, <1>3, <2>1, <2>2 DEF DoneIsKnown
<1>7. ASSUME NEW status \in {"succeeded", "failed"}, NEW goesOn \in BOOLEAN, Ended(r, status, goesOn)
      PROVE  DoneIsKnown(r)'
  <2>1. /\ runner[r].at # "off" /\ runner'[r].at = "next" /\ runner'[r].row = runner[r].row + 1
        /\ runner'[r].done = runner[r].done \union {x} /\ runner'[r].earlier = runner[r].earlier
    <3>1. goesOn
      BY <1>7 DEF Ended, Ends, Off
    <3> QED BY <1>7, <3>1 DEF Ended, Ends
  <2> QED BY <1>1, <1>2, <1>3, <2>1 DEF DoneIsKnown
<1> QED BY <1>4, <1>5, <1>6, <1>7 DEF StepOf, Stopped, Off

\* What is in the state of its arm was read for it, by a row of this run that keeps it or by one
\* of an earlier run.
LEMMA StateStaysKnown ==
  ASSUME PaidInv, NEW r \in Runners, StepOf(r), runner'[r].at # "off"
  PROVE  StateIsKnown(r)'
<1> DEFINE x == CurrentRow(r)
<1>1. /\ PaidTyped
      /\ runner[r].at # "off" => /\ DoneIsKnown(r) /\ StateIsKnown(r)
                                 /\ runner[r].row \in Nat /\ runner[r].row >= 1
  BY RowsHavePlaces DEF PaidInv, StatesKept, PaidTyped, RunnerState
<1>2. Rules' = Rules
  BY SaysTheSame
<1>3. CASE Started(r)
  BY <1>3 DEF Started, StateIsKnown
<1>4. CASE ~Started(r)
  <2>1. Onwards(r)
    BY <1>4, KnowledgeGoesOn
  <2>2. \A y : WentBy(r, y) => WentBy(r, y)'
    BY <1>1, <2>1 DEF Onwards, WentBy
  <2>3. ASSUME NEW y \in runner[r].state
        PROVE  /\ y \in Routed /\ WentBy(r, y)'
               /\ y \in runner'[r].earlier => Rules'.recovers /\ Traced(y)'.read
               /\ y \notin runner'[r].earlier => \E n \in DOMAIN trace' : trace'[n].row = y /\ ReadAndKept(trace[n])'
    <3>1. /\ y \in Routed /\ WentBy(r, y) /\ runner'[r].earlier = runner[r].earlier
          /\ y \in runner[r].earlier => Rules.recovers /\ Traced(y).read /\ \E n \in DOMAIN trace : trace[n].row = y
          /\ y \notin runner[r].earlier => \E n \in DOMAIN trace : trace[n].row = y /\ ReadAndKept(trace[n])
      BY <1>1, <2>1 DEF Onwards, StateIsKnown, DoneIsKnown
    <3> QED BY <1>2, <2>2, <3>1, SaysTheSame
  <2>4. ASSUME NEW y \in runner'[r].state, y \notin runner[r].state
        PROVE  /\ y \in Routed /\ WentBy(r, y)'
               /\ y \in runner'[r].earlier => Rules'.recovers /\ Traced(y)'.read
               /\ y \notin runner'[r].earlier => \E n \in DOMAIN trace' : trace'[n].row = y /\ ReadAndKept(trace[n])'
    <3>1. CASE Skipped(r)
      <4>1. /\ y \in Recovered(x) /\ runner[r].at = "next" /\ x \in runner[r].done
            /\ runner'[r].row = runner[r].row + 1 /\ runner[r].row \in 1..Len(Rows)
            /\ runner'[r].earlier = runner[r].earlier
        BY <2>4, <3>1 DEF Skipped
      <4>2. y = x /\ x \in Routed /\ Rules.recovers /\ Traced(x).read
        BY <4>1 DEF Recovered
      <4>3. WentBy(r, y)' /\ ~WentBy(r, y)
        <5>1. runner[r].row \in 1..(runner'[r].row - 1) /\ Rows[runner[r].row] = y
          BY <4>1, <4>2, RowsHavePlaces DEF CurrentRow
        <5>2. ~WentBy(r, y)
          BY <4>1, <5>1, RowsHavePlaces DEF WentBy
        <5> QED BY <5>1, <5>2 DEF WentBy
      <4>4. y \in runner[r].earlier /\ y \in Routed
        BY <1>1, <4>1, <4>2, <4>3, PaidAssumption DEF DoneIsKnown
      <4>5. Traced(y)' = Traced(y)
        BY <1>1, <4>1, <4>4, TracedStays DEF DoneIsKnown
      <4> QED BY <1>2, <4>1, <4>2, <4>3, <4>4, <4>5
    <3>2. ASSUME NEW status \in {"succeeded", "failed"}, NEW goesOn \in BOOLEAN, Ended(r, status, goesOn)
          PROVE  /\ y \in Routed /\ WentBy(r, y)'
                 /\ y \in runner'[r].earlier => Rules'.recovers /\ Traced(y)'.read
                 /\ y \notin runner'[r].earlier =>
                      \E n \in DOMAIN trace' : trace'[n].row = y /\ ReadAndKept(trace[n])'
      <4>1. goesOn /\ runner[r].at \notin {"off", "next"}
        BY <3>2 DEF Ended, Ends, Off
      <4>2. y \in KeptOf(r, status) /\ runner'[r].row = runner[r].row + 1 /\ runner'[r].earlier = runner[r].earlier
        BY <2>4, <3>2, <4>1 DEF Ended, Ends
      <4>3. y = x /\ x \in Routed /\ runner[r].read /\ (status = "succeeded" \/ Rules.keeps)
        BY <4>2 DEF KeptOf
      <4>4. WentBy(r, y)' /\ x \notin runner[r].earlier /\ x \notin Setup
        <5>1. runner[r].row \in 1..(runner'[r].row - 1) /\ Rows[runner[r].row] = y
          BY <1>1, <4>1, <4>2, <4>3, RowsHavePlaces DEF CurrentRow
        <5> QED BY <1>1, <4>1, <4>3, <5>1, PaidAssumption DEF WentBy, DoneIsKnown
      <4>5. PICK n \in DOMAIN trace' : trace'[n].row = x /\ trace'[n].status = status /\ trace'[n].read = runner[r].read
        BY <3>2, <4>4, EndIsTraced
      <4>6. ReadAndKept(trace[n])'
        BY <1>2, <4>3, <4>5 DEF ReadAndKept
      <4> QED BY <4>2, <4>3, <4>4, <4>5, <4>6
    <3>3. ~(Begun(r) \/ Asked(r) \/ Created(r) \/ Posted(r) \/ Received(r) \/ Proceeded(r))
      BY <2>4 DEF Begun, Asked, Created, Posted, Received, SameCall, Proceeded
    <3> QED BY <1>4, <3>1, <3>2, <3>3 DEF StepOf, Stopped, Off
  <2> QED BY <2>3, <2>4 DEF StateIsKnown
<1> QED BY <1>3, <1>4

\* And all that it should have is in it.
LEMMA StateStaysFull ==
  ASSUME PaidInv, NEW r \in Runners, StepOf(r), runner'[r].at # "off"
  PROVE  StateIsFull(r)'
<1> DEFINE x == CurrentRow(r)
           Missing(y) == /\ y \in runner'[r].earlier => ~(Rules'.recovers /\ Traced(y)'.read)
                         /\ y \notin runner'[r].earlier =>
                              \E n \in DOMAIN trace' : trace'[n].row = y /\ ~ReadAndKept(trace[n])'
<1>1. /\ PaidTyped
      /\ runner[r].at # "off" => /\ DoneIsKnown(r) /\ StateIsFull(r)
                                 /\ runner[r].row \in Nat /\ runner[r].row >= 1
  BY RowsHavePlaces DEF PaidInv, StatesKept, PaidTyped, RunnerState
<1>2. Rules' = Rules
  BY SaysTheSame
<1>3. CASE Started(r)
  BY <1>3 DEF Started, StateIsFull, WentBy
<1>4. CASE ~Started(r)
  <2>1. Onwards(r) /\ runner[r].at # "off" /\ runner'[r].earlier = runner[r].earlier
    BY <1>4, KnowledgeGoesOn DEF Onwards
  <2>2. ASSUME NEW y \in runner[r].done \intersect Routed, WentBy(r, y), y \notin runner[r].state
        PROVE  Missing(y)
    <3>1. /\ y \in runner[r].earlier => ~(Rules.recovers /\ Traced(y).read) /\ \E n \in DOMAIN trace : trace[n].row = y
          /\ y \notin runner[r].earlier => \E n \in DOMAIN trace : trace[n].row = y /\ ~ReadAndKept(trace[n])
      BY <1>1, <2>1, <2>2 DEF StateIsFull, DoneIsKnown
    <3> QED BY <1>2, <2>1, <3>1, SaysTheSame
  <2>3. ASSUME NEW y \in runner'[r].done \intersect Routed, WentBy(r, y)', y \notin runner'[r].state
        PROVE  Missing(y)
    <3>1. CASE Skipped(r)
      <4>1. /\ runner[r].at = "next" /\ x \in runner[r].done /\ runner[r].row \in 1..Len(Rows)
            /\ runner'[r].row = runner[r].row + 1 /\ runner'[r].done = runner[r].done
            /\ runner'[r].state = runner[r].state \union Recovered(x)
        BY <3>1 DEF Skipped
      <4>2. CASE WentBy(r, y)
        BY <2>2, <2>3, <4>1, <4>2
      <4>3. CASE ~WentBy(r, y)
        <5>1. y = x /\ x \in Routed /\ x \notin Setup
          BY <1>1, <2>3, <4>1, <4>3, PaidAssumption DEF WentBy, CurrentRow
        <5>2. x \in runner[r].earlier
          BY <1>1, <4>1, <4>3, <5>1 DEF DoneIsKnown
        <5>3. Traced(y)' = Traced(y)
          BY <1>1, <4>1, <5>1, <5>2, TracedStays DEF DoneIsKnown
        <5>4. ~(Rules.recovers /\ Traced(x).read)
          BY <2>3, <4>1, <5>1 DEF Recovered
        <5> QED BY <1>2, <2>1, <5>1, <5>2, <5>3, <5>4
      <4> QED BY <4>2, <4>3
    <3>2. CASE Begun(r) \/ Asked(r) \/ Created(r) \/ Posted(r) \/ Received(r) \/ Proceeded(r)
      <4>1. runner'[r].row = runner[r].row /\ runner'[r].done = runner[r].done /\ runner'[r].state = runner[r].state
        BY <3>2 DEF Begun, Asked, Created, Posted, Received, SameCall, Proceeded
      <4>2. WentBy(r, y)
        BY <2>3, <4>1 DEF WentBy
      <4> QED BY <2>2, <2>3, <4>1, <4>2
    <3>3. ASSUME NEW status \in {"succeeded", "failed"}, NEW goesOn \in BOOLEAN, Ended(r, status, goesOn)
          PROVE  Missing(y)
      <4>1. goesOn /\ runner[r].at \notin {"off", "next"}
        BY <3>3 DEF Ended, Ends, Off
      <4>2. /\ runner'[r].row = runner[r].row + 1 /\ runner'[r].done = runner[r].done \union {x}
            /\ runner'[r].state = runner[r].state \union KeptOf(r, status)
        BY <3>3, <4>1 DEF Ended, Ends
      <4>3. runner[r].row \in 1..Len(Rows)
        BY <1>1, <4>1, KeysFit
      <4>4. CASE y = x
        <5>1. x \in Routed /\ x \notin Setup /\ x \notin runner[r].earlier /\ x \notin KeptOf(r, status)
          BY <1>1, <2>3, <4>1, <4>2, <4>4, PaidAssumption DEF DoneIsKnown
        <5>2. ~(runner[r].read /\ (status = "succeeded" \/ Rules.keeps))
          BY <5>1 DEF KeptOf
        <5>3. PICK n \in DOMAIN trace' : /\ trace'[n].row = x /\ trace'[n].status = status
                                         /\ trace'[n].read = runner[r].read
          BY <3>3, <5>1, EndIsTraced
        <5>4. ~ReadAndKept(trace[n])'
          BY <1>2, <5>2, <5>3 DEF ReadAndKept
        <5> QED BY <2>1, <4>4, <5>1, <5>3, <5>4
      <4>5. CASE y # x
        <5>1. PICK i \in 1..(runner'[r].row - 1) : Rows[i] = y
          BY <2>3 DEF WentBy
        <5>2. i # runner[r].row
          BY <4>5, <5>1 DEF CurrentRow
        <5>3. i \in 1..(runner[r].row - 1)
          BY <4>2, <4>3, <5>2, RowsHavePlaces
        <5>4. WentBy(r, y)
          BY <5>1, <5>3 DEF WentBy
        <5> QED BY <2>2, <2>3, <4>2, <4>5, <5>4
      <4> QED BY <4>4, <4>5
    <3> QED BY <1>4, <3>1, <3>2, <3>3 DEF StepOf, Stopped, Off
  <2> QED BY <2>3 DEF StateIsFull
<1> QED BY <1>3, <1>4

\* A runner with a cache asks for what it does not hold.
LEMMA ReadsStayNew ==
  ASSUME PaidInv, NEW r \in Runners, StepOf(r), runner'[r].at # "off"
  PROVE  ReadsAnew(r)'
<1> DEFINE x == CurrentRow(r)
<1>1. PaidTyped /\ WorkFits /\ (runner[r].at # "off" => ReadsAnew(r)) /\ Rules' = Rules
  BY SaysTheSame DEF PaidInv, StatesKept
<1>2. CASE Started(r)
  BY <1>2 DEF Started, ReadsAnew
<1>3. CASE ~Started(r) /\ runner'[r].at # "next"
  <2>1. /\ runner[r].at # "off" /\ runner'[r].row = runner[r].row /\ runner'[r].state = runner[r].state
        /\ runner[r].at = "next" => Begun(r)
    BY <1>3, KnowledgeGoesOn DEF Onwards
  <2>2. CurrentRow(r)' = x
    BY <2>1 DEF CurrentRow
  <2>3. ASSUME Rules.caches, runner'[r].stage = "read", NEW y \in runner[r].state, <<x, y>> \in Repeats
        PROVE  FALSE
    <3>1. x \in Routed
      BY <2>3, RowsHavePlaces
    <3>2. CASE Begun(r)
      <4>1. "read" \in FirstStages(r, x)
        BY <2>3, <3>2 DEF Begun
      <4>2. AlreadyRead(r, x)
        BY <2>3 DEF AlreadyRead
      <4> QED BY <4>1, <4>2 DEF FirstStages
    <3>3. CASE runner[r].at # "next" /\ runner[r].stage = "read"
      BY <1>1, <2>1, <2>3, <3>3 DEF ReadsAnew
    <3>4. CASE runner[r].at # "next" /\ runner[r].stage # "read"
      <4>1. Proceeded(r) /\ runner[r].stage = "route" /\ runner[r].at \notin {"off", "next"}
        <5>1. ~(Asked(r) \/ Created(r) \/ Posted(r) \/ Received(r))
          BY <2>3, <3>4 DEF Asked, Created, Posted, Received, SameCall
        <5>2. ASSUME NEW status \in {"succeeded", "failed"}, NEW goesOn \in BOOLEAN, Ended(r, status, goesOn)
              PROVE  FALSE
          BY <1>3, <5>2 DEF Ended, Ends, Off
        <5>3. Proceeded(r)
          BY <1>3, <3>4, <5>1, <5>2 DEF StepOf, Stopped, Off, Skipped, Begun
        <5> QED BY <2>3, <3>4, <5>3 DEF Proceeded
      <4>2. "route" \in Rules.stages
        BY <1>1, <4>1 DEF WorkFits, HasRoute
      <4> QED BY <1>1, <2>3, <4>2, RulesFit DEF PaidTyped
    <3> QED BY <2>1, <3>2, <3>3, <3>4
  <2> QED BY <1>1, <2>1, <2>2, <2>3 DEF ReadsAnew
<1>4. CASE runner'[r].at = "next"
  BY <1>4 DEF ReadsAnew
<1> QED BY <1>2, <1>3, <1>4

\* All runners know what they knew, and what they have done since.
LEMMA StatesStayKept ==
  ASSUME PaidInv, NEW r \in Runners, StepOf(r)
  PROVE  StatesKept'
<1>1. Alone(r) /\ StatesKept /\ Rules' = Rules
  BY Accounts, SaysTheSame DEF PaidInv
<1>2. ASSUME NEW q \in Runners \ {r}, runner'[q].at # "off"
      PROVE  DoneIsKnown(q)' /\ StateIsKnown(q)' /\ StateIsFull(q)' /\ ReadsAnew(q)'
  <2>1. runner'[q] = runner[q] /\ CurrentRow(q)' = CurrentRow(q)
    BY <1>1, OthersStay
  <2>2. DoneIsKnown(q) /\ StateIsKnown(q) /\ StateIsFull(q) /\ ReadsAnew(q)
    BY <1>1, <1>2, <2>1 DEF StatesKept
  <2>3. \A x : WentBy(q, x)' <=> WentBy(q, x)
    BY <2>1 DEF WentBy
  <2>4. \A x \in runner[q].earlier : Traced(x)' = Traced(x) /\ \E n \in DOMAIN trace' : trace'[n].row = x
    BY <2>2, SaysTheSame DEF DoneIsKnown
  <2>5. DoneIsKnown(q)'
    BY <2>1, <2>2, <2>3, <2>4 DEF DoneIsKnown
  <2>6. StateIsKnown(q)'
    BY <1>1, <2>1, <2>2, <2>3, <2>4, SaysTheSame DEF StateIsKnown
  <2>7. StateIsFull(q)'
    BY <1>1, <2>1, <2>2, <2>3, <2>4, SaysTheSame DEF StateIsFull
  <2>8. ReadsAnew(q)'
    BY <1>1, <2>1, <2>2 DEF ReadsAnew
  <2> QED BY <2>5, <2>6, <2>7, <2>8
<1> QED BY <1>2, DoneStaysKnown, StateStaysKnown, StateStaysFull, ReadsStayNew DEF StatesKept

--------------------------------------------------------------------------------
\* Counting: what a step adds to a set, and takes from it.
LEMMA CallsAreFinite == IsFiniteSet(CallKeys) /\ IsFiniteSet(Runners) /\ Cardinality(Runners) \in Nat /\ Cardinality(Runners) >= 1
<1>1. IsFiniteSet(Listed)
  <2>1. IsFiniteSet(1..Len(Rows))
    BY RowsHavePlaces, FS_Interval
  <2>2. Rows \in Surjection(1..Len(Rows), Listed)
    <3>1. Rows \in [1..Len(Rows) -> Listed]
      BY PaidAssumption DEF Listed
    <3>2. \A t \in Listed : \E i \in 1..Len(Rows) : Rows[i] = t
      BY RowsHavePlaces
    <3> QED BY <3>1, <3>2 DEF Surjection
  <2> QED BY <2>1, <2>2, FS_Surjection
<1>2. IsFiniteSet({"route", "read", "answer"})
  <2>1. {"route", "read", "answer"} = ({"route"} \union {"read"}) \union {"answer"}
    OBVIOUS
  <2>2. IsFiniteSet({"route"} \union {"read"})
    BY FS_Singleton, FS_AddElement
  <2>3. IsFiniteSet(({"route"} \union {"read"}) \union {"answer"})
    BY <2>2, FS_AddElement
  <2> QED BY <2>1, <2>3
<1>3. IsFiniteSet(CallKeys)
  BY <1>1, <1>2, FS_Product DEF CallKeys, Listed
<1>4. Cardinality(Runners) # 0
  BY PaidAssumption, FS_EmptySet
<1> QED BY <1>3, <1>4, PaidAssumption, FS_CardinalityType

\* A part of a finite set has no more members than the whole.
LEMMA Counted ==
  ASSUME NEW T, IsFiniteSet(T), NEW S \in SUBSET T
  PROVE  /\ IsFiniteSet(S) /\ Cardinality(S) \in Nat /\ Cardinality(S) <= Cardinality(T)
         /\ \A x : Cardinality(S \union {x}) <= Cardinality(S) + 1 /\ IsFiniteSet(S \union {x})
         /\ \A x \in S : Cardinality(S \ {x}) = Cardinality(S) - 1
<1>1. IsFiniteSet(S) /\ Cardinality(S) <= Cardinality(T)
  BY FS_Subset
<1>2. Cardinality(S) \in Nat
  BY <1>1, FS_CardinalityType
<1>3. ASSUME NEW x PROVE Cardinality(S \union {x}) <= Cardinality(S) + 1 /\ IsFiniteSet(S \union {x})
  <2>1. CASE x \in S
    <3>1. S \union {x} = S
      BY <2>1
    <3> QED BY <1>1, <1>2, <3>1
  <2>2. CASE x \notin S
    <3>1. IsFiniteSet(S \union {x}) /\ Cardinality(S \union {x}) = Cardinality(S) + 1
      BY <1>1, <2>2, FS_AddElement
    <3> QED BY <1>2, <3>1
  <2> QED BY <2>1, <2>2
<1>4. ASSUME NEW x \in S PROVE Cardinality(S \ {x}) = Cardinality(S) - 1
  BY <1>1, <1>4, FS_RemoveElement
<1> QED BY <1>1, <1>2, <1>3, <1>4

\* Runners that change places.
LEMMA PlacesChange ==
  ASSUME PaidInv, NEW r \in Runners, Alone(r), NEW places
  PROVE  /\ RunnersAt(places) \subseteq Runners /\ RunnersAt(places)' \subseteq Runners
         /\ RunnersAt(places)' \subseteq RunnersAt(places) \union {r}
         /\ runner'[r].at \notin places => RunnersAt(places)' = RunnersAt(places) \ {r}
         /\ runner[r].at \in places => RunnersAt(places)' \subseteq RunnersAt(places)
BY DEF Alone, RunnersAt

\* The calls made never exceed the budget by more than one for each runner.
LEMMA CallsStayFit ==
  ASSUME PaidInv, NEW r \in Runners, StepOf(r)
  PROVE  CallsFit'
<1> DEFINE k == CurrentKey(r)
           n == Cardinality(Runners)
           Here == RunnersAt({"creating"})
           There == RunnersAt({"creating"})'
           Now == {c \in CallKeys : receipt'[c] # "absent"}
<1>1. CallsFit /\ Alone(r) /\ PaidTyped /\ MaxCalls \in Nat /\ n \in Nat
  BY Accounts, CallsAreFinite, PaidAssumption DEF PaidInv
<1>2. \A c \in CallKeys : receipt'[c] = "absent" <=> receipt[c] = "absent" /\ ~(Created(r) /\ c = k)
  BY Accounts
<1>3. /\ Here \subseteq Runners /\ There \subseteq Runners /\ Made \in SUBSET CallKeys /\ Now \in SUBSET CallKeys
      /\ runner'[r].at # "creating" => There = Here \ {r}
      /\ runner[r].at = "creating" => There \subseteq Here
  BY <1>1, PlacesChange DEF Made
<1>4. r \in Here <=> runner[r].at = "creating"
  BY DEF RunnersAt
<1> HIDE DEF n, Here, There, Now
<1>5. /\ Cardinality(Here) \in Nat /\ Cardinality(There) \in Nat /\ Cardinality(There) <= n
      /\ Cardinality(Made) \in Nat /\ Cardinality(Now) \in Nat /\ IsFiniteSet(Here) /\ IsFiniteSet(Made)
      /\ \A c : Cardinality(Made \union {c}) <= Cardinality(Made) + 1
      /\ r \in Here => Cardinality(Here \ {r}) = Cardinality(Here) - 1
  BY <1>3, CallsAreFinite, Counted DEF n
<1>6. Cardinality(Made) + Cardinality(Here) < MaxCalls + n
  BY <1>1 DEF CallsFit, Here, n
<1>7. Cardinality(Now) + Cardinality(There) < MaxCalls + n
  <2>1. CASE Created(r)
    <3>1. Now \subseteq Made \union {k} /\ runner[r].at = "creating" /\ runner'[r].at = "posting"
      BY <1>2, <2>1 DEF Created, Now, Made
    <3>2. Cardinality(Now) <= Cardinality(Made) + 1
      <4>1. IsFiniteSet(Made \union {k}) /\ Cardinality(Made \union {k}) <= Cardinality(Made) + 1
        BY <1>3, CallsAreFinite, Counted
      <4>2. Cardinality(Now) <= Cardinality(Made \union {k}) /\ Cardinality(Made \union {k}) \in Nat
        BY <3>1, <4>1, FS_Subset, FS_CardinalityType
      <4> QED BY <1>5, <4>1, <4>2
    <3>3. Cardinality(There) = Cardinality(Here) - 1
      BY <1>3, <1>4, <1>5, <3>1
    <3> QED BY <1>1, <1>5, <1>6, <3>2, <3>3
  <2>2. CASE Asked(r)
    <3>1. Now = Made
      BY <1>2, <2>2 DEF Asked, Created, Now, Made
    <3>2. Cardinality(Made) < MaxCalls
      BY <2>2 DEF Asked, Receipts, Made
    <3> QED BY <1>1, <1>5, <3>1, <3>2
  <2>3. CASE ~Created(r) /\ ~Asked(r)
    <3>1. Now = Made
      BY <1>2, <2>3 DEF Now, Made
    <3>2. runner'[r].at # "creating"
      <4>1. ASSUME NEW status \in {"succeeded", "failed"}, NEW goesOn \in BOOLEAN, Ended(r, status, goesOn)
            PROVE  runner'[r].at # "creating"
        BY <4>1 DEF Ended, Ends, Off
      <4> QED BY <2>3, <4>1 DEF StepOf, Started, Skipped, Begun, Stopped, Off, Posted, Received, Proceeded
    <3>3. There \subseteq Here
      BY <1>3, <3>2
    <3>4. Cardinality(There) <= Cardinality(Here)
      BY <1>5, <3>3, FS_Subset
    <3> QED BY <1>1, <1>5, <1>6, <3>1, <3>4
  <2> QED BY <2>1, <2>2, <2>3
<1> QED BY <1>7 DEF CallsFit, Now, There, Made, n

\* Until there is a trace, what is unclear belongs to one row.
LEMMA UnclearAtFirst ==
  ASSUME PaidInv, Rules.capped, trace = <<>>
  PROVE  /\ Cardinality(Unclear) <= 2
         /\ \A r \in Runners : runner[r].at = "calling" /\ receipt[CurrentKey(r)] = "absent" => Cardinality(Unclear) <= 1
<1>1. PaidTyped /\ ReceiptsFit /\ WorkFits /\ SetupFirst
  BY DEF PaidInv
<1>2. \A k \in Unclear : k \in CallKeys /\ receipt[k] # "absent" /\ receipt[k] # "succeeded" /\ k \in Made
  BY <1>1 DEF Unclear, ReceiptsFit, Made
<1>3. \A k \in CallKeys : k = <<k[1], k[2]>> /\ k[1] \in Listed /\ k[2] \in CallStages
  BY DEF CallKeys, Listed, CallStages
<1>4. ASSUME NEW c \in Unclear PROVE c[1] \notin Cleared
  <2> DEFINE x == c[1]
             s == c[2]
  <2>1. c = <<x, s>> /\ x \in Listed /\ s \in CallStages /\ receipt[c] # "absent" /\ receipt[c] # "succeeded"
    BY <1>2, <1>3
  <2> HIDE DEF x, s
  <2>2. x \in Setup => s = "answer"
    BY <1>1, <2>1 DEF ReceiptsFit
  <2>3. x \notin Cleared
    BY <2>1, <2>2 DEF Cleared, Succeeded
  <2> QED BY <2>3 DEF x
<1>5. ASSUME NEW a \in Unclear, NEW b \in Unclear PROVE a[1] = b[1]
  <2>1. PICK i \in 1..Len(Rows) : Rows[i] = a[1] /\ \A j \in 1..(i - 1) : Rows[j] \in Cleared
    BY <1>1, <1>2 DEF SetupFirst
  <2>2. PICK j \in 1..Len(Rows) : Rows[j] = b[1] /\ \A n \in 1..(j - 1) : Rows[n] \in Cleared
    BY <1>1, <1>2 DEF SetupFirst
  <2>3. a[1] \notin Cleared /\ b[1] \notin Cleared
    BY <1>4
  <2>4. ~(i < j) /\ ~(j < i) /\ i \in Nat /\ j \in Nat
    BY <2>1, <2>2, <2>3, RowsHavePlaces
  <2> QED BY <2>1, <2>2, <2>4
<1>6. ASSUME NEW x, <<x, "route">> \in Unclear PROVE Unclear = {<<x, "route">>}
  <2>1. HasRoute(x) /\ ~Succeeded(x, "route")
    BY <1>1, <1>2, <1>3, <1>6 DEF ReceiptsFit, Succeeded
  <2>2. ASSUME NEW k \in Unclear PROVE k = <<x, "route">>
    BY <1>1, <1>2, <1>3, <1>5, <1>6, <2>1 DEF ReceiptsFit
  <2> QED BY <1>6, <2>2
<1>7. \A x : Cardinality({x}) = 1 /\ IsFiniteSet({x})
  BY FS_Singleton
<1>8. Cardinality({}) = 0 /\ Unclear \subseteq CallKeys
  BY FS_EmptySet DEF Unclear
<1>9. ASSUME NEW r \in Runners, runner[r].at = "calling", receipt[CurrentKey(r)] = "absent"
      PROVE  Cardinality(Unclear) <= 1
  <2> DEFINE x == CurrentRow(r)
             s == runner[r].stage
  <2>1. x \in Listed /\ <<x, s>> \in CallKeys /\ receipt[<<x, s>>] = "absent" /\ runner[r].row \in 1..Len(Rows)
        /\ x = Rows[runner[r].row] /\ s \in CallStages
    <3>1. runner[r] \in RunnerState
      BY <1>1 DEF PaidTyped
    <3> QED BY <1>1, <1>9, <3>1, KeysFit DEF CurrentRow, RunnerState
  <2>2. /\ x \in Setup => s = "answer"
        /\ HasRoute(x) /\ s # "route" => Succeeded(x, "route")
        /\ \A i \in 1..(runner[r].row - 1) : Rows[i] \in Cleared
    BY <1>1, <1>9 DEF WorkFits, SetupFirst
  <2>3. x \notin Cleared
    BY <2>1, <2>2 DEF Cleared, Succeeded
  <2>4. ASSUME NEW k \in Unclear PROVE k[1] = x
    <3>1. PICK j \in 1..Len(Rows) : Rows[j] = k[1] /\ \A n \in 1..(j - 1) : Rows[n] \in Cleared
      BY <1>1, <1>2 DEF SetupFirst
    <3>2. k[1] \notin Cleared
      BY <1>4
    <3>3. j \in Nat /\ runner[r].row \in Nat /\ ~(j < runner[r].row) /\ ~(runner[r].row < j)
      BY <2>1, <2>2, <2>3, <3>1, <3>2, RowsHavePlaces
    <3> QED BY <2>1, <3>1, <3>3
  <2>5. ASSUME NEW k \in Unclear PROVE k = <<x, k[2]>> /\ k[2] \in CallStages /\ k[2] # s /\ k[2] # "route"
    <3>1. k = <<x, k[2]>> /\ k[2] \in CallStages /\ k[2] # s
      BY <1>2, <1>3, <2>1, <2>4
    <3>2. CASE k[2] = "route"
      <4>1. HasRoute(x) /\ ~Succeeded(x, "route")
        BY <1>1, <1>2, <2>1, <3>1, <3>2 DEF ReceiptsFit, Succeeded
      <4>2. s = "route"
        BY <2>2, <4>1
      <4> QED BY <3>1, <3>2, <4>2
    <3> QED BY <3>1, <3>2
  <2>6. \E y : Unclear \subseteq {y}
    <3>1. CASE s = "answer"
      <4>1. Unclear \subseteq {<<x, "read">>}
        BY <2>5, <3>1 DEF CallStages
      <4> QED BY <4>1
    <3>2. CASE s = "read"
      <4>1. Unclear \subseteq {<<x, "answer">>}
        BY <2>5, <3>2 DEF CallStages
      <4> QED BY <4>1
    <3>3. CASE s = "route"
      <4>1. Unclear = {}
        <5>1. ASSUME NEW k \in Unclear PROVE FALSE
          <6>1. receipt[k] # "absent" /\ k = <<x, k[2]>> /\ k[2] \in CallStages /\ k[2] # "route"
            BY <1>2, <2>5
          <6>2. HasRoute(x)
            BY <1>1, <1>9, <3>3 DEF WorkFits
          <6>3. Succeeded(x, "route")
            BY <1>1, <2>1, <6>1, <6>2 DEF ReceiptsFit
          <6> QED BY <2>1, <3>3, <6>3 DEF Succeeded
        <5> QED BY <5>1
      <4> QED BY <4>1
    <3> QED BY <2>1, <3>1, <3>2, <3>3 DEF CallStages
  <2>7. PICK y : Unclear \subseteq {y}
    BY <2>6
  <2>8. CASE Unclear = {}
    BY <1>8, <2>8
  <2>9. CASE Unclear = {y}
    <3>1. Cardinality({y}) = 1
      BY <1>7
    <3> QED BY <2>9, <3>1
  <2> QED BY <2>7, <2>8, <2>9
<1>10. Cardinality(Unclear) <= 2
  <2>1. CASE Unclear = {}
    BY <1>8, <2>1
  <2>2. CASE \E x : <<x, "route">> \in Unclear
    <3>1. PICK x : <<x, "route">> \in Unclear
      BY <2>2
    <3>2. Unclear = {<<x, "route">>}
      BY <1>6, <3>1
    <3>3. Cardinality({<<x, "route">>}) = 1
      BY <1>7
    <3> QED BY <3>2, <3>3
  <2>3. CASE Unclear # {} /\ ~\E x : <<x, "route">> \in Unclear
    <3>1. PICK k \in Unclear : TRUE
      BY <2>3
    <3> DEFINE x == k[1]
               P == {<<x, "read">>} \union {<<x, "answer">>}
    <3>2. ASSUME NEW c \in Unclear PROVE c \in P
      <4>1. c = <<x, c[2]>> /\ c[2] \in CallStages
        BY <1>2, <1>3, <1>5
      <4>2. c[2] # "route"
        BY <2>3, <4>1
      <4> QED BY <4>1, <4>2 DEF CallStages
    <3>3. IsFiniteSet(P) /\ Cardinality(P) = 2
      <4>1. <<x, "answer">> \notin {<<x, "read">>}
        OBVIOUS
      <4>2. Cardinality({<<x, "read">>}) = 1 /\ IsFiniteSet({<<x, "read">>})
        BY <1>7
      <4>3. Cardinality(P) = 1 + 1 /\ IsFiniteSet(P)
        BY <4>1, <4>2, FS_AddElement
      <4> QED BY <4>3
    <3> HIDE DEF P
    <3> QED BY <3>2, <3>3, FS_Subset
  <2> QED BY <2>1, <2>2, <2>3
<1> QED BY <1>9, <1>10

\* What a step charges, and what it leaves unclear.
LEMMA Charges ==
  ASSUME PaidInv, NEW r \in Runners, StepOf(r)
  PROVE  /\ Charged \in SUBSET CallKeys /\ Unclear \in SUBSET CallKeys
         /\ Charged' \subseteq Charged \union {CurrentKey(r)} /\ Unclear' \subseteq Unclear \union {CurrentKey(r)}
         /\ ~Posted(r) => Charged' = Charged /\ Unclear' \subseteq Unclear
         /\ runner[r].at = "saved" => CurrentKey(r) \in Unclear
         /\ receipt'[CurrentKey(r)] = "succeeded" => CurrentKey(r) \notin Unclear'
<1> DEFINE k == CurrentKey(r)
<1>1. PaidTyped /\ ReceiptsFit /\ CallsAreOwned
  BY DEF PaidInv
<1>2. /\ \A c \in CallKeys : receipt[c] = "succeeded" => receipt'[c] = "succeeded"
      /\ \A c \in CallKeys : c = k \/ receipt'[c] = receipt[c]
  BY Accounts
<1>3. CASE Posted(r)
  <2>1. paid' = [paid EXCEPT ![k] = @ + 1] /\ paid \in [CallKeys -> Nat] /\ receipt' = receipt
        /\ runner[r].at = "posting"
    BY <1>1, <1>3 DEF Posted, PaidTyped
  <2>2. \A c \in CallKeys : c = k \/ paid'[c] = paid[c]
    BY <2>1
  <2> HIDE DEF k
  <2>3. Charged' \subseteq Charged \union {k} /\ Unclear' \subseteq Unclear \union {k}
    BY <2>1, <2>2 DEF Charged, Unclear
  <2> QED BY <1>3, <2>1, <2>3 DEF Charged, Unclear, k
<1>4. CASE ~Posted(r)
  <2>1. paid' = paid
    BY <1>4 DEF StepOf, Started, Skipped, Begun, Stopped, FilesKept, filed, Asked, Created, Received, Proceeded, Ended
  <2>2. Charged' = Charged /\ Unclear' \subseteq Unclear
    BY <1>2, <2>1 DEF Charged, Unclear
  <2>3. ASSUME runner[r].at = "saved" PROVE k \in Unclear
    <3>1. k \in CallKeys /\ receipt[k] = "submitting" /\ paid[k] = 1
      BY <1>1, <2>3, KeysFit DEF CallsAreOwned, Owning
    <3> HIDE DEF k
    <3> QED BY <3>1 DEF Unclear
  <2> QED BY <2>2, <2>3 DEF Charged, Unclear
<1> QED BY <1>3, <1>4

\* Nobody pays without having been within the costs before: what was charged has succeeded or
\* is unclear.
LEMMA CostsStayFit ==
  ASSUME PaidInv, NEW r \in Runners, StepOf(r)
  PROVE  CostsFit'
<1> DEFINE k == CurrentKey(r)
           n == Cardinality(Runners)
           Here == RunnersAt({"creating", "posting"})
           There == RunnersAt({"creating", "posting"})'
           Around == RunnersAt({"next", "calling", "creating", "posting"})
           Good == {c \in CallKeys : receipt[c] = "succeeded"}
<1>1. CostsFit /\ EndIsNear /\ Alone(r) /\ PaidTyped /\ Cap \in Nat /\ n \in Nat /\ n >= 1 /\ experiment' = experiment
  BY Accounts, CallsAreFinite, PaidAssumption DEF PaidInv
<1>2. /\ Here \in SUBSET Runners /\ There \in SUBSET Runners /\ Around \in SUBSET Runners
      /\ runner'[r].at \notin {"creating", "posting"} => There = Here \ {r}
      /\ runner[r].at \in {"creating", "posting"} => There \subseteq Here
      /\ r \in Here <=> runner[r].at \in {"creating", "posting"}
  <2>1. r \in Here <=> runner[r].at \in {"creating", "posting"}
    BY DEF RunnersAt
  <2>2. Around \in SUBSET Runners
    BY DEF RunnersAt
  <2> QED BY <1>1, <2>1, <2>2, PlacesChange
<1>3. /\ Charged \in SUBSET CallKeys /\ Unclear \in SUBSET CallKeys
      /\ Charged' \subseteq Charged \union {k}
      /\ ~Posted(r) => Charged' = Charged
  BY Charges
<1>4. Here \subseteq Around /\ (runner[r].at = "calling" => There \subseteq Around)
  <2>1. There \subseteq Here \union {r}
    BY <1>1, PlacesChange
  <2> QED BY <2>1 DEF RunnersAt
<1>5. Good \in SUBSET CallKeys /\ Charged \subseteq Good \union Unclear
  BY <1>3 DEF Charged, Unclear
<1>6. Spent = Cardinality(Good)
  BY DEF Spent
<1>7. Rules' = Rules
  BY <1>1, RulesStay
<1> HIDE DEF n, Here, There, Around, Good, k
<1> SUFFICES ASSUME Rules.capped
             PROVE  Cardinality(Charged') + Cardinality(There) < Cap + 2 * n
  BY <1>7 DEF CostsFit, There, n
<1>8. Cardinality(Charged) + Cardinality(Here) < Cap + 2 * n
  BY <1>1 DEF CostsFit, Here, n
<1>9. /\ Cardinality(Here) \in Nat /\ Cardinality(There) \in Nat /\ Cardinality(There) <= n
      /\ Cardinality(Around) \in Nat /\ IsFiniteSet(Around) /\ IsFiniteSet(Here)
      /\ r \in Here => Cardinality(Here \ {r}) = Cardinality(Here) - 1
  BY <1>2, CallsAreFinite, Counted DEF n
<1>10. /\ Cardinality(Charged) \in Nat /\ Cardinality(Unclear) \in Nat /\ Cardinality(Good) \in Nat
       /\ IsFiniteSet(Good) /\ IsFiniteSet(Unclear) /\ IsFiniteSet(Charged)
  BY <1>3, <1>5, CallsAreFinite, Counted
<1>11. There \subseteq Here => Cardinality(There) <= Cardinality(Here)
  BY <1>9, FS_Subset
<1>12. CASE Posted(r)
  <2>1. There = Here \ {r} /\ r \in Here
    BY <1>2, <1>12 DEF Posted
  <2>2. Cardinality(Charged') <= Cardinality(Charged) + 1 /\ Cardinality(Charged') \in Nat
    <3>1. IsFiniteSet(Charged \union {k}) /\ Cardinality(Charged \union {k}) <= Cardinality(Charged) + 1
      BY <1>3, CallsAreFinite, Counted
    <3>2. Cardinality(Charged') <= Cardinality(Charged \union {k}) /\ IsFiniteSet(Charged')
      BY <1>3, <3>1, FS_Subset
    <3>3. Cardinality(Charged') \in Nat /\ Cardinality(Charged \union {k}) \in Nat
      BY <3>1, <3>2, FS_CardinalityType
    <3> QED BY <1>10, <3>1, <3>2, <3>3
  <2> QED BY <1>1, <1>8, <1>9, <1>10, <2>1, <2>2
<1>13. CASE Asked(r)
  <2>1. Cardinality(Good) < Cap /\ Charged' = Charged /\ runner[r].at = "calling" /\ receipt[k] = "absent"
    BY <1>3, <1>6, <1>13 DEF Asked, Affordable, Posted, k
  <2>2. Cardinality(Charged) <= Cardinality(Good) + Cardinality(Unclear)
    <3>1. IsFiniteSet(Good \union Unclear)
          /\ Cardinality(Good \union Unclear) = Cardinality(Good) + Cardinality(Unclear) - Cardinality(Good \intersect Unclear)
      BY <1>10, FS_Union
    <3>2. Cardinality(Good \intersect Unclear) \in Nat /\ Cardinality(Good \union Unclear) \in Nat
      <4>1. IsFiniteSet(Good \intersect Unclear)
        BY <1>10, FS_Subset
      <4> QED BY <3>1, <4>1, FS_CardinalityType
    <3>3. Cardinality(Charged) <= Cardinality(Good \union Unclear)
      BY <1>5, <3>1, FS_Subset
    <3> QED BY <1>10, <3>1, <3>2, <3>3
  <2>3. Cardinality(Unclear) + Cardinality(There) <= 2 * n
    <3>1. CASE trace = <<>>
      <4>1. Cardinality(Unclear) <= 1
        BY <2>1, <3>1, UnclearAtFirst DEF k
      <4> QED BY <1>1, <1>9, <1>10, <4>1
    <3>2. CASE trace # <<>>
      <4>1. Cardinality(Unclear) + Cardinality(Around) <= n + 1
        BY <1>1, <3>2 DEF EndIsNear, Around, n
      <4>2. Cardinality(There) <= Cardinality(Around)
        BY <1>4, <1>9, <2>1, FS_Subset
      <4> QED BY <1>1, <1>9, <1>10, <4>1, <4>2
    <3> QED BY <3>1, <3>2
  <2> QED BY <1>1, <1>9, <1>10, <2>1, <2>2, <2>3
<1>14. CASE ~Posted(r) /\ ~Asked(r)
  <2>1. Charged' = Charged
    BY <1>3, <1>14
  <2>2. There \subseteq Here
    <3>1. CASE Created(r)
      BY <1>2, <3>1 DEF Created
    <3>2. CASE ~Created(r)
      <4>1. ASSUME NEW status \in {"succeeded", "failed"}, NEW goesOn \in BOOLEAN, Ended(r, status, goesOn)
            PROVE  runner'[r].at \notin {"creating", "posting"}
        BY <4>1 DEF Ended, Ends, Off
      <4>2. runner'[r].at \notin {"creating", "posting"}
        BY <1>14, <3>2, <4>1 DEF StepOf, Started, Skipped, Begun, Stopped, Off, Received, Proceeded
      <4> QED BY <1>2, <4>2
    <3> QED BY <3>1, <3>2
  <2> QED BY <1>1, <1>8, <1>9, <1>10, <1>11, <2>1, <2>2
<1> QED BY <1>12, <1>13, <1>14

\* Who ends the first row that is traced either stops or owned what was unclear; from then on
\* nobody starts again.
LEMMA EndStaysNear ==
  ASSUME PaidInv, NEW r \in Runners, StepOf(r)
  PROVE  EndIsNear'
<1> DEFINE k == CurrentKey(r)
           n == Cardinality(Runners)
           places == {"next", "calling", "creating", "posting"}
           Here == RunnersAt(places)
           There == RunnersAt(places)'
<1>1. EndIsNear /\ Alone(r) /\ PaidTyped /\ n \in Nat /\ n >= 1 /\ experiment' = experiment
  BY Accounts, CallsAreFinite DEF PaidInv
<1>2. /\ Here \in SUBSET Runners /\ There \in SUBSET Runners /\ There \subseteq Here \union {r}
      /\ runner'[r].at \notin places => There = Here \ {r}
      /\ runner[r].at \in places => There \subseteq Here
      /\ r \in Here <=> runner[r].at \in places
  <2>1. r \in Here <=> runner[r].at \in places
    BY DEF RunnersAt
  <2> HIDE DEF places
  <2> QED BY <1>1, <2>1, PlacesChange
<1>3. /\ Unclear \in SUBSET CallKeys /\ Unclear' \subseteq Unclear \union {k}
      /\ ~Posted(r) => Unclear' \subseteq Unclear
      /\ runner[r].at = "saved" => k \in Unclear
      /\ receipt'[k] = "succeeded" => k \notin Unclear'
  BY Charges
<1>4. Rules' = Rules
  BY <1>1, RulesStay
<1> HIDE DEF n, Here, There, k
<1> SUFFICES ASSUME Rules.capped, trace' # <<>>
             PROVE  Cardinality(Unclear') + Cardinality(There) <= n + 1
  BY <1>4 DEF EndIsNear, There, n
<1>5. /\ Cardinality(Here) \in Nat /\ Cardinality(There) \in Nat /\ Cardinality(There) <= n
      /\ IsFiniteSet(Here) /\ Cardinality(Here \union {r}) <= Cardinality(Here) + 1 /\ IsFiniteSet(Here \union {r})
      /\ r \in Here => Cardinality(Here \ {r}) = Cardinality(Here) - 1
  BY <1>2, CallsAreFinite, Counted DEF n
<1>6. /\ Cardinality(Unclear) \in Nat /\ IsFiniteSet(Unclear)
      /\ Cardinality(Unclear \union {k}) <= Cardinality(Unclear) + 1 /\ IsFiniteSet(Unclear \union {k})
      /\ k \in Unclear => Cardinality(Unclear \ {k}) = Cardinality(Unclear) - 1
  BY <1>3, CallsAreFinite, Counted
<1>7. /\ Cardinality(Unclear') \in Nat /\ Cardinality(Unclear') <= Cardinality(Unclear) + 1
      /\ ~Posted(r) => Cardinality(Unclear') <= Cardinality(Unclear)
      /\ ~Posted(r) /\ k \in Unclear /\ k \notin Unclear' => Cardinality(Unclear') <= Cardinality(Unclear) - 1
  <2>1. Cardinality(Unclear') <= Cardinality(Unclear \union {k}) /\ IsFiniteSet(Unclear')
    BY <1>3, <1>6, FS_Subset
  <2>2. Cardinality(Unclear') \in Nat /\ Cardinality(Unclear \union {k}) \in Nat
    BY <1>6, <2>1, FS_CardinalityType
  <2>3. ASSUME ~Posted(r) PROVE Cardinality(Unclear') <= Cardinality(Unclear)
    BY <1>3, <1>6, <2>3, FS_Subset
  <2>4. ASSUME ~Posted(r), k \in Unclear, k \notin Unclear' PROVE Cardinality(Unclear') <= Cardinality(Unclear) - 1
    <3>1. Unclear' \subseteq Unclear \ {k} /\ IsFiniteSet(Unclear \ {k})
      BY <1>3, <1>6, <2>4, FS_Subset
    <3>2. Cardinality(Unclear') <= Cardinality(Unclear \ {k})
      BY <3>1, FS_Subset
    <3> QED BY <1>6, <2>4, <3>2
  <2> QED BY <1>6, <2>1, <2>2, <2>3, <2>4
<1>8. /\ There \subseteq Here => Cardinality(There) <= Cardinality(Here)
      /\ Cardinality(There) <= Cardinality(Here) + 1
      /\ r \notin There => Cardinality(There) <= n - 1
  <2>1. There \subseteq Here => Cardinality(There) <= Cardinality(Here)
    BY <1>5, FS_Subset
  <2>2. Cardinality(There) <= Cardinality(Here \union {r}) /\ Cardinality(Here \union {r}) \in Nat
    BY <1>2, <1>5, FS_Subset, FS_CardinalityType
  <2>3. ASSUME r \notin There PROVE Cardinality(There) <= n - 1
    <3>1. Cardinality(Runners \ {r}) = n - 1 /\ IsFiniteSet(Runners \ {r})
      BY CallsAreFinite, Counted, FS_Subset DEF n
    <3>2. There \subseteq Runners \ {r}
      BY <1>2, <2>3
    <3> QED BY <3>1, <3>2, FS_Subset
  <2> QED BY <1>5, <2>1, <2>2, <2>3
<1>9. ASSUME NEW status \in {"succeeded", "failed"}, NEW goesOn \in BOOLEAN, Ended(r, status, goesOn)
      PROVE  /\ ~goesOn => r \notin There
             /\ goesOn => receipt'[k] = "succeeded" /\ (CurrentRow(r) \in Setup \/ runner[r].at = "saved")
             /\ runner[r].at \in {"calling", "creating", "saved", "refused"} /\ ~Posted(r)
  <2>1. ~goesOn => runner'[r] = Off
    BY <1>9 DEF Ended, Ends
  <2>2. ~goesOn => r \notin There
    BY <2>1 DEF There, RunnersAt, Off
  <2>3. goesOn => receipt'[k] = "succeeded" /\ (CurrentRow(r) \in Setup \/ runner[r].at = "saved")
    BY <1>9 DEF Ended, k
  <2>4. runner[r].at \in {"calling", "creating", "saved", "refused"}
    BY <1>9 DEF Ended
  <2> QED BY <2>2, <2>3, <2>4 DEF Posted
<1>10. CASE trace = <<>>
  <2>1. PICK status \in {"succeeded", "failed"}, goesOn \in BOOLEAN : Ended(r, status, goesOn)
    BY <1>10 DEF StepOf, Started, Skipped, Begun, Stopped, FilesKept, Asked, Created, Posted, Received, SameCall, Proceeded
  <2>2. CurrentRow(r) \notin Setup
    BY <1>10, <2>1 DEF Ended, Ends
  <2>3. Cardinality(Unclear) <= 2
    BY <1>10, UnclearAtFirst
  <2>4. CASE goesOn
    <3>1. k \in Unclear /\ k \notin Unclear' /\ ~Posted(r)
      BY <1>3, <1>9, <2>1, <2>2, <2>4
    <3> QED BY <1>1, <1>5, <1>6, <1>7, <2>3, <3>1
  <2>5. CASE ~goesOn
    BY <1>1, <1>5, <1>6, <1>7, <1>8, <1>9, <2>1, <2>3, <2>5
  <2> QED BY <2>4, <2>5
<1>11. CASE trace # <<>>
  <2>1. Cardinality(Unclear) + Cardinality(Here) <= n + 1
    BY <1>1, <1>11 DEF EndIsNear, Here, n
  <2>2. CASE Posted(r)
    <3>1. There = Here \ {r} /\ r \in Here
      BY <1>2, <2>2 DEF Posted
    <3> QED BY <1>1, <1>5, <1>6, <1>7, <2>1, <3>1
  <2>3. CASE Skipped(r) \/ Begun(r) \/ Stopped(r) \/ Asked(r) \/ Created(r) \/ Received(r)
    <3>1. There \subseteq Here
      BY <1>2, <2>3 DEF Skipped, Begun, Stopped, Off, Asked, Created, Received
    <3>2. ~Posted(r)
      BY <2>3 DEF Skipped, Begun, Stopped, Off, Asked, Created, Received, Posted
    <3> QED BY <1>1, <1>5, <1>6, <1>7, <1>8, <2>1, <3>1, <3>2
  <2>4. CASE Proceeded(r)
    <3>1. ~Posted(r) /\ runner[r].at \in {"calling", "saved"}
      BY <2>4 DEF Proceeded, Posted
    <3>2. CASE runner[r].at = "calling"
      BY <1>1, <1>2, <1>5, <1>6, <1>7, <1>8, <2>1, <3>1, <3>2
    <3>3. CASE runner[r].at = "saved"
      <4>1. k \in CallKeys /\ receipt'[k] = "succeeded"
        BY <1>1, <2>4, <3>3, KeysFit DEF Proceeded, Settled, k, PaidTyped
      <4> QED BY <1>1, <1>3, <1>5, <1>6, <1>7, <1>8, <2>1, <3>1, <3>3, <4>1
    <3> QED BY <3>1, <3>2, <3>3
  <2>5. ASSUME NEW status \in {"succeeded", "failed"}, NEW goesOn \in BOOLEAN, Ended(r, status, goesOn)
        PROVE  Cardinality(Unclear') + Cardinality(There) <= n + 1
    <3>1. CASE runner[r].at \in {"calling", "creating"}
      BY <1>1, <1>2, <1>5, <1>6, <1>7, <1>8, <1>9, <2>1, <2>5, <3>1
    <3>2. CASE runner[r].at \in {"saved", "refused"} /\ goesOn
      <4>1. runner[r].at = "saved" /\ receipt'[k] = "succeeded" /\ ~Posted(r)
        <5>1. ASSUME runner[r].at = "refused" PROVE FALSE
          <6>1. receipt' = [receipt EXCEPT ![k] = "failed"] /\ k \in CallKeys /\ receipt'[k] = "succeeded"
            BY <1>1, <1>9, <2>5, <3>2, <5>1, KeysFit DEF Ended, k
          <6> QED BY <1>1, <6>1 DEF PaidTyped
        <5> QED BY <1>9, <2>5, <3>2, <5>1
      <4> QED BY <1>1, <1>3, <1>5, <1>6, <1>7, <1>8, <2>1, <4>1
    <3>3. CASE ~goesOn
      <4>1. There \subseteq Here
        BY <1>2, <1>9, <2>5, <3>3
      <4> QED BY <1>1, <1>5, <1>6, <1>7, <1>8, <1>9, <2>1, <2>5, <4>1
    <3> QED BY <1>9, <2>5, <3>1, <3>2, <3>3
  <2>6. ~Started(r)
    BY <1>1, <1>11, RulesFit DEF Started, PaidTyped
  <2> QED BY <2>2, <2>3, <2>4, <2>5, <2>6 DEF StepOf
<1> QED BY <1>10, <1>11

--------------------------------------------------------------------------------
\* Nothing was called, traced or done before the first start; an experiment may have taken
\* over the results of its setup.
LEMMA NothingPaid == PaidInit => PaidInv
<1> SUFFICES ASSUME PaidInit PROVE PaidInv OBVIOUS
<1> DEFINE n == Cardinality(Runners)
<1>1. n \in Nat /\ n >= 1 /\ Cardinality({}) = 0 /\ MaxCalls \in Nat /\ Cap \in Nat
  BY CallsAreFinite, FS_EmptySet, PaidAssumption
<1>2. \A r \in Runners : runner[r] = Off /\ runner[r].at = "off" /\ runner[r].done = {}
  BY DEF PaidInit, Off
<1>3. \A k \in CallKeys : receipt[k] = "absent" /\ paid[k] = 0
  BY DEF PaidInit
<1>4. Made = {} /\ Charged = {} /\ Unclear = {}
  BY <1>3 DEF Made, Charged, Unclear
<1>5. /\ RunnersAt({"creating"}) = {} /\ RunnersAt({"creating", "posting"}) = {}
      /\ RunnersAt({"next", "calling", "creating", "posting"}) = {}
  BY <1>2 DEF RunnersAt
<1>6. PaidTyped
  <2>1. Off \in RunnerState
    BY RowsHavePlaces DEF Off, RunnerState, CallStages
  <2>2. trace \in Seq(TraceRow) /\ saved \subseteq Setup
    BY DEF PaidInit
  <2> QED BY <1>2, <2>1, <2>2 DEF PaidInit, PaidTyped
<1>7. ReceiptsFit
  <2>1. \A x \in Listed, s \in CallStages : <<x, s>> \in CallKeys
    BY DEF CallKeys, Listed, CallStages
  <2> QED BY <1>3, <2>1 DEF ReceiptsFit
<1>8. CallsAreOwned /\ WorkFits /\ DoneFits /\ StatesKept
  BY <1>2 DEF CallsAreOwned, WorkFits, DoneFits, StatesKept, Owning
<1>9. TraceFits
  BY DEF PaidInit, TraceFits
<1>10. CallsFit /\ CostsFit
  <2>1. Cardinality(Made) = 0 /\ Cardinality(Charged) = 0 /\ Cardinality(RunnersAt({"creating"})) = 0
        /\ Cardinality(RunnersAt({"creating", "posting"})) = 0
    BY <1>1, <1>4, <1>5
  <2> QED BY <1>1, <2>1 DEF CallsFit, CostsFit
<1>11. EndIsNear /\ SetupFirst
  BY <1>2, <1>4 DEF EndIsNear, SetupFirst, PaidInit
<1> QED BY <1>6, <1>7, <1>8, <1>9, <1>10, <1>11 DEF PaidInv

\* Every step of a runner keeps the invariant.
LEMMA PaidStays == PaidInv /\ [PaidNext]_paidVars => PaidInv'
<1> SUFFICES ASSUME PaidInv, [PaidNext]_paidVars PROVE PaidInv' OBVIOUS
<1>1. CASE PaidNext
  <2>1. PICK r \in Runners : StepOf(r)
    BY <1>1, StepsAreKnown DEF PaidInv
  <2> QED BY <2>1, TypeStays, ReceiptsStay, CallsStayOwned, WorkStaysFit, TraceStaysFit, CallsStayFit, CostsStayFit,
             EndStaysNear, SetupStaysFirst, DoneStaysFit, StatesStayKept DEF PaidInv
<1>2. CASE UNCHANGED paidVars
  <2> USE <1>2 DEF paidVars, filed
  <2>1. Rules' = Rules
    BY DEF Rules
  <2>2. PaidTyped' /\ ReceiptsFit' /\ CallsAreOwned'
    BY <2>1 DEF PaidInv, PaidTyped, ReceiptsFit, CallsAreOwned, CurrentKey, CurrentRow, Succeeded, HasRoute
  <2>3. WorkFits' /\ TraceFits' /\ DoneFits'
    BY <2>1 DEF PaidInv, WorkFits, TraceFits, RowFits, DoneFits, CurrentRow, Succeeded, HasRoute
  <2>4. CallsFit' /\ CostsFit' /\ EndIsNear'
    BY <2>1 DEF PaidInv, CallsFit, CostsFit, EndIsNear, Made, Charged, Unclear, RunnersAt
  <2>5. SetupFirst'
    BY <2>1 DEF PaidInv, SetupFirst, Cleared, Succeeded, Made
  <2>6. StatesKept'
    <3>1. ASSUME NEW r \in Runners, runner'[r].at # "off"
          PROVE  DoneIsKnown(r)' /\ StateIsKnown(r)' /\ StateIsFull(r)' /\ ReadsAnew(r)'
      <4>1. DoneIsKnown(r) /\ StateIsKnown(r) /\ StateIsFull(r) /\ ReadsAnew(r)
        BY <3>1 DEF PaidInv, StatesKept
      <4>2. \A x : (WentBy(r, x)' <=> WentBy(r, x)) /\ Traced(x)' = Traced(x)
        BY DEF WentBy, Traced, Min
      <4>3. DoneIsKnown(r)' /\ ReadsAnew(r)'
        BY <2>1, <4>1, <4>2 DEF DoneIsKnown, ReadsAnew, CurrentRow
      <4>4. \A n : ReadAndKept(trace[n])' <=> ReadAndKept(trace[n])
        BY <2>1 DEF ReadAndKept
      <4>5. StateIsKnown(r)' /\ StateIsFull(r)'
        BY <2>1, <4>1, <4>2, <4>4 DEF StateIsKnown, StateIsFull
      <4> QED BY <4>3, <4>5
    <3> QED BY <3>1 DEF StatesKept
  <2> QED BY <2>2, <2>3, <2>4, <2>5, <2>6 DEF PaidInv
<1> QED BY <1>1, <1>2

\* The invariant says that a resumed experiment is faithful.
LEMMA PaidInvIsFaithful == PaidInv => ResumedFaithfully
<1> SUFFICES ASSUME PaidInv PROVE PaidOnce /\ ReadingsAreReused BY DEF ResumedFaithfully
<1>1. PaidTyped /\ ReceiptsFit /\ TraceFits /\ CallsFit /\ CostsFit /\ DoneFits /\ StatesKept
      /\ trace \in Seq(TraceRow)
  BY DEF PaidInv, PaidTyped
<1>2. PaidOnce
  <2>1. Receipts = Cardinality(Made)
    BY DEF Receipts, Made
  <2>2. Receipts < MaxCalls + Cardinality(Runners)
    <3>1. Cardinality(Made) \in Nat /\ Cardinality(RunnersAt({"creating"})) \in Nat
      <4>1. Made \in SUBSET CallKeys /\ RunnersAt({"creating"}) \in SUBSET Runners
        BY DEF Made, RunnersAt
      <4> QED BY <4>1, CallsAreFinite, Counted
    <3> QED BY <1>1, <2>1, <3>1, CallsAreFinite, PaidAssumption DEF CallsFit
  <2>3. Rules.capped => Cardinality({k \in CallKeys : paid[k] > 0}) < Cap + 2 * Cardinality(Runners)
    <3>1. Cardinality(Charged) \in Nat /\ Cardinality(RunnersAt({"creating", "posting"})) \in Nat
      <4>1. Charged \in SUBSET CallKeys /\ RunnersAt({"creating", "posting"}) \in SUBSET Runners
        BY DEF Charged, RunnersAt
      <4> QED BY <4>1, CallsAreFinite, Counted
    <3>2. Rules.capped => Cardinality(Charged) < Cap + 2 * Cardinality(Runners)
      BY <1>1, <3>1, CallsAreFinite, PaidAssumption DEF CostsFit
    <3> QED BY <3>2 DEF Charged
  <2>4. ASSUME NEW t \in ToSet(trace), t.status = "succeeded"
        PROVE  /\ <<t.row, "answer">> \in response
               /\ t.read => <<t.row, "read">> \in response
               /\ t.row \in Routed /\ "route" \in Rules.stages => <<t.row, "route">> \in response
    <3>1. t \in TraceRow /\ RowFits(t)
      BY <1>1 DEF ToSet, TraceFits
    <3>2. \A s \in CallStages : Succeeded(t.row, s) => <<t.row, s>> \in response
      BY <1>1, <3>1 DEF Succeeded, ReceiptsFit, CallKeys, CallStages, Listed, TraceRow
    <3> QED BY <2>4, <3>1, <3>2 DEF RowFits, HasRoute, CallStages
  <2> QED BY <1>1, <2>2, <2>3, <2>4 DEF PaidOnce, ReceiptsFit
<1>3. ReadingsAreReused
  <2> SUFFICES ASSUME NEW r \in Runners, runner[r].at = "calling",
                      NEW x \in runner[r].done \intersect ToSet(SubSeq(Rows, 1, runner[r].row - 1))
               PROVE  /\ x \in Routed =>
                           IF x \in runner[r].earlier THEN x \in runner[r].state <=> Rules.recovers /\ Traced(x).read
                           ELSE /\ (\A t \in ToSet(trace) : t.row = x => ReadAndKept(t)) => x \in runner[r].state
                                /\ x \in runner[r].state => \E t \in ToSet(trace) : t.row = x /\ ReadAndKept(t)
                      /\ Rules.caches /\ runner[r].stage = "read" /\ <<CurrentRow(r), x>> \in Repeats =>
                           x \in runner[r].earlier \/ \E t \in ToSet(trace) : t.row = x /\ ~t.read
    BY DEF ReadingsAreReused, ReadAndKept
  <2>1. runner[r].row \in 1..Len(Rows)
    BY <1>1, KeysFit
  <2>2. PICK i \in 1..(runner[r].row - 1) : Rows[i] = x
    <3> DEFINE m == runner[r].row - 1
               before == SubSeq(Rows, 1, m)
    <3>1. m \in Int /\ (1 <= m => m - 1 + 1 = m) /\ \A j \in 1..m : Rows[j] \in Listed
      BY <2>1, RowsHavePlaces
    <3>2. /\ before \in Seq(Listed) /\ Len(before) = (IF 1 <= m THEN m - 1 + 1 ELSE 0)
          /\ \A j \in 1..(m - 1 + 1) : before[j] = Rows[1 + j - 1]
      BY <3>1, SubSeqProperties
    <3>3. PICK j \in DOMAIN before : before[j] = x
      BY DEF ToSet
    <3> HIDE DEF before
    <3>4. j \in 1..m
      BY <2>1, <3>1, <3>2, <3>3
    <3>5. Rows[j] = x
      BY <3>1, <3>2, <3>3, <3>4
    <3> QED BY <3>4, <3>5
  <2>3. WentBy(r, x) /\ StateIsKnown(r) /\ StateIsFull(r) /\ ReadsAnew(r)
    BY <1>1, <2>2 DEF StatesKept, WentBy
  <2>4. \A n \in DOMAIN trace : trace[n] \in ToSet(trace) /\ trace[n] \in TraceRow
    BY <1>1 DEF ToSet
  <2>5. x \in Routed /\ x \notin runner[r].state /\ x \notin runner[r].earlier =>
          \E t \in ToSet(trace) : t.row = x /\ ~ReadAndKept(t)
    BY <2>3, <2>4 DEF StateIsFull
  <2>6. x \in runner[r].state /\ x \notin runner[r].earlier => \E t \in ToSet(trace) : t.row = x /\ ReadAndKept(t)
    BY <2>3, <2>4 DEF StateIsKnown
  <2>7. x \in Routed /\ x \in runner[r].earlier => (x \in runner[r].state <=> Rules.recovers /\ Traced(x).read)
    BY <2>3 DEF StateIsFull, StateIsKnown
  <2>8. ASSUME Rules.caches, runner[r].stage = "read", <<CurrentRow(r), x>> \in Repeats, x \notin runner[r].earlier
        PROVE  \E t \in ToSet(trace) : t.row = x /\ ~t.read
    <3>1. x \in Routed /\ x \notin runner[r].state
      BY <2>3, <2>8, RowsHavePlaces DEF ReadsAnew
    <3>2. Rules.keeps
      BY <1>1, <2>8, RulesFit DEF PaidTyped
    <3> QED BY <2>5, <2>8, <3>1, <3>2 DEF ReadAndKept
  <2> QED BY <2>5, <2>6, <2>7, <2>8
<1> QED BY <1>2, <1>3

\* An experiment that died, stopped or runs twice pays no call twice, keeps its budgets but for
\* what runs at the same time, and knows of the earlier rows what its runner takes from them:
\* all that its own run read and keeps, and after a death what the trace says, or nothing.
THEOREM PaidOnceAndForAll == PaidSpec => []ResumedFaithfully
BY NothingPaid, PaidStays, PaidInvIsFaithful, PTL DEF PaidSpec
===============================================================================
