---------------------------- MODULE PaidExperiment ----------------------------
(* Experiments whose model calls are paid (evaluation/): a runner works through its    *)
(* rows, one case under one arm each, and pays for every call with a receipt that it    *)
(* writes before it submits. It may die or stop at any point and be started again,       *)
(* or be started twice.                                                                  *)
EXTENDS Naturals, Sequences, SequencesExt, FiniteSets

CONSTANTS Runners,     \* processes that run the experiment
          Setup,       \* its first rows: observations and captions all others share
          Rows,        \* all its rows, in the order the seed gives
          Routed,      \* rows of the arm that decides whether to read the image
          Reading,     \* rows of the arm that always reads it
          Repeats,     \* pairs of routed rows: the first asks what the second one asked
          Experiments, \* the runners that are considered
          MaxCalls,    \* the budget of calls
          Cap,         \* and of money, for the runners that estimate it
          MaxStarts    \* bound: runs of the experiment

ASSUME PaidAssumption ==
  /\ IsFiniteSet(Runners) /\ Runners # {}
  /\ Rows \in Seq(ToSet(Rows)) /\ \A i, j \in DOMAIN Rows : Rows[i] = Rows[j] => i = j
  /\ Repeats \subseteq Routed \X Routed /\ Setup \union Routed \union Reading \subseteq ToSet(Rows)
  /\ Setup \intersect Routed = {}
  /\ Experiments \subseteq {"observation", "effect", "fix", "e3", "e4", "bracelets", "links", "evidence"}
  /\ MaxCalls \in Nat /\ Cap \in Nat

VARIABLES experiment,\* which one it is
          receipt,   \* the receipt of each call: absent, submitting, succeeded or failed
          response,  \* calls whose response is saved
          paid,      \* how often each call was submitted
          saved,     \* setup rows whose result is saved
          trace,     \* the rows of trace.jsonl
          runner,    \* what each process does
          starts

filed == <<experiment, receipt, response, paid>>
paidVars == <<filed, saved, trace, runner, starts>>

\* What the runners make of the files of an earlier run, of a response that is not of the
\* expected form, and of their budgets.
\*   resumes      goes on with the rows that are not in the trace
\*   reuses       takes the saved results of the setup
\*   setupReplays accepts a saved response in the setup
\*   rowReplays   accepts one in a row, or fails the row, or stops
\*   lenientSetup goes on after an invalid setup
\*   lenient      goes on after an invalid row
\*   keeps        what an invalid row read is in the state of its arm
\*   overspends   goes on when the calls are used up
\*   capped       estimates the costs before every call
\*   recovers     takes what was read from the trace
\*   caches       takes for a repeated question what the run itself has read
Observation ==
  [stages |-> {"route", "read", "answer"}, resumes |-> TRUE, reuses |-> TRUE,
   setupReplays |-> TRUE, rowReplays |-> "fails", lenientSetup |-> FALSE, lenient |-> TRUE,
   keeps |-> FALSE, overspends |-> FALSE, capped |-> FALSE, recovers |-> TRUE,
   caches |-> FALSE]
Effect ==
  [Observation EXCEPT !.stages = {"read", "answer"}, !.reuses = FALSE, !.rowReplays = "accepts",
                      !.keeps = TRUE, !.overspends = TRUE, !.recovers = FALSE, !.caches = TRUE]
FixV3 ==
  [Observation EXCEPT !.resumes = FALSE, !.rowReplays = "stops", !.keeps = TRUE]
E4 ==
  [FixV3 EXCEPT !.reuses = FALSE, !.setupReplays = FALSE, !.lenient = FALSE, !.capped = TRUE]
E3 == [E4 EXCEPT !.stages = {"read", "answer"}]
Bracelets == [FixV3 EXCEPT !.reuses = FALSE, !.lenientSetup = TRUE, !.capped = TRUE]
Links ==
  [Bracelets EXCEPT !.stages = {"answer"}, !.setupReplays = FALSE]
\* (When its setup is not taken over from the experiment before.)
Evidence ==
  [Links EXCEPT !.stages = {"read", "answer"}, !.lenient = FALSE]
Rules == [observation |-> Observation, effect |-> Effect, fix |-> FixV3, e3 |-> E3, e4 |-> E4,
          bracelets |-> Bracelets, links |-> Links, evidence |-> Evidence][experiment]

CallKeys == ToSet(Rows) \X {"route", "read", "answer"}
Off == [at |-> "off", row |-> 0, stage |-> "answer", read |-> FALSE, done |-> {}, earlier |-> {}, state |-> {}]

PaidInit ==
  /\ experiment \in Experiments
  /\ receipt = [k \in CallKeys |-> "absent"] /\ response = {} /\ paid = [k \in CallKeys |-> 0]
  /\ saved = (IF experiment = "fix" THEN Setup ELSE {})  \* prepared from an earlier experiment
  /\ trace = <<>> /\ runner = [r \in Runners |-> Off] /\ starts = 0

CurrentRow(r) == Rows[runner[r].row]
CurrentKey(r) == <<CurrentRow(r), runner[r].stage>>
\* The run has read what the row asks.
AlreadyRead(r, x) == Rules.caches /\ \E y \in runner[r].state : <<x, y>> \in Repeats
FirstStages(r, x) ==
  IF x \in Setup \/ AlreadyRead(r, x) THEN {"answer"}
  ELSE IF x \in Routed THEN IF "route" \in Rules.stages THEN {"route"} ELSE Rules.stages
  ELSE IF x \in Reading THEN {IF "read" \in Rules.stages THEN "read" ELSE "answer"}
  ELSE {"answer"}
\* The first row of the trace for x.
Traced(x) == trace[Min({n \in DOMAIN trace : trace[n].row = x})]
RunnerAt(r, to) == runner' = [runner EXCEPT ![r].at = to]

--------------------------------------------------------------------------------
\* Only a run that resumes begins in a directory with a trace; two others look for more.
Untouched ==
  /\ trace = <<>>
  /\ experiment = "e3" => \A k \in CallKeys : receipt[k] = "absent"
  /\ experiment = "links" => saved = {}
StartRunner(r) ==
  /\ runner[r].at = "off" /\ starts < MaxStarts /\ starts' = starts + 1
  /\ Rules.resumes \/ Untouched
  /\ LET old == {t.row : t \in ToSet(trace)} IN
     runner' = [runner EXCEPT ![r] =
       [Off EXCEPT !.at = "next", !.row = 1, !.earlier = old,
                   !.done = old \union (IF Rules.reuses THEN saved ELSE {})]]
  /\ UNCHANGED <<filed, saved, trace>>

\* What an earlier run had observed for a finished row, whether the row succeeded or not.
Recovered(x) == IF Rules.recovers /\ x \in Routed /\ Traced(x).read THEN {x} ELSE {}

SkipRow(r) ==
  /\ runner[r].at = "next" /\ runner[r].row <= Len(Rows) /\ CurrentRow(r) \in runner[r].done
  /\ runner' = [runner EXCEPT ![r].row = @ + 1, ![r].state = @ \union Recovered(CurrentRow(r))]
  /\ UNCHANGED <<filed, saved, trace, starts>>

BeginRow(r) ==
  /\ runner[r].at = "next" /\ runner[r].row <= Len(Rows) /\ CurrentRow(r) \notin runner[r].done
  /\ \E stage \in FirstStages(r, CurrentRow(r)) :
       runner' = [runner EXCEPT ![r].at = "calling", ![r].stage = stage, ![r].read = FALSE]
  /\ UNCHANGED <<filed, saved, trace, starts>>

FinishRun(r) ==
  /\ runner[r].at = "next" /\ runner[r].row > Len(Rows)
  /\ runner' = [runner EXCEPT ![r] = Off]
  /\ UNCHANGED <<filed, saved, trace, starts>>

\* The row ends: it enters the trace, or the results of the setup are saved, and the run
\* goes on with the next row or stops.
EndRow(r, status, goesOn) ==
  LET x == CurrentRow(r)
      old == runner[r]
      read == old.read
      kept == IF x \in Routed /\ read /\ (status = "succeeded" \/ Rules.keeps) THEN {x} ELSE {}
  IN /\ IF x \in Setup
        THEN saved' = (IF goesOn THEN saved \union {x} ELSE saved) /\ UNCHANGED trace
        ELSE trace' = Append(trace, [row |-> x, status |-> status, read |-> read]) /\ UNCHANGED saved
     /\ runner' = [runner EXCEPT ![r] =
          IF goesOn THEN [old EXCEPT !.at = "next", !.row = old.row + 1, !.done = old.done \union {x},
                                     !.state = old.state \union kept]
          ELSE Off]
RunnerStops(r) == EndRow(r, "failed", FALSE)
RunnerGoes(r, to, stage, read) ==
  /\ runner' = [runner EXCEPT ![r].at = to, ![r].stage = stage, ![r].read = read]
  /\ UNCHANGED <<saved, trace>>

\* What a call returned is used: the router decides, the image is read, the answer is
\* checked. Any of them may not be of the expected form.
UsesResponse(r) ==
  LET inSetup == CurrentRow(r) \in Setup IN
  \/ runner[r].stage = "route" /\ \E stage \in {"read", "answer"} : RunnerGoes(r, "calling", stage, FALSE)
  \/ runner[r].stage = "read" /\ RunnerGoes(r, "calling", "answer", TRUE)
  \/ runner[r].stage = "answer" /\ EndRow(r, "succeeded", TRUE)
  \/ EndRow(r, "failed", IF inSetup THEN Rules.lenientSetup ELSE Rules.lenient)
AcceptsReplay(r) ==
  IF CurrentRow(r) \in Setup THEN Rules.setupReplays ELSE Rules.rowReplays = "accepts"

--------------------------------------------------------------------------------
\* Provider.call: a call with a receipt is not submitted again, whatever became of it; the
\* saved response of one that succeeded is replayed, unless the same key now asks something
\* else. (Receipts that a death left half written are not in the model.)
Receipts == Cardinality({k \in CallKeys : receipt[k] # "absent"})
Spent == Cardinality({k \in CallKeys : receipt[k] = "succeeded"})
Affordable == Rules.capped => Spent < Cap
LookUp(r) ==
  LET k == CurrentKey(r)
      inSetup == CurrentRow(r) \in Setup
  IN
  /\ runner[r].at = "calling"
  /\ CASE ~Affordable -> RunnerStops(r)
       [] Affordable /\ receipt[k] = "absent" ->
            IF Receipts < MaxCalls THEN RunnerGoes(r, "creating", runner[r].stage, runner[r].read)
            ELSE EndRow(r, "failed", Rules.overspends /\ ~inSetup)
       [] Affordable /\ receipt[k] = "succeeded" ->
            \/ RunnerStops(r)
            \/ IF AcceptsReplay(r) THEN UsesResponse(r)
               ELSE EndRow(r, "failed", Rules.rowReplays = "fails" /\ ~inSetup)
       [] Affordable /\ receipt[k] \in {"submitting", "failed"} -> RunnerStops(r)
  /\ UNCHANGED <<filed, starts>>

\* The receipt is created before the call is submitted, and by one process only.
Overwrites(k) == TRUE
Exclusive(k) == receipt[k] = "absent"
CreateReceipt(r) ==
  LET k == CurrentKey(r) IN
  /\ runner[r].at = "creating"
  /\ IF Exclusive(k)
     THEN receipt' = [receipt EXCEPT ![k] = "submitting"] /\ RunnerAt(r, "posting") /\ UNCHANGED <<saved, trace>>
     ELSE RunnerStops(r) /\ UNCHANGED receipt
  /\ UNCHANGED <<experiment, response, paid, starts>>

\* The provider has it, and may charge for it whatever comes back.
Post(r) ==
  /\ runner[r].at = "posting"
  /\ paid' = [paid EXCEPT ![CurrentKey(r)] = @ + 1]
  /\ \E to \in {"saving", "refused"} : RunnerAt(r, to)
  /\ UNCHANGED <<experiment, receipt, response, saved, trace, starts>>

SaveResponse(r) ==
  /\ runner[r].at = "saving" /\ response' = response \union {CurrentKey(r)} /\ RunnerAt(r, "saved")
  /\ UNCHANGED <<experiment, receipt, paid, saved, trace, starts>>
SaveReceipt(r) ==
  /\ runner[r].at = "saved"
  /\ receipt' = [receipt EXCEPT ![CurrentKey(r)] = "succeeded"]
  /\ UsesResponse(r)
  /\ UNCHANGED <<experiment, response, paid, starts>>

\* An error, a refusal or a broken response: nobody knows whether it was charged, the
\* run stops.
CallFails(r) ==
  /\ runner[r].at = "refused"
  /\ receipt' = [receipt EXCEPT ![CurrentKey(r)] = "failed"]
  /\ RunnerStops(r)
  /\ UNCHANGED <<experiment, response, paid, starts>>

Kill(r) ==
  /\ runner[r].at # "off" /\ runner' = [runner EXCEPT ![r] = Off]
  /\ UNCHANGED <<filed, saved, trace, starts>>

PaidNext ==
  \E r \in Runners : \/ StartRunner(r) \/ SkipRow(r) \/ BeginRow(r) \/ FinishRun(r) \/ LookUp(r)
                     \/ CreateReceipt(r) \/ Post(r) \/ SaveResponse(r) \/ SaveReceipt(r)
                     \/ CallFails(r) \/ Kill(r)
PaidSpec == PaidInit /\ [][PaidNext]_paidVars

--------------------------------------------------------------------------------
\* No call is paid twice, whatever died, stopped or ran twice, and the budgets hold but
\* for what runs at the same time ("One attempt per call key. An uncertain submit never
\* retries automatically", image_rag_provider.py). A row only counts as succeeded when
\* all it rests on was received.
PaidOnce ==
  /\ \A k \in CallKeys : paid[k] <= 1
  /\ Receipts < MaxCalls + Cardinality(Runners)
  /\ Rules.capped => Cardinality({k \in CallKeys : paid[k] > 0}) < Cap + 2 * Cardinality(Runners)
  /\ \A t \in ToSet(trace) : t.status = "succeeded" =>
       /\ <<t.row, "answer">> \in response
       /\ t.read => <<t.row, "read">> \in response
       /\ t.row \in Routed /\ "route" \in Rules.stages => <<t.row, "route">> \in response

\* What the arm that reads on demand knows when it is asked: of the rows of its own run
\* what they read and it keeps, neither less nor more, and of the rows of an earlier run
\* all that they read if the runner takes readings from the trace, nothing otherwise. So
\* the two runners that resume measure something else after a death: the one of
\* run_visual_observation.py also knows what rows read that failed afterwards
\* (:156-158 against :190), and the one of run_image_rag_effect.py has an empty cache
\* (:154 returns before :182). The latter reads again for a repeated question, and only if
\* an earlier run or a row that has not read asked it first.
ReadingsAreReused ==
  \A r \in Runners : runner[r].at = "calling" =>
    LET before == ToSet(SubSeq(Rows, 1, runner[r].row - 1))
        Kept(t) == t.read /\ (t.status = "succeeded" \/ Rules.keeps)
    IN
    /\ \A x \in runner[r].done \intersect Routed \intersect before :
         IF x \in runner[r].earlier THEN x \in runner[r].state <=> Rules.recovers /\ Traced(x).read
         ELSE /\ (\A t \in ToSet(trace) : t.row = x => Kept(t)) => x \in runner[r].state
              /\ x \in runner[r].state => \E t \in ToSet(trace) : t.row = x /\ Kept(t)
    /\ Rules.caches /\ runner[r].stage = "read" =>
         \A x \in runner[r].done \intersect before :
           <<CurrentRow(r), x>> \in Repeats =>
             x \in runner[r].earlier \/ \E t \in ToSet(trace) : t.row = x /\ ~t.read

\* An experiment that died and is started again pays no call twice, and knows of the
\* earlier rows what its runner is written to take from them.
ResumedFaithfully == PaidOnce /\ ReadingsAreReused
=============================================================================
