------------------------------- MODULE ToolCalls -------------------------------
(* The calls of one tool (mcp/tool_manager.py): the cache of its results, its circuit *)
(* breaker, its time limit and its fallback, and the knowledge base behind it, where   *)
(* documents are added. A caller may stop waiting before the limit of the tool: then   *)
(* the breaker hears nothing. Times are counted down.                                  *)
EXTENDS Integers, FiniteSetsExt

CONSTANTS Callers,
          Threshold,   \* consecutive failures that open the breaker
          Recovery,    \* how long it stays open
          Timeout,     \* the time limit of the tool
          StageTimeout,\* how long a caller waits
          Ttl,         \* how long a result is cached
          MaxAge       \* ages are not told apart beyond

ASSUME ToolAssumption ==
  /\ {Threshold, Recovery, Timeout, StageTimeout, Ttl, MaxAge} \subseteq Nat \ {0}
  /\ Ttl + Timeout < MaxAge

VARIABLES breaker,  \* closed, open or half_open
          failures, \* fail_count
          cooling,  \* what is left until an open breaker may be probed
          call,     \* the calls that are executed
          cache,    \* the cached result: how old its data is, how long it may be used
          result    \* what each caller got last, and how old its data was

toolVars == <<breaker, failures, cooling, call, cache, result>>

NoCall == [at |-> "idle", left |-> 0, patience |-> 0, age |-> 0]
NoResult == [kind |-> "none", age |-> 0]

ToolInit ==
  /\ breaker = "closed" /\ failures = 0 /\ cooling = 0
  /\ call = [c \in Callers |-> NoCall] /\ result = [c \in Callers |-> NoResult]
  /\ cache = [age |-> 0, left |-> 0]

Ends(c) == call' = [call EXCEPT ![c] = NoCall]
Gets(c, kind, age) == result' = [result EXCEPT ![c] = [kind |-> kind, age |-> age]]

--------------------------------------------------------------------------------
\* allow: an open breaker that has cooled lets a probe through.
Allow == breaker # "open" \/ cooling = 0

RecordSuccess == breaker' = "closed" /\ failures' = 0 /\ UNCHANGED cooling

RecordFailure ==
  /\ failures' = Min({failures + 1, Threshold})
  /\ IF failures' >= Threshold THEN breaker' = "open" /\ cooling' = Recovery
                               ELSE UNCHANGED <<breaker, cooling>>

--------------------------------------------------------------------------------
(* call *)

Cached == cache.left > 0

\* Faulty: a result lives on as long as it is asked for.
ServeRenewed(c) ==
  /\ call[c].at = "idle" /\ Cached
  /\ cache' = [cache EXCEPT !.left = Ttl]
  /\ Gets(c, "cached", cache.age)
  /\ UNCHANGED <<breaker, failures, cooling, call>>

ServeCached(c) ==
  /\ call[c].at = "idle" /\ Cached
  /\ Gets(c, "cached", cache.age)
  /\ UNCHANGED <<breaker, failures, cooling, call, cache>>

Refuse(c) ==
  /\ call[c].at = "idle" /\ ~Cached /\ ~Allow
  /\ Gets(c, "fallback", 0)
  /\ UNCHANGED <<breaker, failures, cooling, call, cache>>

Begin(c) ==
  /\ call[c].at = "idle" /\ ~Cached /\ Allow
  /\ breaker' = IF breaker = "open" THEN "half_open" ELSE breaker
  /\ call' = [call EXCEPT ![c] = [at |-> "running", left |-> Timeout, patience |-> StageTimeout,
                                  age |-> 0]]
  /\ Gets(c, "none", 0)
  /\ UNCHANGED <<failures, cooling, cache>>

\* The handler reads what it answers with.
ReadSource(c) ==
  /\ call[c].at = "running"
  /\ call' = [call EXCEPT ![c].at = "answering", ![c].age = 0]
  /\ UNCHANGED <<breaker, failures, cooling, cache, result>>

Succeed(c) ==
  /\ call[c].at = "answering"
  /\ RecordSuccess
  /\ cache' = [age |-> call[c].age, left |-> Ttl]
  /\ Gets(c, "fresh", call[c].age) /\ Ends(c)

\* The parameters are invalid, the handler raises, or the limit is reached: the caller
\* gets what the fallback gives, which is not cached.
Break(c) ==
  /\ call[c].at \in {"running", "answering"}
  /\ RecordFailure
  /\ Gets(c, "fallback", 0) /\ Ends(c)
  /\ UNCHANGED cache

\* The caller stops waiting: the call is cancelled, and nothing is recorded.
GiveUp(c) ==
  /\ call[c].at \in {"running", "answering"} /\ call[c].patience = 0
  /\ Ends(c)
  /\ UNCHANGED <<breaker, failures, cooling, cache, result>>

Down(n) == IF n > 0 THEN n - 1 ELSE 0
Up(n) == Min({n + 1, MaxAge})

ToolTick ==
  /\ \A c \in Callers : call[c].at # "idle" => call[c].left > 0 /\ call[c].patience > 0
  /\ cooling' = Down(cooling)
  /\ call' = [c \in Callers |-> IF call[c].at = "idle" THEN call[c] ELSE
       [call[c] EXCEPT !.left = @ - 1, !.patience = @ - 1,
                       !.age = IF call[c].at = "answering" THEN Up(@) ELSE @]]
  /\ cache' = [age |-> IF Cached THEN Up(cache.age) ELSE 0, left |-> Down(cache.left)]
  /\ result' = [c \in Callers |-> NoResult]
  /\ UNCHANGED <<breaker, failures>>

ToolNext ==
  \/ \E c \in Callers : \/ ServeCached(c) \/ Refuse(c) \/ Begin(c) \/ ReadSource(c)
                        \/ Succeed(c) \/ Break(c) \/ GiveUp(c)
  \/ ToolTick

ToolSpec == ToolInit /\ [][ToolNext]_toolVars

--------------------------------------------------------------------------------
\* What a caller is told of the knowledge base is at most as old as an entry of the cache
\* and the call that wrote it: a document that was added is found after that time.
StalenessIsBounded == \A c \in Callers : result[c].age <= Ttl + Timeout
=============================================================================
