------------------------------- MODULE ModelGate -------------------------------
(* Admission of model calls (core/model_gate.py): the gate in Redis that all       *)
(* processes share, and the gate of one event loop. A caller holds a slot while it *)
(* executes; Redis keeps a lease for it, so that a caller that dies, or whose      *)
(* release is lost, gives its slot back. Commands to Redis may be answered late,   *)
(* not at all, or be executed after their caller has gone. Times are counted down. *)
EXTENDS Integers, FiniteSets

CONSTANTS Calls,           \* calls of slot(), each with a ticket of its own
          Limit, Queue,    \* callers that execute, callers that wait
          Wait, RunTime, \* how long a caller may wait, how long it may execute
          Grace,           \* what a lease lasts longer than an execution
          Reply,           \* socket_timeout: how long a caller waits for a reply
          ConfigOf,        \* the limits a caller was configured with
          Modes            \* the values MODEL_GATE_MODE may have

ASSUME GateAssumption ==
  /\ IsFiniteSet(Calls)
  /\ Limit \in Nat \ {0} /\ Queue \in Nat
  /\ Wait \in Nat \ {0} /\ RunTime \in Nat \ {0} /\ Grace \in Nat \ {0}
  /\ Reply \in Nat /\ Reply < Grace
  /\ Modes \subseteq {"redis", "local"}

VARIABLES mode,      \* which gate the processes use
          phase,     \* what a caller does
          timer,     \* what is left of its wait or of its execution
          patience,  \* what is left of the time it waits for a reply
          command,   \* its ADMIT that Redis has not executed
          releasing, \* its RELEASE that Redis has not executed
          answer,    \* the reply of Redis it has not read
          lease,     \* what is left of its lease (of its hold of the semaphore)
          deadline,  \* what is left of its place in the queue
          queue,     \* the tickets that wait
          ahead,     \* which of two that wait came first: its number in the sequence is lower
          config     \* the limits Redis was first used with

client == <<phase, timer, patience>>
redis == <<lease, deadline, queue, ahead, config>>
gateVars == <<mode, client, command, releasing, answer, redis>>

\* Faulty: a lease that ends with the time of the body.
Unmargined == RunTime
Full == RunTime + Grace
Held == {c \in Calls : lease[c] > 0}
Executing == {c \in Calls : phase[c] = "executing"}
Inside == {c \in Calls : phase[c] \in {"waiting", "executing"}}

\* Has nothing of an earlier call been left behind: a ticket is used once.
Fresh(c) == /\ phase[c] = "idle" /\ command[c] = "none" /\ ~releasing[c]
            /\ lease[c] = 0 /\ c \notin queue

GateInit ==
  /\ mode \in Modes
  /\ phase = [c \in Calls |-> "idle"]
  /\ timer = [c \in Calls |-> 0] /\ patience = [c \in Calls |-> 0]
  /\ command = [c \in Calls |-> "none"] /\ releasing = [c \in Calls |-> FALSE]
  /\ answer = [c \in Calls |-> "none"]
  /\ lease = [c \in Calls |-> 0] /\ deadline = [c \in Calls |-> 0]
  /\ queue = {} /\ ahead = {} /\ config = "none"

--------------------------------------------------------------------------------
(* The gate in Redis *)

\* A caller sends ADMIT: with mode 'new' when it enters, with 'poll' when it has waited.
Ask(c) ==
  /\ mode = "redis"
  /\ \/ Fresh(c) /\ command' = [command EXCEPT ![c] = "new"] /\ timer' = [timer EXCEPT ![c] = Wait]
     \/ phase[c] = "sleeping" /\ command' = [command EXCEPT ![c] = "poll"] /\ UNCHANGED timer
  /\ phase' = [phase EXCEPT ![c] = "asking"]
  /\ patience' = [patience EXCEPT ![c] = Reply]
  /\ answer' = [answer EXCEPT ![c] = "none"]
  /\ UNCHANGED <<mode, releasing, redis>>

\* The queue that is left when the entries whose caller waited too long are removed.
Queueing == {c \in queue : deadline[c] > 0}

\* Who is ahead of whom of those that are left.
Left(some) == {p \in ahead : p[1] \in some /\ p[2] \in some}

\* Faulty: a newcomer is put before those that wait.
Jumped(c) == Left(Queueing) \union (IF c \in Queueing THEN {} ELSE {c} \X Queueing)

Joined(c) == Left(Queueing) \union (IF c \in Queueing THEN {} ELSE Queueing \X {c})

\* What ADMIT answers c.
Verdict(c) ==
  IF config \notin {"none", ConfigOf[c]} THEN "mismatch"
  ELSE IF command[c] = "poll" /\ c \notin Queueing THEN "gone"
  ELSE IF (\A d \in Queueing : <<d, c>> \notin Joined(c)) /\ Cardinality(Held) < Limit THEN "admitted"
  ELSE IF c \notin Queueing /\ Cardinality(Queueing) >= Queue THEN "full"
  ELSE "wait"

\* Redis executes an ADMIT, perhaps after its caller has stopped waiting for the reply.
Admit(c) ==
  /\ command[c] # "none"
  /\ LET reply == Verdict(c) IN
       /\ queue' = CASE reply = "mismatch" -> queue
                     [] reply = "admitted" -> Queueing \ {c}
                     [] reply = "wait" -> Queueing \union {c}
                     [] OTHER -> Queueing
       /\ ahead' = CASE reply = "mismatch" -> ahead
                     [] reply = "wait" -> Joined(c)
                     [] OTHER -> Left(queue')
       /\ deadline' = [deadline EXCEPT ![c] =
            IF reply # "wait" THEN 0 ELSE IF c \in Queueing THEN @ ELSE Wait]
       /\ lease' = [lease EXCEPT ![c] = IF reply = "admitted" THEN Full ELSE @]
       /\ config' = IF reply = "mismatch" THEN config ELSE ConfigOf[c]
       /\ answer' = [answer EXCEPT ![c] = IF phase[c] = "asking" THEN reply ELSE "none"]
  /\ command' = [command EXCEPT ![c] = "none"]
  /\ UNCHANGED <<mode, client, releasing>>

\* The caller reads the reply: it executes, sleeps before it asks again, or is refused.
Read(c) ==
  /\ phase[c] = "asking" /\ answer[c] # "none"
  /\ phase' = [phase EXCEPT ![c] = CASE answer[c] = "admitted" -> "executing"
                                     [] answer[c] = "wait" -> "sleeping"
                                     [] OTHER -> "leaving"]
  /\ timer' = [timer EXCEPT ![c] = CASE answer[c] = "admitted" -> RunTime
                                     [] answer[c] = "wait" -> @
                                     [] OTHER -> 0]
  /\ patience' = [patience EXCEPT ![c] = 0]
  /\ answer' = [answer EXCEPT ![c] = "none"]
  /\ UNCHANGED <<mode, command, releasing, redis>>

\* The reply is lost or late, the wait is over, or the body ends, fails or runs out of
\* time: each leads to the finally clause.
Leave(c) ==
  /\ mode = "redis"
  /\ phase[c] \in {"asking", "sleeping", "executing"}
  /\ phase' = [phase EXCEPT ![c] = "leaving"]
  /\ timer' = [timer EXCEPT ![c] = 0] /\ patience' = [patience EXCEPT ![c] = 0]
  /\ answer' = [answer EXCEPT ![c] = "none"]
  /\ UNCHANGED <<mode, command, releasing, redis>>

\* The finally clause sends RELEASE; errors are ignored, and the command may be lost.
SendRelease(c) ==
  /\ phase[c] = "leaving"
  /\ phase' = [phase EXCEPT ![c] = "idle"]
  /\ \E arrives \in BOOLEAN : releasing' = [releasing EXCEPT ![c] = arrives]
  /\ UNCHANGED <<mode, timer, patience, command, answer, redis>>

\* Redis executes a RELEASE; an ADMIT of the same ticket may still be under way.
Release(c) ==
  /\ releasing[c]
  /\ releasing' = [releasing EXCEPT ![c] = FALSE]
  /\ lease' = [lease EXCEPT ![c] = 0] /\ deadline' = [deadline EXCEPT ![c] = 0]
  /\ queue' = queue \ {c} /\ ahead' = Left(queue \ {c})
  /\ UNCHANGED <<mode, client, command, answer, config>>

\* A command that no caller waits for never reaches Redis.
Lose(c) ==
  /\ phase[c] # "asking" /\ command[c] # "none"
  /\ command' = [command EXCEPT ![c] = "none"]
  /\ UNCHANGED <<mode, client, releasing, answer, redis>>

\* The process of a caller dies: no finally clause is executed.
Die(c) ==
  /\ mode = "redis" /\ phase[c] # "idle"
  /\ phase' = [phase EXCEPT ![c] = "idle"]
  /\ timer' = [timer EXCEPT ![c] = 0] /\ patience' = [patience EXCEPT ![c] = 0]
  /\ answer' = [answer EXCEPT ![c] = "none"]
  /\ UNCHANGED <<mode, command, releasing, redis>>

--------------------------------------------------------------------------------
(* The gate of one event loop: a counter of the callers inside and a fair semaphore, *)
(* whose holders have a lease and whose waiters form the queue.                       *)

Enter(c) ==
  /\ mode = "local" /\ phase[c] = "idle"
  /\ Cardinality(Inside) < Limit + Queue
  /\ phase' = [phase EXCEPT ![c] = "waiting"] /\ timer' = [timer EXCEPT ![c] = Wait]
  /\ queue' = queue \union {c} /\ ahead' = ahead \union (queue \X {c})
  /\ UNCHANGED <<mode, patience, command, releasing, answer, lease, deadline, config>>

Acquire(c) ==
  /\ phase[c] = "waiting" /\ (\A d \in queue : <<d, c>> \notin ahead) /\ Cardinality(Held) < Limit
  /\ phase' = [phase EXCEPT ![c] = "executing"] /\ timer' = [timer EXCEPT ![c] = RunTime]
  /\ queue' = queue \ {c} /\ ahead' = Left(queue \ {c}) /\ lease' = [lease EXCEPT ![c] = Full]
  /\ UNCHANGED <<mode, patience, command, releasing, answer, deadline, config>>

\* The wait or the execution ends, in time or not: what was acquired is released.
Exit(c) ==
  /\ mode = "local" /\ c \in Inside
  /\ phase' = [phase EXCEPT ![c] = "idle"] /\ timer' = [timer EXCEPT ![c] = 0]
  /\ queue' = queue \ {c} /\ ahead' = Left(queue \ {c}) /\ lease' = [lease EXCEPT ![c] = 0]
  /\ UNCHANGED <<mode, patience, command, releasing, answer, deadline, config>>

--------------------------------------------------------------------------------
\* Whoever has run out of time leaves before the clock goes on.
Overdue(c) == \/ phase[c] \in {"asking", "sleeping", "waiting", "executing"} /\ timer[c] = 0
              \/ phase[c] = "asking" /\ patience[c] = 0

Less(n) == IF n > 0 THEN n - 1 ELSE 0

\* Time passes. Only a semaphore has no lease that runs out.
Tick ==
  /\ \A c \in Calls : ~Overdue(c)
  /\ timer' = [c \in Calls |-> Less(timer[c])]
  /\ patience' = [c \in Calls |-> Less(patience[c])]
  /\ lease' = IF mode = "redis" THEN [c \in Calls |-> Less(lease[c])] ELSE lease
  /\ deadline' = [c \in Calls |-> Less(deadline[c])]
  /\ UNCHANGED <<mode, phase, command, releasing, answer, queue, ahead, config>>

GateNext ==
  \/ \E c \in Calls : \/ Ask(c) \/ Admit(c) \/ Read(c) \/ Leave(c) \/ SendRelease(c)
                      \/ Release(c) \/ Lose(c) \/ Die(c) \/ Enter(c) \/ Acquire(c) \/ Exit(c)
  \/ Tick

GateSpec == GateInit /\ [][GateNext]_gateVars

--------------------------------------------------------------------------------
\* The provider never sees more calls at a time than the limit, whatever is lost or late
\* and whoever dies: a lease outlives the execution it was given for.
ProviderLimit == Cardinality(Executing) <= Limit

\* Nobody is admitted while a caller that came before it still waits for its turn.
StillWaits(c) == IF mode = "redis" THEN c \in Queueing ELSE c \in queue
NobodyOvertakes ==
  [][\A c, d \in Calls :
       (c # d /\ lease[c] = 0 /\ lease'[c] > 0 /\ StillWaits(d))
         => <<c, d>> \in ahead /\ <<d, c>> \notin ahead]_gateVars
=============================================================================
