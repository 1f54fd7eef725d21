----------------------------- MODULE RunDispatch -----------------------------
(***************************************************************************)
(* Which run Repository.claim takes: the order in which it scans the       *)
(* queue, and what a row it meets on the way does to the scan. HostedRuns  *)
(* leaves this choice open.                                                *)
(*                                                                         *)
(* Workers are reduced to what moves runs between the queue and the        *)
(* executing ones. An account is disabled from outside: the code only      *)
(* reads users.status.                                                     *)
(***************************************************************************)
EXTENDS RunRepository, Sequences

CONSTANT Asking        \* bound: the runs that ask for an approval, once each

VARIABLES
  created,      \* the runs in the order of created_at
  earlier,      \* <<u, v>> when last_dispatch_at of u is less than that of v
  disabled,     \* the users whose account is not active
  overtaken     \* history: <<u, v>> once v was served while u waited for its turn

dispatchVars == <<run, active, created, earlier, disabled, overtaken>>

DispatchInit ==
  /\ RepoInit
  /\ created = <<>>
  /\ earlier = {}       \* Repository.provision sets it to 0 for every user
  /\ disabled = {}
  /\ overtaken = [p \in Users \X Users |-> 0]

\* The order of the users once last_dispatch_at of u is the time of its dispatch.
NowLast(u) ==
  {p \in Users \X Users : p[1] # u /\ (p[2] = u \/ p \in earlier)}

CreatedAt(r) == CHOOSE i \in DOMAIN created : created[i] = r

\* Faulty: the order of the queue alone.
BeforeInQueue(q, r) == CreatedAt(q) < CreatedAt(r)

\* ORDER BY last_dispatch_at, created_at.
Before(q, r) ==
  \/ <<UserOf(q), UserOf(r)>> \in earlier
  \/ <<UserOf(r), UserOf(q)>> \notin earlier /\ CreatedAt(q) < CreatedAt(r)

Room == Cardinality(In(Active)) < MaxRunning

\* The rows on which the scan stops: the first one that is neither expired nor owned
\* by a user at the limit.
Hit == {r \in Dispatchable : \A q \in Dispatchable \ {r} : Before(r, q)}

\* The expired rows that the scan has timed out on its way.
Met(r) == {q \in QueueExpired : Before(q, r)}

-----------------------------------------------------------------------------
\* A user waits for its turn while it has a run that could be dispatched.
WaitsForTurn(u) == \E r \in Dispatchable : UserOf(r) = u

Order == UNCHANGED <<created, earlier, disabled>>

\* The history of a user starts again when it is served or stops waiting.
Overtaking(served) ==
  overtaken' = [p \in Users \X Users |->
                  IF ~WaitsForTurn(p[1]) \/ ~WaitsForTurn(p[1])' \/ p[1] \in served THEN 0
                  ELSE IF p[2] \in served THEN overtaken[p] + 1 ELSE overtaken[p]]

\* claim serves a user. The account of the run's owner is checked when the scan stops
\* there; if it is not active, the transaction is rolled back and nothing is dispatched.
Dispatch ==
  \E r \in Hit :
    /\ UserOf(r) \notin disabled
    /\ ClaimRun(r, Met(r))
    /\ earlier' = NowLast(UserOf(r))
    /\ Overtaking({UserOf(r)})
    /\ UNCHANGED <<created, disabled>>

DispatchNothing == ClaimNothing /\ Overtaking({}) /\ Order

Submit(r) ==
  /\ UserOf(r) \notin disabled
  /\ CreateRun(r)
  /\ created' = Append(created, r)
  /\ Overtaking({})
  /\ UNCHANGED <<earlier, disabled>>

\* Requests of an active user on a run that it has.
UserRequest(r) ==
  /\ UserOf(r) \notin disabled
  /\ Cancel(r) \/ \E allow \in BOOLEAN : Approve(r, allow)
  /\ Overtaking({}) /\ Order

\* The worker of the run parks it or ends it.
Execution(r) ==
  /\ \/ r \in Asking /\ run[r].fence = 1 /\ WaitApproval(r, run[r].fence)
     \/ Finish(r, run[r].fence, "succeeded")
  /\ Overtaking({}) /\ Order

Waits(r) == (QueueDeadlinePasses(r) \/ ApprovalExpires(r)) /\ Overtaking({}) /\ Order

Expires == ExpireWaiting /\ Overtaking({}) /\ Order

SetAccount(u) ==
  /\ disabled' = IF u \in disabled THEN disabled \ {u} ELSE disabled \union {u}
  /\ UNCHANGED <<run, active, created, earlier, overtaken>>

DispatchNext ==
  \/ Dispatch \/ DispatchNothing \/ Expires
  \/ \E r \in Runs : Submit(r) \/ UserRequest(r) \/ Execution(r) \/ Waits(r)
  \/ \E u \in Users : SetAccount(u)

DispatchSpec == DispatchInit /\ [][DispatchNext]_dispatchVars

-----------------------------------------------------------------------------
(* Properties. *)

\* Users take turns: while a user has a run that could be dispatched, every other user
\* is served at most once, however many runs it has queued, parked or approved.
UsersTakeTurns == \A p \in Users \X Users : overtaken[p] <= 1

\* Every user gets its share of the workers: no one more than its limit, or two turns of
\* another that waits.
FairShare == UsersTakeTurns /\ CapacityRespected

\* The design document: users take turns, so that no single user holds up the head of
\* the queue. While there is room, a run of an active user can be dispatched at once.
NobodyHoldsTheHead ==
  Room /\ (\E r \in Dispatchable : UserOf(r) \notin disabled) => ENABLED Dispatch

=============================================================================
