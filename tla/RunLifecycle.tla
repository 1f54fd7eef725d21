---------------------------- MODULE RunLifecycle ----------------------------
(***************************************************************************)
(* What the hosting service promises about the runs of its users, without  *)
(* workers, leases, fence tokens, approvals or deadlines: how many runs    *)
(* may wait and execute, that a session has one unfinished run, in which   *)
(* order a run may change its phase, and that only a run that nobody asked *)
(* to stop can succeed.                                                    *)
(***************************************************************************)
EXTENDS Naturals, FiniteSets

CONSTANTS Users, Sessions, Runs, OwnerOf, SessionOf,
          MaxRunning, UserRunning, MaxWaiting, UserWaiting

VARIABLE life     \* the phase of every run

UserOf(r) == OwnerOf[SessionOf[r]]

Unfinished == {"waiting", "executing", "stopping"}
Finished   == {"succeeded", "unsuccessful"}

Executing == {"executing", "stopping"}   \* a stopping run still uses its capacity

Are(phases)         == {r \in Runs : life[r] \in phases}
AreOf(user, phases) == {r \in Are(phases) : UserOf(r) = user}

RoomToWait(user) ==
  /\ Cardinality(AreOf(user, {"waiting"})) < UserWaiting
  /\ Cardinality(Are({"waiting"})) < MaxWaiting

RoomToExecute(user) ==
  /\ Cardinality(AreOf(user, Executing)) < UserRunning
  /\ Cardinality(Are(Executing)) < MaxRunning

Init == life = [r \in Runs |-> "none"]

Admit(r) ==
  /\ life[r] = "none"
  /\ \A q \in Runs : SessionOf[q] = SessionOf[r] => life[q] \notin Unfinished
  /\ RoomToWait(UserOf(r))
  /\ life' = [life EXCEPT ![r] = "waiting"]

\* Waiting runs may be given up at any time, several at once.
GiveUp(X) ==
  /\ X # {} /\ X \subseteq Are({"waiting"})
  /\ life' = [r \in Runs |-> IF r \in X THEN "unsuccessful" ELSE life[r]]

\* A dispatch may give up the overdue runs X on its way.
Start(r, X) ==
  /\ r \in Are({"waiting"}) \ X
  /\ X \subseteq Are({"waiting"})
  /\ RoomToExecute(UserOf(r))
  /\ life' = [q \in Runs |-> IF q \in X THEN "unsuccessful"
                             ELSE IF q = r THEN "executing" ELSE life[q]]

\* A run that needs a decision of its user gives its capacity back.
Park(r) ==
  /\ life[r] = "executing"
  /\ RoomToWait(UserOf(r))
  /\ life' = [life EXCEPT ![r] = "waiting"]

AskToStop(r) ==
  /\ life[r] = "executing"
  /\ life' = [life EXCEPT ![r] = "stopping"]

End(r) ==
  \/ life[r] = "executing" /\ life' = [life EXCEPT ![r] = "succeeded"]
  \/ life[r] \in Executing /\ life' = [life EXCEPT ![r] = "unsuccessful"]

Next ==
  \/ \E r \in Runs : Admit(r) \/ Park(r) \/ AskToStop(r) \/ End(r)
  \/ \E X \in SUBSET Runs : GiveUp(X) \/ \E r \in Runs : Start(r, X)

Spec == Init /\ [][Next]_life

-----------------------------------------------------------------------------
LifeType == life \in [Runs -> {"none"} \union Unfinished \union Finished]

\* At most one run of a session is unfinished.
OneUnfinished ==
  \A q, r \in Runs :
    SessionOf[q] = SessionOf[r] /\ life[q] \in Unfinished /\ life[r] \in Unfinished => q = r

\* The limits hold for the deployment and for every user.
WithinLimits ==
  /\ Cardinality(Are({"waiting"})) <= MaxWaiting
  /\ Cardinality(Are(Executing)) <= MaxRunning
  /\ \A u \in Users : /\ Cardinality(AreOf(u, {"waiting"})) <= UserWaiting
                      /\ Cardinality(AreOf(u, Executing)) <= UserRunning

=============================================================================
