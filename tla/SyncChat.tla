------------------------------- MODULE SyncChat -------------------------------
(* The compatible chat call over durable runs (memory/sync_gateway.py, POST /sessions/ *)
(* {sid}/chat of hosting/api.py): a gateway finds the session of a conversation, the   *)
(* control plane accepts the run and waits for it. Either may be too slow or die, and   *)
(* clients call again with the same key, at the same time too.                         *)
EXTENDS Naturals, Sequences, FiniteSets

CONSTANTS Gateways,    \* calls that are served at the same time
          AsksOf,      \* what may be sent in each: a key, the name of a conversation, a text
          MaxSessions  \* of a user

ASSUME SyncAssumption == MaxSessions \in Nat /\ \A g \in Gateways : \A q \in AsksOf[g] : {"key", "alias", "text"} \subseteq DOMAIN q

VARIABLES sessionOf,  \* agent_sync_conversations: the session of a name, 0 when there is none
          opened,     \* how many sessions there are
          accepted,   \* the runs, in the order of their acceptance
          gateway,    \* what each call has reached
          answers     \* what each call was answered last

syncVars == <<sessionOf, opened, accepted, gateway, answers>>

Aliases == {q.alias : q \in UNION {AsksOf[g] : g \in Gateways}}
Unsent == [at |-> "idle"]
Silence == [kind |-> "none"]
IsOver(status) == status \in {"succeeded", "ended"}

SyncInit ==
  /\ sessionOf = [x \in Aliases |-> 0] /\ opened = 0 /\ accepted = <<>>
  /\ gateway = [g \in Gateways |-> Unsent] /\ answers = [g \in Gateways |-> Silence]

Reaches(g, at) == gateway' = [gateway EXCEPT ![g] = at]
Replies(g, reply) ==
  /\ answers' = [answers EXCEPT ![g] = reply] /\ Reaches(g, Unsent)

--------------------------------------------------------------------------------
(* A call *)

Call(g, q) ==
  /\ gateway[g].at = "idle"
  /\ Reaches(g, [at |-> "resolving", ask |-> q])
  /\ answers' = [answers EXCEPT ![g] = Silence]
  /\ UNCHANGED <<sessionOf, opened, accepted>>

\* resolve_conversation, under the lock of the repository: a name keeps its session.
SessionAnew(g) ==
  LET x == gateway[g].ask.alias IN
  /\ opened < MaxSessions
  /\ opened' = opened + 1 /\ sessionOf' = [sessionOf EXCEPT ![x] = opened']
  /\ Reaches(g, [at |-> "accepting", ask |-> gateway[g].ask, session |-> opened'])
  /\ UNCHANGED answers
SessionFound(g) ==
  LET x == gateway[g].ask.alias IN
  /\ sessionOf[x] # 0
  /\ Reaches(g, [at |-> "accepting", ask |-> gateway[g].ask, session |-> sessionOf[x]])
  /\ UNCHANGED <<sessionOf, opened, answers>>
KeepsSession(g) ==
  \/ SessionFound(g)
  \/ sessionOf[gateway[g].ask.alias] = 0 /\ SessionAnew(g)
Resolve(g) ==
  /\ gateway[g].at = "resolving"
  /\ \/ KeepsSession(g)
     \/ /\ sessionOf[gateway[g].ask.alias] = 0 /\ opened = MaxSessions
        /\ Replies(g, [kind |-> "refused"]) /\ UNCHANGED <<sessionOf, opened>>
  /\ UNCHANGED accepted

\* create_run, under the same lock: a key has one run, of one text in one session, and a
\* session one run that is not over.
WithKey(key) == {r \in DOMAIN accepted : accepted[r].key = key}
Accept(g) ==
  LET q == gateway[g].ask
      s == gateway[g].session
      row == [key |-> q.key, session |-> s, text |-> q.text, status |-> "active", said |-> "nothing", parked |-> FALSE]
      Attach(r) == Reaches(g, [at |-> "waiting", ask |-> q, run |-> r]) /\ UNCHANGED answers
  IN
  /\ gateway[g].at = "accepting"
  /\ IF WithKey(q.key) # {}
     THEN \E r \in WithKey(q.key) :
            /\ IF accepted[r].session = s /\ accepted[r].text = q.text
               THEN Attach(r) ELSE Replies(g, [kind |-> "refused"])
            /\ UNCHANGED accepted
     ELSE IF \A r \in DOMAIN accepted : accepted[r].session = s => IsOver(accepted[r].status)
          THEN accepted' = Append(accepted, row) /\ Attach(Len(accepted'))
          ELSE Replies(g, [kind |-> "refused"]) /\ UNCHANGED accepted
  /\ UNCHANGED <<sessionOf, opened>>

\* It is polled until it is over or waits for its user, or until the time is over.
PollRun(g) ==
  /\ gateway[g].at = "waiting"
  /\ LET status == accepted[gateway[g].run].status IN
     \/ /\ IsOver(status) \/ status = "approving"
        /\ Reaches(g, [at |-> "asking", ask |-> gateway[g].ask, run |-> gateway[g].run, status |-> status])
        /\ UNCHANGED answers
     \/ /\ ~IsOver(status) /\ status # "approving"
        /\ Replies(g, [kind |-> "pending", run |-> gateway[g].run])
  /\ UNCHANGED <<sessionOf, opened, accepted>>

\* The approval and then the last reply are read, each by itself.
ReadApproval(g) ==
  LET w == gateway[g] IN
  /\ w.at = "asking"
  /\ Reaches(g, [at |-> "answering", ask |-> w.ask, run |-> w.run, status |-> w.status,
                 approval |-> accepted[w.run].status = "approving"])
  /\ UNCHANGED <<sessionOf, opened, accepted, answers>>
ReadAnswer(g) ==
  LET w == gateway[g] IN
  /\ w.at = "answering"
  /\ Replies(g, [kind |-> "answered", ask |-> w.ask, run |-> w.run, status |-> w.status, approval |-> w.approval,
                 says |-> accepted[w.run].said])
  /\ UNCHANGED <<sessionOf, opened, accepted>>

\* The gateway, the control plane or the connection is gone: nobody knows what became of it.
LoseCall(g) ==
  /\ gateway[g].at # "idle" /\ Reaches(g, Unsent)
  /\ UNCHANGED <<sessionOf, opened, accepted, answers>>

--------------------------------------------------------------------------------
(* The run, as RunRepository and HostedPipeline have it: queued and running are one here *)

Becoming(r, status, said) ==
  /\ accepted' = [accepted EXCEPT ![r].status = status, ![r].said = said, ![r].parked = @ \/ status = "approving"]
  /\ UNCHANGED <<sessionOf, opened, gateway, answers>>
RunProgress(r) ==
  LET row == accepted[r] IN
  \/ row.status = "active" /\ ~row.parked /\ Becoming(r, "approving", "question")
  \/ row.status = "approving" /\ Becoming(r, "active", row.said)
  \/ row.status = "active" /\ Becoming(r, "succeeded", "answer")
  \/ ~IsOver(row.status) /\ Becoming(r, "ended", row.said)

SyncNext ==
  \/ \E g \in Gateways :
       \/ \E q \in AsksOf[g] : Call(g, q)
       \/ Resolve(g) \/ Accept(g) \/ PollRun(g) \/ ReadApproval(g) \/ ReadAnswer(g) \/ LoseCall(g)
  \/ \E r \in DOMAIN accepted : RunProgress(r)
SyncSpec == SyncInit /\ [][SyncNext]_syncVars

--------------------------------------------------------------------------------
\* However often a request is sent, and whatever of it is lost, it is run once, in the one
\* session of its conversation, and answered with what that run said: what succeeded with
\* its answer, a question with the approval it asks for ("retry_same_key").
AskedOnce ==
  /\ opened = Cardinality({x \in Aliases : sessionOf[x] # 0})
  /\ \A r1, r2 \in DOMAIN accepted : accepted[r1].key = accepted[r2].key => r1 = r2
  /\ \A g \in Gateways : answers[g].kind = "answered" =>
       LET told == answers[g] row == accepted[told.run] IN
       /\ row.key = told.ask.key /\ row.text = told.ask.text /\ row.session = sessionOf[told.ask.alias]
       /\ told.status = "succeeded" => told.says = "answer"
       /\ told.approval => row.parked /\ told.says # "nothing"
=============================================================================
