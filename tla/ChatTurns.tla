------------------------------- MODULE ChatTurns -------------------------------
(* One conversation of the chat service: the decisions of core/action_decision.py,  *)
(* the orchestrator that asks for them, and the handler of /chat. Processes share    *)
(* what is pending in Redis and keep a copy each; a command to Redis may fail, with  *)
(* or without having been executed. What a turn does without awaiting is not         *)
(* interleaved with the turns of its process, only with those of the others.         *)
EXTENDS Integers, FiniteSets, SequencesExt, TLC

CONSTANTS Processes,
          Turns,       \* the turns, numbered as they arrive
          Texts,       \* what the user may write in each turn, see below
          Policies,    \* the actions ACTION_PERMISSION_MAP may permit to the user
          MaxFaults,   \* commands to Redis that fail, and restarts of a process
          Nothing      \* no item

VARIABLES shared,   \* what Redis keeps of each kind
          copy,     \* what each process keeps
          expired,  \* the items whose time is over
          policy,   \* what each process permits
          turn,     \* the turns
          consumed, \* the turns that took a confirmation away, by the turn it is from
          lost, restarts

stores == <<shared, copy>>
chatVars == <<stores, expired, policy, turn, consumed, lost, restarts>>

Kinds == {"confirmation", "clarification"}
Fields == {"ad_id", "asset_id", "amount"}

\* ACTION_RULES: what each action requires. All are of high risk.
Required == ("delete_ad" :> {"ad_id"}) @@ ("delete_asset" :> {"asset_id"})
              @@ ("change_budget_or_bid" :> {"ad_id", "amount"})
Risky == DOMAIN Required
CurrentRequestOnly == {"ad_id", "amount"}

(* A message: the risky action its words ask for, the fields its text names, the     *)
(* fields a model guesses for it, whether it is a bare value, the word it consists   *)
(* of, the domains it touches and whether it is critical.                            *)
Message == [rule : Risky \union {"none"}, says : SUBSET Fields, guesses : SUBSET Fields,
            bare : BOOLEAN, word : STRING, domains : SUBSET STRING, urgent : BOOLEAN]

ASSUME ChatAssumption == Nothing \notin Processes /\ \A t \in Turns : Texts[t] \subseteq Message

Missing(rule, entities) == {f \in Required[rule] : entities[f] = "none"}

\* A turn has left the handler, is inside the part of it that awaits nothing, or waits.
Synchronous == {"purging", "discarding", "cancelling", "confirming", "clarifying", "supplementing"}
Free(p) == \A t \in Turns : turn[t].process = p => turn[t].at \notin Synchronous
Item(t, rule, entities, m) ==
  [turn |-> t, rule |-> rule, entities |-> entities, domains |-> m.domains, urgent |-> m.urgent]
Live(kind, item) == item # Nothing /\ <<kind, item.turn>> \notin expired

ChatInit ==
  /\ shared = [k \in Kinds |-> Nothing]
  /\ copy = [p \in Processes |-> [k \in Kinds |-> Nothing]]
  /\ expired = {} /\ lost = 0 /\ restarts = 0
  /\ policy = [p \in Processes |-> Risky]
  /\ turn = [t \in Turns |-> [at |-> "new", process |-> Nothing, message |-> Nothing,
                              names |-> Nothing, item |-> Nothing, decided |-> "none",
                              escalated |-> FALSE]]
  /\ consumed = [t \in Turns |-> {}]

--------------------------------------------------------------------------------
(* The store: Redis where it answers, otherwise the copy of the process. *)

Fails == lost + restarts < MaxFaults /\ lost' = lost + 1
Without(kind) == [shared EXCEPT ![kind] = Nothing]

Get(kind, p, item) ==
  /\ \/ item = shared[kind] /\ UNCHANGED lost
     \/ item = copy[p][kind] /\ Fails
  /\ UNCHANGED stores

\* Faulty: what is taken is read, not removed.
Peek(kind, p, item) == Get(kind, p, item)

Pop(kind, p, item) ==
  /\ \/ item = shared[kind] /\ shared' = Without(kind) /\ UNCHANGED lost
     \/ item = copy[p][kind] /\ shared' \in {shared, Without(kind)} /\ Fails
  /\ copy' = [copy EXCEPT ![p][kind] = Nothing]

Put(kind, p, item) ==
  /\ copy' = [copy EXCEPT ![p][kind] = item]
  /\ \/ shared' = [shared EXCEPT ![kind] = item] /\ UNCHANGED lost
     \/ shared' \in {shared, [shared EXCEPT ![kind] = item]} /\ Fails
  /\ expired' = expired \ {<<kind, item.turn>>}

Found(kind, p) == {shared[kind], copy[p][kind]}

Goes(t, where) == turn' = [turn EXCEPT ![t].at = where]
Carries(t, where, item) == turn' = [turn EXCEPT ![t].at = where, ![t].item = item]

\* What is decided is written to the conversation before it is answered. A turn that
\* asks for a confirmation may be given up or lost between the two, and what it stored
\* remains; of any other, the decision and the answer are one step.
Decided(t, decision) == [turn[t] EXCEPT !.message = Nothing, !.names = Nothing, !.item = Nothing,
                                        !.decided = decision, !.at = "replying"]
Ended(row, how) == [row EXCEPT !.message = Nothing, !.names = Nothing, !.item = Nothing,
                               !.at = how, !.process = Nothing]
Asks(t, decision) == turn' = [turn EXCEPT ![t] = Decided(t, decision)]
Answers(t, decision) == turn' = [turn EXCEPT ![t] = Ended(Decided(t, decision), "answered")]
Asked(t) == turn[t].at = "answered" /\ turn[t].decided = "confirm"

--------------------------------------------------------------------------------
(* resolve_pending *)

\* What is done with the pending confirmation that was found.
Judge(t, pending) ==
  LET m == turn[t].message IN
  IF turn[t].names # Nothing /\ (pending = Nothing \/ pending.turn # turn[t].names)
    THEN Answers(t, "reject")
  ELSE IF pending = Nothing THEN Goes(t, "clarifying")
  ELSE IF pending.rule \notin policy[turn[t].process] THEN Goes(t, "discarding")
  ELSE IF m.word = "no" THEN Goes(t, "cancelling")
  ELSE IF m.word = "yes" THEN Goes(t, "confirming")
  ELSE Goes(t, "clarifying")

\* A message arrives, perhaps with the identifier of a confirmation that was asked for.
Arrive(t) ==
  /\ turn[t].at = "new" /\ \A u \in Turns : u < t => turn[u].at # "new"
  /\ \E p \in Processes, m \in Texts[t],
        named \in {Nothing} \union {u \in Turns : Asked(u)} :
       turn' = [turn EXCEPT ![t].at = "arrived", ![t].process = p, ![t].message = m,
                            ![t].names = named]
  /\ UNCHANGED <<stores, expired, policy, consumed, lost, restarts>>

Look(t) ==
  /\ turn[t].at = "arrived" /\ Free(turn[t].process)
  /\ \E item \in Found("confirmation", turn[t].process) :
       /\ Get("confirmation", turn[t].process, item)
       /\ IF item = Nothing \/ Live("confirmation", item) THEN Judge(t, item) ELSE Goes(t, "purging")
  /\ UNCHANGED <<expired, policy, consumed, restarts>>

\* What was found has expired: whatever is there now is removed.
Purge(t) ==
  /\ turn[t].at = "purging"
  /\ \E item \in Found("confirmation", turn[t].process) :
       Pop("confirmation", turn[t].process, item)
  /\ Judge(t, Nothing)
  /\ UNCHANGED <<expired, policy, consumed, restarts>>

\* A turn that denies, cancels or confirms takes away the confirmation that is there now.
Consume(t) ==
  /\ turn[t].at \in {"discarding", "cancelling", "confirming"}
  /\ \E item \in Found("confirmation", turn[t].process) :
       /\ Pop("confirmation", turn[t].process, item)
       /\ consumed' = IF Live("confirmation", item)
                        THEN [consumed EXCEPT ![item.turn] = @ \union {t}] ELSE consumed
       /\ IF turn[t].at = "confirming" /\ Live("confirmation", item)
            THEN Carries(t, "executing", item) ELSE Answers(t, "reject")
  /\ UNCHANGED <<expired, policy, restarts>>

--------------------------------------------------------------------------------
(* resolve_clarification *)

Clarify(t) ==
  /\ turn[t].at = "clarifying"
  /\ \E item \in Found("clarification", turn[t].process) :
       /\ Pop("clarification", turn[t].process, item)
       /\ IF ~Live("clarification", item) THEN Goes(t, "recognizing")
          ELSE IF item.rule \notin policy[turn[t].process] \/ turn[t].message.word = "no"
            THEN Answers(t, "reject")
          ELSE Carries(t, "supplementing", item)
  /\ UNCHANGED <<expired, policy, consumed, restarts>>

\* The fields a message adds to an item: a bare value is the one that is missing. What
\* the item has is kept.
Supplied(item, m) ==
  LET missing == Missing(item.rule, item.entities)
      said == m.says \union IF m.bare /\ Cardinality(missing) = 1 THEN missing ELSE {} IN
  [f \in Fields |-> IF item.entities[f] # "none" THEN item.entities[f]
                    ELSE IF f \in said THEN "said" ELSE "none"]

\* The item is put back, is asked about again, or is complete and has to be confirmed.
Supplement(t) ==
  /\ turn[t].at = "supplementing"
  /\ LET item == turn[t].item
         merged == Supplied(item, turn[t].message)
         missing == Missing(item.rule, merged)
         both == [domains |-> item.domains \union turn[t].message.domains, urgent |-> item.urgent]
     IN IF missing = Missing(item.rule, item.entities)
          THEN /\ Put("clarification", turn[t].process, [item EXCEPT !.turn = t])
               /\ Goes(t, "recognizing")
        ELSE IF missing # {}
          THEN /\ Put("clarification", turn[t].process, Item(t, item.rule, merged, both))
               /\ Answers(t, "clarify")
        ELSE /\ Put("confirmation", turn[t].process, Item(t, item.rule, merged, both))
             /\ Asks(t, "confirm")
  /\ UNCHANGED <<policy, consumed, restarts>>

--------------------------------------------------------------------------------
(* decide *)

\* What the text says wins over nothing; what a model guesses wins over the text, but
\* for the fields that only the request may give.
Merged(guessed, m) ==
  [f \in Fields |-> IF f \in guessed \ CurrentRequestOnly THEN "guessed"
                    ELSE IF f \in m.says THEN "said" ELSE "none"]

\* The recognizer has answered, or has failed and guesses nothing. A risky action is
\* decided by rule, whatever its intent; anything else is executed if it is understood.
Decide(t) ==
  /\ turn[t].at = "recognizing" /\ Free(turn[t].process)
  /\ LET m == turn[t].message IN
     \/ /\ m.rule = "none"
        /\ \/ Answers(t, "reject")
           \/ m.word = "vague" /\ Answers(t, "clarify")
           \/ m.word \notin {"vague", "noise"}
              /\ Carries(t, "executing", Item(t, "none", [f \in Fields |-> "none"], m))
        /\ UNCHANGED <<stores, expired, lost>>
     \/ /\ m.rule \notin policy[turn[t].process] \union {"none"}
        /\ Answers(t, "reject") /\ UNCHANGED <<stores, expired, lost>>
     \/ /\ m.rule \in policy[turn[t].process]
        /\ \E guessed \in {{}, m.guesses} :
             LET entities == Merged(guessed, m)
                 complete == Missing(m.rule, entities) = {} IN
               /\ Put(IF complete THEN "confirmation" ELSE "clarification", turn[t].process,
                      Item(t, m.rule, entities, m))
               /\ IF complete THEN Asks(t, "confirm") ELSE Answers(t, "clarify")
  /\ UNCHANGED <<policy, consumed, restarts>>

--------------------------------------------------------------------------------
(* run, and what the handler makes of it *)

\* Two domains are given to two agents at once, anything else to one.
Parallel(item) == Cardinality(item.domains) > 1
Agents(item) == IF Parallel(item) THEN item.domains ELSE {"route"}

\* The agents have answered, each perhaps with an error; one asks for a human by what it
\* writes. No change of an ad is ever carried out, and no answer may claim one.
Execute(t) ==
  /\ turn[t].at = "executing"
  /\ LET item == turn[t].item IN
     \E failed, asks \in SUBSET Agents(item) :
       turn' = [turn EXCEPT ![t] =
         [Ended(Decided(t, IF item.rule # "none" THEN "reject" ELSE "execute"), "answered") EXCEPT
           !.escalated = asks \ failed # {} \/ (~Parallel(item) /\ item.urgent)]]
  /\ UNCHANGED <<stores, expired, policy, consumed, lost, restarts>>

\* The evidence for an answer is missing: no agent is asked.
Block(t) ==
  /\ turn[t].at = "executing"
  /\ Answers(t, "clarify")
  /\ UNCHANGED <<stores, expired, policy, consumed, lost, restarts>>

\* The conversation has what was said, and the user the answer.
ReplyTo(t) ==
  /\ turn[t].at = "replying" /\ turn' = [turn EXCEPT ![t] = Ended(turn[t], "answered")]
  /\ UNCHANGED <<stores, expired, policy, consumed, lost, restarts>>

\* The time of the request is over while it awaits something, be it only the memory of
\* the conversation after everything has been decided.
Abandon(t) ==
  /\ turn[t].at \in {"arrived", "recognizing", "executing", "replying"}
  /\ turn' = [turn EXCEPT ![t] = Ended(turn[t], "unanswered")]
  /\ UNCHANGED <<stores, expired, policy, consumed, lost, restarts>>

--------------------------------------------------------------------------------
\* The time of an item is over; Redis removes it then or a little later.
Lapse(kind) ==
  /\ \E item \in {shared[kind]} \union {copy[p][kind] : p \in Processes} :
       Live(kind, item) /\ expired' = expired \union {<<kind, item.turn>>}
  /\ UNCHANGED <<stores, policy, turn, consumed, lost, restarts>>

Evict(kind) ==
  /\ shared[kind] # Nothing /\ ~Live(kind, shared[kind])
  /\ shared' = Without(kind)
  /\ UNCHANGED <<copy, expired, policy, turn, consumed, lost, restarts>>

\* A process restarts, perhaps with another policy: its turns and its copies are gone.
Restart(p) ==
  /\ lost + restarts < MaxFaults /\ restarts' = restarts + 1
  /\ copy' = [copy EXCEPT ![p] = [k \in Kinds |-> Nothing]]
  /\ \E permitted \in Policies : policy' = [policy EXCEPT ![p] = permitted]
  /\ turn' = [t \in Turns |-> IF turn[t].process = p
                              THEN Ended(turn[t], "unanswered") ELSE turn[t]]
  /\ UNCHANGED <<shared, expired, consumed, lost>>

ChatNext ==
  \/ \E t \in Turns : \/ Arrive(t) \/ Look(t) \/ Purge(t) \/ Consume(t) \/ Clarify(t)
                      \/ Supplement(t) \/ Decide(t) \/ Execute(t) \/ Block(t) \/ ReplyTo(t)
                      \/ Abandon(t)
  \/ \E k \in Kinds : Lapse(k) \/ Evict(k)
  \/ \E p \in Processes : Restart(p)

ChatSpec == ChatInit /\ [][ChatNext]_chatVars

--------------------------------------------------------------------------------
\* A confirmation is used by one turn at most, and by one more for every command to Redis
\* that failed, whether it was executed or not: a cancelled action is not executed, and a
\* confirmed one not executed twice, as long as Redis answers.
ConsumedOnce == \A t \in Turns : Cardinality(consumed[t]) <= 1 + lost

Executes(t) == turn[t].at = "executing" /\ turn[t].item.rule # "none"

\* A risky action is only taken up when the user has said yes, to a confirmation that
\* another turn decided to ask for, and with an ad and an amount that a user has written.
\* That turn need not have been answered so far: what was stored by one whose time was
\* over, or that was lost, can be confirmed too, and is nothing else than what it asked.
RiskIsConfirmed ==
  \A t \in Turns : Executes(t) =>
    LET item == turn[t].item IN
      /\ turn[t].message.word = "yes"
      /\ item.turn # t /\ turn[item.turn].decided = "confirm"
      /\ turn[item.turn].at \in {"replying", "answered", "unanswered"}
      /\ \A f \in Required[item.rule] \intersect CurrentRequestOnly : item.entities[f] = "said"

\* What a confirmation is for: one turn takes up the action, after the user agreed to it.
ConfirmedOnce == ConsumedOnce /\ RiskIsConfirmed
=============================================================================
