------------------------------ MODULE MCMarketing ------------------------------
(* Small instances of MarketingAggregation: two decisions for two creatives, one *)
(* order. A scene is a set of requests that meet in one behaviour.               *)
EXTENDS MarketingAggregation, TLC

CONSTANTS A, B, o1, Scenes

Req(id, type, about, day, amount) ==
  [id |-> id, type |-> type, about |-> about, day |-> day, amount |-> amount, session |-> type = "order_paid"]
Mark(id, claim) == [id |-> id, from |-> 1, to |-> 2, claim |-> claim]

TwoCreatives == (1 :> A @@ 2 :> B)
AllRequests ==
  {Req(3, "impression", 1, 1, 0), Req(4, "impression", 1, 1, 0),
   Req(5, "order_paid", o1, 2, 2), Req(6, "order_paid", o1, 2, 2), Req(7, "order_paid", o1, 2, 1),
   Req(8, "order_refunded", o1, 2, 1), Req(9, "order_refunded", o1, 2, 2),
   Req(10, "spend", A, 1, 2), Req(11, "adjustment", 10, 1, -1)}
AllMarkers == {Mark(12, {}), Mark(13, {10})}
FirstDay == (0 :> <<1, 2>>)

\* What a scene allows: the requests, the days, the ticks of the clock, the attempts of
\* a task, the workers that are busy at a time, and the day on which they start.
Scene(ids, days, ticks, attempts, workers, start) ==
  [ids |-> ids, days |-> days, ticks |-> ticks, attempts |-> attempts, workers |-> workers, start |-> start]
InScene(s) == /\ {i \in Ids : receipts[i] # NoRequest} \union {j \in Rebuilds : jobs[j] # "none"} \subseteq s.ids
              /\ today <= s.days /\ epoch <= s.ticks
              /\ LET busy == {w \in Workers : worker[w].phase # "idle"} IN
                   busy = {} \/ (today >= s.start /\ Cardinality(busy) <= s.workers)
              /\ \A n \in Slots : outbox[n].attempt <= s.attempts
MCNext == Next /\ \E s \in Scenes : InScene(s)'
MCSpec == Init /\ [][MCNext]_vars

WorkerSymmetry == Permutations(Workers)

SmallScenes ==
  {\* the ledger alone
   Scene({5, 6, 7, 8, 9}, 3, 5, 0, 0, 1), Scene({10, 11, 12, 13}, 3, 4, 0, 0, 1), Scene({1, 2, 3, 10, 12, 13}, 1, 6, 0, 0, 1),
   Scene({3, 4}, 3, 2, 0, 0, 1),
   \* one worker: an order moves to another click, or is refunded; an old day is rebuilt;
   \* a report is complete
   Scene({1, 2, 5}, 2, 3, 1, 1, 1), Scene({1, 5, 8}, 2, 4, 1, 1, 1), Scene({0, 10, 11}, 3, 3, 1, 1, 1),
   Scene({1, 5, 12}, 4, 3, 1, 1, 4),
   \* two workers
   Scene({1, 5}, 2, 2, 2, 2, 1), Scene({0, 3}, 2, 2, 2, 2, 1)}
=============================================================================
