--------------------------- MODULE MarketingLedger ---------------------------
(***************************************************************************)
(* What the advertising server accepts: deliveries, orders, refunds,       *)
(* spend, coverage markers and rebuild requests (services/marketing/*.ts,  *)
(* aggregation/rebuild.py), for one brand, environment, source, campaign,  *)
(* product and visitor session.                                            *)
(*                                                                         *)
(* A request is one transaction, serialised by the row it locks and by the *)
(* input clock of the brand, and is one step. Time is counted in days. An  *)
(* event, an entry or a marker is named by the id its source gave it; ids  *)
(* are numbers, compared where the code compares the bytes of ids.         *)
(***************************************************************************)
EXTENDS Integers, FiniteSets, Sequences, Functions

CONSTANTS
  Requests,      \* the requests that may be sent, clicks and markers apart
  Impressions,   \* the serving decisions; a click is named by its decision
  CreativeOf,    \* the creative that a decision shows
  Creatives, Orders,
  Markers,       \* the coverage markers that may be sent
  Rebuilds,      \* the ids of the rebuild requests
  RangeOf,       \* the days that a rebuild request names: from, and before
  Ids,           \* the ids of requests, clicks and markers
  NoId, NoRequest,
  LastDay,       \* bound on time
  LateDays,      \* 30 in the code
  MaxEpoch,      \* bound on the input clock
  BacklogLimit   \* 10000 in the code

Days == 1..LastDay
Slots == 1..MaxEpoch
Delivery == {"impression", "click"}
Conversion == {"order_paid", "order_refunded"}
Spending == {"spend", "adjustment"}

\* about: the decision, the order, the creative, or the entry that is adjusted.
\* session: the request carries the click token of the visitor session.
Request == [id : Ids, type : Delivery \union Conversion \union Spending, about : Ids \union Orders \union Creatives,
            day : Days, amount : Int, session : BOOLEAN]
\* claim: the entries that the checksum of the marker was computed from.
Marker == [id : Ids, from : Days, to : Days, claim : SUBSET Ids]

ASSUME LedgerAssumption ==
  /\ Ids \subseteq Nat /\ IsFiniteSet(Ids) /\ NoId \notin Ids /\ NoRequest \notin Request \union Marker
  /\ Impressions \subseteq Ids /\ CreativeOf \in [Impressions -> Creatives]
  /\ Requests \subseteq Request /\ Markers \subseteq Marker
  /\ RangeOf \in [Rebuilds -> Days \X Days]
  /\ \A r \in Requests : /\ r.type # "click" /\ r.id \notin Impressions
                         /\ r.type = "impression" => r.about \in Impressions
                         /\ r.type \in Conversion => r.about \in Orders /\ r.amount >= 0
                         /\ r.type = "spend" => r.about \in Creatives
                         /\ r.type = "adjustment" => r.about \in Ids
  /\ \A m \in Markers : m.id \notin Impressions /\ \A r \in Requests : r.id # m.id
  /\ LastDay \in Nat \ {0} /\ LateDays \in Nat /\ MaxEpoch \in Nat /\ BacklogLimit \in Nat

VARIABLES
  today,
  receipts,   \* of an id: the request that was committed under it
  answers,    \* of an id: the event that the stored response names
  rows,       \* of an event or entry: its row, which holds the request
  status,     \* of an event or entry: its latest validation; none: there is no row
  revision,   \* of an event: the revision of that validation
  paidBy,     \* of an order: paid_event_id
  refunded,   \* of an order: refunded_minor
  coverage,   \* of an interval: its latest marker
  jobs,       \* of a rebuild request: the status of its job
  epoch,      \* the input clock of the brand
  outbox      \* the task that each tick of the input clock left

facts == <<receipts, answers, rows, status, revision, paidBy, refunded, coverage>>
ledgerVars == <<today, facts, jobs, epoch, outbox>>

-----------------------------------------------------------------------------
(* Facts *)

Of(types) == {e \in Ids : status[e] # "none" /\ rows[e].type \in types}
Valid(types) == {e \in Of(types) : status[e] = "valid"}
About(types, x) == {e \in Of(types) : rows[e].about = x}
ValidAbout(types, x) == About(types, x) \intersect Valid(types)
Total(events) == SumFunction([e \in events |-> rows[e].amount])

\* Faulty: nothing is too old.
TooEarlyOnly(d) == d > today

\* timeReason: the event lies in the future, or too far in the past.
OutOfTime(d) == d > today \/ d < today - LateDays

Interval(m) == <<m.from, m.to>>
Intervals == {Interval(m) : m \in Markers}
Within(d, i) == i[1] <= d /\ d < i[2]
\* The entries of the ledger, and the isolated ones, of an interval.
Booked(i) == {e \in Valid(Spending) : Within(rows[e].day, i)}
Isolated(i) == {e \in Of(Spending) : status[e] = "quarantined" /\ Within(rows[e].day, i)}

NoCoverage == [rev |-> 0, status |-> "none", claim |-> {}]
\* Faulty: the markers stay as they are.
StillComplete(d) == coverage

\* The markers once an entry of day d changed the ledger.
Invalidated(d) == [i \in Intervals |->
  IF Within(d, i) /\ coverage[i].status = "complete" THEN [coverage[i] EXCEPT !.status = "invalidated"] ELSE coverage[i]]

-----------------------------------------------------------------------------
(* The input clock and the outbox *)

TaskStatus == {"none", "pending", "running", "done", "failed"}
Kinds == {"none", "event", "spend", "spend-isolated", "coverage", "rebuild"}
Task == [kind : Kinds, of : Ids \union Rebuilds \union {NoId}, rev : Nat, born : Nat,
         status : TaskStatus, attempt : Nat, live : BOOLEAN]
NoTask == [kind |-> "none", of |-> NoId, rev |-> 0, born |-> 0, status |-> "none", attempt |-> 0, live |-> FALSE]
Work(kind, of, rev) == [kind |-> kind, of |-> of, rev |-> rev]

Queued(work) == [kind |-> work.kind, of |-> work.of, rev |-> work.rev, born |-> today,
                 status |-> "pending", attempt |-> 0, live |-> FALSE]
Open(t) == t.status \notin {"none", "done"}
Backlog == {n \in Slots : Open(outbox[n])}

\* Faulty: a full backlog takes one more transaction.
EnqueueOneMore(work) ==
  LET new == (epoch + 1)..(epoch + Len(work)) IN
  /\ new \subseteq Slots
  /\ Cardinality(Backlog) <= BacklogLimit
  /\ epoch' = epoch + Len(work)
  /\ outbox' = [n \in Slots |-> IF n \in new THEN Queued(work[n - epoch]) ELSE outbox[n]]

\* The tick of the clock and the insertion of the task are one transaction, so a
\* task is numbered by its tick. A full backlog refuses the whole transaction.
Enqueue(work) ==
  LET new == (epoch + 1)..(epoch + Len(work)) IN
  /\ new \subseteq Slots
  /\ Cardinality(Backlog) + Len(work) <= BacklogLimit
  /\ epoch' = epoch + Len(work)
  /\ outbox' = [n \in Slots |-> IF n \in new THEN Queued(work[n - epoch]) ELSE outbox[n]]

-----------------------------------------------------------------------------
(* ingest: an id that has a receipt is answered from it, or refused when its *)
(* content differs, and changes nothing.                                     *)

Fresh(r) == receipts[r.id] = NoRequest
\* The receipt, and the event named by the response.
Answer(r, e) ==
  /\ receipts' = [receipts EXCEPT ![r.id] = r]
  /\ answers' = [answers EXCEPT ![r.id] = e]

\* Faulty: the first validation is not written.
WriteUnvalidated(r, s) ==
  /\ Answer(r, r.id)
  /\ rows' = [rows EXCEPT ![r.id] = r]
  /\ status' = [status EXCEPT ![r.id] = s]
  /\ UNCHANGED revision

\* writeEvent: the event with its first validation, and its task.
Write(r, s) ==
  /\ Answer(r, r.id)
  /\ rows' = [rows EXCEPT ![r.id] = r]
  /\ status' = [status EXCEPT ![r.id] = s]
  /\ revision' = [revision EXCEPT ![r.id] = 1]
WriteEvent(r, s) == Write(r, s) /\ Enqueue(<<Work("event", r.id, 1)>>)

\* Faulty: a decision that was seen is not looked up.
ViewAgain(r) ==
  /\ r.type = "impression" /\ Fresh(r)
  /\ WriteEvent(r, IF OutOfTime(r.day) THEN "quarantined" ELSE "valid")
  /\ UNCHANGED <<today, paidBy, refunded, coverage, jobs>>

\* impression: the first valid one of a decision is the one that counts.
View(r) ==
  LET seen == ValidAbout({"impression"}, r.about) IN
  /\ r.type = "impression" /\ Fresh(r)
  /\ \/ OutOfTime(r.day) /\ WriteEvent(r, "quarantined")
     \/ ~OutOfTime(r.day) /\ seen = {} /\ WriteEvent(r, "valid")
     \/ /\ ~OutOfTime(r.day)
        /\ \E e \in seen : Answer(r, e)
        /\ UNCHANGED <<rows, status, revision, epoch, outbox>>
  /\ UNCHANGED <<today, paidBy, refunded, coverage, jobs>>

\* click: the server stamps it, and names it by its decision.
ClickOn(i) == [id |-> i, type |-> "click", about |-> i, day |-> today, amount |-> 0, session |-> TRUE]
Click(i) ==
  /\ Fresh(ClickOn(i))
  /\ WriteEvent(ClickOn(i), "valid")
  /\ UNCHANGED <<today, paidBy, refunded, coverage, jobs>>

\* What a payment is compared by: everything but its id.
Economic(r) == [r EXCEPT !.id = NoId]

\* The refunds that wait for the payment of an order, in the order of their time.
Waiting(o) == {e \in About({"order_refunded"}, o) : status[e] = "pending"}
Before(d, e) == rows[d].day < rows[e].day \/ (rows[d].day = rows[e].day /\ d < e)
\* There is one such queue.
Queues(o) == {q \in [1..Cardinality(Waiting(o)) -> Waiting(o)] : \A i, j \in DOMAIN q : i < j => Before(q[i], q[j])}

\* Faulty: no running sum.
AcceptedSingly(q, amount) == {e \in {q[i] : i \in 1..Len(q)} : rows[e].amount <= amount}

\* Those of a queue that the amount paid has room for.
Accepted(q, amount) ==
  LET fits(i, sum) == sum + rows[q[i]].amount <= amount
      sum[i \in 0..Len(q)] ==
        IF i = 0 THEN 0 ELSE IF fits(i, sum[i - 1]) THEN sum[i - 1] + rows[q[i]].amount ELSE sum[i - 1]
  IN  {q[i] : i \in {k \in 1..Len(q) : fits(k, sum[k - 1])}}

\* The first valid payment of an order validates the refunds that wait for it again.
Settle(r) == \E queue \in Queues(r.about) :
  LET o == r.about
      accepted == Accepted(queue, r.amount)
  IN
  /\ Answer(r, r.id)
  /\ rows' = [rows EXCEPT ![r.id] = r]
  /\ status' = [e \in Ids |-> IF e = r.id \/ e \in accepted THEN "valid"
                              ELSE IF e \in Waiting(o) THEN "quarantined" ELSE status[e]]
  /\ revision' = [e \in Ids |-> IF e = r.id THEN 1 ELSE IF e \in Waiting(o) THEN 2 ELSE revision[e]]
  /\ paidBy' = [paidBy EXCEPT ![o] = r.id]
  /\ refunded' = [refunded EXCEPT ![o] = Total(accepted)]
  /\ Enqueue(<<Work("event", r.id, 1)>> \o [i \in 1..Len(queue) |-> Work("event", queue[i], 2)])

\* conversion, order_paid: a second payment of the order is answered with the first
\* one, or refused when it differs.
Pay(r) ==
  /\ r.type = "order_paid" /\ Fresh(r)
  /\ \/ /\ paidBy[r.about] # NoId
        /\ Economic(rows[paidBy[r.about]]) = Economic(r)
        /\ Answer(r, paidBy[r.about])
        /\ UNCHANGED <<rows, status, revision, paidBy, refunded, epoch, outbox>>
     \/ /\ paidBy[r.about] = NoId /\ OutOfTime(r.day)
        /\ WriteEvent(r, "quarantined")
        /\ UNCHANGED <<paidBy, refunded>>
     \/ /\ paidBy[r.about] = NoId /\ ~OutOfTime(r.day)
        /\ Settle(r)
  /\ UNCHANGED <<today, coverage, jobs>>

\* conversion, order_refunded: a refund in excess of the payment is refused.
Refund(r) ==
  /\ r.type = "order_refunded" /\ Fresh(r)
  /\ \/ OutOfTime(r.day) /\ WriteEvent(r, "quarantined") /\ UNCHANGED refunded
     \/ /\ ~OutOfTime(r.day) /\ paidBy[r.about] = NoId
        /\ WriteEvent(r, "pending")
        /\ UNCHANGED refunded
     \/ /\ ~OutOfTime(r.day) /\ paidBy[r.about] # NoId
        /\ refunded[r.about] + r.amount <= rows[paidBy[r.about]].amount
        /\ WriteEvent(r, "valid")
        /\ refunded' = [refunded EXCEPT ![r.about] = @ + r.amount]
  /\ UNCHANGED <<today, paidBy, coverage, jobs>>

\* spendEntry: a base entry is not negative; an adjustment names a base entry of the
\* same time and leaves its net amount not negative. An entry out of time is isolated.
\* Either way the complete markers around it no longer hold.
Admissible(r) ==
  \/ r.type = "spend" /\ r.amount >= 0
  \/ /\ r.type = "adjustment"
     /\ r.about \in Valid({"spend"})
     /\ rows[r.about].day = r.day
     /\ rows[r.about].amount + Total(ValidAbout({"adjustment"}, r.about)) + r.amount >= 0
Spend(r) ==
  /\ r.type \in Spending /\ Fresh(r) /\ Admissible(r)
  /\ Write(r, IF OutOfTime(r.day) THEN "quarantined" ELSE "valid")
  /\ Enqueue(<<Work(IF OutOfTime(r.day) THEN "spend-isolated" ELSE "spend", r.id, 1)>>)
  /\ coverage' = Invalidated(r.day)
  /\ UNCHANGED <<today, paidBy, refunded, jobs>>

\* spendCoverage: the marker is complete when it names exactly the ledger's entries.
Cover(m) ==
  LET i == Interval(m)
      matches == Isolated(i) = {} /\ Booked(i) = m.claim
  IN
  /\ Fresh(m) /\ m.from < m.to
  /\ Answer(m, m.id)
  /\ coverage' = [coverage EXCEPT ![i] =
       [rev |-> @.rev + 1, status |-> IF matches THEN "complete" ELSE "incomplete", claim |-> m.claim]]
  /\ Enqueue(<<Work("coverage", m.id, coverage'[i].rev)>>)
  /\ UNCHANGED <<today, rows, status, revision, paidBy, refunded, jobs>>

\* rebuild.request: repeated, it changes nothing.
RequestRebuild(j) ==
  /\ jobs[j] = "none"
  /\ jobs' = [jobs EXCEPT ![j] = "pending"]
  /\ Enqueue(<<Work("rebuild", j, 1)>>)
  /\ UNCHANGED <<today, facts>>

Tick ==
  /\ today < LastDay
  /\ today' = today + 1
  /\ UNCHANGED <<facts, jobs, epoch, outbox>>

LedgerInit ==
  /\ today = 1
  /\ receipts = [i \in Ids |-> NoRequest] /\ answers = [i \in Ids |-> NoId]
  /\ rows = [i \in Ids |-> NoRequest] /\ status = [i \in Ids |-> "none"] /\ revision = [i \in Ids |-> 0]
  /\ paidBy = [o \in Orders |-> NoId] /\ refunded = [o \in Orders |-> 0]
  /\ coverage = [i \in Intervals |-> NoCoverage]
  /\ jobs = [j \in Rebuilds |-> "none"]
  /\ epoch = 0 /\ outbox = [n \in Slots |-> NoTask]

Ingest ==
  \/ \E r \in Requests : View(r) \/ Pay(r) \/ Refund(r) \/ Spend(r)
  \/ \E i \in Impressions : Click(i)
  \/ \E m \in Markers : Cover(m)
  \/ \E j \in Rebuilds : RequestRebuild(j)
=============================================================================
