---------------------- MODULE MarketingAggregation_proofs ----------------------
(* Proofs about MarketingAggregation, for every brand, log of requests, number of *)
(* workers and bound.                                                             *)
EXTENDS WellFoundedInduction, MarketingAggregation, FiniteSetTheorems, TLAPS

\* What a worker knows is not newer than the database; while the clock and the publication
\* stand still it is what the database says.
Snapshots ==
  /\ worker = [w \in Workers |-> worker[w]]
  /\ \A w \in Workers : \A b \in worker[w].batch : b[1] \in Slots /\ b[1] <= epoch
  /\ \A w \in Workers : worker[w].phase = "computed" =>
       LET s == worker[w].snap IN
       /\ s.epoch \in Nat /\ s.epoch <= epoch /\ s.generation \in Nat /\ s.generation <= generation
       /\ s.epoch = epoch => s.orders = Attribution /\ s.links = Links /\ s.partitions = Aggregates
       /\ s.generation = generation => s.attributed = attributed /\ s.heads = heads
Numbered == \A n \in Slots : n <= epoch <=> outbox[n].status # "none"
Received == \A e \in Ids : status[e] # "none" => receipts[e] # NoRequest
\* An order that has an attribution has an event, so it keeps one.
KnownStays == \A o \in Orders : attributed[o].value # Unknown => Known(o) # {}

Inv == /\ MarketingTyped /\ Numbered /\ Received /\ KnownStays /\ Snapshots
       /\ DoneMeansPublished /\ PublishedIsRecomputed /\ HeadsOrMarks

Item == [kind : Kinds, of : Ids \union Rebuilds \union {NoId}, rev : Nat]

\* Every request either leaves the rows and the outbox alone, or ticks the clock.
Quiet == rows' = rows /\ status' = status /\ epoch' = epoch /\ outbox' = outbox /\ coverage' = coverage
\* The tasks that the last k ticks of the clock left are new.
TickedBy(k) ==
  /\ epoch' = epoch + k /\ epoch' <= MaxEpoch /\ Cardinality(Backlog) + k <= BacklogLimit
  /\ outbox' = [n \in Slots |-> outbox'[n]]
  /\ \A n \in Slots : IF epoch < n /\ n <= epoch' THEN outbox'[n] \in Task /\ outbox'[n].status = "pending"
                                                        /\ outbox'[n].attempt = 0 /\ outbox'[n].live = FALSE
                     ELSE outbox'[n] = outbox[n]
Ticked == \E k \in Nat \ {0} : TickedBy(k)

\* What is put in the outbox begins a new epoch.
LEMMA EnqueueTicks ==
  ASSUME NEW work \in Seq(Item), Len(work) > 0, Enqueue(work), MarketingTyped
  PROVE  Ticked
<1>. DEFINE k == Len(work)
            new == (epoch + 1)..(epoch + k)
<1>1. k \in Nat \ {0} /\ epoch \in 0..MaxEpoch /\ today \in Nat /\ MaxEpoch \in Nat
  BY LedgerAssumption DEF MarketingTyped, Days
<1>2. /\ new \subseteq Slots /\ Cardinality(Backlog) + k <= BacklogLimit /\ epoch' = epoch + k
      /\ outbox' = [n \in Slots |-> IF n \in new THEN Queued(work[n - epoch]) ELSE outbox[n]]
  BY DEF Enqueue
<1>3. epoch + k \in new /\ epoch' <= MaxEpoch
  BY <1>1, <1>2 DEF Slots
<1>4. \A n \in Slots : n \in new <=> epoch < n /\ n <= epoch'
  BY <1>1, <1>2 DEF Slots
<1>5. ASSUME NEW n \in new
      PROVE  LET t == Queued(work[n - epoch]) IN
               t \in Task /\ t.status = "pending" /\ t.attempt = 0 /\ t.live = FALSE
  <2>1. n - epoch \in 1..Len(work)
    BY <1>1
  <2>2. work[n - epoch] \in Item
    BY <2>1
  <2>. QED
    BY <2>2, <1>1 DEF Item, Queued, Task, TaskStatus
<1>. HIDE DEF new, k
<1>6. TickedBy(k)
  BY <1>2, <1>3, <1>4, <1>5 DEF TickedBy
<1>. QED
  BY <1>1, <1>6 DEF Ticked

\* An event that is written begins a new epoch.
LEMMA WriteTicks ==
  ASSUME NEW r, NEW s, r.id \in Ids, WriteEvent(r, s), MarketingTyped
  PROVE  Ticked
<1>. DEFINE work == <<Work("event", r.id, 1)>>
<1>1. Work("event", r.id, 1) \in Item
  BY DEF Work, Item, Kinds
<1>2. work \in Seq(Item) /\ Len(work) > 0
  BY <1>1
<1>3. Enqueue(work)
  BY DEF WriteEvent
<1>. HIDE DEF work
<1>. QED
  BY <1>2, <1>3, EnqueueTicks

\* A paid order that is settled begins a new epoch.
LEMMA SettleTicks ==
  ASSUME NEW r, r.id \in Ids, Settle(r), MarketingTyped
  PROVE  Ticked
<1>1. PICK queue \in Queues(r.about) :
        Enqueue(<<Work("event", r.id, 1)>> \o [i \in 1..Len(queue) |-> Work("event", queue[i], 2)])
  BY DEF Settle
<1>. DEFINE head == <<Work("event", r.id, 1)>>
            tail == [i \in 1..Len(queue) |-> Work("event", queue[i], 2)]
<1>2. Work("event", r.id, 1) \in Item
  BY DEF Work, Item, Kinds
<1>3. Waiting(r.about) \subseteq Ids /\ IsFiniteSet(Waiting(r.about))
  <2>1. Waiting(r.about) \subseteq Ids
    BY DEF Waiting, About, Of
  <2>. QED
    BY <2>1, FS_Subset, LedgerAssumption
<1>4. Cardinality(Waiting(r.about)) \in Nat
  BY <1>3, FS_CardinalityType
<1>5. queue \in [1..Cardinality(Waiting(r.about)) -> Ids]
  BY <1>3 DEF Queues
<1>6. queue \in Seq(Ids) /\ Len(queue) \in Nat /\ Len(queue) = Cardinality(Waiting(r.about))
  BY <1>4, <1>5
<1>7. tail \in Seq(Item)
  <2>1. ASSUME NEW i \in 1..Len(queue) PROVE Work("event", queue[i], 2) \in Item
    BY <1>5, <1>6 DEF Work, Item, Kinds
  <2>. QED
    BY <2>1, <1>6
<1>8. head \in Seq(Item) /\ Len(head) = 1
  BY <1>2
<1>. DEFINE work == head \o tail
<1>9. Enqueue(work)
  BY <1>1
<1>. HIDE DEF head, tail
<1>10. work \in Seq(Item) /\ Len(work) > 0
  <2>1. ASSUME NEW S, NEW p \in Seq(S), NEW q \in Seq(S), Len(p) = 1
        PROVE  p \o q \in Seq(S) /\ Len(p \o q) > 0
    BY <2>1
  <2>. QED
    BY <1>7, <1>8, <2>1
<1>. HIDE DEF work
<1>. QED
  BY <1>9, <1>10, EnqueueTicks

\* The click on an impression is a request.
LEMMA ClickOnIsRequest ==
  ASSUME NEW i \in Impressions, MarketingTyped
  PROVE  ClickOn(i) \in Request /\ ClickOn(i).id = i /\ i \in Ids
<1>1. i \in Ids
  BY LedgerAssumption
<1>. QED
  BY <1>1 DEF ClickOn, Request, Delivery, MarketingTyped

\* A step of the ingestion begins a new epoch or changes no fact.
LEMMA IngestTicks ==
  ASSUME Ingest \/ Tick, MarketingTyped
  PROVE  Quiet \/ Ticked
<1>. USE LedgerAssumption
<1>1. ASSUME NEW r \in Requests PROVE r \in Request /\ r.id \in Ids
  BY DEF Request
<1>2. ASSUME NEW r \in Requests, View(r) PROVE Quiet \/ Ticked
  <2>1. CASE \E s : WriteEvent(r, s)
    BY <2>1, <1>1, WriteTicks
  <2>2. CASE UNCHANGED <<rows, status, revision, epoch, outbox>> /\ coverage' = coverage
    BY <2>2 DEF Quiet
  <2>. QED
    BY <1>2, <2>1, <2>2 DEF View
<1>3. ASSUME NEW r \in Requests, Pay(r) PROVE Quiet \/ Ticked
  <2>1. CASE \E s : WriteEvent(r, s)
    BY <2>1, <1>1, WriteTicks
  <2>2. CASE Settle(r)
    BY <2>2, <1>1, SettleTicks
  <2>3. CASE UNCHANGED <<rows, status, revision, epoch, outbox>> /\ coverage' = coverage
    BY <2>3 DEF Quiet
  <2>. QED
    BY <1>3, <2>1, <2>2, <2>3 DEF Pay
<1>4. ASSUME NEW r \in Requests, Refund(r) PROVE Ticked
  BY <1>4, <1>1, WriteTicks DEF Refund
<1>5. ASSUME NEW r \in Requests, Spend(r) PROVE Ticked
  <2>. DEFINE kind == IF OutOfTime(r.day) THEN "spend-isolated" ELSE "spend"
              work == <<Work(kind, r.id, 1)>>
  <2>1. Work(kind, r.id, 1) \in Item
    BY <1>1 DEF Work, Item, Kinds
  <2>2. work \in Seq(Item) /\ Len(work) > 0
    BY <2>1
  <2>3. Enqueue(work)
    BY <1>5 DEF Spend
  <2>. HIDE DEF work
  <2>. QED
    BY <2>2, <2>3, EnqueueTicks
<1>6. ASSUME NEW i \in Impressions, Click(i) PROVE Ticked
  BY <1>6, ClickOnIsRequest, WriteTicks DEF Click
<1>7. ASSUME NEW m \in Markers, Cover(m) PROVE Ticked
  <2>. DEFINE i == Interval(m)
              work == <<Work("coverage", m.id, coverage'[i].rev)>>
  <2>1. i \in Intervals /\ m.id \in Ids
    BY DEF Intervals, Marker
  <2>2. coverage'[i].rev = coverage[i].rev + 1 /\ coverage[i].rev \in Nat
    BY <1>7, <2>1 DEF Cover, MarketingTyped
  <2>3. Work("coverage", m.id, coverage'[i].rev) \in Item
    BY <2>1, <2>2 DEF Work, Item, Kinds
  <2>4. work \in Seq(Item) /\ Len(work) > 0
    BY <2>3
  <2>5. Enqueue(work)
    BY <1>7 DEF Cover
  <2>. HIDE DEF work
  <2>. QED
    BY <2>4, <2>5, EnqueueTicks
<1>8. ASSUME NEW j \in Rebuilds, RequestRebuild(j) PROVE Ticked
  <2>. DEFINE work == <<Work("rebuild", j, 1)>>
  <2>1. Work("rebuild", j, 1) \in Item
    BY DEF Work, Item, Kinds
  <2>2. work \in Seq(Item) /\ Len(work) > 0
    BY <2>1
  <2>3. Enqueue(work)
    BY <1>8 DEF RequestRebuild
  <2>. HIDE DEF work
  <2>. QED
    BY <2>2, <2>3, EnqueueTicks
<1>9. ASSUME Tick PROVE Quiet
  BY <1>9 DEF Tick, Quiet, facts
<1>. QED
  BY <1>2, <1>3, <1>4, <1>5, <1>6, <1>7, <1>8, <1>9 DEF Ingest
-----------------------------------------------------------------------------
(* What a request does to the facts *)

Validity == {"none", "valid", "pending", "quarantined"}

\* An event is written under an id that has no receipt; the payment of an order also
\* changes its refunds that wait; an answer changes no event.
Wrote(r, s) == r \in Request /\ Fresh(r) /\ s \in Validity \ {"none"} /\ Write(r, s)
Settled(r) ==
  /\ r \in Request /\ Fresh(r) /\ r.type = "order_paid" /\ Answer(r, r.id)
  /\ rows' = [rows EXCEPT ![r.id] = r]
  /\ status' \in [Ids -> Validity] /\ revision' \in [Ids -> 0..2]
  /\ status'[r.id] = "valid"
  /\ \A e \in Ids : e # r.id /\ e \notin Waiting(r.about) => status'[e] = status[e]
  /\ \A e \in Waiting(r.about) : status'[e] # "none"
Answered(r, e) == r \in Request \union Marker /\ Fresh(r) /\ e \in Ids /\ Answer(r, e) /\ UNCHANGED <<rows, status, revision>>
Untouched == UNCHANGED <<receipts, answers, rows, status, revision>>

\* What changes when a paid order is settled.
LEMMA SettleSettles ==
  ASSUME NEW r \in Request, r.type = "order_paid", Fresh(r), Settle(r), MarketingTyped
  PROVE  Settled(r)
<1>1. PICK q \in Queues(r.about) :
        LET accepted == Accepted(q, r.amount) IN
        /\ status' = [e \in Ids |-> IF e = r.id \/ e \in accepted THEN "valid"
                                    ELSE IF e \in Waiting(r.about) THEN "quarantined" ELSE status[e]]
        /\ revision' = [e \in Ids |-> IF e = r.id THEN 1 ELSE IF e \in Waiting(r.about) THEN 2 ELSE revision[e]]
        /\ Answer(r, r.id)
        /\ rows' = [rows EXCEPT ![r.id] = r]
  BY DEF Settle
<1>2. Waiting(r.about) \subseteq Ids /\ IsFiniteSet(Waiting(r.about))
  <2>1. Waiting(r.about) \subseteq Ids
    BY DEF Waiting, About, Of
  <2>. QED
    BY <2>1, FS_Subset, LedgerAssumption
<1>3. Cardinality(Waiting(r.about)) \in Nat
  BY <1>2, FS_CardinalityType
<1>4. q \in [1..Cardinality(Waiting(r.about)) -> Waiting(r.about)] /\ Len(q) = Cardinality(Waiting(r.about))
  BY <1>3 DEF Queues
<1>5. Accepted(q, r.amount) \subseteq Waiting(r.about)
  <2>1. \A i \in 1..Len(q) : q[i] \in Waiting(r.about)
    BY <1>4
  <2>. QED
    BY <2>1 DEF Accepted
<1>6. r.id \in Ids
  BY DEF Request
<1>. QED
  BY <1>1, <1>2, <1>5, <1>6 DEF Settled, Validity, MarketingTyped

\* A step of the ingestion answers, writes or settles one request.
LEMMA FactSteps ==
  ASSUME Ingest \/ Tick, MarketingTyped
  PROVE  \/ Untouched
         \/ \E r \in Request \union Marker, e \in Ids : Answered(r, e)
         \/ \E r \in Request, s \in Validity : Wrote(r, s)
         \/ \E r \in Request : Settled(r)
<1>. DEFINE G == \/ Untouched
                 \/ \E r \in Request \union Marker, e \in Ids : Answered(r, e)
                 \/ \E r \in Request, s \in Validity : Wrote(r, s)
                 \/ \E r \in Request : Settled(r)
<1>1. ASSUME NEW r \in Requests PROVE r \in Request /\ r.id \in Ids
  BY LedgerAssumption DEF Request
<1>2. ASSUME NEW r \in Request, NEW s \in {"valid", "pending", "quarantined"}, Fresh(r), Write(r, s) PROVE G
  BY <1>2 DEF Wrote, Validity
<1>3. ASSUME NEW r \in Request, NEW s \in {"valid", "pending", "quarantined"}, Fresh(r), WriteEvent(r, s) PROVE G
  BY <1>2, <1>3 DEF WriteEvent
<1>4. ASSUME NEW r \in Request \union Marker, NEW e \in Ids, Fresh(r), Answer(r, e), UNCHANGED <<rows, status, revision>> PROVE G
  BY <1>4 DEF Answered
<1>5. ASSUME NEW r \in Request, Fresh(r), r.type = "order_paid", Settle(r) PROVE G
  BY <1>5, SettleSettles
<1>6. ASSUME Untouched PROVE G
  BY <1>6
<1>. HIDE DEF G
<1>7. ASSUME NEW r \in Requests, View(r) PROVE G
  <2>1. \A e \in ValidAbout({"impression"}, r.about) : e \in Ids
    BY DEF ValidAbout, About, Of
  <2>. QED
    BY <1>1, <1>3, <1>4, <1>7, <2>1 DEF View
<1>8. ASSUME NEW r \in Requests, Pay(r) PROVE G
  <2>1. paidBy[r.about] \in Ids \union {NoId}
    BY <1>8, LedgerAssumption DEF Pay, MarketingTyped, Conversion
  <2>. QED
    BY <1>1, <1>3, <1>4, <1>5, <1>8, <2>1 DEF Pay
<1>9. ASSUME NEW r \in Requests, Refund(r) PROVE G
  BY <1>1, <1>3, <1>9 DEF Refund
<1>10. ASSUME NEW r \in Requests, Spend(r) PROVE G
  BY <1>1, <1>2, <1>10 DEF Spend
<1>11. ASSUME NEW i \in Impressions, Click(i) PROVE G
  BY <1>3, <1>11, ClickOnIsRequest DEF Click
<1>12. ASSUME NEW m \in Markers, Cover(m) PROVE G
  <2>1. m \in Request \union Marker /\ m.id \in Ids
    BY LedgerAssumption DEF Marker
  <2>. QED
    BY <1>4, <1>12, <2>1 DEF Cover
<1>13. ASSUME NEW j \in Rebuilds, RequestRebuild(j) PROVE G
  BY <1>6, <1>13 DEF RequestRebuild, facts, Untouched
<1>14. ASSUME Tick PROVE G
  BY <1>6, <1>14 DEF Tick, facts, Untouched
<1>15. G
  BY <1>7, <1>8, <1>9, <1>10, <1>11, <1>12, <1>13, <1>14 DEF Ingest
<1>. QED
  BY <1>15 DEF G

\* A fact is never taken back, nor is its receipt.
LEMMA ReceivedStep ==
  ASSUME Ingest \/ Tick, MarketingTyped, Received
  PROVE  Received'
<1>1. ASSUME NEW r \in Request, NEW s \in Validity, Wrote(r, s) PROVE Received'
  BY <1>1, LedgerAssumption DEF Wrote, Write, Answer, Received, MarketingTyped
<1>2. ASSUME NEW r \in Request, Settled(r) PROVE Received'
  <2>1. \A e \in Waiting(r.about) : e \in Ids /\ status[e] = "pending"
    BY DEF Waiting, About, Of
  <2>. QED
    BY <1>2, <2>1, LedgerAssumption DEF Settled, Answer, Received, MarketingTyped
<1>3. ASSUME NEW r \in Request \union Marker, NEW e \in Ids, Answered(r, e) PROVE Received'
  BY <1>3, LedgerAssumption DEF Answered, Answer, Received, MarketingTyped
<1>4. ASSUME Untouched PROVE Received'
  BY <1>4 DEF Untouched, Received
<1>. QED
  BY <1>1, <1>2, <1>3, <1>4, FactSteps

\* An order that is known stays known.
LEMMA KnownGrows ==
  ASSUME Ingest \/ Tick, MarketingTyped, Received, NEW o \in Orders, Known(o) # {}
  PROVE  Known(o)' # {}
<1>1. PICK e \in Known(o) : TRUE
  OBVIOUS
<1>2. /\ e \in Ids /\ rows[e].type \in Conversion /\ rows[e].about = o /\ status[e] \notin {"none", "quarantined"}
      /\ receipts[e] # NoRequest
  BY <1>1 DEF Known, About, Of, Received
<1>3. ASSUME NEW d \in Ids, rows'[d].type \in Conversion, rows'[d].about = o, status'[d] \notin {"none", "quarantined"}
      PROVE  Known(o)' # {}
  BY <1>3 DEF Known, About, Of
<1>4. ASSUME NEW r \in Request, NEW s \in Validity, Wrote(r, s) PROVE Known(o)' # {}
  <2>1. e # r.id /\ rows'[e] = rows[e] /\ status'[e] = status[e]
    BY <1>2, <1>4 DEF Wrote, Write, Fresh, MarketingTyped
  <2>. QED
    BY <1>2, <1>3, <2>1
<1>5. ASSUME NEW r \in Request, Settled(r) PROVE Known(o)' # {}
  <2>0. r.id \in Ids
    BY DEF Request
  <2>1. CASE r.about = o
    <3>1. rows'[r.id] = r /\ status'[r.id] = "valid" /\ r.type = "order_paid"
      BY <1>5, <2>0 DEF Settled, MarketingTyped
    <3>. QED
      BY <1>3, <2>0, <2>1, <3>1 DEF Conversion
  <2>2. CASE r.about # o
    <3>1. e # r.id /\ rows'[e] = rows[e]
      BY <1>2, <1>5 DEF Settled, Fresh, MarketingTyped
    <3>2. e \notin Waiting(r.about)
      BY <1>2, <2>2 DEF Waiting, About
    <3>3. status'[e] = status[e]
      BY <1>2, <1>5, <3>1, <3>2 DEF Settled
    <3>. QED
      BY <1>2, <1>3, <3>1, <3>3
  <2>. QED
    BY <2>1, <2>2
<1>6. ASSUME rows' = rows, status' = status PROVE Known(o)' # {}
  BY <1>2, <1>3, <1>6
<1>. QED
  BY <1>4, <1>5, <1>6, FactSteps DEF Untouched, Answered

\* Every step of the ingestion keeps the types.
LEMMA IngestTyped ==
  ASSUME Ingest \/ Tick, UNCHANGED <<published, worker>>, MarketingTyped
  PROVE  MarketingTyped'
<1>. USE LedgerAssumption
<1>1. /\ receipts' \in [Ids -> Request \union Marker \union {NoRequest}] /\ rows' \in [Ids -> Request \union {NoRequest}]
      /\ answers' \in [Ids -> Ids \union {NoId}]
      /\ status' \in [Ids -> {"none", "valid", "pending", "quarantined"}] /\ revision' \in [Ids -> 0..2]
  <2>. DEFINE G == /\ receipts' \in [Ids -> Request \union Marker \union {NoRequest}]
                   /\ rows' \in [Ids -> Request \union {NoRequest}]
                   /\ answers' \in [Ids -> Ids \union {NoId}]
                   /\ status' \in [Ids -> {"none", "valid", "pending", "quarantined"}] /\ revision' \in [Ids -> 0..2]
  <2>1. ASSUME NEW r \in Request, NEW s \in Validity, Wrote(r, s) PROVE G
    <3>1. r.id \in Ids
      BY DEF Request
    <3>. QED
      BY <2>1, <3>1 DEF Wrote, Write, Answer, Validity, MarketingTyped
  <2>2. ASSUME NEW r \in Request, Settled(r) PROVE G
    <3>1. r.id \in Ids
      BY DEF Request
    <3>. QED
      BY <2>2, <3>1 DEF Settled, Answer, Validity, MarketingTyped
  <2>3. ASSUME NEW r \in Request \union Marker, NEW e \in Ids, Answered(r, e) PROVE G
    BY <2>3 DEF Answered, Answer, MarketingTyped
  <2>4. ASSUME Untouched PROVE G
    BY <2>4 DEF Untouched, MarketingTyped
  <2>5. G
    BY <2>1, <2>2, <2>3, <2>4, FactSteps
  <2>. QED
    BY <2>5
<1>2. today' \in Days
  <2>1. CASE Tick
    BY <2>1 DEF Tick, Days, MarketingTyped
  <2>2. CASE Ingest
    <3>1. today' = today
      BY <2>2 DEF Ingest, View, Pay, Refund, Spend, Click, Cover, RequestRebuild
    <3>. QED
      BY <3>1 DEF MarketingTyped
  <2>. QED
    BY <2>1, <2>2
<1>3. paidBy' \in [Orders -> Ids \union {NoId}]
  <2>1. ASSUME NEW r \in Requests, Settle(r) PROVE paidBy' \in [Orders -> Ids \union {NoId}]
    <3>1. r.id \in Ids
      BY DEF Request
    <3>2. paidBy' = [paidBy EXCEPT ![r.about] = r.id]
      BY <2>1 DEF Settle
    <3>. QED
      BY <3>1, <3>2 DEF MarketingTyped
  <2>2. CASE paidBy' = paidBy
    BY <2>2 DEF MarketingTyped
  <2>3. ASSUME NEW r \in Requests, Pay(r) PROVE paidBy' = paidBy \/ Settle(r)
    BY <2>3 DEF Pay
  <2>4. paidBy' = paidBy \/ \E r \in Requests : Pay(r)
    BY DEF Ingest, View, Refund, Spend, Click, Cover, RequestRebuild, Tick, facts
  <2>. QED
    BY <2>1, <2>2, <2>3, <2>4
<1>4. coverage' \in [Intervals -> [rev : Nat, status : {"none", "complete", "incomplete", "invalidated"}, claim : SUBSET Ids]]
  <2>1. ASSUME NEW r \in Requests, Spend(r) PROVE coverage' = Invalidated(r.day)
    BY <2>1 DEF Spend
  <2>2. CASE coverage' = coverage
    BY <2>2 DEF MarketingTyped
  <2>3. ASSUME NEW d, coverage' = Invalidated(d)
        PROVE  coverage' \in [Intervals -> [rev : Nat, status : {"none", "complete", "incomplete", "invalidated"}, claim : SUBSET Ids]]
    BY <2>3 DEF Invalidated, MarketingTyped
  <2>4. ASSUME NEW m \in Markers, Cover(m)
        PROVE  coverage' \in [Intervals -> [rev : Nat, status : {"none", "complete", "incomplete", "invalidated"}, claim : SUBSET Ids]]
    <3>1. m.claim \subseteq Ids /\ Interval(m) \in Intervals
      BY DEF Marker, Intervals
    <3>. QED
      BY <2>4, <3>1 DEF Cover, MarketingTyped
  <2>5. coverage' = coverage \/ (\E r \in Requests : Spend(r)) \/ (\E m \in Markers : Cover(m))
    BY DEF Ingest, View, Refund, Pay, Click, RequestRebuild, Tick, facts
  <2>. QED
    BY <2>1, <2>2, <2>3, <2>4, <2>5
<1>5. jobs' \in [Rebuilds -> {"none", "pending", "done", "failed"}]
  <2>1. ASSUME NEW j \in Rebuilds, RequestRebuild(j) PROVE jobs' \in [Rebuilds -> {"none", "pending", "done", "failed"}]
    BY <2>1 DEF RequestRebuild, MarketingTyped
  <2>2. CASE jobs' = jobs
    BY <2>2 DEF MarketingTyped
  <2>3. jobs' = jobs \/ \E j \in Rebuilds : RequestRebuild(j)
    BY DEF Ingest, View, Pay, Refund, Spend, Click, Cover, Tick
  <2>. QED
    BY <2>1, <2>2, <2>3
<1>6. /\ epoch' \in 0..MaxEpoch /\ epoch' >= epoch
      /\ outbox' \in [Slots -> Task]
      /\ \A n \in Slots : outbox'[n].attempt <= MaxAttempts /\ (outbox'[n].live => outbox'[n].status = "running")
  <2>1. CASE Quiet
    BY <2>1 DEF Quiet, MarketingTyped
  <2>2. ASSUME NEW k \in Nat \ {0}, TickedBy(k)
        PROVE  /\ epoch' \in 0..MaxEpoch /\ epoch' >= epoch
               /\ outbox' \in [Slots -> Task]
               /\ \A n \in Slots : outbox'[n].attempt <= MaxAttempts /\ (outbox'[n].live => outbox'[n].status = "running")
    <3>1. epoch' \in 0..MaxEpoch /\ epoch' >= epoch
      BY <2>2 DEF TickedBy, MarketingTyped
    <3>2. ASSUME NEW n \in Slots
          PROVE  outbox'[n] \in Task /\ outbox'[n].attempt <= MaxAttempts /\ (outbox'[n].live => outbox'[n].status = "running")
      BY <2>2, AggregationAssumption DEF TickedBy, MarketingTyped
    <3>3. outbox' = [n \in Slots |-> outbox'[n]]
      BY <2>2 DEF TickedBy
    <3>. QED
      BY <3>1, <3>2, <3>3
  <2>. QED
    BY <2>1, <2>2, IngestTicks DEF Ticked
<1>7. /\ generation' \in Nat /\ inputEpoch' \in 0..epoch' /\ deferred' \subseteq Partitions
      /\ (\A o \in Orders : attributed[o].rev \in Nat)' /\ (\A k \in Partitions : heads[k].rev \in Nat)'
      /\ (\A w \in Workers : worker[w].phase \in {"idle", "claimed", "computed"})'
  BY <1>6 DEF MarketingTyped, published
<1>. QED
  BY <1>1, <1>2, <1>3, <1>4, <1>5, <1>6, <1>7 DEF MarketingTyped

-----------------------------------------------------------------------------
(* The inductive invariant *)

\* What is computed from the facts depends on their rows alone.
LEMMA SameFacts ==
  ASSUME rows' = rows, status' = status
  PROVE  /\ Attribution' = Attribution /\ Links' = Links /\ Aggregates' = Aggregates
         /\ \A o \in Orders : Known(o)' = Known(o)
<1>1. \A types : Of(types)' = Of(types) /\ Valid(types)' = Valid(types)
  BY DEF Of, Valid
<1>2. \A types, x : About(types, x)' = About(types, x) /\ ValidAbout(types, x)' = ValidAbout(types, x)
  BY <1>1 DEF About, ValidAbout
<1>3. \A o \in Orders : Known(o)' = Known(o)
  BY DEF Known, About, Of
<1>4. Attribution' = Attribution
  BY DEF Attribution, Known, About, Of, Valid, ValidAbout, Candidates, LastClick, Before, Total
<1>5. Links' = Links
  BY <1>4 DEF Links, Link, Total
<1>6. Aggregates' = Aggregates
  BY <1>5 DEF Aggregates, Metrics, In, OrdersIn, Total, CreativeFor, Valid, Of
<1>. QED
  BY <1>3, <1>4, <1>5, <1>6

\* Every step of the ingestion keeps the invariant.
LEMMA IngestInv ==
  ASSUME Inv, Ingest \/ Tick, UNCHANGED <<published, worker>>
  PROVE  Inv'
<1>. USE DEF Inv, published
<1>1. MarketingTyped'
  BY IngestTyped
<1>2. Received'
  BY ReceivedStep
<1>3. KnownStays'
  <2>1. ASSUME NEW o \in Orders, attributed[o].value # Unknown PROVE Known(o)' # {}
    BY <2>1, KnownGrows DEF KnownStays
  <2>. QED
    BY <2>1 DEF KnownStays, Unknown
<1>4. CASE Quiet
  <2>1. /\ Attribution' = Attribution /\ Links' = Links /\ Aggregates' = Aggregates
    BY <1>4, SameFacts DEF Quiet
  <2>2. Numbered' /\ DoneMeansPublished'
    BY <1>4 DEF Quiet, Numbered, DoneMeansPublished
  <2>3. Snapshots'
    BY <1>4, <2>1 DEF Quiet, Snapshots
  <2>4. PublishedIsRecomputed' /\ HeadsOrMarks'
    BY <1>4, <2>1 DEF Quiet, PublishedIsRecomputed, HeadsOrMarks, Current, Zero
  <2>. QED
    BY <1>1, <1>2, <1>3, <2>2, <2>3, <2>4
<1>5. ASSUME NEW k \in Nat \ {0}, TickedBy(k) PROVE Inv'
  <2>1. epoch' > epoch /\ epoch \in Nat /\ epoch' \in Nat /\ inputEpoch <= epoch /\ inputEpoch \in Nat
    BY <1>5, LedgerAssumption DEF TickedBy, MarketingTyped
  <2>2. Numbered' /\ DoneMeansPublished'
    <3>1. ASSUME NEW n \in Slots
          PROVE  (n <= epoch' <=> outbox'[n].status # "none") /\ (outbox'[n].status = "done" => n <= inputEpoch)
      <4>1. n \in Nat
        BY LedgerAssumption DEF Slots
      <4>. QED
        BY <1>5, <2>1, <4>1 DEF TickedBy, Numbered, DoneMeansPublished
    <3>. QED
      BY <3>1 DEF Numbered, DoneMeansPublished
  <2>3. Snapshots'
    <3>1. \A w \in Workers : \A b \in worker[w].batch : b[1] \in Slots /\ b[1] <= epoch'
      BY <2>1, LedgerAssumption DEF Snapshots, Slots
    <3>2. \A w \in Workers : worker[w].phase = "computed" => worker[w].snap.epoch <= epoch' /\ worker[w].snap.epoch # epoch'
      BY <2>1 DEF Snapshots
    <3>. QED
      BY <3>1, <3>2 DEF Snapshots
  <2>4. ~Current'
    BY <2>1 DEF Current
  <2>. QED
    BY <1>1, <1>2, <1>3, <2>2, <2>3, <2>4 DEF PublishedIsRecomputed, HeadsOrMarks
<1>. QED
  BY <1>4, <1>5, IngestTicks DEF Ticked

\* A task that is claimed is a task.
LEMMA ClaimedTask ==
  ASSUME NEW t \in Task
  PROVE  LET c == [t EXCEPT !.status = "running", !.attempt = @ + 1, !.live = TRUE] IN
         c \in Task /\ c.status = "running" /\ c.attempt = t.attempt + 1
<1>1. t.attempt + 1 \in Nat
  BY DEF Task
<1>. QED
  BY <1>1 DEF Task, TaskStatus

\* Short of a publication, a worker changes open tasks, which stay open.
Tended ==
  /\ outbox' = [n \in Slots |-> outbox'[n]]
  /\ \A n \in Slots : \/ outbox'[n] = outbox[n]
                      \/ /\ Open(outbox[n]) /\ outbox'[n] \in Task /\ Open(outbox'[n])
                         /\ outbox'[n].attempt <= MaxAttempts /\ (outbox'[n].live => outbox'[n].status = "running")
Phases == \A w \in Workers : worker[w].phase \in {"idle", "claimed", "computed"}

\* Jobs that are settled are jobs.
LEMMA JobsTyped ==
  ASSUME MarketingTyped, NEW tasks, NEW s \in {"done", "failed"}, SettleJobs(tasks, s)
  PROVE  jobs' \in [Rebuilds -> {"none", "pending", "done", "failed"}]
BY DEF SettleJobs, MarketingTyped

\* A step that only tends to jobs and tasks keeps the invariant if snapshots and phases do.
LEMMA TendedInv ==
  ASSUME Inv, UNCHANGED <<today, facts, epoch, published>>, Tended, Snapshots', Phases',
         jobs' \in [Rebuilds -> {"none", "pending", "done", "failed"}]
  PROVE  Inv'
<1>. USE DEF Inv, published, facts
<1>1. outbox' \in [Slots -> Task] /\ \A n \in Slots : outbox'[n].attempt <= MaxAttempts /\ (outbox'[n].live => outbox'[n].status = "running")
  <2>1. \A n \in Slots : outbox'[n] \in Task /\ outbox'[n].attempt <= MaxAttempts /\ (outbox'[n].live => outbox'[n].status = "running")
    BY DEF Tended, MarketingTyped
  <2>2. outbox' = [n \in Slots |-> outbox'[n]]
    BY DEF Tended
  <2>. QED
    BY <2>1, <2>2
<1>2. MarketingTyped'
  BY <1>1 DEF MarketingTyped, Phases
<1>3. /\ Attribution' = Attribution /\ Links' = Links /\ Aggregates' = Aggregates
      /\ \A o \in Orders : Known(o)' = Known(o)
  BY SameFacts
<1>4. Numbered' /\ DoneMeansPublished'
  BY DEF Tended, Open, Numbered, DoneMeansPublished
<1>5. Received'
  BY DEF Received
<1>6. KnownStays'
  BY <1>3 DEF KnownStays, Unknown
<1>7. PublishedIsRecomputed' /\ HeadsOrMarks'
  BY <1>3 DEF PublishedIsRecomputed, HeadsOrMarks, Current, Zero
<1>. QED
  BY <1>2, <1>4, <1>5, <1>6, <1>7

\* A worker that stops, or that changes tasks only, knows nothing that was not so.
LEMMA IdleSnapshots ==
  ASSUME Inv, UNCHANGED <<facts, epoch, published>>, NEW w \in Workers, worker' = [worker EXCEPT ![w] = Idle]
  PROVE  Snapshots' /\ Phases'
<1>1. /\ Attribution' = Attribution /\ Links' = Links /\ Aggregates' = Aggregates
  BY SameFacts DEF facts
<1>2. ASSUME NEW v \in Workers PROVE v # w => worker'[v] = worker[v]
  BY DEF Snapshots, Inv
<1>3. worker'[w] = Idle /\ worker' = [v \in Workers |-> worker'[v]]
  BY DEF Snapshots, Inv
<1>4. Idle.phase = "idle" /\ Idle.batch = {}
  BY DEF Idle
<1>5. Snapshots'
  BY <1>1, <1>2, <1>3, <1>4 DEF Snapshots, Inv, published
<1>6. Phases'
  BY <1>2, <1>3, <1>4 DEF Phases, Inv, MarketingTyped
<1>. QED
  BY <1>5, <1>6

\* A worker claims tasks.
LEMMA ClaimInv ==
  ASSUME Inv, NEW w \in Workers, Claim(w)
  PROVE  Inv' /\ Tended
<1>. USE DEF Inv
<1>1. PICK waiting \in SUBSET BackingOff :
        LET spent == First({n \in Slots : Spent(outbox[n])})
            taken == First({n \in Slots \ waiting : Claimable(outbox[n]) /\ ~Spent(outbox[n])})
        IN
        /\ outbox' = [n \in Slots |->
             IF n \in spent THEN [outbox[n] EXCEPT !.status = "failed", !.live = FALSE]
             ELSE IF n \in taken THEN [outbox[n] EXCEPT !.status = "running", !.attempt = @ + 1, !.live = TRUE]
             ELSE outbox[n]]
        /\ SettleJobs(spent, "failed")
        /\ worker' = [worker EXCEPT ![w] =
             IF taken = {} THEN Idle
             ELSE [phase |-> "claimed", batch |-> {<<n, outbox[n].attempt + 1>> : n \in taken}, snap |-> NoSnapshot]]
        /\ UNCHANGED <<today, facts, epoch, published>>
  BY DEF Claim
<1>. DEFINE spent == First({n \in Slots : Spent(outbox[n])})
            taken == First({n \in Slots \ waiting : Claimable(outbox[n]) /\ ~Spent(outbox[n])})
<1>2. \A n \in taken : n \in Slots /\ Claimable(outbox[n]) /\ ~Spent(outbox[n])
  BY DEF First
<1>3. Tended
  <2>1. ASSUME NEW n \in Slots
        PROVE  \/ outbox'[n] = outbox[n]
               \/ /\ Open(outbox[n]) /\ outbox'[n] \in Task /\ Open(outbox'[n])
                  /\ outbox'[n].attempt <= MaxAttempts /\ (outbox'[n].live => outbox'[n].status = "running")
    <3>1. outbox[n] \in Task /\ outbox[n].attempt <= MaxAttempts /\ outbox[n].attempt \in Nat
      BY DEF MarketingTyped, Task
    <3>2. CASE n \in spent
      <4>1. outbox'[n] = [outbox[n] EXCEPT !.status = "failed", !.live = FALSE]
        BY <1>1, <3>2
      <4>2. "failed" \in TaskStatus
        BY DEF TaskStatus
      <4>3. outbox'[n] \in Task /\ outbox'[n].status = "failed" /\ outbox'[n].live = FALSE /\ outbox'[n].attempt = outbox[n].attempt
        BY <3>1, <4>1, <4>2 DEF Task
      <4>4. outbox[n].status \in {"pending", "running"}
        BY <3>2 DEF First, Spent, Claimable
      <4>. QED
        BY <3>1, <4>3, <4>4 DEF Open
    <3>3. CASE n \notin spent /\ n \in taken
      <4>1. outbox'[n] = [outbox[n] EXCEPT !.status = "running", !.attempt = @ + 1, !.live = TRUE]
        BY <1>1, <3>3
      <4>2. outbox[n].attempt < MaxAttempts /\ Claimable(outbox[n])
        BY <1>2, <3>1, <3>3, AggregationAssumption DEF Spent
      <4>3. "running" \in TaskStatus
        BY DEF TaskStatus
      <4>4. outbox'[n] \in Task /\ outbox'[n].status = "running" /\ outbox'[n].attempt = outbox[n].attempt + 1
        BY <3>1, <4>1, <4>3, ClaimedTask
      <4>5. outbox[n].status \in {"pending", "running"}
        BY <4>2 DEF Claimable
      <4>. QED
        BY <3>1, <4>2, <4>4, <4>5, AggregationAssumption DEF Open
    <3>4. CASE n \notin spent /\ n \notin taken
      BY <1>1, <3>4
    <3>. QED
      BY <3>2, <3>3, <3>4
  <2>2. outbox' = [n \in Slots |-> outbox'[n]]
    BY <1>1
  <2>. QED
    BY <2>1, <2>2 DEF Tended
<1>4. jobs' \in [Rebuilds -> {"none", "pending", "done", "failed"}]
  BY <1>1, JobsTyped
<1>5. Snapshots' /\ Phases'
  <2>1. CASE worker' = [worker EXCEPT ![w] = Idle]
    BY <1>1, <2>1, IdleSnapshots
  <2>2. CASE worker' = [worker EXCEPT ![w] =
               [phase |-> "claimed", batch |-> {<<n, outbox[n].attempt + 1>> : n \in taken}, snap |-> NoSnapshot]]
    <3>. DEFINE new == [phase |-> "claimed", batch |-> {<<n, outbox[n].attempt + 1>> : n \in taken}, snap |-> NoSnapshot]
    <3>1. new.phase = "claimed" /\ \A b \in new.batch : \E n \in taken : b[1] = n
      OBVIOUS
    <3>2. \A b \in new.batch : b[1] \in Slots /\ b[1] <= epoch
      BY <1>2, <3>1 DEF Numbered, Claimable
    <3>3. /\ Attribution' = Attribution /\ Links' = Links /\ Aggregates' = Aggregates
      BY <1>1, SameFacts DEF facts
    <3>. HIDE DEF new
    <3>4. worker'[w] = new /\ worker' = [v \in Workers |-> worker'[v]] /\ \A v \in Workers : v # w => worker'[v] = worker[v]
      BY <2>2 DEF Snapshots, new
    <3>5. Snapshots'
      BY <1>1, <3>1, <3>2, <3>3, <3>4 DEF Snapshots, published
    <3>. QED
      BY <3>1, <3>4, <3>5 DEF Phases, MarketingTyped
  <2>. QED
    BY <1>1, <2>1, <2>2
<1>. QED
  BY <1>1, <1>3, <1>4, <1>5, TendedInv

\* A worker takes its snapshot.
LEMMA SnapshotInv ==
  ASSUME Inv, NEW w \in Workers, Snapshot(w)
  PROVE  Inv' /\ Tended
<1>. USE DEF Inv
<1>1. UNCHANGED <<ledgerVars, published>> /\ outbox' = outbox /\ jobs' = jobs /\ UNCHANGED <<today, facts, epoch, published>>
  BY DEF Snapshot, ledgerVars
<1>2. Tended
  BY <1>1 DEF Tended, MarketingTyped
<1>. DEFINE new == [phase |-> "computed", batch |-> worker[w].batch, snap |-> Facts]
<1>3. /\ new.phase = "computed" /\ new.batch = worker[w].batch
      /\ new.snap.epoch = epoch /\ new.snap.generation = generation
      /\ new.snap.orders = Attribution /\ new.snap.links = Links /\ new.snap.partitions = Aggregates
      /\ new.snap.attributed = attributed /\ new.snap.heads = heads
  BY DEF Facts
<1>4. worker' = [worker EXCEPT ![w] = new]
  BY DEF Snapshot
<1>. HIDE DEF new
<1>5. worker'[w] = new /\ worker' = [v \in Workers |-> worker'[v]] /\ \A v \in Workers : v # w => worker'[v] = worker[v]
  BY <1>4 DEF Snapshots
<1>6. /\ Attribution' = Attribution /\ Links' = Links /\ Aggregates' = Aggregates
  BY <1>1, SameFacts DEF facts
<1>7. Snapshots'
  <2>1. \A b \in new.batch : b[1] \in Slots /\ b[1] <= epoch
    BY <1>3 DEF Snapshots
  <2>2. epoch \in Nat /\ generation \in Nat
    BY LedgerAssumption DEF MarketingTyped
  <2>3. epoch' = epoch /\ generation' = generation /\ attributed' = attributed /\ heads' = heads
    BY <1>1 DEF published
  <2>4. ASSUME NEW v \in Workers
        PROVE  /\ \A b \in worker'[v].batch : b[1] \in Slots /\ b[1] <= epoch'
               /\ worker'[v].phase = "computed" =>
                    LET s == worker'[v].snap IN
                    /\ s.epoch \in Nat /\ s.epoch <= epoch' /\ s.generation \in Nat /\ s.generation <= generation'
                    /\ s.epoch = epoch' => s.orders = Attribution' /\ s.links = Links' /\ s.partitions = Aggregates'
                    /\ s.generation = generation' => s.attributed = attributed' /\ s.heads = heads'
    <3>1. CASE v = w
      BY <1>3, <1>5, <1>6, <2>1, <2>2, <2>3, <3>1
    <3>2. CASE v # w
      BY <1>5, <1>6, <2>3, <3>2 DEF Snapshots
    <3>. QED
      BY <3>1, <3>2
  <2>. QED
    BY <1>5, <2>4 DEF Snapshots
<1>8. Phases'
  BY <1>3, <1>5 DEF Phases, MarketingTyped
<1>9. jobs' \in [Rebuilds -> {"none", "pending", "done", "failed"}]
  BY <1>1 DEF MarketingTyped
<1>. QED
  BY <1>1, <1>2, <1>7, <1>8, <1>9, TendedInv

\* A worker dies.
LEMMA CrashInv ==
  ASSUME Inv, NEW w \in Workers, Crash(w)
  PROVE  Inv' /\ Tended
<1>1. UNCHANGED <<today, facts, epoch, published>> /\ outbox' = outbox /\ jobs' = jobs
  BY DEF Crash, ledgerVars
<1>2. Tended
  BY <1>1 DEF Tended, MarketingTyped, Inv
<1>3. Snapshots' /\ Phases'
  BY <1>1, IdleSnapshots DEF Crash
<1>4. jobs' \in [Rebuilds -> {"none", "pending", "done", "failed"}]
  BY <1>1 DEF MarketingTyped, Inv
<1>. QED
  BY <1>1, <1>2, <1>3, <1>4, TendedInv

\* The lease of a task expires.
LEMMA ExpireInv ==
  ASSUME Inv, NEW m \in Slots, Expire(m)
  PROVE  Inv' /\ Tended
<1>. USE DEF Inv
<1>1. UNCHANGED <<today, facts, epoch, published>> /\ jobs' = jobs /\ worker' = worker
  BY DEF Expire
<1>2. outbox' = [outbox EXCEPT ![m].live = FALSE] /\ outbox[m].status = "running" /\ outbox[m] \in Task
  BY DEF Expire, MarketingTyped
<1>. DEFINE new == [outbox[m] EXCEPT !.live = FALSE]
<1>3. new \in Task /\ new.live = FALSE /\ new.status = outbox[m].status /\ new.attempt = outbox[m].attempt
  BY <1>2 DEF Task
<1>. HIDE DEF new
<1>4. outbox'[m] = new /\ outbox' = [n \in Slots |-> outbox'[n]] /\ \A n \in Slots : n # m => outbox'[n] = outbox[n]
  BY <1>2 DEF MarketingTyped, new
<1>5. Tended
  BY <1>2, <1>3, <1>4 DEF Tended, Open, MarketingTyped
<1>6. /\ Attribution' = Attribution /\ Links' = Links /\ Aggregates' = Aggregates
  BY <1>1, SameFacts DEF facts
<1>7. Snapshots' /\ Phases'
  BY <1>1, <1>6 DEF Snapshots, Phases, MarketingTyped, published
<1>8. jobs' \in [Rebuilds -> {"none", "pending", "done", "failed"}]
  BY <1>1 DEF MarketingTyped
<1>. QED
  BY <1>1, <1>5, <1>7, <1>8, TendedInv

\* A worker fails at its tasks.
LEMMA FailInv ==
  ASSUME Inv, NEW w \in Workers, NEW permanent, Fail(w, permanent)
  PROVE  Inv' /\ Tended
<1>. USE DEF Inv
<1>. DEFINE lost == {n \in Held(w) : permanent \/ outbox[n].attempt >= MaxAttempts \/ today - outbox[n].born >= Deadline}
<1>1. /\ UNCHANGED <<today, facts, epoch, published>> /\ worker' = [worker EXCEPT ![w] = Idle]
      /\ SettleJobs(lost, "failed")
      /\ outbox' = [n \in Slots |-> IF n \in Held(w)
           THEN [outbox[n] EXCEPT !.status = IF n \in lost THEN "failed" ELSE "pending", !.live = FALSE] ELSE outbox[n]]
  BY DEF Fail
<1>2. \A n \in Held(w) : n \in Slots /\ outbox[n].status = "running"
  BY DEF Held
<1>3. Tended
  <2>1. ASSUME NEW n \in Slots
        PROVE  \/ outbox'[n] = outbox[n]
               \/ /\ Open(outbox[n]) /\ outbox'[n] \in Task /\ Open(outbox'[n])
                  /\ outbox'[n].attempt <= MaxAttempts /\ (outbox'[n].live => outbox'[n].status = "running")
    <3>1. outbox[n] \in Task /\ outbox[n].attempt <= MaxAttempts
      BY DEF MarketingTyped
    <3>2. CASE n \in Held(w)
      <4>. DEFINE s == IF n \in lost THEN "failed" ELSE "pending"
      <4>1. outbox'[n] = [outbox[n] EXCEPT !.status = s, !.live = FALSE]
        BY <1>1, <3>2
      <4>2. s \in TaskStatus /\ s \in {"failed", "pending"}
        BY DEF TaskStatus
      <4>. HIDE DEF s
      <4>3. outbox'[n] \in Task /\ outbox'[n].status = s /\ outbox'[n].live = FALSE /\ outbox'[n].attempt = outbox[n].attempt
        BY <3>1, <4>1, <4>2 DEF Task
      <4>. QED
        BY <1>2, <3>1, <3>2, <4>2, <4>3 DEF Open
    <3>3. CASE n \notin Held(w)
      BY <1>1, <3>3
    <3>. QED
      BY <3>2, <3>3
  <2>2. outbox' = [n \in Slots |-> outbox'[n]]
    BY <1>1
  <2>. QED
    BY <2>1, <2>2 DEF Tended
<1>4. jobs' \in [Rebuilds -> {"none", "pending", "done", "failed"}]
  BY <1>1, JobsTyped
<1>5. Snapshots' /\ Phases'
  BY <1>1, IdleSnapshots
<1>. QED
  BY <1>1, <1>3, <1>4, <1>5, TendedInv

\* The fences make a publication one of the database as it is.
LEMMA Fenced ==
  ASSUME Inv, NEW w \in Workers, Publish(w)
  PROVE  LET s == worker[w].snap IN
         /\ s.epoch = epoch /\ s.generation = generation /\ s.orders = Attribution /\ s.links = Links
         /\ s.partitions = Aggregates /\ s.attributed = attributed /\ s.heads = heads
         /\ \A n \in Batch(w) : n \in Slots /\ n <= epoch /\ outbox[n].status = "running"
<1>1. worker[w].phase = "computed" /\ worker[w].snap.epoch = epoch /\ worker[w].snap.generation = generation
  BY DEF Publish, Unfenced
<1>2. \A n \in Batch(w) : n \in Slots /\ n <= epoch
  BY DEF Batch, Snapshots, Inv
<1>3. \A n \in Batch(w) : outbox[n].status = "running"
  BY DEF Publish, Unfenced, Held
<1>. QED
  BY <1>1, <1>2, <1>3 DEF Snapshots, Inv

\* An order has no attribution until one of its events is known.
LEMMA KnownAttribution == \A o \in Orders : Attribution[o] # Unknown <=> Known(o) # {}
<1>1. ASSUME NEW o \in Orders, Known(o) = {} PROVE Attribution[o] = Unknown
  BY <1>1 DEF Attribution
<1>2. ASSUME NEW o \in Orders, Known(o) # {} PROVE Attribution[o].status # "none"
  BY <1>2 DEF Attribution, Unknown
<1>3. Unknown.status = "none"
  BY DEF Unknown
<1>. QED
  BY <1>1, <1>2, <1>3

\* What a publication says of an order, and how its revision grows.
LEMMA PublishedOrders ==
  ASSUME Inv, NEW w \in Workers, Publish(w), NEW o \in Orders
  PROVE  /\ attributed'[o].value = Attribution[o] /\ attributed'[o].rev \in Nat
         /\ attributed'[o] # attributed[o] => attributed'[o].rev = attributed[o].rev + 1
<1>1. attributed'[o] = Attributed(attributed[o], Attribution[o])
  BY Fenced DEF Publish
<1>2. attributed[o].rev \in Nat /\ attributed[o].rev + 1 \in Nat
  BY DEF Inv, MarketingTyped
<1>3. CASE Attribution[o] = Unknown
  <2>1. attributed[o].value = Unknown
    BY <1>3, KnownAttribution DEF Inv, KnownStays
  <2>2. attributed'[o] = attributed[o]
    BY <1>1, <1>3 DEF Attributed
  <2>. QED
    BY <1>2, <1>3, <2>1, <2>2
<1>4. CASE Attribution[o] # Unknown /\ Attribution[o] # attributed[o].value
  <2>1. attributed'[o] = [rev |-> attributed[o].rev + 1, value |-> Attribution[o]]
    BY <1>1, <1>4 DEF Attributed
  <2>. QED
    BY <1>2, <2>1
<1>5. CASE Attribution[o] # Unknown /\ Attribution[o] = attributed[o].value
  <2>1. attributed'[o] = attributed[o]
    BY <1>1, <1>5 DEF Attributed
  <2>. QED
    BY <1>2, <1>5, <2>1
<1>. QED
  BY <1>3, <1>4, <1>5

\* What a publication says of a partition: its total, or that it is deferred.
LEMMA PublishedPartitions ==
  ASSUME Inv, NEW w \in Workers, Publish(w), NEW k \in Partitions
  PROVE  /\ \/ k \in deferred'
            \/ heads'[k].value = Aggregates[k]
            \/ Aggregates[k] = NoPartition /\ heads'[k].value = Zero
         /\ heads'[k].rev \in Nat
         /\ heads'[k] # heads[k] => heads'[k].rev = heads[k].rev + 1
         /\ Aggregates[k] # NoPartition /\ Forced(w, k[2]) =>
              k \notin deferred' /\ heads'[k].value = Aggregates[k] /\ heads'[k].rev = heads[k].rev + 1
<1>. DEFINE s == worker[w].snap
<1>1. s.partitions = Aggregates /\ s.heads = heads
  BY Fenced
<1>2. heads'[k] = IF k \in Written(w) THEN [rev |-> heads[k].rev + 1, value |-> Value(s, k), epoch |-> s.epoch] ELSE heads[k]
  BY <1>1 DEF Publish
<1>3. k \in deferred' <=> (IF k \in Keys(s) THEN Deferred(w, k) ELSE k \in deferred)
  BY DEF Publish
<1>4. heads[k].rev \in Nat
  BY DEF Inv, MarketingTyped
<1>5. Value(s, k) = IF Aggregates[k] = NoPartition THEN Zero ELSE Aggregates[k]
  BY <1>1 DEF Value
<1>6. k \in Keys(s) <=> Aggregates[k] # NoPartition \/ heads[k] # NoHead
  BY <1>1 DEF Keys
<1>7. CASE k \in Written(w)
  <2>1. k \in Keys(s) /\ ~Deferred(w, k)
    BY <1>7 DEF Written
  <2>2. heads'[k].value = Value(s, k) /\ heads'[k].rev = heads[k].rev + 1
    BY <1>2, <1>7
  <2>. QED
    BY <1>3, <1>4, <1>5, <2>1, <2>2
<1>8. CASE k \notin Written(w)
  <2>1. heads'[k] = heads[k]
    BY <1>2, <1>8
  <2>2. CASE k \notin Keys(s)
    <3>1. heads[k].value = NoPartition /\ Aggregates[k] = NoPartition
      BY <1>6, <2>2 DEF NoHead
    <3>. QED
      BY <1>4, <2>1, <3>1
  <2>3. CASE k \in Keys(s) /\ Kept(w, k)
    <3>1. heads[k].value = Value(s, k) /\ ~Forced(w, k[2])
      BY <1>1, <2>3 DEF Kept, Same
    <3>. QED
      BY <1>4, <1>5, <2>1, <3>1
  <2>4. CASE k \in Keys(s) /\ Deferred(w, k)
    <3>1. ~Forced(w, k[2])
      BY <2>4 DEF Deferred
    <3>. QED
      BY <1>3, <1>4, <2>1, <2>4, <3>1
  <2>. QED
    BY <1>8, <2>2, <2>3, <2>4 DEF Written
<1>. QED
  BY <1>7, <1>8

\* A worker publishes.
LEMMA PublishInv ==
  ASSUME Inv, NEW w \in Workers, Publish(w)
  PROVE  Inv'
<1>. USE DEF Inv
<1>1. /\ UNCHANGED <<today, facts, epoch>> /\ worker' = [worker EXCEPT ![w] = Idle]
      /\ generation' = generation + 1 /\ inputEpoch' = epoch /\ clickOrders' = Links
      /\ deferred' \subseteq Partitions /\ SettleJobs(Batch(w), "done")
      /\ outbox' = [n \in Slots |-> IF n \in Batch(w) THEN [outbox[n] EXCEPT !.status = "done", !.live = FALSE] ELSE outbox[n]]
  BY Fenced DEF Publish
<1>2. /\ Attribution' = Attribution /\ Links' = Links /\ Aggregates' = Aggregates
      /\ \A o \in Orders : Known(o)' = Known(o)
  BY <1>1, SameFacts DEF facts
<1>3. epoch \in Nat /\ generation \in Nat
  BY LedgerAssumption DEF MarketingTyped
<1>4. ASSUME NEW n \in Slots
      PROVE  /\ outbox'[n] \in Task /\ outbox'[n].attempt <= MaxAttempts /\ (outbox'[n].live => outbox'[n].status = "running")
             /\ n <= epoch <=> outbox'[n].status # "none"
             /\ outbox'[n].status = "done" => n <= epoch
  <2>1. outbox[n] \in Task /\ outbox[n].attempt <= MaxAttempts /\ (outbox[n].live => outbox[n].status = "running")
    BY DEF MarketingTyped
  <2>2. CASE n \in Batch(w)
    <3>1. outbox'[n] = [outbox[n] EXCEPT !.status = "done", !.live = FALSE]
      BY <1>1, <2>2
    <3>2. "done" \in TaskStatus
      BY DEF TaskStatus
    <3>3. outbox'[n] \in Task /\ outbox'[n].status = "done" /\ outbox'[n].live = FALSE /\ outbox'[n].attempt = outbox[n].attempt
      BY <2>1, <3>1, <3>2 DEF Task
    <3>4. n <= epoch
      BY <2>2, Fenced
    <3>. QED
      BY <2>1, <3>3, <3>4
  <2>3. CASE n \notin Batch(w)
    <3>1. outbox'[n] = outbox[n]
      BY <1>1, <2>3
    <3>. QED
      BY <2>1, <3>1 DEF Numbered
  <2>. QED
    BY <2>2, <2>3
<1>5. Numbered' /\ DoneMeansPublished'
  BY <1>1, <1>4 DEF Numbered, DoneMeansPublished
<1>6. Received'
  BY <1>1 DEF Received, facts
<1>7. KnownStays'
  <2>1. ASSUME NEW o \in Orders, attributed'[o].value # Unknown PROVE Known(o) # {}
    BY <2>1, PublishedOrders, KnownAttribution
  <2>. QED
    BY <1>2, <2>1 DEF KnownStays, Unknown
<1>8. PublishedIsRecomputed'
  <2>1. \A o \in Orders : attributed'[o].value = Attribution[o]
    BY PublishedOrders
  <2>. QED
    BY <1>1, <1>2, <2>1 DEF PublishedIsRecomputed
<1>9. HeadsOrMarks'
  <2>1. \A k \in Partitions : \/ k \in deferred'
                              \/ heads'[k].value = Aggregates[k]
                              \/ Aggregates[k] = NoPartition /\ heads'[k].value = Zero
    BY PublishedPartitions
  <2>. QED
    BY <1>2, <2>1 DEF HeadsOrMarks, Zero
<1>10. \A v \in Workers : v # w => worker'[v] = worker[v]
  BY <1>1 DEF Snapshots
<1>11. worker'[w] = Idle /\ worker' = [v \in Workers |-> worker'[v]]
  BY <1>1 DEF Snapshots
<1>12. Idle.phase = "idle" /\ Idle.batch = {}
  BY DEF Idle
<1>13. Snapshots'
  <2>1. ASSUME NEW v \in Workers
        PROVE  /\ \A b \in worker'[v].batch : b[1] \in Slots /\ b[1] <= epoch'
               /\ worker'[v].phase = "computed" =>
                    LET s == worker'[v].snap IN
                    /\ s.epoch \in Nat /\ s.epoch <= epoch' /\ s.generation \in Nat /\ s.generation <= generation'
                    /\ s.epoch = epoch' => s.orders = Attribution' /\ s.links = Links' /\ s.partitions = Aggregates'
                    /\ s.generation # generation'
    <3>1. CASE v = w
      BY <1>11, <1>12, <3>1
    <3>2. CASE v # w
      <4>1. worker'[v] = worker[v] /\ epoch' = epoch /\ generation' = generation + 1
        BY <1>1, <1>10, <3>2
      <4>2. worker[v].phase = "computed" => worker[v].snap.generation \in Nat /\ worker[v].snap.generation <= generation
        BY DEF Snapshots
      <4>3. worker[v].phase = "computed" => worker[v].snap.generation <= generation' /\ worker[v].snap.generation # generation'
        BY <1>3, <4>1, <4>2
      <4>. QED
        BY <1>2, <4>1, <4>2, <4>3 DEF Snapshots
    <3>. QED
      BY <3>1, <3>2
  <2>. QED
    BY <1>11, <2>1 DEF Snapshots
<1>14. MarketingTyped'
  <2>1. outbox' \in [Slots -> Task] /\ \A n \in Slots : outbox'[n].attempt <= MaxAttempts /\ (outbox'[n].live => outbox'[n].status = "running")
    BY <1>1, <1>4
  <2>2. jobs' \in [Rebuilds -> {"none", "pending", "done", "failed"}]
    BY <1>1, JobsTyped
  <2>3. /\ (\A o \in Orders : attributed[o].rev \in Nat)' /\ (\A k \in Partitions : heads[k].rev \in Nat)'
    BY PublishedOrders, PublishedPartitions DEF Partitions
  <2>4. (\A v \in Workers : worker[v].phase \in {"idle", "claimed", "computed"})'
    BY <1>10, <1>11, <1>12 DEF MarketingTyped
  <2>5. generation' \in Nat /\ inputEpoch' \in 0..epoch' /\ deferred' \subseteq Partitions
    <3>1. generation' = generation + 1 /\ inputEpoch' = epoch /\ epoch' = epoch /\ deferred' \subseteq Partitions
      BY <1>1
    <3>. QED
      BY <1>3, <3>1
  <2>6. UNCHANGED <<today, epoch, receipts, rows, answers, status, revision, paidBy, coverage>>
    BY <1>1 DEF facts
  <2>7. (/\ today \in Days /\ epoch \in 0..MaxEpoch
         /\ receipts \in [Ids -> Request \union Marker \union {NoRequest}] /\ rows \in [Ids -> Request \union {NoRequest}]
         /\ answers \in [Ids -> Ids \union {NoId}]
         /\ status \in [Ids -> {"none", "valid", "pending", "quarantined"}] /\ revision \in [Ids -> 0..2]
         /\ paidBy \in [Orders -> Ids \union {NoId}])'
    BY <2>6 DEF MarketingTyped
  <2>8. (coverage \in [Intervals -> [rev : Nat, status : {"none", "complete", "incomplete", "invalidated"}, claim : SUBSET Ids]])'
    BY <2>6 DEF MarketingTyped
  <2>. QED
    BY <2>1, <2>2, <2>3, <2>4, <2>5, <2>7, <2>8 DEF MarketingTyped
<1>. QED
  BY <1>5, <1>6, <1>7, <1>8, <1>9, <1>13, <1>14

\* The invariant holds at first.
LEMMA InitInv == Init => Inv
<1>. SUFFICES ASSUME Init PROVE Inv
  OBVIOUS
<1>. USE LedgerAssumption, AggregationAssumption DEF Init, LedgerInit
<1>1. MarketingTyped
  <2>1. outbox \in [Slots -> Task] /\ \A n \in Slots : outbox[n].attempt <= MaxAttempts /\ ~outbox[n].live
    BY DEF NoTask, Task, TaskStatus, Kinds
  <2>2. (\A o \in Orders : attributed[o].rev \in Nat) /\ (\A k \in Partitions : heads[k].rev \in Nat)
    BY DEF NoAttribution, NoHead
  <2>3. coverage \in [Intervals -> [rev : Nat, status : {"none", "complete", "incomplete", "invalidated"}, claim : SUBSET Ids]]
    BY DEF NoCoverage
  <2>. QED
    BY <2>1, <2>2, <2>3 DEF MarketingTyped, Idle, Days
<1>2. Numbered /\ DoneMeansPublished
  BY DEF Numbered, DoneMeansPublished, NoTask, Slots
<1>3. Received
  BY DEF Received
<1>4. KnownStays
  BY DEF KnownStays, NoAttribution
<1>5. Snapshots
  BY DEF Snapshots, Idle
<1>6. \A o \in Orders : Known(o) = {}
  BY DEF Known, About, Of
<1>7. PublishedIsRecomputed
  <2>1. \A o \in Orders : Attribution[o] = Unknown
    BY <1>6, KnownAttribution
  <2>2. Links = [o \in Orders |-> NoOrder]
    BY <2>1 DEF Links, Link, Unknown
  <2>. QED
    BY <2>1, <2>2 DEF PublishedIsRecomputed, NoAttribution
<1>8. HeadsOrMarks
  <2>1. ASSUME NEW k \in Partitions PROVE heads[k].value = Aggregates[k]
    <3>1. In(Delivery \union Spending, k) = {}
      BY DEF In, Valid, Of
    <3>2. OrdersIn(Links, k) = {}
      <4>1. \A o \in Orders : Links[o] = NoOrder
        BY <1>6, KnownAttribution DEF Links, Link, Unknown
      <4>. QED
        BY <4>1 DEF OrdersIn
    <3>. QED
      BY <3>1, <3>2 DEF Aggregates, NoHead
  <2>. QED
    BY <2>1 DEF HeadsOrMarks
<1>. QED
  BY <1>1, <1>2, <1>3, <1>4, <1>5, <1>7, <1>8 DEF Inv

\* Every step keeps the invariant.
LEMMA StepInv == Inv /\ [Next]_vars => Inv'
<1>. SUFFICES ASSUME Inv, [Next]_vars PROVE Inv'
  OBVIOUS
<1>1. CASE (Ingest \/ Tick) /\ UNCHANGED <<published, worker>>
  BY <1>1, IngestInv
<1>2. ASSUME NEW w \in Workers, Claim(w) \/ Run(w) \/ Crash(w) PROVE Inv'
  BY <1>2, ClaimInv, SnapshotInv, PublishInv, FailInv, CrashInv DEF Run
<1>3. ASSUME NEW n \in Slots, Expire(n) PROVE Inv'
  BY <1>3, ExpireInv
<1>4. CASE UNCHANGED vars
  <2>1. UNCHANGED <<today, facts, epoch, published>> /\ outbox' = outbox /\ jobs' = jobs /\ worker' = worker
    BY <1>4 DEF vars, ledgerVars
  <2>2. /\ Attribution' = Attribution /\ Links' = Links /\ Aggregates' = Aggregates
    BY <2>1, SameFacts DEF facts
  <2>3. Tended
    BY <2>1 DEF Tended, Inv, MarketingTyped
  <2>4. Snapshots' /\ Phases'
    BY <2>1, <2>2 DEF Snapshots, Phases, Inv, MarketingTyped, published
  <2>5. jobs' \in [Rebuilds -> {"none", "pending", "done", "failed"}]
    BY <2>1 DEF Inv, MarketingTyped
  <2>. QED
    BY <2>1, <2>3, <2>4, <2>5, TendedInv
<1>. QED
  BY <1>1, <1>2, <1>3, <1>4 DEF Next

\* Everything above holds of every state that the system reaches.
THEOREM MarketingInvariant == Spec => []Inv
BY InitInv, StepInv, PTL DEF Spec

\* The tables of facts, tasks and publications are well typed, whatever is sent.
THEOREM MarketingIsTyped == Spec => []MarketingTyped
BY MarketingInvariant, PTL DEF Inv

\* A task that is acknowledged is covered by a publication, whatever workers crash, lose their
\* leases or race each other.
THEOREM DoneIsPublished == Spec => []DoneMeansPublished
BY MarketingInvariant, PTL DEF Inv

\* A publication that is current is what a recomputation from all the facts would give.
THEOREM PublicationIsRecomputed == Spec => []PublishedIsRecomputed
BY MarketingInvariant, PTL DEF Inv

\* A publication that is current has the metrics of every day, or marks the day.
THEOREM MetricsOrMarks == Spec => []HeadsOrMarks
BY MarketingInvariant, PTL DEF Inv

-----------------------------------------------------------------------------
(* What a publication may do *)

\* A step that publishes advances the generation and the revisions it changes.
LEMMA PublicationAdvancesStep ==
  ASSUME Inv, [Next]_vars
  PROVE  /\ generation' # generation => generation' = generation + 1 /\ inputEpoch' = epoch
         /\ \A o \in Orders : attributed'[o] # attributed[o] => attributed'[o].rev = attributed[o].rev + 1
         /\ \A k \in Partitions : heads'[k] # heads[k] => heads'[k].rev = heads[k].rev + 1
<1>1. ASSUME NEW w \in Workers, Publish(w)
      PROVE  /\ generation' # generation => generation' = generation + 1 /\ inputEpoch' = epoch
             /\ \A o \in Orders : attributed'[o] # attributed[o] => attributed'[o].rev = attributed[o].rev + 1
             /\ \A k \in Partitions : heads'[k] # heads[k] => heads'[k].rev = heads[k].rev + 1
  <2>1. generation' = generation + 1 /\ inputEpoch' = epoch
    BY <1>1, Fenced DEF Publish
  <2>. QED
    BY <1>1, <2>1, PublishedOrders, PublishedPartitions
<1>2. (\E w \in Workers : Publish(w)) \/ UNCHANGED published
  BY DEF Next, Claim, Run, Snapshot, Fail, Crash, Expire, vars
<1>. QED
  BY <1>1, <1>2 DEF published

\* A result never overwrites one made from newer inputs, and the revisions of an order and of
\* a partition follow one another.
THEOREM PublicationsAdvance == Spec => PublicationAdvances
<1>1. Inv /\ [Next]_vars =>
        [/\ generation' # generation => generation' = generation + 1 /\ inputEpoch' = epoch
         /\ \A o \in Orders : attributed'[o] # attributed[o] => attributed'[o].rev = attributed[o].rev + 1
         /\ \A k \in Partitions : heads'[k] # heads[k] => heads'[k].rev = heads[k].rev + 1]_vars
  BY PublicationAdvancesStep
<1>. QED
  BY <1>1, MarketingInvariant, PTL DEF Spec, PublicationAdvances

\* A step that completes a rebuild leaves none of its partitions deferred.
LEMMA RebuildStep ==
  ASSUME Inv, [Next]_vars, NEW j \in Rebuilds, jobs[j] = "pending", jobs'[j] = "done",
         NEW k \in Partitions, Within(k[2], RangeOf[j]), Aggregates[k] # NoPartition
  PROVE  k \notin deferred' /\ heads'[k].value = Aggregates[k] /\ heads'[k].rev = heads[k].rev + 1
<1>1. ASSUME NEW w \in Workers, Publish(w)
      PROVE  k \notin deferred' /\ heads'[k].value = Aggregates[k] /\ heads'[k].rev = heads[k].rev + 1
  <2>1. j \in JobsOf(Batch(w))
    BY <1>1 DEF Publish, SettleJobs
  <2>2. PICK n \in Batch(w) : outbox[n].kind = "rebuild" /\ outbox[n].of = j
    BY <2>1 DEF JobsOf
  <2>3. Forced(w, k[2])
    BY <2>2 DEF Forced
  <2>. QED
    BY <1>1, <2>3, PublishedPartitions
<1>2. ASSUME NEW tasks, SettleJobs(tasks, "failed") PROVE FALSE
  BY <1>2 DEF SettleJobs
<1>3. ASSUME NEW w \in Workers, Claim(w) PROVE FALSE
  BY <1>2, <1>3 DEF Claim
<1>4. ASSUME NEW w \in Workers, NEW permanent \in BOOLEAN, Fail(w, permanent) PROVE FALSE
  BY <1>2, <1>4 DEF Fail
<1>5. ASSUME NEW i \in Rebuilds, RequestRebuild(i) PROVE FALSE
  BY <1>5 DEF RequestRebuild, Inv, MarketingTyped
<1>6. ASSUME jobs' = jobs PROVE FALSE
  BY <1>6
<1>7. (\E r \in Requests : View(r) \/ Pay(r) \/ Refund(r) \/ Spend(r)) => jobs' = jobs
  BY DEF View, Pay, Refund, Spend
<1>8. (\E i \in Impressions : Click(i)) \/ (\E m \in Markers : Cover(m)) \/ Tick => jobs' = jobs
  BY DEF Click, Cover, Tick
<1>9. (\E w \in Workers : Snapshot(w) \/ Crash(w)) \/ (\E n \in Slots : Expire(n)) \/ UNCHANGED vars => jobs' = jobs
  BY DEF Snapshot, Crash, Expire, vars, ledgerVars
<1>. QED
  BY <1>1, <1>3, <1>4, <1>5, <1>6, <1>7, <1>8, <1>9 DEF Next, Ingest, Run

\* A rebuild that is done rewrote every day it names, and none of them is left marked.
THEOREM RebuildsReach == Spec => RebuildsAreThorough
<1>1. Inv /\ [Next]_vars =>
        [\A j \in Rebuilds : jobs[j] = "pending" /\ jobs'[j] = "done" =>
           \A k \in Partitions : Within(k[2], RangeOf[j]) /\ Aggregates[k] # NoPartition =>
             k \notin deferred' /\ heads'[k].value = Aggregates[k] /\ heads'[k].rev = heads[k].rev + 1]_vars
  BY RebuildStep
<1>. QED
  BY <1>1, MarketingInvariant, PTL DEF Spec, RebuildsAreThorough

-----------------------------------------------------------------------------
(* The backlog *)

\* Every step keeps the backlog within its bound.
LEMMA BacklogStep ==
  ASSUME Inv, [Next]_vars, BacklogIsBounded
  PROVE  BacklogIsBounded'
<1>. USE LedgerAssumption
<1>1. IsFiniteSet(Backlog) /\ Cardinality(Backlog) \in Nat
  <2>1. IsFiniteSet(Slots) /\ Backlog \subseteq Slots
    BY FS_Interval DEF Slots, Backlog
  <2>. QED
    BY <2>1, FS_Subset, FS_CardinalityType
<1>2. ASSUME Backlog' \subseteq Backlog PROVE BacklogIsBounded'
  <2>1. IsFiniteSet(Backlog') /\ Cardinality(Backlog') <= Cardinality(Backlog) /\ Cardinality(Backlog') \in Nat
    BY <1>1, <1>2, FS_Subset, FS_CardinalityType
  <2>. QED
    BY <1>1, <2>1 DEF BacklogIsBounded
<1>3. ASSUME Tended PROVE BacklogIsBounded'
  BY <1>2, <1>3 DEF Tended, Backlog
<1>4. ASSUME NEW k \in Nat \ {0}, TickedBy(k) PROVE BacklogIsBounded'
  <2>. DEFINE new == (epoch + 1)..(epoch + k)
  <2>1. epoch \in Nat /\ epoch' = epoch + k /\ Cardinality(Backlog) + k <= BacklogLimit
    BY <1>4 DEF TickedBy, Inv, MarketingTyped
  <2>2. IsFiniteSet(new) /\ Cardinality(new) = k
    BY <2>1, FS_Interval
  <2>3. Backlog' \subseteq Backlog \union new
    <3>1. ASSUME NEW n \in Slots, n \notin new PROVE outbox'[n] = outbox[n]
      BY <1>4, <2>1, <3>1 DEF TickedBy, Slots
    <3>. QED
      BY <3>1 DEF Backlog
  <2>4. IsFiniteSet(Backlog \union new) /\ Cardinality(Backlog \union new) <= Cardinality(Backlog) + k
        /\ Cardinality(Backlog \union new) \in Nat
    <3>1. Cardinality(Backlog \union new) = Cardinality(Backlog) + Cardinality(new) - Cardinality(Backlog \cap new)
          /\ IsFiniteSet(Backlog \union new)
      BY <1>1, <2>2, FS_Union
    <3>2. Cardinality(Backlog \cap new) \in Nat /\ Cardinality(Backlog \union new) \in Nat
      BY <1>1, <3>1, FS_Intersection, FS_CardinalityType
    <3>. QED
      BY <1>1, <2>2, <3>1, <3>2
  <2>5. Cardinality(Backlog') <= Cardinality(Backlog \union new) /\ Cardinality(Backlog') \in Nat
    BY <2>3, <2>4, FS_Subset, FS_CardinalityType
  <2>. HIDE DEF new
  <2>. QED
    BY <1>1, <2>1, <2>4, <2>5 DEF BacklogIsBounded
<1>5. ASSUME Ingest \/ Tick PROVE BacklogIsBounded'
  <2>1. CASE Quiet
    BY <1>2, <2>1 DEF Quiet, Backlog
  <2>. QED
    BY <1>4, <1>5, <2>1, IngestTicks DEF Ticked, Inv
<1>6. ASSUME NEW w \in Workers, Publish(w) PROVE BacklogIsBounded'
  <2>1. ASSUME NEW n \in Slots, Open(outbox'[n]) PROVE Open(outbox[n])
    <3>1. outbox'[n] = IF n \in Batch(w) THEN [outbox[n] EXCEPT !.status = "done", !.live = FALSE] ELSE outbox[n]
      BY <1>6 DEF Publish
    <3>2. outbox[n] \in Task
      BY DEF Inv, MarketingTyped
    <3>3. [outbox[n] EXCEPT !.status = "done", !.live = FALSE].status = "done"
      BY <3>2 DEF Task
    <3>. QED
      BY <2>1, <3>1, <3>3 DEF Open
  <2>. QED
    BY <1>2, <2>1 DEF Backlog
<1>7. ASSUME UNCHANGED vars PROVE BacklogIsBounded'
  BY <1>2, <1>7 DEF vars, ledgerVars, Backlog
<1>. QED
  BY <1>3, <1>5, <1>6, <1>7, ClaimInv, SnapshotInv, FailInv, CrashInv, ExpireInv DEF Next, Run

\* The backlog of a brand is bounded: its limit counts tasks that failed, and a transaction of
\* several tasks is refused as a whole.
THEOREM BacklogStaysBounded == Spec => []BacklogIsBounded
<1>1. Init => BacklogIsBounded
  <2>1. ASSUME Init PROVE Backlog = {}
    BY <2>1 DEF Init, LedgerInit, Backlog, Open, NoTask
  <2>. QED
    BY <2>1, FS_EmptySet, LedgerAssumption DEF BacklogIsBounded
<1>. QED
  BY <1>1, BacklogStep, MarketingInvariant, PTL DEF Spec

-----------------------------------------------------------------------------
(* Coverage *)

\* The rows that are booked and that are isolated, by status, type and day.
LEMMA BookedRows ==
  ASSUME NEW i
  PROVE  /\ Booked(i) = {e \in Ids : status[e] = "valid" /\ rows[e].type \in Spending /\ Within(rows[e].day, i)}
         /\ Isolated(i) = {e \in Ids : status[e] = "quarantined" /\ rows[e].type \in Spending /\ Within(rows[e].day, i)}
         /\ Booked(i)' = {e \in Ids : status'[e] = "valid" /\ rows'[e].type \in Spending /\ Within(rows'[e].day, i)}
         /\ Isolated(i)' = {e \in Ids : status'[e] = "quarantined" /\ rows'[e].type \in Spending /\ Within(rows'[e].day, i)}
BY DEF Booked, Isolated, Valid, Of

\* Days whose spending does not change keep their books.
LEMMA SameBooks ==
  ASSUME NEW i,
         \A e \in Ids, x \in {"valid", "quarantined"} :
           (status'[e] = x /\ rows'[e].type \in Spending /\ Within(rows'[e].day, i))
             <=> (status[e] = x /\ rows[e].type \in Spending /\ Within(rows[e].day, i))
  PROVE  Booked(i)' = Booked(i) /\ Isolated(i)' = Isolated(i)
<1>1. Booked(i)' = Booked(i)
  <2>1. {e \in Ids : status'[e] = "valid" /\ rows'[e].type \in Spending /\ Within(rows'[e].day, i)}
        = {e \in Ids : status[e] = "valid" /\ rows[e].type \in Spending /\ Within(rows[e].day, i)}
    OBVIOUS
  <2>. QED
    BY <2>1, BookedRows, Zenon
<1>2. Isolated(i)' = Isolated(i)
  <2>1. {e \in Ids : status'[e] = "quarantined" /\ rows'[e].type \in Spending /\ Within(rows'[e].day, i)}
        = {e \in Ids : status[e] = "quarantined" /\ rows[e].type \in Spending /\ Within(rows[e].day, i)}
    OBVIOUS
  <2>. QED
    BY <2>1, BookedRows, Zenon
<1>. QED
  BY <1>1, <1>2

\* A row is an entry of an interval only if it is spending within it.
LEMMA WriteKeepsBooks ==
  ASSUME MarketingTyped, Received, NEW r \in Request, NEW s, Fresh(r), Write(r, s), NEW i \in Intervals,
         r.type \notin Spending \/ ~Within(r.day, i)
  PROVE  Booked(i)' = Booked(i) /\ Isolated(i)' = Isolated(i)
<1>1. r.id \in Ids
  BY DEF Request
<1>2. status[r.id] = "none" /\ rows'[r.id] = r
  BY <1>1 DEF Fresh, Received, Write, MarketingTyped
<1>3. ASSUME NEW e \in Ids, e # r.id PROVE status'[e] = status[e] /\ rows'[e] = rows[e]
  BY <1>3 DEF Write, MarketingTyped
<1>4. ASSUME NEW e \in Ids, NEW x \in {"valid", "quarantined"}
      PROVE  (status'[e] = x /\ rows'[e].type \in Spending /\ Within(rows'[e].day, i))
               <=> (status[e] = x /\ rows[e].type \in Spending /\ Within(rows[e].day, i))
  BY <1>2, <1>3
<1>. QED
  BY <1>4, SameBooks

\* A paid order spends nothing.
LEMMA SettleKeepsBooks ==
  ASSUME MarketingTyped, Received, NEW r \in Request, Settled(r), NEW i \in Intervals
  PROVE  Booked(i)' = Booked(i) /\ Isolated(i)' = Isolated(i)
<1>1. r.id \in Ids /\ r.type = "order_paid" /\ "order_paid" \notin Spending
  BY DEF Request, Settled, Spending
<1>2. status[r.id] = "none" /\ rows'[r.id] = r
  BY <1>1 DEF Settled, Fresh, Received, MarketingTyped
<1>3. ASSUME NEW e \in Ids, e # r.id PROVE rows'[e] = rows[e]
  BY <1>3 DEF Settled, MarketingTyped
<1>4. ASSUME NEW e \in Ids, e # r.id, rows[e].type \in Spending PROVE status'[e] = status[e]
  <2>1. e \notin Waiting(r.about)
    BY <1>4 DEF Waiting, About, Of, Spending
  <2>. QED
    BY <1>4, <2>1 DEF Settled
<1>5. ASSUME NEW e \in Ids, NEW x \in {"valid", "quarantined"}
      PROVE  (status'[e] = x /\ rows'[e].type \in Spending /\ Within(rows'[e].day, i))
               <=> (status[e] = x /\ rows[e].type \in Spending /\ Within(rows[e].day, i))
  BY <1>1, <1>2, <1>3, <1>4
<1>. QED
  BY <1>5, SameBooks

\* Every step keeps what is covered exact.
LEMMA CoverageStep ==
  ASSUME Inv, [Next]_vars, CoverageIsExact
  PROVE  CoverageIsExact'
<1>. USE LedgerAssumption DEF Inv
<1>1. ASSUME NEW r \in Requests PROVE r \in Request
  OBVIOUS
<1>2. ASSUME coverage' = coverage, \A i \in Intervals : Booked(i)' = Booked(i) /\ Isolated(i)' = Isolated(i)
      PROVE  CoverageIsExact'
  <2>1. ASSUME NEW i \in Intervals, coverage'[i].status = "complete" PROVE Booked(i)' = coverage'[i].claim /\ Isolated(i)' = {}
    BY <1>2, <2>1 DEF CoverageIsExact
  <2>. QED
    BY <2>1 DEF CoverageIsExact
<1>3. ASSUME coverage' = coverage, rows' = rows, status' = status PROVE CoverageIsExact'
  BY <1>2, <1>3 DEF Booked, Isolated, Valid, Of
<1>4. ASSUME NEW r \in Request, NEW s, Fresh(r), WriteEvent(r, s), r.type \notin Spending, coverage' = coverage
      PROVE  CoverageIsExact'
  BY <1>2, <1>4, WriteKeepsBooks DEF WriteEvent
<1>5. ASSUME NEW r \in Requests, View(r) PROVE CoverageIsExact'
  <2>1. r.type \notin Spending
    BY <1>5 DEF View, Spending
  <2>. QED
    BY <1>1, <1>3, <1>4, <1>5, <2>1 DEF View
<1>6. ASSUME NEW r \in Requests, Pay(r) PROVE CoverageIsExact'
  <2>1. r.type \notin Spending
    BY <1>6 DEF Pay, Spending
  <2>2. CASE Settle(r)
    <3>1. Settled(r)
      BY <1>6, <2>2, SettleSettles DEF Pay
    <3>. QED
      BY <1>2, <1>6, <3>1, SettleKeepsBooks DEF Pay
  <2>. QED
    BY <1>1, <1>3, <1>4, <1>6, <2>1, <2>2 DEF Pay
<1>7. ASSUME NEW r \in Requests, Refund(r) PROVE CoverageIsExact'
  <2>1. r.type \notin Spending
    BY <1>7 DEF Refund, Spending
  <2>. QED
    BY <1>1, <1>4, <1>7, <2>1 DEF Refund
<1>8. ASSUME NEW i \in Impressions, Click(i) PROVE CoverageIsExact'
  <2>1. ClickOn(i).type \notin Spending
    BY DEF ClickOn, Spending
  <2>. QED
    BY <1>4, <1>8, <2>1, ClickOnIsRequest DEF Click
<1>9. ASSUME NEW r \in Requests, Spend(r) PROVE CoverageIsExact'
  <2>1. coverage' = Invalidated(r.day) /\ Fresh(r) /\ \E s : Write(r, s)
    BY <1>9 DEF Spend
  <2>2. ASSUME NEW i \in Intervals, coverage'[i].status = "complete" PROVE Booked(i)' = coverage'[i].claim /\ Isolated(i)' = {}
    <3>1. ~Within(r.day, i) /\ coverage'[i] = coverage[i]
      BY <2>1, <2>2 DEF Invalidated, MarketingTyped
    <3>2. Booked(i)' = Booked(i) /\ Isolated(i)' = Isolated(i)
      BY <2>1, <3>1, WriteKeepsBooks
    <3>. QED
      BY <2>2, <3>1, <3>2 DEF CoverageIsExact
  <2>. QED
    BY <2>2 DEF CoverageIsExact
<1>10. ASSUME NEW m \in Markers, Cover(m) PROVE CoverageIsExact'
  <2>1. Interval(m) \in Intervals
    BY DEF Intervals
  <2>2. \A i \in Intervals : Booked(i)' = Booked(i) /\ Isolated(i)' = Isolated(i)
    BY <1>10 DEF Cover, Booked, Isolated, Valid, Of
  <2>3. ASSUME NEW i \in Intervals, coverage'[i].status = "complete" PROVE Booked(i)' = coverage'[i].claim /\ Isolated(i)' = {}
    <3>1. CASE i = Interval(m)
      <4>1. coverage'[i] = [rev |-> coverage[i].rev + 1, claim |-> m.claim,
                            status |-> IF Isolated(i) = {} /\ Booked(i) = m.claim THEN "complete" ELSE "incomplete"]
        BY <1>10, <2>1, <3>1 DEF Cover, MarketingTyped
      <4>. QED
        BY <2>2, <2>3, <4>1
    <3>2. CASE i # Interval(m)
      <4>1. coverage'[i] = coverage[i]
        BY <1>10, <2>1, <3>2 DEF Cover, MarketingTyped
      <4>. QED
        BY <2>2, <2>3, <4>1 DEF CoverageIsExact
    <3>. QED
      BY <3>1, <3>2
  <2>. QED
    BY <2>3 DEF CoverageIsExact
<1>11. (\E j \in Rebuilds : RequestRebuild(j)) \/ Tick => coverage' = coverage /\ rows' = rows /\ status' = status
  BY DEF RequestRebuild, Tick, facts
<1>12. (\E w \in Workers : Claim(w) \/ Run(w) \/ Crash(w)) \/ (\E n \in Slots : Expire(n)) \/ UNCHANGED vars
         => coverage' = coverage /\ rows' = rows /\ status' = status
  BY DEF Claim, Run, Snapshot, Publish, Fail, Crash, Expire, vars, ledgerVars, facts
<1>. QED
  BY <1>3, <1>5, <1>6, <1>7, <1>8, <1>9, <1>10, <1>11, <1>12 DEF Next, Ingest

\* A marker is complete only while the ledger holds exactly the entries it was computed from.
THEOREM CoverageStaysExact == Spec => []CoverageIsExact
<1>1. Init => CoverageIsExact
  BY DEF Init, LedgerInit, CoverageIsExact, NoCoverage
<1>. QED
  BY <1>1, CoverageStep, MarketingInvariant, PTL DEF Spec

\* A publication that is current is what all accepted facts give.
THEOREM PublicationIsRight == Spec => []PublishedIsRight
BY DoneIsPublished, PublicationIsRecomputed, MetricsOrMarks, PTL DEF PublishedIsRight

\* A publication is never overwritten by an older result, and a rebuild reaches all its days.
THEOREM PublicationsOnlyAdvance == Spec => PublicationsGoForward
BY PublicationsAdvance, RebuildsReach DEF PublicationsGoForward

-----------------------------------------------------------------------------
(* Sums: induction by a least counterexample *)

\* A set of numbers that is not empty has a least one.
LEMMA LeastNumber ==
  ASSUME NEW T, T \subseteq Nat, T # {}
  PROVE  \E n \in T : \A m \in T : n <= m
<1>1. PICK n \in T : \A m \in T : ~(<<m, n>> \in OpToRel(<, Nat))
  BY NatLessThanWellFounded, WFMin
<1>2. \A m \in T : ~(m < n)
  BY <1>1 DEF OpToRel
<1> QED BY <1>2

Any(s) == CHOOSE x \in s : TRUE
\* G adds the numbers of f, in any order.
Adds(G, f, S) == \A s \in SUBSET S : G[s] = IF s = {} THEN 0 ELSE f[Any(s)] + G[s \ {Any(s)}]

\* A sum takes one number after another.
LEMMA SumStep ==
  ASSUME NEW f, NEW S, S = DOMAIN f, IsFiniteSet(S)
  PROVE  \E G : SumFunction(f) = G[S] /\ Adds(G, f, S)
<1> DEFINE Def(g, s) == g[s] = IF s = {} THEN 0 ELSE f[Any(s)] + g[s \ {Any(s)}]
           Up(n) == \E g : DOMAIN g = SUBSET S /\ \A s \in SUBSET S : Cardinality(s) <= n => Def(g, s)
           T == {n \in Nat : ~Up(n)}
<1>1. \A s \in SUBSET S : IsFiniteSet(s) /\ Cardinality(s) \in Nat /\ Cardinality(s) <= Cardinality(S)
  BY FS_Subset, FS_CardinalityType
<1>2. \A s \in SUBSET S : s # {} => Any(s) \in s /\ Cardinality(s \ {Any(s)}) = Cardinality(s) - 1
  BY <1>1, FS_RemoveElement DEF Any
<1>3. Up(0)
  <2>1. \A s \in SUBSET S : Cardinality(s) <= 0 => s = {}
    BY <1>1, FS_EmptySet
  <2>2. Def([s \in SUBSET S |-> 0], {})
    OBVIOUS
  <2> QED BY <2>1, <2>2
<1>4. ASSUME NEW n \in Nat, Up(n) PROVE Up(n + 1)
  <2>1. PICK g : DOMAIN g = SUBSET S /\ \A s \in SUBSET S : Cardinality(s) <= n => Def(g, s)
    BY <1>4
  <2> DEFINE h == [s \in SUBSET S |-> IF Cardinality(s) <= n THEN g[s] ELSE f[Any(s)] + g[s \ {Any(s)}]]
  <2>2. ASSUME NEW s \in SUBSET S, Cardinality(s) <= n + 1 PROVE Def(h, s)
    <3>1. CASE s = {}
      BY <3>1, <2>1, FS_EmptySet
    <3>2. CASE s # {}
      <4>1. s \ {Any(s)} \in SUBSET S /\ Cardinality(s \ {Any(s)}) <= n
        BY <1>1, <1>2, <3>2, <2>2
      <4>2. h[s \ {Any(s)}] = g[s \ {Any(s)}]
        BY <4>1
      <4>3. h[s] = f[Any(s)] + g[s \ {Any(s)}]
        BY <2>1, <3>2
      <4> QED BY <3>2, <4>2, <4>3
    <3> QED BY <3>1, <3>2
  <2> QED BY <2>2
<1>5. T = {}
  <2> SUFFICES ASSUME T # {} PROVE FALSE
    OBVIOUS
  <2>1. PICK n \in T : \A m \in T : n <= m
    BY LeastNumber
  <2>2. n \in Nat /\ ~Up(n) /\ n # 0
    BY <1>3
  <2> HIDE DEF Up
  <2>3. n - 1 \in Nat
    BY <2>2
  <2>4. Up(n - 1)
    BY <2>1, <2>3
  <2> QED BY <1>4, <2>2, <2>3, <2>4
<1>6. Up(Cardinality(S))
  BY <1>5, <1>1
<1>7. PICK g : DOMAIN g = SUBSET S /\ \A s \in SUBSET S : Def(g, s)
  BY <1>6, <1>1
<1>8. [s \in SUBSET S |-> g[s]] = [s \in SUBSET S |-> IF s = {} THEN 0 ELSE f[Any(s)] + g[s \ {Any(s)}]]
  BY <1>7
<1> DEFINE P(G) == G = [s \in SUBSET S |-> IF s = {} THEN 0 ELSE f[Any(s)] + G[s \ {Any(s)}]]
           Iter == CHOOSE G : P(G)
<1>9. P([s \in SUBSET S |-> g[s]])
  BY <1>8
<1>10. P(Iter)
  <2> HIDE DEF P
  <2> QED BY <1>9
<1>11. SumFunction(f) = Iter[S]
  BY DEF SumFunction, SumFunctionOnSet, FoldFunctionOnSet, MapThenFoldSet, Any
<1> HIDE DEF Iter
<1>12. Adds(Iter, f, S)
  BY <1>10 DEF Adds
<1> QED BY <1>11, <1>12

\* Of some subsets of a finite set, one has no other inside.
LEMMA SmallestSet ==
  ASSUME NEW S, IsFiniteSet(S), NEW T, T \subseteq SUBSET S, T # {}
  PROVE  \E A \in T : \A B \in T : B \subseteq A => B = A
<1>1. IsWellFoundedOn(StrictSubsetOrdering(S), FiniteSubsetsOf(S)) /\ T \subseteq FiniteSubsetsOf(S)
  BY FS_Subset, FS_StrictSubsetOrderingWellFounded DEF FiniteSubsetsOf
<1>2. PICK A \in T : \A B \in T : ~(<<B, A>> \in StrictSubsetOrdering(S))
  BY <1>1, WFMin
<1> QED BY <1>2 DEF StrictSubsetOrdering

\* A sum of some of the numbers of a function is part of the sums of all of them.
LEMMA SumOfSome ==
  ASSUME NEW f, NEW S, S = DOMAIN f, IsFiniteSet(S)
  PROVE  \E G : Adds(G, f, S) /\ \A A \in SUBSET S : SumFunction([e \in A |-> f[e]]) = G[A]
<1>1. PICK G : Adds(G, f, S)
  BY SumStep
<1>2. ASSUME NEW A \in SUBSET S PROVE SumFunction([e \in A |-> f[e]]) = G[A]
  <2> DEFINE h == [e \in A |-> f[e]]
  <2>1. IsFiniteSet(A) /\ DOMAIN h = A
    BY FS_Subset
  <2>2. PICK H : SumFunction(h) = H[A] /\ Adds(H, h, A)
    BY <2>1, SumStep
  <2> DEFINE T == {s \in SUBSET A : H[s] # G[s]}
  <2>3. T = {}
    <3> SUFFICES ASSUME T # {} PROVE FALSE
      OBVIOUS
    <3>0. T \subseteq SUBSET A
      OBVIOUS
    <3>1. PICK s \in T : \A B \in T : B \subseteq s => B = s
      <4> HIDE DEF T
      <4> QED BY <2>1, <3>0, SmallestSet
    <3>2. H[s] = (IF s = {} THEN 0 ELSE h[Any(s)] + H[s \ {Any(s)}]) /\ G[s] = (IF s = {} THEN 0 ELSE f[Any(s)] + G[s \ {Any(s)}])
      BY <1>1, <2>2, <3>1 DEF Adds
    <3>3. s # {} /\ Any(s) \in s /\ s \in SUBSET A
      BY <3>1, <3>2 DEF Any
    <3>4. s \ {Any(s)} \notin T
      BY <3>1, <3>3
    <3>5. H[s \ {Any(s)}] = G[s \ {Any(s)}] /\ h[Any(s)] = f[Any(s)]
      BY <3>3, <3>4
    <3> QED BY <3>1, <3>2, <3>3, <3>5
  <2> QED BY <2>2, <2>3
<1> QED BY <1>1, <1>2

\* Any number may be taken last.
LEMMA InAnyOrder ==
  ASSUME NEW S, IsFiniteSet(S), NEW f \in [S -> Int], NEW G, Adds(G, f, S)
  PROVE  /\ G[{}] = 0 /\ \A A \in SUBSET S : G[A] \in Int
         /\ \A A \in SUBSET S : \A x \in S \ A : G[A \union {x}] = G[A] + f[x]
<1>1. \A s \in SUBSET S : s # {} => Any(s) \in s /\ G[s] = f[Any(s)] + G[s \ {Any(s)}]
  BY DEF Adds, Any
<1>2. G[{}] = 0
  BY DEF Adds
<1>3. \A A \in SUBSET S : G[A] \in Int
  <2> DEFINE T == {A \in SUBSET S : G[A] \notin Int}
  <2> SUFFICES ASSUME T # {} PROVE FALSE
    OBVIOUS
  <2>0. T \subseteq SUBSET S
    OBVIOUS
  <2>1. PICK A \in T : \A B \in T : B \subseteq A => B = A
    <3> HIDE DEF T
    <3> QED BY <2>0, SmallestSet
  <2>2. A \in SUBSET S /\ G[A] \notin Int
    OBVIOUS
  <2>3. A # {}
    BY <1>2, <2>2
  <2>4. Any(A) \in A /\ G[A] = f[Any(A)] + G[A \ {Any(A)}]
    BY <1>1, <2>2, <2>3
  <2>5. A \ {Any(A)} \notin T
    BY <2>1, <2>4
  <2>6. G[A \ {Any(A)}] \in Int /\ f[Any(A)] \in Int
    BY <2>2, <2>4, <2>5
  <2> QED BY <2>2, <2>4, <2>6
<1>4. ASSUME NEW A \in SUBSET S, NEW x \in S \ A PROVE G[A \union {x}] = G[A] + f[x]
  <2> DEFINE T == {B \in SUBSET S : \E y \in B : G[B] # G[B \ {y}] + f[y]}
  <2>1. T = {}
    <3> SUFFICES ASSUME T # {} PROVE FALSE
      OBVIOUS
    <3>0. T \subseteq SUBSET S
      OBVIOUS
    <3>1. PICK B \in T : \A C \in T : C \subseteq B => C = B
      <4> HIDE DEF T
      <4> QED BY <3>0, SmallestSet
    <3>2. PICK y \in B : G[B] # G[B \ {y}] + f[y]
      BY <3>1
    <3>3. PICK c \in B : G[B] = f[c] + G[B \ {c}]
      BY <1>1, <3>1, <3>2
    <3>4. B \in SUBSET S /\ y \in S /\ c \in S /\ f[y] \in Int /\ f[c] \in Int /\ G[B \ {c}] \in Int /\ G[B \ {y}] \in Int
      BY <1>3, <3>1
    <3>5. ASSUME NEW C \in SUBSET S, C \notin T, NEW z \in C PROVE G[C] = G[C \ {z}] + f[z]
      BY <3>5
    <3> HIDE DEF T
    <3>6. c # y
      <4>1. f[c] + G[B \ {c}] = G[B \ {c}] + f[c]
        BY <3>4
      <4> QED BY <3>2, <3>3, <4>1
    <3>7. B \ {c} \notin T /\ B \ {y} \notin T
      BY <3>1
    <3>8. G[B \ {c}] = G[(B \ {c}) \ {y}] + f[y]
      BY <3>4, <3>5, <3>6, <3>7
    <3>9. G[B \ {y}] = G[(B \ {y}) \ {c}] + f[c]
      BY <3>4, <3>5, <3>6, <3>7
    <3>10. (B \ {y}) \ {c} = (B \ {c}) \ {y} /\ G[(B \ {y}) \ {c}] \in Int
      BY <1>3, <3>4
    <3>11. G[B] = f[c] + (G[(B \ {c}) \ {y}] + f[y]) /\ G[B \ {y}] = G[(B \ {c}) \ {y}] + f[c]
      BY <3>3, <3>8, <3>9, <3>10
    <3>12. G[(B \ {c}) \ {y}] \in Int
      BY <3>10
    <3>13. f[c] + (G[(B \ {c}) \ {y}] + f[y]) = (G[(B \ {c}) \ {y}] + f[c]) + f[y]
      BY <3>4, <3>12
    <3> QED BY <3>2, <3>11, <3>13
  <2>2. A \union {x} \notin T /\ (A \union {x}) \ {x} = A /\ x \in A \union {x} /\ A \union {x} \in SUBSET S
    <3> HIDE DEF T
    <3> QED BY <2>1
  <2> HIDE DEF T
  <2>3. G[A \union {x}] = G[(A \union {x}) \ {x}] + f[x]
    BY <2>2 DEF T
  <2> QED BY <2>2, <2>3
<1> QED BY <1>2, <1>3, <1>4

Amounts(r, A) == SumFunction([e \in A |-> r[e].amount])

\* The amounts of rows add up in any order.
LEMMA AmountsAdd ==
  ASSUME NEW r, NEW S, IsFiniteSet(S), \A e \in S : r[e].amount \in Int
  PROVE  /\ Amounts(r, {}) = 0
         /\ \A A \in SUBSET S : Amounts(r, A) \in Int
         /\ \A A \in SUBSET S : \A x \in S \ A : Amounts(r, A \union {x}) = Amounts(r, A) + r[x].amount
<1> DEFINE f == [e \in S |-> r[e].amount]
<1>1. f \in [S -> Int] /\ DOMAIN f = S
  OBVIOUS
<1>2. \A A \in SUBSET S : [e \in A |-> f[e]] = [e \in A |-> r[e].amount]
  OBVIOUS
<1>3. \A x \in S : f[x] = r[x].amount
  OBVIOUS
<1> HIDE DEF f
<1>4. PICK G : Adds(G, f, S) /\ \A A \in SUBSET S : SumFunction([e \in A |-> f[e]]) = G[A]
  BY <1>1, SumOfSome
<1>5. \A A \in SUBSET S : Amounts(r, A) = G[A]
  BY <1>2, <1>4 DEF Amounts
<1>6. /\ G[{}] = 0 /\ \A A \in SUBSET S : G[A] \in Int
      /\ \A A \in SUBSET S : \A x \in S \ A : G[A \union {x}] = G[A] + f[x]
  BY <1>1, <1>4, InAnyOrder
<1>7. \A A \in SUBSET S : \A x \in S \ A : A \union {x} \in SUBSET S
  OBVIOUS
<1>8. {} \in SUBSET S
  OBVIOUS
<1> QED BY <1>3, <1>5, <1>6, <1>7, <1>8

\* A sum depends on the rows it is over only.
LEMMA AmountsSame ==
  ASSUME NEW r, NEW p, NEW A, \A e \in A : r[e] = p[e]
  PROVE  Amounts(r, A) = Amounts(p, A)
<1>1. [e \in A |-> r[e].amount] = [e \in A |-> p[e].amount]
  OBVIOUS
<1> QED BY <1>1 DEF Amounts

\* Two sets of rows that have none in common.
LEMMA AmountsUnion ==
  ASSUME NEW r, NEW S, IsFiniteSet(S), \A e \in S : r[e].amount \in Int,
         NEW A \in SUBSET S, NEW B \in SUBSET S, A \intersect B = {}
  PROVE  Amounts(r, A \union B) = Amounts(r, A) + Amounts(r, B)
<1> DEFINE T == {C \in SUBSET B : Amounts(r, A \union C) # Amounts(r, A) + Amounts(r, C)}
<1>1. T = {}
  <2> SUFFICES ASSUME T # {} PROVE FALSE
    OBVIOUS
  <2>1. T \subseteq SUBSET B /\ IsFiniteSet(B)
    BY FS_Subset
  <2>2. PICK C \in T : \A D \in T : D \subseteq C => D = C
    <3> HIDE DEF T
    <3> QED BY <2>1, SmallestSet
  <2>3. C \in SUBSET B /\ Amounts(r, A \union C) # Amounts(r, A) + Amounts(r, C)
    OBVIOUS
  <2>4. C # {}
    <3>1. Amounts(r, A) \in Int /\ Amounts(r, {}) = 0
      BY AmountsAdd
    <3>2. A \union {} = A /\ Amounts(r, A) = Amounts(r, A) + Amounts(r, {})
      BY <3>1
    <3> QED BY <2>3, <3>2
  <2>5. PICK c \in C : TRUE
    BY <2>4
  <2> DEFINE D == C \ {c}
  <2>6. D \in SUBSET B /\ D \notin T
    <3> HIDE DEF T
    <3> QED BY <2>2, <2>3, <2>5
  <2>7. Amounts(r, A \union D) = Amounts(r, A) + Amounts(r, D)
    BY <2>6
  <2>8. /\ A \union C = (A \union D) \union {c} /\ C = D \union {c} /\ c \in S \ (A \union D) /\ c \in S \ D
        /\ A \union D \in SUBSET S /\ D \in SUBSET S
    BY <2>3, <2>5
  <2> HIDE DEF T, D
  <2>9. /\ Amounts(r, A \union C) = Amounts(r, A \union D) + r[c].amount
        /\ Amounts(r, C) = Amounts(r, D) + r[c].amount
        /\ Amounts(r, A) \in Int /\ Amounts(r, D) \in Int /\ r[c].amount \in Int
    <3>1. \A F \in SUBSET S : \A x \in S \ F : Amounts(r, F \union {x}) = Amounts(r, F) + r[x].amount
      BY AmountsAdd
    <3>2. \A F \in SUBSET S : Amounts(r, F) \in Int
      BY AmountsAdd
    <3> QED BY <2>8, <3>1, <3>2
  <2>10. (Amounts(r, A) + Amounts(r, D)) + r[c].amount = Amounts(r, A) + (Amounts(r, D) + r[c].amount)
    BY <2>9
  <2> QED BY <2>3, <2>7, <2>9, <2>10
<1>2. B \notin T
  BY <1>1
<1> QED BY <1>2

\* Rows that come with what adjusts them.
LEMMA AmountsInGroups ==
  ASSUME NEW r, NEW S, IsFiniteSet(S), \A e \in S : r[e].amount \in Int,
         NEW B \in SUBSET S, NEW A \in SUBSET (S \ B), \A a \in A : r[a].about \in B,
         \A b \in B : r[b].amount + Amounts(r, {a \in A : r[a].about = b}) >= 0
  PROVE  Amounts(r, B \union A) >= 0
<1> DEFINE Beside(C) == {a \in A : r[a].about \in C}
           T == {C \in SUBSET B : ~(Amounts(r, C \union Beside(C)) >= 0)}
<1>1. T = {}
  <2> SUFFICES ASSUME T # {} PROVE FALSE
    OBVIOUS
  <2>1. T \subseteq SUBSET B /\ IsFiniteSet(B)
    BY FS_Subset
  <2>2. PICK C \in T : \A D \in T : D \subseteq C => D = C
    <3> HIDE DEF T
    <3> QED BY <2>1, SmallestSet
  <2>3. C \in SUBSET B /\ ~(Amounts(r, C \union Beside(C)) >= 0)
    OBVIOUS
  <2>4. C # {}
    <3>1. {} \union Beside({}) = {} /\ Amounts(r, {}) = 0
      BY AmountsAdd
    <3> QED BY <2>3, <3>1
  <2>5. PICK c \in C : TRUE
    BY <2>4
  <2> DEFINE D == C \ {c}
             E == {a \in A : r[a].about = c}
  <2>6. D \in SUBSET B /\ D \notin T
    <3> HIDE DEF T
    <3> QED BY <2>2, <2>3, <2>5
  <2>7. Amounts(r, D \union Beside(D)) >= 0
    BY <2>6
  <2>8. /\ C \union Beside(C) = (D \union Beside(D)) \union (E \union {c})
        /\ (D \union Beside(D)) \intersect (E \union {c}) = {} /\ c \in S \ E
        /\ D \union Beside(D) \in SUBSET S /\ E \in SUBSET S /\ E \union {c} \in SUBSET S
    BY <2>3, <2>5
  <2>9. r[c].amount + Amounts(r, E) >= 0 /\ r[c].amount \in Int
    BY <2>3, <2>5
  <2> HIDE DEF T, D, E, Beside
  <2>10. /\ Amounts(r, C \union Beside(C)) = Amounts(r, D \union Beside(D)) + Amounts(r, E \union {c})
         /\ Amounts(r, E \union {c}) = Amounts(r, E) + r[c].amount
         /\ Amounts(r, D \union Beside(D)) \in Int /\ Amounts(r, E) \in Int
    <3>1. Amounts(r, (D \union Beside(D)) \union (E \union {c})) = Amounts(r, D \union Beside(D)) + Amounts(r, E \union {c})
      BY <2>8, AmountsUnion
    <3>2. \A F \in SUBSET S : \A x \in S \ F : Amounts(r, F \union {x}) = Amounts(r, F) + r[x].amount
      BY AmountsAdd
    <3>3. \A F \in SUBSET S : Amounts(r, F) \in Int
      BY AmountsAdd
    <3> QED BY <2>8, <3>1, <3>2, <3>3
  <2> QED BY <2>3, <2>7, <2>9, <2>10
<1>2. B \notin T
  BY <1>1
<1>3. Beside(B) = A
  OBVIOUS
<1> QED BY <1>2, <1>3

-----------------------------------------------------------------------------
(* The refunds that a payment has room for *)

\* The sum that decides what is accepted, refund by refund.
Runs(s, q, amount) == \A i \in 0..Len(q) :
  s[i] = IF i = 0 THEN 0
         ELSE IF s[i - 1] + rows[q[i]].amount <= amount THEN s[i - 1] + rows[q[i]].amount ELSE s[i - 1]

\* The refunds that are accepted are those whose running sum is within the amount.
LEMMA RunningSum ==
  ASSUME NEW q, Len(q) \in Nat, NEW amount
  PROVE  \E s : Runs(s, q, amount)
                /\ Accepted(q, amount) = {q[i] : i \in {k \in 1..Len(q) : s[k - 1] + rows[q[k]].amount <= amount}}
<1> DEFINE Then(s, i) == IF i = 0 THEN 0
                         ELSE IF s[i - 1] + rows[q[i]].amount <= amount THEN s[i - 1] + rows[q[i]].amount ELSE s[i - 1]
           Up(n) == \E s : \A i \in 0..n : s[i] = Then(s, i)
           T == {n \in Nat : ~Up(n)}
<1>1. Up(0)
  <2>1. \A i \in 0..0 : i = 0
    OBVIOUS
  <2>2. [i \in {0} |-> 0][0] = 0
    OBVIOUS
  <2> QED BY <2>1, <2>2
<1>2. ASSUME NEW n \in Nat, Up(n) PROVE Up(n + 1)
  <2>1. PICK s : \A i \in 0..n : s[i] = Then(s, i)
    BY <1>2
  <2> DEFINE t == [i \in 0..(n + 1) |-> IF i = n + 1 THEN Then(s, i) ELSE s[i]]
  <2>2. ASSUME NEW i \in 0..(n + 1) PROVE t[i] = Then(t, i)
    <3>1. i # 0 => t[i - 1] = s[i - 1]
      OBVIOUS
    <3>2. t[i] = Then(s, i)
      BY <2>1
    <3> HIDE DEF t
    <3> QED BY <3>1, <3>2
  <2> QED BY <2>2
<1>3. T = {}
  <2> SUFFICES ASSUME T # {} PROVE FALSE
    OBVIOUS
  <2>1. T \subseteq Nat
    OBVIOUS
  <2>2. PICK n \in T : \A m \in T : n <= m
    <3> HIDE DEF T
    <3> QED BY <2>1, LeastNumber
  <2>3. n \in Nat /\ ~Up(n)
    OBVIOUS
  <2> HIDE DEF Up
  <2>4. n # 0 /\ n - 1 \in Nat
    BY <1>1, <2>3
  <2>5. Up(n - 1)
    BY <2>2, <2>4
  <2> QED BY <1>2, <2>3, <2>4, <2>5
<1>4. Up(Len(q))
  <2> HIDE DEF Up
  <2> QED BY <1>3
<1>5. PICK s : \A i \in 0..Len(q) : s[i] = Then(s, i)
  BY <1>4
<1> DEFINE P(t) == t = [i \in 0..Len(q) |-> Then(t, i)]
           Sum == CHOOSE t : P(t)
<1>6. P([i \in 0..Len(q) |-> s[i]])
  <2> DEFINE t == [i \in 0..Len(q) |-> s[i]]
  <2>1. ASSUME NEW i \in 0..Len(q) PROVE t[i] = Then(t, i)
    <3>1. i # 0 => t[i - 1] = s[i - 1]
      OBVIOUS
    <3>2. t[i] = Then(s, i)
      BY <1>5
    <3> HIDE DEF t
    <3> QED BY <3>1, <3>2
  <2>2. t = [i \in 0..Len(q) |-> t[i]]
    OBVIOUS
  <2> HIDE DEF t, Then
  <2>3. t = [i \in 0..Len(q) |-> Then(t, i)]
    BY <2>1, <2>2
  <2> QED BY <2>3 DEF t
<1>7. P(Sum)
  <2> HIDE DEF P
  <2> QED BY <1>6
<1>8. Accepted(q, amount) = {q[i] : i \in {k \in 1..Len(q) : Sum[k - 1] + rows[q[k]].amount <= amount}}
  BY DEF Accepted
<1> HIDE DEF Sum
<1>9. Runs(Sum, q, amount)
  BY <1>7 DEF Runs
<1> QED BY <1>8, <1>9

\* What is accepted of refunds that wait fits in what was paid.
LEMMA AcceptedFits ==
  ASSUME NEW W, IsFiniteSet(W), \A e \in W : rows[e].amount \in Int, NEW n \in Nat, NEW q \in [1..n -> W],
         \A i, j \in 1..n : i < j => q[i] # q[j], NEW amount \in Nat
  PROVE  Accepted(q, amount) \subseteq W /\ Amounts(rows, Accepted(q, amount)) <= amount
<1>1. Len(q) = n
  OBVIOUS
<1>2. PICK s : /\ Runs(s, q, amount)
               /\ Accepted(q, amount) = {q[i] : i \in {k \in 1..Len(q) : s[k - 1] + rows[q[k]].amount <= amount}}
  BY <1>1, RunningSum
<1> DEFINE Up(m) == {q[i] : i \in {k \in 1..m : s[k - 1] + rows[q[k]].amount <= amount}}
           T == {m \in 0..n : ~(s[m] \in Int /\ s[m] <= amount /\ Amounts(rows, Up(m)) = s[m])}
<1>3. \A m \in 0..n : Up(m) \in SUBSET W
  OBVIOUS
<1>4. T = {}
  <2> SUFFICES ASSUME T # {} PROVE FALSE
    OBVIOUS
  <2>1. T \subseteq Nat
    OBVIOUS
  <2>2. PICK m \in T : \A k \in T : m <= k
    <3> HIDE DEF T
    <3> QED BY <2>1, LeastNumber
  <2>3. m \in 0..n /\ ~(s[m] \in Int /\ s[m] <= amount /\ Amounts(rows, Up(m)) = s[m])
    OBVIOUS
  <2>4. m # 0
    <3> SUFFICES ASSUME m = 0 PROVE FALSE
      OBVIOUS
    <3>1. s[m] = 0
      BY <1>1, <1>2 DEF Runs
    <3>2. Up(m) = {}
      OBVIOUS
    <3>3. Amounts(rows, {}) = 0
      BY AmountsAdd
    <3>4. Amounts(rows, Up(m)) = s[m]
      BY <3>1, <3>2, <3>3
    <3> HIDE DEF T, Up
    <3> QED BY <2>3, <3>1, <3>4
  <2>5. m - 1 \in 0..n /\ m - 1 \notin T
    <3> HIDE DEF T
    <3> QED BY <2>2, <2>3, <2>4
  <2>6. s[m - 1] \in Int /\ s[m - 1] <= amount /\ Amounts(rows, Up(m - 1)) = s[m - 1]
    BY <2>5
  <2>7. s[m] = IF s[m - 1] + rows[q[m]].amount <= amount THEN s[m - 1] + rows[q[m]].amount ELSE s[m - 1]
    BY <1>1, <1>2, <2>3, <2>4 DEF Runs
  <2>8. q[m] \in W /\ rows[q[m]].amount \in Int /\ m \in 1..n
    BY <2>3, <2>4
  <2>9. CASE s[m - 1] + rows[q[m]].amount <= amount
    <3>1. Up(m) = Up(m - 1) \union {q[m]}
      BY <2>8, <2>9
    <3>2. q[m] \notin Up(m - 1)
      BY <2>8
    <3> HIDE DEF Up, T
    <3>3. Amounts(rows, Up(m)) = Amounts(rows, Up(m - 1)) + rows[q[m]].amount
      BY <1>3, <2>5, <2>8, <3>1, <3>2, AmountsAdd
    <3> QED BY <2>3, <2>6, <2>7, <2>8, <2>9, <3>3
  <2>10. CASE ~(s[m - 1] + rows[q[m]].amount <= amount)
    <3>1. Up(m) = Up(m - 1)
      BY <2>8, <2>10
    <3> HIDE DEF Up, T
    <3> QED BY <2>3, <2>6, <2>7, <2>10, <3>1
  <2> QED BY <2>9, <2>10
<1>5. ASSUME NEW m \in 0..n, m \notin T PROVE s[m] <= amount /\ Amounts(rows, Up(m)) = s[m]
  BY <1>5
<1>6. Accepted(q, amount) = Up(n)
  BY <1>1, <1>2
<1> HIDE DEF T, Up
<1> QED BY <1>3, <1>4, <1>5, <1>6

-----------------------------------------------------------------------------
(* The facts *)

\* What is known of an event: the request that its receipt has, which is answered with it.
RowsAreRequests == \A e \in Ids : status[e] # "none" =>
  /\ rows[e] \in Request /\ rows[e].id = e
  /\ receipts[e] = rows[e] /\ answers[e] = e
  /\ rows[e].type \in Conversion => rows[e].amount >= 0
  /\ rows[e].type = "click" => rows[e].about = e

\* An order that is paid has one payment, none of its refunds waits, and they fit in it.
OrdersHold == \A o \in Orders :
  /\ refunded[o] = Total(ValidAbout({"order_refunded"}, o))
  /\ paidBy[o] = NoId => ValidAbout({"order_paid"}, o) = {} /\ ValidAbout({"order_refunded"}, o) = {}
  /\ paidBy[o] # NoId => /\ ValidAbout({"order_paid"}, o) = {paidBy[o]} /\ Waiting(o) = {}
                         /\ refunded[o] <= rows[paidBy[o]].amount

\* What is adjusted is an entry of the same day, which its adjustments leave something of.
BooksHold ==
  /\ \A a \in Valid({"adjustment"}) : rows[a].about \in Valid({"spend"}) /\ rows[rows[a].about].day = rows[a].day
  /\ \A b \in Valid({"spend"}) : rows[b].amount + Total(ValidAbout({"adjustment"}, b)) >= 0

DeliveredOnce == \A i \in Impressions, t \in Delivery : \A x, y \in ValidAbout({t}, i) : x = y

AnswersStand == \A i \in Ids : answers[i] # NoId =>
  /\ receipts[i] # NoRequest /\ receipts[answers[i]] # NoRequest
  /\ answers[i] # i => /\ status[answers[i]] = "valid" /\ status[i] = "none"
                       /\ receipts[answers[i]].about = receipts[i].about

\* A task names a fact with a validation that is at least as new.
TasksFollow == \A n \in Slots : outbox[n].kind \in {"event", "spend"} =>
  outbox[n].of \in Ids /\ status[outbox[n].of] # "none" /\ revision[outbox[n].of] >= outbox[n].rev

RefundsAreOfOrders == refunded = [o \in Orders |-> refunded[o]]

FactsInv == RowsAreRequests /\ OrdersHold /\ RefundsAreOfOrders /\ BooksHold /\ DeliveredOnce /\ AnswersStand

\* The valid events of a kind, and those about something.
LEMMA ValidRows ==
  \A types, x :
    /\ Valid(types) = {e \in Ids : status[e] = "valid" /\ rows[e].type \in types}
    /\ Valid(types)' = {e \in Ids : status'[e] = "valid" /\ rows'[e].type \in types}
    /\ ValidAbout(types, x) = {e \in Ids : status[e] = "valid" /\ rows[e].type \in types /\ rows[e].about = x}
    /\ ValidAbout(types, x)' = {e \in Ids : status'[e] = "valid" /\ rows'[e].type \in types /\ rows'[e].about = x}
    /\ Waiting(x) = {e \in Ids : status[e] = "pending" /\ rows[e].type = "order_refunded" /\ rows[e].about = x}
    /\ Waiting(x)' = {e \in Ids : status'[e] = "pending" /\ rows'[e].type = "order_refunded" /\ rows'[e].about = x}
BY DEF Valid, ValidAbout, About, Of, Waiting

\* A total is the sum of the amounts of the rows.
LEMMA TotalIs == \A E : Total(E) = Amounts(rows, E)
BY DEF Total, Amounts

\* A set of events that have rows adds up to a number.
LEMMA TotalsAdd ==
  ASSUME RowsAreRequests
  PROVE  LET R == {e \in Ids : status[e] # "none"} IN
         /\ Total({}) = 0 /\ IsFiniteSet(R)
         /\ \A A \in SUBSET R : Total(A) \in Int
         /\ \A A \in SUBSET R : \A x \in R \ A : Total(A \union {x}) = Total(A) + rows[x].amount
         /\ \A x \in R : rows[x].amount \in Int /\ Total({x}) = rows[x].amount
<1> DEFINE R == {e \in Ids : status[e] # "none"}
<1>1. IsFiniteSet(R)
  BY FS_Subset, LedgerAssumption
<1>2. \A e \in R : rows[e].amount \in Int
  BY DEF RowsAreRequests, Request
<1> HIDE DEF R
<1>3. /\ Amounts(rows, {}) = 0 /\ \A A \in SUBSET R : Amounts(rows, A) \in Int
      /\ \A A \in SUBSET R : \A x \in R \ A : Amounts(rows, A \union {x}) = Amounts(rows, A) + rows[x].amount
  BY <1>1, <1>2, AmountsAdd
<1>4. ASSUME NEW x \in R PROVE Amounts(rows, {x}) = rows[x].amount
  <2>1. {} \in SUBSET R /\ x \in R \ {} /\ {} \union {x} = {x}
    OBVIOUS
  <2>2. Amounts(rows, {x}) = Amounts(rows, {}) + rows[x].amount
    BY <1>3, <2>1
  <2> QED BY <1>2, <1>3, <2>2
<1>5. /\ Total({}) = 0 /\ \A A \in SUBSET R : Total(A) \in Int
      /\ \A A \in SUBSET R : \A x \in R \ A : Total(A \union {x}) = Total(A) + rows[x].amount
      /\ \A x \in R : Total({x}) = rows[x].amount
  BY <1>3, <1>4, TotalIs
<1> QED BY <1>1, <1>2, <1>5 DEF R

\* What is valid stays as it is, and more events may become valid.
Grows(new) ==
  /\ \A e \in Ids : status[e] = "valid" => status'[e] = "valid" /\ rows'[e] = rows[e]
  /\ new = {e \in Ids : status'[e] = "valid" /\ status[e] # "valid"}

\* What becomes valid is added to the valid rows of its type.
LEMMA ValidGrows ==
  ASSUME NEW new, Grows(new)
  PROVE  /\ \A types : Valid(types)' = Valid(types) \union {e \in new : rows'[e].type \in types}
         /\ \A types, x : ValidAbout(types, x)' = ValidAbout(types, x) \union {e \in new : rows'[e].type \in types /\ rows'[e].about = x}
         /\ \A types, x : Amounts(rows', ValidAbout(types, x)) = Total(ValidAbout(types, x))
<1>1. ASSUME NEW types PROVE Valid(types)' = Valid(types) \union {e \in new : rows'[e].type \in types}
  BY ValidRows DEF Grows
<1>2. ASSUME NEW types, NEW x
      PROVE  ValidAbout(types, x)' = ValidAbout(types, x) \union {e \in new : rows'[e].type \in types /\ rows'[e].about = x}
  BY ValidRows DEF Grows
<1>3. ASSUME NEW types, NEW x PROVE Amounts(rows', ValidAbout(types, x)) = Total(ValidAbout(types, x))
  <2>1. \A e \in ValidAbout(types, x) : rows'[e] = rows[e]
    BY ValidRows DEF Grows
  <2> QED BY <2>1, AmountsSame, TotalIs
<1> QED BY <1>1, <1>2, <1>3

\* A total after a step is the sum of the amounts then.
LEMMA TotalsThen ==
  \A types, x : Total(ValidAbout(types, x))' = Amounts(rows', ValidAbout(types, x)')
BY DEF Total, Amounts

\* Events of other kinds change nothing about the valid ones.
LEMMA SameValid ==
  ASSUME NEW new, Grows(new), NEW types, \A e \in new : rows'[e].type \notin types
  PROVE  /\ Valid(types)' = Valid(types)
         /\ \A x : ValidAbout(types, x)' = ValidAbout(types, x) /\ Total(ValidAbout(types, x))' = Total(ValidAbout(types, x))
<1>1. Valid(types)' = Valid(types)
  <2>1. Valid(types)' = Valid(types) \union {e \in new : rows'[e].type \in types}
    BY ValidGrows
  <2>2. {e \in new : rows'[e].type \in types} = {}
    OBVIOUS
  <2> QED BY <2>1, <2>2
<1>2. \A x : ValidAbout(types, x)' = ValidAbout(types, x)
  BY ValidRows DEF Grows
<1>3. \A x : Total(ValidAbout(types, x))' = Total(ValidAbout(types, x))
  BY <1>2, ValidGrows, TotalsThen
<1> QED BY <1>1, <1>2, <1>3

\* What writing a new event or entry does to the facts.
Recorded(r, s) ==
  /\ r.id \in Ids /\ status[r.id] = "none" /\ receipts[r.id] = NoRequest
  /\ rows'[r.id] = r /\ status'[r.id] = s /\ revision'[r.id] = 1 /\ receipts'[r.id] = r /\ answers'[r.id] = r.id
  /\ \A e \in Ids : e # r.id =>
       /\ rows'[e] = rows[e] /\ status'[e] = status[e] /\ revision'[e] = revision[e]
       /\ receipts'[e] = receipts[e] /\ answers'[e] = answers[e]

\* What is written is recorded.
LEMMA WriteRecords ==
  ASSUME MarketingTyped, Received, NEW r \in Request, Fresh(r), NEW s, Write(r, s)
  PROVE  Recorded(r, s)
<1>1. r.id \in Ids /\ receipts[r.id] = NoRequest
  BY DEF Request, Fresh
<1>2. status[r.id] = "none"
  BY <1>1 DEF Received
<1>3. /\ rows'[r.id] = r /\ status'[r.id] = s /\ revision'[r.id] = 1 /\ receipts'[r.id] = r /\ answers'[r.id] = r.id
      /\ \A e \in Ids : e # r.id =>
              /\ rows'[e] = rows[e] /\ status'[e] = status[e] /\ revision'[e] = revision[e]
              /\ receipts'[e] = receipts[e] /\ answers'[e] = answers[e]
  BY <1>1 DEF Write, Answer, MarketingTyped
<1> QED BY <1>1, <1>2, <1>3 DEF Recorded

New(r, s) == IF s = "valid" THEN {r.id} ELSE {}

\* A row that is recorded makes the valid rows grow by itself at most.
LEMMA RecordedGrows ==
  ASSUME NEW r, NEW s, Recorded(r, s)
  PROVE  Grows(New(r, s))
BY DEF Recorded, Grows, New

\* A new event is what its receipt says, and no answer named it before.
LEMMA RecordKeepsAnswers ==
  ASSUME MarketingTyped, FactsInv, NEW r \in Request, NEW s, Recorded(r, s),
         r.type \in Conversion => r.amount >= 0, r.type = "click" => r.about = r.id
  PROVE  RowsAreRequests' /\ AnswersStand'
<1>1. RowsAreRequests'
  BY DEF FactsInv, RowsAreRequests, Recorded
<1>2. ASSUME NEW i \in Ids, answers'[i] # NoId, i # r.id
      PROVE  /\ receipts'[i] # NoRequest /\ receipts'[answers'[i]] # NoRequest
             /\ answers'[i] # i => /\ status'[answers'[i]] = "valid" /\ status'[i] = "none"
                                  /\ receipts'[answers'[i]].about = receipts'[i].about
  <2>1. answers'[i] = answers[i] /\ receipts'[i] = receipts[i] /\ status'[i] = status[i] /\ answers[i] \in Ids
    BY <1>2 DEF MarketingTyped, Recorded
  <2>2. answers[i] # r.id
    BY <1>2, <2>1 DEF FactsInv, AnswersStand, Recorded
  <2> QED BY <1>2, <2>1, <2>2 DEF FactsInv, AnswersStand, Recorded
<1>3. receipts'[r.id] # NoRequest /\ answers'[r.id] = r.id
  BY LedgerAssumption DEF Recorded
<1> QED BY <1>1, <1>2, <1>3 DEF AnswersStand

\* A record keeps deliveries single if it is none or the first of its impression.
LEMMA RecordKeepsDeliveries ==
  ASSUME FactsInv, NEW r \in Request, NEW s, Recorded(r, s),
         r.type \in Delivery /\ s = "valid" => ValidAbout({r.type}, r.about) = {}
  PROVE  DeliveredOnce'
<1> DEFINE new == New(r, s)
<1>1. Grows(new) /\ new \subseteq {r.id} /\ (new # {} => s = "valid")
  BY RecordedGrows DEF New
<1> HIDE DEF new
<1>2. ASSUME NEW i \in Impressions, NEW t \in Delivery, NEW x \in ValidAbout({t}, i)', NEW y \in ValidAbout({t}, i)'
      PROVE  x = y
  <2>1. ValidAbout({t}, i)' = ValidAbout({t}, i) \union {e \in new : rows'[e].type \in {t} /\ rows'[e].about = i}
    BY <1>1, ValidGrows
  <2>2. rows'[r.id] = r
    BY DEF Recorded
  <2>3. \A u, v \in ValidAbout({t}, i) : u = v
    BY DEF FactsInv, DeliveredOnce
  <2> QED BY <1>1, <1>2, <2>1, <2>2, <2>3
<1> QED BY <1>2 DEF DeliveredOnce

\* A record that spends nothing keeps the books.
LEMMA RecordKeepsBooks ==
  ASSUME FactsInv, NEW r \in Request, NEW s, Recorded(r, s), r.type \notin Spending \/ s # "valid"
  PROVE  BooksHold'
<1> DEFINE new == New(r, s)
<1>1. Grows(new) /\ \A e \in new : rows'[e].type \notin Spending
  BY RecordedGrows DEF New, Recorded
<1> HIDE DEF new
<1>2. \A e \in new : rows'[e].type \notin {"adjustment"} /\ rows'[e].type \notin {"spend"}
  BY <1>1 DEF Spending
<1>3. /\ Valid({"adjustment"})' = Valid({"adjustment"}) /\ Valid({"spend"})' = Valid({"spend"})
      /\ \A x : /\ ValidAbout({"adjustment"}, x)' = ValidAbout({"adjustment"}, x)
               /\ Total(ValidAbout({"adjustment"}, x))' = Total(ValidAbout({"adjustment"}, x))
  BY <1>1, <1>2, SameValid
<1>5. \A e \in Valid({"adjustment"}) \union Valid({"spend"}) : rows'[e] = rows[e]
  BY <1>1, ValidRows DEF Grows
<1> QED BY <1>3, <1>5 DEF FactsInv, BooksHold

\* A record that is no conversion, or not yet one, keeps the orders.
LEMMA RecordKeepsOrders ==
  ASSUME FactsInv, NEW r \in Request, NEW s, Recorded(r, s), paidBy' = paidBy, refunded' = refunded,
         r.type \notin Conversion \/ s # "valid", s = "pending" => paidBy[r.about] = NoId
  PROVE  OrdersHold'
<1> DEFINE new == New(r, s)
<1>1. Grows(new) /\ \A e \in new : rows'[e].type \notin Conversion
  BY RecordedGrows DEF New, Recorded
<1> HIDE DEF new
<1>2. \A e \in new : rows'[e].type \notin {"order_paid"} /\ rows'[e].type \notin {"order_refunded"}
  BY <1>1 DEF Conversion
<1>3. \A x : /\ ValidAbout({"order_paid"}, x)' = ValidAbout({"order_paid"}, x)
             /\ ValidAbout({"order_refunded"}, x)' = ValidAbout({"order_refunded"}, x)
             /\ Total(ValidAbout({"order_refunded"}, x))' = Total(ValidAbout({"order_refunded"}, x))
  BY <1>1, <1>2, SameValid
<1>5. ASSUME NEW o \in Orders, paidBy[o] # NoId
      PROVE  Waiting(o)' = {} /\ refunded'[o] <= rows'[paidBy'[o]].amount
  <2>1. ValidAbout({"order_paid"}, o) = {paidBy[o]} /\ Waiting(o) = {} /\ refunded[o] <= rows[paidBy[o]].amount
    BY <1>5 DEF FactsInv, OrdersHold
  <2>2. rows'[paidBy[o]] = rows[paidBy[o]]
    BY <1>1, <2>1, ValidRows DEF Grows
  <2>3. \A e \in Ids : e # r.id => status'[e] = status[e] /\ rows'[e] = rows[e]
    BY DEF Recorded
  <2>4. status'[r.id] = s /\ rows'[r.id] = r
    BY DEF Recorded
  <2>5. Waiting(o)' = {}
    BY <1>5, <2>1, <2>3, <2>4, ValidRows
  <2> QED BY <2>1, <2>2, <2>5
<1> QED BY <1>3, <1>5 DEF FactsInv, OrdersHold

\* A step that changes no row keeps what is said of rows.
LEMMA SameRows ==
  ASSUME FactsInv, rows' = rows, status' = status, paidBy' = paidBy, refunded' = refunded
  PROVE  OrdersHold' /\ RefundsAreOfOrders' /\ BooksHold' /\ DeliveredOnce'
<1>1. \A types, x : /\ Valid(types)' = Valid(types) /\ ValidAbout(types, x)' = ValidAbout(types, x) /\ Waiting(x)' = Waiting(x)
                    /\ Total(ValidAbout(types, x))' = Total(ValidAbout(types, x))
  BY DEF Valid, ValidAbout, About, Of, Waiting, Total
<1>2. OrdersHold'
  BY <1>1 DEF FactsInv, OrdersHold
<1>3. BooksHold'
  BY <1>1 DEF FactsInv, BooksHold
<1>4. DeliveredOnce'
  BY <1>1 DEF FactsInv, DeliveredOnce
<1> QED BY <1>2, <1>3, <1>4 DEF FactsInv, RefundsAreOfOrders

\* A response is stored for a request that has no row.
LEMMA AnswerKeeps ==
  ASSUME MarketingTyped, Received, FactsInv, NEW r \in Request \union Marker, Fresh(r), NEW e \in Ids, Answer(r, e),
         rows' = rows, status' = status, paidBy' = paidBy, refunded' = refunded,
         e # r.id => status[e] = "valid" /\ rows[e].about = r.about
  PROVE  FactsInv'
<1>1. r.id \in Ids /\ receipts[r.id] = NoRequest /\ r # NoRequest
  BY LedgerAssumption DEF Request, Marker, Fresh
<1>2. status[r.id] = "none"
  BY <1>1 DEF Received
<1>3. /\ receipts'[r.id] = r /\ answers'[r.id] = e
      /\ \A i \in Ids : i # r.id => receipts'[i] = receipts[i] /\ answers'[i] = answers[i]
  BY <1>1 DEF Answer, MarketingTyped
<1>4. RowsAreRequests'
  BY <1>2, <1>3 DEF FactsInv, RowsAreRequests
<1>5. ASSUME NEW i \in Ids, answers'[i] # NoId, i # r.id
      PROVE  /\ receipts'[i] # NoRequest /\ receipts'[answers'[i]] # NoRequest
             /\ answers'[i] # i => /\ status'[answers'[i]] = "valid" /\ status'[i] = "none"
                                  /\ receipts'[answers'[i]].about = receipts'[i].about
  <2>1. answers'[i] = answers[i] /\ receipts'[i] = receipts[i] /\ answers[i] \in Ids
    BY <1>3, <1>5 DEF MarketingTyped
  <2>2. answers[i] # r.id
    BY <1>1, <1>5, <2>1 DEF FactsInv, AnswersStand
  <2> QED BY <1>3, <1>5, <2>1, <2>2 DEF FactsInv, AnswersStand
<1>6. e # r.id => receipts'[e] = rows[e] /\ receipts'[e] # NoRequest
  BY <1>3, LedgerAssumption DEF FactsInv, RowsAreRequests
<1>7. AnswersStand'
  BY <1>1, <1>2, <1>3, <1>5, <1>6 DEF AnswersStand
<1> QED BY <1>4, <1>7, SameRows DEF FactsInv

\* An event that spends nothing and converts nothing keeps the facts.
LEMMA EventKeeps ==
  ASSUME MarketingTyped, Received, FactsInv, NEW r \in Request, Fresh(r), NEW s, Write(r, s),
         r.type \notin Spending, r.type \notin Conversion \/ s # "valid", s = "pending" => paidBy[r.about] = NoId,
         paidBy' = paidBy, refunded' = refunded,
         r.type \in Conversion => r.amount >= 0, r.type = "click" => r.about = r.id,
         r.type \in Delivery /\ s = "valid" => ValidAbout({r.type}, r.about) = {}
  PROVE  FactsInv'
<1>1. Recorded(r, s)
  BY WriteRecords
<1>2. RowsAreRequests' /\ AnswersStand'
  BY <1>1, RecordKeepsAnswers
<1>3. DeliveredOnce'
  BY <1>1, RecordKeepsDeliveries
<1>4. BooksHold'
  BY <1>1, RecordKeepsBooks
<1>5. OrdersHold'
  BY <1>1, RecordKeepsOrders
<1>6. RefundsAreOfOrders'
  BY DEF FactsInv, RefundsAreOfOrders
<1> QED BY <1>2, <1>3, <1>4, <1>5, <1>6 DEF FactsInv

\* One more valid event adds its amount to what it is about.
LEMMA OneMore ==
  ASSUME FactsInv, NEW r \in Request, Recorded(r, "valid"), NEW x
  PROVE  LET more == IF x = r.about THEN {r.id} ELSE {} IN
         /\ ValidAbout({r.type}, x)' = ValidAbout({r.type}, x) \union more
         /\ Total(ValidAbout({r.type}, x))' = Total(ValidAbout({r.type}, x)) + (IF x = r.about THEN r.amount ELSE 0)
         /\ Total(ValidAbout({r.type}, x)) \in Int
<1> DEFINE R == {e \in Ids : status[e] # "none"}
           A == ValidAbout({r.type}, x)
           more == IF x = r.about THEN {r.id} ELSE {}
<1>1. r.id \in Ids /\ status[r.id] = "none" /\ rows'[r.id] = r /\ status'[r.id] = "valid"
  BY DEF Recorded
<1>2. \A e \in R : e # r.id /\ rows'[e] = rows[e]
  BY <1>1 DEF Recorded
<1>3. A \subseteq R /\ r.id \notin R /\ R \union {r.id} \subseteq Ids
  BY <1>1, ValidRows
<1>4. A' = A \union more
  <2>1. A' = A \union {e \in New(r, "valid") : rows'[e].type \in {r.type} /\ rows'[e].about = x}
    BY RecordedGrows, ValidGrows
  <2>2. {e \in New(r, "valid") : rows'[e].type \in {r.type} /\ rows'[e].about = x} = more
    BY <1>1 DEF New
  <2> QED BY <2>1, <2>2
<1>5. Total(A)' = Amounts(rows', A')
  BY TotalsThen
<1>6. Amounts(rows', A) = Total(A)
  BY RecordedGrows, ValidGrows
<1>7. Total(A) \in Int
  BY <1>3, TotalsAdd DEF FactsInv
<1>8. Amounts(rows', A \union {r.id}) = Amounts(rows', A) + r.amount
  <2> DEFINE S == R \union {r.id}
  <2>1. IsFiniteSet(S)
    BY <1>3, FS_Subset, LedgerAssumption
  <2>2. \A e \in S : rows'[e].amount \in Int
    BY <1>1, <1>2 DEF FactsInv, RowsAreRequests, Request
  <2>3. A \in SUBSET S /\ r.id \in S \ A
    BY <1>3
  <2> HIDE DEF S, A
  <2> QED BY <1>1, <2>1, <2>2, <2>3, AmountsAdd
<1>9. r.amount \in Int
  BY DEF Request
<1> HIDE DEF A
<1>10. CASE x = r.about
  <2>1. A' = A \union {r.id}
    BY <1>4, <1>10
  <2>2. Total(A)' = Total(A) + r.amount
    BY <1>5, <1>6, <1>8, <2>1
  <2> QED BY <1>7, <1>10, <2>1, <2>2 DEF A
<1>11. CASE x # r.about
  <2>1. A' = A
    BY <1>4, <1>11
  <2>2. Total(A)' = Total(A) + 0
    BY <1>5, <1>6, <1>7, <2>1
  <2> QED BY <1>7, <1>11, <2>1, <2>2 DEF A
<1> QED BY <1>10, <1>11

\* A refund that fits in the payment.
LEMMA RefundKeeps ==
  ASSUME MarketingTyped, Received, FactsInv, NEW r \in Request, Fresh(r), r.type = "order_refunded", Write(r, "valid"),
         r.about \in Orders, r.amount >= 0, paidBy[r.about] # NoId, refunded[r.about] + r.amount <= rows[paidBy[r.about]].amount,
         paidBy' = paidBy, refunded' = [refunded EXCEPT ![r.about] = @ + r.amount]
  PROVE  FactsInv'
<1>1. Recorded(r, "valid")
  BY WriteRecords
<1>2. RowsAreRequests' /\ AnswersStand'
  BY <1>1, RecordKeepsAnswers
<1>3. DeliveredOnce'
  BY <1>1, RecordKeepsDeliveries DEF Delivery
<1>4. BooksHold'
  BY <1>1, RecordKeepsBooks DEF Spending
<1>5. refunded' = [o \in Orders |-> IF o = r.about THEN refunded[o] + r.amount ELSE refunded[o]]
  BY DEF FactsInv, RefundsAreOfOrders
<1>6. ASSUME NEW o \in Orders
      PROVE  /\ refunded'[o] = Total(ValidAbout({"order_refunded"}, o))'
             /\ paidBy'[o] = NoId => ValidAbout({"order_paid"}, o)' = {} /\ ValidAbout({"order_refunded"}, o)' = {}
             /\ paidBy'[o] # NoId => /\ ValidAbout({"order_paid"}, o)' = {paidBy'[o]} /\ Waiting(o)' = {}
                                     /\ refunded'[o] <= rows'[paidBy'[o]].amount
  <2>1. /\ refunded[o] = Total(ValidAbout({"order_refunded"}, o))
        /\ paidBy[o] = NoId => ValidAbout({"order_paid"}, o) = {} /\ ValidAbout({"order_refunded"}, o) = {}
        /\ paidBy[o] # NoId => /\ ValidAbout({"order_paid"}, o) = {paidBy[o]} /\ Waiting(o) = {}
                               /\ refunded[o] <= rows[paidBy[o]].amount
    BY DEF FactsInv, OrdersHold
  <2>2. /\ ValidAbout({"order_refunded"}, o)' = ValidAbout({"order_refunded"}, o) \union (IF o = r.about THEN {r.id} ELSE {})
        /\ Total(ValidAbout({"order_refunded"}, o))' = Total(ValidAbout({"order_refunded"}, o)) + (IF o = r.about THEN r.amount ELSE 0)
        /\ Total(ValidAbout({"order_refunded"}, o)) \in Int
    BY <1>1, OneMore
  <2>3. Grows({r.id}) /\ rows'[r.id] = r
    BY <1>1, RecordedGrows DEF New, Recorded
  <2>4. ValidAbout({"order_paid"}, o)' = ValidAbout({"order_paid"}, o)
    BY <2>3, SameValid
  <2>5. \A e \in Ids : e # r.id => status'[e] = status[e] /\ rows'[e] = rows[e]
    BY <1>1 DEF Recorded
  <2>6. status'[r.id] = "valid"
    BY <1>1 DEF Recorded
  <2>7. Waiting(o) = {} => Waiting(o)' = {}
    BY <2>5, <2>6, ValidRows
  <2>8. paidBy[o] # NoId => rows'[paidBy[o]] = rows[paidBy[o]]
    BY <2>1, <2>3, ValidRows DEF Grows
  <2>9. refunded'[o] = Total(ValidAbout({"order_refunded"}, o))'
    BY <1>5, <2>1, <2>2
  <2>10. paidBy[o] # NoId => refunded'[o] <= rows'[paidBy[o]].amount
    BY <1>5, <2>1, <2>8
  <2> QED BY <2>1, <2>2, <2>4, <2>7, <2>9, <2>10
<1>7. OrdersHold'
  BY <1>6 DEF OrdersHold
<1>8. RefundsAreOfOrders'
  BY <1>5 DEF RefundsAreOfOrders
<1> QED BY <1>2, <1>3, <1>4, <1>7, <1>8 DEF FactsInv

\* An entry, or an adjustment that leaves something of its entry.
LEMMA SpendKeeps ==
  ASSUME MarketingTyped, Received, FactsInv, NEW r \in Request, Fresh(r), r.type \in Spending, Admissible(r), NEW s,
         Write(r, s), s \in {"valid", "quarantined"}, paidBy' = paidBy, refunded' = refunded
  PROVE  FactsInv'
<1>0. r.type \notin Conversion /\ r.type \notin Delivery /\ r.type # "click" /\ s # "pending"
  BY DEF Spending, Conversion, Delivery
<1>1. Recorded(r, s)
  BY WriteRecords
<1>2. RowsAreRequests' /\ AnswersStand'
  BY <1>0, <1>1, RecordKeepsAnswers
<1>3. DeliveredOnce'
  BY <1>0, <1>1, RecordKeepsDeliveries
<1>4. OrdersHold'
  BY <1>0, <1>1, RecordKeepsOrders
<1>5. RefundsAreOfOrders'
  BY DEF FactsInv, RefundsAreOfOrders
<1>6. s # "valid" => BooksHold'
  BY <1>1, RecordKeepsBooks
<1>7. ASSUME s = "valid" PROVE BooksHold'
  <2>1. Recorded(r, "valid") /\ Grows({r.id})
    BY <1>1, <1>7, RecordedGrows DEF New
  <2>2. /\ r.id \in Ids /\ status[r.id] = "none" /\ rows'[r.id] = r /\ status'[r.id] = "valid"
        /\ \A e \in Ids : e # r.id => status'[e] = status[e] /\ rows'[e] = rows[e]
    BY <2>1 DEF Recorded
  <2>3. r.type = "spend" \/ r.type = "adjustment"
    BY DEF Spending
  <2>4. CASE r.type = "spend"
    <3>1. r.amount >= 0 /\ r.amount \in Int
      BY <2>4 DEF Admissible, Request
    <3>2. /\ Valid({"adjustment"})' = Valid({"adjustment"})
          /\ \A x : /\ ValidAbout({"adjustment"}, x)' = ValidAbout({"adjustment"}, x)
                    /\ Total(ValidAbout({"adjustment"}, x))' = Total(ValidAbout({"adjustment"}, x))
      BY <2>1, <2>2, <2>4, SameValid
    <3>3. Valid({"spend"})' = Valid({"spend"}) \union {r.id} /\ r.id \notin Valid({"spend"})
      BY <2>2, <2>4, ValidRows
    <3>4. \A e \in Valid({"spend"}) \union Valid({"adjustment"}) : rows'[e] = rows[e]
      BY <2>2, ValidRows
    <3>5. ValidAbout({"adjustment"}, r.id) = {}
      <4>1. ValidAbout({"adjustment"}, r.id) = {e \in Valid({"adjustment"}) : rows[e].about = r.id}
        BY ValidRows
      <4> QED BY <3>3, <4>1 DEF FactsInv, BooksHold
    <3>6. Total(ValidAbout({"adjustment"}, r.id)) = 0
      BY <3>5, TotalsAdd DEF FactsInv
    <3> QED BY <2>2, <3>1, <3>2, <3>3, <3>4, <3>6 DEF FactsInv, BooksHold
  <2>5. CASE r.type = "adjustment"
    <3>1. /\ r.about \in Valid({"spend"}) /\ rows[r.about].day = r.day
          /\ rows[r.about].amount + Total(ValidAbout({"adjustment"}, r.about)) + r.amount >= 0
      BY <2>5 DEF Admissible
    <3>2. Valid({"spend"})' = Valid({"spend"})
      BY <2>1, <2>2, <2>5, SameValid
    <3>3. Valid({"adjustment"})' = Valid({"adjustment"}) \union {r.id} /\ r.id \notin Valid({"spend"})
      BY <2>2, <2>5, ValidRows
    <3>4. \A e \in Valid({"spend"}) \union Valid({"adjustment"}) : rows'[e] = rows[e]
      BY <2>2, ValidRows
    <3>5. ASSUME NEW b \in Valid({"spend"})' PROVE rows'[b].amount + Total(ValidAbout({"adjustment"}, b))' >= 0
      <4>1. /\ Total(ValidAbout({"adjustment"}, b))' = Total(ValidAbout({"adjustment"}, b)) + (IF b = r.about THEN r.amount ELSE 0)
            /\ Total(ValidAbout({"adjustment"}, b)) \in Int
        BY <2>1, <2>5, OneMore
      <4>2. rows'[b] = rows[b] /\ rows[b].amount + Total(ValidAbout({"adjustment"}, b)) >= 0
        BY <3>2, <3>4 DEF FactsInv, BooksHold
      <4>3. rows[b].amount \in Int /\ r.amount \in Int
        BY <3>2, ValidRows DEF FactsInv, RowsAreRequests, Request
      <4> QED BY <3>1, <4>1, <4>2, <4>3
    <3>6. \A a \in Valid({"adjustment"})' : rows'[a].about \in Valid({"spend"})' /\ rows'[rows'[a].about].day = rows'[a].day
      BY <2>2, <3>1, <3>2, <3>3, <3>4 DEF FactsInv, BooksHold
    <3> QED BY <3>5, <3>6 DEF BooksHold
  <2> QED BY <2>3, <2>4, <2>5
<1> QED BY <1>2, <1>3, <1>4, <1>5, <1>6, <1>7 DEF FactsInv

\* The queue of the refunds that wait has each of them once.
LEMMA QueueFits ==
  ASSUME FactsInv, NEW o \in Orders, NEW q \in Queues(o), NEW amount \in Nat
  PROVE  /\ Accepted(q, amount) \subseteq Waiting(o)
         /\ Amounts(rows, Accepted(q, amount)) <= amount
<1> DEFINE W == Waiting(o)
           n == Cardinality(W)
<1>1. W \subseteq Ids /\ IsFiniteSet(W)
  BY FS_Subset, LedgerAssumption, ValidRows
<1>2. n \in Nat
  BY <1>1, FS_CardinalityType
<1>3. \A e \in W : rows[e].amount \in Int /\ rows[e].day \in Nat /\ e \in Nat
  <2>1. \A e \in W : e \in Ids /\ status[e] = "pending"
    BY ValidRows
  <2> HIDE DEF W
  <2>2. \A e \in W : rows[e] \in Request /\ e \in Nat
    BY <2>1, LedgerAssumption DEF FactsInv, RowsAreRequests
  <2> QED BY <2>2, LedgerAssumption DEF Request, Days
<1>4. q \in [1..n -> W] /\ \A i, j \in 1..n : i < j => Before(q[i], q[j])
  BY DEF Queues
<1> HIDE DEF W, n
<1>5. \A i, j \in 1..n : i < j => q[i] # q[j]
  <2> SUFFICES ASSUME NEW i \in 1..n, NEW j \in 1..n, i < j, q[i] = q[j] PROVE FALSE
    OBVIOUS
  <2>1. Before(q[i], q[i]) /\ q[i] \in W
    BY <1>4
  <2> QED BY <1>3, <2>1 DEF Before
<1>6. Accepted(q, amount) \subseteq W /\ Amounts(rows, Accepted(q, amount)) <= amount
  BY <1>1, <1>2, <1>3, <1>4, <1>5, AcceptedFits
<1> QED BY <1>6 DEF W

\* The first payment of an order, and the refunds that it has room for.
LEMMA SettleKeeps ==
  ASSUME MarketingTyped, Received, FactsInv, NEW r \in Request, Fresh(r), r.type = "order_paid", r.about \in Orders,
         r.amount >= 0, paidBy[r.about] = NoId, Settle(r)
  PROVE  FactsInv'
<1> DEFINE o == r.about
<1>1. PICK q \in Queues(o) :
        /\ Answer(r, r.id)
        /\ rows' = [rows EXCEPT ![r.id] = r]
        /\ status' = [e \in Ids |-> IF e = r.id \/ e \in Accepted(q, r.amount) THEN "valid"
                                    ELSE IF e \in Waiting(o) THEN "quarantined" ELSE status[e]]
        /\ paidBy' = [paidBy EXCEPT ![o] = r.id]
        /\ refunded' = [refunded EXCEPT ![o] = Total(Accepted(q, r.amount))]
  BY DEF Settle
<1> DEFINE W == Waiting(o)
           accepted == Accepted(q, r.amount)
<1>2. r.amount \in Nat
  BY DEF Request
<1>3. accepted \subseteq W /\ Amounts(rows, accepted) <= r.amount
  BY <1>2, QueueFits
<1>4. r.id \in Ids /\ receipts[r.id] = NoRequest /\ r # NoRequest
  BY LedgerAssumption DEF Request, Fresh
<1>5. status[r.id] = "none"
  BY <1>4 DEF Received
<1>6. \A e \in W : e \in Ids /\ e # r.id /\ status[e] = "pending" /\ rows[e].type = "order_refunded" /\ rows[e].about = o
  BY <1>5, ValidRows
<1>7. /\ receipts'[r.id] = r /\ answers'[r.id] = r.id /\ rows'[r.id] = r /\ status'[r.id] = "valid"
      /\ \A e \in Ids : e # r.id => rows'[e] = rows[e] /\ receipts'[e] = receipts[e] /\ answers'[e] = answers[e]
  BY <1>1, <1>4 DEF Answer, MarketingTyped
<1>8. /\ \A e \in accepted : status'[e] = "valid"
      /\ \A e \in W \ accepted : status'[e] = "quarantined"
      /\ \A e \in Ids : e # r.id /\ e \notin W => status'[e] = status[e]
  BY <1>1, <1>3, <1>6
<1>9. Total(accepted) = Amounts(rows, accepted)
  BY TotalIs
<1>10. refunded' = [x \in Orders |-> IF x = o THEN Total(accepted) ELSE refunded[x]]
  BY <1>1 DEF FactsInv, RefundsAreOfOrders
<1>11. paidBy'[o] = r.id /\ \A x \in Orders : x # o => paidBy'[x] = paidBy[x]
  BY <1>1 DEF MarketingTyped
<1> DEFINE new == {r.id} \union accepted
<1>12. Grows(new)
  <2>1. \A e \in Ids : status[e] = "valid" => e # r.id /\ e \notin W
    BY <1>5, <1>6
  <2>2. \A e \in Ids : status[e] = "valid" => status'[e] = "valid" /\ rows'[e] = rows[e]
    BY <1>7, <1>8, <2>1
  <2>3. ASSUME NEW e \in Ids PROVE e \in new <=> status'[e] = "valid" /\ status[e] # "valid"
    <3> HIDE DEF W, accepted
    <3>1. CASE e = r.id
      BY <1>5, <1>7, <3>1
    <3>2. CASE e \in accepted
      BY <1>3, <1>6, <1>8, <3>2
    <3>3. CASE e # r.id /\ e \in W \ accepted
      BY <1>8, <3>3
    <3>4. CASE e # r.id /\ e \notin W
      BY <1>3, <1>8, <3>4
    <3> QED BY <3>1, <3>2, <3>3, <3>4
  <2>4. new \subseteq Ids
    BY <1>3, <1>4, <1>6
  <2> HIDE DEF new
  <2> QED BY <2>2, <2>3, <2>4 DEF Grows
<1>13. rows'[r.id].type = "order_paid" /\ \A e \in accepted : rows'[e] = rows[e] /\ rows'[e].type = "order_refunded" /\ rows'[e].about = o
  BY <1>3, <1>6, <1>7
<1> HIDE DEF accepted, W
<1>14. \A e \in new : rows'[e].type \in Conversion /\ rows'[e].about = o
  BY <1>7, <1>13 DEF Conversion
<1>15. RowsAreRequests'
  <2>1. ASSUME NEW e \in Ids, e # r.id, status'[e] # "none" PROVE status[e] # "none"
    BY <1>6, <1>8, <2>1
  <2> QED BY <1>4, <1>7, <2>1 DEF FactsInv, RowsAreRequests
<1>16. AnswersStand'
  <2>1. ASSUME NEW i \in Ids, answers'[i] # NoId, i # r.id
        PROVE  /\ receipts'[i] # NoRequest /\ receipts'[answers'[i]] # NoRequest
               /\ answers'[i] # i => /\ status'[answers'[i]] = "valid" /\ status'[i] = "none"
                                    /\ receipts'[answers'[i]].about = receipts'[i].about
    <3>1. answers'[i] = answers[i] /\ receipts'[i] = receipts[i] /\ answers[i] \in Ids
      BY <1>7, <2>1 DEF MarketingTyped
    <3>2. answers[i] # r.id
      BY <1>4, <2>1, <3>1 DEF FactsInv, AnswersStand
    <3>3. answers[i] # i => status[answers[i]] = "valid" /\ status[i] = "none"
      BY <2>1, <3>1 DEF FactsInv, AnswersStand
    <3>4. answers[i] # i => status'[answers[i]] = "valid" /\ status'[i] = "none"
      BY <1>6, <1>8, <2>1, <3>1, <3>2, <3>3
    <3> QED BY <1>7, <2>1, <3>1, <3>2, <3>4 DEF FactsInv, AnswersStand
  <2> QED BY <1>4, <1>7, <2>1 DEF AnswersStand
<1> HIDE DEF new
<1>17. DeliveredOnce'
  <2>1. ASSUME NEW t \in Delivery PROVE \A i : ValidAbout({t}, i)' = ValidAbout({t}, i)
    <3>1. \A e \in new : rows'[e].type \notin {t}
      BY <1>14 DEF Conversion, Delivery
    <3> QED BY <1>12, <3>1, SameValid
  <2> QED BY <2>1 DEF FactsInv, DeliveredOnce
<1>18. BooksHold'
  <2>1. \A e \in new : rows'[e].type \notin {"adjustment"} /\ rows'[e].type \notin {"spend"}
    BY <1>14 DEF Conversion
  <2>2. /\ Valid({"adjustment"})' = Valid({"adjustment"}) /\ Valid({"spend"})' = Valid({"spend"})
        /\ \A x : Total(ValidAbout({"adjustment"}, x))' = Total(ValidAbout({"adjustment"}, x))
    BY <1>12, <2>1, SameValid
  <2>3. \A e \in Valid({"adjustment"}) \union Valid({"spend"}) : rows'[e] = rows[e]
    BY <1>12, ValidRows DEF Grows
  <2> QED BY <2>2, <2>3 DEF FactsInv, BooksHold
<1>19. RefundsAreOfOrders'
  BY <1>10 DEF RefundsAreOfOrders
<1>20. ASSUME NEW x \in Orders
       PROVE  /\ refunded'[x] = Total(ValidAbout({"order_refunded"}, x))'
              /\ paidBy'[x] = NoId => ValidAbout({"order_paid"}, x)' = {} /\ ValidAbout({"order_refunded"}, x)' = {}
              /\ paidBy'[x] # NoId => /\ ValidAbout({"order_paid"}, x)' = {paidBy'[x]} /\ Waiting(x)' = {}
                                      /\ refunded'[x] <= rows'[paidBy'[x]].amount
  <2>1. /\ refunded[x] = Total(ValidAbout({"order_refunded"}, x))
        /\ paidBy[x] = NoId => ValidAbout({"order_paid"}, x) = {} /\ ValidAbout({"order_refunded"}, x) = {}
        /\ paidBy[x] # NoId => /\ ValidAbout({"order_paid"}, x) = {paidBy[x]} /\ Waiting(x) = {}
                               /\ refunded[x] <= rows[paidBy[x]].amount
    BY DEF FactsInv, OrdersHold
  <2>2. \A types : /\ ValidAbout(types, x)' = ValidAbout(types, x) \union {e \in new : rows'[e].type \in types /\ rows'[e].about = x}
                   /\ Amounts(rows', ValidAbout(types, x)) = Total(ValidAbout(types, x))
    BY <1>12, ValidGrows
  <2>3. \A types : Total(ValidAbout(types, x))' = Amounts(rows', ValidAbout(types, x)')
    BY TotalsThen
  <2>4. CASE x = o
    <3>1. {e \in new : rows'[e].type \in {"order_paid"} /\ rows'[e].about = x} = {r.id}
      BY <1>7, <1>13, <2>4 DEF new
    <3>2. {e \in new : rows'[e].type \in {"order_refunded"} /\ rows'[e].about = x} = accepted
      BY <1>7, <1>13, <2>4 DEF new
    <3>0. ValidAbout({"order_paid"}, x) = {} /\ ValidAbout({"order_refunded"}, x) = {}
      BY <2>1, <2>4
    <3>3. ValidAbout({"order_paid"}, x)' = {r.id} /\ ValidAbout({"order_refunded"}, x)' = accepted
      BY <2>2, <3>0, <3>1, <3>2
    <3>4. Amounts(rows', accepted) = Amounts(rows, accepted)
      BY <1>13, AmountsSame
    <3>5. Total(ValidAbout({"order_refunded"}, x))' = Amounts(rows, accepted)
      BY <2>3, <3>3, <3>4
    <3>6. ASSUME NEW e \in Ids, status'[e] = "pending" PROVE e # r.id /\ e \notin W
      <4>1. e # r.id
        BY <1>7, <3>6
      <4>2. e \notin accepted
        BY <1>8, <3>6
      <4>3. e \notin W \ accepted
        BY <1>8, <3>6
      <4> QED BY <4>1, <4>2, <4>3
    <3>7. Waiting(x)' = {}
      <4>1. W = {e \in Ids : status[e] = "pending" /\ rows[e].type = "order_refunded" /\ rows[e].about = o}
        BY ValidRows DEF W
      <4>2. Waiting(x)' = {e \in Ids : status'[e] = "pending" /\ rows'[e].type = "order_refunded" /\ rows'[e].about = x}
        BY ValidRows
      <4> HIDE DEF o
      <4> QED BY <1>7, <1>8, <2>4, <3>6, <4>1, <4>2
    <3>8. refunded'[x] = Amounts(rows, accepted) /\ paidBy'[x] = r.id /\ r.id # NoId /\ rows'[r.id].amount = r.amount
      BY <1>4, <1>7, <1>9, <1>10, <1>11, <2>4, LedgerAssumption
    <3>9. Amounts(rows, accepted) <= r.amount
      BY <1>3 DEF accepted
    <3> QED BY <3>3, <3>5, <3>7, <3>8, <3>9
  <2>5. CASE x # o
    <3>1. \A types : {e \in new : rows'[e].type \in types /\ rows'[e].about = x} = {}
      BY <1>14, <2>5
    <3>2. \A types : ValidAbout(types, x)' = ValidAbout(types, x)
      BY <2>2, <3>1
    <3>3. Total(ValidAbout({"order_refunded"}, x))' = Total(ValidAbout({"order_refunded"}, x))
      BY <2>2, <2>3, <3>2
    <3>4. refunded'[x] = refunded[x] /\ paidBy'[x] = paidBy[x]
      BY <1>10, <1>11, <2>5
    <3>5. Waiting(x) = {} => Waiting(x)' = {}
      <4>1. ASSUME NEW e \in Ids, status'[e] = "pending" PROVE status[e] = "pending" /\ rows'[e] = rows[e]
        <5>1. e # r.id
          BY <1>7, <4>1
        <5>2. e \notin W
          BY <1>8, <4>1
        <5> QED BY <1>7, <1>8, <4>1, <5>1, <5>2
      <4> QED BY <4>1, ValidRows
    <3>6. paidBy[x] # NoId => rows'[paidBy[x]] = rows[paidBy[x]]
      BY <1>12, <2>1, ValidRows DEF Grows
    <3> QED BY <2>1, <3>2, <3>3, <3>4, <3>5, <3>6
  <2> QED BY <2>4, <2>5
<1>21. OrdersHold'
  BY <1>20 DEF OrdersHold
<1> QED BY <1>15, <1>16, <1>17, <1>18, <1>19, <1>21 DEF FactsInv

\* A view is ingested.
LEMMA ViewKeeps ==
  ASSUME MarketingTyped, Received, FactsInv, NEW r \in Requests, View(r)
  PROVE  FactsInv'
<1>1. r \in Request /\ r.type = "impression" /\ Fresh(r) /\ r.about \in Impressions /\ paidBy' = paidBy /\ refunded' = refunded
  BY LedgerAssumption DEF View
<1>2. r.type \notin Spending /\ r.type \notin Conversion /\ r.type # "click"
  BY <1>1 DEF Spending, Conversion
<1>3. ASSUME WriteEvent(r, "quarantined") PROVE FactsInv'
  BY <1>1, <1>2, <1>3, EventKeeps DEF WriteEvent
<1>4. ASSUME ValidAbout({"impression"}, r.about) = {}, WriteEvent(r, "valid") PROVE FactsInv'
  BY <1>1, <1>2, <1>4, EventKeeps DEF WriteEvent
<1>5. ASSUME NEW e \in ValidAbout({"impression"}, r.about), Answer(r, e), UNCHANGED <<rows, status>> PROVE FactsInv'
  <2>1. e \in Ids /\ status[e] = "valid" /\ rows[e].about = r.about
    BY ValidRows
  <2> QED BY <1>1, <1>5, <2>1, AnswerKeeps
<1> QED BY <1>3, <1>4, <1>5 DEF View

\* A click is ingested.
LEMMA ClickKeeps ==
  ASSUME MarketingTyped, Received, FactsInv, NEW i \in Impressions, Click(i)
  PROVE  FactsInv'
<1> DEFINE r == ClickOn(i)
<1>1. r \in Request /\ r.id = i /\ r.about = i /\ r.type = "click" /\ i \in Ids
  BY ClickOnIsRequest DEF ClickOn
<1>2. Fresh(r) /\ Write(r, "valid") /\ paidBy' = paidBy /\ refunded' = refunded
  BY DEF Click, WriteEvent
<1> HIDE DEF r
<1>3. r.type \notin Spending /\ r.type \notin Conversion
  BY <1>1 DEF Spending, Conversion
<1>4. status[i] = "none"
  BY <1>1, <1>2 DEF Received, Fresh
<1>5. ValidAbout({r.type}, r.about) = {}
  <2> SUFFICES ASSUME NEW e \in ValidAbout({"click"}, i) PROVE FALSE
    BY <1>1
  <2>1. e \in Ids /\ status[e] = "valid" /\ rows[e].type = "click" /\ rows[e].about = i
    BY ValidRows
  <2>2. rows[e].about = e
    BY <2>1 DEF FactsInv, RowsAreRequests
  <2> QED BY <1>4, <2>1, <2>2
<1> QED BY <1>1, <1>2, <1>3, <1>5, EventKeeps

\* A paid order is ingested.
LEMMA PayKeeps ==
  ASSUME MarketingTyped, Received, FactsInv, NEW r \in Requests, Pay(r)
  PROVE  FactsInv'
<1>1. r \in Request /\ r.type = "order_paid" /\ Fresh(r) /\ r.about \in Orders /\ r.amount >= 0
  BY LedgerAssumption DEF Pay, Conversion
<1>2. r.type \notin Spending /\ r.type \notin Delivery /\ r.type # "click"
  BY <1>1 DEF Spending, Delivery
<1>3. ASSUME paidBy[r.about] = NoId, WriteEvent(r, "quarantined"), UNCHANGED <<paidBy, refunded>> PROVE FactsInv'
  BY <1>1, <1>2, <1>3, EventKeeps DEF WriteEvent
<1>4. ASSUME paidBy[r.about] = NoId, Settle(r) PROVE FactsInv'
  BY <1>1, <1>4, SettleKeeps
<1>5. ASSUME paidBy[r.about] # NoId, Economic(rows[paidBy[r.about]]) = Economic(r), Answer(r, paidBy[r.about]),
             UNCHANGED <<rows, status, paidBy, refunded>>
      PROVE  FactsInv'
  <2> DEFINE e == paidBy[r.about]
  <2>1. e \in ValidAbout({"order_paid"}, r.about)
    BY <1>1, <1>5 DEF FactsInv, OrdersHold
  <2>2. e \in Ids /\ status[e] = "valid" /\ rows[e].about = r.about
    BY <2>1, ValidRows
  <2> HIDE DEF e
  <2>3. Answer(r, e)
    BY <1>5 DEF e
  <2> QED BY <1>1, <1>5, <2>2, <2>3, AnswerKeeps
<1> QED BY <1>3, <1>4, <1>5 DEF Pay

\* A refund is ingested.
LEMMA RefundIsSound ==
  ASSUME MarketingTyped, Received, FactsInv, NEW r \in Requests, Refund(r)
  PROVE  FactsInv'
<1>1. r \in Request /\ r.type = "order_refunded" /\ Fresh(r) /\ r.about \in Orders /\ r.amount >= 0 /\ paidBy' = paidBy
  BY LedgerAssumption DEF Refund, Conversion
<1>2. r.type \notin Spending /\ r.type \notin Delivery /\ r.type # "click"
  BY <1>1 DEF Spending, Delivery
<1>3. ASSUME WriteEvent(r, "quarantined"), UNCHANGED refunded PROVE FactsInv'
  BY <1>1, <1>2, <1>3, EventKeeps DEF WriteEvent
<1>4. ASSUME paidBy[r.about] = NoId, WriteEvent(r, "pending"), UNCHANGED refunded PROVE FactsInv'
  BY <1>1, <1>2, <1>4, EventKeeps DEF WriteEvent
<1>5. ASSUME paidBy[r.about] # NoId, refunded[r.about] + r.amount <= rows[paidBy[r.about]].amount,
             WriteEvent(r, "valid"), refunded' = [refunded EXCEPT ![r.about] = @ + r.amount]
      PROVE  FactsInv'
  BY <1>1, <1>5, RefundKeeps DEF WriteEvent
<1> QED BY <1>3, <1>4, <1>5 DEF Refund

\* Every step of the ingestion keeps the facts sound.
LEMMA IngestKeepsFacts ==
  ASSUME MarketingTyped, Received, FactsInv, Ingest \/ Tick
  PROVE  FactsInv'
<1>1. ASSUME NEW r \in Requests, Spend(r) PROVE FactsInv'
  <2>1. r \in Request /\ r.type \in Spending /\ Fresh(r) /\ Admissible(r) /\ paidBy' = paidBy /\ refunded' = refunded
    BY <1>1, LedgerAssumption DEF Spend
  <2>2. Write(r, IF OutOfTime(r.day) THEN "quarantined" ELSE "valid")
    BY <1>1 DEF Spend
  <2> QED BY <2>1, <2>2, SpendKeeps
<1>2. ASSUME NEW m \in Markers, Cover(m) PROVE FactsInv'
  <2>1. m \in Request \union Marker /\ m.id \in Ids /\ Fresh(m) /\ Answer(m, m.id)
    BY <1>2, LedgerAssumption DEF Cover, Marker
  <2>2. rows' = rows /\ status' = status /\ paidBy' = paidBy /\ refunded' = refunded
    BY <1>2 DEF Cover
  <2> QED BY <2>1, <2>2, AnswerKeeps
<1>3. ASSUME UNCHANGED facts PROVE FactsInv'
  <2>1. OrdersHold' /\ RefundsAreOfOrders' /\ BooksHold' /\ DeliveredOnce'
    BY <1>3, SameRows DEF facts
  <2>2. RowsAreRequests' /\ AnswersStand'
    BY <1>3 DEF facts, FactsInv, RowsAreRequests, AnswersStand
  <2> QED BY <2>1, <2>2 DEF FactsInv
<1>4. ASSUME NEW j \in Rebuilds, RequestRebuild(j) PROVE FactsInv'
  BY <1>3, <1>4 DEF RequestRebuild
<1>5. ASSUME Tick PROVE FactsInv'
  BY <1>3, <1>5 DEF Tick
<1> QED BY <1>1, <1>2, <1>4, <1>5, ViewKeeps, ClickKeeps, PayKeeps, RefundIsSound DEF Ingest

\* The facts are sound at first.
LEMMA FactsInit == Init => FactsInv /\ TasksFollow
<1> SUFFICES ASSUME Init PROVE FactsInv /\ TasksFollow
  OBVIOUS
<1>1. /\ receipts = [i \in Ids |-> NoRequest] /\ answers = [i \in Ids |-> NoId] /\ status = [i \in Ids |-> "none"]
      /\ paidBy = [o \in Orders |-> NoId] /\ refunded = [o \in Orders |-> 0] /\ outbox = [n \in Slots |-> NoTask]
  BY DEF Init, LedgerInit
<1>2. RowsAreRequests /\ AnswersStand
  BY <1>1 DEF RowsAreRequests, AnswersStand
<1>3. \A types, x : Valid(types) = {} /\ ValidAbout(types, x) = {}
  BY <1>1, ValidRows
<1>4. Total({}) = 0
  BY <1>2, TotalsAdd
<1>5. \A types, x : Total(ValidAbout(types, x)) = 0
  <2>1. ASSUME NEW types, NEW x PROVE Total(ValidAbout(types, x)) = 0
    <3>1. ValidAbout(types, x) = {}
      BY <1>3
    <3> QED BY <1>4, <3>1
  <2> QED BY <2>1
<1>6. OrdersHold /\ RefundsAreOfOrders
  BY <1>1, <1>3, <1>5 DEF OrdersHold, RefundsAreOfOrders
<1>7. BooksHold /\ DeliveredOnce
  BY <1>3 DEF BooksHold, DeliveredOnce
<1>8. TasksFollow
  BY <1>1 DEF TasksFollow, NoTask
<1> QED BY <1>2, <1>6, <1>7, <1>8 DEF FactsInv

\* A fact is never taken back, nor is its validation.
Revised == \A e \in Ids : status[e] # "none" => status'[e] # "none" /\ revision'[e] >= revision[e]

\* Every step of the ingestion lets revisions grow only.
LEMMA IngestRevises ==
  ASSUME MarketingTyped, Received, Ingest \/ Tick
  PROVE  Revised
<1>1. ASSUME Untouched PROVE Revised
  BY <1>1 DEF Untouched, Revised, MarketingTyped
<1>2. ASSUME NEW r \in Request \union Marker, NEW e \in Ids, Answered(r, e) PROVE Revised
  BY <1>2 DEF Answered, Revised, MarketingTyped
<1>3. ASSUME NEW r \in Request, NEW s \in Validity, Wrote(r, s) PROVE Revised
  <2>1. Recorded(r, s)
    BY <1>3, WriteRecords DEF Wrote
  <2> QED BY <2>1 DEF Recorded, Revised, MarketingTyped
<1>4. ASSUME NEW r \in Requests, Pay(r), Settle(r) PROVE Revised
  <2>1. r \in Request /\ r.id \in Ids /\ receipts[r.id] = NoRequest
    BY <1>4, LedgerAssumption DEF Pay, Fresh, Request
  <2>2. status[r.id] = "none"
    BY <2>1 DEF Received
  <2>3. PICK q \in Queues(r.about) :
          /\ status' = [e \in Ids |-> IF e = r.id \/ e \in Accepted(q, r.amount) THEN "valid"
                                      ELSE IF e \in Waiting(r.about) THEN "quarantined" ELSE status[e]]
          /\ revision' = [e \in Ids |-> IF e = r.id THEN 1 ELSE IF e \in Waiting(r.about) THEN 2 ELSE revision[e]]
    BY <1>4 DEF Settle
  <2>4. \A e \in Ids : revision[e] \in 0..2
    BY DEF MarketingTyped
  <2> QED BY <2>2, <2>3, <2>4 DEF Revised
<1>5. ASSUME NEW r \in Requests, Pay(r), ~Settle(r) PROVE Revised
  <2>1. r \in Request
    BY LedgerAssumption
  <2>2. ASSUME WriteEvent(r, "quarantined") PROVE Revised
    <3>1. Wrote(r, "quarantined")
      BY <1>5, <2>1, <2>2 DEF Wrote, WriteEvent, Pay, Validity
    <3> QED BY <1>3, <2>1, <3>1 DEF Validity
  <2>3. ASSUME UNCHANGED <<rows, status, revision>> PROVE Revised
    BY <2>3 DEF Revised, MarketingTyped
  <2> QED BY <1>5, <2>2, <2>3 DEF Pay
<1>6. ASSUME NEW r \in Requests, View(r) \/ Refund(r) \/ Spend(r) PROVE Revised
  <2>1. r \in Request /\ Fresh(r)
    BY <1>6, LedgerAssumption DEF View, Refund, Spend
  <2>2. ASSUME NEW s \in {"valid", "pending", "quarantined"}, Write(r, s) PROVE Revised
    <3>1. Wrote(r, s)
      BY <2>1, <2>2 DEF Wrote, Validity
    <3> QED BY <1>3, <2>1, <3>1 DEF Validity
  <2>3. ASSUME UNCHANGED <<rows, status, revision>> PROVE Revised
    BY <2>3 DEF Revised, MarketingTyped
  <2> QED BY <1>6, <2>2, <2>3 DEF View, Refund, Spend, WriteEvent
<1>7. ASSUME NEW i \in Impressions, Click(i) PROVE Revised
  <2>1. ClickOn(i) \in Request
    BY ClickOnIsRequest
  <2>2. Wrote(ClickOn(i), "valid")
    BY <1>7, <2>1 DEF Click, Wrote, WriteEvent, Validity
  <2> QED BY <1>3, <2>1, <2>2 DEF Validity
<1>8. ASSUME NEW m \in Markers, Cover(m) PROVE Revised
  BY <1>8 DEF Cover, Revised, MarketingTyped
<1>9. ASSUME UNCHANGED facts PROVE Revised
  BY <1>1, <1>9 DEF facts, Untouched
<1> QED BY <1>4, <1>5, <1>6, <1>7, <1>8, <1>9 DEF Ingest, RequestRebuild, Tick

\* The tasks of a transaction name what it wrote.
LEMMA EnqueueFollows ==
  ASSUME MarketingTyped, TasksFollow, Revised, NEW work, Len(work) \in Nat, Enqueue(work),
         \A i \in 1..Len(work) : work[i].kind \in {"event", "spend"} =>
           work[i].of \in Ids /\ status'[work[i].of] # "none" /\ revision'[work[i].of] >= work[i].rev,
         \A i \in 1..Len(work) : work[i].rev \in Nat, revision' \in [Ids -> 0..2]
  PROVE  TasksFollow'
<1>1. epoch \in Nat
  BY LedgerAssumption DEF MarketingTyped
<1>2. SUFFICES ASSUME NEW n \in Slots, outbox'[n].kind \in {"event", "spend"}
               PROVE  LET e == outbox'[n].of IN e \in Ids /\ status'[e] # "none" /\ revision'[e] >= outbox'[n].rev
  BY DEF TasksFollow, Slots
<1> DEFINE new == (epoch + 1)..(epoch + Len(work))
<1>3. outbox'[n] = IF n \in new THEN Queued(work[n - epoch]) ELSE outbox[n]
  BY DEF Enqueue
<1>4. CASE n \in new
  <2>1. n - epoch \in 1..Len(work)
    BY <1>1, <1>4
  <2>2. outbox'[n].kind = work[n - epoch].kind /\ outbox'[n].of = work[n - epoch].of /\ outbox'[n].rev = work[n - epoch].rev
    BY <1>3, <1>4 DEF Queued
  <2> QED BY <1>2, <2>1, <2>2
<1>5. CASE n \notin new
  <2>1. outbox'[n] = outbox[n] /\ outbox[n] \in Task
    BY <1>3, <1>5 DEF MarketingTyped
  <2> DEFINE e == outbox[n].of
  <2>2. e \in Ids /\ status[e] # "none" /\ revision[e] >= outbox[n].rev
    BY <1>2, <2>1 DEF TasksFollow
  <2>3. status'[e] # "none" /\ revision'[e] >= revision[e]
    BY <2>2 DEF Revised
  <2>4. revision[e] \in Nat /\ revision'[e] \in Nat /\ outbox[n].rev \in Nat
    <3>1. outbox[n].rev \in Nat
      BY <2>1 DEF Task
    <3> HIDE DEF e
    <3>2. revision[e] \in 0..2 /\ revision'[e] \in 0..2
      BY <2>2 DEF MarketingTyped
    <3> QED BY <3>1, <3>2
  <2> HIDE DEF e
  <2>5. revision'[e] >= outbox[n].rev
    BY <2>2, <2>3, <2>4
  <2> QED BY <2>1, <2>2, <2>3, <2>5 DEF e
<1> QED BY <1>4, <1>5

\* Tasks that stay the same follow the facts if revisions only grow.
LEMMA SameTasks ==
  ASSUME MarketingTyped, TasksFollow, Revised, revision' \in [Ids -> 0..2],
         \A n \in Slots : outbox'[n].kind = outbox[n].kind /\ outbox'[n].of = outbox[n].of /\ outbox'[n].rev = outbox[n].rev
  PROVE  TasksFollow'
<1>1. SUFFICES ASSUME NEW n \in Slots, outbox[n].kind \in {"event", "spend"}
               PROVE  LET e == outbox[n].of IN e \in Ids /\ status'[e] # "none" /\ revision'[e] >= outbox[n].rev
  BY DEF TasksFollow, Slots
<1> DEFINE e == outbox[n].of
<1>2. e \in Ids /\ status[e] # "none" /\ revision[e] >= outbox[n].rev
  BY <1>1 DEF TasksFollow
<1>3. status'[e] # "none" /\ revision'[e] >= revision[e]
  BY <1>2 DEF Revised
<1>4. revision[e] \in Nat /\ revision'[e] \in Nat /\ outbox[n].rev \in Nat
  BY <1>2 DEF MarketingTyped, Task
<1> HIDE DEF e
<1>5. revision'[e] >= outbox[n].rev
  BY <1>2, <1>3, <1>4
<1> QED BY <1>2, <1>3, <1>5 DEF e

\* One task, about an event that was written.
LEMMA OneTaskFollows ==
  ASSUME MarketingTyped, MarketingTyped', TasksFollow, Revised, NEW kind, NEW e, NEW rev \in Nat, Enqueue(<<Work(kind, e, rev)>>),
         kind \in {"event", "spend"} => e \in Ids /\ status'[e] # "none" /\ revision'[e] >= rev
  PROVE  TasksFollow'
<1> DEFINE work == <<Work(kind, e, rev)>>
<1>1. Len(work) = 1
  OBVIOUS
<1>2. \A i \in 1..Len(work) : work[i].kind = kind /\ work[i].of = e /\ work[i].rev = rev
  BY <1>1 DEF Work
<1>3. revision' \in [Ids -> 0..2]
  BY DEF MarketingTyped
<1> HIDE DEF work
<1> QED BY <1>1, <1>2, <1>3, EnqueueFollows DEF work

\* What is written with its task keeps the tasks following.
LEMMA WrittenFollows ==
  ASSUME MarketingTyped, MarketingTyped', Received, TasksFollow, Revised, NEW r \in Request, Fresh(r), NEW s \in Validity \ {"none"},
         Write(r, s), NEW kind, Enqueue(<<Work(kind, r.id, 1)>>)
  PROVE  TasksFollow'
<1>1. Recorded(r, s)
  BY WriteRecords
<1> QED BY <1>1, OneTaskFollows DEF Recorded

\* What is settled has its task.
LEMMA SettleFollows ==
  ASSUME MarketingTyped, MarketingTyped', Received, TasksFollow, Revised, NEW r \in Request, Fresh(r), Settle(r)
  PROVE  TasksFollow'
<1> DEFINE W == Waiting(r.about)
<1>1. PICK q \in Queues(r.about) :
        /\ status' = [e \in Ids |-> IF e = r.id \/ e \in Accepted(q, r.amount) THEN "valid"
                                    ELSE IF e \in Waiting(r.about) THEN "quarantined" ELSE status[e]]
        /\ revision' = [e \in Ids |-> IF e = r.id THEN 1 ELSE IF e \in Waiting(r.about) THEN 2 ELSE revision[e]]
        /\ Enqueue(<<Work("event", r.id, 1)>> \o [i \in 1..Len(q) |-> Work("event", q[i], 2)])
  BY DEF Settle
<1>2. W \subseteq Ids /\ IsFiniteSet(W) /\ \A e \in W : status[e] = "pending"
  BY FS_Subset, LedgerAssumption, ValidRows
<1>3. Cardinality(W) \in Nat
  BY <1>2, FS_CardinalityType
<1>4. q \in [1..Cardinality(W) -> W]
  BY DEF Queues
<1> HIDE DEF W
<1>5. Len(q) = Cardinality(W) /\ \A i \in 1..Len(q) : q[i] \in W
  BY <1>3, <1>4
<1> DEFINE head == <<Work("event", r.id, 1)>>
           tail == [i \in 1..Len(q) |-> Work("event", q[i], 2)]
           work == head \o tail
<1>6. Len(work) = Len(q) + 1 /\ work[1] = Work("event", r.id, 1)
      /\ \A i \in 2..Len(work) : work[i] = Work("event", q[i - 1], 2)
  <2> DEFINE T == {Work("event", r.id, 1)} \union {Work("event", e, 2) : e \in W}
  <2>1. tail \in Seq(T) /\ Len(tail) = Len(q)
    BY <1>3, <1>5
  <2>2. head \in Seq(T) /\ Len(head) = 1 /\ head[1] = Work("event", r.id, 1)
    OBVIOUS
  <2>3. \A i \in 1..Len(q) : tail[i] = Work("event", q[i], 2)
    OBVIOUS
  <2>4. ASSUME NEW S, NEW u \in Seq(S), NEW v \in Seq(S), Len(u) = 1
        PROVE  Len(u \o v) = Len(v) + 1 /\ (u \o v)[1] = u[1] /\ \A i \in 2..Len(u \o v) : (u \o v)[i] = v[i - 1]
    <3>1. Len(u) \in Nat /\ Len(v) \in Nat /\ Len(u \o v) = Len(u) + Len(v)
      OBVIOUS
    <3>2. (u \o v)[1] = u[1]
      BY <2>4, <3>1
    <3>3. ASSUME NEW i \in 2..Len(u \o v) PROVE (u \o v)[i] = v[i - 1]
      <4>1. i \in 1..(Len(u) + Len(v)) /\ i > Len(u)
        BY <2>4, <3>1
      <4>2. (u \o v)[i] = v[i - Len(u)]
        BY <4>1
      <4> QED BY <2>4, <4>2
    <3> QED BY <2>4, <3>1, <3>2, <3>3
  <2> HIDE DEF head, tail, T
  <2>5. Len(work) = Len(q) + 1 /\ work[1] = head[1] /\ \A i \in 2..Len(work) : work[i] = tail[i - 1]
    BY <2>1, <2>2, <2>4
  <2> HIDE DEF work
  <2> QED BY <1>3, <1>5, <2>2, <2>3, <2>5
<1>7. r.id \in Ids
  BY DEF Request
<1>8. status'[r.id] = "valid" /\ revision'[r.id] = 1
  BY <1>1, <1>7
<1>9. ASSUME NEW e \in W PROVE e \in Ids /\ status'[e] # "none" /\ revision'[e] = 2
  <2>1. status[r.id] = "none"
    BY <1>7 DEF Received, Fresh
  <2>2. e # r.id /\ e \in Ids
    BY <1>2, <2>1
  <2> QED BY <1>1, <2>2 DEF W
<1> HIDE DEF work
<1>10. Len(work) \in Nat /\ Enqueue(work) /\ revision' \in [Ids -> 0..2]
  BY <1>1, <1>3, <1>5, <1>6 DEF MarketingTyped, work
<1>11. ASSUME NEW i \in 1..Len(work)
       PROVE  /\ work[i].kind \in {"event", "spend"} =>
                   work[i].of \in Ids /\ status'[work[i].of] # "none" /\ revision'[work[i].of] >= work[i].rev
              /\ work[i].rev \in Nat
  <2>1. CASE i = 1
    BY <1>6, <1>7, <1>8, <2>1 DEF Work
  <2>2. CASE i # 1
    <3>1. i \in 2..Len(work) /\ i - 1 \in 1..Len(q)
      BY <1>3, <1>5, <1>6, <2>2
    <3>2. work[i] = Work("event", q[i - 1], 2) /\ q[i - 1] \in W
      BY <1>5, <1>6, <3>1
    <3> DEFINE e == q[i - 1]
    <3>3. e \in Ids /\ status'[e] # "none" /\ revision'[e] = 2
      BY <1>9, <3>2
    <3> QED BY <3>2, <3>3 DEF Work
  <2> QED BY <2>1, <2>2
<1> QED BY <1>10, <1>11, EnqueueFollows

\* Every step of the ingestion keeps the tasks following.
LEMMA IngestFollows ==
  ASSUME MarketingTyped, MarketingTyped', Received, TasksFollow, Ingest \/ Tick
  PROVE  TasksFollow'
<1>1. Revised
  BY IngestRevises
<1>2. revision' \in [Ids -> 0..2]
  BY DEF MarketingTyped
<1>3. ASSUME outbox' = outbox PROVE TasksFollow'
  BY <1>1, <1>2, <1>3, SameTasks
<1>4. ASSUME NEW r \in Requests, View(r) \/ Pay(r) \/ Refund(r) PROVE TasksFollow'
  <2>1. r \in Request /\ Fresh(r)
    BY <1>4, LedgerAssumption DEF View, Pay, Refund
  <2>2. ASSUME NEW s \in {"valid", "pending", "quarantined"}, WriteEvent(r, s) PROVE TasksFollow'
    <3>1. s \in Validity \ {"none"}
      BY DEF Validity
    <3> QED BY <1>1, <2>1, <2>2, <3>1, WrittenFollows DEF WriteEvent
  <2>3. ASSUME Settle(r) PROVE TasksFollow'
    BY <1>1, <2>1, <2>3, SettleFollows
  <2> QED BY <1>3, <1>4, <2>2, <2>3 DEF View, Pay, Refund
<1>5. ASSUME NEW r \in Requests, Spend(r) PROVE TasksFollow'
  <2>1. r \in Request /\ Fresh(r)
    BY <1>5, LedgerAssumption DEF Spend
  <2> DEFINE s == IF OutOfTime(r.day) THEN "quarantined" ELSE "valid"
             kind == IF OutOfTime(r.day) THEN "spend-isolated" ELSE "spend"
  <2>2. s \in Validity \ {"none"} /\ Write(r, s) /\ Enqueue(<<Work(kind, r.id, 1)>>)
    BY <1>5 DEF Spend, Validity
  <2> HIDE DEF s, kind
  <2> QED BY <1>1, <2>1, <2>2, WrittenFollows
<1>6. ASSUME NEW i \in Impressions, Click(i) PROVE TasksFollow'
  <2>1. ClickOn(i) \in Request /\ Fresh(ClickOn(i)) /\ Write(ClickOn(i), "valid") /\ Enqueue(<<Work("event", ClickOn(i).id, 1)>>)
    BY <1>6, ClickOnIsRequest DEF Click, WriteEvent
  <2> QED BY <1>1, <2>1, WrittenFollows DEF Validity
<1>7. ASSUME NEW m \in Markers, Cover(m) PROVE TasksFollow'
  <2>1. Enqueue(<<Work("coverage", m.id, coverage'[Interval(m)].rev)>>)
    BY <1>7 DEF Cover
  <2>2. coverage'[Interval(m)].rev \in Nat
    BY DEF MarketingTyped, Intervals
  <2> QED BY <1>1, <2>1, <2>2, OneTaskFollows
<1>8. ASSUME NEW j \in Rebuilds, RequestRebuild(j) PROVE TasksFollow'
  <2>1. Enqueue(<<Work("rebuild", j, 1)>>)
    BY <1>8 DEF RequestRebuild
  <2> QED BY <1>1, <2>1, OneTaskFollows
<1>9. ASSUME Tick PROVE TasksFollow'
  BY <1>3, <1>9 DEF Tick
<1> QED BY <1>4, <1>5, <1>6, <1>7, <1>8, <1>9 DEF Ingest

\* A worker changes neither the facts nor what a task stands for.
LEMMA WorkersKeepFacts ==
  ASSUME MarketingTyped, NEW w \in Workers, Claim(w) \/ Run(w) \/ Crash(w)
  PROVE  /\ UNCHANGED facts
         /\ \A n \in Slots : outbox'[n].kind = outbox[n].kind /\ outbox'[n].of = outbox[n].of /\ outbox'[n].rev = outbox[n].rev
<1> DEFINE Alike(u, t) == u.kind = t.kind /\ u.of = t.of /\ u.rev = t.rev
           SameTask == \A n \in Slots : outbox'[n].kind = outbox[n].kind /\ outbox'[n].of = outbox[n].of /\ outbox'[n].rev = outbox[n].rev
<1>1. \A n \in Slots : outbox[n] \in Task
  BY DEF MarketingTyped
<1>2. ASSUME \A n \in Slots : Alike(outbox'[n], outbox[n]) PROVE SameTask
  BY <1>2
<1> HIDE DEF Alike
<1> HIDE DEF SameTask
<1>4. ASSUME Claim(w) PROVE UNCHANGED facts /\ SameTask
  <2>1. PICK waiting \in SUBSET BackingOff :
          LET spent == First({n \in Slots : Spent(outbox[n])})
              taken == First({n \in Slots \ waiting : Claimable(outbox[n]) /\ ~Spent(outbox[n])})
          IN  outbox' = [n \in Slots |->
                IF n \in spent THEN [outbox[n] EXCEPT !.status = "failed", !.live = FALSE]
                ELSE IF n \in taken THEN [outbox[n] EXCEPT !.status = "running", !.attempt = @ + 1, !.live = TRUE]
                ELSE outbox[n]]
    BY <1>4 DEF Claim
  <2> DEFINE spent == First({n \in Slots : Spent(outbox[n])})
             taken == First({n \in Slots \ waiting : Claimable(outbox[n]) /\ ~Spent(outbox[n])})
  <2>2. \A n \in Slots : outbox'[n] = IF n \in spent THEN [outbox[n] EXCEPT !.status = "failed", !.live = FALSE]
                ELSE IF n \in taken THEN [outbox[n] EXCEPT !.status = "running", !.attempt = outbox[n].attempt + 1, !.live = TRUE]
                ELSE outbox[n]
    BY <2>1
  <2> HIDE DEF spent, taken
  <2>3. \A n \in Slots : Alike(outbox'[n], outbox[n])
    <3> SUFFICES ASSUME NEW n \in Slots PROVE Alike(outbox'[n], outbox[n])
      OBVIOUS
    <3>1. CASE n \in spent
      <4>1. outbox'[n] = [outbox[n] EXCEPT !.status = "failed", !.live = FALSE]
        BY <2>2, <3>1
      <4> QED BY <1>1, <4>1 DEF Alike, Task
    <3>2. CASE n \notin spent /\ n \in taken
      <4>1. outbox'[n] = [outbox[n] EXCEPT !.status = "running", !.attempt = outbox[n].attempt + 1, !.live = TRUE]
        BY <2>2, <3>2
      <4> QED BY <1>1, <4>1 DEF Alike, Task
    <3>3. CASE n \notin spent /\ n \notin taken
      <4>1. outbox'[n] = outbox[n]
        BY <2>2, <3>3
      <4> QED BY <1>1, <4>1 DEF Alike, Task
    <3> QED BY <3>1, <3>2, <3>3
  <2>4. UNCHANGED facts
    BY <1>4 DEF Claim
  <2> QED BY <1>2, <2>3, <2>4
<1>5. ASSUME Snapshot(w) \/ Crash(w) PROVE UNCHANGED facts /\ SameTask
  BY <1>5 DEF Snapshot, Crash, ledgerVars, SameTask
<1>6. ASSUME Publish(w) PROVE UNCHANGED facts /\ SameTask
  <2>1. \A n \in Slots : outbox'[n] = IF n \in Batch(w) THEN [outbox[n] EXCEPT !.status = "done", !.live = FALSE] ELSE outbox[n]
    BY <1>6 DEF Publish
  <2>2. UNCHANGED facts
    BY <1>6 DEF Publish
  <2>3. \A n \in Slots : Alike(outbox'[n], outbox[n])
    <3> SUFFICES ASSUME NEW n \in Slots PROVE Alike(outbox'[n], outbox[n])
      OBVIOUS
    <3>1. CASE n \in Batch(w)
      <4>1. outbox'[n] = [outbox[n] EXCEPT !.status = "done", !.live = FALSE]
        BY <2>1, <3>1
      <4> QED BY <1>1, <4>1 DEF Alike, Task
    <3>2. CASE n \notin Batch(w)
      <4>1. outbox'[n] = outbox[n]
        BY <2>1, <3>2
      <4> QED BY <1>1, <4>1 DEF Alike, Task
    <3> QED BY <3>1, <3>2
  <2> QED BY <1>2, <2>2, <2>3
<1>7. ASSUME NEW permanent \in BOOLEAN, Fail(w, permanent) PROVE UNCHANGED facts /\ SameTask
  <2> DEFINE lost == {n \in Held(w) : permanent \/ outbox[n].attempt >= MaxAttempts \/ today - outbox[n].born >= Deadline}
  <2>1. \A n \in Slots : outbox'[n] = IF n \in Held(w)
          THEN [outbox[n] EXCEPT !.status = IF n \in lost THEN "failed" ELSE "pending", !.live = FALSE] ELSE outbox[n]
    BY <1>7 DEF Fail
  <2>2. UNCHANGED facts
    BY <1>7 DEF Fail
  <2> HIDE DEF lost
  <2>3. \A n \in Slots : Alike(outbox'[n], outbox[n])
    <3> SUFFICES ASSUME NEW n \in Slots PROVE Alike(outbox'[n], outbox[n])
      OBVIOUS
    <3>1. CASE n \in Held(w)
      <4> DEFINE s == IF n \in lost THEN "failed" ELSE "pending"
      <4>1. outbox'[n] = [outbox[n] EXCEPT !.status = s, !.live = FALSE]
        BY <2>1, <3>1
      <4> HIDE DEF s
      <4> QED BY <1>1, <4>1 DEF Alike, Task
    <3>2. CASE n \notin Held(w)
      <4>1. outbox'[n] = outbox[n]
        BY <2>1, <3>2
      <4> QED BY <1>1, <4>1 DEF Alike, Task
    <3> QED BY <3>1, <3>2
  <2> QED BY <1>2, <2>2, <2>3
<1>8. UNCHANGED facts /\ SameTask
  BY <1>4, <1>5, <1>6, <1>7 DEF Run
<1> QED BY <1>8 DEF SameTask

\* A step that changes no fact keeps the tasks following.
LEMMA SameFactsFollow ==
  ASSUME MarketingTyped, MarketingTyped', FactsInv, TasksFollow, UNCHANGED facts,
         \A n \in Slots : outbox'[n].kind = outbox[n].kind /\ outbox'[n].of = outbox[n].of /\ outbox'[n].rev = outbox[n].rev
  PROVE  FactsInv' /\ TasksFollow'
<1>1. OrdersHold' /\ RefundsAreOfOrders' /\ BooksHold' /\ DeliveredOnce'
  BY SameRows DEF facts
<1>2. RowsAreRequests' /\ AnswersStand'
  BY DEF facts, FactsInv, RowsAreRequests, AnswersStand
<1>3. Revised /\ revision' \in [Ids -> 0..2]
  BY DEF facts, Revised, MarketingTyped
<1>4. TasksFollow'
  BY <1>3, SameTasks
<1> QED BY <1>1, <1>2, <1>4 DEF FactsInv

\* Every step keeps the facts sound and followed.
LEMMA FactsStep ==
  ASSUME Inv, Inv', FactsInv, TasksFollow, [Next]_vars
  PROVE  FactsInv' /\ TasksFollow'
<1>1. MarketingTyped /\ MarketingTyped' /\ Received
  BY DEF Inv
<1>2. CASE Ingest \/ Tick
  BY <1>1, <1>2, IngestKeepsFacts, IngestFollows
<1>3. ASSUME NEW w \in Workers, Claim(w) \/ Run(w) \/ Crash(w) PROVE FactsInv' /\ TasksFollow'
  BY <1>1, <1>3, WorkersKeepFacts, SameFactsFollow
<1>4. ASSUME NEW m \in Slots, Expire(m) PROVE FactsInv' /\ TasksFollow'
  <2>1. UNCHANGED facts
    BY <1>4 DEF Expire
  <2>2. ASSUME NEW n \in Slots
        PROVE  outbox'[n].kind = outbox[n].kind /\ outbox'[n].of = outbox[n].of /\ outbox'[n].rev = outbox[n].rev
    <3>1. outbox[n] \in Task /\ outbox \in [Slots -> Task]
      BY <1>1 DEF MarketingTyped
    <3>2. outbox' = [outbox EXCEPT ![m].live = FALSE]
      BY <1>4 DEF Expire
    <3> QED BY <3>1, <3>2 DEF Task
  <2> QED BY <1>1, <2>1, <2>2, SameFactsFollow
<1>5. CASE UNCHANGED vars
  BY <1>1, <1>5, SameFactsFollow DEF vars, ledgerVars
<1> QED BY <1>2, <1>3, <1>4, <1>5 DEF Next

\* A set whose elements are all the same.
LEMMA AtMostOne ==
  ASSUME NEW S, \A x, y \in S : x = y
  PROVE  Cardinality(S) <= 1
<1>1. CASE S = {}
  BY <1>1, FS_EmptySet
<1>2. CASE S # {}
  <2>1. PICK x \in S : S = {x}
    BY <1>2
  <2> QED BY <2>1, FS_Singleton
<1> QED BY <1>1, <1>2

\* The entries of a creative and day, with the adjustments of each, are not negative.
LEMMA SpendIsNotNegative ==
  ASSUME FactsInv, NEW k \in Partitions
  PROVE  Total(In(Spending, k)) >= 0
<1> DEFINE R == {e \in Ids : status[e] # "none"}
           B == {e \in Valid({"spend"}) : rows[e].about = k[1] /\ rows[e].day = k[2]}
           A == {e \in Valid({"adjustment"}) : rows[rows[e].about].about = k[1] /\ rows[e].day = k[2]}
<1>1. In(Spending, k) = B \union A
  BY ValidRows DEF In, CreativeFor, Spending, Delivery
<1>2. IsFiniteSet(R) /\ \A e \in R : rows[e].amount \in Int
  BY FS_Subset, LedgerAssumption DEF FactsInv, RowsAreRequests, Request
<1>3. B \in SUBSET R /\ A \in SUBSET (R \ B)
  BY ValidRows
<1>4. ASSUME NEW a \in A PROVE rows[a].about \in B
  BY <1>4 DEF FactsInv, BooksHold
<1>5. ASSUME NEW b \in B PROVE rows[b].amount + Amounts(rows, {a \in A : rows[a].about = b}) >= 0
  <2>1. ValidAbout({"adjustment"}, b) = {a \in Valid({"adjustment"}) : rows[a].about = b}
    BY ValidRows
  <2>2. \A a \in Valid({"adjustment"}) : rows[a].about = b => a \in A
    BY <1>5 DEF FactsInv, BooksHold
  <2>3. {a \in A : rows[a].about = b} = ValidAbout({"adjustment"}, b)
    BY <2>1, <2>2
  <2>4. Amounts(rows, {a \in A : rows[a].about = b}) = Total(ValidAbout({"adjustment"}, b))
    BY <2>3, TotalIs
  <2> QED BY <1>5, <2>4 DEF FactsInv, BooksHold
<1>6. Total(In(Spending, k)) = Amounts(rows, B \union A)
  BY <1>1, TotalIs
<1> HIDE DEF A, B, R
<1>7. (\A a \in A : rows[a].about \in B) /\ \A b \in B : rows[b].amount + Amounts(rows, {a \in A : rows[a].about = b}) >= 0
  BY <1>4, <1>5
<1>8. Amounts(rows, B \union A) >= 0
  BY <1>2, <1>3, <1>7, AmountsInGroups
<1> QED BY <1>6, <1>8

\* Sound facts and a bounded backlog make the ledger sound.
LEMMA FactsGiveLedger ==
  ASSUME Inv, FactsInv, TasksFollow, BacklogIsBounded
  PROVE  LedgerIsSound
<1>1. ASSUME NEW o \in Orders
      PROVE  /\ Cardinality(ValidAbout({"order_paid"}, o)) <= 1
             /\ refunded[o] = Total(ValidAbout({"order_refunded"}, o))
             /\ refunded[o] <= Total(ValidAbout({"order_paid"}, o))
             /\ paidBy[o] # NoId => ValidAbout({"order_paid"}, o) = {paidBy[o]} /\ Waiting(o) = {}
  <2>1. /\ refunded[o] = Total(ValidAbout({"order_refunded"}, o))
        /\ paidBy[o] = NoId => ValidAbout({"order_paid"}, o) = {} /\ ValidAbout({"order_refunded"}, o) = {}
        /\ paidBy[o] # NoId => /\ ValidAbout({"order_paid"}, o) = {paidBy[o]} /\ Waiting(o) = {}
                               /\ refunded[o] <= rows[paidBy[o]].amount
    BY DEF FactsInv, OrdersHold
  <2>2. Cardinality(ValidAbout({"order_paid"}, o)) <= 1
    BY <2>1, AtMostOne
  <2>3. refunded[o] <= Total(ValidAbout({"order_paid"}, o))
    <3>1. Total({}) = 0
      BY TotalsAdd DEF FactsInv
    <3>2. CASE paidBy[o] = NoId
      BY <2>1, <3>1, <3>2
    <3>3. CASE paidBy[o] # NoId
      <4>1. paidBy[o] \in Ids /\ status[paidBy[o]] # "none"
        BY <2>1, <3>3, ValidRows
      <4>2. Total({paidBy[o]}) = rows[paidBy[o]].amount
        BY <4>1, TotalsAdd DEF FactsInv
      <4> QED BY <2>1, <3>3, <4>2
    <3> QED BY <3>2, <3>3
  <2> QED BY <2>1, <2>2, <2>3
<1>2. FactsAreAttributable
  BY <1>1, SpendIsNotNegative DEF FactsAreAttributable
<1>3. AnswersNameOneEvent
  <2>1. ASSUME NEW i \in Impressions, NEW t \in Delivery PROVE Cardinality(ValidAbout({t}, i)) <= 1
    <3>1. \A x, y \in ValidAbout({t}, i) : x = y
      BY DEF FactsInv, DeliveredOnce
    <3> QED BY <3>1, AtMostOne
  <2> QED BY <2>1 DEF FactsInv, AnswersStand, AnswersNameOneEvent
<1>4. TasksNameFacts
  BY DEF Inv, Numbered, TasksFollow, TasksNameFacts
<1> QED BY <1>2, <1>3, <1>4 DEF LedgerIsSound

\* Whatever is sent, in whatever order and under however many ids: an order has one payment
\* that its refunds fit in, no day has a negative spend, a decision counts once, a stored
\* answer names the event that counts, and a task names a fact.
THEOREM LedgerStaysSound == Spec => []LedgerIsSound
<1>1. Inv /\ Inv' /\ FactsInv /\ TasksFollow /\ [Next]_vars => FactsInv' /\ TasksFollow'
  BY FactsStep
<1>2. Spec => [](FactsInv /\ TasksFollow)
  BY <1>1, FactsInit, MarketingInvariant, PTL DEF Spec
<1> QED BY <1>2, FactsGiveLedger, MarketingInvariant, BacklogStaysBounded, PTL

-----------------------------------------------------------------------------
(* Complete reports *)

\* A click is named by the decision that was clicked.
ClicksAreDecisions == \A e \in Ids : status[e] # "none" /\ rows[e].type = "click" => e \in Impressions

\* Of events that have rows one is the latest.
LEMMA LatestExists ==
  ASSUME RowsAreRequests, NEW C, C \subseteq {e \in Ids : status[e] # "none"}, C # {}
  PROVE  \E c \in C : \A d \in C : d = c \/ Before(d, c)
<1> DEFINE Latest(A) == \E c \in A : \A d \in A : d = c \/ Before(d, c)
           T == {A \in SUBSET C : A # {} /\ ~Latest(A)}
<1>1. IsFiniteSet(C)
  BY FS_Subset, LedgerAssumption
<1>2. \A e \in C : rows[e].day \in Nat /\ e \in Nat
  BY LedgerAssumption DEF RowsAreRequests, Request, Days
<1>3. \A d, e \in C : d = e \/ Before(d, e) \/ Before(e, d)
  BY <1>2 DEF Before
<1>4. \A d, e, f \in C : Before(d, e) /\ Before(e, f) => Before(d, f)
  BY <1>2 DEF Before
<1>5. T \subseteq SUBSET C
  OBVIOUS
<1>6. T = {}
  <2> SUFFICES ASSUME T # {} PROVE FALSE
    OBVIOUS
  <2>1. PICK A \in T : \A B \in T : B \subseteq A => B = A
    <3> HIDE DEF T
    <3> QED BY <1>1, <1>5, SmallestSet
  <2>2. A \subseteq C /\ A # {} /\ ~Latest(A)
    OBVIOUS
  <2>3. PICK x \in A : TRUE
    BY <2>2
  <2>4. A \ {x} # {}
    <3> SUFFICES ASSUME A \ {x} = {} PROVE FALSE
      OBVIOUS
    <3>1. \A d \in A : d = x
      OBVIOUS
    <3> QED BY <2>2, <3>1
  <2>5. A \ {x} \notin T
    <3> HIDE DEF T
    <3> QED BY <2>1, <2>3
  <2>6. Latest(A \ {x})
    BY <2>2, <2>4, <2>5
  <2>7. PICK m \in A \ {x} : \A d \in A \ {x} : d = m \/ Before(d, m)
    BY <2>6
  <2>8. CASE Before(x, m)
    <3>1. \A d \in A : d = m \/ Before(d, m)
      BY <2>7, <2>8
    <3> QED BY <2>2, <2>7, <3>1
  <2>9. CASE Before(m, x)
    <3>1. \A d \in A : d = x \/ Before(d, x)
      <4> SUFFICES ASSUME NEW d \in A, d # x PROVE Before(d, x)
        OBVIOUS
      <4>1. d = m \/ Before(d, m)
        BY <2>7
      <4>2. d \in C /\ m \in C /\ x \in C
        BY <2>2, <2>7
      <4> QED BY <1>4, <2>9, <4>1, <4>2
    <3> QED BY <2>2, <2>3, <3>1
  <2> QED BY <1>3, <2>2, <2>3, <2>7, <2>8, <2>9
<1>7. C \in SUBSET C /\ C \notin T
  BY <1>6
<1> QED BY <1>7

\* A payment is linked to the last of its clicks.
LEMMA LinkOf ==
  ASSUME RowsAreRequests, ClicksAreDecisions, NEW o \in Orders, NEW p, ValidAbout({"order_paid"}, o) = {p}
  PROVE  /\ Candidates(p) = {} => Links[o] = NoOrder
         /\ Candidates(p) # {} => /\ Links[o] # NoOrder /\ LastClick(p) \in Candidates(p)
                                  /\ Links[o].clickDay = rows[LastClick(p)].day /\ Links[o].paidDay = rows[p].day
<1> DEFINE paid == ValidAbout({"order_paid"}, o)
           refunds == ValidAbout({"order_refunded"}, o)
           found == Candidates(p) # {}
           a == [status |-> IF found THEN "attributed" ELSE "unattributed",
                 click |-> IF found THEN LastClick(p) ELSE NoId,
                 paid |-> p, refunds |-> refunds, net |-> rows[p].amount - Total(refunds)]
<1>1. p \in Ids /\ status[p] = "valid" /\ rows[p].type = "order_paid" /\ rows[p].about = o
  BY ValidRows
<1>2. Known(o) # {}
  BY <1>1 DEF Known, About, Of, Conversion
<1>3. (CHOOSE e \in paid : TRUE) = p /\ paid # {}
  OBVIOUS
<1>4. Attribution[o] = a
  BY <1>2, <1>3 DEF Attribution
<1>5. Links[o] = Link(a)
  BY <1>4 DEF Links
<1>6. CASE Candidates(p) = {}
  BY <1>5, <1>6 DEF Link
<1>7. CASE Candidates(p) # {}
  <2>1. Candidates(p) \subseteq {e \in Ids : status[e] # "none"}
    BY ValidRows DEF Candidates
  <2>2. LastClick(p) \in Candidates(p)
    BY <1>7, <2>1, LatestExists DEF LastClick
  <2> DEFINE c == LastClick(p)
             l == [click |-> c, clickDay |-> rows[c].day, paidDay |-> rows[p].day,
                   creative |-> CreativeOf[c], net |-> rows[p].amount - Total(refunds), refunded |-> Total(refunds)]
  <2>3. Links[o] = l
    BY <1>5, <1>7 DEF Link
  <2>4. c \in Ids /\ status[c] = "valid" /\ rows[c].type = "click"
    BY <2>2, ValidRows DEF Candidates
  <2>5. c \in Impressions /\ CreativeOf[c] \in Creatives
    BY <2>4, LedgerAssumption DEF ClicksAreDecisions
  <2>6. rows[c] \in Request /\ rows[p] \in Request
    BY <1>1, <2>4 DEF RowsAreRequests
  <2>7. refunds \subseteq {e \in Ids : status[e] # "none"}
    BY ValidRows
  <2>8. Total(refunds) \in Int
    BY <2>7, TotalsAdd
  <2> HIDE DEF refunds, c
  <2>9. l \in OrderLink
    BY <2>4, <2>5, <2>6, <2>8 DEF OrderLink, Request
  <2> QED BY <1>7, <2>2, <2>3, <2>9, AggregationAssumption DEF c
<1> QED BY <1>6, <1>7

\* An order without a payment has no link.
LEMMA NoLink ==
  ASSUME NEW o \in Orders, ValidAbout({"order_paid"}, o) = {}
  PROVE  Links[o] = NoOrder
BY DEF Links, Attribution, Link, Unknown

\* What becomes valid is a refund, or is not older than what is still accepted.
Admits == \E new : /\ Grows(new) /\ new \subseteq Ids
                   /\ \A e \in new : rows'[e].type = "order_refunded" \/ (rows'[e].day \in Int /\ rows'[e].day >= today - LateDays)
ClicksStay == \A e \in Ids : status'[e] # "none" /\ rows'[e].type = "click" =>
                (status[e] # "none" /\ rows[e].type = "click") \/ e \in Impressions

\* A step that changes no row admits nothing.
LEMMA SameAdmits ==
  ASSUME rows' = rows, status' = status
  PROVE  Admits /\ ClicksStay
<1>1. Grows({})
  BY DEF Grows
<1> QED BY <1>1 DEF Admits, ClicksStay

\* What is written as valid is a refund or in time.
LEMMA WriteAdmits ==
  ASSUME MarketingTyped, Received, NEW r \in Request, Fresh(r), NEW s, Write(r, s),
         s = "valid" => r.type = "order_refunded" \/ r.day >= today - LateDays,
         r.type = "click" => r.id \in Impressions
  PROVE  Admits /\ ClicksStay
<1>1. Recorded(r, s)
  BY WriteRecords
<1>2. Grows(New(r, s))
  BY <1>1, RecordedGrows
<1>3. \A e \in New(r, s) : e = r.id /\ s = "valid"
  BY DEF New
<1>4. rows'[r.id] = r /\ r.id \in Ids /\ r.day \in Int
  BY <1>1 DEF Recorded, Request, Days
<1>5. Admits
  BY <1>2, <1>3, <1>4 DEF Admits
<1>6. ClicksStay
  BY <1>1 DEF Recorded, ClicksStay
<1> QED BY <1>5, <1>6

\* What is settled is in time.
LEMMA SettleAdmits ==
  ASSUME MarketingTyped, Received, FactsInv, NEW r \in Request, Fresh(r), r.type = "order_paid", r.about \in Orders,
         r.amount >= 0, ~OutOfTime(r.day), Settle(r)
  PROVE  Admits /\ ClicksStay
<1> DEFINE W == Waiting(r.about)
           new == {e \in Ids : status'[e] = "valid" /\ status[e] # "valid"}
<1>1. PICK q \in Queues(r.about) :
        /\ rows' = [rows EXCEPT ![r.id] = r]
        /\ status' = [e \in Ids |-> IF e = r.id \/ e \in Accepted(q, r.amount) THEN "valid"
                                    ELSE IF e \in Waiting(r.about) THEN "quarantined" ELSE status[e]]
  BY DEF Settle
<1>2. Accepted(q, r.amount) \subseteq W
  BY QueueFits DEF Request
<1>3. r.id \in Ids /\ status[r.id] = "none" /\ r.day \in Int
  BY DEF Received, Fresh, Request, Days
<1>4. \A e \in W : e \in Ids /\ status[e] = "pending" /\ rows[e].type = "order_refunded"
  BY ValidRows
<1> HIDE DEF W
<1>5. rows'[r.id] = r /\ \A e \in Ids : e # r.id => rows'[e] = rows[e]
  BY <1>1, <1>3 DEF MarketingTyped
<1>6. ASSUME NEW e \in Ids, e # r.id, e \notin W PROVE status'[e] = status[e]
  BY <1>1, <1>2, <1>6 DEF W
<1>7. ASSUME NEW e \in Ids, status[e] = "valid" PROVE status'[e] = "valid" /\ rows'[e] = rows[e]
  BY <1>3, <1>4, <1>5, <1>6, <1>7
<1>8. Grows(new)
  BY <1>7 DEF Grows
<1>9. ASSUME NEW e \in new PROVE rows'[e].type = "order_refunded" \/ (rows'[e].day \in Int /\ rows'[e].day >= today - LateDays)
  <2>1. CASE e = r.id
    BY <1>3, <1>5, <2>1, LedgerAssumption DEF OutOfTime, MarketingTyped, Days
  <2>2. CASE e # r.id /\ e \in W
    BY <1>4, <1>5, <2>2
  <2>3. CASE e # r.id /\ e \notin W
    BY <1>6, <2>3
  <2> QED BY <2>1, <2>2, <2>3
<1>10. ClicksStay
  <2> SUFFICES ASSUME NEW e \in Ids, status'[e] # "none", rows'[e].type = "click"
               PROVE  status[e] # "none" /\ rows[e].type = "click"
    BY DEF ClicksStay
  <2>1. e # r.id
    BY <1>5
  <2> QED BY <1>4, <1>5, <1>6, <2>1
<1>11. new \subseteq Ids
  OBVIOUS
<1> HIDE DEF new
<1> QED BY <1>8, <1>9, <1>10, <1>11 DEF Admits

\* Every step of the ingestion admits refunds and what is in time only.
LEMMA IngestAdmits ==
  ASSUME MarketingTyped, Received, FactsInv, Ingest \/ Tick
  PROVE  Admits /\ ClicksStay
<1>0. today \in Int /\ LateDays \in Nat
  BY LedgerAssumption DEF MarketingTyped, Days
<1>1. ASSUME NEW d \in Int, ~OutOfTime(d) PROVE d >= today - LateDays
  BY <1>0, <1>1 DEF OutOfTime
<1>2. ASSUME NEW r \in Requests PROVE r \in Request /\ r.type # "click" /\ r.day \in Int
  BY LedgerAssumption DEF Request, Days
<1>3. ASSUME NEW r \in Requests, View(r) PROVE Admits /\ ClicksStay
  <2>1. Fresh(r)
    BY <1>3 DEF View
  <2>2. ASSUME WriteEvent(r, "quarantined") PROVE Admits /\ ClicksStay
    BY <1>2, <2>1, <2>2, WriteAdmits DEF WriteEvent
  <2>3. ASSUME ~OutOfTime(r.day), WriteEvent(r, "valid") PROVE Admits /\ ClicksStay
    BY <1>1, <1>2, <2>1, <2>3, WriteAdmits DEF WriteEvent
  <2>4. ASSUME UNCHANGED <<rows, status>> PROVE Admits /\ ClicksStay
    BY <2>4, SameAdmits
  <2> QED BY <1>3, <2>2, <2>3, <2>4 DEF View
<1>4. ASSUME NEW i \in Impressions, Click(i) PROVE Admits /\ ClicksStay
  <2>1. /\ ClickOn(i) \in Request /\ ClickOn(i).id = i /\ ClickOn(i).day = today
        /\ Fresh(ClickOn(i)) /\ Write(ClickOn(i), "valid")
    BY <1>4, ClickOnIsRequest DEF Click, ClickOn, WriteEvent
  <2>2. ClickOn(i).day >= today - LateDays
    BY <1>0, <2>1
  <2> QED BY <2>1, <2>2, WriteAdmits
<1>5. ASSUME NEW r \in Requests, Pay(r) PROVE Admits /\ ClicksStay
  <2>1. Fresh(r) /\ r.type = "order_paid" /\ r.about \in Orders /\ r.amount >= 0
    BY <1>5, LedgerAssumption DEF Pay, Conversion
  <2>2. ASSUME WriteEvent(r, "quarantined") PROVE Admits /\ ClicksStay
    BY <1>2, <2>1, <2>2, WriteAdmits DEF WriteEvent
  <2>3. ASSUME ~OutOfTime(r.day), Settle(r) PROVE Admits /\ ClicksStay
    BY <1>2, <2>1, <2>3, SettleAdmits
  <2>4. ASSUME UNCHANGED <<rows, status>> PROVE Admits /\ ClicksStay
    BY <2>4, SameAdmits
  <2> QED BY <1>5, <2>2, <2>3, <2>4 DEF Pay
<1>6. ASSUME NEW r \in Requests, Refund(r) PROVE Admits /\ ClicksStay
  <2>1. Fresh(r) /\ r.type = "order_refunded"
    BY <1>6 DEF Refund
  <2>2. ASSUME NEW s, WriteEvent(r, s) PROVE Admits /\ ClicksStay
    BY <1>2, <2>1, <2>2, WriteAdmits DEF WriteEvent
  <2> QED BY <1>6, <2>2 DEF Refund
<1>7. ASSUME NEW r \in Requests, Spend(r) PROVE Admits /\ ClicksStay
  <2>1. Fresh(r) /\ Write(r, IF OutOfTime(r.day) THEN "quarantined" ELSE "valid")
    BY <1>7 DEF Spend
  <2>2. CASE OutOfTime(r.day)
    BY <1>2, <2>1, <2>2, WriteAdmits
  <2>3. CASE ~OutOfTime(r.day)
    BY <1>1, <1>2, <2>1, <2>3, WriteAdmits
  <2> QED BY <2>2, <2>3
<1>8. ASSUME NEW m \in Markers, Cover(m) PROVE Admits /\ ClicksStay
  BY <1>8, SameAdmits DEF Cover
<1>9. ASSUME NEW j \in Rebuilds, RequestRebuild(j) PROVE Admits /\ ClicksStay
  BY <1>9, SameAdmits DEF RequestRebuild, facts
<1>10. ASSUME Tick PROVE Admits /\ ClicksStay
  BY <1>10, SameAdmits DEF Tick, facts
<1> QED BY <1>3, <1>4, <1>5, <1>6, <1>7, <1>8, <1>9, <1>10 DEF Ingest

LinksHold == RowsAreRequests /\ ClicksAreDecisions => \A o \in Orders :
  /\ ValidAbout({"order_paid"}, o) = {} => Links[o] = NoOrder
  /\ \A p : ValidAbout({"order_paid"}, o) = {p} =>
       /\ Candidates(p) = {} => Links[o] = NoOrder
       /\ Candidates(p) # {} => /\ Links[o] # NoOrder /\ LastClick(p) \in Candidates(p)
                                /\ Links[o].clickDay = rows[LastClick(p)].day /\ Links[o].paidDay = rows[p].day

\* An order is linked to its latest click.
LEMMA LinksHoldNow == LinksHold
BY LinkOf, NoLink DEF LinksHold

\* The same after a step.
LEMMA LinksHoldThen == LinksHold'
BY LinksHoldNow, PTL

\* The clicks a paid order may be linked to, before and after a step.
LEMMA CandidateRows ==
  \A p : /\ Candidates(p) = {c \in Ids : status[c] = "valid" /\ rows[c].type = "click" /\ rows[p].session
                                         /\ rows[c].day \in (rows[p].day - ClickDays)..rows[p].day}
         /\ Candidates(p)' = {c \in Ids : status'[c] = "valid" /\ rows'[c].type = "click" /\ rows'[p].session
                                         /\ rows'[c].day \in (rows'[p].day - ClickDays)..rows'[p].day}
BY ValidRows DEF Candidates


\* An order of days that are complete keeps its link.
LEMMA OrderIsFinal ==
  ASSUME MarketingTyped, FactsInv, FactsInv', ClicksAreDecisions, ClicksAreDecisions', Admits,
         NEW a \in Days, NEW b \in Days, Closed(b), NEW o \in Orders
  PROVE  /\ (Links[o] # NoOrder /\ Within(Links[o].paidDay, <<a, b>>)) <=> (Links'[o] # NoOrder /\ Within(Links'[o].paidDay, <<a, b>>))
         /\ (Links[o] # NoOrder /\ Within(Links[o].clickDay, <<a, b>>)) <=> (Links'[o] # NoOrder /\ Within(Links'[o].clickDay, <<a, b>>))
<1> DEFINE P == ValidAbout({"order_paid"}, o)
<1>0. /\ today \in Int /\ a \in Int /\ b \in Int /\ ClickDays \in Nat /\ LateDays \in Nat /\ today >= b + ClickDays + LateDays
      /\ \A d : Within(d, <<a, b>>) => d < b
  BY LedgerAssumption, AggregationAssumption DEF MarketingTyped, Days, Closed, Within
<1>1. PICK new : /\ Grows(new) /\ new \subseteq Ids
                 /\ \A e \in new : rows'[e].type = "order_refunded" \/ (rows'[e].day \in Int /\ rows'[e].day >= today - LateDays)
  BY DEF Admits
<1>2. P' = P \union {e \in new : rows'[e].type \in {"order_paid"} /\ rows'[e].about = o}
  BY <1>1, ValidGrows
<1>3. RowsAreRequests /\ RowsAreRequests'
  BY DEF FactsInv
<1>4. \A e \in Ids : /\ status[e] # "none" => rows[e].day \in Int
                     /\ status'[e] # "none" => rows'[e].day \in Int
  BY <1>3 DEF RowsAreRequests, Request, Days
<1>5. /\ P = {} \/ \E p : P = {p}
      /\ P' = {} \/ \E p : P' = {p}
  BY DEF FactsInv, OrdersHold
\* A payment that is too new to count.
<1>6. ASSUME NEW p, P' = {p}, rows'[p].day \in Int, rows'[p].day >= b + ClickDays
      PROVE  ~(Links'[o] # NoOrder /\ Within(Links'[o].paidDay, <<a, b>>)) /\ ~(Links'[o] # NoOrder /\ Within(Links'[o].clickDay, <<a, b>>))
  <2>1. CASE Candidates(p)' = {}
    BY <1>3, <1>6, <2>1, LinksHoldThen DEF LinksHold
  <2>2. CASE Candidates(p)' # {}
    <3> DEFINE c == LastClick(p)'
    <3>1. c \in Candidates(p)' /\ Links'[o].clickDay = rows'[c].day /\ Links'[o].paidDay = rows'[p].day
      BY <1>3, <1>6, <2>2, LinksHoldThen DEF LinksHold
    <3> HIDE DEF c
    <3>2. rows'[c].day \in (rows'[p].day - ClickDays)..rows'[p].day
      BY <3>1, CandidateRows
    <3>3. rows'[c].day >= b /\ rows'[p].day >= b /\ rows'[c].day \in Int
      BY <1>0, <1>6, <3>2
    <3> QED BY <1>0, <1>6, <3>1, <3>3
  <2> QED BY <2>1, <2>2
<1>7. CASE P = {}
  <2>1. Links[o] = NoOrder
    BY <1>3, <1>7, LinksHoldNow DEF LinksHold
  <2>2. CASE P' = {}
    BY <1>3, <2>1, <2>2, LinksHoldThen DEF LinksHold
  <2>3. ASSUME NEW p, P' = {p}
        PROVE ~(Links'[o] # NoOrder /\ Within(Links'[o].paidDay, <<a, b>>)) /\ ~(Links'[o] # NoOrder /\ Within(Links'[o].clickDay, <<a, b>>))
    <3>1. p \in new /\ rows'[p].type = "order_paid"
      BY <1>2, <1>7, <2>3
    <3>2. rows'[p].day \in Int /\ rows'[p].day >= b + ClickDays
      BY <1>0, <1>1, <3>1
    <3> HIDE DEF P
    <3> QED BY <1>6, <2>3, <3>2
  <2> HIDE DEF P
  <2> QED BY <1>5, <2>1, <2>2, <2>3
<1>8. ASSUME NEW p, P = {p}
      PROVE  /\ (Links[o] # NoOrder /\ Within(Links[o].paidDay, <<a, b>>)) <=> (Links'[o] # NoOrder /\ Within(Links'[o].paidDay, <<a, b>>))
             /\ (Links[o] # NoOrder /\ Within(Links[o].clickDay, <<a, b>>)) <=> (Links'[o] # NoOrder /\ Within(Links'[o].clickDay, <<a, b>>))
  <2>1. p \in Ids /\ status[p] = "valid"
    BY <1>8, ValidRows
  <2>2. status'[p] = "valid" /\ rows'[p] = rows[p]
    BY <1>1, <2>1 DEF Grows
  <2>3. P' = {p}
    <3> HIDE DEF P
    <3>1. p \in P'
      BY <1>2, <1>8
    <3> QED BY <1>5, <3>1
  <2>4. Candidates(p) \subseteq Candidates(p)'
    BY <1>1, <2>2, CandidateRows DEF Grows
  <2>5. ASSUME NEW c \in Candidates(p)', c \notin Candidates(p) PROVE rows[p].day >= b + ClickDays
    <3>1. c \in Ids /\ status'[c] = "valid" /\ rows'[c].type = "click" /\ rows'[c].day \in (rows'[p].day - ClickDays)..rows'[p].day
      BY CandidateRows
    <3>2. status[c] # "valid"
      <4> SUFFICES ASSUME status[c] = "valid" PROVE FALSE
        OBVIOUS
      <4>1. rows'[c] = rows[c]
        BY <1>1, <3>1 DEF Grows
      <4> QED BY <2>2, <2>5, <3>1, <4>1, CandidateRows
    <3>3. c \in new
      BY <1>1, <3>1, <3>2 DEF Grows
    <3>4. rows'[c].day \in Int /\ rows'[c].day >= today - LateDays
      BY <1>1, <3>1, <3>3
    <3>5. rows[p].day \in Int /\ rows'[c].day <= rows[p].day
      BY <1>4, <2>1, <2>2, <3>1
    <3> QED BY <1>0, <3>4, <3>5
  <2>6. CASE Candidates(p)' = Candidates(p)
    <3> DEFINE C == Candidates(p)
    <3>1. \A c \in C : rows'[c] = rows[c]
      BY <1>1, CandidateRows DEF Grows
    <3>2. \A c, d \in C : Before(d, c)' <=> Before(d, c)
      BY <3>1 DEF Before
    <3>3. \A c \in C : (\A d \in C : d = c \/ Before(d, c)') <=> (\A d \in C : d = c \/ Before(d, c))
      BY <3>2
    <3>4. LastClick(p)' = LastClick(p)
      <4>1. LastClick(p)' = CHOOSE c \in C' : \A d \in C' : d = c \/ Before(d, c)'
        BY DEF LastClick
      <4>2. LastClick(p) = CHOOSE c \in C : \A d \in C : d = c \/ Before(d, c)
        BY DEF LastClick
      <4> HIDE DEF C
      <4>3. C' = C
        BY <2>6 DEF C
      <4> QED BY <3>3, <4>1, <4>2, <4>3
    <3>5. CASE C = {}
      BY <1>3, <1>8, <2>3, <2>6, <3>5, LinksHoldNow, LinksHoldThen DEF LinksHold
    <3>6. CASE C # {}
      <4>1. /\ Links[o] # NoOrder /\ LastClick(p) \in C
            /\ Links[o].clickDay = rows[LastClick(p)].day /\ Links[o].paidDay = rows[p].day
        BY <1>3, <1>8, <3>6, LinksHoldNow DEF LinksHold
      <4>2. /\ Links'[o] # NoOrder
            /\ Links'[o].clickDay = rows'[LastClick(p)'].day /\ Links'[o].paidDay = rows'[p].day
        BY <1>3, <2>3, <2>6, <3>6, LinksHoldThen DEF LinksHold
      <4>3. Links'[o].clickDay = Links[o].clickDay /\ Links'[o].paidDay = Links[o].paidDay
        BY <2>2, <3>1, <3>4, <4>1, <4>2
      <4> QED BY <4>1, <4>2, <4>3
    <3> QED BY <3>5, <3>6
  <2>7. CASE Candidates(p)' # Candidates(p)
    <3>1. rows[p].day >= b + ClickDays /\ rows[p].day \in Int
      BY <1>4, <2>1, <2>4, <2>5, <2>7
    <3>2. ~(Links'[o] # NoOrder /\ Within(Links'[o].paidDay, <<a, b>>)) /\ ~(Links'[o] # NoOrder /\ Within(Links'[o].clickDay, <<a, b>>))
      BY <1>6, <2>2, <2>3, <3>1
    <3>3. ~(Links[o] # NoOrder /\ Within(Links[o].paidDay, <<a, b>>)) /\ ~(Links[o] # NoOrder /\ Within(Links[o].clickDay, <<a, b>>))
      <4>1. CASE Candidates(p) = {}
        BY <1>3, <1>8, <4>1, LinksHoldNow DEF LinksHold
      <4>2. CASE Candidates(p) # {}
        <5> DEFINE c == LastClick(p)
        <5>1. c \in Candidates(p) /\ Links[o].clickDay = rows[c].day /\ Links[o].paidDay = rows[p].day
          BY <1>3, <1>8, <4>2, LinksHoldNow DEF LinksHold
        <5> HIDE DEF c
        <5>2. rows[c].day \in (rows[p].day - ClickDays)..rows[p].day
          BY <5>1, CandidateRows
        <5>3. rows[c].day >= b /\ rows[p].day >= b /\ rows[c].day \in Int
          BY <1>0, <3>1, <5>2
        <5> QED BY <1>0, <3>1, <5>1, <5>3
      <4> QED BY <4>1, <4>2
    <3> QED BY <3>2, <3>3
  <2> QED BY <2>6, <2>7
<1> HIDE DEF P
<1> QED BY <1>5, <1>7, <1>8

\* What happened in days that are complete stays as it is, but for refunds.
LEMMA WindowIsFinal ==
  ASSUME MarketingTyped, FactsInv, FactsInv', Admits, NEW a \in Days, NEW b \in Days, Closed(b), NEW types, "order_refunded" \notin types
  PROVE  /\ InWindow(types, a, b)' = InWindow(types, a, b)
         /\ Total(InWindow(types, a, b))' = Total(InWindow(types, a, b))
<1> DEFINE E == InWindow(types, a, b)
<1>0. /\ today \in Int /\ a \in Int /\ b \in Int /\ ClickDays \in Nat /\ LateDays \in Nat /\ today >= b + ClickDays + LateDays
      /\ \A d : Within(d, <<a, b>>) => d < b
  BY LedgerAssumption, AggregationAssumption DEF MarketingTyped, Days, Closed, Within
<1>1. PICK new : /\ Grows(new) /\ new \subseteq Ids
                 /\ \A e \in new : rows'[e].type = "order_refunded" \/ (rows'[e].day \in Int /\ rows'[e].day >= today - LateDays)
  BY DEF Admits
<1>2. Valid(types)' = Valid(types) \union {e \in new : rows'[e].type \in types}
  BY <1>1, ValidGrows
<1>3. \A e \in Valid(types) : rows'[e] = rows[e]
  BY <1>1, ValidRows DEF Grows
<1>4. \A e \in new : rows'[e].type \in types => ~Within(rows'[e].day, <<a, b>>)
  BY <1>0, <1>1
<1>5. E' = {e \in Valid(types)' : Within(rows'[e].day, <<a, b>>)} /\ E = {e \in Valid(types) : Within(rows[e].day, <<a, b>>)}
  BY DEF InWindow
<1>6. E' = E
  BY <1>2, <1>3, <1>4, <1>5
<1>7. Total(E)' = Amounts(rows', E') /\ Total(E) = Amounts(rows, E)
  BY DEF Total, Amounts
<1>8. Amounts(rows', E) = Amounts(rows, E)
  BY <1>3, AmountsSame DEF InWindow
<1> HIDE DEF E
<1>9. Total(E)' = Total(E)
  BY <1>6, <1>7, <1>8
<1> QED BY <1>6, <1>9 DEF E

\* The totals of days that are complete stay as they are.
LEMMA ReportStep ==
  ASSUME MarketingTyped, Received, FactsInv, FactsInv', ClicksAreDecisions, [Next]_vars,
         NEW a \in Days, NEW b \in Days, Closed(b)
  PROVE  Totals(a, b)' = Totals(a, b)
<1>1. Admits /\ ClicksStay
  <2>1. CASE Ingest \/ Tick
    BY <2>1, IngestAdmits
  <2>2. ASSUME rows' = rows, status' = status PROVE Admits /\ ClicksStay
    BY <2>2, SameAdmits
  <2>3. ASSUME NEW w \in Workers, Claim(w) \/ Run(w) \/ Crash(w) PROVE Admits /\ ClicksStay
    BY <2>2, <2>3, WorkersKeepFacts DEF facts
  <2>4. ASSUME NEW n \in Slots, Expire(n) PROVE Admits /\ ClicksStay
    BY <2>2, <2>4 DEF Expire, facts
  <2>5. CASE UNCHANGED vars
    BY <2>2, <2>5 DEF vars, ledgerVars, facts
  <2> QED BY <2>1, <2>3, <2>4, <2>5 DEF Next
<1>2. ClicksAreDecisions'
  BY <1>1 DEF ClicksAreDecisions, ClicksStay
<1>3. \A o \in Orders :
         /\ (Links[o] # NoOrder /\ Within(Links[o].paidDay, <<a, b>>)) <=> (Links'[o] # NoOrder /\ Within(Links'[o].paidDay, <<a, b>>))
         /\ (Links[o] # NoOrder /\ Within(Links[o].clickDay, <<a, b>>)) <=> (Links'[o] # NoOrder /\ Within(Links'[o].clickDay, <<a, b>>))
  BY <1>1, <1>2, OrderIsFinal
<1>4. /\ InWindow(Delivery, a, b)' = InWindow(Delivery, a, b)
      /\ Total(InWindow(Spending, a, b))' = Total(InWindow(Spending, a, b))
  <2>1. "order_refunded" \notin Delivery /\ "order_refunded" \notin Spending
    BY DEF Delivery, Spending
  <2> QED BY <1>1, <2>1, WindowIsFinal
<1> DEFINE paid == {o \in Orders : Links[o] # NoOrder /\ Within(Links[o].paidDay, <<a, b>>)}
           cohort == {o \in Orders : Links[o] # NoOrder /\ Within(Links[o].clickDay, <<a, b>>)}
<1>5. paid' = paid /\ cohort' = cohort
  BY <1>3
<1>6. /\ Totals(a, b) = [delivered |-> InWindow(Delivery, a, b), spend |-> Total(InWindow(Spending, a, b)), paid |-> paid, cohort |-> cohort]
      /\ Totals(a, b)' = [delivered |-> InWindow(Delivery, a, b)', spend |-> Total(InWindow(Spending, a, b))', paid |-> paid', cohort |-> cohort']
  BY DEF Totals
<1> HIDE DEF paid, cohort
<1> QED BY <1>4, <1>5, <1>6

\* There are no clicks at first.
LEMMA ClicksInit == Init => ClicksAreDecisions
BY DEF Init, LedgerInit, ClicksAreDecisions

\* Every click that is written is one on a decision.
LEMMA ClicksStep ==
  ASSUME Inv, FactsInv, ClicksAreDecisions, [Next]_vars
  PROVE  ClicksAreDecisions'
<1>1. ASSUME ClicksStay PROVE ClicksAreDecisions'
  BY <1>1 DEF ClicksAreDecisions, ClicksStay
<1>2. MarketingTyped /\ Received
  BY DEF Inv
<1>3. CASE Ingest \/ Tick
  BY <1>1, <1>2, <1>3, IngestAdmits
<1>4. ASSUME rows' = rows, status' = status PROVE ClicksAreDecisions'
  BY <1>1, <1>4, SameAdmits
<1>5. ASSUME NEW w \in Workers, Claim(w) \/ Run(w) \/ Crash(w) PROVE ClicksAreDecisions'
  BY <1>2, <1>4, <1>5, WorkersKeepFacts DEF facts
<1>6. ASSUME NEW n \in Slots, Expire(n) PROVE ClicksAreDecisions'
  BY <1>4, <1>6 DEF Expire, facts
<1>7. CASE UNCHANGED vars
  BY <1>4, <1>7 DEF vars, ledgerVars, facts
<1> QED BY <1>3, <1>5, <1>6, <1>7 DEF Next

\* Nothing that is accepted once a report is complete changes what it counts: deliveries and
\* entries are too old by then, and a payment that is not reaches no click of its window.
THEOREM CompleteReportsStay == Spec => CompleteReportsAreFinal
<1>1. Inv /\ FactsInv /\ ClicksAreDecisions /\ [Next]_vars => ClicksAreDecisions'
  BY ClicksStep
<1>2. Inv /\ FactsInv /\ FactsInv' /\ ClicksAreDecisions /\ [Next]_vars =>
        [\A a, b \in Days : a < b /\ Complete(a, b) => Totals(a, b)' = Totals(a, b)]_vars
  BY ReportStep DEF Complete, Inv
<1>3. Spec => [](FactsInv /\ TasksFollow)
  BY FactsStep, FactsInit, MarketingInvariant, PTL DEF Spec
<1>4. Spec => []ClicksAreDecisions
  BY <1>1, <1>3, ClicksInit, MarketingInvariant, PTL DEF Spec
<1> QED BY <1>2, <1>3, <1>4, MarketingInvariant, PTL DEF Spec, CompleteReportsAreFinal
=============================================================================
