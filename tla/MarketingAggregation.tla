------------------------- MODULE MarketingAggregation -------------------------
(***************************************************************************)
(* How the accepted facts become published attributions and daily metrics: *)
(* the workers of marketing/aggregation/*.py, and the status of the        *)
(* reports that read them.                                                 *)
(*                                                                         *)
(* A worker claims tasks, reads a consistent snapshot of every fact of the *)
(* brand, computes, and publishes in one transaction that is fenced by the *)
(* input clock, the generation and the leases. The three are steps, and    *)
(* requests, other workers and time pass between them.                     *)
(***************************************************************************)
EXTENDS MarketingLedger

CONSTANTS
  Workers,
  ClickDays,    \* 7 in the code: how long a click counts for a payment
  AutoDays,     \* 29 in the code: how far back days are revised without a rebuild
  BatchLimit,   \* 25 in the code
  MaxAttempts,  \* 5 in the code
  Deadline,     \* 1 in the code: the days after which a task is given up
  NoOrder, NoPartition, NoSnapshot

\* What click_orders links an order to.
OrderLink == [click : Ids, clickDay : Days, paidDay : Days, creative : Creatives, net : Int, refunded : Int]

ASSUME AggregationAssumption ==
  /\ NoOrder \notin OrderLink
  /\ ClickDays \in Nat /\ AutoDays \in Nat /\ BatchLimit \in Nat \ {0} /\ MaxAttempts \in Nat \ {0} /\ Deadline \in Nat

VARIABLES
  generation, inputEpoch,   \* the publication, and the tick of the inputs it was made from
  attributed,   \* of an order: its latest attribution
  clickOrders,  \* of an order: the row that links it to its click
  heads,        \* of a partition, which is a creative and a day: its latest metrics
  deferred,     \* the partitions that are marked as pending
  worker        \* the batch and the snapshot of a worker process

published == <<generation, inputEpoch, attributed, clickOrders, heads, deferred>>
vars == <<ledgerVars, published, worker>>

Partitions == Creatives \X Days

-----------------------------------------------------------------------------
(* attribute: last click *)

\* The clicks a payment of the visitor session may owe itself to, and the latest of them.
Candidates(p) == {c \in Valid({"click"}) :
  rows[p].session /\ rows[c].day \in (rows[p].day - ClickDays)..rows[p].day}
LastClick(p) == CHOOSE c \in Candidates(p) : \A d \in Candidates(p) : d = c \/ Before(d, c)

\* evidence is part of the record: the payment and the refunds that count.
Known(o) == {e \in About(Conversion, o) : status[e] # "quarantined"}
Unknown == [status |-> "none", click |-> NoId, paid |-> NoId, refunds |-> {}, net |-> 0]
Attribution == [o \in Orders |->
  LET paid == ValidAbout({"order_paid"}, o)
      p == CHOOSE e \in paid : TRUE
      refunds == ValidAbout({"order_refunded"}, o)
      found == Candidates(p) # {}
  IN  IF Known(o) = {} THEN Unknown
      ELSE IF paid = {} THEN [Unknown EXCEPT !.status = "pending"]
      ELSE [status |-> IF found THEN "attributed" ELSE "unattributed",
            click |-> IF found THEN LastClick(p) ELSE NoId,
            paid |-> p, refunds |-> refunds, net |-> rows[p].amount - Total(refunds)]]

\* The link of an order, when it has a click.
Link(a) ==
  IF a.status # "attributed" THEN NoOrder
  ELSE [click |-> a.click, clickDay |-> rows[a.click].day, paidDay |-> rows[a.paid].day,
        creative |-> CreativeOf[a.click], net |-> a.net, refunded |-> Total(a.refunds)]
Links == [o \in Orders |-> Link(Attribution[o])]

-----------------------------------------------------------------------------
(* aggregate: the metrics of every creative and day that some fact touches *)

CreativeFor(e) ==
  IF rows[e].type \in Delivery THEN CreativeOf[rows[e].about]
  ELSE IF rows[e].type = "spend" THEN rows[e].about ELSE rows[rows[e].about].about
In(types, k) == {e \in Valid(types) : CreativeFor(e) = k[1] /\ rows[e].day = k[2]}
OrdersIn(links, k) == {o \in Orders : links[o] # NoOrder /\ links[o].creative = k[1] /\ links[o].paidDay = k[2]}
Metrics(links, k) ==
  LET sold == OrdersIn(links, k) IN
  [impressions |-> Cardinality(In({"impression"}, k)), clicks |-> Cardinality(In({"click"}, k)),
   paid |-> Cardinality(sold), refunded |-> Cardinality({o \in sold : links[o].refunded > 0}),
   revenue |-> SumFunction([o \in sold |-> links[o].net]), spend |-> Total(In(Spending, k))]
Aggregates == [k \in Partitions |->
  IF In(Delivery \union Spending, k) = {} /\ OrdersIn(Links, k) = {} THEN NoPartition ELSE Metrics(Links, k)]
Zero == [impressions |-> 0, clicks |-> 0, paid |-> 0, refunded |-> 0, revenue |-> 0, spend |-> 0]

-----------------------------------------------------------------------------
(* claim, snapshot, publish and fail *)

Overdue(t) == today - t.born > Deadline
Claimable(t) == t.status = "pending" \/ (t.status = "running" /\ ~t.live)
Spent(t) == Claimable(t) /\ (t.attempt >= MaxAttempts \/ Overdue(t))
Idle == [phase |-> "idle", batch |-> {}, snap |-> NoSnapshot]

\* The jobs of the rebuild tasks among tasks.
JobsOf(tasks) == {outbox[n].of : n \in {m \in tasks : outbox[m].kind = "rebuild"}}
SettleJobs(tasks, s) == jobs' = [j \in Rebuilds |-> IF j \in JobsOf(tasks) THEN s ELSE jobs[j]]

\* The first tasks that spent their attempts or their time fail. Of the rest, those that
\* back off after a failure may not be due; the first ones that are due are taken.
BackingOff == {n \in Slots : outbox[n].status = "pending" /\ outbox[n].attempt > 0}
First(tasks) == {n \in tasks : Cardinality({m \in tasks : m < n}) < BatchLimit}
Claim(w) ==
  \E waiting \in SUBSET BackingOff :
    LET spent == First({n \in Slots : Spent(outbox[n])})
        taken == First({n \in Slots \ waiting : Claimable(outbox[n]) /\ ~Spent(outbox[n])})
    IN
    /\ worker[w].phase = "idle" /\ spent \union taken # {}
    /\ outbox' = [n \in Slots |->
         IF n \in spent THEN [outbox[n] EXCEPT !.status = "failed", !.live = FALSE]
         ELSE IF n \in taken THEN [outbox[n] EXCEPT !.status = "running", !.attempt = @ + 1, !.live = TRUE]
         ELSE outbox[n]]
    /\ SettleJobs(spent, "failed")
    /\ worker' = [worker EXCEPT ![w] =
         IF taken = {} THEN Idle
         ELSE [phase |-> "claimed", batch |-> {<<n, outbox[n].attempt + 1>> : n \in taken}, snap |-> NoSnapshot]]
    /\ UNCHANGED <<today, facts, epoch, published>>

Facts == [epoch |-> epoch, generation |-> generation, cutoff |-> today, orders |-> Attribution, links |-> Links,
          partitions |-> Aggregates, attributed |-> attributed, heads |-> heads]
Snapshot(w) ==
  /\ worker[w].phase = "claimed"
  /\ worker' = [worker EXCEPT ![w] = [phase |-> "computed", batch |-> worker[w].batch, snap |-> Facts]]
  /\ UNCHANGED <<ledgerVars, published>>

\* lease_epoch and attempt are only ever incremented together, so attempt stands for both.
Held(w) == {n \in Slots : \E b \in worker[w].batch :
              b[1] = n /\ outbox[n].status = "running" /\ outbox[n].attempt = b[2] /\ outbox[n].live}
Batch(w) == {b[1] : b \in worker[w].batch}

\* Faulty: the input clock is not compared.
UnfencedByInputs(w) ==
  /\ generation = worker[w].snap.generation
  /\ Held(w) = Batch(w) /\ \A n \in Batch(w) : ~Overdue(outbox[n])

\* Faulty: the generation is not compared.
UnfencedByGeneration(w) ==
  /\ epoch = worker[w].snap.epoch
  /\ Held(w) = Batch(w) /\ \A n \in Batch(w) : ~Overdue(outbox[n])

\* The fences of publish: the inputs, the publication and the leases are as they were.
Unfenced(w) ==
  /\ epoch = worker[w].snap.epoch
  /\ generation = worker[w].snap.generation
  /\ Held(w) = Batch(w) /\ \A n \in Batch(w) : ~Overdue(outbox[n])

NoAttribution == [rev |-> 0, value |-> Unknown]
NoHead == [rev |-> 0, value |-> NoPartition, epoch |-> 0]

\* Faulty: only the amount is compared.
AttributedAmount(old, new) ==
  IF new # Unknown /\ (old.value = Unknown \/ new.net # old.value.net) THEN [rev |-> old.rev + 1, value |-> new] ELSE old

\* An attribution gets a revision when it changes.
Attributed(old, new) == IF new # Unknown /\ new # old.value THEN [rev |-> old.rev + 1, value |-> new] ELSE old

Forced(w, d) == \E n \in Batch(w) : outbox[n].kind = "rebuild" /\ Within(d, RangeOf[outbox[n].of])
Recent(d, cutoff) == cutoff - AutoDays <= d /\ d <= cutoff

\* Faulty: no zero replacements.
KeysComputed(s) == {k \in Partitions : s.partitions[k] # NoPartition}

\* What becomes of a partition: it is kept, deferred, or written.
Keys(s) == {k \in Partitions : s.partitions[k] # NoPartition \/ s.heads[k] # NoHead}
Value(s, k) == IF s.partitions[k] = NoPartition THEN Zero ELSE s.partitions[k]
Same(s, k) == s.heads[k] # NoHead /\ s.heads[k].value = Value(s, k)
Kept(w, k) == Same(worker[w].snap, k) /\ ~Forced(w, k[2])
Deferred(w, k) == ~Same(worker[w].snap, k) /\ ~Forced(w, k[2]) /\ ~Recent(k[2], worker[w].snap.cutoff)
Written(w) == {k \in Keys(worker[w].snap) : ~Kept(w, k) /\ ~Deferred(w, k)}

\* When the acknowledgement of the commit is lost the worker fails tasks that are done,
\* which changes nothing.
Publish(w) ==
  LET s == worker[w].snap IN
  /\ worker[w].phase = "computed" /\ Unfenced(w)
  /\ attributed' = [o \in Orders |-> Attributed(s.attributed[o], s.orders[o])]
  /\ clickOrders' = s.links
  /\ heads' = [k \in Partitions |->
       IF k \in Written(w) THEN [rev |-> s.heads[k].rev + 1, value |-> Value(s, k), epoch |-> s.epoch] ELSE heads[k]]
  /\ deferred' = {k \in Partitions : IF k \in Keys(s) THEN Deferred(w, k) ELSE k \in deferred}
  /\ generation' = generation + 1 /\ inputEpoch' = s.epoch
  /\ outbox' = [n \in Slots |-> IF n \in Batch(w) THEN [outbox[n] EXCEPT !.status = "done", !.live = FALSE] ELSE outbox[n]]
  /\ SettleJobs(Batch(w), "done")
  /\ worker' = [worker EXCEPT ![w] = Idle]
  /\ UNCHANGED <<today, facts, epoch>>

\* Faulty: a task is acknowledged whatever becomes of it.
FailAcknowledges(w, permanent) ==
  /\ worker[w].phase # "idle"
  /\ outbox' = [n \in Slots |-> IF n \in Held(w)
       THEN [outbox[n] EXCEPT !.status = IF permanent THEN "failed" ELSE "done", !.live = FALSE] ELSE outbox[n]]
  /\ SettleJobs(IF permanent THEN Held(w) ELSE {}, "failed")
  /\ worker' = [worker EXCEPT ![w] = Idle]
  /\ UNCHANGED <<today, facts, epoch, published>>

\* Any error of the two transactions, a fence among them: the tasks that are still held are
\* tried again, or fail when the error is permanent or their attempts or time are spent.
Fail(w, permanent) ==
  LET lost == {n \in Held(w) : permanent \/ outbox[n].attempt >= MaxAttempts \/ today - outbox[n].born >= Deadline} IN
  /\ worker[w].phase # "idle"
  /\ outbox' = [n \in Slots |-> IF n \in Held(w)
       THEN [outbox[n] EXCEPT !.status = IF n \in lost THEN "failed" ELSE "pending", !.live = FALSE] ELSE outbox[n]]
  /\ SettleJobs(lost, "failed")
  /\ worker' = [worker EXCEPT ![w] = Idle]
  /\ UNCHANGED <<today, facts, epoch, published>>

Crash(w) ==
  /\ worker[w].phase # "idle"
  /\ worker' = [worker EXCEPT ![w] = Idle]
  /\ UNCHANGED <<ledgerVars, published>>

Expire(n) ==
  /\ outbox[n].status = "running" /\ outbox[n].live
  /\ outbox' = [outbox EXCEPT ![n].live = FALSE]
  /\ UNCHANGED <<today, facts, jobs, epoch, published, worker>>

Init ==
  /\ LedgerInit
  /\ generation = 0 /\ inputEpoch = 0
  /\ attributed = [o \in Orders |-> NoAttribution] /\ clickOrders = [o \in Orders |-> NoOrder]
  /\ heads = [k \in Partitions |-> NoHead] /\ deferred = {}
  /\ worker = [w \in Workers |-> Idle]

Run(w) == Snapshot(w) \/ Publish(w) \/ \E permanent \in BOOLEAN : Fail(w, permanent)
Next ==
  \/ (Ingest \/ Tick) /\ UNCHANGED <<published, worker>>
  \/ \E w \in Workers : Claim(w) \/ Run(w) \/ Crash(w)
  \/ \E n \in Slots : Expire(n)

Spec == Init /\ [][Next]_vars

-----------------------------------------------------------------------------
(* createReport: what a report of the days from a, and before b, says *)

Current == inputEpoch = epoch
\* intervalCovered: no marker that failed overlaps, and complete ones join.
Covered(a, b) ==
  /\ \A i \in Intervals : coverage[i].status \in {"incomplete", "invalidated"} => i[2] <= a \/ b <= i[1]
  /\ \A d \in a..(b - 1) : \E i \in Intervals : coverage[i].status = "complete" /\ Within(d, i)
Closed(b) == today >= b + ClickDays + LateDays
Complete(a, b) == Current /\ Closed(b) /\ Covered(a, b)
\* The totals, revenue and refunds apart, as the accepted facts give them.
InWindow(types, a, b) == {e \in Valid(types) : Within(rows[e].day, <<a, b>>)}
Totals(a, b) ==
  [delivered |-> InWindow(Delivery, a, b), spend |-> Total(InWindow(Spending, a, b)),
   paid |-> {o \in Orders : Links[o] # NoOrder /\ Within(Links[o].paidDay, <<a, b>>)},
   cohort |-> {o \in Orders : Links[o] # NoOrder /\ Within(Links[o].clickDay, <<a, b>>)}]

-----------------------------------------------------------------------------
(* Properties *)

\* Every variable has its type (the tables of migrations 010 to 012).
MarketingTyped ==
  /\ today \in Days /\ epoch \in 0..MaxEpoch
  /\ receipts \in [Ids -> Request \union Marker \union {NoRequest}] /\ rows \in [Ids -> Request \union {NoRequest}]
  /\ answers \in [Ids -> Ids \union {NoId}]
  /\ status \in [Ids -> {"none", "valid", "pending", "quarantined"}] /\ revision \in [Ids -> 0..2]
  /\ paidBy \in [Orders -> Ids \union {NoId}]
  /\ coverage \in [Intervals -> [rev : Nat, status : {"none", "complete", "incomplete", "invalidated"}, claim : SUBSET Ids]]
  /\ jobs \in [Rebuilds -> {"none", "pending", "done", "failed"}]
  /\ outbox \in [Slots -> Task]
  /\ \A n \in Slots : outbox[n].attempt <= MaxAttempts /\ (outbox[n].live => outbox[n].status = "running")
  /\ generation \in Nat /\ inputEpoch \in 0..epoch /\ deferred \subseteq Partitions
  /\ \A o \in Orders : attributed[o].rev \in Nat
  /\ \A k \in Partitions : heads[k].rev \in Nat
  /\ \A w \in Workers : worker[w].phase \in {"idle", "claimed", "computed"}

\* What makes attribute and aggregate refuse a brand for good never happens: an order has one
\* valid payment, its refunds fit in it, and no day has a negative spend (attribution.py:56-69).
FactsAreAttributable ==
  /\ \A o \in Orders :
       /\ Cardinality(ValidAbout({"order_paid"}, o)) <= 1
       /\ refunded[o] = Total(ValidAbout({"order_refunded"}, o))
       /\ refunded[o] <= Total(ValidAbout({"order_paid"}, o))
       /\ paidBy[o] # NoId => ValidAbout({"order_paid"}, o) = {paidBy[o]} /\ Waiting(o) = {}
  /\ \A k \in Partitions : Total(In(Spending, k)) >= 0

\* A response names an event that counts once, however often and under however many ids the
\* delivery or the payment was sent: one valid impression and one click of a decision.
AnswersNameOneEvent ==
  /\ \A i \in Impressions, t \in Delivery : Cardinality(ValidAbout({t}, i)) <= 1
  /\ \A i \in Ids : answers[i] # NoId => receipts[answers[i]] # NoRequest /\
       (answers[i] # i => /\ status[answers[i]] = "valid" /\ status[i] = "none"
                          /\ receipts[answers[i]].about = receipts[i].about)

\* A marker counts as complete only while the ledger holds exactly what its checksum was
\* computed from (spend.service.ts).
CoverageIsExact == \A i \in Intervals :
  coverage[i].status = "complete" => Booked(i) = coverage[i].claim /\ Isolated(i) = {}

\* Tasks that are not done never exceed the limit, the failed ones included.
BacklogIsBounded == Cardinality(Backlog) <= BacklogLimit

\* A task that the worker claims names a fact of the snapshot with a validation at least as
\* new, so the mismatch errors of run_once cannot happen (worker.py:44-51).
TasksNameFacts == \A n \in Slots :
  /\ n <= epoch <=> outbox[n].status # "none"
  /\ outbox[n].kind \in {"event", "spend"} => status[outbox[n].of] # "none" /\ revision[outbox[n].of] >= outbox[n].rev

\* What the aggregation is computed from is sound, and its backlog is bounded.
LedgerIsSound == FactsAreAttributable /\ AnswersNameOneEvent /\ TasksNameFacts /\ BacklogIsBounded

\* A task is done only when a publication contains the input it stands for.
DoneMeansPublished == \A n \in Slots : outbox[n].status = "done" => n <= inputEpoch

\* When the publication is current, what a report reads is what all accepted facts give.
PublishedIsRecomputed ==
  Current => clickOrders = Links /\ \A o \in Orders : attributed[o].value = Attribution[o]

\* When the publication is current, the metrics of a day are right, or the day is marked as
\* pending; a creative that lost its last fact has zeros.
HeadsOrMarks == Current => \A k \in Partitions :
  \/ k \in deferred
  \/ heads[k].value = Aggregates[k]
  \/ Aggregates[k] = NoPartition /\ heads[k].value = Zero

\* A publication that is current is right: no input is missing, no value is stale, but for
\* the days that are marked (worker.py, aggregation.py).
PublishedIsRight == DoneMeansPublished /\ PublishedIsRecomputed /\ HeadsOrMarks

\* A result never overwrites a newer one: a publication is made from inputs that are current
\* when it commits, and a revision follows the one it replaces.
PublicationAdvances == [][
  /\ generation' # generation => generation' = generation + 1 /\ inputEpoch' = epoch
  /\ \A o \in Orders : attributed'[o] # attributed[o] => attributed'[o].rev = attributed[o].rev + 1
  /\ \A k \in Partitions : heads'[k] # heads[k] => heads'[k].rev = heads[k].rev + 1]_vars

\* A rebuild that is done rewrote every partition of its range from the facts and left none
\* of them marked (docs/marketing-aggregation.md:59).
RebuildsAreThorough == [][\A j \in Rebuilds : jobs[j] = "pending" /\ jobs'[j] = "done" =>
  \A k \in Partitions : Within(k[2], RangeOf[j]) /\ Aggregates[k] # NoPartition =>
    k \notin deferred' /\ heads'[k].value = Aggregates[k] /\ heads'[k].rev = heads[k].rev + 1]_vars

\* Publications and rebuilds only go forward.
PublicationsGoForward == PublicationAdvances /\ RebuildsAreThorough

\* What a complete report counts does not change any more: no order, click, impression or
\* cost that is accepted later enters or leaves its window (report.service.ts:96-98).
CompleteReportsAreFinal == [][\A a, b \in Days :
  a < b /\ Complete(a, b) => Totals(a, b)' = Totals(a, b)]_vars
=============================================================================
