------------------------------ MODULE RecallLog ------------------------------
(***************************************************************************)
(* The ads and the log of their changes (models/ads.model.ts,              *)
(* services/recall/repository.ts). A change of an ad and the event that    *)
(* announces it are one transaction, under the lock of the shard of the    *)
(* ad. An ad carries what the index needs of it: a revision, and           *)
(* attributes, or Gone once it is deleted.                                 *)
(*                                                                         *)
(* A click is the one change that does not run under READ COMMITTED: what  *)
(* it reads without a lock is what it saw before it had the lock of the    *)
(* shard.                                                                  *)
(***************************************************************************)
EXTENDS Integers, Sequences

CONSTANTS
  Shards, Docs,
  ShardOf,    \* doc_id % 32 in the code
  Attrs, Gone,
  NoClick,
  Capacity,   \* of the outbox of a shard, in events
  MaxSeq      \* bound on the events of a shard

ASSUME LogAssumption ==
  /\ ShardOf \in [Docs -> Shards] /\ Gone \notin Attrs
  /\ NoClick \notin [doc : Docs, attrs : Attrs]
  /\ Capacity \in Nat /\ MaxSeq \in Nat

VARIABLES
  table,    \* ads_business_recall_docs, with the attributes of the ad
  log,      \* of a shard: every event it was given
  pruned,   \* of a shard: how many of them were deleted, the oldest first
  old,      \* of a shard: how many of them are older than a day
  click     \* the click that has read the attributes and has no lock yet

logVars == <<table, log, pruned, old, click>>

Content == Attrs \union {Gone}
Version == [rev : Nat, attrs : Content]
Event == [doc : Docs, rev : Nat, attrs : Content]

LogInit ==
  /\ table = [d \in Docs |-> [rev |-> 0, attrs |-> Gone]]
  /\ log = [s \in Shards |-> <<>>]
  /\ pruned = [s \in Shards |-> 0]
  /\ old = [s \in Shards |-> 0]
  /\ click = NoClick

Committed == [s \in Shards |-> Len(log[s])]
Exists(d) == table[d].attrs # Gone

\* emit: the next revision of the ad, and the event with the attributes that were read.
Emit(d, attrs, read) ==
  LET s == ShardOf[d]
      rev == table[d].rev + 1
  IN /\ Len(log[s]) - pruned[s] < Capacity
     /\ Len(log[s]) < MaxSeq
     /\ table' = [table EXCEPT ![d] = [rev |-> rev, attrs |-> attrs]]
     /\ log' = [log EXCEPT ![s] = Append(@, [doc |-> d, rev |-> rev, attrs |-> read])]
     /\ UNCHANGED <<pruned, old>>

Create(d, attrs) == table[d].rev = 0 /\ Emit(d, attrs, attrs) /\ UNCHANGED click
Update(d, attrs) == Exists(d) /\ Emit(d, attrs, attrs) /\ UNCHANGED click
Remove(d) == Exists(d) /\ Emit(d, Gone, Gone) /\ UNCHANGED click

\* incrementClicks: the first read of the transaction fixes what it sees of the
\* attributes; the row of the ad and the log it reads with locks.
BeginClick(d) ==
  /\ click = NoClick /\ Exists(d)
  /\ click' = [doc |-> d, attrs |-> table[d].attrs]
  /\ UNCHANGED <<table, log, pruned, old>>

EndClick ==
  /\ click # NoClick /\ Exists(click.doc)
  /\ Emit(click.doc, table[click.doc].attrs, click.attrs)
  /\ click' = NoClick

\* It is rolled back: the ad was deleted, the outbox is full, or the database failed.
DropClick == click # NoClick /\ click' = NoClick /\ UNCHANGED <<table, log, pruned, old>>

Change == \/ \E d \in Docs, a \in Attrs : Create(d, a) \/ Update(d, a)
          \/ \E d \in Docs : Remove(d) \/ BeginClick(d)
          \/ EndClick
          \/ DropClick

-----------------------------------------------------------------------------
(* What the log owes to its readers *)

\* docs, a revision per ad, is what the first seq[s] events of each shard announce.
AsOf(docs, seq) == \A d \in Docs :
  /\ \A n \in 1..seq[ShardOf[d]] : log[ShardOf[d]][n].doc = d => log[ShardOf[d]][n].rev <= docs[d]
  /\ docs[d] = 0 \/ \E n \in 1..seq[ShardOf[d]] : log[ShardOf[d]][n].doc = d /\ log[ShardOf[d]][n].rev = docs[d]

Revisions == [d \in Docs |-> table[d].rev]

\* The whole log announces the table, and deletions stay within what is a day old.
LogIsTheTable == /\ AsOf(Revisions, Committed)
                 /\ \A s \in Shards : pruned[s] <= old[s] /\ old[s] <= Len(log[s])

\* What the design says of an event: its payload is a snapshot of the document, so the
\* latest event of an ad carries the attributes of the ad (repository.ts:160).
EventsAreSnapshots == \A d \in Docs : \A n \in 1..Len(log[ShardOf[d]]) :
  LET e == log[ShardOf[d]][n] IN e.doc = d /\ e.rev = table[d].rev => e.attrs = table[d].attrs
=============================================================================
