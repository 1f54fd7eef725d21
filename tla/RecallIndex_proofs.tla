-------------------------- MODULE RecallIndex_proofs --------------------------
(***************************************************************************)
(* Proofs about RecallIndex: engines and manifests hold what the log       *)
(* announces up to their position, and pruning never takes an event that   *)
(* a manifest still needs. In the second half: who holds the lease of a    *)
(* consumer knows its manifest, and an answer covers the receipts that its *)
(* engine had covered.                                                     *)
(***************************************************************************)
EXTENDS RecallIndex, TLAPS

Manifests == Manifest \union {NoManifest}
Memory == [phase : {"down", "leased", "restoring", "baselined", "syncing", "up"}, epoch : Nat, valid : BOOLEAN, unsure : BOOLEAN,
           manifest : Manifests, live : Engine, stray : BOOLEAN,
           task : {"none", "delta", "written", "shadow", "saved"}, ref : Manifests, shadow : Engine]
Row == [epoch : Nat, leased : BOOLEAN, manifest : Manifests]

RecallTyped ==
  /\ table \in [Docs -> Version]
  /\ log \in [Shards -> Seq(Event)]
  /\ \A s \in Shards : \A n \in 1..Len(log[s]) : ShardOf[log[s][n].doc] = s
  /\ pruned \in Seqs /\ old \in Seqs
  /\ click # NoClick => click \in [doc : Docs, attrs : Content]
  /\ consumer \in [Consumers -> Row]
  /\ proc \in [Processes -> Memory]
  /\ prune \in SUBSET Seqs

\* What is on its way to a worker is in the log.
Sent(e) == \A s \in Shards : e.mail[s] = Quiet
  \/ (1 <= e.mail[s].next /\ e.mail[s].next <= e.mail[s].last /\ e.mail[s].last <= Len(log[s]))
SoundEngine(e) == Faithful(e) /\ Covers(e.seq, e.pos) /\ Sent(e)
\* An engine that neither polls nor failed knows what its workers hold.
Settled(e) == ~e.polling /\ ~e.fatal => e.pos = e.seq /\ Delivered(e)
SoundManifest(m) == FaithfulManifest(m) /\ m.depth <= MaxDepth
Sound(m) == m # NoManifest => SoundManifest(m)

\* A manifest that is about to be registered, by an engine that is at least as far.
Pending(m, e) == /\ m.ref # NoManifest
                 /\ Covers(e.pos, m.ref.seq) /\ Covers(m.ref.seq, old)

SoundMemory(m) ==
  /\ SoundEngine(m.live) /\ SoundEngine(m.shadow) /\ Sound(m.manifest) /\ Sound(m.ref)
  /\ m.task # "none" => m.phase = "up"
  /\ m.phase # "down" => m.epoch > 0
  /\ m.phase \in {"baselined", "syncing", "up"} => Settled(m.live)
  /\ m.phase = "restoring" => /\ m.manifest # NoManifest /\ ~m.live.polling
                              /\ \A s \in Shards : IF m.live.mail[s] = Quiet THEN m.manifest.seq[s] <= m.live.seq[s]
                                                   ELSE m.live.mail[s].last = m.manifest.seq[s]
  /\ m.phase = "baselined" => Pending(m, m.live)
  /\ m.phase \in {"syncing", "up"} => m.manifest # NoManifest /\ Covers(m.live.pos, m.manifest.seq)
  /\ m.phase = "up" /\ m.live.fresh => Covers(m.live.pos, old)
  /\ m.phase # "up" => ~m.live.fresh
  /\ m.task \in {"delta", "written"} => Pending(m, m.live)
  /\ m.task \in {"shadow", "saved"} => Settled(m.shadow) /\ ~m.shadow.fatal /\ (m.shadow.fresh => ~m.shadow.polling)
  /\ m.task \in {"shadow", "saved"} /\ m.shadow.fresh => Covers(m.shadow.pos, old)
  /\ m.task = "shadow" => Covers(m.shadow.seq, old)
  /\ m.task = "saved" => Pending(m, m.shadow)

\* What the pruning script may still delete, a manifest does not need.
Spared(m) == m # NoManifest =>
  /\ Covers(m.seq, pruned)
  /\ prune # {} => \A s \in Shards, n \in Nat : n <= old[s] /\ (\A mark \in prune : n <= mark[s]) => n <= m.seq[s]

RecallInv ==
  /\ RecallTyped
  /\ LogIsTheTable
  /\ \A p \in Processes : SoundMemory(proc[p])
  /\ \A c \in Consumers :
       /\ Sound(consumer[c].manifest) /\ Spared(consumer[c].manifest)
       /\ consumer[c].manifest # NoManifest => consumer[c].epoch > 0

-----------------------------------------------------------------------------
(* Images and manifests *)

\* What is committed of a shard is the length of its log.
LEMMA CommittedType ==
  ASSUME RecallTyped
  PROVE  Committed \in Seqs /\ \A s \in Shards : Committed[s] = Len(log[s])
BY DEF RecallTyped, Committed, Seqs

\* What covers a state covers what that state covers.
LEMMA CoversTransitive ==
  ASSUME NEW a \in Seqs, NEW b \in Seqs, NEW c \in Seqs, Covers(a, b), Covers(b, c)
  PROVE  Covers(a, c)
<1> SUFFICES ASSUME NEW s \in Shards PROVE c[s] <= a[s]
  BY DEF Covers
<1>1. a[s] \in Nat /\ b[s] \in Nat /\ c[s] \in Nat
  BY DEF Seqs
<1>2. c[s] <= b[s] /\ b[s] <= a[s]
  BY DEF Covers
<1>. QED BY <1>1, <1>2

\* An event of a shard is about a document of that shard.
LEMMA EventType ==
  ASSUME RecallTyped, NEW s \in Shards, NEW n \in 1..Len(log[s])
  PROVE  log[s][n] \in Event /\ ShardOf[log[s][n].doc] = s
BY DEF RecallTyped

\* The database itself is a faithful image.
LEMMA BaselineIsFaithful ==
  ASSUME RecallTyped, LogIsTheTable
  PROVE  /\ Baseline \in Image /\ Faithful(Baseline) /\ Covers(Baseline.seq, old)
         /\ Baseline.seq = Committed /\ Baseline.docs = Revisions
<1>1. Revisions \in [Docs -> Nat]
  BY DEF Revisions, RecallTyped, Version
<1>2. Baseline \in Image /\ Baseline.seq = Committed /\ Baseline.docs = Revisions
  BY <1>1, CommittedType DEF Baseline, Image
<1>3. Covers(Committed, Committed) /\ Covers(Committed, old)
  BY CommittedType DEF Covers, Seqs, LogIsTheTable
<1>. QED BY <1>2, <1>3 DEF Faithful, LogIsTheTable

\* The empty image says what no event makes of the documents.
LEMMA EmptyIsFaithful ==
  ASSUME RecallTyped
  PROVE  /\ EmptyImage \in Image /\ Faithful(EmptyImage)
         /\ EmptyImage.seq = [s \in Shards |-> 0] /\ EmptyImage.docs = [d \in Docs |-> 0]
<1>1. EmptyImage \in Image /\ EmptyImage.seq = [s \in Shards |-> 0] /\ EmptyImage.docs = [d \in Docs |-> 0]
  BY DEF EmptyImage, Image, Seqs
<1>2. Covers(Committed, EmptyImage.seq)
  <2> SUFFICES ASSUME NEW s \in Shards PROVE EmptyImage.seq[s] <= Committed[s]
    BY DEF Covers
  <2>1. EmptyImage.seq[s] = 0
    BY <1>1
  <2>2. Committed[s] \in Nat
    BY CommittedType DEF Seqs
  <2>. QED BY <2>1, <2>2
<1>3. AsOf(EmptyImage.docs, EmptyImage.seq)
  BY <1>1, LogAssumption DEF AsOf
<1>. QED BY <1>1, <1>2, <1>3 DEF Faithful

\* An engine that was just loaded.
LEMMA LoadedIsSound ==
  ASSUME RecallTyped, NEW image \in Image, Faithful(image)
  PROVE  LET e == Loaded(image) IN
         /\ e \in Engine /\ SoundEngine(e) /\ Settled(e) /\ Delivered(e)
         /\ e.seq = image.seq /\ e.pos = image.seq /\ e.docs = image.docs
         /\ ~e.polling /\ ~e.fatal /\ ~e.fresh
<1>. DEFINE e == Loaded(image)
<1>1. /\ e.seq = image.seq /\ e.docs = image.docs /\ e.pos = image.seq /\ e.mail = [s \in Shards |-> Quiet]
      /\ ~e.polling /\ ~e.fatal /\ ~e.fresh
  BY DEF Loaded
<1>2. e \in Engine
  BY DEF Loaded, Engine, Image, Message, Quiet
<1>3. Delivered(e)
  BY <1>1 DEF Delivered
<1>4. Covers(image.seq, image.seq)
  BY DEF Covers, Image, Seqs
<1>5. SoundEngine(e)
  BY <1>1, <1>4 DEF SoundEngine, Sent, Faithful
<1>. QED BY <1>1, <1>2, <1>3, <1>5 DEF Settled

\* A full snapshot.
LEMMA FullIsSound ==
  ASSUME RecallTyped, NEW image \in Image, Faithful(image)
  PROVE  Full(image) \in Manifest /\ SoundManifest(Full(image)) /\ Full(image).seq = image.seq
<1>1. /\ Full(image) \in Manifest
      /\ Full(image).base = image /\ Full(image).seq = image.seq /\ Full(image).depth = 0
  BY DEF Full, Manifest, Image
<1>2. Covers(image.seq, image.seq)
  BY DEF Covers, Image, Seqs
<1>. QED BY <1>1, <1>2, IndexAssumption DEF SoundManifest, FaithfulManifest, Faithful

-----------------------------------------------------------------------------
(* What happens to an engine *)

\* An event that is loaded in its turn moves the engine to the next position of the log.
LEMMA PutInTurn ==
  ASSUME RecallTyped, NEW seq \in Seqs, NEW docs \in [Docs -> Nat], Covers(Committed, seq), AsOf(docs, seq),
         NEW s \in Shards, seq[s] + 1 <= Len(log[s])
  PROVE  LET next == [seq EXCEPT ![s] = seq[s] + 1]
             after == Put(docs, log[s][seq[s] + 1])
         IN next \in Seqs /\ after \in [Docs -> Nat] /\ Covers(Committed, next) /\ AsOf(after, next)
<1>. DEFINE n == seq[s] + 1
            event == log[s][n]
            next == [seq EXCEPT ![s] = n]
            after == Put(docs, event)
<1>1. n \in 1..Len(log[s]) /\ n \in Nat /\ seq[s] \in Nat
  BY DEF RecallTyped, Seqs
<1>2. event.doc \in Docs /\ event.rev \in Nat /\ ShardOf[event.doc] = s
  BY <1>1, EventType DEF Event
<1>3. next \in Seqs /\ next[s] = n /\ \A t \in Shards : t # s => next[t] = seq[t]
  BY <1>1 DEF Seqs
<1>4. /\ after \in [Docs -> Nat]
      /\ \A d \in Docs : d # event.doc => after[d] = docs[d]
      /\ after[event.doc] = IF event.rev <= docs[event.doc] THEN docs[event.doc] ELSE event.rev
  BY <1>2 DEF Put
<1>. HIDE DEF next, after
<1>5. Covers(Committed, next)
  BY <1>1, <1>3, CommittedType DEF Covers
<1>6. ASSUME NEW d \in Docs, NEW i \in 1..next[ShardOf[d]], log[ShardOf[d]][i].doc = d
      PROVE  log[ShardOf[d]][i].rev <= after[d]
  <2>1. ShardOf[d] \in Shards /\ next[ShardOf[d]] \in Nat /\ seq[ShardOf[d]] \in Nat
    BY <1>3, LogAssumption DEF Seqs
  <2>2. CASE i \in 1..seq[ShardOf[d]]
    <3>1. log[ShardOf[d]][i].rev <= docs[d]
      BY <1>6, <2>2 DEF AsOf
    <3>2. i \in 1..Len(log[ShardOf[d]])
      BY <2>1, <2>2, CommittedType DEF Covers
    <3>3. log[ShardOf[d]][i].rev \in Nat
      BY <2>1, <3>2, EventType DEF Event
    <3>4. docs[d] \in Nat /\ after[d] \in Nat
      BY <1>4
    <3>5. docs[d] <= after[d]
      BY <1>2, <1>4, <3>4
    <3>. QED BY <3>1, <3>3, <3>4, <3>5
  <2>3. CASE i \notin 1..seq[ShardOf[d]]
    <3>1. ShardOf[d] = s /\ i = n
      BY <1>1, <1>3, <2>1, <2>3
    <3>2. event.doc = d
      BY <1>6, <3>1
    <3>. QED BY <1>2, <1>4, <3>1, <3>2
  <2>. QED BY <2>2, <2>3
<1>7. ASSUME NEW d \in Docs
      PROVE  after[d] = 0 \/ \E i \in 1..next[ShardOf[d]] : log[ShardOf[d]][i].doc = d /\ log[ShardOf[d]][i].rev = after[d]
  <2>1. ShardOf[d] \in Shards /\ next[ShardOf[d]] \in Nat /\ seq[ShardOf[d]] \in Nat
    BY <1>3, LogAssumption DEF Seqs
  <2>2. \A i \in 1..seq[ShardOf[d]] : i \in 1..next[ShardOf[d]]
    BY <1>1, <1>3, <2>1
  <2>3. docs[d] = 0 \/ \E i \in 1..seq[ShardOf[d]] : log[ShardOf[d]][i].doc = d /\ log[ShardOf[d]][i].rev = docs[d]
    BY DEF AsOf
  <2>4. CASE after[d] = docs[d]
    BY <2>2, <2>3, <2>4
  <2>5. CASE after[d] # docs[d]
    <3>1. d = event.doc /\ after[d] = event.rev
      BY <1>4, <2>5
    <3>2. n \in 1..next[ShardOf[d]] /\ log[ShardOf[d]][n] = event
      BY <1>1, <1>2, <1>3, <3>1
    <3>. QED BY <3>1, <3>2
  <2>. QED BY <2>4, <2>5
<1>. QED BY <1>3, <1>4, <1>5, <1>6, <1>7 DEF AsOf, next, after

\* The fields of an engine, one by one.
LEMMA EngineFields ==
  ASSUME NEW e \in Engine
  PROVE  /\ e.seq \in Seqs /\ e.docs \in [Docs -> Nat] /\ e.pos \in Seqs /\ e.mail \in [Shards -> Message]
         /\ e.polling \in BOOLEAN /\ e.fatal \in BOOLEAN /\ e.fresh \in BOOLEAN
BY DEF Engine

\* Quiet stands for no message.
LEMMA QuietIsAMessage == Quiet \in Message /\ ~(Quiet.next <= Quiet.last)
BY DEF Quiet, Message

\* A page of the log is a message, empty where there is nothing new.
LEMMA PageIsAMessage ==
  ASSUME NEW a \in Nat, NEW b \in Nat
  PROVE  /\ Page(a, b) \in Message
         /\ IF Page(a, b) = Quiet THEN b <= a ELSE Page(a, b).last = b /\ 1 <= Page(a, b).next /\ Page(a, b).next <= b
<1>1. CASE a < b
  <2>. DEFINE n == a + 1
  <2>1. n \in Nat /\ 1 <= n /\ n <= b
    BY <1>1
  <2>2. Page(a, b) = [next |-> n, last |-> b, begun |-> FALSE]
    BY <1>1 DEF Page
  <2>. HIDE DEF n
  <2>3. Page(a, b) \in Message /\ Page(a, b).next = n /\ Page(a, b).last = b
    BY <2>1, <2>2 DEF Message
  <2>4. Page(a, b) # Quiet
    BY <2>1, <2>3, QuietIsAMessage
  <2>. QED BY <2>1, <2>3, <2>4
<1>2. CASE ~(a < b)
  BY <1>2, QuietIsAMessage DEF Page
<1>. QED BY <1>1, <1>2

\* A message of which one event is applied is a message.
LEMMA NextInMessage ==
  ASSUME NEW m \in Message
  PROVE  LET rest == [m EXCEPT !.next = m.next + 1, !.begun = TRUE]
         IN rest \in Message /\ rest.next = m.next + 1 /\ rest.last = m.last
<1>1. m.next \in Nat /\ m.next + 1 \in Nat
  BY DEF Message
<1>. DEFINE n == m.next + 1
<1>. HIDE DEF n
<1>2. LET rest == [m EXCEPT !.next = n, !.begun = TRUE]
      IN rest \in Message /\ rest.next = n /\ rest.last = m.last
  BY <1>1 DEF Message, n
<1>. QED BY <1>2 DEF n

\* An engine that applies the next event is sound and further on.
LEMMA AppliedIsSound ==
  ASSUME RecallTyped, NEW e \in Engine, SoundEngine(e), NEW s \in Shards, InTurn(e, s)
  PROVE  LET f == Applied(e, s) IN
         /\ f \in Engine /\ SoundEngine(f) /\ Covers(f.seq, e.seq) /\ ~Delivered(e)
         /\ f.pos = e.pos /\ f.polling = e.polling /\ f.fatal = e.fatal /\ f.fresh = e.fresh
         /\ \A t \in Shards : t # s => f.seq[t] = e.seq[t] /\ f.mail[t] = e.mail[t]
         /\ IF f.mail[s] = Quiet THEN f.seq[s] = e.mail[s].last ELSE f.mail[s].last = e.mail[s].last
<1>. DEFINE m == e.mail[s]
            f == Applied(e, s)
            n == e.seq[s] + 1
            rest == IF m.next < m.last THEN [m EXCEPT !.next = m.next + 1, !.begun = TRUE] ELSE Quiet
<1>1. m \in Message /\ e.seq[s] \in Nat /\ n \in Nat
  BY EngineFields DEF Seqs
<1>2. m # Quiet /\ m.next = n /\ m.next <= m.last /\ m.last <= Len(log[s]) /\ m.next \in Nat /\ m.last \in Nat
  BY <1>1 DEF InTurn, SoundEngine, Sent, Message
<1>3. rest \in Message /\ (rest # Quiet => rest.next = n + 1 /\ rest.last = m.last /\ n < m.last) /\ (rest = Quiet => n = m.last)
  <2>1. CASE m.next < m.last
    <3>1. rest = [m EXCEPT !.next = m.next + 1, !.begun = TRUE]
      BY <2>1
    <3>. HIDE DEF rest, m, n
    <3>2. rest \in Message /\ rest.next = m.next + 1 /\ rest.last = m.last
      BY <1>1, <3>1, NextInMessage
    <3>3. rest # Quiet
      BY <1>2, <2>1, <3>2, QuietIsAMessage
    <3>. QED BY <1>2, <2>1, <3>2, <3>3
  <2>2. CASE ~(m.next < m.last)
    BY <1>1, <1>2, <2>2, QuietIsAMessage
  <2>. QED BY <2>1, <2>2
<1>. HIDE DEF rest
<1>. DEFINE seq == [e.seq EXCEPT ![s] = n]
            docs == Put(e.docs, log[s][n])
            mail == [e.mail EXCEPT ![s] = rest]
<1>a. seq \in Seqs /\ docs \in [Docs -> Nat] /\ Covers(Committed, seq) /\ AsOf(docs, seq)
  <2>1. n <= Len(log[s])
    BY <1>1, <1>2
  <2>. QED BY <2>1, PutInTurn, EngineFields DEF SoundEngine, Faithful
<1>b. mail \in [Shards -> Message]
  BY <1>3, EngineFields
<1>4. /\ f.seq = seq /\ f.docs = docs /\ f.mail = mail
      /\ f.pos = e.pos /\ f.polling = e.polling /\ f.fatal = e.fatal /\ f.fresh = e.fresh
      /\ f \in Engine
  <2>1. f = [e EXCEPT !.seq = seq, !.docs = docs, !.mail = mail, !.polling = e.polling, !.fatal = e.fatal]
    BY <1>2 DEF Applied, Engine, rest
  <2>. HIDE DEF f, seq, docs, mail
  <2>. QED BY <1>a, <1>b, <2>1, EngineFields DEF Engine
<1>. HIDE DEF f
<1>5. f.seq \in Seqs /\ f.docs \in [Docs -> Nat] /\ Covers(Committed, f.seq) /\ AsOf(f.docs, f.seq)
  BY <1>a, <1>4
<1>6. f.mail \in [Shards -> Message] /\ f.mail[s] = rest /\ \A t \in Shards : t # s => f.mail[t] = e.mail[t]
  BY <1>3, <1>4, EngineFields
<1>7. f.seq[s] = n /\ \A t \in Shards : t # s => f.seq[t] = e.seq[t]
  BY <1>2, <1>4, EngineFields DEF Seqs
<1>8. f \in Engine
  BY <1>4
<1>9. Covers(f.seq, e.seq)
  <2> SUFFICES ASSUME NEW t \in Shards PROVE e.seq[t] <= f.seq[t]
    BY DEF Covers
  <2>1. e.seq[t] \in Nat
    BY EngineFields DEF Seqs
  <2>. QED BY <1>7, <2>1
<1>10. Covers(f.seq, f.pos)
  BY <1>4, <1>5, <1>9, EngineFields, CoversTransitive DEF SoundEngine
<1>11. Sent(f)
  <2> SUFFICES ASSUME NEW t \in Shards, f.mail[t] # Quiet
               PROVE  1 <= f.mail[t].next /\ f.mail[t].next <= f.mail[t].last /\ f.mail[t].last <= Len(log[t])
    BY DEF Sent
  <2>1. CASE t = s
    BY <1>1, <1>2, <1>3, <1>6, <2>1
  <2>2. CASE t # s
    BY <1>6, <2>2 DEF SoundEngine, Sent
  <2>. QED BY <2>1, <2>2
<1>12. ~Delivered(e)
  BY <1>2 DEF Delivered
<1>. QED BY <1>3, <1>4, <1>5, <1>6, <1>7, <1>8, <1>9, <1>10, <1>11, <1>12 DEF SoundEngine, Faithful, f

\* An engine that has applied all of its page is sound, and its position moves on.
LEMMA PolledIsSound ==
  ASSUME RecallTyped, NEW e \in Engine, SoundEngine(e), Delivered(e)
  PROVE  LET f == Polled(e) IN
         /\ f \in Engine /\ SoundEngine(f) /\ Settled(f) /\ Covers(f.pos, e.pos)
         /\ f.seq = e.seq /\ f.pos = e.seq /\ ~f.polling /\ f.fatal = e.fatal /\ (f.fresh => Covers(f.pos, old))
<1>. DEFINE f == Polled(e)
<1>1. /\ f.seq = e.seq /\ f.docs = e.docs /\ f.pos = e.seq /\ f.mail = e.mail
      /\ f.polling = FALSE /\ f.fatal = e.fatal /\ f.fresh = Covers(e.seq, old)
      /\ f \in Engine
  BY DEF Polled, Engine, Covers
<1>. HIDE DEF f
<1>2. Covers(e.seq, e.seq)
  BY EngineFields DEF Covers, Seqs
<1>3. SoundEngine(f)
  BY <1>1, <1>2 DEF SoundEngine, Faithful, Sent
<1>4. Settled(f)
  BY <1>1 DEF Settled, Delivered
<1>. QED BY <1>1, <1>3, <1>4 DEF SoundEngine, f

\* An engine that begins to poll is sound.
LEMMA PollingIsSound ==
  ASSUME RecallTyped, NEW e \in Engine, SoundEngine(e)
  PROVE  LET f == Polling(e) IN
         /\ f \in Engine /\ SoundEngine(f) /\ Settled(f)
         /\ f.seq = e.seq /\ f.pos = e.pos /\ f.polling /\ ~f.fatal /\ f.fresh = e.fresh
<1>. DEFINE f == Polling(e)
<1>. DEFINE mail == [s \in Shards |-> Page(e.pos[s], PageEnd(s, e.pos[s]))]
<1>2. ASSUME NEW s \in Shards
      PROVE  /\ mail[s] \in Message
             /\ mail[s] = Quiet \/ (1 <= mail[s].next /\ mail[s].next <= mail[s].last /\ mail[s].last <= Len(log[s]))
  <2>1. e.pos[s] \in Nat /\ Len(log[s]) \in Nat /\ PageSize \in Nat /\ PageSize > 0
    BY EngineFields, IndexAssumption DEF Seqs, RecallTyped
  <2>2. PageEnd(s, e.pos[s]) \in Nat /\ PageEnd(s, e.pos[s]) <= Len(log[s])
    BY <2>1 DEF PageEnd
  <2>3. mail[s] = Page(e.pos[s], PageEnd(s, e.pos[s]))
    OBVIOUS
  <2>. HIDE DEF mail
  <2>. QED BY <2>1, <2>2, <2>3, QuietIsAMessage DEF Page, Message
<1>1. /\ f.seq = e.seq /\ f.docs = e.docs /\ f.pos = e.pos /\ f.polling = TRUE /\ f.fatal = FALSE /\ f.fresh = e.fresh
      /\ f.mail = mail /\ f \in Engine
  <2>1. mail \in [Shards -> Message]
    BY <1>2
  <2>2. f = [e EXCEPT !.seq = e.seq, !.docs = e.docs, !.mail = mail, !.polling = TRUE, !.fatal = FALSE]
    BY DEF Polling, Engine
  <2>. HIDE DEF mail, f
  <2>. QED BY <2>1, <2>2, EngineFields DEF Engine
<1>. HIDE DEF f, mail
<1>4. SoundEngine(f)
  BY <1>1, <1>2 DEF SoundEngine, Faithful, Sent
<1>. QED BY <1>1, <1>4 DEF Settled, f

\* An engine whose poll failed is sound.
LEMMA FailedIsSound ==
  ASSUME RecallTyped, NEW e \in Engine, SoundEngine(e)
  PROVE  LET f == Failed(e) IN
         /\ f \in Engine /\ SoundEngine(f) /\ Settled(f)
         /\ f.seq = e.seq /\ f.pos = e.pos /\ f.mail = e.mail /\ ~f.polling /\ f.fatal /\ f.fresh = e.fresh
BY DEF Failed, Engine, SoundEngine, Faithful, Sent, Settled

\* An engine that refused an event is sound.
LEMMA RefusedIsSound ==
  ASSUME RecallTyped, NEW e \in Engine, SoundEngine(e), Settled(e), NEW s \in Shards, e.mail[s] # Quiet
  PROVE  LET f == Refused(e, s) IN
         /\ f \in Engine /\ SoundEngine(f) /\ Settled(f)
         /\ f.seq = e.seq /\ f.pos = e.pos /\ f.fresh = e.fresh
<1>. DEFINE f == Refused(e, s)
<1>. DEFINE mail == [e.mail EXCEPT ![s] = Quiet]
            fatal == e.fatal \/ e.polling
<1>1. /\ f.seq = e.seq /\ f.docs = e.docs /\ f.pos = e.pos /\ f.polling = FALSE /\ f.fatal = fatal
      /\ f.fresh = e.fresh /\ f.mail = mail /\ f \in Engine
  <2>1. mail \in [Shards -> Message] /\ fatal \in BOOLEAN
    BY QuietIsAMessage, EngineFields
  <2>2. f = [e EXCEPT !.seq = e.seq, !.docs = e.docs, !.mail = mail, !.polling = FALSE, !.fatal = fatal]
    BY DEF Refused, Engine
  <2>. HIDE DEF mail, f, fatal
  <2>. QED BY <2>1, <2>2, EngineFields DEF Engine
<1>. HIDE DEF f
<1>2. f.mail \in [Shards -> Message] /\ f.mail[s] = Quiet /\ \A t \in Shards : t # s => f.mail[t] = e.mail[t]
  BY <1>1, QuietIsAMessage, EngineFields
<1>4. SoundEngine(f)
  BY <1>1, <1>2 DEF SoundEngine, Faithful, Sent
<1>5. f.fatal
  BY <1>1 DEF Settled, Delivered
<1>. QED BY <1>1, <1>4, <1>5 DEF Settled, f
-----------------------------------------------------------------------------
(* What a process does to its memory *)

\* The fields of what a process has in memory, one by one.
LEMMA MemoryFields ==
  ASSUME NEW m \in Memory
  PROVE  /\ m.phase \in {"down", "leased", "restoring", "baselined", "syncing", "up"} /\ m.epoch \in Nat
         /\ m.valid \in BOOLEAN /\ m.unsure \in BOOLEAN /\ m.manifest \in Manifests /\ m.live \in Engine /\ m.stray \in BOOLEAN
         /\ m.task \in {"none", "delta", "written", "shadow", "saved"} /\ m.ref \in Manifests /\ m.shadow \in Engine
BY DEF Memory

\* The fields of a manifest, one by one.
LEMMA ManifestFields ==
  ASSUME NEW m \in Manifest
  PROVE  m.base \in Image /\ m.base.seq \in Seqs /\ m.base.docs \in [Docs -> Nat] /\ m.seq \in Seqs /\ m.depth \in Nat
BY DEF Manifest, Image

\* A manifest that is there is sound.
LEMMA ManifestIsSound ==
  ASSUME NEW m \in Manifests, Sound(m), m # NoManifest
  PROVE  m \in Manifest /\ SoundManifest(m)
BY DEF Manifests, Sound

\* A new engine is sound.
LEMMA NewEngineIsSound ==
  ASSUME RecallTyped
  PROVE  /\ NewEngine \in Engine /\ SoundEngine(NewEngine) /\ Settled(NewEngine)
         /\ ~NewEngine.polling /\ ~NewEngine.fatal /\ ~NewEngine.fresh
BY EmptyIsFaithful, LoadedIsSound DEF NewEngine

\* A process that is down is sound.
LEMMA OffIsSound ==
  ASSUME RecallTyped
  PROVE  Off \in Memory /\ SoundMemory(Off)
<1>1. /\ Off.phase = "down" /\ Off.epoch = 0 /\ Off.valid = FALSE /\ Off.unsure = FALSE /\ Off.manifest = NoManifest
      /\ Off.live = NewEngine /\ Off.stray = FALSE /\ Off.task = "none" /\ Off.ref = NoManifest /\ Off.shadow = NewEngine
  BY DEF Off
<1>2. Off \in Memory
  BY NewEngineIsSound DEF Off, Memory, Manifests
<1>3. SoundMemory(Off)
  BY <1>1, NewEngineIsSound DEF SoundMemory, Sound
<1>. QED BY <1>2, <1>3

\* The live engine of a process that is up goes on.
LEMMA LiveGoesOn ==
  ASSUME RecallTyped, NEW m \in Memory, SoundMemory(m), m.phase \in {"syncing", "up"},
         NEW f \in Memory, f.phase = m.phase \/ f.phase = "up", f.epoch = m.epoch, f.manifest = m.manifest, f.task = m.task,
         f.ref = m.ref, f.shadow = m.shadow,
         SoundEngine(f.live), Settled(f.live), Covers(f.live.pos, m.live.pos),
         f.phase # "up" => ~f.live.fresh, f.live.fresh => Covers(f.live.pos, old)
  PROVE  SoundMemory(f)
<1>1. m.manifest \in Manifest /\ m.manifest # NoManifest
  BY MemoryFields, ManifestIsSound DEF SoundMemory
<1>2. Covers(f.live.pos, f.manifest.seq)
  <2>1. Covers(m.live.pos, m.manifest.seq)
    BY DEF SoundMemory
  <2>. QED BY <1>1, <2>1, MemoryFields, ManifestFields, EngineFields, CoversTransitive
<1>3. m.task \in {"delta", "written"} => Pending(f, f.live)
  <2> SUFFICES ASSUME m.task \in {"delta", "written"} PROVE Pending(f, f.live)
    OBVIOUS
  <2>1. Pending(m, m.live)
    BY DEF SoundMemory
  <2>2. f.ref \in Manifest /\ Covers(m.live.pos, f.ref.seq)
    BY <2>1, MemoryFields DEF Pending, Manifests
  <2>3. Covers(f.live.pos, f.ref.seq)
    BY <2>2, MemoryFields, ManifestFields, EngineFields, CoversTransitive
  <2>. QED BY <2>1, <2>3 DEF Pending
<1>4. m.task = "saved" => Pending(f, f.shadow)
  BY DEF SoundMemory, Pending
<1>5. f.phase \in {"syncing", "up"} /\ f.phase \notin {"down", "leased", "restoring", "baselined"}
  OBVIOUS
<1>6. m.task # "none" => f.phase = "up"
  BY DEF SoundMemory
<1>. QED BY <1>1, <1>2, <1>3, <1>4, <1>5, <1>6 DEF SoundMemory

-----------------------------------------------------------------------------
(* A step of a process: its memory stays sound, and the row of its consumer  *)
(* keeps its manifest or gets one that pruning has not caught up with.       *)

Quietly == UNCHANGED <<table, log, pruned, old, click, prune>>
RowsMove ==
  /\ consumer' \in [Consumers -> Row]
  /\ \A c \in Consumers :
       \/ consumer'[c].manifest = consumer[c].manifest /\ consumer'[c].epoch >= consumer[c].epoch
       \/ /\ consumer'[c].manifest \in Manifest /\ SoundManifest(consumer'[c].manifest)
          /\ Covers(consumer'[c].manifest.seq, old) /\ consumer'[c].epoch > 0
ProcessMove(p) == Quietly /\ RowsMove /\ \E f \in Memory : SoundMemory(f) /\ Becomes(p, f)

\* What is sound depends on the log and its age only.
LEMMA SameLog ==
  ASSUME UNCHANGED <<log, old>>, NEW m
  PROVE  (SoundMemory(m)' <=> SoundMemory(m)) /\ (Sound(m)' <=> Sound(m)) /\ (SoundManifest(m)' <=> SoundManifest(m))
BY DEF SoundMemory, SoundEngine, Faithful, AsOf, Sent, Settled, Sound, SoundManifest, FaithfulManifest, Pending, Committed, Covers, Delivered

\* Rows that move as they may keep the events they need.
LEMMA RowsMoveSpares ==
  ASSUME RecallInv, Quietly, RowsMove, NEW c \in Consumers
  PROVE  /\ Sound(consumer'[c].manifest) /\ Spared(consumer'[c].manifest)
         /\ consumer'[c].manifest # NoManifest => consumer'[c].epoch > 0
<1>0. pruned \in Seqs /\ old \in Seqs /\ Covers(old, pruned) /\ consumer[c] \in Row /\ consumer'[c] \in Row
  BY DEF RecallInv, RecallTyped, LogIsTheTable, Covers, RowsMove
<1>1. CASE consumer'[c].manifest = consumer[c].manifest /\ consumer'[c].epoch >= consumer[c].epoch
  BY <1>0, <1>1 DEF RecallInv, Row
<1>2. CASE /\ consumer'[c].manifest \in Manifest /\ SoundManifest(consumer'[c].manifest)
           /\ Covers(consumer'[c].manifest.seq, old) /\ consumer'[c].epoch > 0
  <2>. DEFINE m == consumer'[c].manifest
  <2>1. m.seq \in Seqs
    BY <1>2, ManifestFields
  <2>2. Covers(m.seq, pruned)
    BY <1>0, <1>2, <2>1, CoversTransitive
  <2>3. \A s \in Shards, n \in Nat : n <= old[s] => n <= m.seq[s]
    <3> SUFFICES ASSUME NEW s \in Shards, NEW n \in Nat, n <= old[s] PROVE n <= m.seq[s]
      OBVIOUS
    <3>1. old[s] \in Nat /\ m.seq[s] \in Nat /\ old[s] <= m.seq[s]
      BY <1>0, <1>2, <2>1 DEF Covers, Seqs
    <3>. QED BY <3>1
  <2>4. Sound(m) /\ Spared(m)
    BY <1>2, <2>2, <2>3 DEF Sound, Spared
  <2>. QED BY <1>2, <2>4
<1>. QED BY <1>1, <1>2 DEF RowsMove

\* A move of a process keeps the invariant.
LEMMA ProcessMoves ==
  ASSUME RecallInv, NEW p \in Processes, ProcessMove(p)
  PROVE  RecallInv'
<1>1. PICK f \in Memory : SoundMemory(f) /\ Becomes(p, f)
  BY DEF ProcessMove
<1>2. Quietly /\ RowsMove
  BY DEF ProcessMove
<1>3. proc' \in [Processes -> Memory] /\ \A q \in Processes : proc'[q] = IF q = p THEN f ELSE proc[q]
  BY <1>1 DEF Becomes, RecallInv, RecallTyped
<1>4. RecallTyped'
  BY <1>2, <1>3 DEF Quietly, RowsMove, RecallInv, RecallTyped
<1>5. LogIsTheTable'
  BY <1>2 DEF Quietly, RecallInv, LogIsTheTable, AsOf, Revisions, Committed
<1>6. ASSUME NEW q \in Processes PROVE SoundMemory(proc[q])'
  <2>1. SoundMemory(proc'[q])
    BY <1>1, <1>3 DEF RecallInv
  <2>2. UNCHANGED <<log, old>>
    BY <1>2 DEF Quietly
  <2>. QED BY <2>1, <2>2, SameLog
<1>7. ASSUME NEW c \in Consumers
      PROVE  (/\ Sound(consumer[c].manifest) /\ Spared(consumer[c].manifest)
              /\ consumer[c].manifest # NoManifest => consumer[c].epoch > 0)'
  <2>1. /\ Sound(consumer'[c].manifest) /\ Spared(consumer'[c].manifest)
        /\ consumer'[c].manifest # NoManifest => consumer'[c].epoch > 0
    BY <1>2, RowsMoveSpares
  <2>2. UNCHANGED <<log, old, pruned, prune>>
    BY <1>2 DEF Quietly
  <2>3. Sound(consumer[c].manifest)'
    BY <2>1, <2>2, SameLog
  <2>4. Spared(consumer[c].manifest)'
    BY <2>1, <2>2 DEF Spared, Covers
  <2>. QED BY <2>1, <2>3, <2>4
<1>. QED BY <1>4, <1>5, <1>6, <1>7 DEF RecallInv

\* The row of a consumer whose lease is released, or whose manifest is that of a process.
LEMMA RowsStay ==
  ASSUME RecallInv, NEW p \in Processes, consumer' = consumer \/ consumer' = Releases(p)
  PROVE  RowsMove
<1>1. ConsumerOf[p] \in Consumers /\ consumer \in [Consumers -> Row]
  BY IndexAssumption DEF RecallInv, RecallTyped
<1>2. ASSUME NEW c \in Consumers
      PROVE  consumer'[c] \in Row /\ consumer'[c].manifest = consumer[c].manifest /\ consumer'[c].epoch >= consumer[c].epoch
  <2>1. consumer[c] \in Row /\ consumer[c].epoch \in Nat
    BY <1>1 DEF Row
  <2>2. consumer'[c] = consumer[c] \/ consumer'[c] = [consumer[c] EXCEPT !.leased = FALSE]
    BY <1>1 DEF Releases
  <2>3. LET f == [consumer[c] EXCEPT !.leased = FALSE]
        IN f \in Row /\ f.epoch = consumer[c].epoch /\ f.manifest = consumer[c].manifest
    BY <2>1 DEF Row
  <2>4. consumer'[c] \in Row /\ consumer'[c].manifest = consumer[c].manifest /\ consumer'[c].epoch = consumer[c].epoch
    BY <2>1, <2>2, <2>3
  <2>. QED BY <2>1, <2>4
<1>3. consumer' \in [Consumers -> Row]
  BY <1>1 DEF Releases, Row
<1>. QED BY <1>2, <1>3 DEF RowsMove

\* A process that registers what it has written moves its row as rows may.
LEMMA RowsRegister ==
  ASSUME RecallInv, NEW p \in Processes, Running(p), Holds(p), NEW e \in Engine, Pending(proc[p], e),
         consumer' = Registers(p) \/ consumer' = [Registers(p) EXCEPT ![ConsumerOf[p]].leased = FALSE]
  PROVE  RowsMove
<1>1. ConsumerOf[p] \in Consumers /\ consumer \in [Consumers -> Row]
  BY IndexAssumption DEF RecallInv, RecallTyped
<1>2. proc[p].ref \in Manifest /\ SoundManifest(proc[p].ref) /\ Covers(proc[p].ref.seq, old)
  BY MemoryFields, ManifestIsSound DEF RecallInv, RecallTyped, SoundMemory, Pending
<1>3. consumer[ConsumerOf[p]].epoch > 0
  BY DEF Running, Holds, Of, RecallInv, SoundMemory
<1>4. ASSUME NEW c \in Consumers, c # ConsumerOf[p]
      PROVE  consumer'[c] = consumer[c]
  BY <1>1, <1>4 DEF Registers
<1>5. LET row == consumer'[ConsumerOf[p]] IN row \in Row /\ row.manifest = proc[p].ref /\ row.epoch = consumer[ConsumerOf[p]].epoch
  <2>. DEFINE k == ConsumerOf[p]
  <2>1. Registers(p)[k] = [consumer[k] EXCEPT !.manifest = proc[p].ref] /\ Registers(p) \in [Consumers -> Row]
    BY <1>1, <1>2 DEF Registers, Row, Manifests
  <2>2. consumer'[k] = Registers(p)[k] \/ consumer'[k] = [Registers(p)[k] EXCEPT !.leased = FALSE]
    BY <1>1, <2>1
  <2>3. LET f == Registers(p)[k] IN f \in Row /\ f.epoch = consumer[k].epoch /\ f.manifest = proc[p].ref
    BY <1>1, <1>2, <2>1 DEF Row, Manifests
  <2>4. LET f == [Registers(p)[k] EXCEPT !.leased = FALSE]
        IN f \in Row /\ f.epoch = consumer[k].epoch /\ f.manifest = proc[p].ref
    BY <2>3 DEF Row
  <2>. QED BY <2>2, <2>3, <2>4
<1>6. consumer' \in [Consumers -> Row]
  <2>1. Registers(p) \in [Consumers -> Row]
    BY <1>1, <1>2 DEF Registers, Row, Manifests
  <2>. QED BY <1>1, <2>1 DEF Row
<1>7. ASSUME NEW c \in Consumers
      PROVE  \/ consumer'[c].manifest = consumer[c].manifest /\ consumer'[c].epoch >= consumer[c].epoch
             \/ /\ consumer'[c].manifest \in Manifest /\ SoundManifest(consumer'[c].manifest)
                /\ Covers(consumer'[c].manifest.seq, old) /\ consumer'[c].epoch > 0
  <2>1. CASE c # ConsumerOf[p]
    BY <1>1, <1>4, <2>1 DEF Row
  <2>2. CASE c = ConsumerOf[p]
    BY <1>2, <1>3, <1>5, <2>2
  <2>. QED BY <2>1, <2>2
<1>. QED BY <1>6, <1>7 DEF RowsMove

\* A process that touches no row moves if what it becomes is sound.
LEMMA PrivateMove ==
  ASSUME RecallInv, NEW p \in Processes, Private, NEW f \in Memory, SoundMemory(f), Becomes(p, f)
  PROVE  ProcessMove(p)
BY RowsStay DEF ProcessMove, Private, Quietly, logVars

\* Moves of a process: a process starts.
LEMMA StartMoves ==
  ASSUME RecallInv, NEW p \in Processes, Start(p)
  PROVE  ProcessMove(p)
<1>. DEFINE k == ConsumerOf[p]
            n == Of(p).epoch + 1
            f == [Off EXCEPT !.phase = "leased", !.epoch = n, !.valid = TRUE, !.manifest = Of(p).manifest]
<1>1. k \in Consumers /\ consumer \in [Consumers -> Row] /\ RecallTyped
  BY IndexAssumption DEF RecallInv, RecallTyped
<1>2. Of(p) \in Row /\ Sound(Of(p).manifest)
  BY <1>1 DEF Of, RecallInv
<1>a. n \in Nat /\ n > 0 /\ Of(p).manifest \in Manifests
  BY <1>2 DEF Row
<1>b. Becomes(p, f)
  BY DEF Start
<1>. HIDE DEF n
<1>3. /\ f \in Memory
      /\ f.phase = "leased" /\ f.epoch = n /\ f.manifest = Of(p).manifest
      /\ f.live = Off.live /\ f.task = Off.task /\ f.ref = Off.ref /\ f.shadow = Off.shadow
  BY <1>1, <1>a, OffIsSound DEF Memory
<1>. HIDE DEF f
<1>4. Off.live = NewEngine /\ Off.task = "none" /\ Off.ref = NoManifest /\ Off.shadow = NewEngine
  BY DEF Off
<1>5. SoundMemory(f)
  BY <1>1, <1>2, <1>3, <1>4, <1>a, NewEngineIsSound DEF SoundMemory, Sound, Row
<1>6. RowsMove
  <2>1. consumer'[k] = [leased |-> TRUE, epoch |-> consumer[k].epoch + 1, manifest |-> consumer[k].manifest]
    BY <1>1 DEF Start, Row
  <2>2. \A c \in Consumers : c # k => consumer'[c] = consumer[c]
    BY <1>1 DEF Start
  <2>3. consumer' \in [Consumers -> Row]
    BY <1>1 DEF Start, Row
  <2>4. \A c \in Consumers : consumer'[c].manifest = consumer[c].manifest /\ consumer'[c].epoch >= consumer[c].epoch
    BY <1>1, <2>1, <2>2 DEF Row
  <2>. QED BY <2>3, <2>4 DEF RowsMove
<1>. QED BY <1>3, <1>5, <1>6, <1>b DEF ProcessMove, Quietly, logVars, Start

\* A process that ends, whatever becomes of its lease.
LEMMA EndMoves ==
  ASSUME RecallInv, NEW p \in Processes, Crash(p) \/ Close(p) \/ StartFails(p)
  PROVE  ProcessMove(p)
<1>1. Off \in Memory /\ SoundMemory(Off)
  BY OffIsSound DEF RecallInv
<1>2. Quietly /\ Becomes(p, Off)
  BY DEF Crash, Close, StartFails, Quietly, logVars
<1>3. RowsMove
  <2>1. CASE consumer' = consumer \/ consumer' = Releases(p)
    BY <2>1, RowsStay
  <2>2. CASE /\ StartFails(p) /\ proc[p].phase = "baselined" /\ Holds(p)
             /\ consumer' = [Registers(p) EXCEPT ![ConsumerOf[p]].leased = FALSE]
    <3>1. Pending(proc[p], proc[p].live) /\ Running(p) /\ proc[p].live \in Engine
      BY <2>2, MemoryFields DEF RecallInv, RecallTyped, SoundMemory, Running
    <3>. QED BY <2>2, <3>1, RowsRegister
  <2>. QED BY <2>1, <2>2 DEF Crash, Close, StartFails
<1>. QED BY <1>1, <1>2, <1>3 DEF ProcessMove

\* Moves of a process: its timer fails.
LEMMA TimerFailsMoves ==
  ASSUME RecallInv, NEW p \in Processes, TimerFails(p)
  PROVE  ProcessMove(p)
<1>. DEFINE m == proc[p]
            e == [m.live EXCEPT !.fatal = TRUE]
            f == [m EXCEPT !.valid = FALSE, !.live = e]
<1>1. m \in Memory /\ SoundMemory(m) /\ RecallTyped
  BY DEF RecallInv, RecallTyped
<1>2. Becomes(p, f) /\ Private
  BY <1>1 DEF TimerFails, Becomes, Memory
<1>. HIDE DEF m
<1>3. /\ e \in Engine /\ e.seq = m.live.seq /\ e.docs = m.live.docs /\ e.pos = m.live.pos /\ e.mail = m.live.mail
      /\ e.polling = m.live.polling /\ e.fatal /\ e.fresh = m.live.fresh
  BY <1>1, MemoryFields DEF Engine
<1>. HIDE DEF e
<1>4. /\ f \in Memory
      /\ f.phase = m.phase /\ f.epoch = m.epoch /\ f.manifest = m.manifest /\ f.live = e /\ f.task = m.task
      /\ f.ref = m.ref /\ f.shadow = m.shadow
  BY <1>1, <1>3 DEF Memory
<1>. HIDE DEF f
<1>5. SoundEngine(e) /\ Settled(e)
  BY <1>1, <1>3 DEF SoundMemory, SoundEngine, Faithful, Sent, Settled
<1>6. Pending(m, m.live) => Pending(f, e)
  BY <1>3, <1>4 DEF Pending
<1>7. Pending(m, m.shadow) => Pending(f, f.shadow)
  BY <1>3, <1>4 DEF Pending
<1>8. SoundMemory(f)
  BY <1>1, <1>3, <1>4, <1>5, <1>6, <1>7 DEF SoundMemory
<1>. QED BY <1>2, <1>4, <1>8, PrivateMove

\* Moves of a process: it begins to restore.
LEMMA RestoreMoves ==
  ASSUME RecallInv, NEW p \in Processes, Restore(p)
  PROVE  ProcessMove(p)
<1>. DEFINE m == proc[p]
            r == m.manifest
            mail == [s \in Shards |-> Page(r.base.seq[s], r.seq[s])]
            e == [Loaded(r.base) EXCEPT !.mail = mail]
            f == [m EXCEPT !.phase = "restoring", !.live = e]
<1>1. m \in Memory /\ SoundMemory(m) /\ RecallTyped /\ m.phase = "leased" /\ r # NoManifest
  BY DEF RecallInv, RecallTyped, Restore
<1>2. Becomes(p, f) /\ Private
  BY <1>1 DEF Restore
<1>3. r \in Manifest /\ SoundManifest(r) /\ r.base \in Image /\ r.base.seq \in Seqs /\ r.seq \in Seqs /\ Faithful(r.base)
  BY <1>1, MemoryFields, ManifestIsSound, ManifestFields DEF SoundMemory, SoundManifest, FaithfulManifest
<1>. HIDE DEF m
<1>4. ASSUME NEW s \in Shards
      PROVE  /\ mail[s] \in Message
             /\ IF mail[s] = Quiet THEN r.seq[s] <= r.base.seq[s] ELSE mail[s].last = r.seq[s]
             /\ mail[s] = Quiet \/ (1 <= mail[s].next /\ mail[s].next <= mail[s].last /\ mail[s].last <= Len(log[s]))
  <2>1. r.base.seq[s] \in Nat /\ r.seq[s] \in Nat
    BY <1>3 DEF Seqs
  <2>2. r.seq[s] <= Len(log[s])
    BY <1>1, <1>3, CommittedType DEF SoundManifest, FaithfulManifest, Covers
  <2>3. mail[s] = Page(r.base.seq[s], r.seq[s])
    OBVIOUS
  <2>. HIDE DEF mail
  <2>. DEFINE a == r.base.seq[s]
              b == r.seq[s]
  <2>. HIDE DEF a, b
  <2>4. a \in Nat /\ b \in Nat /\ mail[s] = Page(a, b)
    BY <2>1, <2>3 DEF a, b
  <2>5. /\ mail[s] \in Message
        /\ IF mail[s] = Quiet THEN b <= a ELSE mail[s].last = b /\ 1 <= mail[s].next /\ mail[s].next <= b
    BY <2>4, PageIsAMessage
  <2>. QED BY <2>2, <2>5 DEF a, b
<1>5. mail \in [Shards -> Message]
  BY <1>4
<1>. HIDE DEF mail
<1>6. LET g == Loaded(r.base) IN
      /\ g \in Engine /\ SoundEngine(g) /\ g.seq = r.base.seq /\ g.pos = r.base.seq /\ g.docs = r.base.docs
      /\ ~g.polling /\ ~g.fatal /\ ~g.fresh
  BY <1>1, <1>3, LoadedIsSound
<1>7. /\ e \in Engine /\ e.seq = r.base.seq /\ e.pos = r.base.seq /\ e.docs = r.base.docs /\ e.mail = mail
      /\ ~e.polling /\ ~e.fresh
  BY <1>5, <1>6 DEF Engine
<1>8. SoundEngine(e)
  BY <1>4, <1>6, <1>7 DEF SoundEngine, Faithful, Sent
<1>. HIDE DEF e
<1>9. /\ f \in Memory
      /\ f.phase = "restoring" /\ f.epoch = m.epoch /\ f.manifest = r /\ f.live = e /\ f.task = m.task
      /\ f.ref = m.ref /\ f.shadow = m.shadow
  BY <1>1, <1>7 DEF Memory
<1>. HIDE DEF f
<1>10. m.task = "none"
  BY <1>1 DEF SoundMemory
<1>11. SoundMemory(f)
  <2>1. \A s \in Shards : IF f.live.mail[s] = Quiet THEN f.manifest.seq[s] <= f.live.seq[s] ELSE f.live.mail[s].last = f.manifest.seq[s]
    BY <1>4, <1>7, <1>9
  <2>. HIDE DEF r
  <2>2. r # NoManifest /\ Sound(r) /\ Sound(m.ref) /\ SoundEngine(m.shadow) /\ m.epoch > 0
    BY <1>1, <1>3 DEF SoundMemory, Sound
  <2>. QED BY <1>7, <1>8, <1>9, <1>10, <2>1, <2>2 DEF SoundMemory
<1>. QED BY <1>2, <1>9, <1>11, PrivateMove

\* Moves of a process: it has restored what the manifest names.
LEMMA RestoredMoves ==
  ASSUME RecallInv, NEW p \in Processes, Restored(p)
  PROVE  ProcessMove(p)
<1>. DEFINE m == proc[p]
            e == [m.live EXCEPT !.pos = m.live.seq]
            f == [m EXCEPT !.phase = "syncing", !.live = e]
<1>1. m \in Memory /\ SoundMemory(m) /\ RecallTyped /\ m.phase = "restoring" /\ Delivered(m.live)
  BY DEF RecallInv, RecallTyped, Restored
<1>2. Becomes(p, f) /\ Private
  BY <1>1 DEF Restored, Becomes, Memory
<1>. HIDE DEF m
<1>3. /\ e \in Engine /\ e.seq = m.live.seq /\ e.docs = m.live.docs /\ e.pos = m.live.seq /\ e.mail = m.live.mail
      /\ e.polling = m.live.polling /\ e.fatal = m.live.fatal /\ e.fresh = m.live.fresh
  BY <1>1, MemoryFields DEF Engine
<1>. HIDE DEF e
<1>4. /\ f \in Memory
      /\ f.phase = "syncing" /\ f.epoch = m.epoch /\ f.manifest = m.manifest /\ f.live = e /\ f.task = m.task
      /\ f.ref = m.ref /\ f.shadow = m.shadow
  BY <1>1, <1>3 DEF Memory
<1>. HIDE DEF f
<1>5. SoundEngine(e) /\ Settled(e)
  <2>1. Covers(e.seq, e.seq)
    BY <1>3, EngineFields DEF Covers, Seqs
  <2>. QED BY <1>1, <1>3, <2>1 DEF SoundMemory, SoundEngine, Faithful, Sent, Settled, Delivered
<1>6. Covers(e.pos, m.manifest.seq)
  BY <1>1, <1>3 DEF SoundMemory, Delivered, Covers
<1>7. m.task = "none" /\ ~e.fresh /\ m.manifest # NoManifest
  BY <1>1, <1>3 DEF SoundMemory
<1>8. SoundMemory(f)
  BY <1>1, <1>3, <1>4, <1>5, <1>6, <1>7 DEF SoundMemory
<1>. QED BY <1>2, <1>4, <1>8, PrivateMove

\* Moves of a process: it writes a baseline.
LEMMA WriteBaselineMoves ==
  ASSUME RecallInv, NEW p \in Processes, WriteBaseline(p)
  PROVE  ProcessMove(p)
<1>. DEFINE m == proc[p]
            e == Loaded(Baseline)
            r == Full(Baseline)
            f == [m EXCEPT !.phase = "baselined", !.ref = r, !.live = e]
<1>1. m \in Memory /\ SoundMemory(m) /\ RecallTyped /\ m.phase = "leased"
  BY DEF RecallInv, RecallTyped, WriteBaseline
<1>2. Becomes(p, f) /\ Private
  BY <1>1 DEF WriteBaseline
<1>3. Baseline \in Image /\ Faithful(Baseline) /\ Covers(Baseline.seq, old)
  BY BaselineIsFaithful DEF RecallInv
<1>4. /\ e \in Engine /\ SoundEngine(e) /\ Settled(e) /\ e.pos = Baseline.seq /\ ~e.fresh
      /\ r \in Manifest /\ SoundManifest(r) /\ r.seq = Baseline.seq
  BY <1>1, <1>3, LoadedIsSound, FullIsSound
<1>5. r # NoManifest /\ r \in Manifests /\ Sound(r)
  BY <1>4, IndexAssumption DEF Manifests, Sound
<1>. HIDE DEF m, e, r
<1>6. /\ f \in Memory
      /\ f.phase = "baselined" /\ f.epoch = m.epoch /\ f.manifest = m.manifest /\ f.live = e /\ f.task = m.task
      /\ f.ref = r /\ f.shadow = m.shadow
  BY <1>1, <1>4, <1>5 DEF Memory
<1>. HIDE DEF f
<1>7. Pending(f, e)
  <2>1. Baseline.seq \in Seqs
    BY <1>3 DEF Image
  <2>2. Covers(Baseline.seq, Baseline.seq)
    BY <2>1 DEF Covers, Seqs
  <2>. QED BY <1>3, <1>4, <1>5, <1>6, <2>2 DEF Pending
<1>8. m.task = "none"
  BY <1>1 DEF SoundMemory
<1>9. SoundMemory(f)
  BY <1>1, <1>4, <1>5, <1>6, <1>7, <1>8 DEF SoundMemory
<1>. QED BY <1>2, <1>6, <1>9, PrivateMove

\* Moves of a process: it registers its baseline.
LEMMA RegisterBaselineMoves ==
  ASSUME RecallInv, NEW p \in Processes, RegisterBaseline(p)
  PROVE  ProcessMove(p)
<1>. DEFINE m == proc[p]
            f == [m EXCEPT !.phase = "syncing", !.manifest = m.ref]
<1>1. m \in Memory /\ SoundMemory(m) /\ m.phase = "baselined" /\ Holds(p) /\ consumer' = Registers(p)
  BY DEF RecallInv, RecallTyped, RegisterBaseline
<1>2. Becomes(p, f) /\ Quietly
  BY DEF RegisterBaseline, Quietly, logVars
<1>3. Pending(m, m.live) /\ Running(p) /\ m.live \in Engine
  BY <1>1, MemoryFields DEF SoundMemory, Running
<1>4. RowsMove
  BY <1>1, <1>3, RowsRegister
<1>. HIDE DEF m
<1>5. /\ f \in Memory
      /\ f.phase = "syncing" /\ f.epoch = m.epoch /\ f.manifest = m.ref /\ f.live = m.live /\ f.task = m.task
      /\ f.ref = m.ref /\ f.shadow = m.shadow
  BY <1>1 DEF Memory
<1>. HIDE DEF f
<1>6. SoundMemory(f)
  BY <1>1, <1>3, <1>5 DEF SoundMemory, Pending
<1>. QED BY <1>2, <1>4, <1>5, <1>6 DEF ProcessMove

-----------------------------------------------------------------------------
(* Following the log *)

\* The live engine is replaced by one that is at least as far.
LEMMA LiveStep ==
  ASSUME RecallInv, NEW p \in Processes, Private, proc[p].phase \in {"syncing", "up"},
         NEW e \in Engine, SoundEngine(e), Settled(e), Covers(e.pos, proc[p].live.pos),
         NEW phase \in {proc[p].phase, "up"}, phase # "up" => ~e.fresh, e.fresh => Covers(e.pos, old),
         Becomes(p, [proc[p] EXCEPT !.live = e, !.phase = phase])
  PROVE  ProcessMove(p)
<1>. DEFINE m == proc[p]
            f == [m EXCEPT !.live = e, !.phase = phase]
<1>1. m \in Memory /\ SoundMemory(m) /\ RecallTyped /\ m.phase \in {"syncing", "up"} /\ phase \in {m.phase, "up"}
      /\ Covers(e.pos, m.live.pos)
  BY DEF RecallInv, RecallTyped
<1>2. Becomes(p, f)
  OBVIOUS
<1>. HIDE DEF m
<1>3. /\ f \in Memory
      /\ f.phase = phase /\ f.epoch = m.epoch /\ f.manifest = m.manifest /\ f.live = e /\ f.task = m.task
      /\ f.ref = m.ref /\ f.shadow = m.shadow
  BY <1>1 DEF Memory
<1>. HIDE DEF f
<1>4. SoundMemory(f)
  BY <1>1, <1>3, LiveGoesOn
<1>. QED BY <1>2, <1>3, <1>4, PrivateMove

\* What is known of the engine that serves.
LEMMA LiveEngine ==
  ASSUME RecallInv, NEW p \in Processes
  PROVE  LET e == proc[p].live IN
         /\ RecallTyped /\ e \in Engine /\ SoundEngine(e) /\ Covers(e.pos, e.pos)
         /\ proc[p].phase \in {"baselined", "syncing", "up"} => Settled(e)
         /\ e.fresh => proc[p].phase = "up" /\ Covers(e.pos, old)
<1>1. proc[p] \in Memory /\ SoundMemory(proc[p]) /\ RecallTyped
  BY DEF RecallInv, RecallTyped
<1>2. proc[p].live \in Engine
  BY <1>1, MemoryFields
<1>3. Covers(proc[p].live.pos, proc[p].live.pos)
  BY <1>2, EngineFields DEF Covers, Seqs
<1>. QED BY <1>1, <1>2, <1>3 DEF SoundMemory

\* The same, by a step that leaves the phase alone.
LEMMA LiveStays ==
  ASSUME RecallInv, NEW p \in Processes, Private, proc[p].phase \in {"syncing", "up"},
         NEW e \in Engine, SoundEngine(e), Settled(e), Covers(e.pos, proc[p].live.pos),
         proc[p].phase # "up" => ~e.fresh, e.fresh => Covers(e.pos, old),
         Becomes(p, [proc[p] EXCEPT !.live = e])
  PROVE  ProcessMove(p)
<1>1. proc[p] \in Memory
  BY DEF RecallInv, RecallTyped
<1>2. [proc[p] EXCEPT !.live = e] = [proc[p] EXCEPT !.live = e, !.phase = proc[p].phase]
  BY <1>1 DEF Memory
<1>. QED BY <1>2, LiveStep

\* The shadow of a rebuild goes on.
LEMMA ShadowStep ==
  ASSUME RecallInv, NEW p \in Processes, Private, proc[p].task = "shadow",
         NEW e \in Engine, SoundEngine(e), Settled(e), ~e.fatal, Covers(e.seq, proc[p].shadow.seq),
         e.fresh => ~e.polling, e.fresh => Covers(e.pos, old),
         Becomes(p, [proc[p] EXCEPT !.shadow = e])
  PROVE  ProcessMove(p)
<1>. DEFINE m == proc[p]
            f == [m EXCEPT !.shadow = e]
<1>1. m \in Memory /\ SoundMemory(m) /\ RecallTyped /\ m.task = "shadow" /\ Covers(e.seq, m.shadow.seq)
  BY DEF RecallInv, RecallTyped
<1>2. Becomes(p, f)
  OBVIOUS
<1>. HIDE DEF m
<1>3. /\ f \in Memory
      /\ f.phase = m.phase /\ f.epoch = m.epoch /\ f.manifest = m.manifest /\ f.live = m.live /\ f.task = m.task
      /\ f.ref = m.ref /\ f.shadow = e
  BY <1>1 DEF Memory
<1>. HIDE DEF f
<1>4. Covers(e.seq, old)
  <2>1. Covers(m.shadow.seq, old) /\ old \in Seqs
    BY <1>1 DEF SoundMemory, RecallTyped
  <2>. QED BY <1>1, <2>1, MemoryFields, EngineFields, CoversTransitive
<1>5. SoundMemory(f)
  BY <1>1, <1>3, <1>4 DEF SoundMemory
<1>. QED BY <1>2, <1>3, <1>5, PrivateMove

\* What is known of the engine that is being rebuilt.
LEMMA ShadowEngine ==
  ASSUME RecallInv, NEW p \in Processes, proc[p].task = "shadow"
  PROVE  LET e == proc[p].shadow IN
         /\ RecallTyped /\ e \in Engine /\ SoundEngine(e) /\ Covers(e.seq, e.seq) /\ Settled(e) /\ ~e.fatal
         /\ e.fresh => ~e.polling /\ Covers(e.pos, old)
<1>1. proc[p] \in Memory /\ SoundMemory(proc[p]) /\ RecallTyped
  BY DEF RecallInv, RecallTyped
<1>2. proc[p].shadow \in Engine
  BY <1>1, MemoryFields
<1>3. Covers(proc[p].shadow.seq, proc[p].shadow.seq)
  BY <1>2, EngineFields DEF Covers, Seqs
<1>. QED BY <1>1, <1>2, <1>3 DEF SoundMemory

\* Moves of a process: an engine begins to poll.
LEMMA StartPollMoves ==
  ASSUME RecallInv, NEW p \in Processes, NEW r \in Roles, StartPoll(p, r)
  PROVE  ProcessMove(p)
<1>1. CASE r = "live"
  <2>. DEFINE e == proc[p].live
              f == Polling(e)
  <2>1. Private /\ Becomes(p, [proc[p] EXCEPT !.live = f]) /\ proc[p].phase \in {"syncing", "up"}
    BY <1>1 DEF StartPoll, MayPoll
  <2>2. f \in Engine /\ SoundEngine(f) /\ Settled(f) /\ f.pos = e.pos /\ f.fresh = e.fresh
    BY LiveEngine, PollingIsSound
  <2>. HIDE DEF f
  <2>. QED BY <2>1, <2>2, LiveEngine, LiveStays
<1>2. CASE r = "shadow"
  <2>. DEFINE e == proc[p].shadow
              f == Polling(e)
  <2>1. Private /\ Becomes(p, [proc[p] EXCEPT !.shadow = f]) /\ proc[p].task = "shadow" /\ ~Ready(e)
    BY <1>2 DEF StartPoll, MayPoll
  <2>2. f \in Engine /\ SoundEngine(f) /\ Settled(f) /\ f.seq = e.seq /\ f.fresh = e.fresh /\ ~f.fatal
    BY <2>1, ShadowEngine, PollingIsSound
  <2>3. ~f.fresh
    BY <2>1, <2>2, ShadowEngine DEF Ready
  <2>. HIDE DEF f
  <2>. QED BY <2>1, <2>2, <2>3, ShadowEngine, ShadowStep
<1>. QED BY <1>1, <1>2 DEF Roles

\* Moves of a process: an engine has applied what it polled.
LEMMA FinishPollMoves ==
  ASSUME RecallInv, NEW p \in Processes, NEW r \in Roles, FinishPoll(p, r)
  PROVE  ProcessMove(p)
<1>1. CASE r = "live"
  <2>. DEFINE e == proc[p].live
              f == Polled(e)
  <2>1. Private /\ Becomes(p, [proc[p] EXCEPT !.live = f, !.phase = "up"])
    BY <1>1 DEF FinishPoll
  <2>2. Alive(p, "live") /\ e.polling /\ Delivered(e)
    BY <1>1 DEF FinishPoll
  <2>3. proc[p].phase \in {"syncing", "up"}
    BY <2>2 DEF Alive, RecallInv, SoundMemory
  <2>4. f \in Engine /\ SoundEngine(f) /\ Settled(f) /\ Covers(f.pos, e.pos) /\ (f.fresh => Covers(f.pos, old))
    BY <2>2, LiveEngine, PolledIsSound
  <2>. HIDE DEF f
  <2>. QED BY <2>1, <2>3, <2>4, LiveStep
<1>2. CASE r = "shadow"
  <2>. DEFINE e == proc[p].shadow
              f == Polled(e)
  <2>1. Private /\ Becomes(p, [proc[p] EXCEPT !.shadow = f, !.phase = proc[p].phase])
    BY <1>2 DEF FinishPoll
  <2>2. proc[p].task = "shadow" /\ Delivered(e)
    BY <1>2 DEF FinishPoll, Alive
  <2>3. f \in Engine /\ SoundEngine(f) /\ Settled(f) /\ f.seq = e.seq /\ (f.fresh => Covers(f.pos, old)) /\ ~f.polling /\ f.fatal = e.fatal
    BY <2>2, ShadowEngine, PolledIsSound
  <2>. HIDE DEF f
  <2>4. [proc[p] EXCEPT !.shadow = f, !.phase = proc[p].phase] = [proc[p] EXCEPT !.shadow = f]
    BY DEF RecallInv, RecallTyped, Memory
  <2>. QED BY <2>1, <2>2, <2>3, <2>4, ShadowEngine, ShadowStep
<1>. QED BY <1>1, <1>2 DEF Roles

\* Moves of a process: an engine applies the next event.
LEMMA ApplyMoves ==
  ASSUME RecallInv, NEW p \in Processes, NEW r \in Roles, NEW s \in Shards, Apply(p, r, s)
  PROVE  ProcessMove(p)
<1>1. CASE r = "live" /\ proc[p].phase \in {"syncing", "up"}
  <2>. DEFINE e == proc[p].live
              f == Applied(e, s)
  <2>1. Private /\ Becomes(p, [proc[p] EXCEPT !.live = f]) /\ InTurn(e, s)
    BY <1>1 DEF Apply
  <2>2. /\ f \in Engine /\ SoundEngine(f) /\ ~Delivered(e)
        /\ f.pos = e.pos /\ f.polling = e.polling /\ f.fatal = e.fatal /\ f.fresh = e.fresh
    BY <2>1, LiveEngine, AppliedIsSound
  <2>. HIDE DEF f
  <2>3. Settled(f)
    BY <1>1, <2>2, LiveEngine DEF Settled
  <2>. QED BY <1>1, <2>1, <2>2, <2>3, LiveEngine, LiveStays
<1>2. CASE r = "live" /\ proc[p].phase = "restoring"
  <2>. DEFINE m == proc[p]
              e == Applied(m.live, s)
              f == [m EXCEPT !.live = e]
  <2>1. m \in Memory /\ SoundMemory(m) /\ RecallTyped /\ m.phase = "restoring" /\ InTurn(m.live, s)
    BY <1>2 DEF RecallInv, RecallTyped, Apply
  <2>2. Private /\ Becomes(p, f)
    BY <1>2 DEF Apply
  <2>. HIDE DEF m
  <2>3. /\ e \in Engine /\ SoundEngine(e) /\ e.polling = m.live.polling /\ e.fresh = m.live.fresh
        /\ \A t \in Shards : t # s => e.seq[t] = m.live.seq[t] /\ e.mail[t] = m.live.mail[t]
        /\ IF e.mail[s] = Quiet THEN e.seq[s] = m.live.mail[s].last ELSE e.mail[s].last = m.live.mail[s].last
    BY <2>1, MemoryFields, AppliedIsSound DEF SoundMemory
  <2>. HIDE DEF e
  <2>4. /\ f \in Memory
        /\ f.phase = "restoring" /\ f.epoch = m.epoch /\ f.manifest = m.manifest /\ f.live = e /\ f.task = m.task
        /\ f.ref = m.ref /\ f.shadow = m.shadow
    BY <2>1, <2>3 DEF Memory
  <2>. HIDE DEF f
  <2>5. ASSUME NEW t \in Shards
        PROVE  IF e.mail[t] = Quiet THEN m.manifest.seq[t] <= e.seq[t] ELSE e.mail[t].last = m.manifest.seq[t]
    <3>1. CASE t # s
      BY <2>1, <2>3, <3>1 DEF SoundMemory
    <3>2. CASE t = s
      <4>1. m.live.mail[s] # Quiet /\ m.live.mail[s].last = m.manifest.seq[s]
        BY <2>1 DEF SoundMemory, InTurn
      <4>2. m.manifest.seq[s] \in Nat
        BY <2>1, MemoryFields, ManifestIsSound, ManifestFields DEF SoundMemory, Seqs
      <4>. QED BY <2>3, <3>2, <4>1, <4>2
    <3>. QED BY <3>1, <3>2
  <2>6. SoundMemory(f)
    BY <2>1, <2>3, <2>4, <2>5 DEF SoundMemory
  <2>. QED BY <2>2, <2>4, <2>6, PrivateMove
<1>3. CASE r = "shadow"
  <2>. DEFINE e == proc[p].shadow
              f == Applied(e, s)
  <2>1. Private /\ Becomes(p, [proc[p] EXCEPT !.shadow = f]) /\ InTurn(e, s) /\ proc[p].task = "shadow"
    BY <1>3 DEF Apply, Alive
  <2>2. /\ f \in Engine /\ SoundEngine(f) /\ ~Delivered(e) /\ Covers(f.seq, e.seq)
        /\ f.pos = e.pos /\ f.polling = e.polling /\ f.fatal = e.fatal /\ f.fresh = e.fresh
    BY <2>1, ShadowEngine, AppliedIsSound
  <2>. HIDE DEF f
  <2>3. Settled(f)
    BY <2>1, <2>2, ShadowEngine DEF Settled
  <2>. QED BY <2>1, <2>2, <2>3, ShadowEngine, ShadowStep
<1>. QED BY <1>1, <1>2, <1>3 DEF Roles, Apply, Alive

\* Moves of a process: a poll fails.
LEMMA PollFailsMoves ==
  ASSUME RecallInv, NEW p \in Processes, PollFails(p)
  PROVE  ProcessMove(p)
<1>. DEFINE e == proc[p].live
            f == Failed(e)
            g == [f EXCEPT !.pos = e.seq]
<1>1. Private /\ proc[p].phase = "up"
  BY DEF PollFails
<1>2. f \in Engine /\ SoundEngine(f) /\ Settled(f) /\ f.seq = e.seq /\ f.pos = e.pos /\ f.fatal /\ f.fresh = e.fresh
  BY LiveEngine, FailedIsSound
<1>3. Becomes(p, [proc[p] EXCEPT !.live = f]) \/ Becomes(p, [proc[p] EXCEPT !.live = g])
  BY DEF PollFails
<1>4. CASE Becomes(p, [proc[p] EXCEPT !.live = f])
  <2>. HIDE DEF f
  <2>. QED BY <1>1, <1>2, <1>4, LiveEngine, LiveStays
<1>5. CASE Becomes(p, [proc[p] EXCEPT !.live = g])
  <2>. HIDE DEF f
  <2>1. /\ g \in Engine /\ g.seq = e.seq /\ g.docs = f.docs /\ g.mail = f.mail /\ g.pos = e.seq /\ g.fatal /\ g.fresh = e.fresh
    BY <1>2, EngineFields DEF Engine
  <2>. HIDE DEF g
  <2>2. Covers(e.seq, e.seq) /\ Covers(e.seq, e.pos) /\ e.seq \in Seqs /\ e.pos \in Seqs
    BY LiveEngine, EngineFields DEF Covers, Seqs, SoundEngine
  <2>3. SoundEngine(g) /\ Settled(g)
    BY <1>2, <2>1, <2>2 DEF SoundEngine, Faithful, Sent, Settled
  <2>4. e.fresh => Covers(e.seq, old)
    BY <2>2, LiveEngine, CoversTransitive DEF RecallTyped
  <2>. QED BY <1>1, <1>5, <2>1, <2>2, <2>3, <2>4, LiveStays
<1>. QED BY <1>3, <1>4, <1>5

\* Moves of a process: an engine refuses an event.
LEMMA RefuseMoves ==
  ASSUME RecallInv, NEW p \in Processes, NEW s \in Shards, Refuse(p, s)
  PROVE  ProcessMove(p)
<1>. DEFINE e == proc[p].live
            f == Refused(e, s)
<1>1. Private /\ proc[p].phase = "up" /\ e.mail[s] # Quiet /\ Becomes(p, [proc[p] EXCEPT !.live = f])
  BY DEF Refuse
<1>2. f \in Engine /\ SoundEngine(f) /\ Settled(f) /\ f.pos = e.pos /\ f.fresh = e.fresh
  BY <1>1, LiveEngine, RefusedIsSound
<1>. HIDE DEF f
<1>. QED BY <1>1, <1>2, LiveEngine, LiveStays

\* Moves of a process: an engine has not polled for too long.
LEMMA GoesStaleMoves ==
  ASSUME RecallInv, NEW p \in Processes, GoesStale(p)
  PROVE  ProcessMove(p)
<1>. DEFINE e == proc[p].live
            f == [e EXCEPT !.fresh = FALSE]
<1>1. Private /\ proc[p].phase = "up" /\ Becomes(p, [proc[p] EXCEPT !.live = f])
  <2>1. proc[p] \in Memory
    BY DEF RecallInv, RecallTyped
  <2>. QED BY <2>1 DEF GoesStale, Becomes, Memory
<1>2. /\ f \in Engine /\ f.seq = e.seq /\ f.docs = e.docs /\ f.pos = e.pos /\ f.mail = e.mail
      /\ f.polling = e.polling /\ f.fatal = e.fatal /\ ~f.fresh
  BY LiveEngine DEF Engine
<1>. HIDE DEF f
<1>3. SoundEngine(f) /\ Settled(f)
  BY <1>1, <1>2, LiveEngine DEF SoundEngine, Faithful, Sent, Settled, Delivered
<1>. QED BY <1>1, <1>2, <1>3, LiveEngine, LiveStays

\* Moves of a process: a task that was left behind ends.
LEMMA StrayEndsMoves ==
  ASSUME RecallInv, NEW p \in Processes, StrayEnds(p)
  PROVE  ProcessMove(p)
<1>1. PICK fails \in BOOLEAN : Becomes(p, [proc[p] EXCEPT !.stray = FALSE, !.live.fatal = @ \/ fails])
  BY DEF StrayEnds
<1>. DEFINE m == proc[p]
            fatal == m.live.fatal \/ fails
            e == [m.live EXCEPT !.fatal = fatal]
            f == [m EXCEPT !.stray = FALSE, !.live = e]
<1>2. m \in Memory /\ SoundMemory(m) /\ RecallTyped /\ Private
  BY DEF RecallInv, RecallTyped, StrayEnds
<1>3. Becomes(p, f)
  BY <1>1, <1>2 DEF Becomes, Memory
<1>4. fatal \in BOOLEAN /\ (m.live.fatal => fatal)
  OBVIOUS
<1>. HIDE DEF m, fatal
<1>5. /\ e \in Engine /\ e.seq = m.live.seq /\ e.docs = m.live.docs /\ e.pos = m.live.pos /\ e.mail = m.live.mail
      /\ e.polling = m.live.polling /\ e.fatal = fatal /\ e.fresh = m.live.fresh
  BY <1>2, <1>4, MemoryFields DEF Engine
<1>. HIDE DEF e
<1>6. /\ f \in Memory
      /\ f.phase = m.phase /\ f.epoch = m.epoch /\ f.manifest = m.manifest /\ f.live = e /\ f.task = m.task
      /\ f.ref = m.ref /\ f.shadow = m.shadow
  BY <1>2, <1>5 DEF Memory
<1>. HIDE DEF f
<1>7. SoundEngine(e) /\ (Settled(m.live) => Settled(e))
  BY <1>2, <1>4, <1>5 DEF SoundMemory, SoundEngine, Faithful, Sent, Settled, Delivered
<1>8. (Pending(m, m.live) => Pending(f, e)) /\ (Pending(m, m.shadow) => Pending(f, f.shadow))
  BY <1>5, <1>6 DEF Pending
<1>9. SoundMemory(f)
  BY <1>2, <1>5, <1>6, <1>7, <1>8 DEF SoundMemory
<1>. QED BY <1>2, <1>3, <1>6, <1>9, PrivateMove

-----------------------------------------------------------------------------
(* Checkpoints and rebuilds *)

\* A process that is up starts to save a manifest that its live engine has reached.
LEMMA CheckpointStep ==
  ASSUME RecallInv, NEW p \in Processes, Private, proc[p].phase = "up", proc[p].task \notin {"shadow", "saved"},
         NEW task \in {"delta", "written"}, NEW ref \in Manifest, SoundManifest(ref),
         Covers(proc[p].live.pos, ref.seq), Covers(ref.seq, old),
         Becomes(p, [proc[p] EXCEPT !.task = task, !.ref = ref])
  PROVE  ProcessMove(p)
<1>. DEFINE m == proc[p]
            f == [m EXCEPT !.task = task, !.ref = ref]
<1>1. m \in Memory /\ SoundMemory(m) /\ m.phase = "up" /\ Covers(m.live.pos, ref.seq)
  BY DEF RecallInv, RecallTyped
<1>2. Becomes(p, f)
  OBVIOUS
<1>3. ref # NoManifest /\ ref \in Manifests /\ Sound(ref)
  BY IndexAssumption DEF Manifests, Sound
<1>. HIDE DEF m
<1>4. /\ f \in Memory
      /\ f.phase = m.phase /\ f.epoch = m.epoch /\ f.manifest = m.manifest /\ f.live = m.live /\ f.task = task
      /\ f.ref = ref /\ f.shadow = m.shadow
  BY <1>1, <1>3 DEF Memory
<1>. HIDE DEF f
<1>5. Pending(f, m.live)
  BY <1>1, <1>3, <1>4 DEF Pending
<1>6. SoundMemory(f)
  BY <1>1, <1>3, <1>4, <1>5 DEF SoundMemory
<1>. QED BY <1>2, <1>4, <1>6, PrivateMove

\* An engine as an image.
LEMMA EngineImage ==
  ASSUME RecallTyped, NEW e \in Engine, SoundEngine(e)
  PROVE  LET image == [seq |-> e.seq, docs |-> e.docs] IN
         image \in Image /\ Faithful(image) /\ image.seq = e.seq
BY EngineFields DEF Image, SoundEngine, Faithful

\* Moves of a process: a checkpoint begins.
LEMMA BeginCheckpointMoves ==
  ASSUME RecallInv, NEW p \in Processes, BeginCheckpoint(p)
  PROVE  ProcessMove(p)
<1>. DEFINE e == proc[p].live
            m == proc[p].manifest
            delta == [base |-> m.base, seq |-> e.pos, depth |-> m.depth + 1]
            full == Full([seq |-> e.seq, docs |-> e.docs])
<1>1. /\ Private /\ proc[p].phase = "up" /\ proc[p].task = "none" /\ ~e.polling /\ ~e.fatal /\ e.fresh
  BY DEF BeginCheckpoint, Ready
<1>2. /\ RecallTyped /\ e \in Engine /\ SoundEngine(e) /\ Covers(e.pos, e.pos) /\ Covers(e.pos, old) /\ e.pos = e.seq
      /\ Covers(Committed, e.seq)
  BY <1>1, LiveEngine DEF Settled, SoundEngine, Faithful
<1>3. m \in Manifest /\ SoundManifest(m) /\ Covers(e.pos, m.seq)
  BY <1>1, MemoryFields, ManifestIsSound DEF RecallInv, RecallTyped, SoundMemory
<1>4. CASE e.pos = m.seq /\ Becomes(p, [proc[p] EXCEPT !.task = "written", !.ref = m])
  BY <1>1, <1>2, <1>3, <1>4, CheckpointStep
<1>5. CASE m.depth < MaxDepth /\ Becomes(p, [proc[p] EXCEPT !.task = "delta", !.ref = delta])
  <2>. DEFINE n == m.depth + 1
  <2>1. n \in Nat /\ n <= MaxDepth
    BY <1>3, <1>5, ManifestFields, IndexAssumption
  <2>. HIDE DEF n
  <2>2. delta = [base |-> m.base, seq |-> e.pos, depth |-> n]
    BY DEF n
  <2>3. delta \in Manifest /\ delta.base = m.base /\ delta.seq = e.pos /\ delta.depth = n
    BY <1>2, <1>3, <2>1, <2>2, ManifestFields, EngineFields DEF Manifest
  <2>4. Covers(e.pos, m.base.seq)
    <3>1. Covers(m.seq, m.base.seq)
      BY <1>3 DEF SoundManifest, FaithfulManifest
    <3>. QED BY <1>2, <1>3, <3>1, ManifestFields, EngineFields, CoversTransitive
  <2>. HIDE DEF delta
  <2>5. SoundManifest(delta)
    BY <1>2, <1>3, <2>1, <2>3, <2>4 DEF SoundManifest, FaithfulManifest
  <2>. QED BY <1>1, <1>2, <1>5, <2>3, <2>5, CheckpointStep
<1>6. CASE Becomes(p, [proc[p] EXCEPT !.task = "written", !.ref = full])
  <2>1. full \in Manifest /\ SoundManifest(full) /\ full.seq = e.pos
    BY <1>2, EngineImage, FullIsSound
  <2>. HIDE DEF full
  <2>. QED BY <1>1, <1>2, <1>6, <2>1, CheckpointStep
<1>. QED BY <1>4, <1>5, <1>6 DEF BeginCheckpoint

\* Moves of a process: a checkpoint is written.
LEMMA WriteDeltaMoves ==
  ASSUME RecallInv, NEW p \in Processes, WriteDelta(p)
  PROVE  ProcessMove(p)
<1>. DEFINE m == proc[p]
<1>1. m \in Memory /\ SoundMemory(m) /\ m.task = "delta" /\ Private
  BY DEF RecallInv, RecallTyped, WriteDelta
<1>2. Pending(m, m.live) /\ m.phase = "up"
  BY <1>1 DEF SoundMemory
<1>3. m.ref \in Manifest /\ SoundManifest(m.ref)
  BY <1>1, <1>2, MemoryFields, ManifestIsSound DEF SoundMemory, Pending
<1>4. [m EXCEPT !.task = "written"] = [m EXCEPT !.task = "written", !.ref = m.ref]
  BY <1>1 DEF Memory
<1>. QED BY <1>1, <1>2, <1>3, <1>4, CheckpointStep DEF WriteDelta, Pending

\* The manifest of a checkpoint is registered.
LEMMA CheckpointRegisters ==
  ASSUME RecallInv, NEW p \in Processes, proc[p].task = "written", Holds(p), consumer' = Registers(p)
  PROVE  RowsMove
<1>1. proc[p].live \in Engine /\ Pending(proc[p], proc[p].live) /\ Running(p)
  BY MemoryFields DEF RecallInv, RecallTyped, SoundMemory, Running
<1>. QED BY <1>1, RowsRegister

\* Moves of a process: a checkpoint is registered.
LEMMA RegisterCheckpointMoves ==
  ASSUME RecallInv, NEW p \in Processes, RegisterCheckpoint(p)
  PROVE  ProcessMove(p)
<1>. DEFINE m == proc[p]
            f == [m EXCEPT !.task = "none", !.manifest = m.ref]
<1>1. m \in Memory /\ SoundMemory(m) /\ m.task = "written"
  BY DEF RecallInv, RecallTyped, RegisterCheckpoint
<1>2. Becomes(p, f) /\ Quietly
  BY DEF RegisterCheckpoint, Quietly, logVars
<1>3. RowsMove
  BY CheckpointRegisters DEF RegisterCheckpoint
<1>. HIDE DEF m
<1>4. Pending(m, m.live) /\ m.phase = "up"
  BY <1>1 DEF SoundMemory
<1>5. /\ f \in Memory
      /\ f.phase = m.phase /\ f.epoch = m.epoch /\ f.manifest = m.ref /\ f.live = m.live /\ f.task = "none"
      /\ f.ref = m.ref /\ f.shadow = m.shadow
  BY <1>1 DEF Memory
<1>. HIDE DEF f
<1>6. SoundMemory(f)
  BY <1>1, <1>4, <1>5 DEF SoundMemory, Pending
<1>. QED BY <1>2, <1>3, <1>5, <1>6 DEF ProcessMove

\* Moves of a process: a checkpoint fails.
LEMMA CheckpointFailsMoves ==
  ASSUME RecallInv, NEW p \in Processes, CheckpointFails(p)
  PROVE  ProcessMove(p)
<1>1. Quietly /\ proc[p].task \in {"delta", "written"}
  BY DEF CheckpointFails, Quietly, logVars
<1>2. RowsMove
  <2>1. CASE consumer' = consumer
    BY <2>1, RowsStay
  <2>2. CASE proc[p].task = "written" /\ Holds(p) /\ consumer' = Registers(p)
    BY <2>2, CheckpointRegisters
  <2>. QED BY <2>1, <2>2 DEF CheckpointFails
<1>. DEFINE m == proc[p]
            e == [m.live EXCEPT !.fatal = TRUE]
            f(valid, unsure) == [m EXCEPT !.task = "none", !.live = e, !.valid = valid, !.unsure = unsure]
<1>3. m \in Memory /\ SoundMemory(m) /\ RecallTyped /\ m.phase = "up"
  BY <1>1 DEF RecallInv, RecallTyped, SoundMemory
<1>4. \E valid, unsure \in BOOLEAN : Becomes(p, f(valid, unsure))
  <2>1. [m EXCEPT !.task = "none", !.live.fatal = TRUE] = f(m.valid, m.unsure)
    BY <1>3 DEF Memory
  <2>2. [m EXCEPT !.task = "none", !.live.fatal = TRUE, !.unsure = TRUE] = f(m.valid, TRUE)
    BY <1>3 DEF Memory
  <2>3. [m EXCEPT !.task = "none", !.live.fatal = TRUE, !.valid = FALSE] = f(FALSE, m.unsure)
    BY <1>3 DEF Memory
  <2>4. m.valid \in BOOLEAN /\ m.unsure \in BOOLEAN
    BY <1>3, MemoryFields
  <2>. HIDE DEF f
  <2>. QED BY <2>1, <2>2, <2>3, <2>4 DEF CheckpointFails
<1>5. ASSUME NEW valid \in BOOLEAN, NEW unsure \in BOOLEAN
      PROVE  f(valid, unsure) \in Memory /\ SoundMemory(f(valid, unsure))
  <2>. DEFINE g == f(valid, unsure)
  <2>. HIDE DEF m
  <2>1. /\ e \in Engine /\ e.seq = m.live.seq /\ e.docs = m.live.docs /\ e.pos = m.live.pos /\ e.mail = m.live.mail
        /\ e.polling = m.live.polling /\ e.fatal /\ e.fresh = m.live.fresh
    BY <1>3, MemoryFields DEF Engine
  <2>. HIDE DEF e
  <2>2. /\ g \in Memory
        /\ g.phase = m.phase /\ g.epoch = m.epoch /\ g.manifest = m.manifest /\ g.live = e /\ g.task = "none"
        /\ g.ref = m.ref /\ g.shadow = m.shadow
    BY <1>3, <2>1 DEF Memory
  <2>. HIDE DEF f
  <2>3. SoundEngine(e) /\ Settled(e)
    BY <1>3, <2>1 DEF SoundMemory, SoundEngine, Faithful, Sent, Settled
  <2>4. SoundMemory(g)
    BY <1>3, <2>1, <2>2, <2>3 DEF SoundMemory
  <2>. QED BY <2>2, <2>4
<1>. HIDE DEF f
<1>. QED BY <1>1, <1>2, <1>4, <1>5 DEF ProcessMove

\* Moves of a process: a rebuild begins.
LEMMA BeginRebuildMoves ==
  ASSUME RecallInv, NEW p \in Processes, BeginRebuild(p)
  PROVE  ProcessMove(p)
<1>. DEFINE m == proc[p]
            e == Loaded(Baseline)
            f == [m EXCEPT !.task = "shadow", !.shadow = e]
<1>1. m \in Memory /\ SoundMemory(m) /\ RecallTyped /\ m.phase = "up" /\ Private /\ Becomes(p, f)
  BY DEF RecallInv, RecallTyped, BeginRebuild
<1>2. Baseline \in Image /\ Faithful(Baseline) /\ Covers(Baseline.seq, old)
  BY BaselineIsFaithful DEF RecallInv
<1>3. /\ e \in Engine /\ SoundEngine(e) /\ Settled(e) /\ ~e.fatal /\ ~e.fresh
      /\ Covers(e.seq, old)
  BY <1>1, <1>2, LoadedIsSound
<1>. HIDE DEF m, e
<1>4. /\ f \in Memory
      /\ f.phase = m.phase /\ f.epoch = m.epoch /\ f.manifest = m.manifest /\ f.live = m.live /\ f.task = "shadow"
      /\ f.ref = m.ref /\ f.shadow = e
  BY <1>1, <1>3 DEF Memory
<1>5. Private /\ Becomes(p, f)
  BY <1>1
<1>. HIDE DEF f
<1>6. SoundMemory(f)
  BY <1>1, <1>3, <1>4 DEF SoundMemory
<1>. QED BY <1>4, <1>5, <1>6, PrivateMove

\* Moves of a process: the new engine is saved.
LEMMA SaveShadowMoves ==
  ASSUME RecallInv, NEW p \in Processes, SaveShadow(p)
  PROVE  ProcessMove(p)
<1>. DEFINE m == proc[p]
            e == m.shadow
            r == Full([seq |-> e.seq, docs |-> e.docs])
            f == [m EXCEPT !.task = "saved", !.ref = r]
<1>1. m \in Memory /\ SoundMemory(m) /\ RecallTyped /\ m.task = "shadow" /\ ~e.polling /\ ~e.fatal /\ e.fresh
  BY DEF RecallInv, RecallTyped, SaveShadow, Ready
<1>2. Private /\ Becomes(p, f)
  BY DEF SaveShadow
<1>. HIDE DEF m
<1>3. /\ e \in Engine /\ SoundEngine(e) /\ Settled(e) /\ e.pos = e.seq /\ Covers(e.pos, old) /\ m.phase = "up"
  BY <1>1, MemoryFields DEF SoundMemory, Settled
<1>4. r \in Manifest /\ SoundManifest(r) /\ r.seq = e.seq
  BY <1>1, <1>3, EngineImage, FullIsSound
<1>5. r # NoManifest /\ r \in Manifests /\ Sound(r)
  BY <1>4, IndexAssumption DEF Manifests, Sound
<1>. HIDE DEF r
<1>6. /\ f \in Memory
      /\ f.phase = m.phase /\ f.epoch = m.epoch /\ f.manifest = m.manifest /\ f.live = m.live /\ f.task = "saved"
      /\ f.ref = r /\ f.shadow = m.shadow
  BY <1>1, <1>5 DEF Memory
<1>. HIDE DEF f
<1>7. Pending(f, e)
  <2>1. e.seq \in Seqs
    BY <1>3, EngineFields
  <2>2. Covers(e.seq, e.seq)
    BY <2>1 DEF Covers, Seqs
  <2>. QED BY <1>3, <1>4, <1>5, <1>6, <2>2 DEF Pending
<1>8. SoundMemory(f)
  BY <1>1, <1>3, <1>5, <1>6, <1>7 DEF SoundMemory
<1>. QED BY <1>2, <1>6, <1>8, PrivateMove

\* The manifest of a rebuild is registered.
LEMMA RebuildRegisters ==
  ASSUME RecallInv, NEW p \in Processes, proc[p].task = "saved", Holds(p), consumer' = Registers(p)
  PROVE  RowsMove
<1>1. proc[p].shadow \in Engine /\ Pending(proc[p], proc[p].shadow) /\ Running(p)
  BY MemoryFields DEF RecallInv, RecallTyped, SoundMemory, Running
<1>. QED BY <1>1, RowsRegister

\* Moves of a process: the new engine takes over.
LEMMA SwapMoves ==
  ASSUME RecallInv, NEW p \in Processes, Swap(p)
  PROVE  ProcessMove(p)
<1>. DEFINE m == proc[p]
            stray == m.stray \/ m.live.polling
            f == [m EXCEPT !.task = "none", !.manifest = m.ref, !.live = m.shadow, !.shadow = NewEngine, !.stray = stray]
<1>1. m \in Memory /\ SoundMemory(m) /\ RecallTyped /\ m.task = "saved"
  BY DEF RecallInv, RecallTyped, Swap
<1>2. Becomes(p, f) /\ Quietly
  BY DEF Swap, Quietly, logVars
<1>3. RowsMove
  BY RebuildRegisters DEF Swap
<1>. HIDE DEF m
<1>4. Pending(m, m.shadow) /\ m.phase = "up" /\ stray \in BOOLEAN
  BY <1>1, MemoryFields DEF SoundMemory
<1>. HIDE DEF stray
<1>5. NewEngine \in Engine /\ SoundEngine(NewEngine)
  BY <1>1, NewEngineIsSound
<1>6. /\ f \in Memory
      /\ f.phase = m.phase /\ f.epoch = m.epoch /\ f.manifest = m.ref /\ f.live = m.shadow /\ f.task = "none"
      /\ f.ref = m.ref /\ f.shadow = NewEngine
  BY <1>1, <1>4, <1>5 DEF Memory
<1>. HIDE DEF f
<1>7. SoundMemory(f)
  BY <1>1, <1>4, <1>5, <1>6 DEF SoundMemory, Pending
<1>. QED BY <1>2, <1>3, <1>6, <1>7 DEF ProcessMove

\* Moves of a process: a rebuild fails.
LEMMA RebuildFailsMoves ==
  ASSUME RecallInv, NEW p \in Processes, RebuildFails(p)
  PROVE  ProcessMove(p)
<1>1. Quietly /\ proc[p].task \in {"shadow", "saved"}
  BY DEF RebuildFails, Quietly, logVars
<1>2. RowsMove
  <2>1. CASE consumer' = consumer
    BY <2>1, RowsStay
  <2>2. CASE proc[p].task = "saved" /\ Holds(p) /\ consumer' = Registers(p)
    BY <2>2, RebuildRegisters
  <2>. QED BY <2>1, <2>2 DEF RebuildFails
<1>. DEFINE m == proc[p]
            f(valid, unsure) == [m EXCEPT !.task = "none", !.shadow = NewEngine, !.valid = valid, !.unsure = unsure]
<1>3. m \in Memory /\ SoundMemory(m) /\ RecallTyped /\ m.phase = "up"
  BY <1>1 DEF RecallInv, RecallTyped, SoundMemory
<1>4. \E valid, unsure \in BOOLEAN : Becomes(p, f(valid, unsure))
  <2>1. [m EXCEPT !.task = "none", !.shadow = NewEngine] = f(m.valid, m.unsure)
    BY <1>3 DEF Memory
  <2>2. [[m EXCEPT !.task = "none", !.shadow = NewEngine] EXCEPT !.unsure = TRUE] = f(m.valid, TRUE)
    BY <1>3 DEF Memory
  <2>3. [[m EXCEPT !.task = "none", !.shadow = NewEngine] EXCEPT !.valid = FALSE] = f(FALSE, m.unsure)
    BY <1>3 DEF Memory
  <2>4. m.valid \in BOOLEAN /\ m.unsure \in BOOLEAN
    BY <1>3, MemoryFields
  <2>. HIDE DEF f
  <2>. QED BY <2>1, <2>2, <2>3, <2>4 DEF RebuildFails
<1>5. ASSUME NEW valid \in BOOLEAN, NEW unsure \in BOOLEAN
      PROVE  f(valid, unsure) \in Memory /\ SoundMemory(f(valid, unsure))
  <2>. DEFINE g == f(valid, unsure)
  <2>. HIDE DEF m
  <2>1. NewEngine \in Engine /\ SoundEngine(NewEngine)
    BY <1>3, NewEngineIsSound
  <2>2. /\ g \in Memory
        /\ g.phase = m.phase /\ g.epoch = m.epoch /\ g.manifest = m.manifest /\ g.live = m.live /\ g.task = "none"
        /\ g.ref = m.ref /\ g.shadow = NewEngine
    BY <1>3, <2>1 DEF Memory
  <2>. HIDE DEF f
  <2>3. SoundMemory(g)
    BY <1>3, <2>1, <2>2 DEF SoundMemory
  <2>. QED BY <2>2, <2>3
<1>. HIDE DEF f
<1>. QED BY <1>1, <1>2, <1>4, <1>5 DEF ProcessMove

-----------------------------------------------------------------------------
(* What is not a step of a process *)

\* Rows that move as they may keep the invariant.
LEMMA RowsMoveKeep ==
  ASSUME RecallInv, Quietly, RowsMove, UNCHANGED proc
  PROVE  RecallInv'
<1>1. RecallTyped'
  BY DEF Quietly, RowsMove, RecallInv, RecallTyped
<1>2. LogIsTheTable'
  BY DEF Quietly, RecallInv, LogIsTheTable, AsOf, Revisions, Committed
<1>3. UNCHANGED <<log, old, pruned, prune>>
  BY DEF Quietly
<1>4. ASSUME NEW q \in Processes PROVE SoundMemory(proc[q])'
  <2>1. SoundMemory(proc'[q])
    BY DEF RecallInv
  <2>. QED BY <1>3, <2>1, SameLog
<1>5. ASSUME NEW c \in Consumers
      PROVE  (/\ Sound(consumer[c].manifest) /\ Spared(consumer[c].manifest)
              /\ consumer[c].manifest # NoManifest => consumer[c].epoch > 0)'
  <2>1. /\ Sound(consumer'[c].manifest) /\ Spared(consumer'[c].manifest)
        /\ consumer'[c].manifest # NoManifest => consumer'[c].epoch > 0
    BY RowsMoveSpares
  <2>2. Sound(consumer[c].manifest)'
    BY <1>3, <2>1, SameLog
  <2>3. Spared(consumer[c].manifest)'
    BY <1>3, <2>1 DEF Spared, Covers
  <2>. QED BY <2>1, <2>2, <2>3
<1>. QED BY <1>1, <1>2, <1>4, <1>5 DEF RecallInv

\* A step that changes no state of the index keeps the invariant.
LEMMA NothingMoves ==
  ASSUME RecallInv, UNCHANGED <<logVars, consumer, proc, prune>>
  PROVE  RecallInv'
<1>1. Quietly
  BY DEF Quietly, logVars
<1>2. RowsMove
  BY DEF RowsMove, RecallInv, RecallTyped, Row
<1>. QED BY <1>1, <1>2, RowsMoveKeep

\* A lease expires.
LEMMA ExpireKeeps ==
  ASSUME RecallInv, NEW c \in Consumers, Expire(c)
  PROVE  RecallInv'
<1>1. consumer \in [Consumers -> Row] /\ consumer' = [consumer EXCEPT ![c].leased = FALSE]
  BY DEF RecallInv, RecallTyped, Expire
<1>2. ASSUME NEW k \in Consumers
      PROVE  consumer'[k] \in Row /\ consumer'[k].manifest = consumer[k].manifest /\ consumer'[k].epoch = consumer[k].epoch
  <2>1. consumer[k] \in Row
    BY <1>1
  <2>2. consumer'[k] = consumer[k] \/ consumer'[k] = [consumer[k] EXCEPT !.leased = FALSE]
    BY <1>1
  <2>3. LET f == [consumer[k] EXCEPT !.leased = FALSE]
        IN f \in Row /\ f.epoch = consumer[k].epoch /\ f.manifest = consumer[k].manifest
    BY <2>1 DEF Row
  <2>. QED BY <2>1, <2>2, <2>3
<1>3. consumer' \in [Consumers -> Row]
  BY <1>1 DEF Row
<1>4. RowsMove
  <2>1. \A k \in Consumers : consumer[k].epoch \in Nat
    BY <1>1 DEF Row
  <2>2. \A k \in Consumers : consumer'[k].manifest = consumer[k].manifest /\ consumer'[k].epoch >= consumer[k].epoch
    BY <1>2, <2>1
  <2>. QED BY <1>3, <2>2 DEF RowsMove
<1>5. Quietly /\ UNCHANGED proc
  BY DEF Expire, Quietly, logVars
<1>. QED BY <1>4, <1>5, RowsMoveKeep

\* Every step of a process keeps the invariant.
LEMMA ProcessStepKeeps ==
  ASSUME RecallInv, NEW p \in Processes, ProcessStep(p)
  PROVE  RecallInv'
<1>1. CASE \/ Start(p) \/ TimerFails(p) \/ Crash(p) \/ Close(p)
           \/ Restore(p) \/ Restored(p) \/ WriteBaseline(p) \/ RegisterBaseline(p) \/ StartFails(p)
  BY <1>1, ProcessMoves, StartMoves, TimerFailsMoves, EndMoves, RestoreMoves, RestoredMoves,
     WriteBaselineMoves, RegisterBaselineMoves
<1>2. CASE \E r \in Roles : StartPoll(p, r) \/ FinishPoll(p, r) \/ \E s \in Shards : Apply(p, r, s)
  BY <1>2, ProcessMoves, StartPollMoves, FinishPollMoves, ApplyMoves
<1>3. CASE PollFails(p) \/ GoesStale(p) \/ StrayEnds(p) \/ \E s \in Shards : Refuse(p, s)
  BY <1>3, ProcessMoves, PollFailsMoves, GoesStaleMoves, StrayEndsMoves, RefuseMoves
<1>4. CASE \/ BeginCheckpoint(p) \/ WriteDelta(p) \/ RegisterCheckpoint(p) \/ CheckpointFails(p)
           \/ BeginRebuild(p) \/ SaveShadow(p) \/ Swap(p) \/ RebuildFails(p)
  BY <1>4, ProcessMoves, BeginCheckpointMoves, WriteDeltaMoves, RegisterCheckpointMoves, CheckpointFailsMoves,
     BeginRebuildMoves, SaveShadowMoves, SwapMoves, RebuildFailsMoves
<1>5. CASE (\E need \in [Shards -> 0..MaxSeq] : Check(p, need)) \/ Answer(p)
  <2>1. UNCHANGED <<logVars, consumer, proc, prune>>
    BY <1>5 DEF Check, Answer
  <2>. QED BY <2>1, NothingMoves
<1>. QED BY <1>1, <1>2, <1>3, <1>4, <1>5 DEF ProcessStep

-----------------------------------------------------------------------------
(* The log grows *)

Grows == \A s \in Shards : Len(log[s]) <= Len(log'[s]) /\ \A n \in 1..Len(log[s]) : log'[s][n] = log[s][n]

\* An image stays faithful when the log grows.
LEMMA FaithfulGrows ==
  ASSUME RecallTyped, RecallTyped', Grows, NEW image, image.seq \in Seqs, Faithful(image)
  PROVE  Faithful(image)'
<1>1. ASSUME NEW s \in Shards
      PROVE  /\ image.seq[s] \in Nat /\ image.seq[s] <= Len(log[s]) /\ image.seq[s] <= Len(log'[s])
             /\ \A n \in 1..image.seq[s] : log'[s][n] = log[s][n]
  <2>1. image.seq[s] \in Nat /\ Len(log[s]) \in Nat /\ Len(log'[s]) \in Nat
    BY DEF Seqs, RecallTyped
  <2>2. image.seq[s] <= Len(log[s])
    BY CommittedType DEF Faithful, Covers
  <2>3. Len(log[s]) <= Len(log'[s])
    BY DEF Grows
  <2>. QED BY <2>1, <2>2, <2>3 DEF Grows
<1>2. Covers(Committed, image.seq)'
  <2> SUFFICES ASSUME NEW s \in Shards PROVE image.seq[s] <= Len(log'[s])
    BY DEF Covers, Committed
  <2>. QED BY <1>1
<1>3. AsOf(image.docs, image.seq)'
  <2>1. \A d \in Docs : ShardOf[d] \in Shards
    BY LogAssumption
  <2>2. AsOf(image.docs, image.seq)
    BY DEF Faithful
  <2>. QED BY <1>1, <2>1, <2>2 DEF AsOf
<1>. QED BY <1>2, <1>3 DEF Faithful

\* An engine stays sound when the log grows.
LEMMA EngineGrows ==
  ASSUME RecallTyped, RecallTyped', Grows, NEW e \in Engine, SoundEngine(e)
  PROVE  SoundEngine(e)'
<1>1. Faithful(e)'
  BY EngineFields, FaithfulGrows DEF SoundEngine
<1>2. Sent(e)'
  <2> SUFFICES ASSUME NEW s \in Shards, e.mail[s] # Quiet
               PROVE  1 <= e.mail[s].next /\ e.mail[s].next <= e.mail[s].last /\ e.mail[s].last <= Len(log'[s])
    BY DEF Sent
  <2>1. e.mail[s].last \in Nat /\ Len(log[s]) \in Nat /\ Len(log'[s]) \in Nat /\ Len(log[s]) <= Len(log'[s])
    BY EngineFields DEF Message, Grows, RecallTyped
  <2>2. 1 <= e.mail[s].next /\ e.mail[s].next <= e.mail[s].last /\ e.mail[s].last <= Len(log[s])
    BY DEF SoundEngine, Sent
  <2>. QED BY <2>1, <2>2
<1>. QED BY <1>1, <1>2 DEF SoundEngine, Covers

\* A manifest stays sound when the log grows.
LEMMA ManifestGrows ==
  ASSUME RecallTyped, RecallTyped', Grows, NEW m \in Manifests, Sound(m)
  PROVE  Sound(m)'
<1> SUFFICES ASSUME m # NoManifest PROVE SoundManifest(m)'
  BY DEF Sound
<1>1. m \in Manifest /\ SoundManifest(m)
  BY ManifestIsSound
<1>2. Faithful(m.base)'
  BY <1>1, ManifestFields, FaithfulGrows DEF SoundManifest, FaithfulManifest
<1>3. Covers(Committed, m.seq)'
  <2> SUFFICES ASSUME NEW s \in Shards PROVE m.seq[s] <= Len(log'[s])
    BY DEF Covers, Committed
  <2>1. m.seq[s] \in Nat /\ Len(log[s]) \in Nat /\ Len(log'[s]) \in Nat /\ Len(log[s]) <= Len(log'[s])
    BY <1>1, ManifestFields DEF Grows, RecallTyped, Seqs
  <2>2. m.seq[s] <= Len(log[s])
    BY <1>1, CommittedType DEF SoundManifest, FaithfulManifest, Covers
  <2>. QED BY <2>1, <2>2
<1>. QED BY <1>1, <1>2, <1>3 DEF SoundManifest, FaithfulManifest, Covers

\* A process stays sound when the log grows.
LEMMA MemoryGrows ==
  ASSUME RecallTyped, RecallTyped', Grows, UNCHANGED old, NEW m \in Memory, SoundMemory(m)
  PROVE  SoundMemory(m)'
<1>1. SoundEngine(m.live)' /\ SoundEngine(m.shadow)' /\ Sound(m.manifest)' /\ Sound(m.ref)'
  BY MemoryFields, EngineGrows, ManifestGrows DEF SoundMemory
<1>. QED BY <1>1 DEF SoundMemory, Settled, Delivered, Pending, Covers

\* A change of an ad, and its event.
LEMMA EmitGrows ==
  ASSUME RecallTyped, LogIsTheTable, NEW d \in Docs, NEW attrs \in Content, NEW read \in Content, Emit(d, attrs, read)
  PROVE  /\ table' \in [Docs -> Version] /\ log' \in [Shards -> Seq(Event)] /\ Grows
         /\ \A s \in Shards : \A n \in 1..Len(log'[s]) : ShardOf[log'[s][n].doc] = s
         /\ UNCHANGED <<pruned, old>> /\ LogIsTheTable'
<1>. DEFINE s == ShardOf[d]
            rev == table[d].rev + 1
            event == [doc |-> d, rev |-> rev, attrs |-> read]
<1>1. s \in Shards /\ log \in [Shards -> Seq(Event)] /\ table \in [Docs -> Version]
  BY LogAssumption DEF RecallTyped
<1>2. table[d].rev \in Nat /\ rev \in Nat /\ rev > table[d].rev
  BY <1>1 DEF Version
<1>3. /\ table' = [table EXCEPT ![d] = [rev |-> rev, attrs |-> attrs]] /\ log' = [log EXCEPT ![s] = Append(log[s], event)]
      /\ UNCHANGED <<pruned, old>>
  BY DEF Emit
<1>. HIDE DEF rev
<1>4. event \in Event /\ event.doc = d /\ event.rev = rev
  BY <1>2 DEF Event
<1>5. table' \in [Docs -> Version] /\ table'[d].rev = rev /\ \A k \in Docs : k # d => table'[k].rev = table[k].rev
  BY <1>1, <1>2, <1>3 DEF Version
<1>. HIDE DEF event
<1>6. log' \in [Shards -> Seq(Event)] /\ log'[s] = Append(log[s], event) /\ \A t \in Shards : t # s => log'[t] = log[t]
  BY <1>1, <1>3, <1>4
<1>7. /\ Len(log'[s]) = Len(log[s]) + 1 /\ log'[s][Len(log[s]) + 1] = event /\ Len(log[s]) \in Nat
      /\ \A n \in 1..Len(log[s]) : log'[s][n] = log[s][n]
  BY <1>1, <1>4, <1>6
<1>8. Grows
  <2> SUFFICES ASSUME NEW t \in Shards
               PROVE  Len(log[t]) <= Len(log'[t]) /\ \A n \in 1..Len(log[t]) : log'[t][n] = log[t][n]
    BY DEF Grows
  <2>1. CASE t = s
    BY <1>7, <2>1
  <2>2. CASE t # s
    <3>1. Len(log[t]) \in Nat /\ log'[t] = log[t]
      BY <1>1, <1>6, <2>2
    <3>. QED BY <3>1
  <2>. QED BY <2>1, <2>2
<1>9. ASSUME NEW t \in Shards, NEW n \in 1..Len(log'[t])
      PROVE  ShardOf[log'[t][n].doc] = t
  <2>1. CASE t # s
    BY <1>6, <2>1 DEF RecallTyped
  <2>2. CASE t = s
    <3>1. n \in 1..Len(log[s]) \/ n = Len(log[s]) + 1
      BY <1>7, <2>2
    <3>. QED BY <1>1, <1>4, <1>7, <2>2, <3>1 DEF RecallTyped
  <2>. QED BY <2>1, <2>2
<1>10. ASSUME NEW k \in Docs
       PROVE  /\ \A n \in 1..Len(log'[ShardOf[k]]) : log'[ShardOf[k]][n].doc = k => log'[ShardOf[k]][n].rev <= table'[k].rev
              /\ \/ table'[k].rev = 0
                 \/ \E n \in 1..Len(log'[ShardOf[k]]) : log'[ShardOf[k]][n].doc = k /\ log'[ShardOf[k]][n].rev = table'[k].rev
  <2>. DEFINE t == ShardOf[k]
  <2>1. t \in Shards
    BY LogAssumption
  <2>2. /\ \A n \in 1..Len(log[t]) : log[t][n].doc = k => log[t][n].rev <= table[k].rev
        /\ table[k].rev = 0 \/ \E n \in 1..Len(log[t]) : log[t][n].doc = k /\ log[t][n].rev = table[k].rev
    BY <2>1 DEF LogIsTheTable, AsOf, Revisions, Committed
  <2>3. CASE t # s
    BY <1>5, <1>6, <2>1, <2>2, <2>3
  <2>4. CASE t = s /\ k # d
    <3>1. table'[k].rev = table[k].rev
      BY <1>5, <2>4
    <3>2. ASSUME NEW n \in 1..Len(log'[t]), log'[t][n].doc = k
          PROVE  log'[t][n].rev <= table'[k].rev
      <4>1. n \in 1..Len(log[s])
        BY <1>4, <1>7, <2>4, <3>2
      <4>. QED BY <1>7, <2>2, <2>4, <3>1, <3>2, <4>1
    <3>3. \A n \in 1..Len(log[t]) : n \in 1..Len(log'[t]) /\ log'[t][n] = log[t][n]
      BY <1>7, <2>4
    <3>. QED BY <2>2, <3>1, <3>2, <3>3
  <2>5. CASE k = d
    <3>1. ASSUME NEW n \in 1..Len(log'[t]), log'[t][n].doc = k
          PROVE  log'[t][n].rev <= table'[k].rev
      <4>1. CASE n \in 1..Len(log[s])
        <5>1. log[s][n].rev <= table[d].rev /\ log'[s][n] = log[s][n]
          BY <1>7, <2>2, <2>5, <3>1, <4>1
        <5>2. log[s][n].rev \in Nat
          BY <1>1, <4>1, EventType DEF Event
        <5>. QED BY <1>2, <1>5, <2>5, <5>1, <5>2
      <4>2. CASE n = Len(log[s]) + 1
        BY <1>2, <1>4, <1>5, <1>7, <2>5, <4>2
      <4>. QED BY <1>7, <2>5, <4>1, <4>2
    <3>2. Len(log[s]) + 1 \in 1..Len(log'[t])
      BY <1>7, <2>5
    <3>. QED BY <1>4, <1>5, <1>7, <2>5, <3>1, <3>2
  <2>. QED BY <2>3, <2>4, <2>5
<1>11. AsOf(Revisions, Committed)'
  <2> SUFFICES ASSUME NEW k \in Docs
               PROVE  /\ \A n \in 1..Len(log'[ShardOf[k]]) : log'[ShardOf[k]][n].doc = k => log'[ShardOf[k]][n].rev <= table'[k].rev
                      /\ \/ table'[k].rev = 0
                         \/ \E n \in 1..Len(log'[ShardOf[k]]) : log'[ShardOf[k]][n].doc = k /\ log'[ShardOf[k]][n].rev = table'[k].rev
    BY LogAssumption DEF AsOf, Revisions, Committed
  <2>. QED BY <1>10
<1>12. ASSUME NEW t \in Shards PROVE pruned'[t] <= old'[t] /\ old'[t] <= Len(log'[t])
  <2>1. old[t] \in Nat /\ Len(log[t]) \in Nat /\ Len(log'[t]) \in Nat
    BY <1>1, <1>6 DEF RecallTyped, Seqs
  <2>2. pruned[t] <= old[t] /\ old[t] <= Len(log[t]) /\ Len(log[t]) <= Len(log'[t])
    BY <1>8 DEF LogIsTheTable, Grows
  <2>. QED BY <1>3, <2>1, <2>2
<1>. QED BY <1>3, <1>5, <1>6, <1>8, <1>9, <1>11, <1>12 DEF LogIsTheTable

\* An event is committed.
LEMMA LogStepKeeps ==
  ASSUME RecallInv, LogStep
  PROVE  RecallInv'
<1>1. RecallTyped /\ LogIsTheTable /\ UNCHANGED <<consumer, proc, prune>>
  BY DEF RecallInv, LogStep
<1>2. Change
  BY DEF LogStep
<1>3. CASE \E d \in Docs, attrs \in Content, read \in Content : Emit(d, attrs, read) /\ click' \in {click, NoClick}
  <2>1. PICK d \in Docs, attrs \in Content, read \in Content : Emit(d, attrs, read) /\ click' \in {click, NoClick}
    BY <1>3
  <2>2. /\ table' \in [Docs -> Version] /\ log' \in [Shards -> Seq(Event)] /\ Grows
        /\ \A s \in Shards : \A n \in 1..Len(log'[s]) : ShardOf[log'[s][n].doc] = s
        /\ UNCHANGED <<pruned, old>> /\ LogIsTheTable'
    BY <1>1, <2>1, EmitGrows
  <2>3. click' # NoClick => click' \in [doc : Docs, attrs : Content]
    BY <1>1, <2>1 DEF RecallTyped
  <2>4. RecallTyped'
    BY <1>1, <2>2, <2>3 DEF RecallTyped
  <2>5. ASSUME NEW p \in Processes PROVE SoundMemory(proc[p])'
    <3>1. proc[p] \in Memory /\ SoundMemory(proc[p]) /\ proc'[p] = proc[p]
      BY <1>1 DEF RecallInv, RecallTyped
    <3>. QED BY <1>1, <2>2, <2>4, <3>1, MemoryGrows
  <2>6. ASSUME NEW c \in Consumers
        PROVE  (/\ Sound(consumer[c].manifest) /\ Spared(consumer[c].manifest)
                /\ consumer[c].manifest # NoManifest => consumer[c].epoch > 0)'
    <3>1. /\ consumer[c].manifest \in Manifests /\ Sound(consumer[c].manifest) /\ Spared(consumer[c].manifest)
          /\ consumer[c].manifest # NoManifest => consumer[c].epoch > 0
      BY DEF RecallInv, RecallTyped, Row
    <3>2. Sound(consumer[c].manifest)'
      BY <1>1, <2>2, <2>4, <3>1, ManifestGrows
    <3>3. Spared(consumer[c].manifest)'
      BY <1>1, <2>2, <3>1 DEF Spared, Covers
    <3>. QED BY <1>1, <3>1, <3>2, <3>3
  <2>. QED BY <2>2, <2>4, <2>5, <2>6 DEF RecallInv
<1>4. CASE UNCHANGED <<table, log, pruned, old>> /\ (click' # NoClick => click' \in [doc : Docs, attrs : Content])
  <2>1. RecallTyped'
    BY <1>1, <1>4 DEF RecallTyped
  <2>2. LogIsTheTable'
    BY <1>1, <1>4 DEF LogIsTheTable, AsOf, Revisions, Committed
  <2>3. ASSUME NEW p \in Processes PROVE SoundMemory(proc[p])'
    <3>1. SoundMemory(proc'[p])
      BY <1>1 DEF RecallInv
    <3>. QED BY <1>4, <3>1, SameLog
  <2>4. ASSUME NEW c \in Consumers
        PROVE  (/\ Sound(consumer[c].manifest) /\ Spared(consumer[c].manifest)
                /\ consumer[c].manifest # NoManifest => consumer[c].epoch > 0)'
    <3>1. /\ Sound(consumer'[c].manifest) /\ Spared(consumer[c].manifest)
          /\ consumer[c].manifest # NoManifest => consumer[c].epoch > 0
      BY <1>1 DEF RecallInv
    <3>2. Sound(consumer[c].manifest)'
      BY <1>4, <3>1, SameLog
    <3>3. Spared(consumer[c].manifest)'
      BY <1>1, <1>4, <3>1 DEF Spared, Covers
    <3>. QED BY <1>1, <3>1, <3>2, <3>3
  <2>. QED BY <2>1, <2>2, <2>3, <2>4 DEF RecallInv
<1>5. ASSUME NEW d \in Docs, NEW a \in Attrs, Create(d, a) \/ Update(d, a)
      PROVE  \E k \in Docs, attrs \in Content, read \in Content : Emit(k, attrs, read) /\ click' \in {click, NoClick}
  <2>1. a \in Content /\ Emit(d, a, a) /\ click' = click
    BY <1>5 DEF Create, Update, Content
  <2>. QED BY <2>1
<1>6. ASSUME NEW d \in Docs, Remove(d)
      PROVE  \E k \in Docs, attrs \in Content, read \in Content : Emit(k, attrs, read) /\ click' \in {click, NoClick}
  <2>1. Gone \in Content /\ Emit(d, Gone, Gone) /\ click' = click
    BY <1>6 DEF Remove, Content
  <2>. QED BY <2>1
<1>7. ASSUME EndClick
      PROVE  \E k \in Docs, attrs \in Content, read \in Content : Emit(k, attrs, read) /\ click' \in {click, NoClick}
  <2>1. click \in [doc : Docs, attrs : Content]
    BY <1>1, <1>7 DEF EndClick, RecallTyped
  <2>2. click.doc \in Docs /\ click.attrs \in Content
    BY <2>1
  <2>3. table[click.doc].attrs \in Content
    BY <1>1, <2>2 DEF RecallTyped, Version
  <2>4. Emit(click.doc, table[click.doc].attrs, click.attrs) /\ click' = NoClick
    BY <1>7 DEF EndClick
  <2>. QED BY <2>2, <2>3, <2>4
<1>8. ASSUME NEW d \in Docs, BeginClick(d)
      PROVE  UNCHANGED <<table, log, pruned, old>> /\ (click' # NoClick => click' \in [doc : Docs, attrs : Content])
  <2>1. table[d].attrs \in Content
    BY <1>1 DEF RecallTyped, Version
  <2>. QED BY <1>8, <2>1 DEF BeginClick
<1>9. ASSUME DropClick
      PROVE  UNCHANGED <<table, log, pruned, old>> /\ (click' # NoClick => click' \in [doc : Docs, attrs : Content])
  BY <1>9 DEF DropClick
<1>. QED BY <1>2, <1>3, <1>4, <1>5, <1>6, <1>7, <1>8, <1>9 DEF Change

-----------------------------------------------------------------------------
(* Pruning, and the passing of a day *)

\* A step of the pruning script: no process and no row changes.
LEMMA PruneKeeps ==
  ASSUME RecallInv, UNCHANGED <<table, log, old, click, consumer, proc>>,
         pruned' \in Seqs, prune' \in SUBSET Seqs, \A s \in Shards : pruned'[s] <= old[s],
         \A c \in Consumers : Spared(consumer[c].manifest)'
  PROVE  RecallInv'
<1>1. RecallTyped'
  BY DEF RecallInv, RecallTyped
<1>2. LogIsTheTable'
  BY DEF RecallInv, LogIsTheTable, AsOf, Revisions, Committed
<1>3. ASSUME NEW q \in Processes PROVE SoundMemory(proc[q])'
  <2>1. SoundMemory(proc'[q])
    BY DEF RecallInv
  <2>. QED BY <2>1, SameLog
<1>4. ASSUME NEW c \in Consumers
      PROVE  (Sound(consumer[c].manifest) /\ (consumer[c].manifest # NoManifest => consumer[c].epoch > 0))'
  <2>1. Sound(consumer'[c].manifest) /\ (consumer'[c].manifest # NoManifest => consumer'[c].epoch > 0)
    BY DEF RecallInv
  <2>. QED BY <2>1, SameLog
<1>. QED BY <1>1, <1>2, <1>3, <1>4 DEF RecallInv

\* The pruner reads the watermarks.
LEMMA ReadWatermarksKeeps ==
  ASSUME RecallInv, ReadWatermarks
  PROVE  RecallInv'
<1>1. UNCHANGED <<table, log, pruned, old, click, consumer, proc>> /\ prune' = Watermarks
  BY DEF ReadWatermarks, logVars
<1>2. ASSUME NEW c \in Known PROVE consumer[c].manifest.seq \in Seqs
  <2>1. c \in Consumers /\ consumer[c].manifest # NoManifest /\ consumer[c].manifest \in Manifests
    BY DEF Known, ReadWatermarks, RecallInv, RecallTyped, Row
  <2>. QED BY <2>1, ManifestFields DEF Manifests
<1>3. Watermarks \in SUBSET Seqs
  BY <1>2 DEF Watermarks
<1>4. ASSUME NEW c \in Consumers PROVE Spared(consumer[c].manifest)'
  <2> SUFFICES ASSUME consumer[c].manifest # NoManifest
               PROVE  /\ Covers(consumer[c].manifest.seq, pruned)
                      /\ \A s \in Shards, n \in Nat : n <= old[s] /\ (\A mark \in Watermarks : n <= mark[s]) => n <= consumer[c].manifest.seq[s]
    BY <1>1 DEF Spared, Covers
  <2>1. c \in Known /\ Spared(consumer[c].manifest)
    BY DEF RecallInv, Known
  <2>2. consumer[c].manifest.seq \in Watermarks
    BY <2>1 DEF Watermarks
  <2>. QED BY <2>1, <2>2 DEF Spared
<1>5. \A s \in Shards : pruned[s] <= old[s]
  BY DEF RecallInv, LogIsTheTable
<1>6. pruned \in Seqs
  BY DEF RecallInv, RecallTyped
<1>. QED BY <1>1, <1>3, <1>4, <1>5, <1>6, PruneKeeps

\* The pruner deletes events.
LEMMA DeleteEventsKeeps ==
  ASSUME RecallInv, NEW s \in Shards, NEW upto \in 1..MaxSeq, DeleteEvents(s, upto)
  PROVE  RecallInv'
<1>1. /\ UNCHANGED <<table, log, old, click, consumer, proc, prune>> /\ pruned' = [pruned EXCEPT ![s] = upto]
      /\ prune # {} /\ upto <= old[s] /\ \A mark \in prune : upto <= mark[s]
  BY DEF DeleteEvents
<1>2. pruned \in Seqs /\ prune \in SUBSET Seqs /\ upto \in Nat /\ \A t \in Shards : pruned[t] <= old[t]
  BY LogAssumption DEF RecallInv, RecallTyped, LogIsTheTable
<1>3. pruned' \in Seqs /\ pruned'[s] = upto /\ \A t \in Shards : t # s => pruned'[t] = pruned[t]
  BY <1>1, <1>2 DEF Seqs
<1>4. \A t \in Shards : pruned'[t] <= old[t]
  BY <1>1, <1>2, <1>3
<1>5. ASSUME NEW c \in Consumers PROVE Spared(consumer[c].manifest)'
  <2> SUFFICES ASSUME consumer[c].manifest # NoManifest
               PROVE  /\ Covers(consumer[c].manifest.seq, pruned')
                      /\ \A t \in Shards, n \in Nat : n <= old[t] /\ (\A mark \in prune : n <= mark[t]) => n <= consumer[c].manifest.seq[t]
    BY <1>1 DEF Spared, Covers
  <2>1. /\ Covers(consumer[c].manifest.seq, pruned)
        /\ \A t \in Shards, n \in Nat : n <= old[t] /\ (\A mark \in prune : n <= mark[t]) => n <= consumer[c].manifest.seq[t]
    BY <1>1 DEF RecallInv, Spared
  <2>2. upto <= consumer[c].manifest.seq[s]
    BY <1>1, <1>2, <2>1
  <2>3. Covers(consumer[c].manifest.seq, pruned')
    <3> SUFFICES ASSUME NEW t \in Shards PROVE pruned'[t] <= consumer[c].manifest.seq[t]
      BY DEF Covers
    <3>. QED BY <1>3, <2>1, <2>2 DEF Covers
  <2>. QED BY <2>1, <2>3
<1>. QED BY <1>1, <1>2, <1>3, <1>4, <1>5, PruneKeeps

\* The pruner ends.
LEMMA EndPruneKeeps ==
  ASSUME RecallInv, EndPrune
  PROVE  RecallInv'
<1>1. UNCHANGED <<table, log, pruned, old, click, consumer, proc>> /\ prune' = {}
  BY DEF EndPrune, logVars
<1>2. ASSUME NEW c \in Consumers PROVE Spared(consumer[c].manifest)'
  BY <1>1 DEF RecallInv, Spared, Covers
<1>3. pruned \in Seqs /\ \A s \in Shards : pruned[s] <= old[s]
  BY DEF RecallInv, RecallTyped, LogIsTheTable
<1>. QED BY <1>1, <1>2, <1>3, PruneKeeps

\* More events are a day old: what a process holds, and is about to register, is not.
LEMMA MemoryAges ==
  ASSUME RecallInv, NEW p \in Processes, NEW s \in Shards, NEW n \in Nat, Recent(p, s, n),
         UNCHANGED log, old' = [old EXCEPT ![s] = n]
  PROVE  SoundMemory(proc[p]) /\ LET m == proc[p] IN
         /\ m.phase = "up" /\ m.live.fresh => Covers(m.live.pos, old')
         /\ m.phase = "baselined" \/ m.task \in {"delta", "written", "saved"} => Covers(m.ref.seq, old')
         /\ m.task = "shadow" => Covers(m.shadow.seq, old')
         /\ m.task \in {"shadow", "saved"} /\ m.shadow.fresh => Covers(m.shadow.pos, old')
<1>. DEFINE m == proc[p]
<1>1. m \in Memory /\ SoundMemory(m) /\ RecallTyped
  BY DEF RecallInv, RecallTyped
<1>2. old \in Seqs /\ old'[s] = n /\ \A t \in Shards : t # s => old'[t] = old[t]
  BY <1>1 DEF RecallTyped, Seqs
<1>3. /\ m.phase = "up" /\ m.live.fresh => n <= m.live.pos[s]
      /\ m.phase = "baselined" \/ m.task \in {"delta", "written", "saved"} => n <= m.ref.seq[s]
      /\ m.task = "shadow" => n <= m.shadow.seq[s]
  BY DEF Recent
<1>. HIDE DEF m
<1>4. m.phase = "up" /\ m.live.fresh => Covers(m.live.pos, old')
  BY <1>1, <1>2, <1>3 DEF SoundMemory, Covers
<1>5. m.phase = "baselined" \/ m.task \in {"delta", "written", "saved"} => Covers(m.ref.seq, old')
  BY <1>1, <1>2, <1>3 DEF SoundMemory, Pending, Covers
<1>6. m.task = "shadow" => Covers(m.shadow.seq, old')
  BY <1>1, <1>2, <1>3 DEF SoundMemory, Covers
<1>7. ASSUME m.task = "shadow", m.shadow.fresh PROVE Covers(m.shadow.pos, old')
  BY <1>1, <1>6, <1>7 DEF SoundMemory, Settled
<1>8. ASSUME m.task = "saved" PROVE Covers(m.shadow.pos, old')
  <2>1. m.ref \in Manifest /\ Covers(m.shadow.pos, m.ref.seq)
    BY <1>1, <1>8, MemoryFields DEF SoundMemory, Pending, Manifests
  <2>2. m.ref.seq \in Seqs /\ m.shadow.pos \in Seqs
    BY <1>1, <2>1, MemoryFields, ManifestFields, EngineFields
  <2>3. old' \in Seqs
    BY <1>1 DEF RecallTyped, Seqs
  <2>. QED BY <1>5, <1>8, <2>1, <2>2, <2>3, CoversTransitive
<1>. QED BY <1>1, <1>4, <1>5, <1>6, <1>7, <1>8 DEF m

\* Events of a shard grow old.
LEMMA AgesKeeps ==
  ASSUME RecallInv, NEW s \in Shards, Ages(s)
  PROVE  RecallInv'
<1>1. PICK n \in 1..Len(log[s]) : /\ old[s] < n /\ \A p \in Processes : Recent(p, s, n)
                                  /\ old' = [old EXCEPT ![s] = n]
  BY DEF Ages
<1>2. UNCHANGED <<table, log, pruned, click, consumer, proc, prune>> /\ prune = {}
  BY DEF Ages
<1>3. /\ RecallTyped /\ old \in Seqs /\ pruned \in Seqs /\ Len(log[s]) \in Nat
      /\ \A t \in Shards : pruned[t] <= old[t] /\ old[t] <= Len(log[t])
  BY DEF RecallInv, RecallTyped, LogIsTheTable
<1>4. n \in Nat /\ old' \in Seqs /\ old'[s] = n /\ \A t \in Shards : t # s => old'[t] = old[t]
  BY <1>1, <1>3 DEF Seqs
<1>5. RecallTyped'
  BY <1>2, <1>3, <1>4 DEF RecallTyped
<1>6. LogIsTheTable'
  <2>1. ASSUME NEW t \in Shards PROVE pruned[t] <= old'[t] /\ old'[t] <= Len(log[t])
    <3>1. pruned[t] \in Nat /\ old[t] \in Nat
      BY <1>3 DEF Seqs
    <3>. QED BY <1>1, <1>3, <1>4, <3>1
  <2>. QED BY <1>2, <2>1 DEF RecallInv, LogIsTheTable, AsOf, Revisions, Committed
<1>7. ASSUME NEW p \in Processes PROVE SoundMemory(proc[p])'
  <2>. DEFINE m == proc[p]
  <2>1. /\ SoundMemory(m)
        /\ m.phase = "up" /\ m.live.fresh => Covers(m.live.pos, old')
        /\ m.phase = "baselined" \/ m.task \in {"delta", "written", "saved"} => Covers(m.ref.seq, old')
        /\ m.task = "shadow" => Covers(m.shadow.seq, old')
        /\ m.task \in {"shadow", "saved"} /\ m.shadow.fresh => Covers(m.shadow.pos, old')
    BY <1>1, <1>2, <1>4, MemoryAges
  <2>2. UNCHANGED log /\ m' = m
    BY <1>2
  <2>. HIDE DEF m
  <2>3. SoundMemory(m)'
    <3>1. SoundEngine(m.live)' /\ SoundEngine(m.shadow)' /\ Sound(m.manifest)' /\ Sound(m.ref)'
      BY <2>1, <2>2 DEF SoundMemory, SoundEngine, Faithful, AsOf, Sent, Sound, SoundManifest, FaithfulManifest, Committed, Covers
    <3>2. (m.phase = "baselined" => Pending(m, m.live))' /\ (m.task \in {"delta", "written"} => Pending(m, m.live))'
          /\ (m.task = "saved" => Pending(m, m.shadow))'
      BY <2>1, <2>2 DEF SoundMemory, Pending, Covers
    <3>. QED BY <2>1, <2>2, <3>1, <3>2 DEF SoundMemory, Settled, Delivered, Covers
  <2>. QED BY <2>3 DEF m
<1>8. ASSUME NEW c \in Consumers
      PROVE  (/\ Sound(consumer[c].manifest) /\ Spared(consumer[c].manifest)
              /\ consumer[c].manifest # NoManifest => consumer[c].epoch > 0)'
  <2>1. /\ Sound(consumer[c].manifest) /\ Spared(consumer[c].manifest)
        /\ consumer[c].manifest # NoManifest => consumer[c].epoch > 0
    BY DEF RecallInv
  <2>2. Sound(consumer[c].manifest)'
    BY <1>2, <2>1 DEF Sound, SoundManifest, FaithfulManifest, Faithful, AsOf, Committed, Covers
  <2>3. Spared(consumer[c].manifest)'
    BY <1>2, <2>1 DEF Spared, Covers
  <2>. QED BY <1>2, <2>1, <2>2, <2>3
<1>. QED BY <1>5, <1>6, <1>7, <1>8 DEF RecallInv

-----------------------------------------------------------------------------
(* The theorems *)

\* The invariant holds at first.
LEMMA RecallInit ==
  ASSUME Init
  PROVE  RecallInv
<1>1. /\ table = [d \in Docs |-> [rev |-> 0, attrs |-> Gone]] /\ log = [s \in Shards |-> <<>>]
      /\ pruned = [s \in Shards |-> 0] /\ old = [s \in Shards |-> 0] /\ click = NoClick
      /\ consumer = [c \in Consumers |-> [epoch |-> 0, leased |-> FALSE, manifest |-> NoManifest]]
      /\ proc = [p \in Processes |-> Off] /\ prune = {}
  BY DEF Init, LogInit
<1>2. /\ table \in [Docs -> Version] /\ log \in [Shards -> Seq(Event)] /\ pruned \in Seqs /\ old \in Seqs
      /\ \A s \in Shards : Len(log[s]) = 0
      /\ consumer \in [Consumers -> Row]
  BY <1>1 DEF Version, Content, Seqs, Row, Manifests
<1>a. \A s \in Shards : pruned[s] = 0 /\ old[s] = 0
  BY <1>1
<1>b. \A d \in Docs : table[d].rev = 0
  BY <1>1
<1>3. Off \in Memory
  BY QuietIsAMessage DEF Off, NewEngine, Loaded, EmptyImage, Memory, Manifests, Engine, Seqs
<1>c. click = NoClick /\ proc \in [Processes -> Memory] /\ prune \in SUBSET Seqs
  BY <1>1, <1>3
<1>4. RecallTyped
  <2>1. \A s \in Shards : \A n \in 1..Len(log[s]) : ShardOf[log[s][n].doc] = s
    BY <1>2
  <2>. QED BY <1>2, <1>c, <2>1 DEF RecallTyped
<1>5. LogIsTheTable
  <2>1. \A s \in Shards : Committed[s] = 0
    BY <1>2 DEF Committed
  <2>2. \A d \in Docs : Revisions[d] = 0 /\ ShardOf[d] \in Shards
    BY <1>b, LogAssumption DEF Revisions
  <2>3. AsOf(Revisions, Committed)
    BY <2>1, <2>2 DEF AsOf
  <2>4. ASSUME NEW s \in Shards PROVE pruned[s] <= old[s] /\ old[s] <= Len(log[s])
    <3>1. pruned[s] = 0 /\ old[s] = 0 /\ Len(log[s]) = 0
      BY <1>2, <1>a
    <3>. QED BY <3>1
  <2>. QED BY <2>3, <2>4 DEF LogIsTheTable
<1>6. \A p \in Processes : SoundMemory(proc[p])
  BY <1>1, <1>4, OffIsSound
<1>7. \A c \in Consumers : consumer[c].manifest = NoManifest
  BY <1>1
<1>. QED BY <1>4, <1>5, <1>6, <1>7 DEF RecallInv, Sound, Spared

\* Every step keeps the invariant.
LEMMA RecallStep ==
  ASSUME RecallInv, [Next]_vars
  PROVE  RecallInv'
<1>1. CASE LogStep
  BY <1>1, LogStepKeeps
<1>2. CASE \E p \in Processes : ProcessStep(p)
  BY <1>2, ProcessStepKeeps
<1>3. CASE \E c \in Consumers : Expire(c)
  BY <1>3, ExpireKeeps
<1>4. CASE EndQuery
  BY <1>4, NothingMoves DEF EndQuery
<1>5. CASE ReadWatermarks \/ EndPrune
  BY <1>5, ReadWatermarksKeeps, EndPruneKeeps
<1>6. CASE \E s \in Shards : Ages(s) \/ \E upto \in 1..MaxSeq : DeleteEvents(s, upto)
  BY <1>6, AgesKeeps, DeleteEventsKeeps
<1>7. CASE UNCHANGED vars
  BY <1>7, NothingMoves DEF vars
<1>. QED BY <1>1, <1>2, <1>3, <1>4, <1>5, <1>6, <1>7 DEF Next

\* The inductive invariant of the recall processes: engines and manifests hold what the
\* log announces up to their position, and deletions spare what a manifest still needs.
THEOREM RecallHolds == Spec => []RecallInv
<1>1. Init => RecallInv
  BY RecallInit
<1>2. RecallInv /\ [Next]_vars => RecallInv'
  BY RecallStep
<1>. QED BY <1>1, <1>2, PTL DEF Spec

\* An engine, live or shadow, and every manifest hold exactly the documents that the log
\* announces up to their position, for any number of processes, shards and ads, and any
\* size of a page (engine.ts:96, worker.ts:50, storage.ts:176).
THEOREM TheIndexIsTheTable == Spec => []IndexIsTheTable
<1>1. RecallInv => IndexIsTheTable
  <2> SUFFICES ASSUME RecallInv PROVE IndexIsTheTable
    OBVIOUS
  <2>1. \A p \in Processes, r \in Roles : Faithful(proc[p][r])
    BY DEF RecallInv, SoundMemory, SoundEngine, Roles
  <2>2. \A p \in Processes : proc[p].ref # NoManifest => FaithfulManifest(proc[p].ref)
    BY DEF RecallInv, SoundMemory, Sound, SoundManifest
  <2>3. \A c \in Consumers : consumer[c].manifest # NoManifest => FaithfulManifest(consumer[c].manifest)
    BY DEF RecallInv, Sound, SoundManifest
  <2>. QED BY <2>1, <2>2, <2>3 DEF RecallInv, IndexIsTheTable
<1>. QED BY <1>1, RecallHolds, PTL

\* Whatever was deleted, the next process of a consumer finds every event after its
\* manifest, and the chain of the manifest can be read (prune-recall.ts:32, storage.ts:143).
THEOREM TheIndexIsRecoverable == Spec => []Recoverable
<1>1. RecallInv => Recoverable
  BY DEF RecallInv, Recoverable, Sound, SoundManifest, Spared
<1>. QED BY <1>1, RecallHolds, PTL

\* The index is the table's, and can be made again from a manifest after every deletion.
THEOREM TheIndexCanBeMadeAgain == Spec => []IndexIsRecoverable
BY TheIndexIsTheTable, TheIndexIsRecoverable, PTL DEF IndexIsRecoverable

-----------------------------------------------------------------------------
(* The processes of a consumer: who holds its lease, and what an answer covers *)

\* No process that runs was started later than its row says, and no two of a consumer together.
Started(p) == Running(p) =>
  /\ proc[p].epoch <= Of(p).epoch
  /\ \A q \in Processes : q # p /\ Running(q) /\ ConsumerOf[q] = ConsumerOf[p] => proc[q].epoch # proc[p].epoch

\* The process that was started last knows the manifest, however far it has come.
Knows(p) == Running(p) /\ ~proc[p].unsure /\ Of(p).epoch = proc[p].epoch => Of(p).manifest = proc[p].manifest

\* Until another engine takes over, the one that was asked is up and goes on.
Pursued ==
  /\ query \in [by : Processes \union {NoProcess}, phase : {"none", "checked", "answered"},
                need : Seqs, got : Seqs, swapped : BOOLEAN]
  /\ query.phase = "checked" /\ ~query.swapped =>
       /\ query.by \in Processes /\ proc[query.by].phase = "up"
       /\ Covers(proc[query.by].live.pos, query.need)

\* Every process knows what it should, and the search that is under way is pursued.
Held == \A p \in Processes : Started(p) /\ Knows(p)
Searched == Pursued /\ ReceiptsAreKept
HolderInv == Held /\ Searched

-----------------------------------------------------------------------------
(* A process that goes on keeps its epoch and its manifest, and its engine its position. *)

\* The other processes stay as they are, and this one changes neither epoch, manifest nor phase
\* up; its position only grows.
Others(p) == \A q \in Processes : q # p => proc'[q] = proc[q]
Onward(p) ==
  /\ Others(p) /\ (Running(p)' => Running(p))
  /\ proc'[p].epoch = proc[p].epoch /\ proc'[p].manifest = proc[p].manifest
  /\ proc[p].unsure => proc'[p].unsure
  /\ proc[p].phase = "up" => proc'[p].phase = "up" /\ Covers(proc'[p].live.pos, proc[p].live.pos)

\* What the types and the soundness of RecallInv say of one process.
LEMMA MemoryOf ==
  ASSUME RecallInv, NEW p \in Processes
  PROVE  /\ proc[p] \in Memory /\ proc[p].live \in Engine /\ proc[p].live.pos \in Seqs /\ proc[p].live.seq \in Seqs
         /\ Covers(proc[p].live.pos, proc[p].live.pos) /\ Covers(proc[p].live.seq, proc[p].live.pos)
         /\ ConsumerOf[p] \in Consumers /\ Of(p) \in Row /\ Of(p).epoch \in Nat
         /\ Running(p) => proc[p].epoch > 0
<1>1. proc[p] \in Memory /\ SoundMemory(proc[p]) /\ ConsumerOf[p] \in Consumers /\ consumer \in [Consumers -> Row]
  BY IndexAssumption DEF RecallInv, RecallTyped
<1>2. proc[p].live \in Engine /\ Covers(proc[p].live.seq, proc[p].live.pos)
  BY <1>1, MemoryFields DEF SoundMemory, SoundEngine
<1>3. proc[p].live.pos \in Seqs /\ proc[p].live.seq \in Seqs
  BY <1>2, EngineFields
<1>4. Covers(proc[p].live.pos, proc[p].live.pos)
  BY <1>3 DEF Covers, Seqs
<1>5. Of(p) \in Row /\ Of(p).epoch \in Nat
  BY <1>1 DEF Of, Row
<1>. QED BY <1>1, <1>2, <1>3, <1>4, <1>5 DEF SoundMemory, Running

\* A step of one process leaves the memories of the others alone.
LEMMA BecomesWhat ==
  ASSUME RecallInv, NEW p \in Processes, NEW f, Becomes(p, f)
  PROVE  proc'[p] = f /\ Others(p)
BY DEF Becomes, Others, RecallInv, RecallTyped

\* A memory that differs from what it was in neither epoch, manifest nor phase.
LEMMA GoesOn ==
  ASSUME RecallInv, NEW p \in Processes, NEW f, Becomes(p, f),
         f.phase # "down" => Running(p), f.epoch = proc[p].epoch, f.manifest = proc[p].manifest, proc[p].unsure => f.unsure,
         proc[p].phase = "up" => f.phase = "up" /\ Covers(f.live.pos, proc[p].live.pos)
  PROVE  Onward(p)
BY BecomesWhat DEF Onward, Running

\* The position of an engine only grows.
LEMMA PositionsGrow ==
  ASSUME NEW e \in Engine
  PROVE  /\ Polling(e).pos = e.pos /\ Failed(e).pos = e.pos /\ Polled(e).pos = e.seq
         /\ [Failed(e) EXCEPT !.pos = e.seq].pos = e.seq
         /\ [e EXCEPT !.fatal = TRUE].pos = e.pos /\ [e EXCEPT !.fresh = FALSE].pos = e.pos
         /\ \A x : [e EXCEPT !.fatal = x].pos = e.pos
         /\ \A s \in Shards : Refused(e, s).pos = e.pos /\ Applied(e, s).pos = e.pos
<1>1. /\ Polling(e).pos = e.pos /\ Failed(e).pos = e.pos /\ Polled(e).pos = e.seq
      /\ [Failed(e) EXCEPT !.pos = e.seq].pos = e.seq
  BY DEF Engine, Polling, Failed, Polled
<1>2. \A x : [e EXCEPT !.fatal = x].pos = e.pos
  BY DEF Engine
<1>3. [e EXCEPT !.fresh = FALSE].pos = e.pos
  BY DEF Engine
<1>4. \A s \in Shards : Refused(e, s).pos = e.pos
  BY DEF Engine, Refused
<1>5. \A s \in Shards : Applied(e, s).pos = e.pos
  BY DEF Engine, Applied
<1>. QED BY <1>1, <1>2, <1>3, <1>4, <1>5

\* The live engine changes, or the shadow; the rest stays.
LEMMA LiveGoesOnward ==
  ASSUME RecallInv, NEW p \in Processes, NEW e, Covers(e.pos, proc[p].live.pos),
         \/ Becomes(p, [proc[p] EXCEPT !.live = e])
         \/ Running(p) /\ Becomes(p, [proc[p] EXCEPT !.live = e, !.phase = "up"])
         \/ Becomes(p, [proc[p] EXCEPT !.live = e, !.valid = FALSE])
         \/ Becomes(p, [proc[p] EXCEPT !.live = e, !.stray = FALSE])
         \/ Becomes(p, [proc[p] EXCEPT !.live = e, !.task = "none"])
         \/ Becomes(p, [proc[p] EXCEPT !.live = e, !.task = "none", !.unsure = TRUE])
         \/ Becomes(p, [proc[p] EXCEPT !.live = e, !.task = "none", !.valid = FALSE])
  PROVE  Onward(p)
<1>. DEFINE m == proc[p]
<1>1. m \in Memory
  BY MemoryOf
<1>2. PICK f : /\ Becomes(p, f) /\ f.live = e /\ f.epoch = m.epoch /\ f.manifest = m.manifest
               /\ f.phase = m.phase \/ (Running(p) /\ f.phase = "up")
               /\ f.unsure \in {m.unsure, TRUE}
  <2>. HIDE DEF m
  <2>1. \A f \in {[m EXCEPT !.live = e], [m EXCEPT !.live = e, !.valid = FALSE],
                  [m EXCEPT !.live = e, !.stray = FALSE], [m EXCEPT !.live = e, !.task = "none"],
                  [m EXCEPT !.live = e, !.task = "none", !.unsure = TRUE],
                  [m EXCEPT !.live = e, !.task = "none", !.valid = FALSE]} :
          /\ f.live = e /\ f.epoch = m.epoch /\ f.manifest = m.manifest
          /\ f.phase = m.phase /\ f.unsure \in {m.unsure, TRUE}
    BY <1>1 DEF Memory
  <2>2. LET f == [m EXCEPT !.live = e, !.phase = "up"] IN
          /\ f.live = e /\ f.epoch = m.epoch /\ f.manifest = m.manifest
          /\ f.phase = "up" /\ f.unsure = m.unsure
    BY <1>1 DEF Memory
  <2>. QED BY <2>1, <2>2 DEF m
<1>. QED BY <1>1, <1>2, GoesOn DEF Running

\* The shadow, the task and its reference change; the live engine stays.
LEMMA RestGoesOnward ==
  ASSUME RecallInv, NEW p \in Processes, NEW e, NEW t, NEW r,
         \/ Becomes(p, [proc[p] EXCEPT !.shadow = e])
         \/ Becomes(p, [proc[p] EXCEPT !.task = t])
         \/ Becomes(p, [proc[p] EXCEPT !.task = t, !.ref = r])
         \/ Becomes(p, [proc[p] EXCEPT !.task = t, !.shadow = e])
         \/ Becomes(p, [proc[p] EXCEPT !.task = t, !.shadow = e, !.unsure = TRUE])
         \/ Becomes(p, [proc[p] EXCEPT !.task = t, !.shadow = e, !.valid = FALSE])
  PROVE  Onward(p)
<1>. DEFINE m == proc[p]
<1>1. m \in Memory /\ Covers(m.live.pos, m.live.pos)
  BY MemoryOf
<1>2. PICK f : /\ Becomes(p, f) /\ f.live = m.live /\ f.epoch = m.epoch /\ f.manifest = m.manifest
               /\ f.phase = m.phase /\ f.unsure \in {m.unsure, TRUE}
  <2>. HIDE DEF m
  <2>1. \A f \in {[m EXCEPT !.shadow = e], [m EXCEPT !.task = t], [m EXCEPT !.task = t, !.ref = r],
                  [m EXCEPT !.task = t, !.shadow = e]} :
          /\ f.live = m.live /\ f.epoch = m.epoch /\ f.manifest = m.manifest
          /\ f.phase = m.phase /\ f.unsure \in {m.unsure, TRUE}
    BY <1>1 DEF Memory
  <2>2. \A f \in {[m EXCEPT !.task = t, !.shadow = e, !.unsure = TRUE],
                  [m EXCEPT !.task = t, !.shadow = e, !.valid = FALSE]} :
          /\ f.live = m.live /\ f.epoch = m.epoch /\ f.manifest = m.manifest
          /\ f.phase = m.phase /\ f.unsure \in {m.unsure, TRUE}
    BY <1>1 DEF Memory
  <2>. QED BY <2>1, <2>2 DEF m
<1>. QED BY <1>1, <1>2, GoesOn DEF Running

\* What a process does without its row.
LEMMA EngineStepsGoOnward ==
  ASSUME RecallInv, NEW p \in Processes,
         \/ TimerFails(p) \/ PollFails(p) \/ GoesStale(p) \/ StrayEnds(p)
         \/ \E s \in Shards : Refuse(p, s)
         \/ \E r \in Roles : StartPoll(p, r) \/ FinishPoll(p, r) \/ \E s \in Shards : Apply(p, r, s)
  PROVE  Onward(p)
<1>. DEFINE m == proc[p]
            e == m.live
<1>1. /\ m \in Memory /\ e \in Engine /\ e.pos \in Seqs /\ e.seq \in Seqs
      /\ Covers(e.pos, e.pos) /\ Covers(e.seq, e.pos)
      /\ m.task # "none" => m.phase = "up"
  BY MemoryOf DEF RecallInv, SoundMemory
<1>2. CASE TimerFails(p)
  <2>1. Becomes(p, [m EXCEPT !.live = [e EXCEPT !.fatal = TRUE], !.valid = FALSE])
    BY <1>1, <1>2 DEF TimerFails, Becomes, Memory
  <2>2. [e EXCEPT !.fatal = TRUE].pos = e.pos
    BY <1>1, PositionsGrow
  <2>. QED BY <1>1, <2>1, <2>2, LiveGoesOnward
<1>3. CASE PollFails(p)
  <2>1. PICK f \in {Failed(e), [Failed(e) EXCEPT !.pos = e.seq]} : Becomes(p, [m EXCEPT !.live = f])
    BY <1>3 DEF PollFails
  <2>2. Covers(f.pos, e.pos)
    BY <1>1, PositionsGrow
  <2>. QED BY <2>1, <2>2, LiveGoesOnward
<1>4. CASE GoesStale(p)
  <2>1. Becomes(p, [m EXCEPT !.live = [e EXCEPT !.fresh = FALSE]])
    BY <1>1, <1>4 DEF GoesStale, Becomes, Memory
  <2>2. [e EXCEPT !.fresh = FALSE].pos = e.pos
    BY <1>1, PositionsGrow
  <2>. QED BY <1>1, <2>1, <2>2, LiveGoesOnward
<1>5. CASE StrayEnds(p)
  <2>0. PICK fails \in BOOLEAN : Becomes(p, [m EXCEPT !.stray = FALSE, !.live.fatal = @ \/ fails])
    BY <1>5 DEF StrayEnds
  <2>. DEFINE x == e.fatal \/ fails
  <2>1. Becomes(p, [m EXCEPT !.live = [e EXCEPT !.fatal = x], !.stray = FALSE])
    BY <1>1, <2>0 DEF Becomes, Memory
  <2>. HIDE DEF x
  <2>2. [e EXCEPT !.fatal = x].pos = e.pos
    BY <1>1, PositionsGrow
  <2>. QED BY <1>1, <2>1, <2>2, LiveGoesOnward
<1>6. ASSUME NEW s \in Shards, Refuse(p, s) PROVE Onward(p)
  <2>1. Becomes(p, [m EXCEPT !.live = Refused(e, s)])
    BY <1>6 DEF Refuse
  <2>2. Refused(e, s).pos = e.pos
    BY <1>1, PositionsGrow
  <2>. QED BY <1>1, <2>1, <2>2, LiveGoesOnward
<1>7. ASSUME NEW r \in Roles, StartPoll(p, r) \/ FinishPoll(p, r) \/ \E s \in Shards : Apply(p, r, s) PROVE Onward(p)
  <2>1. CASE r = "shadow"
    <3>1. PICK f : Becomes(p, [m EXCEPT !.shadow = f]) \/ Becomes(p, [m EXCEPT !.shadow = f, !.phase = m.phase])
      BY <1>1, <1>7, <2>1 DEF StartPoll, FinishPoll, Apply, Becomes, Memory
    <3>2. [m EXCEPT !.shadow = f, !.phase = m.phase] = [m EXCEPT !.shadow = f]
      BY <1>1 DEF Memory
    <3>. QED BY <3>1, <3>2, RestGoesOnward
  <2>2. CASE r = "live"
    <3>1. Running(p)
      BY <1>7, <2>2 DEF StartPoll, FinishPoll, Apply, MayPoll, Alive, Running
    <3>2. PICK f : /\ Becomes(p, [m EXCEPT !.live = f]) \/ Becomes(p, [m EXCEPT !.live = f, !.phase = "up"])
                   /\ f \in {Polling(e), Polled(e)} \/ \E s \in Shards : f = Applied(e, s)
      BY <1>7, <2>2 DEF StartPoll, FinishPoll, Apply
    <3>3. Covers(f.pos, e.pos)
      BY <1>1, <3>2, PositionsGrow
    <3>. QED BY <3>1, <3>2, <3>3, LiveGoesOnward
  <2>. QED BY <2>1, <2>2 DEF Roles
<1>. QED BY <1>2, <1>3, <1>4, <1>5, <1>6, <1>7

\* Restoring and the first baseline (server.ts:117) go on with the same epoch and manifest.
LEMMA StartingGoesOnward ==
  ASSUME RecallInv, NEW p \in Processes, Restore(p) \/ Restored(p) \/ WriteBaseline(p)
  PROVE  Onward(p)
<1>. DEFINE m == proc[p]
<1>1. m \in Memory
  BY MemoryOf
<1>2. m.phase \in {"leased", "restoring"}
  BY DEF Restore, Restored, WriteBaseline
<1>3. PICK e, r : \/ Becomes(p, [m EXCEPT !.phase = "restoring", !.live = e])
                  \/ Becomes(p, [m EXCEPT !.phase = "syncing", !.live = e])
                  \/ Becomes(p, [m EXCEPT !.phase = "baselined", !.ref = r, !.live = e])
  <2>1. CASE Restore(p)
    BY <2>1 DEF Restore
  <2>2. CASE Restored(p)
    <3>1. Becomes(p, [m EXCEPT !.phase = "syncing", !.live = [m.live EXCEPT !.pos = m.live.seq]])
      BY <1>1, <2>2 DEF Restored, Becomes, Memory
    <3>. QED BY <3>1
  <2>3. CASE WriteBaseline(p)
    BY <2>3 DEF WriteBaseline
  <2>. QED BY <2>1, <2>2, <2>3
<1>. HIDE DEF m
<1>4. /\ \A f \in {[m EXCEPT !.phase = "restoring", !.live = e], [m EXCEPT !.phase = "syncing", !.live = e],
                   [m EXCEPT !.phase = "baselined", !.ref = r, !.live = e]} :
           f.epoch = m.epoch /\ f.manifest = m.manifest /\ f.unsure = m.unsure
  BY <1>1 DEF Memory
<1>. QED BY <1>2, <1>3, <1>4, GoesOn DEF Running, m

\* A checkpoint or a rebuild, up to the registration of its manifest.
LEMMA WritingGoesOnward ==
  ASSUME RecallInv, NEW p \in Processes,
         BeginCheckpoint(p) \/ WriteDelta(p) \/ CheckpointFails(p) \/ BeginRebuild(p) \/ SaveShadow(p) \/ RebuildFails(p)
  PROVE  Onward(p)
<1>. DEFINE m == proc[p]
            e == [m.live EXCEPT !.fatal = TRUE]
<1>1. m \in Memory /\ m.live \in Engine /\ Covers(m.live.pos, m.live.pos)
  BY MemoryOf
<1>2. Covers(e.pos, m.live.pos)
  BY <1>1, PositionsGrow
<1>3. CASE BeginCheckpoint(p) \/ SaveShadow(p)
  <2>1. \E t, x : Becomes(p, [m EXCEPT !.task = t, !.ref = x])
    BY <1>3 DEF BeginCheckpoint, SaveShadow
  <2>. QED BY <2>1, RestGoesOnward
<1>4. CASE WriteDelta(p)
  <2>1. Becomes(p, [m EXCEPT !.task = "written"])
    BY <1>4 DEF WriteDelta
  <2>. QED BY <2>1, RestGoesOnward
<1>5. CASE BeginRebuild(p)
  <2>1. \E t, x : Becomes(p, [m EXCEPT !.task = t, !.shadow = x])
    BY <1>5 DEF BeginRebuild
  <2>. QED BY <2>1, RestGoesOnward
<1>6. CASE CheckpointFails(p)
  <2>1. \/ Becomes(p, [m EXCEPT !.live = e, !.task = "none"])
        \/ Becomes(p, [m EXCEPT !.live = e, !.task = "none", !.unsure = TRUE])
        \/ Becomes(p, [m EXCEPT !.live = e, !.task = "none", !.valid = FALSE])
    BY <1>1, <1>6 DEF CheckpointFails, Becomes, Memory
  <2>. HIDE DEF e
  <2>. QED BY <1>2, <2>1, LiveGoesOnward
<1>7. CASE RebuildFails(p)
  <2>1. \/ Becomes(p, [m EXCEPT !.task = "none", !.shadow = NewEngine])
        \/ Becomes(p, [m EXCEPT !.task = "none", !.shadow = NewEngine, !.unsure = TRUE])
        \/ Becomes(p, [m EXCEPT !.task = "none", !.shadow = NewEngine, !.valid = FALSE])
    BY <1>1, <1>7 DEF RebuildFails, Becomes, Memory
  <2>. QED BY <2>1, RestGoesOnward
<1>. QED BY <1>3, <1>4, <1>5, <1>6, <1>7

-----------------------------------------------------------------------------
(* The rows of the consumers. *)

\* No row gets another epoch or manifest.
RowsKept == \A c \in Consumers :
  consumer'[c].epoch = consumer[c].epoch /\ consumer'[c].manifest = consumer[c].manifest
\* Only the holder of its lease gives a consumer another manifest.
RowsWritten(p) == \A c \in Consumers :
  /\ consumer'[c].epoch = consumer[c].epoch
  /\ c # ConsumerOf[p] \/ Of(p).epoch # proc[p].epoch => consumer'[c].manifest = consumer[c].manifest

\* Releasing a lease and registering a manifest write the rows as a holder may.
LEMMA RowsAreWritten ==
  ASSUME RecallInv, NEW p \in Processes,
         \/ consumer' = consumer \/ consumer' = Releases(p)
         \/ Holds(p) /\ consumer' = Registers(p)
         \/ Holds(p) /\ consumer' = [Registers(p) EXCEPT ![ConsumerOf[p]].leased = FALSE]
  PROVE  /\ RowsWritten(p)
         /\ Holds(p) /\ consumer' = Registers(p) => consumer'[ConsumerOf[p]].manifest = proc[p].ref
<1>1. ConsumerOf[p] \in Consumers /\ consumer \in [Consumers -> Row]
  BY IndexAssumption DEF RecallInv, RecallTyped
<1>. DEFINE k == ConsumerOf[p]
            row == consumer[k]
            x == proc[p].ref
<1>2. row \in Row
  BY <1>1
<1>3. /\ \A c \in Consumers \ {k} : consumer'[c] = consumer[c]
      /\ \/ consumer'[k] \in {row, [row EXCEPT !.leased = FALSE]}
         \/ Holds(p) /\ consumer'[k] \in {[row EXCEPT !.manifest = x], [row EXCEPT !.manifest = x, !.leased = FALSE]}
  BY <1>1 DEF Releases, Registers, Row
<1>4. Holds(p) /\ consumer' = Registers(p) => consumer'[k] = [row EXCEPT !.manifest = x]
  BY <1>1 DEF Registers
<1>5. Holds(p) => Of(p).epoch = proc[p].epoch
  BY DEF Holds
<1>. HIDE DEF row, x
<1>6. /\ \A f \in {row, [row EXCEPT !.leased = FALSE]} : f.epoch = row.epoch /\ f.manifest = row.manifest
      /\ \A f \in {[row EXCEPT !.manifest = x], [row EXCEPT !.manifest = x, !.leased = FALSE]} :
           f.epoch = row.epoch /\ f.manifest = x
  BY <1>2 DEF Row
<1>7. RowsWritten(p)
  BY <1>1, <1>3, <1>5, <1>6 DEF RowsWritten, row
<1>. QED BY <1>4, <1>6, <1>7 DEF x

\* A step of a process that does not start, and may register what it has written.
LEMMA HoldersStep ==
  ASSUME RecallInv, Held, NEW p \in Processes, Others(p), RowsWritten(p), Running(p)' => Running(p), Running(p) \/ RowsKept,
         proc'[p].phase # "down" =>
           /\ proc'[p].epoch = proc[p].epoch
           /\ ~proc'[p].unsure /\ Of(p).epoch = proc[p].epoch => consumer'[ConsumerOf[p]].manifest = proc'[p].manifest
  PROVE  Held'
<1>1. ASSUME NEW q \in Processes PROVE ConsumerOf[q] \in Consumers /\ Of(q)'.epoch = Of(q).epoch
  <2>1. ConsumerOf[q] \in Consumers
    BY IndexAssumption
  <2>. QED BY <2>1 DEF Of, RowsWritten
<1>2. ASSUME NEW q \in Processes PROVE (Running(q)' => Running(q)) /\ (Running(q)' => proc'[q].epoch = proc[q].epoch)
  BY DEF Others, Running
<1>3. ASSUME NEW q \in Processes PROVE Started(q)'
  <2> SUFFICES ASSUME Running(q)'
               PROVE  /\ proc'[q].epoch <= Of(q)'.epoch
                      /\ \A o \in Processes : o # q /\ Running(o)' /\ ConsumerOf[o] = ConsumerOf[q] => proc'[o].epoch # proc'[q].epoch
    BY DEF Started
  <2>1. Started(q) /\ Running(q)
    BY <1>2 DEF Held
  <2>. QED BY <1>1, <1>2, <2>1 DEF Started
<1>4. ASSUME NEW q \in Processes PROVE Knows(q)'
  <2> SUFFICES ASSUME Running(q)', ~proc'[q].unsure, Of(q)'.epoch = proc'[q].epoch
               PROVE  Of(q)'.manifest = proc'[q].manifest
    BY DEF Knows
  <2>1. CASE q = p
    BY <1>1, <2>1 DEF Of, Running
  <2>2. CASE q # p
    <3>1. proc'[q] = proc[q] /\ Running(q) /\ Of(q).manifest = proc[q].manifest
      BY <1>1, <2>2 DEF Others, Held, Knows, Running
    <3>2. CASE RowsKept
      BY <1>1, <3>1, <3>2 DEF RowsKept, Of
    <3>3. CASE Running(p)
      <4>1. Of(q).epoch = proc[q].epoch
        BY <1>1, <3>1
      <4>2. ConsumerOf[q] = ConsumerOf[p] => Of(q) = Of(p) /\ proc[p].epoch # proc[q].epoch
        BY <2>2, <3>1, <3>3 DEF Held, Started, Of
      <4>3. Of(q)'.manifest = Of(q).manifest
        BY <1>1, <4>1, <4>2 DEF RowsWritten, Of
      <4>. QED BY <3>1, <4>3
    <3>. QED BY <3>2, <3>3
  <2>. QED BY <2>1, <2>2
<1>. QED BY <1>3, <1>4 DEF Held

\* A process that goes on, and registers nothing or is unsure of what it registered.
LEMMA OnwardHolds ==
  ASSUME RecallInv, Held, NEW p \in Processes, Onward(p), RowsWritten(p), RowsKept \/ (Running(p) /\ proc'[p].unsure)
  PROVE  Held'
<1>1. ConsumerOf[p] \in Consumers
  BY IndexAssumption
<1>2. ASSUME Running(p)', ~proc'[p].unsure, Of(p).epoch = proc[p].epoch
      PROVE  consumer'[ConsumerOf[p]].manifest = proc'[p].manifest
  <2>1. Running(p) /\ ~proc[p].unsure /\ proc'[p].manifest = proc[p].manifest /\ Of(p).manifest = proc[p].manifest
    BY <1>2 DEF Onward, Held, Knows
  <2>. QED BY <1>1, <1>2, <2>1 DEF RowsKept, Of
<1>. QED BY <1>2, HoldersStep DEF Onward, Running

\* A process is started with an epoch that its consumer never had.
LEMMA StartHolds ==
  ASSUME RecallInv, Held, NEW p \in Processes, Start(p)
  PROVE  Held' /\ Others(p) /\ ~Running(p)
<1>. DEFINE k == ConsumerOf[p]
            n == Of(p).epoch + 1
            f == [Off EXCEPT !.phase = "leased", !.epoch = n, !.valid = TRUE, !.manifest = Of(p).manifest]
<1>1. k \in Consumers /\ consumer \in [Consumers -> Row] /\ Of(p).epoch \in Nat
  BY IndexAssumption DEF RecallInv, RecallTyped, Of, Row
<1>2. Becomes(p, f) /\ ~Running(p)
  BY DEF Start
<1>3. consumer'[k].epoch = n /\ consumer'[k].manifest = consumer[k].manifest
  BY <1>1 DEF Start, Row, Of
<1>4. \A c \in Consumers : c # k => consumer'[c] = consumer[c]
  BY <1>1 DEF Start
<1>5. n \in Nat /\ n > Of(p).epoch
  BY <1>1
<1>. HIDE DEF n
<1>6. f.epoch = n /\ f.manifest = Of(p).manifest
  BY DEF Off
<1>. HIDE DEF f
<1>7. proc'[p] = f /\ Others(p)
  BY <1>2, BecomesWhat
<1>8. ASSUME NEW q \in Processes, q # p
      PROVE  /\ proc'[q] = proc[q] /\ ConsumerOf[q] \in Consumers /\ Of(q).epoch \in Nat /\ proc[q].epoch \in Nat
             /\ ConsumerOf[q] # k => Of(q)' = Of(q)
             /\ ConsumerOf[q] = k => Of(q) = Of(p) /\ Of(q)'.epoch = n
             /\ Running(q) => proc[q].epoch <= Of(q).epoch
  BY <1>3, <1>4, <1>7, <1>8, MemoryOf, MemoryFields DEF Others, Of, Held, Started
<1>9. ASSUME NEW q \in Processes, q # p PROVE Started(q)' /\ Knows(q)'
  <2>1. CASE ConsumerOf[q] # k
    <3>1. Started(q) /\ Knows(q)
      BY DEF Held
    <3>2. Knows(q)'
      BY <1>8, <1>9, <2>1, <3>1 DEF Knows, Running
    <3>3. Started(q)'
      <4>1. \A o \in Processes : ConsumerOf[o] = ConsumerOf[q] => proc'[o] = proc[o]
        BY <1>8, <2>1
      <4>. QED BY <1>8, <1>9, <2>1, <3>1, <4>1 DEF Started, Running
    <3>. QED BY <3>2, <3>3
  <2>2. CASE ConsumerOf[q] = k
    <3>1. Running(q) => proc[q].epoch < n
      BY <1>1, <1>5, <1>8, <1>9, <2>2
    <3>2. Knows(q)'
      <4> SUFFICES ASSUME Running(q)', Of(q)'.epoch = proc'[q].epoch PROVE FALSE
        BY DEF Knows
      <4>. QED BY <1>5, <1>8, <1>9, <2>2, <3>1 DEF Running
    <3>3. Started(q)'
      <4> SUFFICES ASSUME Running(q)'
                   PROVE  /\ proc'[q].epoch <= Of(q)'.epoch
                          /\ \A o \in Processes : o # q /\ Running(o)' /\ ConsumerOf[o] = ConsumerOf[q] => proc'[o].epoch # proc'[q].epoch
        BY DEF Started
      <4>1. Running(q) /\ proc'[q].epoch < n /\ proc'[q] = proc[q]
        BY <1>8, <1>9, <3>1 DEF Running
      <4>2. proc'[q].epoch <= Of(q)'.epoch
        BY <1>5, <1>8, <1>9, <2>2, <4>1
      <4>3. ASSUME NEW o \in Processes, o # q, Running(o)', ConsumerOf[o] = ConsumerOf[q] PROVE proc'[o].epoch # proc'[q].epoch
        <5>1. CASE o = p
          BY <1>5, <1>6, <1>7, <1>8, <1>9, <4>1, <5>1
        <5>2. CASE o # p
          BY <1>8, <4>1, <4>3, <5>2 DEF Held, Started, Running
        <5>. QED BY <5>1, <5>2
      <4>. QED BY <4>2, <4>3
    <3>. QED BY <3>2, <3>3
  <2>. QED BY <2>1, <2>2
<1>10. Started(p)' /\ Knows(p)'
  <2>1. Of(p)'.epoch = n /\ Of(p)'.manifest = Of(p).manifest /\ proc'[p].epoch = n /\ proc'[p].manifest = Of(p).manifest
    BY <1>1, <1>3, <1>6, <1>7 DEF Of
  <2>2. ASSUME NEW o \in Processes, o # p, Running(o)', ConsumerOf[o] = k PROVE proc'[o].epoch # n
    <3>1. Running(o) /\ proc[o].epoch <= Of(p).epoch
      BY <1>8, <2>2 DEF Running
    <3>. QED BY <1>1, <1>5, <1>8, <2>2, <3>1
  <2>. QED BY <1>5, <2>1, <2>2 DEF Started, Knows
<1>. QED BY <1>2, <1>7, <1>9, <1>10 DEF Held

\* A process that ends, whatever becomes of its row.
LEMMA EndHolds ==
  ASSUME RecallInv, Held, NEW p \in Processes, Crash(p) \/ Close(p) \/ StartFails(p)
  PROVE  Held' /\ Others(p) /\ Running(p)
<1>1. Becomes(p, Off) /\ Running(p)
  BY DEF Crash, Close, StartFails, Running
<1>2. proc'[p] = Off /\ Others(p) /\ Off.phase = "down"
  BY <1>1, BecomesWhat DEF Off
<1>3. RowsWritten(p)
  BY RowsAreWritten DEF Crash, Close, StartFails
<1>. QED BY <1>1, <1>2, <1>3, HoldersStep DEF Running

\* A manifest is registered by the holder of the lease, who remembers it.
LEMMA RegisterHolds ==
  ASSUME RecallInv, Held, NEW p \in Processes, RegisterBaseline(p) \/ RegisterCheckpoint(p) \/ Swap(p)
  PROVE  /\ Held' /\ Others(p) /\ Running(p)
         /\ ~Swap(p) /\ proc[p].phase = "up" => proc'[p].phase = "up" /\ proc'[p].live = proc[p].live
<1>. DEFINE m == proc[p]
            x == m.ref
            s == m.shadow
            y == m.stray \/ m.live.polling
<1>1. m.task # "none" => m.phase = "up"
  BY DEF RecallInv, SoundMemory
<1>2. m \in Memory
  BY MemoryOf
<1>3. Running(p) /\ Holds(p) /\ consumer' = Registers(p)
  BY <1>1, <1>2 DEF RegisterBaseline, RegisterCheckpoint, Swap, Running
<1>4. RowsWritten(p) /\ consumer'[ConsumerOf[p]].manifest = x
  BY <1>3, RowsAreWritten
<1>5. PICK f : /\ Becomes(p, f)
               /\ \/ RegisterBaseline(p) /\ f = [m EXCEPT !.phase = "syncing", !.manifest = x]
                  \/ RegisterCheckpoint(p) /\ f = [m EXCEPT !.task = "none", !.manifest = x]
                  \/ Swap(p) /\ f = [m EXCEPT !.task = "none", !.manifest = x, !.live = s, !.shadow = NewEngine, !.stray = y]
  <2>1. CASE RegisterBaseline(p)
    BY <2>1 DEF RegisterBaseline
  <2>2. CASE RegisterCheckpoint(p)
    BY <2>2 DEF RegisterCheckpoint
  <2>3. CASE Swap(p)
    <3>1. Becomes(p, [m EXCEPT !.task = "none", !.manifest = x, !.live = s, !.shadow = NewEngine, !.stray = y])
      BY <1>2, <2>3 DEF Swap, Becomes, Memory
    <3>. QED BY <2>3, <3>1
  <2>. QED BY <2>1, <2>2, <2>3
<1>. HIDE DEF x, s, y
<1>6. f.epoch = m.epoch /\ f.manifest = x /\ f.phase # "down"
  BY <1>2, <1>3, <1>5 DEF Memory, Running
<1>7. RegisterCheckpoint(p) => m.phase = "up"
  BY <1>1, <1>2 DEF RegisterCheckpoint
<1>8. ~Swap(p) /\ m.phase = "up" => f.phase = "up" /\ f.live = m.live
  <2>1. RegisterBaseline(p) => m.phase # "up"
    BY DEF RegisterBaseline
  <2>. QED BY <1>2, <1>5, <2>1 DEF Memory
<1>9. proc'[p] = f /\ Others(p)
  BY <1>5, BecomesWhat
<1>. QED BY <1>3, <1>4, <1>6, <1>8, <1>9, HoldersStep DEF Running

\* A step that leaves the table of consumers alone.
LEMMA RowsOfPrivate == ASSUME RecallInv, NEW p \in Processes, consumer' = consumer PROVE RowsWritten(p) /\ RowsKept
BY DEF RowsWritten, RowsKept

\* The steps of a checkpoint and a rebuild keep the first part; a process whose registration was
\* written but not confirmed is unsure of its manifest.
LEMMA WritingHolds ==
  ASSUME RecallInv, Held, NEW p \in Processes,
         BeginCheckpoint(p) \/ WriteDelta(p) \/ CheckpointFails(p) \/ BeginRebuild(p) \/ SaveShadow(p) \/ RebuildFails(p)
  PROVE  Held'
<1>1. Onward(p)
  BY WritingGoesOnward
<1>2. CASE consumer' = consumer
  BY <1>1, <1>2, RowsOfPrivate, OnwardHolds
<1>3. CASE consumer' # consumer
  <2>1. Holds(p) /\ consumer' = Registers(p) /\ proc[p].task # "none"
    BY <1>3 DEF BeginCheckpoint, WriteDelta, CheckpointFails, BeginRebuild, SaveShadow, RebuildFails, Private
  <2>2. RowsWritten(p) /\ Running(p)
    BY <2>1, RowsAreWritten DEF RecallInv, SoundMemory, Running
  <2>3. proc'[p].unsure
    <3>1. proc[p] \in Memory
      BY MemoryOf
    <3>. DEFINE m == proc[p]
                e == [m.live EXCEPT !.fatal = TRUE]
    <3>2. \/ Becomes(p, [m EXCEPT !.live = e, !.task = "none", !.unsure = TRUE])
          \/ Becomes(p, [m EXCEPT !.task = "none", !.shadow = NewEngine, !.unsure = TRUE])
      BY <1>3, <3>1 DEF BeginCheckpoint, WriteDelta, CheckpointFails, BeginRebuild, SaveShadow, RebuildFails, Private, Becomes, Memory
    <3>. HIDE DEF e, m
    <3>3. /\ [m EXCEPT !.live = e, !.task = "none", !.unsure = TRUE].unsure
          /\ [m EXCEPT !.task = "none", !.shadow = NewEngine, !.unsure = TRUE].unsure
      BY <3>1 DEF Memory, m
    <3>. QED BY <3>2, <3>3, BecomesWhat
  <2>. QED BY <1>1, <2>2, <2>3, OnwardHolds
<1>. QED BY <1>2, <1>3

-----------------------------------------------------------------------------
(* The search that names receipts. *)

\* The engine of the process that was asked goes on, or the search is given up.
LEMMA SearchGoesOn ==
  ASSUME RecallInv, RecallInv', Searched, NEW p \in Processes, Others(p),
         query' = query, proc[p].phase = "up" => proc'[p].phase = "up" /\ Covers(proc'[p].live.pos, proc[p].live.pos)
  PROVE  Searched'
<1>1. ReceiptsAreKept'
  BY DEF Searched, ReceiptsAreKept, Covers
<1>2. Pursued'
  <2> SUFFICES ASSUME query.phase = "checked", ~query.swapped
               PROVE  /\ query.by \in Processes /\ proc'[query.by].phase = "up"
                      /\ Covers(proc'[query.by].live.pos, query.need)
    BY DEF Searched, Pursued, Covers
  <2>1. /\ query.by \in Processes /\ proc[query.by].phase = "up"
        /\ Covers(proc[query.by].live.pos, query.need) /\ query.need \in Seqs
    BY DEF Searched, Pursued
  <2>2. CASE query.by # p
    BY <2>1, <2>2 DEF Others
  <2>3. CASE query.by = p
    <3>1. proc[p].live.pos \in Seqs
      BY MemoryOf
    <3>2. proc'[p].live.pos \in Seqs
      BY MemoryFields, EngineFields DEF RecallInv, RecallTyped
    <3>. QED BY <2>1, <2>3, <3>1, <3>2, CoversTransitive
  <2>. QED BY <2>2, <2>3
<1>. QED BY <1>1, <1>2 DEF Searched

\* With no search under way there is nothing to keep.
LEMMA NoSearch ==
  ASSUME query' = NoQuery
  PROVE  Searched'
<1>1. EmptyImage.seq \in Seqs
  BY DEF EmptyImage, Seqs
<1>2. /\ NoQuery.phase = "none"
      /\ NoQuery \in [by : Processes \union {NoProcess}, phase : {"none", "checked", "answered"},
                      need : Seqs, got : Seqs, swapped : BOOLEAN]
  BY <1>1 DEF NoQuery
<1>. QED BY <1>2 DEF Searched, Pursued, ReceiptsAreKept

\* A process that ends takes the search it was asked with it.
LEMMA SearchIsDropped ==
  ASSUME RecallInv, RecallInv', Searched, NEW p \in Processes, Others(p), query' = Forgotten(p)
  PROVE  Searched'
<1>1. CASE query.by = p
  BY <1>1, NoSearch DEF Forgotten
<1>2. CASE query.by # p
  <2>1. query' = query
    BY <1>2 DEF Forgotten
  <2>. QED BY <1>2, <2>1 DEF Searched, Pursued, ReceiptsAreKept, Others, Covers
<1>. QED BY <1>1, <1>2

\* A rebuild that replaces the engine is remembered in the search.
LEMMA SearchSwaps ==
  ASSUME RecallInv, RecallInv', Searched, NEW p \in Processes, Others(p), Swap(p)
  PROVE  Searched'
<1>1. CASE query.by = p /\ query.phase = "checked"
  <2>1. query' = [query EXCEPT !.swapped = TRUE]
    BY <1>1 DEF Swap
  <2>2. query \in [by : Processes \union {NoProcess}, phase : {"none", "checked", "answered"},
                   need : Seqs, got : Seqs, swapped : BOOLEAN]
    BY DEF Searched, Pursued
  <2>3. /\ query' \in [by : Processes \union {NoProcess}, phase : {"none", "checked", "answered"},
                       need : Seqs, got : Seqs, swapped : BOOLEAN]
        /\ query'.swapped
    BY <2>1, <2>2
  <2>. QED BY <2>3 DEF Searched, Pursued, ReceiptsAreKept
<1>2. CASE ~(query.by = p /\ query.phase = "checked")
  <2>1. query' = query
    BY <1>2 DEF Swap
  <2>. QED BY <1>2, <2>1 DEF Searched, Pursued, ReceiptsAreKept, Others, Covers
<1>. QED BY <1>1, <1>2

\* A search is checked, and answered.
LEMMA SearchMoves ==
  ASSUME RecallInv, Searched, NEW p \in Processes,
         Answer(p) \/ \E need \in [Shards -> 0..MaxSeq] : Check(p, need)
  PROVE  Searched'
<1>1. proc' = proc
  BY DEF Answer, Check
<1>2. ASSUME NEW need \in [Shards -> 0..MaxSeq], Check(p, need) PROVE Searched'
  <2>1. need \in Seqs /\ EmptyImage.seq \in Seqs
    BY LogAssumption DEF Seqs, EmptyImage
  <2>2. query' = [by |-> p, phase |-> "checked", need |-> need, got |-> EmptyImage.seq, swapped |-> FALSE]
    BY <1>2 DEF Check, NoQuery
  <2>3. proc[p].phase = "up" /\ Covers(proc[p].live.pos, need)
    BY <1>2 DEF Check, Serves
  <2>. QED BY <1>1, <2>1, <2>2, <2>3 DEF Searched, Pursued, ReceiptsAreKept, Covers
<1>3. CASE Answer(p)
  <2>. DEFINE seq == proc[p].live.seq
  <2>1. query \in [by : Processes \union {NoProcess}, phase : {"none", "checked", "answered"},
                   need : Seqs, got : Seqs, swapped : BOOLEAN]
    BY DEF Searched, Pursued
  <2>2. query' = [query EXCEPT !.phase = "answered", !.got = seq] /\ query.phase = "checked" /\ query.by = p
    BY <1>3 DEF Answer
  <2>3. seq \in Seqs /\ proc[p].live.pos \in Seqs /\ Covers(seq, proc[p].live.pos)
    BY MemoryOf
  <2>. HIDE DEF seq
  <2>4. ~query.swapped => Covers(seq, query.need)
    BY <2>1, <2>2, <2>3, CoversTransitive DEF Searched, Pursued
  <2>5. /\ query' \in [by : Processes \union {NoProcess}, phase : {"none", "checked", "answered"},
                       need : Seqs, got : Seqs, swapped : BOOLEAN]
        /\ query'.phase = "answered" /\ query'.got = seq /\ query'.need = query.need /\ query'.swapped = query.swapped
    BY <2>1, <2>2, <2>3
  <2>. QED BY <2>4, <2>5 DEF Searched, Pursued, ReceiptsAreKept, Covers
<1>. QED BY <1>2, <1>3

-----------------------------------------------------------------------------

\* A step of a process keeps both parts of the invariant.
LEMMA ProcessStepHolds ==
  ASSUME RecallInv, RecallInv', HolderInv, NEW p \in Processes, ProcessStep(p)
  PROVE  HolderInv'
<1>0. Held /\ Searched
  BY DEF HolderInv
<1>1. CASE Start(p)
  <2>1. Held' /\ Others(p) /\ ~Running(p)
    BY <1>0, <1>1, StartHolds
  <2>2. query' = query /\ proc[p].phase # "up"
    BY <1>1, <2>1 DEF Start, Running
  <2>. QED BY <1>0, <2>1, <2>2, SearchGoesOn DEF HolderInv
<1>2. CASE Crash(p) \/ Close(p) \/ StartFails(p)
  <2>1. Held' /\ Others(p)
    BY <1>0, <1>2, EndHolds
  <2>2. CASE Crash(p) \/ Close(p)
    <3>1. query' = Forgotten(p)
      BY <2>2 DEF Crash, Close
    <3>. QED BY <1>0, <2>1, <3>1, SearchIsDropped DEF HolderInv
  <2>3. CASE StartFails(p)
    <3>1. query' = query /\ proc[p].phase # "up"
      BY <2>3 DEF StartFails
    <3>. QED BY <1>0, <2>1, <3>1, SearchGoesOn DEF HolderInv
  <2>. QED BY <1>2, <2>2, <2>3
<1>3. CASE \/ TimerFails(p) \/ PollFails(p) \/ GoesStale(p) \/ StrayEnds(p)
           \/ \E s \in Shards : Refuse(p, s)
           \/ \E r \in Roles : StartPoll(p, r) \/ FinishPoll(p, r) \/ \E s \in Shards : Apply(p, r, s)
           \/ Restore(p) \/ Restored(p) \/ WriteBaseline(p)
  <2>1. Onward(p)
    BY <1>3, EngineStepsGoOnward, StartingGoesOnward
  <2>2. consumer' = consumer /\ query' = query
    BY <1>3 DEF TimerFails, PollFails, GoesStale, StrayEnds, Refuse, StartPoll, FinishPoll, Apply, Restore,
                Restored, WriteBaseline, Private
  <2>3. Held'
    BY <1>0, <2>1, <2>2, RowsOfPrivate, OnwardHolds
  <2>4. Searched'
    BY <1>0, <2>1, <2>2, SearchGoesOn DEF Onward
  <2>. QED BY <2>3, <2>4 DEF HolderInv
<1>4. CASE BeginCheckpoint(p) \/ WriteDelta(p) \/ CheckpointFails(p) \/ BeginRebuild(p) \/ SaveShadow(p) \/ RebuildFails(p)
  <2>1. Onward(p) /\ Held'
    BY <1>0, <1>4, WritingGoesOnward, WritingHolds
  <2>2. query' = query
    BY <1>4 DEF BeginCheckpoint, WriteDelta, CheckpointFails, BeginRebuild, SaveShadow, RebuildFails, Private
  <2>. QED BY <1>0, <2>1, <2>2, SearchGoesOn DEF Onward, HolderInv
<1>5. CASE RegisterBaseline(p) \/ RegisterCheckpoint(p) \/ Swap(p)
  <2>1. /\ Held' /\ Others(p)
        /\ ~Swap(p) /\ proc[p].phase = "up" => proc'[p].phase = "up" /\ proc'[p].live = proc[p].live
    BY <1>0, <1>5, RegisterHolds
  <2>2. CASE Swap(p)
    BY <1>0, <2>1, <2>2, SearchSwaps DEF HolderInv
  <2>3. CASE ~Swap(p)
    <3>1. query' = query
      BY <1>5, <2>3 DEF RegisterBaseline, RegisterCheckpoint
    <3>2. Covers(proc[p].live.pos, proc[p].live.pos)
      BY MemoryOf
    <3>. QED BY <1>0, <2>1, <2>3, <3>1, <3>2, SearchGoesOn DEF HolderInv
  <2>. QED BY <2>2, <2>3
<1>6. CASE Answer(p) \/ \E need \in [Shards -> 0..MaxSeq] : Check(p, need)
  <2>1. UNCHANGED <<consumer, proc>>
    BY <1>6 DEF Answer, Check
  <2>2. Held'
    BY <1>0, <2>1 DEF Held, Started, Knows, Running, Of
  <2>. QED BY <1>0, <1>6, <2>2, SearchMoves DEF HolderInv
<1>. QED BY <1>1, <1>2, <1>3, <1>4, <1>5, <1>6 DEF ProcessStep

\* A step in which no process moves.
LEMMA RestHolds ==
  ASSUME RecallInv, HolderInv, proc' = proc, RowsKept, query' = query \/ query' = NoQuery
  PROVE  HolderInv'
<1>0. Held /\ Searched
  BY DEF HolderInv
<1>1. \A q \in Processes : Of(q)'.epoch = Of(q).epoch /\ Of(q)'.manifest = Of(q).manifest
  BY IndexAssumption DEF RowsKept, Of
<1>2. Held'
  BY <1>0, <1>1 DEF Held, Started, Knows, Running
<1>3. Searched'
  <2>1. CASE query' = query
    BY <1>0, <2>1 DEF Searched, Pursued, ReceiptsAreKept, Covers
  <2>. QED BY <2>1, NoSearch
<1>. QED BY <1>2, <1>3 DEF HolderInv

\* At first no process runs and nothing is asked.
LEMMA HolderBegins == Init => HolderInv
<1> SUFFICES ASSUME Init PROVE HolderInv
  OBVIOUS
<1>1. \A p \in Processes : ~Running(p)
  BY DEF Init, Running, Off
<1>2. Held
  BY <1>1 DEF Held, Started, Knows
<1>3. EmptyImage.seq \in Seqs
  BY DEF EmptyImage, Seqs
<1>4. /\ query.phase = "none"
      /\ query \in [by : Processes \union {NoProcess}, phase : {"none", "checked", "answered"},
                    need : Seqs, got : Seqs, swapped : BOOLEAN]
  BY <1>3 DEF Init, NoQuery
<1>. QED BY <1>2, <1>4 DEF HolderInv, Searched, Pursued, ReceiptsAreKept

\* Every step is one of a process, a lease that expires, or one of the log, pruning and the client.
LEMMA HolderStep ==
  ASSUME RecallInv, RecallInv', HolderInv, [Next]_vars
  PROVE  HolderInv'
<1>1. CASE \E p \in Processes : ProcessStep(p)
  BY <1>1, ProcessStepHolds
<1>2. CASE \E c \in Consumers : Expire(c)
  <2>1. PICK c \in Consumers : Expire(c)
    BY <1>2
  <2>2. consumer \in [Consumers -> Row]
    BY DEF RecallInv, RecallTyped
  <2>3. RowsKept
    BY <2>1, <2>2 DEF Expire, RowsKept, Row
  <2>. QED BY <2>1, <2>3, RestHolds DEF Expire
<1>3. CASE ~(\E p \in Processes : ProcessStep(p)) /\ ~(\E c \in Consumers : Expire(c))
  <2>1. UNCHANGED <<consumer, proc>> /\ (query' = query \/ query' = NoQuery)
    BY <1>3 DEF Next, LogStep, EndQuery, ReadWatermarks, EndPrune, Ages, DeleteEvents, vars
  <2>2. RowsKept
    BY <2>1 DEF RowsKept
  <2>. QED BY <2>1, <2>2, RestHolds
<1>. QED BY <1>1, <1>2, <1>3

\* Both parts hold in every behaviour: what running processes know, and what the engine that was
\* asked covers.
THEOREM HolderHolds == Spec => []HolderInv
<1>1. RecallInv /\ RecallInv' /\ HolderInv /\ [Next]_vars => HolderInv'
  BY HolderStep
<1>. QED BY <1>1, HolderBegins, RecallHolds, PTL DEF Spec

\* Whoever holds the lease of a consumer knows its manifest, for any number of processes and
\* starts: a process that lost its lease registers nothing any more, since its epoch is not
\* that of the row (server.ts:62).
THEOREM TheHolderKnows == Spec => []HolderKnows
<1>1. HolderInv => HolderKnows
  BY DEF HolderInv, Held, Knows, HolderKnows, Running
<1>. QED BY <1>1, HolderHolds, PTL

\* An answer covers the receipts of its search, whatever polls fail and whatever is applied
\* in between, if the engine is not replaced (server.ts:256).
THEOREM TheReceiptsAreKept == Spec => []ReceiptsAreKept
<1>1. HolderInv => ReceiptsAreKept
  BY DEF HolderInv, Searched
<1>. QED BY <1>1, HolderHolds, PTL
=============================================================================
