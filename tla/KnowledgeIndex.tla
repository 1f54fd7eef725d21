----------------------------- MODULE KnowledgeIndex -----------------------------
(* The index of versioned knowledge (core/rag) and the answers given from it.        *)
(* Builders write generations of documents; texts are kept in SQLite, vectors in a   *)
(* collection that is written document by document. Operators roll back and revoke   *)
(* documents while requests search, check the evidence, generate and deliver.        *)
EXTENDS Integers, FiniteSets

CONSTANTS Generations, Docs,
          DocsOf,      \* the documents of a generation
          EmbeddingOf, \* the embedding model a generation was staged for
          Embeddings,
          Builders, Requests,
          None

ASSUME IndexAssumption ==
  /\ DocsOf \in [Generations -> (SUBSET Docs) \ {{}}] /\ EmbeddingOf \in [Generations -> Embeddings]
  /\ None \notin Generations

VARIABLES state,     \* of each generation: absent, building or ready
          vectors,   \* the documents in the collection of each generation
          pointer,    \* the published generation
          denied,    \* the revoked documents
          embedding, \* the embedding model the processes use
          builder, request

index == <<state, vectors, pointer, denied, embedding>>
indexVars == <<index, builder, request>>

Branches == {"vector", "keyword"}
Resting == [at |-> "idle", generation |-> None, branch |-> [k \in Branches |-> "none"],
            rows |-> {}, chunks |-> {}, reply |-> "none", before |-> {}]

IndexInit ==
  /\ state = [g \in Generations |-> "absent"] /\ vectors = [g \in Generations |-> {}]
  /\ pointer = None /\ denied = {} /\ embedding \in Embeddings
  /\ builder = [b \in Builders |-> [generation |-> None, seen |-> {}, at |-> "idle"]]
  /\ request = [r \in Requests |-> Resting]

Allowed(docs) == docs \ denied

--------------------------------------------------------------------------------
(* build *)

\* The texts of a generation are stored in one transaction, once.
Stage(b) ==
  /\ builder[b].at = "idle"
  /\ \E g \in Generations :
       /\ EmbeddingOf[g] = embedding
       /\ state' = [state EXCEPT ![g] = IF @ = "absent" THEN "building" ELSE @]
       /\ builder' = [builder EXCEPT ![b] = [generation |-> g, seen |-> {}, at |-> "writing"]]
  /\ UNCHANGED <<vectors, pointer, denied, embedding, request>>

\* Vectors are written in batches; then the identifiers the collection has are read.
Upsert(b) ==
  /\ builder[b].at = "writing"
  /\ \E d \in DocsOf[builder[b].generation] :
       vectors' = [vectors EXCEPT ![builder[b].generation] = @ \union {d}]
  /\ UNCHANGED <<state, pointer, denied, embedding, builder, request>>

Collect(b) ==
  /\ builder[b].at = "writing"
  /\ builder' = [builder EXCEPT ![b].at = "publishing", ![b].seen = vectors[builder[b].generation]]
  /\ UNCHANGED <<index, request>>

\* Faulty: the texts are counted, not the vectors.
PublishTexts(b) ==
  /\ builder[b].at = "publishing"
  /\ LET g == builder[b].generation IN
       state' = [state EXCEPT ![g] = "ready"] /\ pointer' = g
  /\ builder' = [builder EXCEPT ![b].at = "idle"]
  /\ UNCHANGED <<vectors, denied, embedding, request>>

\* The generation is published if the collection has exactly its documents.
Publish(b) ==
  /\ builder[b].at = "publishing"
  /\ LET g == builder[b].generation IN
       IF builder[b].seen = DocsOf[g]
         THEN state' = [state EXCEPT ![g] = "ready"] /\ pointer' = g
         ELSE UNCHANGED <<state, pointer>>
  /\ builder' = [builder EXCEPT ![b].at = "idle"]
  /\ UNCHANGED <<vectors, denied, embedding, request>>

\* A builder fails or dies; what it wrote stays and another build continues from it.
Fail(b) ==
  /\ builder[b].at # "idle"
  /\ builder' = [builder EXCEPT ![b].at = "idle"]
  /\ UNCHANGED <<index, request>>

--------------------------------------------------------------------------------
(* What operators do *)

Activate(g) ==
  /\ state[g] = "ready" /\ pointer # g
  /\ pointer' = g
  /\ UNCHANGED <<state, vectors, denied, embedding, builder, request>>

Deny(d) ==
  /\ d \notin denied
  /\ denied' = denied \union {d}
  /\ UNCHANGED <<state, vectors, pointer, embedding, builder, request>>

\* The processes are deployed again with another embedding model.
Redeploy ==
  /\ embedding' \in Embeddings \ {embedding}
  /\ builder' = [b \in Builders |-> [generation |-> None, seen |-> {}, at |-> "idle"]]
  /\ request' = [r \in Requests |-> IF request[r].at = "done" THEN request[r] ELSE Resting]
  /\ UNCHANGED <<state, vectors, pointer, denied>>

--------------------------------------------------------------------------------
(* search, evidence and delivery *)

Search(r) ==
  /\ request[r].at = "idle"
  /\ request' = [request EXCEPT ![r].at = IF pointer = None THEN "checking" ELSE "recalling",
                                ![r].generation = pointer, ![r].before = denied]
  /\ UNCHANGED <<index, builder>>

\* What a branch may find: documents that are not revoked at that moment. Vectors of another
\* embedding answer nothing.
Keyword(g) == SUBSET Allowed(DocsOf[g])
Vector(g) == IF EmbeddingOf[g] = embedding THEN SUBSET Allowed(DocsOf[g]) ELSE {}

\* A branch answers, fails, or is late.
Recall(r, kind) ==
  LET g == request[r].generation IN
  /\ request[r].at = "recalling" /\ request[r].branch[kind] = "none"
  /\ \/ \E found \in IF kind = "vector" THEN Vector(g) ELSE Keyword(g) :
          request' = [request EXCEPT ![r].branch[kind] = "done", ![r].rows = @ \union found]
     \/ request' = [request EXCEPT ![r].branch[kind] = "failed"]
  /\ UNCHANGED <<index, builder>>

\* The rows are ranked, and what has been revoked since is left out.
Select(r) ==
  /\ request[r].at = "recalling" /\ \A k \in Branches : request[r].branch[k] # "none"
  /\ \E chosen \in SUBSET request[r].rows :
       /\ chosen = {} => request[r].rows = {}
       /\ request' = [request EXCEPT ![r].at = "checking", ![r].rows = {}, ![r].chunks = Allowed(chosen)]
  /\ UNCHANGED <<index, builder>>

Searched(r) == \E k \in Branches : request[r].branch[k] = "done"

\* The checker keeps a part of the chunks. It finds them, or the data of the business,
\* sufficient, or insufficient; it may fail. When nothing was searched, what is not
\* sufficient is unavailable.
Check(r) ==
  /\ request[r].at = "checking"
  /\ \/ \E kept \in SUBSET request[r].chunks :
          request' = [request EXCEPT ![r].at = "generating", ![r].chunks = kept]
     \/ request' = [request EXCEPT ![r].at = "done", ![r].chunks = {},
                      ![r].reply = IF Searched(r) THEN "insufficient" ELSE "unavailable"]
     \/ request' = [request EXCEPT ![r].at = "done", ![r].chunks = {}, ![r].reply = "unavailable"]
  /\ UNCHANGED <<index, builder>>

\* Faulty: only what the answer cites is validated.
DeliverCited(r) ==
  /\ request[r].at = "generating"
  /\ \E cited \in SUBSET Docs :
       request' = [request EXCEPT ![r].at = "done",
         ![r].reply = IF cited \subseteq Allowed(request[r].chunks) THEN "answered" ELSE "withheld"]
  /\ UNCHANGED <<index, builder>>

\* The agent has answered from the chunks: they are validated again, and so is what the
\* answer cites, before it is delivered.
Deliver(r) ==
  /\ request[r].at = "generating"
  /\ \E cited \in SUBSET Docs :
       request' = [request EXCEPT ![r].at = "done",
         ![r].reply = IF Allowed(request[r].chunks) = request[r].chunks /\ cited \subseteq request[r].chunks
                        THEN "answered" ELSE "withheld"]
  /\ UNCHANGED <<index, builder>>

\* Advice about a delivery quotes the sources it names as they were found.
Advise(r) ==
  /\ request[r].at = "generating" /\ request[r].chunks # {}
  /\ \E cited \in SUBSET Docs :
       request' = [request EXCEPT ![r].at = "done",
         ![r].chunks = cited \intersect @,
         ![r].reply = IF cited # {} /\ cited \subseteq request[r].chunks THEN "advised" ELSE "withheld"]
  /\ UNCHANGED <<index, builder>>

IndexNext ==
  \/ \E b \in Builders : Stage(b) \/ Upsert(b) \/ Collect(b) \/ Publish(b) \/ Fail(b)
  \/ \E g \in Generations : Activate(g)
  \/ \E d \in Docs : Deny(d)
  \/ Redeploy
  \/ \E r \in Requests : \/ Search(r) \/ Select(r) \/ Check(r) \/ Deliver(r) \/ Advise(r)
                         \/ \E k \in Branches : Recall(r, k)

IndexSpec == IndexInit /\ [][IndexNext]_indexVars

--------------------------------------------------------------------------------
\* Whatever builders and operators do at the same time, the published generation is ready
\* and its collection has all its documents.
ActiveIsComplete ==
  pointer # None => state[pointer] = "ready" /\ vectors[pointer] = DocsOf[pointer]

\* No answer is delivered that was generated from a document that was revoked before
\* the answer was there, and no advice quotes one that was revoked before it was asked for.
RevokedNeverQuoted ==
  [][\A r \in Requests :
       request[r].reply = "none" =>
         /\ request'[r].reply = "answered" => request[r].chunks \intersect denied = {}
         /\ request'[r].reply = "advised" => request'[r].chunks \intersect request[r].before = {}]_indexVars
=============================================================================
