------------------------------- MODULE FaqCache -------------------------------
(* The cache of reviewed answers (core/faq_cache.py, used first by chat of api/main.py). *)
(* One Redis hash holds the answers to all wordings of a question, for one version of    *)
(* the catalogue and one user's rights: its key. Redis forgets a hash as a whole, some   *)
(* time after the last write to it. Questions are put into vectors by a service.         *)
EXTENDS Naturals, FiniteSets

CONSTANTS FaqAskers,      \* calls that are served at the same time
          Hashes,         \* the keys: a version of the catalogue and a user's rights
          WordingsOf,     \* which wordings of the question the catalogue of a key has
          Alike,          \* pairs of wordings whose vectors are within the threshold
          HashTtl,        \* how long a hash lives after a write
          Generation      \* how long it takes at most from a miss to the write

ASSUME FaqAssumption == HashTtl \in Nat \ {0} /\ Generation \in Nat /\ \A k \in Hashes : IsFiniteSet(WordingsOf[k])

VARIABLES hashes,  \* by key: how long it lives, the age of the answer to each wording in it
          asker,   \* what each call has reached
          replied     \* the answer it was given last

faqVars == <<hashes, asker, replied>>

Wordings == UNION {WordingsOf[k] : k \in Hashes}
NoAnswers == [w \in {} |-> 0]
NoQuestion == [at |-> "idle"]
NotAnswered == [kind |-> "none"]

FaqInit ==
  /\ hashes = [k \in Hashes |-> [left |-> 0, ages |-> NoAnswers]]
  /\ asker = [p \in FaqAskers |-> NoQuestion] /\ replied = [p \in FaqAskers |-> NotAnswered]

Proceeds(p, at) == asker' = [asker EXCEPT ![p] = at] /\ UNCHANGED replied
Tells(p, answer) ==
  /\ asker' = [asker EXCEPT ![p] = NoQuestion] /\ replied' = [replied EXCEPT ![p] = answer]

--------------------------------------------------------------------------------
\* eligible: only what is asked by itself, in the reviewed words, is answered here.
Eligible(k, w, alone) == alone /\ w \in WordingsOf[k]

AskFaq(p, k, w, alone) ==
  /\ asker[p].at = "idle"
  /\ IF Eligible(k, w, alone)
     THEN asker' = [asker EXCEPT ![p] = [at |-> "embedding", key |-> k, wording |-> w]]
          /\ replied' = [replied EXCEPT ![p] = NotAnswered]
     ELSE Tells(p, [kind |-> "agents"])
  /\ UNCHANGED hashes

\* embed_question. Without a vector the answer is generated, and not kept.
Misses(p, keeps) ==
  Proceeds(p, [at |-> "generating", key |-> asker[p].key, wording |-> asker[p].wording,
               keeps |-> keeps, left |-> Generation])
Embed(p) ==
  /\ asker[p].at = "embedding"
  /\ Proceeds(p, [asker[p] EXCEPT !.at = "reading"]) \/ Misses(p, FALSE)
  /\ UNCHANGED hashes

\* answer: the nearest of the answers that are near enough; its own words are nearest.
Near(k, w) == {v \in DOMAIN hashes[k].ages : v = w \/ {v, w} \in Alike}
ServeAnswer(p) ==
  LET q == asker[p] near == Near(q.key, q.wording) IN
  /\ q.at = "reading"
  /\ \E v \in near :
       /\ q.wording \in near => v = q.wording
       /\ Tells(p, [kind |-> "cached", of |-> q.key, wording |-> v, age |-> hashes[q.key].ages[v]])
  /\ UNCHANGED hashes
Miss(p) ==
  /\ asker[p].at = "reading"
  /\ \/ Near(asker[p].key, asker[p].wording) = {} /\ Misses(p, TRUE)
     \/ Misses(p, FALSE)
  /\ UNCHANGED hashes

\* generate_faq fails, or gives an answer.
Generate(p) ==
  /\ asker[p].at = "generating"
  /\ \/ Tells(p, [kind |-> "failed"])
     \/ asker[p].keeps /\ Proceeds(p, [asker[p] EXCEPT !.at = "keeping"])
     \/ ~asker[p].keeps /\ Tells(p, [kind |-> "generated"])
  /\ UNCHANGED hashes

\* The write and the new time to live are one transaction, which may fail unnoticed.
Kept(k, w) ==
  hashes' = [hashes EXCEPT ![k] = [left |-> HashTtl,
    ages |-> [v \in DOMAIN @.ages \cup {w} |-> IF v = w THEN 0 ELSE @.ages[v]]]]
KeepAnswer(p) ==
  /\ asker[p].at = "keeping"
  /\ Kept(asker[p].key, asker[p].wording) \/ UNCHANGED hashes
  /\ Tells(p, [kind |-> "generated"])

Interrupt(p) ==
  /\ asker[p].at # "idle" /\ asker' = [asker EXCEPT ![p] = NoQuestion] /\ UNCHANGED <<hashes, replied>>

FaqTick ==
  /\ \A p \in FaqAskers : asker[p].at \in {"generating", "keeping"} => asker[p].left > 0
  /\ hashes' = [k \in Hashes |->
       IF hashes[k].left <= 1 THEN [left |-> 0, ages |-> NoAnswers]
       ELSE [left |-> hashes[k].left - 1, ages |-> [v \in DOMAIN hashes[k].ages |-> hashes[k].ages[v] + 1]]]
  /\ asker' = [p \in FaqAskers |->
       IF asker[p].at \in {"generating", "keeping"} THEN [asker[p] EXCEPT !.left = @ - 1] ELSE asker[p]]
  /\ replied' = [p \in FaqAskers |-> NotAnswered]

FaqNext ==
  \/ \E p \in FaqAskers :
       \/ \E k \in Hashes, w \in Wordings, alone \in BOOLEAN : AskFaq(p, k, w, alone)
       \/ Embed(p) \/ ServeAnswer(p) \/ Miss(p) \/ Generate(p) \/ KeepAnswer(p) \/ Interrupt(p)
  \/ FaqTick
FaqSpec == FaqInit /\ [][FaqNext]_faqVars

--------------------------------------------------------------------------------
\* Every write lengthens the life of the answers beside it; but a wording that is kept is
\* served and not written again, so an answer of a hash is gone after one life for each
\* wording, and no one is told more than that hash has.
FaqAgesOut ==
  \A p \in FaqAskers : replied[p].kind = "cached" =>
    /\ replied[p].age <= Cardinality(WordingsOf[replied[p].of]) * (HashTtl + Generation)
    /\ replied[p].wording \in WordingsOf[replied[p].of]
=============================================================================
