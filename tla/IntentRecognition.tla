--------------------------- MODULE IntentRecognition ---------------------------
(* What a message asks for (core/intent_recognizer.py): a model, the similarity to      *)
(* templates and keywords vote, and the result is cached under the first characters of  *)
(* the message. Weights and confidences are in percent.                                 *)
EXTENDS Integers, Sequences, FiniteSetsExt

CONSTANTS Askers,
          Messages,    \* [key, preset, keywords, templates, urgent]: the two votes that need no model
          Intents,     \* what the model may answer
          Confidences,
          Similar,     \* whether similarity to templates is used
          Capacity     \* results the cache holds

\* What the code computes of its own lies between 0 and 1; the model may answer any number.
ASSUME IntentAssumption ==
  /\ Confidences \subseteq Int /\ Similar \in BOOLEAN /\ Capacity \in Nat \ {0}
  /\ \A m \in Messages : m.keywords[2] \in 0..100 /\ m.templates[2] \in 0..100

VARIABLES intents,  \* the cache, oldest first: <<key, result>>
          asked,    \* what each asker waits for
          told      \* the last result of each asker

intentVars == <<intents, asked, told>>

Other == "other"
NobodyAsks == [key |-> "none"]
NoPreset == "none"
\* A result, with what the model said and the message it was worked out for.
NotTold == [intent |-> Other, sure |-> 0, urgent |-> FALSE, failed |-> FALSE, said |-> Other, of |-> NobodyAsks]

IntentInit ==
  /\ intents = <<>> /\ asked = [a \in Askers |-> NobodyAsks] /\ told = [a \in Askers |-> NotTold]

--------------------------------------------------------------------------------
\* The votes of the model, the templates and the keywords.
By(vote, weight) == [vote |-> vote, weight |-> weight]
\* Equal weights for all three.
EvenWeights(llm, emb, pat) == <<By(llm, 34), By(emb, 33), By(pat, 33)>>
Weights(llm, emb, pat) ==
  IF Similar THEN <<By(llm, 70), By(emb, 20), By(pat, 10)>> ELSE <<By(llm, 85), By(emb, 0), By(pat, 15)>>

\* The weight of the votes for an intent.
Share(w, i) == IF w.vote[1] = i THEN w.weight * w.vote[2] ELSE 0
Weigh(weights, i) == Share(weights[1], i) + Share(weights[2], i) + Share(weights[3], i)

\* _vote: the first of the heaviest, if it weighs half; without the model, the templates,
\* then the keywords.
Elected(weights) ==
  LET sums == [n \in DOMAIN weights |-> Weigh(weights, weights[n].vote[1])]
      best == Min({n \in DOMAIN weights : \A k \in DOMAIN weights : sums[k] <= sums[n]})
  IN  IF sums[best] >= 5000 THEN weights[best].vote[1] ELSE Other
WithoutModel(emb, pat) ==
  IF emb[1] # Other /\ emb[2] > 0 THEN emb[1] ELSE IF pat[2] > 0 THEN pat[1] ELSE Other

\* _urgency: the words of the message, or the intent.
Urgent(m, intent) == m.urgent \/ intent \in {"escalation", "complaint"}

\* Half of a full cache is dropped, the oldest first.
Remember(key, result) ==
  LET kept == IF Len(intents) >= Capacity THEN SubSeq(intents, Capacity \div 2 + 1, Len(intents)) ELSE intents
      others == \A n \in DOMAIN kept : kept[n][1] # key
  IN  intents' = IF others THEN Append(kept, <<key, result>>)
                 ELSE [n \in DOMAIN kept |-> IF kept[n][1] = key THEN <<key, result>> ELSE kept[n]]

--------------------------------------------------------------------------------
InCache(key) == \E n \in DOMAIN intents : intents[n][1] = key

\* recognize: answered from the cache, as one of the texts that the pages offer, whose answer
\* is not cached, or asked of the model.
RecallIntent(a, m) ==
  /\ asked[a] = NobodyAsks
  /\ \E n \in DOMAIN intents : intents[n][1] = m.key /\ told' = [told EXCEPT ![a] = intents[n][2]]
  /\ UNCHANGED <<intents, asked>>

Preset(m) ==
  [intent |-> m.preset, sure |-> 100, urgent |-> FALSE, failed |-> FALSE, said |-> m.preset, of |-> m]
AnswerPreset(a, m) ==
  /\ asked[a] = NobodyAsks /\ ~InCache(m.key) /\ m.preset # NoPreset
  /\ told' = [told EXCEPT ![a] = Preset(m)]
  /\ UNCHANGED <<intents, asked>>

AskModel(a, m) ==
  /\ asked[a] = NobodyAsks /\ ~InCache(m.key) /\ m.preset = NoPreset
  /\ asked' = [asked EXCEPT ![a] = m] /\ UNCHANGED <<intents, told>>

\* A call that fails counts as a vote for nothing, and its result is cached as well.
ModelAnswers(a, intent, confidence, failed) ==
  LET m == asked[a]
      emb == IF Similar THEN m.templates ELSE <<Other, 0>>
      elected == IF failed THEN WithoutModel(emb, m.keywords)
                 ELSE Elected(Weights(<<intent, confidence>>, emb, m.keywords))
      result == [intent |-> elected, sure |-> IF failed THEN 0 ELSE confidence,
                 urgent |-> Urgent(m, elected), failed |-> failed, said |-> intent, of |-> m]
  IN  /\ m # NobodyAsks
      /\ told' = [told EXCEPT ![a] = result]
      /\ asked' = [asked EXCEPT ![a] = NobodyAsks]
      /\ Remember(m.key, result)

\* An answer without a confidence is an error after the vote, and nothing is cached.
FailToAnswer(a) ==
  /\ asked[a] # NobodyAsks /\ asked' = [asked EXCEPT ![a] = NobodyAsks]
  /\ UNCHANGED <<intents, told>>

IntentNext ==
  \E a \in Askers :
    \/ \E m \in Messages : RecallIntent(a, m) \/ AnswerPreset(a, m) \/ AskModel(a, m)
    \/ FailToAnswer(a)
    \/ \E i \in Intents, c \in Confidences, f \in BOOLEAN : ModelAnswers(a, i, c, f)
IntentSpec == IntentInit /\ [][IntentNext]_intentVars

--------------------------------------------------------------------------------
\* Keywords and templates never outvote a model that answered, even together, and a model
\* that is not sure enough is not followed without them: an answer, fresh or cached, is the
\* model's intent or none. Only a call that failed leaves it to them: its answer stays in the
\* cache like any other, for every message with the same beginning, and names nothing but
\* what one of them found in the message the call was made for (_vote, recognize).
VotedWithout(m) == {v \in {m.keywords} \union (IF Similar THEN {m.templates} ELSE {}) : v[2] > 0}
ModelIsNotOutvoted ==
  \A a \in Askers : LET r == told[a] IN
    /\ ~r.failed => r.intent \in {r.said, Other} /\ (r.sure < 20 => r.intent = Other)
    /\ r.failed => r.intent \in {v[1] : v \in VotedWithout(r.of)} \union {Other}
=============================================================================
