------------------------------ MODULE MCServices ------------------------------
(* Small instances of services that share no state: a scene is one of them, and *)
(* the others stay as they start.                                               *)
EXTENDS ModelGate, ChatTurns, ConversationMemory, KnowledgeIndex, ToolCalls, EventStream,
        SchemaUpgrade, Workspaces, KnowledgeMigration, IntentRecognition,
        PaidExperiment, RunDispatch, HostedPipeline, StudioJobs,
        SyncChat, FaqCache, AgentSkills, ClientPromises

CONSTANTS c1, c2, c3, g1, g2, d1, d2, h1, h2, h3, u1, u2, s1, s2, s3, r1, r2, r3, j1, j2

\* The gate: a caller of another deployment has other limits.
TheirConfig == (c1 :> "a" @@ c2 :> "a" @@ c3 :> "b")

\* A conversation: a risky request, what completes or confirms it, and another turn.
Text(rule, says, word) ==
  [rule |-> rule, says |-> says, guesses |-> {}, bare |-> FALSE, word |-> word,
   domains |-> {"ads"}, urgent |-> FALSE]
DeleteAsset == [Text("delete_asset", {}, "other") EXCEPT !.guesses = {"asset_id"}]
Raise == Text("change_budget_or_bid", {"ad_id"}, "other")
Bare == [Text("none", {}, "other") EXCEPT !.bare = TRUE, !.domains = {}]
Yes == Text("none", {}, "yes")
No == Text("none", {}, "no")
Broken == [Text("none", {}, "other") EXCEPT !.domains = {"ads", "technical"}, !.urgent = TRUE]
Script == <<{DeleteAsset, Raise, Broken}, {Bare, Yes, No}, {Yes}>>

\* Two generations: one document, then two, for another embedding model.
OneThenTwo == (g1 :> {d1} @@ g2 :> {d1, d2})
TheirEmbedding == (g1 :> "e1" @@ g2 :> "e2")

\* An older release, its successor, and one whose second migration was edited.
TheirReleases == (h1 :> <<"a", "b">> @@ h2 :> <<"a", "b", "c">> @@ h3 :> <<"a", "B", "c">>)

\* The legacy knowledge base: documents of users, one of an old release, one since replaced.
TheirLegacy == <<"u1", "o1", "u2", "q1">>

\* Two messages with the same key but other words, a text of the pages, and the same text with
\* a character that the key leaves out.
Heard(key, word, score, template, similarity, urgent) ==
  [key |-> key, preset |-> "none", keywords |-> <<word, score>>, templates |-> <<template, similarity>>, urgent |-> urgent]
TheirMessages == {Heard("k1", "bid", 100, "bid", 100, FALSE), Heard("k1", "query", 50, "other", 0, TRUE),
                  Heard("k2", "other", 0, "complaint", 60, FALSE),
                  [Heard("k2", "other", 0, "complaint", 60, FALSE) EXCEPT !.preset = "query"]}

\* An experiment: what all rows share, then two arms.
TheirRows == <<"s", "x1", "x2">>
TheirRepeats == {<<"x2", "x1">>}

\* A text in two calls: in one it is sent again, under another name and with other words;
\* in the other its conversation goes on.
Said(key, alias, text) == [key |-> key, alias |-> alias, text |-> text]
TheirAsks == (j1 :> {Said("k1", "a1", "x"), Said("k1", "a2", "y")}
              @@ j2 :> {Said("k1", "a1", "x"), Said("k2", "a1", "x")})

\* Three wordings, two of them alike.
TheirWordings == ("v1" :> {"how", "where", "what"})

\* Rules in a file and two folders, of which one is new: for all, for a word, and one nobody
\* wants; what is told of one is shorter than the longest, and of all shorter than two of those.
Rule(body, agents, words, on) == [head |-> 1, body |-> body, agents |-> agents, words |-> words, enabled |-> on]
Long == Rule(4, {}, {}, TRUE)
Short == Rule(1, {"ads"}, {"bid"}, TRUE)
Unwanted == Rule(1, {}, {}, FALSE)
TheirFolder == <<Short, Absent, Long>>
TheirDrafts == {Long, Short, Unwanted, Absent, Spoiled, Blank}

\* Two users, one of them with two sessions.
TrioSessionOf == (r1 :> s1) @@ (r2 :> s2) @@ (r3 :> s3)
TrioOwnerOf == (s1 :> u1) @@ (s2 :> u1) @@ (s3 :> u2)

\* Each kind of job, and two that are worked off at the same time.
TheirOrders == {<<"video">>, <<"video", "video">>, <<"image", "image">>, <<"image", "analysis">>, <<"text">>, <<"image", "text">>}
TheirRetries == <<1, 0>>

CONSTANT Scenes
VARIABLE scene

Rest(s) ==
  /\ UNCHANGED scene
  /\ s # "gate" => UNCHANGED gateVars
  /\ s # "chat" => UNCHANGED chatVars
  /\ s # "memory" => UNCHANGED memoryVars
  /\ s # "index" => UNCHANGED indexVars
  /\ s # "tools" => UNCHANGED toolVars
  /\ s # "stream" => UNCHANGED streamVars
  /\ s # "schema" => UNCHANGED schemaVars
  /\ s # "work" => UNCHANGED workVars
  /\ s # "knowledge" => UNCHANGED knowledgeVars
  /\ s # "intent" => UNCHANGED intentVars
  /\ s # "paid" => UNCHANGED paidVars
  /\ s # "dispatch" => UNCHANGED dispatchVars
  /\ s # "pipeline" => UNCHANGED pipelineVars
  /\ s # "studio" => UNCHANGED studioVars
  /\ s # "sync" => UNCHANGED syncVars
  /\ s # "faq" => UNCHANGED faqVars
  /\ s # "skills" => UNCHANGED skillVars

MCInit ==
  /\ scene \in Scenes
  /\ GateInit /\ ChatInit /\ MemoryInit /\ IndexInit /\ ToolInit /\ StreamInit /\ SchemaInit
  /\ WorkInit /\ KnowledgeInit /\ IntentInit /\ PaidInit /\ DispatchInit
  /\ PipelineInit /\ StudioInit /\ SyncInit /\ FaqInit /\ SkillsInit
  /\ scene # "gate" => mode = "local"
  /\ scene # "index" => embedding = "e1"
  /\ scene # "knowledge" => exists
  /\ scene # "paid" => experiment = "fix"
  /\ scene # "pipeline" => enabled = {"command"}
  /\ scene # "studio" => jobs[1].kind = "text"

MCNext ==
  \/ scene = "gate" /\ GateNext /\ Rest("gate")
  \/ scene = "chat" /\ ChatNext /\ Rest("chat")
  \/ scene = "memory" /\ MemoryNext /\ Rest("memory")
  \/ scene = "index" /\ IndexNext /\ Rest("index")
  \/ scene = "tools" /\ ToolNext /\ Rest("tools")
  \/ scene = "stream" /\ StreamNext /\ Rest("stream")
  \/ scene = "schema" /\ SchemaNext /\ Rest("schema")
  \/ scene = "work" /\ WorkNext /\ Rest("work")
  \/ scene = "knowledge" /\ KnowledgeNext /\ Rest("knowledge")
  \/ scene = "intent" /\ IntentNext /\ Rest("intent")
  \/ scene = "paid" /\ PaidNext /\ Rest("paid")
  \/ scene = "dispatch" /\ DispatchNext /\ Rest("dispatch")
  \/ scene = "pipeline" /\ PipelineNext /\ Rest("pipeline")
  \/ scene = "studio" /\ StudioNext /\ Rest("studio")
  \/ scene = "sync" /\ SyncNext /\ Rest("sync")
  \/ scene = "faq" /\ FaqNext /\ Rest("faq")
  \/ scene = "skills" /\ SkillsNext /\ Rest("skills")

MCVars == <<scene, gateVars, chatVars, memoryVars, indexVars, toolVars, streamVars, schemaVars,
            workVars, knowledgeVars, intentVars, paidVars, dispatchVars,
            pipelineVars, studioVars, syncVars, faqVars, skillVars>>

MCSpec == MCInit /\ [][MCNext]_MCVars
=============================================================================
