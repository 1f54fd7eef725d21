----------------------------- MODULE AgentSkills -----------------------------
(* The rules of the business that are put before an agent (core/skill_loader.py): files *)
(* which an operator edits, read one after another when the service starts or is asked   *)
(* to reload, and told to the model as far as they concern the request and fit. The       *)
(* service does nothing else while it reads; the operator may. Lengths are in units.     *)
EXTENDS Integers, Sequences, FiniteSetsExt

CONSTANTS Files,      \* how many, in the order of their paths
          Named,      \* those that are called SKILL.md
          Folder,     \* what the files hold at first
          Drafts,     \* what they may hold: a rule, or one of the next three
          Absent,     \* there is no such file
          Spoiled,     \* it is half-written JSON, or has no content
          Blank,      \* a text without a body: no skill, and no error
          AgentTypes,     \* the types of agents
          Words,      \* key words
          PerSkill,   \* how much of the content of a skill is told
          Budget,     \* the length all of them have, with their headings
          Dots,       \* what is put where something is cut off
          MaxEdits    \* bound

IsRule(draft) == draft \notin {Absent, Spoiled, Blank}

ASSUME SkillAssumption ==
  /\ {Files, PerSkill, Budget, Dots, MaxEdits} \subseteq Nat /\ Folder \in [1..Files -> Drafts]
  /\ Named \subseteq 1..Files
  /\ \A draft \in Drafts : IsRule(draft) => draft.head \in Nat /\ draft.body \in Nat

VARIABLES file,    \* what each file holds
          held,    \* what it held since the last scan began
          scan,    \* the files that are still to be read, and the result so far
          skills,  \* what is loaded
          errors,  \* files that could not be loaded
          prompt,  \* the last request, and what was told for it
          edits

skillVars == <<file, held, scan, skills, errors, prompt, edits>>

NoScan == [on |-> FALSE, first |-> {}, listed |-> FALSE, left |-> {}, found |-> <<>>, failed |-> {}]

\* _discover_files lists every SKILL.md, and gives those out before it lists the rest.
Discovered(among) == {f \in among : file[f] # Absent}
ScanOfNamed == [NoScan EXCEPT !.on = TRUE, !.first = Discovered(Named), !.left = Discovered(Named)]

SkillsInit ==
  /\ file = Folder /\ held = [f \in 1..Files |-> {Folder[f]}] /\ scan = ScanOfNamed
  /\ skills = <<>> /\ errors = {} /\ edits = 0
  /\ prompt = [asked |-> FALSE, told |-> <<>>, agent |-> CHOOSE a \in AgentTypes : TRUE, says |-> {}]

--------------------------------------------------------------------------------
\* load: a file that fails does not keep the others from being loaded.
Reload ==
  /\ ~scan.on /\ scan' = ScanOfNamed /\ held' = [f \in 1..Files |-> {file[f]}]
  /\ prompt' = [prompt EXCEPT !.asked = FALSE, !.told = <<>>]
  /\ UNCHANGED <<file, skills, errors, edits>>
\* Whatever there is, but for what the first listing gave out; a SKILL.md that is new is among it.
ListTheRest(among) ==
  /\ scan.on /\ scan.left = {} /\ ~scan.listed
  /\ scan' = [scan EXCEPT !.listed = TRUE, !.left = Discovered(among)]
  /\ UNCHANGED <<file, held, skills, errors, prompt, edits>>
\* The listing that forgets what was given out before.
ListAll == ListTheRest(1..Files)
ListOthers == ListTheRest((1..Files) \ scan.first)

\* What has vanished is an error when the first listing had it, and passed over otherwise.
Unloadable(f) == file[f] = Spoiled \/ (file[f] = Absent /\ f \in scan.first)
Loads(f) ==
  scan' = [scan EXCEPT !.left = @ \ {f},
    !.found = IF IsRule(file[f]) THEN Append(@, [file |-> f, rule |-> file[f]]) ELSE @,
    !.failed = IF Unloadable(f) THEN @ \union {f} ELSE @]
ReadSkill ==
  /\ scan.on /\ scan.left # {} /\ Loads(Min(scan.left))
  /\ UNCHANGED <<file, held, skills, errors, prompt, edits>>
EndScan ==
  /\ scan.on /\ scan.left = {} /\ scan.listed
  /\ skills' = scan.found /\ errors' = scan.failed
  /\ scan' = [NoScan EXCEPT !.first = scan.first]
  /\ UNCHANGED <<file, held, prompt, edits>>

--------------------------------------------------------------------------------
\* matches: an enabled skill, of that agent or of all, of a word of the message or of any.
Matches(rule, who, says) ==
  /\ rule.enabled
  /\ rule.agents # {} => who \in rule.agents
  /\ rule.words # {} => rule.words \intersect says # {}

\* to_prompt_block: the name and the description, and as much of the content as may be told.
SkillBlock(rule) == rule.head + IF rule.body > PerSkill THEN PerSkill + Dots ELSE rule.body

\* prompt_for: one after another, as long as anything is left; what is longer is cut there.
Appended(acc, skill) ==
  LET size == IF SkillBlock(skill.rule) > acc.left THEN acc.left + Dots ELSE SkillBlock(skill.rule)
  IN [told |-> Append(acc.told, [file |-> skill.file, rule |-> skill.rule,
                                 from |-> Budget - acc.left, size |-> size]),
      left |-> acc.left - size]
Applies(acc, skill, who, says) ==
  Matches(skill.rule, who, says) /\ (acc.told # <<>> => acc.left > 0)
AfterSkill(who, says) ==
  LET acc[n \in 0..Len(skills)] ==
        IF n = 0 THEN [told |-> <<>>, left |-> Budget]
        ELSE IF Applies(acc[n - 1], skills[n], who, says) THEN Appended(acc[n - 1], skills[n])
        ELSE acc[n - 1]
  IN acc
PromptFor(who, says) == AfterSkill(who, says)[Len(skills)].told
BuildPrompt(who, says) ==
  /\ ~scan.on
  /\ prompt' = [asked |-> TRUE, told |-> PromptFor(who, says), agent |-> who, says |-> says]
  /\ UNCHANGED <<file, held, scan, skills, errors, edits>>

\* The operator writes, spoils or removes a file, at any time.
EditSkill(f, draft) ==
  /\ edits < MaxEdits /\ draft # file[f]
  /\ file' = [file EXCEPT ![f] = draft] /\ held' = [held EXCEPT ![f] = @ \union {draft}]
  /\ edits' = edits + 1
  /\ prompt' = [prompt EXCEPT !.asked = FALSE, !.told = <<>>]
  /\ UNCHANGED <<scan, skills, errors>>

SkillsNext ==
  \/ Reload \/ ListOthers \/ ReadSkill \/ EndScan
  \/ \E who \in AgentTypes, says \in SUBSET Words : BuildPrompt(who, says)
  \/ \E f \in 1..Files, draft \in Drafts : EditSkill(f, draft)
SkillsSpec == SkillsInit /\ [][SkillsNext]_skillVars

--------------------------------------------------------------------------------
\* Whatever the operator does meanwhile, and whichever files are spoiled: what an agent is
\* told was in the files since the last scan began, one after another without a gap, each
\* skill once, and whole but for the last; all of it fits (but for the dots, and for what
\* prompt_for itself puts before and between). What that scan listed first comes before the
\* rest, and each part is in the order of the paths. A rule for the request that was in its
\* file all the time is told, unless what is told before it takes all the room.
Rank(f) == IF f \in scan.first THEN f ELSE Files + f
End(told, n) == IF n = 0 THEN 0 ELSE told[n].from + told[n].size
RulesAreTold ==
  LET told == prompt.told IN
  prompt.asked =>
    /\ End(told, Len(told)) <= Budget + Dots
    /\ \A n \in DOMAIN told :
         /\ told[n].rule \in held[told[n].file] /\ told[n].from = End(told, n - 1)
         /\ told[n].size # SkillBlock(told[n].rule) =>
              n = Len(told) /\ told[n].size < SkillBlock(told[n].rule) + Dots
    /\ \A m, n \in DOMAIN told : m < n => Rank(told[m].file) < Rank(told[n].file)
    /\ \A f \in 1..Files :
         (\E rule \in held[f] : held[f] = {rule} /\ IsRule(rule) /\ Matches(rule, prompt.agent, prompt.says))
           => \/ \E n \in DOMAIN told : told[n].file = f
              \/ told # <<>> /\ End(told, Len(told)) >= Budget /\ Rank(told[Len(told)].file) < Rank(f)
=============================================================================
