--------------------------- MODULE ConversationMemory ---------------------------
(* The working memory of one conversation (memory/conversation_memory.py): a list in *)
(* Redis that is compressed into a summary when it grows, and the archive of what    *)
(* was compressed. Writers of several processes add messages at the same time, one    *)
(* reads what it will tell its agent; the model that summarizes is slow, may fail,    *)
(* and its caller may be cancelled.                                                  *)
EXTENDS Integers, Sequences, SequencesExt, FiniteSetsExt

CONSTANTS Writers,
          MaxMessages, \* messages that are added
          CompressAt,  \* the length from which the list is compressed
          Keep,        \* the messages that stay in the list
          MaxText,     \* what fits into one request to summarize
          Window       \* the messages of the list that a context shows

ASSUME MemoryAssumption ==
  /\ {Keep, CompressAt, MaxText, Window} \subseteq Nat
  /\ 0 < Keep /\ Keep < CompressAt /\ CompressAt <= MaxText /\ CompressAt <= Window

VARIABLES added,    \* how many messages have been added; they are numbered
          list,     \* the messages in Redis, oldest first
          summary,  \* the messages the summary in Redis tells of
          archive,  \* the messages in the collection of episodes
          writer,   \* what a writer has read before it asked the model
          lapsed,   \* the messages that were in Redis when it dropped the list, or the summary
          context   \* what a turn reads: messages, those too many to show, and all there were

memoryVars == <<added, list, summary, archive, writer, lapsed, context>>

NoWriter == [at |-> "idle", seen |-> <<>>, told |-> {}]

MemoryInit ==
  /\ added = 0 /\ list = <<>> /\ summary = {} /\ archive = {} /\ lapsed = {}
  /\ writer = [w \in Writers |-> NoWriter]
  /\ context = [at |-> "none", tells |-> {}, hidden |-> {}, upto |-> 0]

Becomes(w, where) == writer' = [writer EXCEPT ![w].at = where]
Stops(w) == writer' = [writer EXCEPT ![w] = NoWriter]

\* What a compression takes out of the list it has seen, and what it leaves there.
Old(seen) == ToSet(SubSeq(seen, 1, Len(seen) - Keep))
Recent(seen) == SubSeq(seen, Len(seen) - Keep + 1, Len(seen))

\* A message is added. At the threshold the writer reads the list and the summary, and
\* asks the model, unless there is more than fits into a request.
AddMessage(w) ==
  /\ writer[w].at = "idle" /\ added < MaxMessages
  /\ added' = added + 1
  /\ list' = Append(list, added')
  /\ writer' = [writer EXCEPT ![w] =
       IF Len(list') >= CompressAt /\ Len(list') - Keep <= MaxText
         THEN [at |-> "summarizing", seen |-> list', told |-> summary] ELSE NoWriter]
  /\ UNCHANGED <<summary, archive, lapsed, context>>

\* The model has answered with a summary that is neither empty nor too long, or has not.
Summarize(w) ==
  /\ writer[w].at = "summarizing"
  /\ Becomes(w, "archiving") \/ Stops(w)
  /\ UNCHANGED <<added, list, summary, archive, lapsed, context>>

\* What is about to be taken out of the list is archived first.
Archive(w) ==
  /\ writer[w].at = "archiving"
  /\ \/ archive' = archive \union Old(writer[w].seen) /\ Becomes(w, "swapping")
     \/ Stops(w) /\ UNCHANGED archive
  /\ UNCHANGED <<added, list, summary, lapsed, context>>

\* Faulty: what was read is not compared.
SwapBlindly(w) ==
  /\ writer[w].at = "swapping"
  /\ list' = Recent(writer[w].seen)
  /\ summary' = writer[w].told \union Old(writer[w].seen)
  /\ Stops(w)
  /\ UNCHANGED <<added, archive, lapsed, context>>

\* The list and the summary are replaced together if both still are what was read.
Swap(w) ==
  /\ writer[w].at = "swapping"
  /\ IF list = writer[w].seen /\ summary = writer[w].told
       THEN /\ list' = Recent(list)
            /\ summary' = summary \union Old(list)
       ELSE UNCHANGED <<list, summary>>
  /\ Stops(w)
  /\ UNCHANGED <<added, archive, lapsed, context>>

\* The request is out of time, or its process dies.
CancelCompression(w) ==
  /\ writer[w].at # "idle"
  /\ Stops(w)
  /\ UNCHANGED <<added, list, summary, archive, lapsed, context>>

\* Redis drops the summary a day after it was written; the list may live on. It drops
\* the list a day after the last message.
ForgetSummary ==
  /\ summary # {}
  /\ lapsed' = lapsed \union summary /\ summary' = {}
  /\ UNCHANGED <<added, list, archive, writer, context>>

ForgetList ==
  /\ list # <<>>
  /\ lapsed' = lapsed \union ToSet(list) /\ list' = <<>>
  /\ UNCHANGED <<added, summary, archive, writer, context>>

\* get_context: the newest messages of the list, and the summary after them.
ReadRecent ==
  LET shown == Min({Len(list), Window}) IN
  /\ context.at # "told"
  /\ context' = [at |-> "reading", tells |-> ToSet(SubSeq(list, Len(list) - shown + 1, Len(list))),
                 hidden |-> ToSet(SubSeq(list, 1, Len(list) - shown)), upto |-> added]
  /\ UNCHANGED <<added, list, summary, archive, writer, lapsed>>
ReadSummary ==
  /\ context.at = "reading"
  /\ context' = [context EXCEPT !.at = "told", !.tells = @ \union summary]
  /\ UNCHANGED <<added, list, summary, archive, writer, lapsed>>

MemoryNext ==
  \/ \E w \in Writers : AddMessage(w) \/ Summarize(w) \/ Archive(w) \/ Swap(w) \/ CancelCompression(w)
  \/ ForgetSummary \/ ForgetList \/ ReadRecent \/ ReadSummary

MemorySpec == MemoryInit /\ [][MemoryNext]_memoryVars

--------------------------------------------------------------------------------
\* The summary and the list tell the whole conversation, each message once and in order:
\* two writers that compress at the same time neither lose a message nor tell it twice. What has
\* left the list is in the archive, unless Redis has dropped the list it was in. A turn that
\* reads in between is told of every message, but for those a long list hides.
TellsAll ==
  /\ 1..added = ToSet(list) \union summary \union lapsed
  /\ 1..added = ToSet(list) \union archive \union lapsed
  /\ summary \intersect ToSet(list) = {}
  /\ \A i \in 1..Len(list) - 1 : list[i] < list[i + 1]
  /\ context.at = "told" => 1..context.upto \subseteq context.tells \union context.hidden \union lapsed
=============================================================================
