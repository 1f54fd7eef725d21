---------------------------- MODULE ClientPromises ----------------------------
(* What the clients of the services are promised by more than one part of the system at *)
(* once: each promise is the conjunction of what those parts promise.                    *)
EXTENDS ToolCalls, FaqCache, EventStream, SyncChat

\* What the caches serve is not older than they promise: tool results and reviewed answers.
CachesAgeOut == StalenessIsBounded /\ FaqAgesOut

\* What a client is told of its runs is what happened to them: in the stream of events, and
\* in the answers of the compatible call.
ToldAsItHappened == LogIsHeard /\ AskedOnce
=============================================================================
