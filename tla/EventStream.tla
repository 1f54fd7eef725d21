------------------------------ MODULE EventStream ------------------------------
(* The event log of one run (hosting/repository.py) and the clients that follow it    *)
(* (hosting/api.py, hosting/auth.py): the worker, the approval and the cancellation    *)
(* write numbered events, a client reads them page by page over a stream that may     *)
(* break, and cleanup purges the log of a run that ended long ago, in batches that     *)
(* have no order.                                                                     *)
EXTENDS Naturals, SequencesExt, FiniteSetsExt

CONSTANTS Readers,  \* clients of one user
          Streams,  \* streams a user may have open
          MaxEvents,\* events a run may write, its end apart
          Page,     \* rows of one read
          Batch     \* rows of one purge

ASSUME StreamAssumption == {Streams, MaxEvents, Page, Batch} \subseteq Nat \ {0}

VARIABLES status, \* queued, running, waiting, stopping or ended
          log,    \* the types of the events written, by number
          stored, \* the numbers of the events that are not purged
          erased, \* a source message of the session was erased
          tickets,\* the clients whose streams the user's limit counts
          others, \* and how many more: streams of other runs, and of processes that died
          stream, \* what the server still has to send on each stream
          heard   \* what each client got: the events, the last one's number, its verdict

streamVars == <<status, log, stored, erased, tickets, others, stream, heard>>
runVars == <<status, log, stored, erased>>

Shut == [open |-> FALSE, after |-> 0, rows |-> {}, ends |-> FALSE]
StreamInit ==
  /\ status = "queued" /\ log = <<"run.queued">> /\ stored = {1} /\ erased = FALSE
  /\ tickets = {} /\ others = 0 /\ stream = [c \in Readers |-> Shut]
  /\ heard = [c \in Readers |-> [events |-> {}, last |-> 0, verdict |-> "none"]]

--------------------------------------------------------------------------------
(* The run writes its log *)

LogRoom == Len(log) < MaxEvents
\* A limit that drops whatever comes, the end too.
Write(type) == log' = Append(log, type) /\ stored' = stored \union {Len(log) + 1}
Moves(to, type) == status' = to /\ Write(type) /\ UNCHANGED erased

\* Starting, asking and approving fail as a whole when the log is full.
StartRun == status = "queued" /\ LogRoom /\ Moves("running", "run.started")
AskUser == status = "running" /\ LogRoom /\ Moves("waiting", "approval.required")
UserApproves == status = "waiting" /\ LogRoom /\ Moves("queued", "run.queued")

\* Deltas and stages need the lease; a tool is also recorded while the run stops.
Progress == status \in {"running", "stopping"} /\ LogRoom /\ Moves(status, "progress")

StopRun == status = "running" /\ status' = "stopping" /\ UNCHANGED <<log, stored, erased>>

\* The end is written whatever the size of the log.
EndRun == status # "ended" /\ Moves("ended", "run.finished")

\* suppress_source: a waiting run ends, an active one stops.
EraseSource ==
  /\ ~erased /\ erased' = TRUE
  /\ \/ status \in {"queued", "waiting"} /\ status' = "ended" /\ Write("run.finished")
     \/ status = "running" /\ status' = "stopping" /\ UNCHANGED <<log, stored>>
     \/ status \in {"stopping", "ended"} /\ UNCHANGED <<status, log, stored>>

\* A batch is shared with the logs of other runs, and takes whichever rows it meets.
Purgeable == status = "ended"
Cleanup ==
  /\ Purgeable
  /\ \E old \in SUBSET stored : Cardinality(old) \in 1..Batch /\ stored' = stored \ old
  /\ UNCHANGED <<status, log, erased>>

RunMoves ==
  /\ StartRun \/ AskUser \/ UserApproves \/ Progress \/ StopRun \/ EndRun \/ EraseSource \/ Cleanup
  /\ UNCHANGED <<tickets, others, stream, heard>>

--------------------------------------------------------------------------------
(* A client follows it *)

\* read_events: what a read after event n is refused for. Only the oldest row that is
\* stored is looked at, and a log that is all purged has none.
Refusal(n) ==
  IF erased THEN "erased" ELSE IF \A m \in stored : n + 1 < m THEN "expired" ELSE "none"

\* The last rows beyond it, which a reader who comes late would rather see.
LastRowsAfter(n) ==
  LET beyond == {m \in stored : n < m} IN {m \in beyond : Cardinality({k \in beyond : k >= m}) <= Page}

\* The first rows that are stored beyond it.
RowsAfter(n) ==
  LET beyond == {m \in stored : n < m} IN {m \in beyond : Cardinality({k \in beyond : k <= m}) <= Page}

HasRoom == Cardinality(tickets) + others < Streams
Hangs(c) == stream' = [stream EXCEPT ![c] = Shut] /\ tickets' = tickets \ {c}
Judges(c, verdict) == heard' = [heard EXCEPT ![c].verdict = verdict]

\* The first read is made before the stream starts, so a refusal reaches the client.
Follow(c) ==
  /\ ~stream[c].open /\ heard[c].verdict = "none"
  /\ \/ Refusal(heard[c].last) # "none" /\ Judges(c, Refusal(heard[c].last))
        /\ UNCHANGED <<stream, tickets>>
     \/ /\ Refusal(heard[c].last) = "none"
        /\ HasRoom /\ tickets' = tickets \union {c}
        /\ stream' = [stream EXCEPT ![c] = [Shut EXCEPT !.open = TRUE, !.after = heard[c].last]]
        /\ UNCHANGED heard
  /\ UNCHANGED <<runVars, others>>

\* A refusal inside the stream only breaks it: the client learns when it comes back.
PollLog(c) ==
  /\ stream[c].open /\ stream[c].rows = {} /\ ~stream[c].ends
  /\ IF Refusal(stream[c].after) # "none" THEN Hangs(c)
     ELSE LET rows == RowsAfter(stream[c].after)
              upto == IF rows = {} THEN stream[c].after ELSE Max(rows) IN
          /\ stream' = [stream EXCEPT ![c].rows = rows, ![c].after = upto,
                                      ![c].ends = status = "ended" /\ upto = Len(log)]
          /\ UNCHANGED tickets
  /\ UNCHANGED <<runVars, others, heard>>

Send(c) ==
  /\ stream[c].rows # {}
  /\ LET n == Min(stream[c].rows) IN
     /\ stream' = [stream EXCEPT ![c].rows = @ \ {n}]
     /\ heard' = [heard EXCEPT ![c].events = @ \union {n}, ![c].last = n]
  /\ UNCHANGED <<runVars, tickets, others>>

EndStream(c) ==
  /\ stream[c].open /\ stream[c].ends /\ stream[c].rows = {}
  /\ Hangs(c) /\ Judges(c, "complete") /\ UNCHANGED <<runVars, others>>

\* The connection breaks, with what was not sent; a process that dies leaves its ticket.
BreakStream(c) == stream[c].open /\ Hangs(c) /\ UNCHANGED <<runVars, others, heard>>
Vanish(c) ==
  /\ stream[c].open /\ stream' = [stream EXCEPT ![c] = Shut]
  /\ tickets' = tickets \ {c} /\ others' = others + Cardinality(tickets \ tickets')
  /\ UNCHANGED <<runVars, heard>>

\* A ticket runs out when its stream is gone or too slow to renew it in time; the
\* heartbeat of a slow stream takes a new one or breaks the stream.
RunsOut(c) == c \in tickets /\ tickets' = tickets \ {c} /\ UNCHANGED <<runVars, others, stream, heard>>
Beat(c) ==
  /\ stream[c].open /\ stream[c].rows = {} /\ c \notin tickets
  /\ IF HasRoom THEN tickets' = tickets \union {c} /\ UNCHANGED stream ELSE Hangs(c)
  /\ UNCHANGED <<runVars, others, heard>>

\* The user's other streams come and go.
OtherStreams ==
  /\ others' \in {others + 1, others - 1} \intersect Nat /\ (others' > others => HasRoom)
  /\ UNCHANGED <<runVars, tickets, stream, heard>>

StreamNext ==
  \/ RunMoves \/ OtherStreams
  \/ \E c \in Readers : \/ Follow(c) \/ PollLog(c) \/ Send(c) \/ EndStream(c) \/ BreakStream(c)
                        \/ Vanish(c) \/ RunsOut(c) \/ Beat(c)
StreamSpec == StreamInit /\ [][StreamNext]_streamVars

--------------------------------------------------------------------------------
(* Properties *)

\* A client that follows a run through broken streams and the purge of the log misses
\* no event up to the last it got, but those that were purged of a run that ended, is
\* told that the log has expired only if its next event is gone, and that the stream is
\* complete only with the event of the end (read_events, stream). That purged events
\* leave no hole behind a row that is still stored is more than the code promises.
FollowsTheRun ==
  \A c \in Readers :
    LET missed == (1..heard[c].last) \ heard[c].events IN
    /\ missed \intersect stored = {} /\ (missed # {} => status = "ended")
    /\ heard[c].verdict = "expired" => heard[c].last + 1 \notin stored
    /\ heard[c].verdict = "complete" => status = "ended" /\ heard[c].last = Len(log)

\* The last event tells how a run that nobody executes stands, and nothing follows the
\* end: not even a run at the limit of its log ends without saying so (_event).
StreamTellsStatus ==
  /\ status = "queued" <=> Last(log) = "run.queued"
  /\ status = "waiting" <=> Last(log) = "approval.required"
  /\ status = "ended" <=> \E n \in DOMAIN log : log[n] = "run.finished"
  /\ status = "ended" => Last(log) = "run.finished"

\* The log is true to the run, and what a client has heard is true to the log.
LogIsHeard == FollowsTheRun /\ StreamTellsStatus
=============================================================================
