-------------------------- MODULE KnowledgeMigration --------------------------
(* The collections of the knowledge base (mcp/knowledge_base.py): when the services of  *)
(* a new release start, each copies the documents of the old collection, if there is    *)
(* one, into the new one, page by page, unless a record says that this was done; then it *)
(* replaces the default documents. Every call to the store is a step. A service may die  *)
(* or fail at any point and start again, and an old release may still write.            *)
EXTENDS Naturals, SequencesExt, FiniteSetsExt

CONSTANTS Services, \* processes of the new release
          Legacy,   \* the documents of the old collection, in its order
          Added,    \* documents the old release may still add
          Removed,  \* documents it may remove
          Retired,  \* documents under the titles of an old release
          Replaced, \* default documents of the last release
          Defaults, \* the default documents
          PageSize,
          MaxCrashes

ASSUME MigrationAssumption ==
  /\ Services # {} /\ Legacy \in Seq(ToSet(Legacy) \union Added) /\ PageSize \in Nat
  /\ Defaults \intersect (Retired \union Replaced) = {}

VARIABLES exists,  \* there is an old collection
          old,     \* its documents
          new,     \* the new collection
          record,  \* the completion record
          service, \* what each service does
          promised,\* what the record stands for
          crashes

knowledgeVars == <<exists, old, new, record, service, promised, crashes>>

\* A service remembers how much there is and which page it has read; and, for what the
\* record promises, whether anything was removed since then and what there was in the end.
Starting == [at |-> "starting", expected |-> 0, offset |-> 0, page |-> {}, missing |-> {},
             shrunk |-> FALSE, copied |-> {}]

KnowledgeInit ==
  /\ exists \in BOOLEAN /\ old = (IF exists THEN Legacy ELSE <<>>)
  /\ new = {} /\ record = FALSE /\ promised = {} /\ crashes = 0
  /\ service = [p \in Services |-> Starting]

ServiceGoes(p, at) == service' = [service EXCEPT ![p].at = at]
PageAt(offset) == ToSet(SubSeq(old, offset + 1, Min({offset + PageSize, Len(old)})))

--------------------------------------------------------------------------------
\* _open_cosine_collection: nothing to do, or count what there is.
OpenCollection(p) ==
  /\ service[p].at = "starting" /\ ServiceGoes(p, IF record THEN "defaults" ELSE "counting")
  /\ UNCHANGED <<exists, old, new, record, promised, crashes>>
CountLegacy(p) ==
  /\ service[p].at = "counting"
  /\ service' = [service EXCEPT ![p] =
       [Starting EXCEPT !.at = IF exists THEN "reading" ELSE "recording", !.expected = Len(old)]]
  /\ UNCHANGED <<exists, old, new, record, promised, crashes>>

\* A page, and what of it the new collection does not hold.
ReadPage(p) ==
  /\ service[p].at = "reading" /\ service[p].offset < service[p].expected
  /\ service' = [service EXCEPT ![p].at = "comparing", ![p].page = PageAt(service[p].offset)]
  /\ UNCHANGED <<exists, old, new, record, promised, crashes>>
NextPage(p) ==
  service' = [service EXCEPT ![p].at = "reading", ![p].offset = @ + PageSize,
                             ![p].page = {}, ![p].missing = {}]
ComparePage(p) ==
  /\ service[p].at = "comparing"
  /\ LET missing == service[p].page \ new IN
     IF missing = {} THEN NextPage(p)
     ELSE service' = [service EXCEPT ![p].at = "copying", ![p].missing = missing]
  /\ UNCHANGED <<exists, old, new, record, promised, crashes>>
CopyPage(p) ==
  /\ service[p].at = "copying"
  /\ new' = new \union service[p].missing /\ ServiceGoes(p, "checking")
  /\ UNCHANGED <<exists, old, record, promised, crashes>>

\* A page that is not there after the copy ends the start of the service.
CheckPage(p) ==
  /\ service[p].at = "checking"
  /\ IF service[p].page \subseteq new THEN NextPage(p) ELSE service' = [service EXCEPT ![p] = Starting]
  /\ UNCHANGED <<exists, old, new, record, promised, crashes>>

\* The second count: what has another size than at the first is not recorded, and the
\* service does not start.
AnyCount(p) == TRUE
SameCount(p) == Len(old) = service[p].expected
CountAgain(p) ==
  /\ service[p].at = "reading" /\ service[p].offset >= service[p].expected
  /\ service' = [service EXCEPT ![p] =
       IF SameCount(p)
         THEN [Starting EXCEPT !.at = "recording", !.copied = IF service[p].shrunk THEN {} ELSE ToSet(old)]
         ELSE Starting]
  /\ UNCHANGED <<exists, old, new, record, promised, crashes>>
RecordCopied(p) ==
  /\ service[p].at = "recording"
  /\ record' = TRUE /\ promised' = promised \union service[p].copied
  /\ service' = [service EXCEPT ![p] = [Starting EXCEPT !.at = "defaults"]]
  /\ UNCHANGED <<exists, old, new, crashes>>

\* _ensure_default_docs: what cannot be deleted by its title is left there.
DropRetired(p) ==
  /\ service[p].at = "defaults"
  /\ \E dropped \in SUBSET Retired : new' = new \ dropped
  /\ ServiceGoes(p, "writing")
  /\ UNCHANGED <<exists, old, record, promised, crashes>>
WriteDefaults(p) ==
  /\ service[p].at = "writing"
  /\ new' = new \union Defaults /\ ServiceGoes(p, "replacing")
  /\ UNCHANGED <<exists, old, record, promised, crashes>>

\* What they replace is only deleted when they are there.
DropReplaced(p) ==
  /\ service[p].at = "replacing"
  /\ new' = new \ Replaced /\ ServiceGoes(p, "ready")
  /\ UNCHANGED <<exists, old, record, promised, crashes>>

\* The process dies, or the store refuses a call.
Crash(p) ==
  /\ crashes < MaxCrashes /\ crashes' = crashes + 1
  /\ service[p] # Starting /\ service' = [service EXCEPT ![p] = Starting]
  /\ UNCHANGED <<exists, old, new, record, promised>>

\* The old release starts, on a collection it may have to make, adds and removes.
OldReleaseAdds(d) ==
  /\ d \notin ToSet(old) /\ old' = Append(old, d) /\ exists' = TRUE
  /\ UNCHANGED <<new, record, service, promised, crashes>>
Copying(row) == row.at \in {"reading", "comparing", "copying", "checking"}
OldReleaseRemoves ==
  /\ \E i \in DOMAIN old : old[i] \in Removed /\ old' = RemoveAt(old, i)
  /\ service' = [p \in Services |-> [service[p] EXCEPT !.shrunk = @ \/ Copying(service[p])]]
  /\ UNCHANGED <<exists, new, record, promised, crashes>>

KnowledgeNext ==
  \/ \E p \in Services : \/ OpenCollection(p) \/ CountLegacy(p) \/ ReadPage(p) \/ ComparePage(p)
                         \/ CopyPage(p) \/ CheckPage(p) \/ CountAgain(p) \/ RecordCopied(p)
                         \/ DropRetired(p) \/ WriteDefaults(p) \/ DropReplaced(p) \/ Crash(p)
  \/ \E d \in Added : OldReleaseAdds(d)
  \/ OldReleaseRemoves
KnowledgeSpec == KnowledgeInit /\ [][KnowledgeNext]_knowledgeVars

--------------------------------------------------------------------------------
\* Once it is recorded that the old collection was copied, what it held when the service
\* that recorded this counted it again is found in the new one, but for what a release
\* retires or replaces. What the old release adds after that count is not, and if it removed
\* anything during the copy nothing is promised at all: the pages shift, and equal counts do
\* not tell. And what is replaced is gone, and its successors are there, when every service
\* has started, although a service that began before the record may have copied it again
\* (_open_cosine_collection, _ensure_default_docs).
CopiedOnce ==
  /\ promised \subseteq new \union Retired \union Replaced
  /\ (\A p \in Services : service[p].at = "ready") =>
        new \intersect Replaced = {} /\ Defaults \subseteq new
=============================================================================
