------------------------- MODULE Services_proofs -------------------------
(* What is proved of the services that surround a run: the workspace that runs commit to, *)
(* the schema that its hosts upgrade, the memory of a conversation, the index and the     *)
(* migration of the knowledge, the gate before the model, the jobs of the studio, the     *)
(* turns of a conversation, and the vote on what a message asks for.                      *)
(* Each is proved from an inductive invariant that relates what an actor has read, or     *)
(* holds, to what has become of it since.                                                 *)
EXTENDS Workspaces, SchemaUpgrade, ConversationMemory, KnowledgeIndex, ModelGate, KnowledgeMigration,
        StudioJobs, ChatTurns, IntentRecognition, SequenceTheorems, FiniteSetTheorems, TLAPS

\* The contents a workspace or a copy may hold.
Snapshots == Contents \union {Empty}

\* The types of the workspace and of the copies.
WorkIsTyped ==
  /\ head \in [ref : Snapshots, version : Nat]
  /\ workCopy \in [Copies -> [at : {"none", "running", "succeeded", "failed"}, version : Nat,
                              ref : Snapshots, saw : Snapshots, shell : BOOLEAN]]

\* A run knows no later version than that of the workspace, and while the version is the one
\* it started from, so is the snapshot.
SawItsVersion ==
  \A r \in Copies : workCopy[r].at # "none" =>
    /\ workCopy[r].version <= head.version
    /\ workCopy[r].version = head.version => workCopy[r].saw = head.ref

\* The inductive invariant: CommitsKeepWork needs that a copy saw what its version was.
WorkInv == WorkIsTyped /\ SawItsVersion /\ CommitsKeepWork

\* A workspace begins empty, and nobody has a copy of it.
LEMMA WorkBegins == WorkInit => WorkInv
<1> SUFFICES ASSUME WorkInit PROVE WorkInv
  OBVIOUS
<1>1. WorkIsTyped
  BY DEF WorkInit, WorkIsTyped, NoCopy, Snapshots
<1>2. SawItsVersion /\ CommitsKeepWork
  BY DEF WorkInit, SawItsVersion, CommitsKeepWork, NoCopy
<1> QED
  BY <1>1, <1>2 DEF WorkInv

\* No upload, run, resumption or commit breaks the invariant.
LEMMA WorkGoesOn == WorkInv /\ [WorkNext]_workVars => WorkInv'
<1> SUFFICES ASSUME WorkInv, [WorkNext]_workVars PROVE WorkInv'
  OBVIOUS
<1> USE DEF WorkInv, WorkIsTyped, SawItsVersion, CommitsKeepWork, Snapshots
<1>1. ASSUME NEW x \in Contents, Upload(x) PROVE WorkInv'
  BY <1>1 DEF Upload, Moved
<1>2. ASSUME NEW r \in Copies, StartCopy(r) PROVE WorkInv'
  <2> DEFINE row == [NoCopy EXCEPT !.at = "running", !.version = head.version,
                                   !.ref = head.ref, !.saw = head.ref]
  <2>1. /\ row.at = "running" /\ row.version = head.version /\ row.saw = head.ref
        /\ row \in [at : {"none", "running", "succeeded", "failed"}, version : Nat,
                    ref : Snapshots, saw : Snapshots, shell : BOOLEAN]
    BY <1>2 DEF StartCopy, NoCopy
  <2>2. workCopy' = [workCopy EXCEPT ![r] = row] /\ UNCHANGED <<head, lostWork>>
    BY <1>2 DEF StartCopy
  <2> HIDE DEF row
  <2> QED
    BY <2>1, <2>2
<1>3. ASSUME NEW r \in Copies, NEW p \in Copies, Resume(r, p) PROVE WorkInv'
  <2> DEFINE row == [workCopy[p] EXCEPT !.at = "running", !.version = head.version]
  <2>1. /\ row.at = "running" /\ row.version = head.version /\ row.saw = head.ref
        /\ row \in [at : {"none", "running", "succeeded", "failed"}, version : Nat,
                    ref : Snapshots, saw : Snapshots, shell : BOOLEAN]
    BY <1>3 DEF Resume, MayReopen
  <2>2. workCopy' = [workCopy EXCEPT ![r] = row] /\ UNCHANGED <<head, lostWork>>
    BY <1>3 DEF Resume
  <2> HIDE DEF row
  <2> QED
    BY <2>1, <2>2
<1>4. ASSUME NEW r \in Copies, NEW x \in Contents, Shell(r, x) PROVE WorkInv'
  BY <1>4 DEF Shell
<1>5. ASSUME NEW r \in Copies, ShellFails(r) PROVE WorkInv'
  BY <1>5 DEF ShellFails
<1>6. ASSUME NEW r \in Copies, NEW how \in {"succeeded", "failed"}, CopyEnds(r, how) PROVE WorkInv'
  BY <1>6 DEF CopyEnds
<1>7. ASSUME NEW r \in Copies, Commit(r) PROVE WorkInv'
  BY <1>7 DEF Commit, Moved, Unchanged
<1>8. ASSUME UNCHANGED workVars PROVE WorkInv'
  BY <1>8 DEF workVars
<1> QED
  BY <1>1, <1>2, <1>3, <1>4, <1>5, <1>6, <1>7, <1>8 DEF WorkNext

\* For any runs, contents and uploads: a commit never replaces a snapshot that its run has not
\* seen. The compare-and-swap of the version in commit_workspace decides it, and a run that is
\* resumed takes the version of the workspace only where the snapshot is its own.
THEOREM WorkIsKept == WorkSpec => []CommitsKeepWork
<1>1. WorkInv => CommitsKeepWork
  BY DEF WorkInv
<1> QED
  BY WorkBegins, WorkGoesOn, <1>1, PTL DEF WorkSpec

--------------------------------------------------------------------------------
\* The checksums of all releases, the rows of the ledger and the states of a host.
Sums == {"none"} \union UNION {{ReleaseOf[h][v] : v \in DOMAIN ReleaseOf[h]} : h \in Hosts}
LedgerRow == [state : {"none", "applying", "applied", "failed"}, sum : Sums]
HostState == [at : {"down", "next", "applying", "serving"}, version : Nat, step : Nat]

\* The types of the ledger, of what is built and of the hosts.
SchemaIsTyped ==
  /\ ledger \in [Versions -> LedgerRow]
  /\ built \in [Versions -> SUBSET (1..Steps)]
  /\ host \in [Hosts -> HostState]
  /\ deaths \in Nat

\* A host between taking the lock and giving it back.
Upgrading(h) == host[h].at \in {"next", "applying"}
\* Who upgrades holds the lock.
LockIsHeld == \A h \in Hosts : Upgrading(h) => lock = h

\* What is being applied is a version of the release that applies it, and not yet applied.
AppliesItsOwn ==
  \A h \in Hosts : host[h].at = "applying" =>
    /\ host[h].version \in DOMAIN ReleaseOf[h] /\ host[h].step >= 1
    /\ ledger[host[h].version] = [state |-> "applying", sum |-> ReleaseOf[h][host[h].version]]

\* Who serves found every version applied, as its release has it; neither is taken back.
ServesWhatIsApplied ==
  \A h \in Hosts : host[h].at = "serving" =>
    \A v \in DOMAIN ReleaseOf[h] :
      ledger[v] = [state |-> "applied", sum |-> ReleaseOf[h][v]] /\ built[v] = 1..Steps

\* The inductive invariant.
SchemaInv == SchemaIsTyped /\ LockIsHeld /\ AppliesItsOwn /\ ServesWhatIsApplied

\* A version of a release has a row in the ledger.
LEMMA VersionsOfARelease == ASSUME NEW h \in Hosts, NEW v \in DOMAIN ReleaseOf[h]
                            PROVE  v \in Versions /\ v \in Nat /\ ReleaseOf[h][v] \in Sums
BY SchemaAssumption DEF Versions, Sums

\* Before any host has started, nothing is applied and nobody serves.
LEMMA SchemaBegins == SchemaInit => SchemaInv
<1> SUFFICES ASSUME SchemaInit PROVE SchemaInv
  OBVIOUS
<1>1. \A h \in Hosts : host[h] = HostDown
  BY DEF SchemaInit
<1>2. SchemaIsTyped
  BY DEF SchemaInit, SchemaIsTyped, NoRow, HostDown, LedgerRow, HostState, Sums
<1>3. LockIsHeld /\ AppliesItsOwn /\ ServesWhatIsApplied
  BY <1>1 DEF LockIsHeld, Upgrading, AppliesItsOwn, ServesWhatIsApplied, HostDown
<1> QED
  BY <1>2, <1>3 DEF SchemaInv

\* The host that holds the lock is the only one that can be upgrading.
LEMMA OneUpgrades == ASSUME LockIsHeld, NEW h \in Hosts, NEW g \in Hosts, Upgrading(h), Upgrading(g)
                     PROVE  g = h
BY DEF LockIsHeld

\* A host comes to another state, and neither the ledger nor the tables change.
LEMMA HostMoves ==
  ASSUME SchemaInv, NEW h \in Hosts, NEW to \in HostState, host' = [host EXCEPT ![h] = to],
         ledger' = ledger, built' = built, deaths' \in Nat,
         to.at # "applying",
         to.at = "next" => lock' = h,
         \A g \in Hosts \ {h} : Upgrading(g) => lock' = lock,
         to.at = "serving" => \A v \in DOMAIN ReleaseOf[h] :
            ledger[v] = [state |-> "applied", sum |-> ReleaseOf[h][v]] /\ built[v] = 1..Steps
  PROVE  SchemaInv'
<1> USE DEF SchemaInv, SchemaIsTyped
<1>1. /\ host'[h] = to
      /\ \A g \in Hosts \ {h} : host'[g] = host[g]
  OBVIOUS
<1>2. SchemaIsTyped'
  OBVIOUS
<1>3. LockIsHeld'
  BY <1>1 DEF LockIsHeld, Upgrading, HostState
<1>4. AppliesItsOwn' /\ ServesWhatIsApplied'
  BY <1>1 DEF AppliesItsOwn, ServesWhatIsApplied
<1> QED
  BY <1>2, <1>3, <1>4

\* No host that upgrades, fails, dies or begins to serve breaks the invariant.
LEMMA SchemaGoesOn == SchemaInv /\ [SchemaNext]_schemaVars => SchemaInv'
<1> SUFFICES ASSUME SchemaInv, [SchemaNext]_schemaVars PROVE SchemaInv'
  OBVIOUS
<1>0. /\ SchemaIsTyped /\ LockIsHeld /\ AppliesItsOwn /\ ServesWhatIsApplied
      /\ HostDown \in HostState /\ HostDown.at = "down"
  BY DEF SchemaInv, HostDown, HostState
<1>1. ASSUME NEW h \in Hosts, Upgrade(h) PROVE SchemaInv'
  <2> DEFINE to == [HostDown EXCEPT !.at = "next", !.version = 1]
  <2>1. to \in HostState /\ to.at = "next"
    BY DEF HostDown, HostState
  <2>2. /\ host' = [host EXCEPT ![h] = to] /\ lock' = h /\ lock = LockFree
        /\ UNCHANGED <<ledger, built, deaths>>
    BY <1>1 DEF Upgrade
  <2>3. \A g \in Hosts : ~Upgrading(g)
    BY <1>0, <2>2, SchemaAssumption DEF LockIsHeld, LockFree
  <2> HIDE DEF to
  <2> QED
    BY <2>1, <2>2, <2>3, <1>0, HostMoves DEF SchemaIsTyped
<1>2. ASSUME NEW h \in Hosts, NextVersion(h) PROVE SchemaInv'
  <2> DEFINE v == host[h].version
  <2>1. /\ v \in DOMAIN ReleaseOf[h] /\ v \in Versions /\ v \in Nat /\ ReleaseOf[h][v] \in Sums
        /\ Upgrading(h) /\ lock = h /\ host[h].at = "next"
    BY <1>2, <1>0, VersionsOfARelease DEF NextVersion, Upgrading, LockIsHeld
  <2>2. CASE Settled(v)
    <3> DEFINE to == [host[h] EXCEPT !.version = v + 1]
    <3>1. host' = [host EXCEPT ![h] = to] /\ UNCHANGED <<ledger, built, lock, deaths>>
      BY <1>2, <2>2 DEF NextVersion
    <3>2. to \in HostState /\ to.at = "next"
      BY <1>0, <2>1 DEF SchemaIsTyped, HostState
    <3> HIDE DEF to
    <3> QED
      BY <3>1, <3>2, <2>1, <1>0, HostMoves DEF SchemaIsTyped
  <2>3. CASE ~Settled(v)
    <3> DEFINE to == [host[h] EXCEPT !.at = "applying", !.step = 1]
               row == [state |-> "applying", sum |-> ReleaseOf[h][v]]
    <3>1. /\ host' = [host EXCEPT ![h] = to] /\ ledger' = [ledger EXCEPT ![v] = row]
          /\ UNCHANGED <<built, lock, deaths>>
      BY <1>2, <2>3 DEF NextVersion
    <3>2. to \in HostState /\ to.at = "applying" /\ to.version = v /\ to.step = 1
      BY <1>0, <2>1 DEF SchemaIsTyped, HostState
    <3>3. row \in LedgerRow /\ ledger[v].state # "applied"
      BY <2>1, <2>3 DEF LedgerRow, Settled
    <3> HIDE DEF to
    <3>4. /\ host'[h] = to /\ \A g \in Hosts \ {h} : host'[g] = host[g] /\ ~Upgrading(g)
          /\ ledger'[v] = row /\ \A u \in Versions \ {v} : ledger'[u] = ledger[u]
      BY <3>1, <2>1, <1>0, OneUpgrades DEF SchemaIsTyped
    <3>5. SchemaIsTyped'
      BY <3>1, <3>2, <3>3, <1>0 DEF SchemaIsTyped
    <3>6. LockIsHeld'
      BY <3>1, <3>4, <2>1, <1>0 DEF LockIsHeld, Upgrading
    <3>7. AppliesItsOwn'
      BY <3>1, <3>2, <3>4, <2>1 DEF AppliesItsOwn, Upgrading
    <3>8. ServesWhatIsApplied'
      <4> SUFFICES ASSUME NEW g \in Hosts, host'[g].at = "serving", NEW u \in DOMAIN ReleaseOf[g]
                   PROVE  ledger'[u] = [state |-> "applied", sum |-> ReleaseOf[g][u]] /\ built'[u] = 1..Steps
        BY DEF ServesWhatIsApplied
      <4>1. g # h /\ host[g].at = "serving"
        BY <3>2, <3>4
      <4>2. ledger[u] = [state |-> "applied", sum |-> ReleaseOf[g][u]] /\ built[u] = 1..Steps
        BY <4>1, <1>0 DEF ServesWhatIsApplied
      <4>3. u # v /\ u \in Versions
        BY <4>2, <3>3, VersionsOfARelease
      <4> QED
        BY <4>2, <4>3, <3>4, <3>1
    <3> QED
      BY <3>5, <3>6, <3>7, <3>8 DEF SchemaInv
  <2> QED
    BY <2>2, <2>3
<1>3. ASSUME NEW h \in Hosts, Apply(h) PROVE SchemaInv'
  <2> DEFINE v == host[h].version
             to == [host[h] EXCEPT !.step = @ + 1]
             done == built[v] \union {host[h].step}
  <2>1. /\ v \in DOMAIN ReleaseOf[h] /\ v \in Versions /\ host[h].step \in 1..Steps /\ host[h].at = "applying"
    <3>1. host[h].at = "applying" /\ host[h].step <= Steps
      BY <1>3 DEF Apply
    <3>2. v \in DOMAIN ReleaseOf[h] /\ host[h].step >= 1
      BY <3>1, <1>0 DEF AppliesItsOwn
    <3>3. host[h].step \in Nat
      BY <1>0 DEF SchemaIsTyped, HostState
    <3> QED
      BY <3>1, <3>2, <3>3, VersionsOfARelease, SchemaAssumption
  <2>2. /\ host' = [host EXCEPT ![h] = to] /\ built' = [built EXCEPT ![v] = done]
        /\ UNCHANGED <<ledger, lock, deaths>>
    BY <1>3 DEF Apply
  <2>3. to \in HostState /\ to.at = "applying" /\ to.version = v /\ to.step >= 1
    BY <1>0, <2>1, SchemaAssumption DEF SchemaIsTyped, HostState
  <2>4. done \in SUBSET (1..Steps) /\ built[v] \subseteq done
    BY <1>0, <2>1 DEF SchemaIsTyped
  <2> HIDE DEF to, done
  <2>5. /\ host'[h] = to /\ \A g \in Hosts \ {h} : host'[g] = host[g]
        /\ \A u \in Versions : built[u] \subseteq built'[u] /\ built'[u] \subseteq 1..Steps
    BY <2>1, <2>2, <2>4, <1>0 DEF SchemaIsTyped
  <2>6. SchemaIsTyped'
    BY <2>2, <2>3, <2>4, <1>0 DEF SchemaIsTyped
  <2>7. LockIsHeld' /\ AppliesItsOwn'
    BY <2>1, <2>2, <2>3, <2>5, <1>0 DEF LockIsHeld, AppliesItsOwn, Upgrading
  <2>8. ServesWhatIsApplied'
    <3> SUFFICES ASSUME NEW g \in Hosts, host'[g].at = "serving", NEW u \in DOMAIN ReleaseOf[g]
                 PROVE  ledger'[u] = [state |-> "applied", sum |-> ReleaseOf[g][u]] /\ built'[u] = 1..Steps
      BY DEF ServesWhatIsApplied
    <3>1. host[g].at = "serving" /\ u \in Versions
      BY <2>3, <2>5, VersionsOfARelease
    <3> QED
      BY <3>1, <2>2, <2>5, <1>0 DEF ServesWhatIsApplied
  <2> QED
    BY <2>6, <2>7, <2>8 DEF SchemaInv
<1>4. ASSUME NEW h \in Hosts, Applied(h) \/ Failed(h) PROVE SchemaInv'
  <2> DEFINE v == host[h].version
  <2>1. /\ v \in DOMAIN ReleaseOf[h] /\ v \in Versions /\ v \in Nat /\ Upgrading(h) /\ lock = h
        /\ ledger[v] = [state |-> "applying", sum |-> ReleaseOf[h][v]]
    BY <1>4, <1>0, VersionsOfARelease DEF Applied, Failed, AppliesItsOwn, LockIsHeld, Upgrading
  <2>2. PICK to \in HostState, end \in {"applied", "failed"} :
          /\ host' = [host EXCEPT ![h] = to] /\ to.at \in {"next", "down"}
          /\ ledger' = [ledger EXCEPT ![v].state = end]
          /\ to.at = "next" => lock' = h
          /\ built' = built /\ deaths' \in Nat
    <3>1. CASE Applied(h)
      <4> DEFINE n == v + 1
                 to == [HostDown EXCEPT !.at = "next", !.version = n]
      <4>0. n \in Nat
        BY <2>1
      <4> HIDE DEF n
      <4>1. to \in HostState /\ to.at = "next"
        BY <4>0 DEF HostDown, HostState
      <4>2. host' = [host EXCEPT ![h] = to] /\ ledger' = [ledger EXCEPT ![v].state = "applied"]
        BY <3>1 DEF Applied, n
      <4>3. UNCHANGED <<built, lock, deaths>>
        BY <3>1 DEF Applied
      <4> HIDE DEF to
      <4> QED
        BY <4>1, <4>2, <4>3, <2>1, <1>0 DEF SchemaIsTyped
    <3>2. CASE Failed(h)
      <4>1. /\ host' = [host EXCEPT ![h] = HostDown] /\ ledger' = [ledger EXCEPT ![v].state = "failed"]
            /\ deaths' \in Nat /\ built' = built
        BY <3>2, <1>0 DEF Failed, SchemaIsTyped
      <4> QED
        BY <4>1, <1>0
    <3> QED
      BY <1>4, <3>1, <3>2
  <2>3. /\ host'[h] = to /\ \A g \in Hosts \ {h} : host'[g] = host[g] /\ ~Upgrading(g)
        /\ ledger'[v].state = end /\ \A u \in Versions \ {v} : ledger'[u] = ledger[u]
    BY <2>1, <2>2, <1>0, OneUpgrades DEF SchemaIsTyped
  <2>4. SchemaIsTyped'
    <3>1. [ledger[v] EXCEPT !.state = end] \in LedgerRow
      BY <2>1, <2>2, <1>0 DEF SchemaIsTyped, LedgerRow
    <3>2. ledger' = [ledger EXCEPT ![v] = [ledger[v] EXCEPT !.state = end]]
      BY <2>2
    <3> QED
      BY <3>1, <3>2, <2>1, <2>2, <1>0 DEF SchemaIsTyped
  <2>5. LockIsHeld' /\ AppliesItsOwn'
    BY <2>2, <2>3, <1>0 DEF LockIsHeld, AppliesItsOwn, Upgrading
  <2>6. ServesWhatIsApplied'
    <3> SUFFICES ASSUME NEW g \in Hosts, host'[g].at = "serving", NEW u \in DOMAIN ReleaseOf[g]
                 PROVE  ledger'[u] = [state |-> "applied", sum |-> ReleaseOf[g][u]] /\ built'[u] = 1..Steps
      BY DEF ServesWhatIsApplied
    <3>1. host[g].at = "serving" /\ u \in Versions
      BY <2>2, <2>3, VersionsOfARelease
    <3>2. ledger[u] = [state |-> "applied", sum |-> ReleaseOf[g][u]] /\ built[u] = 1..Steps
      BY <3>1, <1>0 DEF ServesWhatIsApplied
    <3>3. u # v
      BY <3>2, <2>1
    <3> QED
      BY <3>1, <3>2, <3>3, <2>2, <2>3
  <2> QED
    BY <2>4, <2>5, <2>6 DEF SchemaInv
<1>5. ASSUME NEW h \in Hosts, Upgraded(h) \/ StopHost(h) \/ DieUpgrading(h) PROVE SchemaInv'
  <2>1. /\ host' = [host EXCEPT ![h] = HostDown] /\ UNCHANGED <<ledger, built>> /\ deaths' \in Nat
    BY <1>5, <1>0 DEF Upgraded, StopHost, DieUpgrading, SchemaIsTyped
  <2>2. \A g \in Hosts \ {h} : Upgrading(g) => lock' = lock
    BY <1>5, <1>0 DEF Upgraded, StopHost, DieUpgrading, LockIsHeld, Upgrading
  <2> QED
    BY <2>1, <2>2, <1>0, HostMoves
<1>6. ASSUME NEW h \in Hosts, Serve(h) PROVE SchemaInv'
  <2> DEFINE to == [host[h] EXCEPT !.at = "serving"]
  <2>1. host' = [host EXCEPT ![h] = to] /\ UNCHANGED <<ledger, built, lock, deaths>>
    BY <1>6 DEF Serve
  <2>2. to \in HostState /\ to.at = "serving"
    BY <1>0 DEF SchemaIsTyped, HostState
  <2>3. ASSUME NEW v \in DOMAIN ReleaseOf[h]
        PROVE  ledger[v] = [state |-> "applied", sum |-> ReleaseOf[h][v]] /\ built[v] = 1..Steps
    <3>1. v \in Versions /\ ledger[v].state = "applied" /\ built[v] = 1..Steps
      BY <1>6, VersionsOfARelease DEF Serve, Complete
    <3>2. ledger[v].sum = ReleaseOf[h][v]
      BY <1>6, <3>1 DEF Serve, Audited, Known
    <3> QED
      BY <3>1, <3>2, <1>0 DEF SchemaIsTyped, LedgerRow
  <2> HIDE DEF to
  <2> QED
    BY <2>1, <2>2, <2>3, <1>0, HostMoves DEF SchemaIsTyped
<1>7. ASSUME UNCHANGED schemaVars PROVE SchemaInv'
  BY <1>7 DEF schemaVars, SchemaInv, SchemaIsTyped, LockIsHeld, Upgrading, AppliesItsOwn, ServesWhatIsApplied
<1> QED
  BY <1>1, <1>2, <1>3, <1>4, <1>5, <1>6, <1>7 DEF SchemaNext

\* For any releases, hosts and steps: a host that serves has every migration of its release
\* complete and with its checksum, whoever applied it and whoever died on the way.
THEOREM ServiceHasItsSchema == SchemaSpec => []ServesOnItsSchema
<1>1. SchemaInv => ServesOnItsSchema
  <2> SUFFICES ASSUME ServesWhatIsApplied, NEW h \in Hosts, host[h].at = "serving",
                      NEW v \in DOMAIN ReleaseOf[h]
               PROVE  ledger[v].sum = ReleaseOf[h][v] /\ Complete(v)
    BY DEF SchemaInv, ServesOnItsSchema
  <2>1. ledger[v] = [state |-> "applied", sum |-> ReleaseOf[h][v]] /\ built[v] = 1..Steps
    BY DEF ServesWhatIsApplied
  <2> QED
    BY <2>1 DEF Complete
<1> QED
  BY SchemaBegins, SchemaGoesOn, <1>1, PTL DEF SchemaSpec

--------------------------------------------------------------------------------
\* Cutting a sequence in two neither loses nor repeats anything.
LEMMA CutInTwo ==
  ASSUME NEW s \in Seq(Nat), NEW k \in 0..Len(s)
  PROVE  /\ ToSet(s) = ToSet(SubSeq(s, 1, k)) \union ToSet(SubSeq(s, k + 1, Len(s)))
         /\ SubSeq(s, k + 1, Len(s)) \in Seq(Nat)
         /\ ToSet(SubSeq(s, 1, k)) \subseteq Nat
<1> DEFINE front == SubSeq(s, 1, k)
           rest == SubSeq(s, k + 1, Len(s))
<1>1. /\ front \in Seq(Nat) /\ Len(front) = k
      /\ \A i \in 1..k : front[i] = s[i]
  <2>1. \A i \in 1..k : s[i] \in Nat
    OBVIOUS
  <2>2. /\ front \in Seq(Nat) /\ Len(front) = IF 1 <= k THEN k - 1 + 1 ELSE 0
        /\ \A i \in 1..(k - 1 + 1) : front[i] = s[1 + i - 1]
    BY <2>1, SubSeqProperties
  <2> QED
    BY <2>2
<1>2. /\ rest \in Seq(Nat) /\ Len(rest) = Len(s) - k
      /\ \A i \in 1..(Len(s) - k) : rest[i] = s[k + i]
  <2>1. \A i \in (k + 1)..Len(s) : s[i] \in Nat
    OBVIOUS
  <2>2. /\ rest \in Seq(Nat) /\ Len(rest) = IF k + 1 <= Len(s) THEN Len(s) - (k + 1) + 1 ELSE 0
        /\ \A i \in 1..(Len(s) - (k + 1) + 1) : rest[i] = s[(k + 1) + i - 1]
    BY <2>1, SubSeqProperties
  <2> QED
    BY <2>2
<1> HIDE DEF front, rest
<1>3. /\ ToSet(s) = {s[i] : i \in 1..Len(s)}
      /\ ToSet(front) = {front[i] : i \in 1..k}
      /\ ToSet(rest) = {rest[i] : i \in 1..(Len(s) - k)}
  <2>1. DOMAIN s = 1..Len(s) /\ DOMAIN front = 1..k /\ DOMAIN rest = 1..(Len(s) - k)
    BY <1>1, <1>2
  <2>2. ToSet(s) = {s[i] : i \in 1..Len(s)}
    BY <2>1 DEF ToSet
  <2>3. ToSet(front) = {front[i] : i \in 1..k}
    BY <2>1 DEF ToSet
  <2>4. ToSet(rest) = {rest[i] : i \in 1..(Len(s) - k)}
    BY <2>1 DEF ToSet
  <2> QED
    BY <2>2, <2>3, <2>4
<1>4. {s[i] : i \in 1..Len(s)} \subseteq {front[i] : i \in 1..k} \union {rest[i] : i \in 1..(Len(s) - k)}
  <2> SUFFICES ASSUME NEW i \in 1..Len(s)
               PROVE  s[i] \in {front[j] : j \in 1..k} \union {rest[j] : j \in 1..(Len(s) - k)}
    OBVIOUS
  <2>1. CASE i <= k
    BY <2>1, <1>1
  <2>2. CASE i > k
    <3>1. i - k \in 1..(Len(s) - k) /\ rest[i - k] = s[i]
      BY <2>2, <1>2
    <3> QED
      BY <3>1
  <2> QED
    BY <2>1, <2>2
<1>5. ASSUME NEW i \in 1..k PROVE front[i] \in {s[j] : j \in 1..Len(s)}
  <2>1. i \in 1..Len(s) /\ front[i] = s[i]
    BY <1>1
  <2> QED
    BY <2>1
<1>6. ASSUME NEW i \in 1..(Len(s) - k) PROVE rest[i] \in {s[j] : j \in 1..Len(s)}
  <2>1. k + i \in 1..Len(s) /\ rest[i] = s[k + i]
    BY <1>2
  <2> QED
    BY <2>1
<1>7. {front[i] : i \in 1..k} \subseteq Nat
  BY <1>1
<1> QED
  BY <1>2, <1>3, <1>4, <1>5, <1>6, <1>7 DEF front, rest

\* Messages are numbered as they are added: a list in order grows.
Increasing(s) == \A i, j \in 1..Len(s) : i < j => s[i] < s[j]

\* What is taken out of an increasing sequence does not stay in it.
LEMMA CutIncreasing ==
  ASSUME NEW s \in Seq(Nat), NEW k \in 0..Len(s), Increasing(s)
  PROVE  /\ ToSet(SubSeq(s, 1, k)) \intersect ToSet(SubSeq(s, k + 1, Len(s))) = {}
         /\ Increasing(SubSeq(s, k + 1, Len(s)))
<1> DEFINE front == SubSeq(s, 1, k)
           rest == SubSeq(s, k + 1, Len(s))
<1>1. /\ front \in Seq(Nat) /\ Len(front) = k
      /\ \A i \in 1..k : front[i] = s[i]
  <2>1. \A i \in 1..k : s[i] \in Nat
    OBVIOUS
  <2>2. /\ front \in Seq(Nat) /\ Len(front) = IF 1 <= k THEN k - 1 + 1 ELSE 0
        /\ \A i \in 1..(k - 1 + 1) : front[i] = s[1 + i - 1]
    BY <2>1, SubSeqProperties
  <2> QED
    BY <2>2
<1>2. /\ rest \in Seq(Nat) /\ Len(rest) = Len(s) - k
      /\ \A i \in 1..(Len(s) - k) : rest[i] = s[k + i]
  <2>1. \A i \in (k + 1)..Len(s) : s[i] \in Nat
    OBVIOUS
  <2>2. /\ rest \in Seq(Nat) /\ Len(rest) = IF k + 1 <= Len(s) THEN Len(s) - (k + 1) + 1 ELSE 0
        /\ \A i \in 1..(Len(s) - (k + 1) + 1) : rest[i] = s[(k + 1) + i - 1]
    BY <2>1, SubSeqProperties
  <2> QED
    BY <2>2
<1> HIDE DEF front, rest
<1>3. ASSUME NEW i \in 1..Len(front), NEW j \in 1..Len(rest) PROVE front[i] # rest[j]
  <2>0. Len(s) \in Nat /\ Len(front) = k /\ Len(rest) = Len(s) - k
    BY <1>1, <1>2
  <2>1. i \in 1..Len(s) /\ k + j \in 1..Len(s) /\ i < k + j
    BY <2>0
  <2>2. s[i] < s[k + j] /\ s[i] \in Nat /\ s[k + j] \in Nat
    BY <2>1 DEF Increasing
  <2>3. front[i] = s[i]
    BY <2>0, <1>1
  <2>4. rest[j] = s[k + j]
    BY <2>0, <1>2
  <2> QED
    BY <2>2, <2>3, <2>4
<1>4. ToSet(front) \intersect ToSet(rest) = {}
  BY <1>1, <1>2, <1>3 DEF ToSet
<1>5. Increasing(rest)
  <2> SUFFICES ASSUME NEW i \in 1..Len(rest), NEW j \in 1..Len(rest), i < j PROVE rest[i] < rest[j]
    BY DEF Increasing
  <2>1. k + i \in 1..Len(s) /\ k + j \in 1..Len(s) /\ k + i < k + j
    BY <1>2
  <2> QED
    BY <2>1, <1>2 DEF Increasing
<1> QED
  BY <1>4, <1>5 DEF front, rest

\* The types of the list, of what was read and of what a turn has been told.
MessagesAreTyped ==
  /\ added \in Nat /\ list \in Seq(Nat)
  /\ summary \subseteq 1..added /\ archive \subseteq 1..added /\ lapsed \subseteq 1..added
  /\ writer \in [Writers -> [at : {"idle", "summarizing", "archiving", "swapping"},
                             seen : Seq(Nat), told : SUBSET Nat]]
  /\ context \in [at : {"none", "reading", "told"}, tells : SUBSET Nat, hidden : SUBSET Nat, upto : Nat]

\* Whatever was added is in the list or told by the summary, and archived if not in the list.
NothingIsLost ==
  /\ 1..added = ToSet(list) \union summary \union lapsed
  /\ 1..added = ToSet(list) \union archive \union lapsed
  /\ summary \intersect ToSet(list) = {}
  /\ Increasing(list)

\* A writer has seen messages that were added, more than it keeps, and archives before it swaps.
WriterArchivesFirst ==
  \A w \in Writers : writer[w].at # "idle" =>
    /\ Len(writer[w].seen) > Keep
    /\ ToSet(writer[w].seen) \subseteq 1..added
    /\ writer[w].at = "swapping" => Old(writer[w].seen) \subseteq archive

\* What a turn has not seen in the list, it will find in the summary.
TurnMissesNothing ==
  /\ context.upto <= added
  /\ context.at = "reading" =>
       1..context.upto \subseteq context.tells \union context.hidden \union summary \union lapsed
  /\ context.at = "told" =>
       1..context.upto \subseteq context.tells \union context.hidden \union lapsed

\* The inductive invariant.
TellsInv == MessagesAreTyped /\ NothingIsLost /\ WriterArchivesFirst /\ TurnMissesNothing

\* The invariant is stronger than what a conversation promises.
LEMMA TellsAllFollows == TellsInv => TellsAll
<1> SUFFICES ASSUME TellsInv PROVE TellsAll
  OBVIOUS
<1>1. \A i \in 1..Len(list) - 1 : list[i] < list[i + 1]
  BY DEF TellsInv, MessagesAreTyped, NothingIsLost, Increasing
<1> QED
  BY <1>1 DEF TellsInv, NothingIsLost, TurnMissesNothing, TellsAll

\* A conversation begins without messages.
LEMMA MemoryBegins == MemoryInit => TellsInv
<1> SUFFICES ASSUME MemoryInit PROVE TellsInv
  OBVIOUS
<1>0. <<>> \in Seq(Nat) /\ Len(<<>>) = 0 /\ ToSet(<<>>) = {} /\ 1..0 = {}
  BY DEF ToSet
<1>1. MessagesAreTyped
  BY <1>0 DEF MemoryInit, MessagesAreTyped, NoWriter
<1>2. NothingIsLost
  BY <1>0 DEF MemoryInit, NothingIsLost, Increasing
<1>3. WriterArchivesFirst /\ TurnMissesNothing
  BY <1>0 DEF MemoryInit, WriterArchivesFirst, TurnMissesNothing, NoWriter
<1> QED
  BY <1>1, <1>2, <1>3 DEF TellsInv

\* A writer comes to another state, and the messages are where they were.
LEMMA WriterMoves ==
  ASSUME TellsInv, NEW w \in Writers, NEW to, writer' = [writer EXCEPT ![w] = to],
         to \in [at : {"idle", "summarizing", "archiving", "swapping"}, seen : Seq(Nat), told : SUBSET Nat],
         UNCHANGED <<added, list, summary, lapsed, context>>,
         archive \subseteq archive', archive' \subseteq 1..added,
         to.at # "idle" => /\ Len(to.seen) > Keep /\ ToSet(to.seen) \subseteq 1..added
                           /\ to.at = "swapping" => Old(to.seen) \subseteq archive'
  PROVE  TellsInv'
<1>1. MessagesAreTyped'
  BY DEF TellsInv, MessagesAreTyped
<1>2. NothingIsLost'
  BY DEF TellsInv, NothingIsLost
<1>3. /\ writer'[w] = to /\ \A v \in Writers \ {w} : writer'[v] = writer[v]
  BY DEF TellsInv, MessagesAreTyped
<1>4. WriterArchivesFirst'
  BY <1>3 DEF TellsInv, WriterArchivesFirst
<1>5. TurnMissesNothing'
  BY DEF TellsInv, TurnMissesNothing
<1> QED
  BY <1>1, <1>2, <1>4, <1>5 DEF TellsInv

\* One more message at the end of the list.
LEMMA OneMore ==
  ASSUME NEW s \in Seq(Nat), NEW n \in Nat, Increasing(s), ToSet(s) \subseteq 1..n
  PROVE  /\ Append(s, n + 1) \in Seq(Nat)
         /\ ToSet(Append(s, n + 1)) = ToSet(s) \union {n + 1}
         /\ Increasing(Append(s, n + 1))
<1> DEFINE m == n + 1
           t == Append(s, m)
<1>0. m \in Nat /\ m > n
  OBVIOUS
<1> HIDE DEF m
<1>1. /\ t \in Seq(Nat) /\ Len(t) = Len(s) + 1
      /\ \A i \in 1..Len(s) : t[i] = s[i]
      /\ t[Len(s) + 1] = m
  BY <1>0, AppendProperties
<1> HIDE DEF t
<1>2. DOMAIN s = 1..Len(s) /\ DOMAIN t = 1..(Len(s) + 1)
  BY <1>1
<1>3. ToSet(s) = {s[i] : i \in 1..Len(s)} /\ ToSet(t) = {t[i] : i \in 1..(Len(s) + 1)}
  BY <1>2 DEF ToSet
<1>4. ASSUME NEW i \in 1..(Len(s) + 1) PROVE t[i] \in ToSet(s) \union {m}
  <2>1. CASE i \in 1..Len(s)
    BY <2>1, <1>1, <1>3
  <2>2. CASE i = Len(s) + 1
    BY <2>2, <1>1
  <2> QED
    BY <2>1, <2>2
<1>5. ASSUME NEW i \in 1..Len(s) PROVE s[i] \in ToSet(t)
  <2>1. i \in 1..(Len(s) + 1) /\ t[i] = s[i]
    BY <1>1
  <2> QED
    BY <2>1, <1>3
<1>6. m \in ToSet(t)
  <2>1. Len(s) + 1 \in 1..(Len(s) + 1) /\ t[Len(s) + 1] = m
    BY <1>1
  <2> QED
    BY <2>1, <1>3
<1>7. ToSet(t) = ToSet(s) \union {m}
  BY <1>3, <1>4, <1>5, <1>6
<1>8. Increasing(t)
  <2> SUFFICES ASSUME NEW i \in 1..Len(t), NEW j \in 1..Len(t), i < j PROVE t[i] < t[j]
    BY DEF Increasing
  <2>1. i \in 1..Len(s) /\ t[i] = s[i] /\ s[i] \in ToSet(s)
    BY <1>1, <1>3
  <2>2. s[i] \in 1..n
    BY <2>1
  <2>3. CASE j \in 1..Len(s)
    BY <2>1, <2>3, <1>1 DEF Increasing
  <2>4. CASE j = Len(s) + 1
    BY <2>1, <2>2, <2>4, <1>0, <1>1
  <2> QED
    BY <2>3, <2>4, <1>1
<1> QED
  BY <1>1, <1>7, <1>8 DEF t, m

\* A message that is added is in the list, whatever is being compressed.
LEMMA MessagesAreAdded ==
  ASSUME TellsInv, NEW w \in Writers, AddMessage(w)
  PROVE  TellsInv'
<1> DEFINE to == IF Len(list') >= CompressAt /\ Len(list') - Keep <= MaxText
                   THEN [at |-> "summarizing", seen |-> list', told |-> summary] ELSE NoWriter
<1>1. /\ added \in Nat /\ list \in Seq(Nat) /\ Increasing(list) /\ ToSet(list) \subseteq 1..added
  BY DEF TellsInv, MessagesAreTyped, NothingIsLost
<1>2. added' = added + 1 /\ list' = Append(list, added + 1)
  BY DEF AddMessage
<1>3. /\ list' \in Seq(Nat) /\ ToSet(list') = ToSet(list) \union {added + 1} /\ Increasing(list')
  BY <1>1, <1>2, OneMore
<1>4. 1..added' = 1..added \union {added + 1} /\ added + 1 \notin 1..added /\ added' \in Nat
  BY <1>1, <1>2
<1>5. summary \subseteq 1..added /\ summary' = summary /\ archive' = archive /\ lapsed' = lapsed
  BY DEF TellsInv, MessagesAreTyped, AddMessage
<1>6. NothingIsLost'
  BY <1>1, <1>3, <1>4, <1>5 DEF TellsInv, NothingIsLost
<1>7. /\ to \in [at : {"idle", "summarizing", "archiving", "swapping"}, seen : Seq(Nat), told : SUBSET Nat]
      /\ to.at # "idle" => to.at = "summarizing" /\ to.seen = list' /\ Len(list') > Keep
  <2>1. summary \in SUBSET Nat
    BY <1>1, <1>5
  <2>2. CASE Len(list') >= CompressAt /\ Len(list') - Keep <= MaxText
    <3>1. Len(list') > Keep
      BY <1>3, <2>2, MemoryAssumption
    <3>2. to = [at |-> "summarizing", seen |-> list', told |-> summary]
      BY <2>2
    <3> QED
      BY <2>1, <3>1, <3>2, <1>3
  <2>3. CASE ~(Len(list') >= CompressAt /\ Len(list') - Keep <= MaxText)
    <3>1. to = NoWriter
      BY <2>3
    <3> QED
      BY <3>1 DEF NoWriter
  <2> QED
    BY <2>2, <2>3
<1>8. writer' = [writer EXCEPT ![w] = to]
  BY DEF AddMessage
<1> HIDE DEF to
<1>9. MessagesAreTyped'
  <2>1. writer' \in [Writers -> [at : {"idle", "summarizing", "archiving", "swapping"},
                                 seen : Seq(Nat), told : SUBSET Nat]]
    BY <1>7, <1>8 DEF TellsInv, MessagesAreTyped
  <2>2. archive' \subseteq 1..added' /\ lapsed' \subseteq 1..added' /\ summary' \subseteq 1..added'
    BY <1>4, <1>5 DEF TellsInv, MessagesAreTyped
  <2>3. context' = context
    BY DEF AddMessage
  <2> QED
    BY <2>1, <2>2, <2>3, <1>3, <1>4 DEF TellsInv, MessagesAreTyped
<1>10. WriterArchivesFirst'
  <2> SUFFICES ASSUME NEW v \in Writers, writer'[v].at # "idle"
               PROVE  /\ Len(writer'[v].seen) > Keep
                      /\ ToSet(writer'[v].seen) \subseteq 1..added'
                      /\ writer'[v].at = "swapping" => Old(writer'[v].seen) \subseteq archive'
    BY DEF WriterArchivesFirst, Old
  <2>1. CASE v = w
    <3>1. writer'[v] = to
      BY <2>1, <1>8 DEF TellsInv, MessagesAreTyped
    <3> QED
      BY <3>1, <1>3, <1>4, <1>7, <1>1
  <2>2. CASE v # w
    <3>1. writer'[v] = writer[v]
      BY <2>2, <1>8 DEF TellsInv, MessagesAreTyped
    <3> QED
      BY <3>1, <1>4, <1>5 DEF TellsInv, WriterArchivesFirst
  <2> QED
    BY <2>1, <2>2
<1>11. TurnMissesNothing'
  <2>1. context' = context /\ context.upto \in Nat
    BY DEF AddMessage, TellsInv, MessagesAreTyped
  <2>2. context.upto <= added'
    BY <2>1, <1>1, <1>2 DEF TellsInv, TurnMissesNothing
  <2> QED
    BY <2>1, <2>2, <1>5 DEF TellsInv, TurnMissesNothing
<1> QED
  BY <1>6, <1>9, <1>10, <1>11 DEF TellsInv

\* A writer that summarizes, archives or gives up leaves the list and the summary alone.
LEMMA CompressionMoves ==
  ASSUME TellsInv, NEW w \in Writers, Summarize(w) \/ Archive(w) \/ CancelCompression(w)
  PROVE  TellsInv'
<1> DEFINE States == [at : {"idle", "summarizing", "archiving", "swapping"},
                      seen : Seq(Nat), told : SUBSET Nat]
           At(where) == [writer[w] EXCEPT !.at = where]
<1>1. writer \in [Writers -> States] /\ archive \subseteq 1..added
  BY DEF TellsInv, MessagesAreTyped
<1>2. NoWriter \in States /\ NoWriter.at = "idle"
  BY DEF NoWriter
<1>3. ASSUME NEW where \in {"archiving", "swapping"}, Becomes(w, where)
      PROVE  /\ writer' = [writer EXCEPT ![w] = At(where)] /\ At(where) \in States
             /\ At(where).at = where /\ At(where).seen = writer[w].seen
  BY <1>1, <1>3 DEF Becomes
<1>4. writer[w].at # "idle" => Len(writer[w].seen) > Keep /\ ToSet(writer[w].seen) \subseteq 1..added
  BY DEF TellsInv, WriterArchivesFirst
<1>5. CASE Summarize(w)
  <2>1. CASE Becomes(w, "archiving")
    <3>1. /\ writer' = [writer EXCEPT ![w] = At("archiving")] /\ At("archiving") \in States
          /\ At("archiving").at = "archiving" /\ At("archiving").seen = writer[w].seen
      BY <2>1, <1>3
    <3> HIDE DEF At
    <3> QED
      BY <3>1, <1>1, <1>4, <1>5, WriterMoves DEF Summarize
  <2>2. CASE Stops(w)
    BY <2>2, <1>1, <1>2, <1>5, WriterMoves DEF Summarize, Stops
  <2> QED
    BY <2>1, <2>2, <1>5 DEF Summarize
<1>6. CASE Archive(w)
  <2>1. CASE archive' = archive \union Old(writer[w].seen) /\ Becomes(w, "swapping")
    <3>1. /\ writer' = [writer EXCEPT ![w] = At("swapping")] /\ At("swapping") \in States
          /\ At("swapping").at = "swapping" /\ At("swapping").seen = writer[w].seen
      BY <2>1, <1>3
    <3>2. writer[w].seen \in Seq(Nat) /\ Len(writer[w].seen) - Keep \in 0..Len(writer[w].seen)
      BY <1>1, <1>4, <1>6, MemoryAssumption DEF Archive
    <3>3. Old(writer[w].seen) \subseteq 1..added
      <4>1. Old(writer[w].seen) \subseteq ToSet(writer[w].seen)
        BY <3>2, CutInTwo DEF Old
      <4> QED
        BY <4>1, <1>4, <1>6 DEF Archive
    <3> HIDE DEF At
    <3> QED
      BY <3>1, <3>3, <2>1, <1>1, <1>4, <1>6, WriterMoves DEF Archive
  <2>2. CASE Stops(w) /\ UNCHANGED archive
    BY <2>2, <1>1, <1>2, <1>6, WriterMoves DEF Archive, Stops
  <2> QED
    BY <2>1, <2>2, <1>6 DEF Archive
<1>7. CASE CancelCompression(w)
  BY <1>1, <1>2, <1>7, WriterMoves DEF CancelCompression, Stops
<1> QED
  BY <1>5, <1>6, <1>7

\* The swap moves the old messages from the list to the summary, or changes neither.
LEMMA ListIsSwapped ==
  ASSUME TellsInv, NEW w \in Writers, Swap(w)
  PROVE  TellsInv'
<1>1. Stops(w) /\ UNCHANGED <<added, archive, lapsed, context>> /\ writer[w].at = "swapping"
  BY DEF Swap
<1>2. NoWriter \in [at : {"idle", "summarizing", "archiving", "swapping"},
                    seen : Seq(Nat), told : SUBSET Nat]
      /\ NoWriter.at = "idle"
  BY DEF NoWriter
<1>3. CASE ~(list = writer[w].seen /\ summary = writer[w].told)
  BY <1>1, <1>2, <1>3, WriterMoves DEF Swap, Stops, TellsInv, MessagesAreTyped
<1>4. CASE list = writer[w].seen /\ summary = writer[w].told
  <2>1. list' = Recent(list) /\ summary' = summary \union Old(list)
    BY <1>4 DEF Swap
  <2>2. list \in Seq(Nat) /\ Len(list) - Keep \in 0..Len(list) /\ Increasing(list)
    <3>1. list \in Seq(Nat) /\ Increasing(list)
      BY DEF TellsInv, MessagesAreTyped, NothingIsLost
    <3>2. Len(list) > Keep
      BY <1>1, <1>4 DEF TellsInv, WriterArchivesFirst
    <3> QED
      BY <3>1, <3>2, MemoryAssumption
  <2>3. /\ ToSet(list) = Old(list) \union ToSet(list')
        /\ list' \in Seq(Nat)
    BY <2>1, <2>2, CutInTwo DEF Old, Recent
  <2>4. Old(list) \intersect ToSet(list') = {} /\ Increasing(list')
    BY <2>1, <2>2, CutIncreasing DEF Old, Recent
  <2>5. Old(list) \subseteq archive
    BY <1>1, <1>4 DEF TellsInv, WriterArchivesFirst
  <2>6. NothingIsLost'
    BY <1>1, <2>1, <2>3, <2>4, <2>5 DEF TellsInv, NothingIsLost
  <2>7. writer' = [writer EXCEPT ![w] = NoWriter]
    BY <1>1 DEF Stops
  <2>8. MessagesAreTyped'
    <3>1. writer' \in [Writers -> [at : {"idle", "summarizing", "archiving", "swapping"},
                                   seen : Seq(Nat), told : SUBSET Nat]]
      BY <2>7, <1>2 DEF TellsInv, MessagesAreTyped
    <3>2. summary' \subseteq 1..added
      BY <2>1, <2>5 DEF TellsInv, MessagesAreTyped
    <3> QED
      BY <3>1, <3>2, <2>3, <1>1 DEF TellsInv, MessagesAreTyped
  <2>9. /\ writer'[w] = NoWriter /\ \A v \in Writers \ {w} : writer'[v] = writer[v]
    BY <2>7 DEF TellsInv, MessagesAreTyped
  <2>10. WriterArchivesFirst'
    BY <2>9, <1>1, <1>2 DEF TellsInv, WriterArchivesFirst
  <2>11. TurnMissesNothing'
    BY <1>1, <2>1 DEF TellsInv, TurnMissesNothing
  <2> QED
    BY <2>6, <2>8, <2>10, <2>11 DEF TellsInv
<1> QED
  BY <1>3, <1>4

\* What Redis drops has lapsed.
LEMMA RedisForgets ==
  ASSUME TellsInv, ForgetSummary \/ ForgetList
  PROVE  TellsInv'
<1>1. UNCHANGED <<added, archive, writer, context>>
  BY DEF ForgetSummary, ForgetList
<1>2. WriterArchivesFirst'
  BY <1>1 DEF TellsInv, WriterArchivesFirst
<1>3. CASE ForgetSummary
  <2>1. lapsed' = lapsed \union summary /\ summary' = {} /\ list' = list
    BY <1>3 DEF ForgetSummary
  <2>2. MessagesAreTyped'
    BY <1>1, <2>1 DEF TellsInv, MessagesAreTyped
  <2>3. NothingIsLost'
    BY <1>1, <2>1 DEF TellsInv, NothingIsLost, MessagesAreTyped
  <2>4. TurnMissesNothing'
    BY <1>1, <2>1 DEF TellsInv, TurnMissesNothing
  <2> QED
    BY <1>2, <2>2, <2>3, <2>4 DEF TellsInv
<1>4. CASE ForgetList
  <2>1. lapsed' = lapsed \union ToSet(list) /\ list' = <<>> /\ summary' = summary
    BY <1>4 DEF ForgetList
  <2>2. <<>> \in Seq(Nat) /\ Len(<<>>) = 0 /\ ToSet(<<>>) = {} /\ Increasing(<<>>)
    BY DEF ToSet, Increasing
  <2>3. ToSet(list) \subseteq 1..added
    BY DEF TellsInv, NothingIsLost
  <2>4. MessagesAreTyped'
    BY <1>1, <2>1, <2>2, <2>3 DEF TellsInv, MessagesAreTyped
  <2>5. NothingIsLost'
    BY <1>1, <2>1, <2>2 DEF TellsInv, NothingIsLost, MessagesAreTyped
  <2>6. TurnMissesNothing'
    BY <1>1, <2>1 DEF TellsInv, TurnMissesNothing
  <2> QED
    BY <1>2, <2>4, <2>5, <2>6 DEF TellsInv
<1> QED
  BY <1>3, <1>4

\* What a turn does not find in the list is in the summary it reads next, since messages only
\* move from the one to the other.
LEMMA TurnReads ==
  ASSUME TellsInv, ReadRecent \/ ReadSummary
  PROVE  TellsInv'
<1>1. UNCHANGED <<added, list, summary, archive, writer, lapsed>>
  BY DEF ReadRecent, ReadSummary
<1>2. NothingIsLost' /\ WriterArchivesFirst'
  BY <1>1 DEF TellsInv, NothingIsLost, WriterArchivesFirst
<1>3. CASE ReadRecent
  <2> DEFINE shown == Min({Len(list), Window})
             tells == ToSet(SubSeq(list, Len(list) - shown + 1, Len(list)))
             hides == ToSet(SubSeq(list, 1, Len(list) - shown))
  <2>1. list \in Seq(Nat) /\ Len(list) \in Nat /\ Window \in Nat /\ added \in Nat
    BY MemoryAssumption DEF TellsInv, MessagesAreTyped
  <2>2. shown \in {Len(list), Window} /\ shown <= Len(list)
    <3>1. \E x \in {Len(list), Window} : \A y \in {Len(list), Window} : x =< y
      BY <2>1
    <3> QED
      BY <3>1 DEF Min
  <2> HIDE DEF shown
  <2>3. Len(list) - shown \in 0..Len(list)
    BY <2>1, <2>2
  <2>4. ToSet(list) = hides \union tells
    BY <2>1, <2>3, CutInTwo
  <2>5. context' = [at |-> "reading", tells |-> tells, hidden |-> hides, upto |-> added]
    BY <1>3 DEF ReadRecent, shown
  <2> HIDE DEF tells, hides
  <2>6. ToSet(list) \subseteq Nat
    BY <2>1 DEF TellsInv, NothingIsLost
  <2>7. context' \in [at : {"none", "reading", "told"}, tells : SUBSET Nat, hidden : SUBSET Nat, upto : Nat]
    BY <2>1, <2>4, <2>5, <2>6
  <2>8. MessagesAreTyped'
    BY <2>7, <1>1 DEF TellsInv, MessagesAreTyped
  <2>9. TurnMissesNothing'
    BY <2>1, <2>4, <2>5, <1>1 DEF TellsInv, NothingIsLost, TurnMissesNothing
  <2> QED
    BY <1>2, <2>8, <2>9 DEF TellsInv
<1>4. CASE ReadSummary
  <2> DEFINE all == context.tells \union summary
  <2>1. context \in [at : {"none", "reading", "told"}, tells : SUBSET Nat, hidden : SUBSET Nat, upto : Nat]
        /\ summary \subseteq Nat /\ context.at = "reading"
    BY <1>4 DEF ReadSummary, TellsInv, MessagesAreTyped
  <2>2. context' = [context EXCEPT !.at = "told", !.tells = all]
    BY <1>4 DEF ReadSummary
  <2>3. all \subseteq Nat
    BY <2>1
  <2>4. /\ context' \in [at : {"none", "reading", "told"}, tells : SUBSET Nat, hidden : SUBSET Nat, upto : Nat]
        /\ context'.at = "told" /\ context'.tells = all
        /\ context'.hidden = context.hidden /\ context'.upto = context.upto
    <3> HIDE DEF all
    <3> QED
      BY <2>1, <2>2, <2>3
  <2>5. MessagesAreTyped'
    BY <2>4, <1>1 DEF TellsInv, MessagesAreTyped
  <2>6. TurnMissesNothing'
    BY <2>1, <2>4, <1>1 DEF TellsInv, TurnMissesNothing
  <2> QED
    BY <1>2, <2>5, <2>6 DEF TellsInv
<1> QED
  BY <1>3, <1>4

\* For any writers, thresholds and lengths: compression neither loses a message nor tells it
\* twice, and what has left the list is in the archive or has lapsed.
THEOREM ConversationIsTold == MemorySpec => []TellsAll
<1>1. MemoryInit => TellsInv
  BY MemoryBegins
<1>2. TellsInv /\ [MemoryNext]_memoryVars => TellsInv'
  <2> SUFFICES ASSUME TellsInv, [MemoryNext]_memoryVars PROVE TellsInv'
    OBVIOUS
  <2>1. ASSUME NEW w \in Writers, AddMessage(w) PROVE TellsInv'
    BY <2>1, MessagesAreAdded
  <2>2. ASSUME NEW w \in Writers, Summarize(w) \/ Archive(w) \/ CancelCompression(w) PROVE TellsInv'
    BY <2>2, CompressionMoves
  <2>3. ASSUME NEW w \in Writers, Swap(w) PROVE TellsInv'
    BY <2>3, ListIsSwapped
  <2>4. CASE ForgetSummary \/ ForgetList
    BY <2>4, RedisForgets
  <2>5. CASE ReadRecent \/ ReadSummary
    BY <2>5, TurnReads
  <2>6. CASE UNCHANGED memoryVars
    BY <2>6 DEF memoryVars, TellsInv, MessagesAreTyped, NothingIsLost, WriterArchivesFirst, TurnMissesNothing
  <2> QED
    BY <2>1, <2>2, <2>3, <2>4, <2>5, <2>6 DEF MemoryNext
<1> QED
  BY <1>1, <1>2, TellsAllFollows, PTL DEF MemorySpec

--------------------------------------------------------------------------------
(* The index of versioned knowledge *)

\* What a builder and a request remember.
BuilderRow == [generation : Generations \union {None}, seen : SUBSET Docs, at : {"idle", "writing", "publishing"}]
RequestRow == [at : {"idle", "recalling", "checking", "generating", "done"},
               generation : Generations \union {None},
               branch : [Branches -> {"none", "done", "failed"}], rows : SUBSET Docs,
               chunks : SUBSET Docs, before : SUBSET Docs,
               reply : {"none", "answered", "withheld", "advised", "insufficient", "unavailable"}]

\* The types of generations, builders and requests.
KnowledgeIsTyped ==
  /\ state \in [Generations -> {"absent", "building", "ready"}]
  /\ vectors \in [Generations -> SUBSET Docs]
  /\ pointer \in Generations \union {None} /\ denied \subseteq Docs
  /\ builder \in [Builders -> BuilderRow] /\ request \in [Requests -> RequestRow]

\* What a builder has seen is in the collection of its generation.
Seen(row) == row.at # "idle" => row.generation \in Generations /\ row.seen \subseteq vectors[row.generation]

\* Vectors are of the generation they are written for, and are never taken back.
VectorsStay ==
  /\ \A g \in Generations : vectors[g] \subseteq DocsOf[g] /\ (state[g] = "ready" => vectors[g] = DocsOf[g])
  /\ pointer # None => state[pointer] = "ready"
  /\ \A b \in Builders : Seen(builder[b])

\* What a request holds was not revoked when it began.
Clean(row) ==
  /\ row.at = "recalling" => row.generation \in Generations
  /\ row.reply = "none" =>
       /\ row.before \subseteq denied /\ (row.at = "idle" => row.rows = {} /\ row.chunks = {})
       /\ row.rows \intersect row.before = {} /\ row.chunks \intersect row.before = {}

\* The inductive invariant.
KnowledgeInv == KnowledgeIsTyped /\ VectorsStay /\ \A r \in Requests : Clean(request[r])

\* At first there is nothing.
LEMMA KnowledgeBegins == IndexInit => KnowledgeInv
<1> SUFFICES ASSUME IndexInit PROVE KnowledgeInv
  OBVIOUS
<1>1. Resting \in RequestRow /\ Clean(Resting)
  BY DEF Resting, RequestRow, Clean
<1>2. KnowledgeIsTyped
  BY <1>1 DEF IndexInit, KnowledgeIsTyped, BuilderRow
<1>3. VectorsStay
  BY DEF IndexInit, VectorsStay, Seen
<1>4. \A r \in Requests : request[r] = Resting
  BY DEF IndexInit
<1> QED
  BY <1>1, <1>2, <1>3, <1>4 DEF KnowledgeInv

\* A builder that changes what it remembers, and perhaps stages a generation.
LEMMA BuilderMoves ==
  ASSUME KnowledgeInv, NEW b \in Builders, NEW row \in BuilderRow,
         builder' = [builder EXCEPT ![b] = row], UNCHANGED <<vectors, denied, embedding, request>>,
         state' \in [Generations -> {"absent", "building", "ready"}], pointer' \in Generations \union {None},
         \A g \in Generations : state[g] = "ready" => state'[g] = "ready",
         \A g \in Generations : state'[g] = "ready" => vectors[g] = DocsOf[g],
         pointer' # None => state'[pointer'] = "ready", Seen(row)
  PROVE  KnowledgeInv'
<1>1. KnowledgeIsTyped'
  BY DEF KnowledgeInv, KnowledgeIsTyped
<1>2. \A g \in Generations : vectors'[g] \subseteq DocsOf[g] /\ (state'[g] = "ready" => vectors'[g] = DocsOf[g])
  BY DEF KnowledgeInv, VectorsStay
<1>3. \A c \in Builders : Seen(builder[c])'
  BY DEF KnowledgeInv, KnowledgeIsTyped, VectorsStay, Seen
<1>4. \A r \in Requests : Clean(request[r])'
  BY DEF KnowledgeInv, Clean
<1> QED
  BY <1>1, <1>2, <1>3, <1>4 DEF KnowledgeInv, VectorsStay

\* The collection of a generation only grows, within its documents.
LEMMA UpsertBuilds ==
  ASSUME KnowledgeInv, NEW b \in Builders, Upsert(b)
  PROVE  KnowledgeInv'
<1>. DEFINE g == builder[b].generation
<1>1. PICK d \in DocsOf[g] : vectors' = [vectors EXCEPT ![g] = @ \union {d}]
  BY DEF Upsert
<1>2. g \in Generations /\ vectors \in [Generations -> SUBSET Docs] /\ DocsOf[g] \subseteq Docs
  BY IndexAssumption DEF Upsert, KnowledgeInv, KnowledgeIsTyped, VectorsStay, Seen
<1>. HIDE DEF g
<1>3. vectors' \in [Generations -> SUBSET Docs]
  BY <1>1, <1>2
<1>4. \A h \in Generations : vectors[h] \subseteq vectors'[h] /\ (h # g => vectors'[h] = vectors[h])
  BY <1>1, <1>2
<1>5. vectors'[g] = vectors[g] \union {d}
  BY <1>1, <1>2
<1>6. \A h \in Generations : vectors'[h] \subseteq DocsOf[h] /\ (state[h] = "ready" => vectors'[h] = DocsOf[h])
  BY <1>1, <1>2, <1>4, <1>5 DEF KnowledgeInv, VectorsStay
<1>7. \A c \in Builders : Seen(builder[c])'
  <2>1. \A c \in Builders : Seen(builder[c])
    BY DEF KnowledgeInv, VectorsStay
  <2>. QED BY <1>4, <2>1 DEF Seen, Upsert
<1>8. KnowledgeIsTyped'
  BY <1>3 DEF KnowledgeInv, KnowledgeIsTyped, Upsert
<1>9. \A r \in Requests : Clean(request[r])'
  BY DEF KnowledgeInv, Clean, Upsert
<1> QED
  BY <1>6, <1>7, <1>8, <1>9 DEF KnowledgeInv, VectorsStay, Upsert

\* What the builders do: a generation is published only when its vectors are complete.
LEMMA BuildersBuild ==
  ASSUME KnowledgeInv, NEW b \in Builders, Stage(b) \/ Upsert(b) \/ Collect(b) \/ Publish(b) \/ Fail(b)
  PROVE  KnowledgeInv'
<1>. DEFINE m == builder[b]
            g == m.generation
<1>1. /\ m \in BuilderRow /\ Seen(m) /\ builder \in [Builders -> BuilderRow]
      /\ state \in [Generations -> {"absent", "building", "ready"}] /\ pointer \in Generations \union {None}
      /\ pointer # None => state[pointer] = "ready"
      /\ \A h \in Generations : vectors[h] \subseteq DocsOf[h] /\ (state[h] = "ready" => vectors[h] = DocsOf[h])
      /\ vectors \in [Generations -> SUBSET Docs] /\ None \notin Generations
  BY IndexAssumption DEF KnowledgeInv, KnowledgeIsTyped, VectorsStay
<1>2. CASE Stage(b)
  <2>1. PICK h \in Generations :
          /\ state' = [state EXCEPT ![h] = IF @ = "absent" THEN "building" ELSE @]
          /\ builder' = [builder EXCEPT ![b] = [generation |-> h, seen |-> {}, at |-> "writing"]]
    BY <1>2 DEF Stage
  <2>. DEFINE row == [generation |-> h, seen |-> {}, at |-> "writing"]
  <2>2. row \in BuilderRow /\ Seen(row)
    BY DEF BuilderRow, Seen
  <2>. HIDE DEF row
  <2>3. /\ state' \in [Generations -> {"absent", "building", "ready"}] /\ pointer' = pointer
        /\ \A k \in Generations : state'[k] = "ready" <=> state[k] = "ready"
    BY <1>1, <1>2, <2>1 DEF Stage
  <2>4. builder' = [builder EXCEPT ![b] = row] /\ UNCHANGED <<vectors, denied, embedding, request>>
    BY <1>2, <2>1 DEF Stage, row
  <2>. QED BY <1>1, <2>2, <2>3, <2>4, BuilderMoves
<1>3. CASE Upsert(b)
  BY <1>3, UpsertBuilds
<1>4. CASE Collect(b)
  <2>. DEFINE row == [m EXCEPT !.at = "publishing", !.seen = vectors[g]]
  <2>1. g \in Generations
    BY <1>1, <1>4 DEF Collect, Seen
  <2>2. row \in BuilderRow /\ row.generation = g /\ row.seen = vectors[g]
    BY <1>1, <2>1 DEF BuilderRow
  <2>3. builder' = [builder EXCEPT ![b] = row]
    BY <1>1, <1>4 DEF Collect
  <2>. HIDE DEF row
  <2>4. Seen(row)
    BY <2>1, <2>2 DEF Seen
  <2>. QED BY <1>1, <1>4, <2>2, <2>3, <2>4, BuilderMoves DEF Collect, index
<1>5. CASE Publish(b)
  <2>. DEFINE row == [m EXCEPT !.at = "idle"]
  <2>1. g \in Generations /\ m.seen \subseteq vectors[g] /\ vectors[g] \subseteq DocsOf[g]
    BY <1>1, <1>5 DEF Publish, Seen
  <2>2. row \in BuilderRow /\ Seen(row)
    BY <1>1 DEF BuilderRow, Seen
  <2>3. builder' = [builder EXCEPT ![b] = row] /\ UNCHANGED <<vectors, denied, embedding, request>>
    BY <1>5 DEF Publish
  <2>. HIDE DEF row
  <2>4. CASE m.seen = DocsOf[g]
    <3>1. vectors[g] = DocsOf[g]
      BY <2>1, <2>4
    <3>2. state' = [state EXCEPT ![g] = "ready"] /\ pointer' = g
      BY <1>5, <2>4 DEF Publish
    <3>. HIDE DEF g, m
    <3>3. /\ state' \in [Generations -> {"absent", "building", "ready"}] /\ state'[pointer'] = "ready"
          /\ \A h \in Generations : state[h] = "ready" => state'[h] = "ready"
          /\ \A h \in Generations : state'[h] = "ready" => vectors[h] = DocsOf[h]
      BY <1>1, <2>1, <3>1, <3>2
    <3>. QED BY <2>1, <2>2, <2>3, <3>2, <3>3, BuilderMoves
  <2>5. CASE m.seen # DocsOf[g]
    <3>1. UNCHANGED <<state, pointer>>
      BY <1>5, <2>5 DEF Publish
    <3>. QED BY <1>1, <2>2, <2>3, <3>1, BuilderMoves
  <2>. QED BY <2>4, <2>5
<1>6. CASE Fail(b)
  <2>. DEFINE row == [m EXCEPT !.at = "idle"]
  <2>1. row \in BuilderRow /\ Seen(row)
    BY <1>1 DEF BuilderRow, Seen
  <2>2. builder' = [builder EXCEPT ![b] = row]
    BY <1>6 DEF Fail
  <2>. HIDE DEF row
  <2>. QED BY <1>1, <1>6, <2>1, <2>2, BuilderMoves DEF Fail, index
<1> QED
  BY <1>2, <1>3, <1>4, <1>5, <1>6

\* What operators do: only what is ready is activated, and nothing is taken back that was revoked.
LEMMA OperatorsOperate ==
  ASSUME KnowledgeInv, (\E g \in Generations : Activate(g)) \/ (\E d \in Docs : Deny(d)) \/ Redeploy
  PROVE  KnowledgeInv'
<1>1. CASE \E g \in Generations : Activate(g)
  <2>1. KnowledgeIsTyped' /\ VectorsStay'
    BY <1>1, IndexAssumption DEF Activate, KnowledgeInv, KnowledgeIsTyped, VectorsStay, Seen
  <2>2. \A r \in Requests : Clean(request[r])'
    BY <1>1 DEF Activate, KnowledgeInv, Clean
  <2>. QED BY <2>1, <2>2 DEF KnowledgeInv
<1>2. CASE \E d \in Docs : Deny(d)
  <2>1. KnowledgeIsTyped' /\ VectorsStay'
    BY <1>2 DEF Deny, KnowledgeInv, KnowledgeIsTyped, VectorsStay, Seen
  <2>2. \A r \in Requests : Clean(request[r])'
    BY <1>2 DEF Deny, KnowledgeInv, Clean
  <2>. QED BY <2>1, <2>2 DEF KnowledgeInv
<1>3. CASE Redeploy
  <2>1. Resting \in RequestRow /\ Resting.reply = "none" /\ Clean(Resting)'
    BY DEF Resting, RequestRow, Clean
  <2>2. \A r \in Requests : request'[r] \in {request[r], Resting}
    BY <1>3 DEF Redeploy
  <2>3. request' \in [Requests -> RequestRow]
    BY <1>3, <2>1 DEF Redeploy, KnowledgeInv, KnowledgeIsTyped
  <2>4. builder' \in [Builders -> BuilderRow] /\ \A b \in Builders : builder'[b].at = "idle"
    BY <1>3 DEF Redeploy, BuilderRow
  <2>5. KnowledgeIsTyped'
    BY <1>3, <2>3, <2>4 DEF Redeploy, KnowledgeInv, KnowledgeIsTyped
  <2>6. VectorsStay'
    BY <1>3, <2>4 DEF Redeploy, KnowledgeInv, VectorsStay, Seen
  <2>7. \A r \in Requests : Clean(request[r])'
    <3>1. ASSUME NEW r \in Requests PROVE Clean(request[r])'
      <4>1. Clean(request[r]) /\ denied' = denied
        BY <1>3 DEF Redeploy, KnowledgeInv
      <4>2. CASE request'[r] = request[r]
        BY <4>1, <4>2 DEF Clean
      <4>3. CASE request'[r] = Resting
        BY <2>1, <4>3 DEF Clean
      <4>. QED BY <2>2, <4>2, <4>3
    <3>. QED BY <3>1
  <2>. QED BY <2>5, <2>6, <2>7 DEF KnowledgeInv
<1> QED
  BY <1>1, <1>2, <1>3

\* A request that changes what it holds.
LEMMA RequestMoves ==
  ASSUME KnowledgeInv, NEW r \in Requests, NEW row \in RequestRow, Clean(row),
         request' = [request EXCEPT ![r] = row], UNCHANGED <<index, builder>>
  PROVE  KnowledgeInv'
<1>1. KnowledgeIsTyped'
  BY DEF KnowledgeInv, KnowledgeIsTyped, index
<1>2. VectorsStay'
  BY DEF KnowledgeInv, VectorsStay, Seen, index
<1>3. request \in [Requests -> RequestRow] /\ denied' = denied
  BY DEF KnowledgeInv, KnowledgeIsTyped, index
<1>4. \A q \in Requests : Clean(request'[q])
  BY <1>3 DEF KnowledgeInv
<1>5. \A q \in Requests : Clean(request[q])'
  BY <1>3, <1>4 DEF Clean
<1> QED
  BY <1>1, <1>2, <1>5 DEF KnowledgeInv

\* A request searches, is checked and answered: a branch finds only what is not revoked.
LEMMA RequestsGoOn ==
  ASSUME KnowledgeInv, NEW r \in Requests,
         \/ Search(r) \/ Select(r) \/ Check(r) \/ Deliver(r) \/ Advise(r) \/ \E k \in Branches : Recall(r, k)
  PROVE  KnowledgeInv'
<1>. DEFINE m == request[r]
<1>1. /\ m \in RequestRow /\ Clean(m) /\ request \in [Requests -> RequestRow] /\ denied \subseteq Docs
      /\ pointer \in Generations \union {None}
      /\ \A g \in Generations : DocsOf[g] \subseteq Docs
  BY IndexAssumption DEF KnowledgeInv, KnowledgeIsTyped
<1>2. UNCHANGED <<index, builder>>
  BY DEF Search, Select, Check, Deliver, Advise, Recall
<1>3. CASE Search(r)
  <2>. DEFINE stage == IF pointer = None THEN "checking" ELSE "recalling"
              row == [m EXCEPT !.at = stage, !.generation = pointer, !.before = denied]
  <2>1. request' = [request EXCEPT ![r] = row] /\ m.at = "idle"
    BY <1>1, <1>3 DEF Search
  <2>2. stage \in {"checking", "recalling"} /\ (stage = "recalling" => pointer # None)
    OBVIOUS
  <2>. HIDE DEF stage
  <2>3. /\ row \in RequestRow /\ row.before = denied /\ row.generation = pointer /\ row.at = stage
        /\ row.rows = m.rows /\ row.chunks = m.chunks /\ row.reply = m.reply
    BY <1>1, <2>2 DEF RequestRow
  <2>. HIDE DEF row
  <2>4. Clean(row)
    BY <1>1, <2>1, <2>2, <2>3 DEF Clean
  <2>. QED BY <1>2, <2>1, <2>3, <2>4, RequestMoves
<1>4. CASE \E k \in Branches : Recall(r, k)
  <2>1. PICK k \in Branches : Recall(r, k)
    BY <1>4
  <2>. DEFINE g == m.generation
              done == [m.branch EXCEPT ![k] = "done"]
              broken == [m.branch EXCEPT ![k] = "failed"]
  <2>2. done \in [Branches -> {"none", "done", "failed"}] /\ broken \in [Branches -> {"none", "done", "failed"}]
    BY <1>1 DEF RequestRow
  <2>3. CASE request' = [request EXCEPT ![r].branch[k] = "failed"]
    <3>. DEFINE row == [m EXCEPT !.branch = broken]
    <3>1. request' = [request EXCEPT ![r] = row]
      BY <1>1, <2>3
    <3>. HIDE DEF broken
    <3>2. row \in RequestRow /\ Clean(row)
      BY <1>1, <2>2 DEF RequestRow, Clean
    <3>. HIDE DEF row
    <3>. QED BY <1>2, <3>1, <3>2, RequestMoves
  <2>4. CASE \E found \in (IF k = "vector" THEN Vector(g) ELSE Keyword(g)) :
               request' = [request EXCEPT ![r].branch[k] = "done", ![r].rows = @ \union found]
    <3>1. PICK found : /\ found \in IF k = "vector" THEN Vector(g) ELSE Keyword(g)
                       /\ request' = [request EXCEPT ![r].branch[k] = "done", ![r].rows = @ \union found]
      BY <2>4
    <3>2. found \subseteq Allowed(DocsOf[g])
      BY <3>1 DEF Vector, Keyword
    <3>. DEFINE rows == m.rows \union found
                row == [m EXCEPT !.branch = done, !.rows = rows]
    <3>3. request' = [request EXCEPT ![r] = [m EXCEPT !.branch[k] = "done", !.rows = rows]]
      BY <1>1, <3>1
    <3>4. m.at = "recalling" /\ g \in Generations
      BY <1>1, <2>1 DEF Recall, Clean
    <3>5. rows \subseteq Docs /\ (m.reply = "none" => rows \intersect m.before = {})
      BY <1>1, <3>2, <3>4 DEF Clean, Allowed, RequestRow
    <3>. HIDE DEF rows
    <3>6. [m EXCEPT !.branch[k] = "done", !.rows = rows] = row
      BY <1>1 DEF RequestRow
    <3>. HIDE DEF done
    <3>7. row \in RequestRow /\ row.rows = rows /\ row.at = m.at /\ row.generation = g /\ row.before = m.before
          /\ row.chunks = m.chunks /\ row.reply = m.reply
      BY <1>1, <2>2, <3>5 DEF RequestRow
    <3>. HIDE DEF row
    <3>8. Clean(row)
      BY <1>1, <3>4, <3>5, <3>7 DEF Clean
    <3>. QED BY <1>2, <3>3, <3>6, <3>7, <3>8, RequestMoves
  <2>. QED BY <2>1, <2>3, <2>4 DEF Recall
<1>5. CASE Select(r)
  <2>1. PICK chosen \in SUBSET m.rows :
          request' = [request EXCEPT ![r].at = "checking", ![r].rows = {}, ![r].chunks = Allowed(chosen)]
    BY <1>5 DEF Select
  <2>. DEFINE chunks == Allowed(chosen)
              row == [m EXCEPT !.at = "checking", !.rows = {}, !.chunks = chunks]
  <2>2. chunks \subseteq m.rows
    BY DEF Allowed
  <2>3. request' = [request EXCEPT ![r] = row]
    BY <1>1, <2>1
  <2>. HIDE DEF chunks
  <2>4. /\ row \in RequestRow /\ row.at = "checking" /\ row.rows = {} /\ row.chunks = chunks
        /\ row.before = m.before /\ row.reply = m.reply
    BY <1>1, <2>2 DEF RequestRow
  <2>. HIDE DEF row
  <2>5. Clean(row)
    BY <1>1, <2>2, <2>4 DEF Clean
  <2>. QED BY <1>2, <2>3, <2>4, <2>5, RequestMoves
<1>6. CASE Check(r)
  <2>1. PICK kept \in SUBSET m.chunks, at \in {"generating", "done"}, reply \in {m.reply, "insufficient", "unavailable"} :
          request' = [request EXCEPT ![r] = [m EXCEPT !.at = at, !.chunks = kept, !.reply = reply]]
    <3>1. CASE \E kept \in SUBSET m.chunks : request' = [request EXCEPT ![r].at = "generating", ![r].chunks = kept]
      <4>1. PICK kept \in SUBSET m.chunks : request' = [request EXCEPT ![r].at = "generating", ![r].chunks = kept]
        BY <3>1
      <4>2. [m EXCEPT !.at = "generating", !.chunks = kept]
              = [m EXCEPT !.at = "generating", !.chunks = kept, !.reply = m.reply]
        BY <1>1 DEF RequestRow
      <4>3. request' = [request EXCEPT ![r] = [m EXCEPT !.at = "generating", !.chunks = kept]]
        BY <1>1, <4>1
      <4>. QED BY <4>2, <4>3
    <3>2. CASE \E reply \in {"insufficient", "unavailable"} :
                 request' = [request EXCEPT ![r].at = "done", ![r].chunks = {}, ![r].reply = reply]
      <4>1. PICK reply \in {"insufficient", "unavailable"} :
              request' = [request EXCEPT ![r].at = "done", ![r].chunks = {}, ![r].reply = reply]
        BY <3>2
      <4>2. request' = [request EXCEPT ![r] = [m EXCEPT !.at = "done", !.chunks = {}, !.reply = reply]]
        BY <1>1, <4>1
      <4>. QED BY <4>2
    <3>. QED BY <1>6, <3>1, <3>2 DEF Check
  <2>. DEFINE row == [m EXCEPT !.at = at, !.chunks = kept, !.reply = reply]
  <2>2. /\ row \in RequestRow /\ row.at = at /\ row.rows = m.rows /\ row.chunks = kept
        /\ row.before = m.before /\ row.reply = reply
    BY <1>1 DEF RequestRow
  <2>. HIDE DEF row
  <2>3. Clean(row)
    BY <1>1, <2>2 DEF Clean
  <2>. QED BY <1>2, <2>1, <2>2, <2>3, RequestMoves DEF row
<1>7. CASE Deliver(r) \/ Advise(r)
  <2>1. PICK chunks \in SUBSET m.chunks, reply \in {"answered", "withheld", "advised"} :
          request' = [request EXCEPT ![r] = [m EXCEPT !.at = "done", !.chunks = chunks, !.reply = reply]]
    <3>1. CASE Deliver(r)
      <4>1. PICK reply \in {"answered", "withheld"} : request' = [request EXCEPT ![r].at = "done", ![r].reply = reply]
        BY <3>1 DEF Deliver
      <4>2. request' = [request EXCEPT ![r] = [m EXCEPT !.at = "done", !.reply = reply]]
        BY <1>1, <4>1
      <4>3. [m EXCEPT !.at = "done", !.reply = reply] = [m EXCEPT !.at = "done", !.chunks = m.chunks, !.reply = reply]
        BY <1>1 DEF RequestRow
      <4>. QED BY <4>2, <4>3
    <3>2. CASE Advise(r)
      <4>1. PICK cited \in SUBSET Docs, reply \in {"advised", "withheld"} :
              request' = [request EXCEPT ![r].at = "done", ![r].chunks = cited \intersect @, ![r].reply = reply]
        BY <3>2 DEF Advise
      <4>. DEFINE chunks == cited \intersect m.chunks
      <4>2. request' = [request EXCEPT ![r] = [m EXCEPT !.at = "done", !.chunks = chunks, !.reply = reply]]
        BY <1>1, <4>1 DEF RequestRow
      <4>. QED BY <4>2
    <3>. QED BY <1>7, <3>1, <3>2
  <2>. DEFINE row == [m EXCEPT !.at = "done", !.chunks = chunks, !.reply = reply]
  <2>2. row \in RequestRow /\ row.at = "done" /\ row.reply = reply
    BY <1>1 DEF RequestRow
  <2>. HIDE DEF row
  <2>3. Clean(row)
    BY <2>2 DEF Clean
  <2>. QED BY <1>2, <2>1, <2>2, <2>3, RequestMoves DEF row
<1> QED
  BY <1>3, <1>4, <1>5, <1>6, <1>7

\* The invariant holds in every behaviour.
THEOREM KnowledgeHolds == IndexSpec => []KnowledgeInv
<1>1. KnowledgeInv /\ [IndexNext]_indexVars => KnowledgeInv'
  <2> SUFFICES ASSUME KnowledgeInv, [IndexNext]_indexVars PROVE KnowledgeInv'
    OBVIOUS
  <2>1. CASE \E b \in Builders : Stage(b) \/ Upsert(b) \/ Collect(b) \/ Publish(b) \/ Fail(b)
    BY <2>1, BuildersBuild
  <2>2. CASE (\E g \in Generations : Activate(g)) \/ (\E d \in Docs : Deny(d)) \/ Redeploy
    BY <2>2, OperatorsOperate
  <2>3. CASE \E r \in Requests : \/ Search(r) \/ Select(r) \/ Check(r) \/ Deliver(r) \/ Advise(r)
                                 \/ \E k \in Branches : Recall(r, k)
    BY <2>3, RequestsGoOn
  <2>4. CASE UNCHANGED indexVars
    BY <2>4 DEF indexVars, index, KnowledgeInv, KnowledgeIsTyped, VectorsStay, Seen, Clean
  <2> QED
    BY <2>1, <2>2, <2>3, <2>4 DEF IndexNext
<1> QED
  BY <1>1, KnowledgeBegins, PTL DEF IndexSpec

\* The published generation is ready and its collection has all its documents, for any number
\* of builders and generations (core/rag).
THEOREM ActiveGenerationIsComplete == IndexSpec => []ActiveIsComplete
<1>1. KnowledgeInv => ActiveIsComplete
  BY DEF KnowledgeInv, KnowledgeIsTyped, VectorsStay, ActiveIsComplete
<1> QED
  BY <1>1, KnowledgeHolds, PTL

\* No answer is given from a document that was revoked before, and no advice quotes one that
\* was revoked before it was asked for.
THEOREM RevokedIsNeverQuoted == IndexSpec => RevokedNeverQuoted
<1> DEFINE Quotes(r) == request[r].reply = "none" =>
      /\ request'[r].reply = "answered" => request[r].chunks \intersect denied = {}
      /\ request'[r].reply = "advised" => request'[r].chunks \intersect request[r].before = {}
<1>1. ASSUME KnowledgeInv, [IndexNext]_indexVars, NEW r \in Requests PROVE Quotes(r)
  <2>. DEFINE m == request[r]
  <2>1. request \in [Requests -> RequestRow] /\ m \in RequestRow /\ Clean(m)
    BY <1>1 DEF KnowledgeInv, KnowledgeIsTyped
  <2>2. CASE Deliver(r)
    BY <2>1, <2>2 DEF Deliver, Allowed, RequestRow
  <2>3. CASE Advise(r)
    BY <2>1, <2>3 DEF Advise, RequestRow, Clean
  <2>4. CASE ~Deliver(r) /\ ~Advise(r)
    <3>1. CASE request' = request
      BY <2>1, <3>1 DEF RequestRow
    <3>2. CASE Redeploy
      BY <2>1, <3>2 DEF Redeploy, Resting, RequestRow
    <3>3. CASE \E q \in Requests : Search(q) \/ Select(q) \/ \E k \in Branches : Recall(q, k)
      <4>1. PICK q \in Requests : Search(q) \/ Select(q) \/ \E k \in Branches : Recall(q, k)
        BY <3>3
      <4>2. CASE Search(q)
        BY <2>1, <4>2 DEF Search, RequestRow
      <4>3. CASE Select(q)
        BY <2>1, <4>3 DEF Select, RequestRow
      <4>4. CASE \E k \in Branches : Recall(q, k)
        <5>1. PICK k \in Branches : Recall(q, k)
          BY <4>4
        <5>2. CASE request' = [request EXCEPT ![q].branch[k] = "failed"]
          BY <2>1, <5>2 DEF RequestRow
        <5>3. CASE \E found : request' = [request EXCEPT ![q].branch[k] = "done", ![q].rows = @ \union found]
          BY <2>1, <5>3 DEF RequestRow
        <5>. QED BY <5>1, <5>2, <5>3 DEF Recall
      <4>. QED BY <4>1, <4>2, <4>3, <4>4
    <3>4. CASE \E q \in Requests : Check(q)
      <4>1. request'[r].reply \in {m.reply, "insufficient", "unavailable"}
        BY <2>1, <3>4 DEF Check, RequestRow
      <4>. QED BY <4>1
    <3>5. CASE \E q \in Requests : q # r /\ (Deliver(q) \/ Advise(q))
      <4>1. request'[r] = m
        BY <2>1, <3>5 DEF Deliver, Advise
      <4>. QED BY <4>1
    <3> QED
      BY <1>1, <2>4, <3>1, <3>2, <3>3, <3>4, <3>5
      DEF IndexNext, indexVars, index, Stage, Upsert, Collect, Publish, Fail, Activate, Deny
  <2> QED
    BY <2>2, <2>3, <2>4
<1>2. KnowledgeInv /\ [IndexNext]_indexVars => [\A r \in Requests : Quotes(r)]_indexVars
  BY <1>1
<1>. HIDE DEF Quotes
<1>3. IndexSpec => [][\A r \in Requests : Quotes(r)]_indexVars
  BY <1>2, KnowledgeHolds, PTL DEF IndexSpec
<1> QED
  BY <1>3 DEF RevokedNeverQuoted, Quotes

--------------------------------------------------------------------------------
(* The gate before the model *)

\* What a caller does, and what Redis may answer it.
Phases == {"idle", "asking", "sleeping", "waiting", "executing", "leaving"}
Replies == {"none", "mismatch", "gone", "admitted", "full", "wait"}

\* The types of the gate.
GateIsTyped ==
  /\ mode \in {"redis", "local"} /\ phase \in [Calls -> Phases]
  /\ timer \in [Calls -> Nat] /\ patience \in [Calls -> Nat] /\ lease \in [Calls -> Nat]
  /\ command \in [Calls -> {"none", "new", "poll"}] /\ releasing \in [Calls -> BOOLEAN]
  /\ answer \in [Calls -> Replies]

\* In Redis a caller that executes, or may read that it is admitted, has nothing under way that
\* could end its lease, and its lease lasts longer than what it may do.
LeaseOutlives(c) ==
  /\ phase[c] # "waiting" /\ patience[c] <= Reply
  /\ releasing[c] => phase[c] = "idle"
  /\ answer[c] # "none" => phase[c] = "asking" /\ command[c] = "none"
  /\ phase[c] \in {"sleeping", "executing"} => command[c] = "none"
  /\ answer[c] = "admitted" => lease[c] > patience[c] + RunTime
  /\ phase[c] = "executing" => lease[c] > timer[c]

\* In one event loop a caller that executes holds the semaphore.
HoldsSemaphore(c) ==
  /\ phase[c] \in {"idle", "waiting", "executing"}
  /\ command[c] = "none" /\ ~releasing[c] /\ answer[c] = "none"
  /\ phase[c] = "executing" => lease[c] > 0

\* The inductive invariant.
GateInv ==
  /\ GateIsTyped /\ Cardinality(Held) <= Limit
  /\ \A c \in Calls : IF mode = "redis" THEN LeaseOutlives(c) ELSE HoldsSemaphore(c)

\* At first nobody holds or executes anything.
LEMMA GateBegins == GateInit => GateInv
<1> SUFFICES ASSUME GateInit PROVE GateInv
  OBVIOUS
<1>1. GateIsTyped
  BY GateAssumption DEF GateInit, GateIsTyped, Phases, Replies
<1>2. Held = {}
  BY DEF GateInit, Held
<1>3. Cardinality(Held) <= Limit
  BY <1>2, FS_EmptySet, GateAssumption
<1>4. \A c \in Calls : LeaseOutlives(c) /\ HoldsSemaphore(c)
  BY GateAssumption DEF GateInit, LeaseOutlives, HoldsSemaphore
<1> QED
  BY <1>1, <1>3, <1>4 DEF GateInv

\* Who holds no longer makes room; who is given a lease while there is room keeps the limit.
LEMMA HeldWithinLimit ==
  ASSUME GateInv, lease' \in [Calls -> Nat], NEW c \in Calls,
         \A d \in Calls : d # c /\ lease'[d] > 0 => lease[d] > 0,
         lease'[c] > 0 => lease[c] > 0 \/ Cardinality(Held) < Limit
  PROVE  Cardinality(Held') <= Limit
<1>1. IsFiniteSet(Held) /\ Held \subseteq Calls /\ Cardinality(Held) <= Limit /\ Cardinality(Held) \in Nat /\ Limit \in Nat
  BY GateAssumption, FS_Subset, FS_CardinalityType DEF Held, GateInv
<1>2. CASE Held' \subseteq Held
  BY <1>1, <1>2, FS_Subset, FS_CardinalityType
<1>3. CASE ~(Held' \subseteq Held)
  <2>1. c \notin Held /\ Held' \subseteq Held \union {c} /\ Cardinality(Held) < Limit
    BY <1>3 DEF Held
  <2>2. IsFiniteSet(Held \union {c}) /\ Cardinality(Held \union {c}) = Cardinality(Held) + 1
    BY <1>1, <2>1, FS_AddElement
  <2>3. Cardinality(Held') <= Cardinality(Held \union {c}) /\ IsFiniteSet(Held')
    BY <2>1, <2>2, FS_Subset
  <2>. QED BY <1>1, <2>1, <2>2, <2>3, FS_CardinalityType
<1> QED
  BY <1>2, <1>3

\* What a caller of Redis does by itself leaves its lease as it is.
LEMMA CallersMove ==
  ASSUME GateInv, NEW c \in Calls,
         Ask(c) \/ Read(c) \/ Leave(c) \/ SendRelease(c) \/ Lose(c) \/ Die(c)
  PROVE  GateInv'
<1>1. lease' = lease /\ mode' = mode
  BY DEF Ask, Read, Leave, SendRelease, Lose, Die, redis
<1>2. Cardinality(Held') <= Limit
  BY <1>1 DEF GateInv, Held
<1>3. GateIsTyped /\ GateIsTyped'
  BY <1>1, GateAssumption
  DEF GateInv, GateIsTyped, Phases, Replies, Ask, Read, Leave, SendRelease, Lose, Die, redis, client
<1>4. ASSUME NEW d \in Calls, mode = "redis" PROVE LeaseOutlives(d)'
  <2>1. LeaseOutlives(d)
    BY <1>4 DEF GateInv
  <2>2. CASE Ask(c)
    BY <1>3, <2>1, <2>2, GateAssumption DEF Ask, Fresh, LeaseOutlives, GateIsTyped, Phases, redis
  <2>3. CASE Read(c)
    BY <1>3, <2>1, <2>3, GateAssumption DEF Read, LeaseOutlives, GateIsTyped, Phases, redis
  <2>4. CASE Leave(c)
    BY <1>3, <2>1, <2>4, GateAssumption DEF Leave, LeaseOutlives, GateIsTyped, Phases, redis
  <2>5. CASE SendRelease(c)
    BY <1>3, <2>1, <2>5, GateAssumption DEF SendRelease, LeaseOutlives, GateIsTyped, Phases, redis
  <2>6. CASE Lose(c)
    BY <1>3, <2>1, <2>6, GateAssumption DEF Lose, LeaseOutlives, GateIsTyped, Phases, redis, client
  <2>7. CASE Die(c)
    BY <1>3, <2>1, <2>7, GateAssumption DEF Die, LeaseOutlives, GateIsTyped, Phases, redis
  <2>. QED BY <2>2, <2>3, <2>4, <2>5, <2>6, <2>7
<1>5. ASSUME mode = "local" PROVE FALSE
  BY <1>5 DEF GateInv, HoldsSemaphore, Ask, Read, Leave, SendRelease, Lose, Die
<1> QED
  BY <1>1, <1>2, <1>3, <1>4, <1>5 DEF GateInv, GateIsTyped

\* Redis executes a command: it admits only while there is room, and what it releases belongs to
\* a caller that has gone.
LEMMA RedisMoves ==
  ASSUME GateInv, NEW c \in Calls, Admit(c) \/ Release(c)
  PROVE  GateInv'
<1>1. mode' = mode /\ GateIsTyped /\ mode = "redis" /\ LeaseOutlives(c)
  BY DEF GateInv, GateIsTyped, HoldsSemaphore, Admit, Release
<1>2. Verdict(c) \in Replies \ {"none"} /\ (Verdict(c) = "admitted" => Cardinality(Held) < Limit)
  BY DEF Verdict, Replies
<1>3. Full \in Nat /\ Full > Reply + RunTime
  BY GateAssumption DEF Full
<1>4. CASE Admit(c)
  <2>1. /\ lease' = [lease EXCEPT ![c] = IF Verdict(c) = "admitted" THEN Full ELSE @]
        /\ answer' = [answer EXCEPT ![c] = IF phase[c] = "asking" THEN Verdict(c) ELSE "none"]
        /\ command' = [command EXCEPT ![c] = "none"] /\ command[c] # "none"
        /\ UNCHANGED <<mode, client, releasing>>
    BY <1>4 DEF Admit
  <2>2. GateIsTyped'
    BY <1>1, <1>2, <1>3, <2>1 DEF GateIsTyped, client, Replies
  <2>3. Cardinality(Held') <= Limit
    BY <1>1, <1>2, <2>1, <2>2, HeldWithinLimit DEF GateIsTyped
  <2>4. ASSUME NEW d \in Calls PROVE LeaseOutlives(d)'
    <3>1. LeaseOutlives(d)
      BY <1>1 DEF GateInv
    <3>2. CASE d = c
      BY <1>1, <1>2, <1>3, <2>1, <2>2, <3>2, GateAssumption DEF LeaseOutlives, GateIsTyped, client
    <3>3. CASE d # c
      BY <1>1, <2>1, <3>1, <3>3 DEF LeaseOutlives, GateIsTyped, client
    <3>. QED BY <3>2, <3>3
  <2>. QED BY <1>1, <2>2, <2>3, <2>4 DEF GateInv
<1>5. CASE Release(c)
  <2>1. /\ lease' = [lease EXCEPT ![c] = 0] /\ releasing' = [releasing EXCEPT ![c] = FALSE] /\ phase[c] = "idle"
        /\ UNCHANGED <<mode, client, command, answer>>
    BY <1>1, <1>5 DEF Release, LeaseOutlives
  <2>2. GateIsTyped'
    BY <1>1, <2>1 DEF GateIsTyped, client
  <2>3. Cardinality(Held') <= Limit
    BY <1>1, <2>1, <2>2, HeldWithinLimit DEF GateIsTyped
  <2>4. ASSUME NEW d \in Calls PROVE LeaseOutlives(d)'
    BY <1>1, <2>1 DEF LeaseOutlives, GateIsTyped, GateInv, client
  <2>. QED BY <1>1, <2>2, <2>3, <2>4 DEF GateInv
<1> QED
  BY <1>4, <1>5

\* The semaphore of one event loop.
LEMMA LoopMoves ==
  ASSUME GateInv, NEW c \in Calls, Enter(c) \/ Acquire(c) \/ Exit(c)
  PROVE  GateInv'
<1>1. mode' = mode /\ GateIsTyped /\ mode = "local"
  BY DEF GateInv, GateIsTyped, LeaseOutlives, Enter, Acquire, Exit
<1>2. GateIsTyped'
  <2>1. /\ UNCHANGED <<mode, patience, command, releasing, answer>>
        /\ \E to \in Phases, n \in {Wait, RunTime, 0} :
             phase' = [phase EXCEPT ![c] = to] /\ timer' = [timer EXCEPT ![c] = n]
        /\ lease' = lease \/ \E n \in {Full, 0} : lease' = [lease EXCEPT ![c] = n]
    BY DEF Enter, Acquire, Exit, Phases
  <2>. QED BY <1>1, <2>1, GateAssumption DEF GateIsTyped, Full
<1>3. Cardinality(Held') <= Limit
  <2>1. lease' \in [Calls -> Nat] /\ lease \in [Calls -> Nat]
    BY <1>1, <1>2 DEF GateIsTyped
  <2>2. ASSUME NEW d \in Calls, d # c PROVE lease'[d] = lease[d]
    BY <2>1, <2>2 DEF Enter, Acquire, Exit
  <2>3. lease'[c] > 0 => lease[c] > 0 \/ Cardinality(Held) < Limit
    BY <2>1 DEF Enter, Acquire, Exit
  <2>. QED BY <2>1, <2>2, <2>3, HeldWithinLimit
<1>4. ASSUME NEW d \in Calls PROVE HoldsSemaphore(d)'
  BY <1>1, GateAssumption DEF GateInv, GateIsTyped, HoldsSemaphore, Enter, Acquire, Exit, Full
<1> QED
  BY <1>1, <1>2, <1>3, <1>4 DEF GateInv

\* Time passes for a lease as it does for what it is for.
LEMMA TimePasses == ASSUME GateInv, Tick PROVE GateInv'
<1>1. GateIsTyped /\ GateIsTyped' /\ mode' = mode /\ \A c \in Calls : lease'[c] <= lease[c]
  <2>1. \A n \in Nat : Less(n) \in Nat /\ Less(n) <= n
    BY DEF Less
  <2>2. GateIsTyped /\ mode' = mode
    BY DEF GateInv, Tick
  <2>3. GateIsTyped'
    BY <2>1, <2>2 DEF GateIsTyped, Tick
  <2>4. ASSUME NEW c \in Calls PROVE lease'[c] <= lease[c]
    BY <2>1, <2>2 DEF GateIsTyped, Tick
  <2>. QED BY <2>2, <2>3, <2>4
<1>2. Cardinality(Held') <= Limit
  <2>1. Held' \subseteq Held /\ IsFiniteSet(Held)
    BY <1>1, GateAssumption, FS_Subset DEF Held, GateIsTyped
  <2>2. Cardinality(Held') <= Cardinality(Held) /\ Cardinality(Held') \in Nat /\ Cardinality(Held) \in Nat
    BY <2>1, FS_Subset, FS_CardinalityType
  <2>. QED BY <2>2, GateAssumption DEF GateInv
<1>3. ASSUME NEW c \in Calls, mode = "redis" PROVE LeaseOutlives(c)'
  <2>1. LeaseOutlives(c) /\ ~Overdue(c)
    BY <1>3 DEF GateInv, Tick
  <2>. QED BY <1>1, <1>3, <2>1, GateAssumption DEF LeaseOutlives, GateIsTyped, Tick, Less, Overdue
<1>4. ASSUME NEW c \in Calls, mode = "local" PROVE HoldsSemaphore(c)'
  BY <1>4 DEF GateInv, HoldsSemaphore, Tick
<1> QED
  BY <1>1, <1>2, <1>3, <1>4 DEF GateInv, GateIsTyped

\* The invariant holds in every behaviour.
THEOREM GateHolds == GateSpec => []GateInv
<1>1. GateInv /\ [GateNext]_gateVars => GateInv'
  <2> SUFFICES ASSUME GateInv, [GateNext]_gateVars PROVE GateInv'
    OBVIOUS
  <2>1. CASE GateNext
    BY <2>1, CallersMove, RedisMoves, LoopMoves, TimePasses DEF GateNext
  <2>2. CASE UNCHANGED gateVars
    BY <2>2 DEF gateVars, client, redis, GateInv, GateIsTyped, Held, LeaseOutlives, HoldsSemaphore
  <2> QED
    BY <2>1, <2>2
<1> QED
  BY <1>1, GateBegins, PTL DEF GateSpec

\* The provider never sees more calls at a time than the limit, for any number of callers, any
\* limits and times, if a lease is granted longer than a reply may take (core/model_gate.py).
THEOREM ProviderIsSpared == GateSpec => []ProviderLimit
<1>1. ASSUME GateInv PROVE ProviderLimit
  <2>1. Executing \subseteq Held
    BY <1>1 DEF GateInv, GateIsTyped, LeaseOutlives, HoldsSemaphore, Executing, Held
  <2>2. IsFiniteSet(Held) /\ Cardinality(Held) <= Limit
    BY <1>1, GateAssumption, FS_Subset DEF Held, GateInv
  <2>3. Cardinality(Executing) <= Cardinality(Held) /\ Cardinality(Executing) \in Nat /\ Cardinality(Held) \in Nat
    BY <2>1, <2>2, FS_Subset, FS_CardinalityType
  <2>. QED BY <2>2, <2>3, GateAssumption DEF ProviderLimit
<1> QED
  BY <1>1, GateHolds, PTL

\* Of two that wait one came first; who waits for the semaphore is in the queue.
InTurn ==
  /\ \A c, d \in queue : c # d => <<c, d>> \in ahead \/ <<d, c>> \in ahead
  /\ mode = "local" => \A c \in Calls : phase[c] = "waiting" => c \in queue

\* Who came first among some of those that wait.
LEMMA LeftInTurn ==
  ASSUME NEW some, some \subseteq queue, InTurn, NEW c \in some, NEW d \in some, c # d
  PROVE  <<c, d>> \in Left(some) \/ <<d, c>> \in Left(some)
BY DEF InTurn, Left

\* A newcomer comes last, and nobody else's turn changes.
LEMMA JoinedInTurn ==
  ASSUME InTurn, NEW c
  PROVE  /\ \A d, e \in Queueing : d # e => <<d, e>> \in Joined(c) \/ <<e, d>> \in Joined(c)
         /\ \A d \in Queueing : d # c => <<c, d>> \in Joined(c) \/ <<d, c>> \in Joined(c)
<1>1. Queueing \subseteq queue
  BY DEF Queueing
<1>2. \A d, e \in Queueing : d # e => <<d, e>> \in Left(Queueing) \/ <<e, d>> \in Left(Queueing)
  BY <1>1, LeftInTurn
<1> QED BY <1>2 DEF Joined

\* Every step of a caller keeps the order of those that wait.
LEMMA TurnsStay == GateInv /\ InTurn /\ [GateNext]_gateVars => InTurn'
<1> SUFFICES ASSUME GateInv, InTurn, [GateNext]_gateVars PROVE InTurn'
  OBVIOUS
<1>1. GateIsTyped /\ \A c \in Calls : mode = "local" => HoldsSemaphore(c)
  BY DEF GateInv, GateIsTyped
<1>2. ASSUME NEW c \in Calls, Ask(c) \/ Read(c) \/ Leave(c) \/ SendRelease(c) \/ Lose(c) \/ Die(c) PROVE InTurn'
  <2>1. queue' = queue /\ ahead' = ahead /\ mode' = mode /\ mode # "local"
    BY <1>1, <1>2 DEF Ask, Read, Leave, SendRelease, Lose, Die, redis, HoldsSemaphore
  <2> QED BY <2>1 DEF InTurn
<1>3. ASSUME NEW c \in Calls, Admit(c) PROVE InTurn'
  <2>1. mode' = mode /\ mode # "local"
    BY <1>1, <1>3 DEF Admit, HoldsSemaphore
  <2>2. Queueing \subseteq queue
    BY DEF Queueing
  <2>3. \/ queue' = queue /\ ahead' = ahead
        \/ queue' = Queueing \union {c} /\ ahead' = Joined(c)
        \/ queue' \subseteq Queueing /\ ahead' = Left(queue')
    BY <1>3 DEF Admit
  <2>4. \A d, e \in queue' : d # e => <<d, e>> \in ahead' \/ <<e, d>> \in ahead'
    <3>1. CASE queue' = queue /\ ahead' = ahead
      BY <3>1 DEF InTurn
    <3>2. CASE queue' = Queueing \union {c} /\ ahead' = Joined(c)
      BY <3>2, JoinedInTurn
    <3>3. CASE queue' \subseteq Queueing /\ ahead' = Left(queue')
      <4> DEFINE some == queue'
      <4>1. some \subseteq queue /\ ahead' = Left(some)
        BY <2>2, <3>3
      <4> HIDE DEF some
      <4>2. \A d, e \in some : d # e => <<d, e>> \in ahead' \/ <<e, d>> \in ahead'
        BY <4>1 DEF InTurn, Left
      <4> QED BY <4>2 DEF some
    <3> QED BY <2>3, <3>1, <3>2, <3>3
  <2> QED BY <2>1, <2>4 DEF InTurn
<1>4. ASSUME NEW c \in Calls, Release(c) \/ Acquire(c) \/ Exit(c) PROVE InTurn'
  <2>1. queue' = queue \ {c} /\ ahead' = Left(queue \ {c}) /\ mode' = mode
    BY <1>4 DEF Release, Acquire, Exit
  <2>2. \A d, e \in queue \ {c} : d # e => <<d, e>> \in Left(queue \ {c}) \/ <<e, d>> \in Left(queue \ {c})
    BY DEF InTurn, Left
  <2>3. ASSUME mode = "local", NEW d \in Calls, phase'[d] = "waiting" PROVE d # c /\ phase[d] = "waiting"
    BY <1>1, <1>4, <2>3 DEF GateIsTyped, HoldsSemaphore, Release, Acquire, Exit
  <2> QED BY <2>1, <2>2, <2>3 DEF InTurn
<1>5. ASSUME NEW c \in Calls, Enter(c) PROVE InTurn'
  <2>1. queue' = queue \union {c} /\ ahead' = ahead \union (queue \X {c}) /\ mode' = mode
        /\ phase' = [phase EXCEPT ![c] = "waiting"]
    BY <1>5 DEF Enter
  <2>2. \A d, e \in queue' : d # e => <<d, e>> \in ahead' \/ <<e, d>> \in ahead'
    BY <2>1 DEF InTurn
  <2>3. \A d \in Calls : d # c => phase'[d] = phase[d]
    BY <1>1, <2>1 DEF GateIsTyped
  <2> QED BY <2>1, <2>2, <2>3 DEF InTurn
<1>6. CASE Tick
  BY <1>6 DEF InTurn, Tick
<1>7. CASE UNCHANGED gateVars
  BY <1>7 DEF InTurn, gateVars, client, redis
<1> QED BY <1>2, <1>3, <1>4, <1>5, <1>6, <1>7 DEF GateNext

\* Who is admitted is the first of those that still wait.
LEMMA FirstIsAdmitted ==
  ASSUME GateInv, InTurn, [GateNext]_gateVars, NEW c \in Calls, NEW d \in Calls, c # d,
         lease[c] = 0, lease'[c] > 0, StillWaits(d)
  PROVE  <<c, d>> \in ahead /\ <<d, c>> \notin ahead
<1>1. GateIsTyped /\ lease[c] \in Nat /\ \A e \in Calls : mode = "local" => HoldsSemaphore(e)
  BY DEF GateInv, GateIsTyped
<1>2. PICK e \in Calls : Admit(e) \/ Acquire(e)
  <2>1. ASSUME NEW e \in Calls, Ask(e) \/ Read(e) \/ Leave(e) \/ SendRelease(e) \/ Lose(e) \/ Die(e) \/ Enter(e)
        PROVE  lease' = lease
    BY <2>1 DEF Ask, Read, Leave, SendRelease, Lose, Die, Enter, redis
  <2>2. ASSUME NEW e \in Calls, Release(e) \/ Exit(e) PROVE lease'[c] = 0
    <3>1. lease' = [lease EXCEPT ![e] = 0]
      BY <2>2 DEF Release, Exit
    <3> QED BY <1>1, <3>1 DEF GateIsTyped
  <2>3. CASE Tick
    BY <1>1, <2>3 DEF Tick, Less
  <2>4. CASE UNCHANGED gateVars
    BY <2>4 DEF gateVars, redis
  <2> QED BY <1>1, <2>1, <2>2, <2>3, <2>4 DEF GateNext
<1>3. CASE Admit(e)
  <2>1. mode # "local" /\ mode = "redis"
    BY <1>1, <1>3 DEF Admit, HoldsSemaphore, GateIsTyped
  <2>2. e = c /\ Verdict(c) = "admitted"
    <3>1. lease' = [lease EXCEPT ![e] = IF Verdict(e) = "admitted" THEN Full ELSE @]
      BY <1>3 DEF Admit
    <3> QED BY <1>1, <3>1 DEF GateIsTyped
  <2>3. \A q \in Queueing : <<q, c>> \notin Joined(c)
    BY <2>2 DEF Verdict
  <2>4. d \in Queueing /\ Queueing \subseteq queue
    BY <2>1 DEF StillWaits, Queueing
  <2>5. c \in Queueing
    BY <2>3, <2>4 DEF Joined
  <2>6. <<d, c>> \notin Left(Queueing)
    BY <2>3, <2>4 DEF Joined
  <2> QED BY <2>4, <2>5, <2>6 DEF Left, InTurn
<1>4. CASE Acquire(e)
  <2>1. mode = "local" /\ e = c
    <3>1. lease' = [lease EXCEPT ![e] = Full] /\ phase[e] = "waiting"
      BY <1>4 DEF Acquire
    <3>2. mode = "local"
      BY <3>1 DEF GateInv, GateIsTyped, LeaseOutlives
    <3> QED BY <1>1, <3>1, <3>2 DEF GateIsTyped
  <2>2. c \in queue /\ d \in queue /\ <<d, c>> \notin ahead
    BY <1>4, <2>1 DEF InTurn, StillWaits, Acquire
  <2> QED BY <2>2 DEF InTurn
<1> QED BY <1>2, <1>3, <1>4

\* Those that wait are in the order in which they came, in every behaviour.
LEMMA TurnsHold == GateSpec => []InTurn
<1>1. GateInit => InTurn
  BY DEF GateInit, InTurn
<1> QED BY <1>1, TurnsStay, GateHolds, PTL DEF GateSpec

\* Nobody is admitted by the gate while a caller that came before it still waits for its turn,
\* for any number of callers, whatever is lost, late, or sent by one that has died
\* (core/model_gate.py, ADMIT).
THEOREM NobodyJumpsTheQueue == GateSpec => NobodyOvertakes
<1> DEFINE Fair ==
      \A c, d \in Calls :
        (c # d /\ lease[c] = 0 /\ lease'[c] > 0 /\ StillWaits(d))
          => <<c, d>> \in ahead /\ <<d, c>> \notin ahead
<1>1. GateInv /\ InTurn /\ [GateNext]_gateVars => [Fair]_gateVars
  BY FirstIsAdmitted
<1> HIDE DEF Fair
<1>2. GateSpec => [][Fair]_gateVars
  BY <1>1, GateHolds, TurnsHold, PTL DEF GateSpec
<1> QED BY <1>2 DEF NobodyOvertakes, Fair

--------------------------------------------------------------------------------
(* The migration of the knowledge base *)

\* The documents of the old collection, and what a service remembers.
OldDocuments == ToSet(Legacy) \union Added
ServiceRow ==
  [at : {"starting", "counting", "reading", "comparing", "copying", "checking", "recording",
         "defaults", "writing", "replacing", "ready"},
   expected : Nat, offset : Nat, page : SUBSET OldDocuments, missing : SUBSET OldDocuments,
   shrunk : BOOLEAN, copied : SUBSET OldDocuments]

\* What is found in the new collection, or is not to be found there.
Safe == new \union Retired \union Replaced

\* A service that copies what did not shrink has what it passed, and holds the page it is at;
\* one that is about to record finds what it promises, and one that has written the defaults
\* finds them.
Carried(row) ==
  /\ Copying(row) /\ ~row.shrunk =>
       /\ row.expected <= Len(old)
       /\ \A i \in DOMAIN old : i <= row.offset /\ i <= row.expected => old[i] \in Safe
       /\ row.at # "reading" =>
            \A i \in DOMAIN old : row.offset < i /\ i <= row.offset + PageSize /\ i <= row.expected
                                    => old[i] \in row.page
  /\ row.copied \subseteq Safe
  /\ row.at \in {"replacing", "ready"} => Defaults \subseteq new

\* The inductive invariant.
MigrationInv ==
  /\ old \in Seq(OldDocuments) /\ service \in [Services -> ServiceRow] /\ promised \subseteq Safe
  /\ \A p \in Services : Carried(service[p])
  /\ (\A p \in Services : service[p].at = "ready") => new \intersect Replaced = {}

\* What a service is at when it starts, or starts anew.
LEMMA StartingFits ==
  /\ Starting \in ServiceRow /\ Carried(Starting) /\ Starting.at = "starting"
  /\ Starting = [at |-> "starting", expected |-> 0, offset |-> 0, page |-> {}, missing |-> {},
                 shrunk |-> FALSE, copied |-> {}]
BY DEF Starting, ServiceRow, Carried, Copying

\* At first every service starts, and nothing is promised.
LEMMA MigrationBegins == KnowledgeInit => MigrationInv
<1> SUFFICES ASSUME KnowledgeInit PROVE MigrationInv
  OBVIOUS
<1>2. service \in [Services -> ServiceRow] /\ \A p \in Services : service[p] = Starting
  BY StartingFits DEF KnowledgeInit
<1>3. old \in Seq(OldDocuments) /\ promised \subseteq Safe
  BY MigrationAssumption DEF KnowledgeInit, OldDocuments
<1>4. ~\A p \in Services : service[p].at = "ready"
  BY <1>2, StartingFits, MigrationAssumption
<1> QED
  BY <1>2, <1>3, <1>4, StartingFits DEF MigrationInv

\* The size of a page is a number.
LEMMA PagesAreNumbers == PageSize \in Nat
BY MigrationAssumption

\* The smaller of two numbers.
LEMMA MinOfTwo ==
  ASSUME NEW a \in Nat, NEW b \in Nat
  PROVE  Min({a, b}) = IF a <= b THEN a ELSE b
BY DEF Min

\* A page has the next documents, as far as the collection goes.
LEMMA PageHolds ==
  ASSUME MigrationInv, NEW p \in Services
  PROVE  /\ PageAt(service[p].offset) \subseteq OldDocuments
         /\ \A i \in DOMAIN old : service[p].offset < i /\ i <= service[p].offset + PageSize
                                    => old[i] \in PageAt(service[p].offset)
<1>. DEFINE o == service[p].offset
            n == Min({o + PageSize, Len(old)})
            page == SubSeq(old, o + 1, n)
<1>1. o \in Nat /\ old \in Seq(OldDocuments) /\ Len(old) \in Nat /\ DOMAIN old = 1..Len(old)
  BY DEF MigrationInv, ServiceRow
<1>2. n = IF o + PageSize <= Len(old) THEN o + PageSize ELSE Len(old)
  BY <1>1, MinOfTwo, PagesAreNumbers
<1>. HIDE DEF page, n, o
<1>3. /\ n \in Nat /\ n <= Len(old)
      /\ \A i \in DOMAIN old : o < i /\ i <= o + PageSize => i <= n
  <2>. DEFINE len == Len(old)
              up == o + PageSize
  <2>1. len \in Nat /\ up \in Nat
    BY <1>1, PagesAreNumbers
  <2>2. n = (IF up <= len THEN up ELSE len)
    BY <1>2
  <2>3. DOMAIN old = 1..len
    BY <1>1
  <2>. HIDE DEF len, up
  <2>4. n \in Nat /\ n <= len /\ \A i \in 1..len : i <= up => i <= n
    BY <2>1, <2>2
  <2>. QED BY <2>3, <2>4 DEF len, up
<1>4. /\ DOMAIN page = 1..(IF o + 1 <= n THEN n - o ELSE 0)
      /\ \A j \in DOMAIN page : page[j] = old[o + j] /\ o + j \in DOMAIN old
  <2>1. \A i \in (o + 1)..n : old[i] \in OldDocuments
    BY <1>1, <1>3
  <2>2. /\ page \in Seq(OldDocuments) /\ Len(page) = IF o + 1 <= n THEN n - (o + 1) + 1 ELSE 0
        /\ \A i \in 1..(n - (o + 1) + 1) : page[i] = old[o + 1 + i - 1]
    BY <1>1, <1>3, <2>1, SubSeqProperties DEF page
  <2>. HIDE DEF page
  <2>3. DOMAIN page = 1..(IF o + 1 <= n THEN n - o ELSE 0)
    BY <1>1, <1>3, <2>2
  <2>4. ASSUME NEW j \in DOMAIN page PROVE page[j] = old[o + j] /\ o + j \in DOMAIN old
    <3>1. o + 1 <= n /\ j \in 1..(n - o)
      BY <1>1, <1>3, <2>3
    <3>2. o + 1 + j - 1 = o + j /\ j \in 1..(n - (o + 1) + 1)
      BY <1>1, <1>3, <3>1
    <3>3. o + j \in 1..Len(old)
      BY <1>1, <1>3, <3>1
    <3>. QED BY <1>1, <2>2, <3>2, <3>3
  <2>. QED BY <2>3, <2>4
<1>. HIDE DEF page
<1>5. ToSet(page) \subseteq OldDocuments
  BY <1>1, <1>4 DEF ToSet
<1>6. ASSUME NEW i \in DOMAIN old, o < i, i <= o + PageSize PROVE old[i] \in ToSet(page)
  <2>1. i - o \in DOMAIN page /\ page[i - o] = old[i]
    BY <1>1, <1>3, <1>4, <1>6
  <2>. QED BY <2>1 DEF ToSet
<1> QED
  BY <1>5, <1>6 DEF PageAt, page, n, o

\* A service goes on without writing into either collection.
LEMMA ServiceMoves ==
  ASSUME MigrationInv, NEW p \in Services, NEW row \in ServiceRow, Carried(row), row.at # "ready",
         service' = [service EXCEPT ![p] = row], UNCHANGED <<old, new>>, promised' \subseteq Safe
  PROVE  MigrationInv'
<1>1. service \in [Services -> ServiceRow] /\ service' \in [Services -> ServiceRow] /\ service'[p] = row
  BY DEF MigrationInv
<1>2. ASSUME NEW q \in Services PROVE Carried(service[q])'
  <2>1. Carried(service'[q])
    BY <1>1 DEF MigrationInv
  <2>. QED BY <2>1 DEF Carried, Safe, Copying
<1> QED
  BY <1>1, <1>2 DEF MigrationInv, Safe

\* The new collection loses only what is retired or replaced, and a service goes on.
LEMMA CollectionMoves ==
  ASSUME MigrationInv, NEW p \in Services, NEW at,
         [service[p] EXCEPT !.at = at] \in ServiceRow, ServiceGoes(p, at), UNCHANGED <<old, promised>>,
         new \subseteq new' \union Retired \union Replaced, at # "reading",
         at \in {"comparing", "copying", "checking"} => service[p].at \in {"comparing", "copying", "checking"},
         at \in {"replacing", "ready"} => Defaults \subseteq new', at = "ready" => new' \intersect Replaced = {}
  PROVE  MigrationInv'
<1>. DEFINE row == [service[p] EXCEPT !.at = at]
<1>1. /\ service \in [Services -> ServiceRow] /\ service' \in [Services -> ServiceRow] /\ service'[p] = row
      /\ \A q \in Services : q # p => service'[q] = service[q]
  BY DEF MigrationInv, ServiceGoes
<1>2. /\ row.at = at /\ row.expected = service[p].expected /\ row.offset = service[p].offset
      /\ row.page = service[p].page /\ row.shrunk = service[p].shrunk /\ row.copied = service[p].copied
  BY <1>1 DEF ServiceRow
<1>. HIDE DEF row
<1>3. Safe \subseteq Safe' /\ (Defaults \subseteq new => Defaults \subseteq new')
  BY MigrationAssumption DEF Safe
<1>4. ASSUME NEW q \in Services PROVE Carried(service[q])'
  <2>1. Carried(service[q]) /\ old' = old
    BY DEF MigrationInv
  <2>2. CASE q = p
    BY <1>1, <1>2, <1>3, <2>1, <2>2 DEF Carried, Copying
  <2>3. CASE q # p
    BY <1>1, <1>3, <2>1, <2>3 DEF Carried, Copying
  <2>. QED BY <2>2, <2>3
<1>5. (\A q \in Services : service'[q].at = "ready") => new' \intersect Replaced = {}
  BY <1>1, <1>2
<1>6. promised' \subseteq Safe' /\ old' \in Seq(OldDocuments)
  BY <1>3 DEF MigrationInv
<1> QED
  BY <1>1, <1>4, <1>5, <1>6 DEF MigrationInv

\* The page that was read is there: the next one.
LEMMA PageDone ==
  ASSUME MigrationInv, NEW p \in Services, service[p].at \in {"comparing", "checking"},
         service[p].page \subseteq new, NextPage(p), UNCHANGED <<old, new, promised>>
  PROVE  MigrationInv'
<1>. DEFINE m == service[p]
            o == m.offset + PageSize
            row == [m EXCEPT !.at = "reading", !.offset = o, !.page = {}, !.missing = {}]
<1>1. m \in ServiceRow /\ Carried(m) /\ Copying(m) /\ promised \subseteq Safe
  BY DEF MigrationInv, Copying
<1>2. o \in Nat
  BY <1>1, PagesAreNumbers DEF ServiceRow
<1>3. service' = [service EXCEPT ![p] = row]
  BY DEF NextPage
<1>. HIDE DEF o
<1>4. /\ row \in ServiceRow /\ row.at = "reading" /\ row.offset = o /\ row.expected = m.expected
      /\ row.shrunk = m.shrunk /\ row.copied = m.copied
  BY <1>1, <1>2 DEF ServiceRow
<1>. HIDE DEF row
<1>5. ASSUME ~m.shrunk PROVE m.expected <= Len(old) /\ \A i \in DOMAIN old : i <= o /\ i <= m.expected => old[i] \in Safe
  <2>1. /\ m.expected <= Len(old) /\ m.at # "reading"
        /\ \A i \in DOMAIN old : i <= m.offset /\ i <= m.expected => old[i] \in Safe
        /\ \A i \in DOMAIN old : m.offset < i /\ i <= m.offset + PageSize /\ i <= m.expected => old[i] \in m.page
    BY <1>1, <1>5 DEF Carried
  <2>2. \A i \in DOMAIN old : i \in Int /\ (i <= m.offset \/ m.offset < i)
    <3>1. DOMAIN old = 1..Len(old) /\ Len(old) \in Nat /\ m.offset \in Nat
      BY <1>1 DEF MigrationInv, ServiceRow
    <3>. QED BY <3>1
  <2>. QED BY <2>1, <2>2 DEF o, Safe
<1>6. Carried(row)
  BY <1>1, <1>4, <1>5 DEF Carried, Copying
<1> QED
  BY <1>1, <1>3, <1>4, <1>6, ServiceMoves

\* A service counts, reads and records.
LEMMA PagesPass ==
  ASSUME MigrationInv, NEW p \in Services,
         \/ OpenCollection(p) \/ CountLegacy(p) \/ ReadPage(p) \/ ComparePage(p) \/ CheckPage(p)
         \/ CountAgain(p) \/ RecordCopied(p)
  PROVE  MigrationInv'
<1>. DEFINE m == service[p]
<1>1. m \in ServiceRow /\ Carried(m) /\ old \in Seq(OldDocuments) /\ Len(old) \in Nat /\ promised \subseteq Safe
  BY DEF MigrationInv
<1>2. UNCHANGED <<old, new>>
  BY DEF OpenCollection, CountLegacy, ReadPage, ComparePage, CheckPage, CountAgain, RecordCopied
<1>3. m.copied \subseteq Safe /\ m.copied \subseteq OldDocuments /\ m.expected \in Nat /\ m.offset \in Nat
  BY <1>1 DEF Carried, ServiceRow
<1>4. CASE OpenCollection(p)
  <2>. DEFINE at == IF record THEN "defaults" ELSE "counting"
              row == [m EXCEPT !.at = at]
  <2>1. row \in ServiceRow /\ row.at = at /\ row.copied = m.copied
    BY <1>1 DEF ServiceRow
  <2>2. service' = [service EXCEPT ![p] = row] /\ promised' = promised
    BY <1>4 DEF OpenCollection, ServiceGoes
  <2>3. at \in {"defaults", "counting"}
    OBVIOUS
  <2>. HIDE DEF row, at
  <2>. QED BY <1>1, <1>2, <1>3, <2>1, <2>2, <2>3, ServiceMoves DEF Carried, Copying
<1>5. CASE CountLegacy(p)
  <2>. DEFINE at == IF exists THEN "reading" ELSE "recording"
              row == [Starting EXCEPT !.at = at, !.expected = Len(old)]
  <2>1. /\ row \in ServiceRow /\ row.at = at /\ row.expected = Len(old) /\ row.offset = 0 /\ row.copied = {}
    BY <1>1, StartingFits DEF ServiceRow
  <2>2. service' = [service EXCEPT ![p] = row] /\ promised' = promised
    BY <1>5 DEF CountLegacy
  <2>3. at \in {"reading", "recording"}
    OBVIOUS
  <2>. HIDE DEF row, at
  <2>4. Carried(row)
    BY <1>1, <2>1, <2>3 DEF Carried, Copying
  <2>. QED BY <1>1, <1>2, <2>1, <2>2, <2>3, <2>4, ServiceMoves
<1>6. CASE ReadPage(p)
  <2>. DEFINE page == PageAt(m.offset)
              row == [m EXCEPT !.at = "comparing", !.page = page]
  <2>1. page \subseteq OldDocuments /\ \A i \in DOMAIN old : m.offset < i /\ i <= m.offset + PageSize => old[i] \in page
    BY PageHolds
  <2>2. service' = [service EXCEPT ![p] = row] /\ promised' = promised /\ m.at = "reading"
    BY <1>6 DEF ReadPage
  <2>. HIDE DEF page
  <2>3. /\ row \in ServiceRow /\ row.at = "comparing" /\ row.page = page /\ row.offset = m.offset
        /\ row.expected = m.expected /\ row.shrunk = m.shrunk /\ row.copied = m.copied
    BY <1>1, <2>1 DEF ServiceRow
  <2>. HIDE DEF row
  <2>4. Carried(row)
    BY <1>1, <2>1, <2>2, <2>3 DEF Carried, Copying
  <2>. QED BY <1>1, <1>2, <2>2, <2>3, <2>4, ServiceMoves
<1>7. CASE ComparePage(p)
  <2>1. CASE m.page \ new = {}
    BY <1>2, <1>7, <2>1, PageDone DEF ComparePage
  <2>2. CASE m.page \ new # {}
    <3>. DEFINE missing == m.page \ new
                row == [m EXCEPT !.at = "copying", !.missing = missing]
    <3>1. service' = [service EXCEPT ![p] = row] /\ promised' = promised /\ m.at = "comparing"
      BY <1>7, <2>2 DEF ComparePage
    <3>2. missing \subseteq OldDocuments
      BY <1>1 DEF ServiceRow
    <3>. HIDE DEF missing
    <3>3. /\ row \in ServiceRow /\ row.at = "copying" /\ row.page = m.page /\ row.offset = m.offset
          /\ row.expected = m.expected /\ row.shrunk = m.shrunk /\ row.copied = m.copied
      BY <1>1, <3>2 DEF ServiceRow
    <3>. HIDE DEF row
    <3>4. Carried(row)
      BY <1>1, <3>1, <3>3 DEF Carried, Copying
    <3>. QED BY <1>1, <1>2, <3>1, <3>3, <3>4, ServiceMoves
  <2>. QED BY <2>1, <2>2
<1>8. CASE CheckPage(p)
  <2>1. CASE m.page \subseteq new
    BY <1>2, <1>8, <2>1, PageDone DEF CheckPage
  <2>2. CASE ~(m.page \subseteq new)
    <3>1. service' = [service EXCEPT ![p] = Starting] /\ promised' = promised
      BY <1>8, <2>2 DEF CheckPage
    <3>. QED BY <1>1, <1>2, <3>1, StartingFits, ServiceMoves
  <2>. QED BY <2>1, <2>2
<1>9. CASE CountAgain(p)
  <2>1. CASE SameCount(p)
    <3>. DEFINE copied == IF m.shrunk THEN {} ELSE ToSet(old)
                row == [Starting EXCEPT !.at = "recording", !.copied = copied]
    <3>1. /\ service' = [service EXCEPT ![p] = row] /\ promised' = promised
          /\ m.at = "reading" /\ m.offset >= m.expected /\ Len(old) = m.expected
      BY <1>9, <2>1 DEF CountAgain, SameCount
    <3>2. copied \subseteq Safe /\ copied \subseteq OldDocuments
      <4>1. \A i \in DOMAIN old : i <= m.offset /\ i <= m.expected /\ old[i] \in OldDocuments
        BY <1>1, <1>3, <3>1
      <4>. QED BY <1>1, <3>1, <4>1 DEF Carried, ToSet, Copying
    <3>. HIDE DEF copied
    <3>3. row \in ServiceRow /\ row.at = "recording" /\ row.copied = copied
      BY <3>2, StartingFits DEF ServiceRow
    <3>. HIDE DEF row
    <3>. QED BY <1>1, <1>2, <3>1, <3>2, <3>3, ServiceMoves DEF Carried, Copying
  <2>2. CASE ~SameCount(p)
    <3>1. service' = [service EXCEPT ![p] = Starting] /\ promised' = promised
      BY <1>9, <2>2 DEF CountAgain
    <3>. QED BY <1>1, <1>2, <3>1, StartingFits, ServiceMoves
  <2>. QED BY <2>1, <2>2
<1>10. CASE RecordCopied(p)
  <2>. DEFINE row == [Starting EXCEPT !.at = "defaults"]
  <2>1. service' = [service EXCEPT ![p] = row] /\ promised' = promised \union m.copied
    BY <1>10 DEF RecordCopied
  <2>2. row \in ServiceRow /\ row.at = "defaults" /\ row.copied = {}
    BY StartingFits DEF ServiceRow
  <2>. HIDE DEF row
  <2>. QED BY <1>1, <1>2, <1>3, <2>1, <2>2, ServiceMoves DEF Carried, Copying
<1> QED
  BY <1>4, <1>5, <1>6, <1>7, <1>8, <1>9, <1>10

\* A service writes into the new collection, or takes out of it what it may.
LEMMA DocumentsMove ==
  ASSUME MigrationInv, NEW p \in Services, CopyPage(p) \/ DropRetired(p) \/ WriteDefaults(p) \/ DropReplaced(p)
  PROVE  MigrationInv'
<1>1. service[p] \in ServiceRow /\ Carried(service[p])
  BY DEF MigrationInv
<1>2. \A at \in {"checking", "writing", "replacing", "ready"} : [service[p] EXCEPT !.at = at] \in ServiceRow
  BY <1>1 DEF ServiceRow
<1>3. CASE CopyPage(p)
  BY <1>2, <1>3, CollectionMoves DEF CopyPage
<1>4. CASE DropRetired(p)
  BY <1>2, <1>4, CollectionMoves DEF DropRetired
<1>5. CASE WriteDefaults(p)
  BY <1>2, <1>5, CollectionMoves DEF WriteDefaults
<1>6. CASE DropReplaced(p)
  <2>1. Defaults \subseteq new \ Replaced
    BY <1>1, <1>6, MigrationAssumption DEF DropReplaced, Carried
  <2>. QED BY <1>2, <1>6, <2>1, CollectionMoves DEF DropReplaced
<1> QED
  BY <1>3, <1>4, <1>5, <1>6

\* What the old release adds comes at the end, beyond what a service expects.
LEMMA OldGrows == ASSUME MigrationInv, NEW d \in Added, OldReleaseAdds(d) PROVE MigrationInv'
<1>1. old' = Append(old, d) /\ UNCHANGED <<new, service, promised>> /\ old \in Seq(OldDocuments) /\ d \in OldDocuments
  BY DEF OldReleaseAdds, MigrationInv, OldDocuments
<1>2. /\ old' \in Seq(OldDocuments) /\ DOMAIN old = 1..Len(old) /\ DOMAIN old' = 1..(Len(old) + 1) /\ Len(old) \in Nat
      /\ \A i \in DOMAIN old : old'[i] = old[i]
  BY <1>1
<1>3. ASSUME NEW p \in Services PROVE Carried(service[p])'
  <2>. DEFINE m == service[p]
  <2>1. m \in ServiceRow /\ Carried(m) /\ m.copied \subseteq Safe
    BY DEF MigrationInv, Carried
  <2>2. ASSUME Copying(m), ~m.shrunk
        PROVE  /\ m.expected <= Len(old')
               /\ \A i \in DOMAIN old' : i <= m.offset /\ i <= m.expected => old'[i] \in Safe
               /\ m.at # "reading" =>
                    \A i \in DOMAIN old' : m.offset < i /\ i <= m.offset + PageSize /\ i <= m.expected => old'[i] \in m.page
    <3>1. m.expected <= Len(old) /\ m.expected \in Nat
      BY <2>1, <2>2 DEF Carried, ServiceRow
    <3>2. \A i \in DOMAIN old' : i <= m.expected => i \in DOMAIN old /\ old'[i] = old[i]
      BY <1>2, <3>1
    <3>3. Len(old') = Len(old) + 1
      BY <1>1
    <3>4. m.expected <= Len(old')
      BY <1>2, <3>1, <3>3
    <3>. QED BY <2>1, <2>2, <3>2, <3>4 DEF Carried
  <2>. QED BY <1>1, <2>1, <2>2 DEF Carried, Safe, Copying
<1> QED
  BY <1>1, <1>2, <1>3 DEF MigrationInv, Safe

\* What it removes is not promised by a service that has begun to copy.
LEMMA OldShrinks == ASSUME MigrationInv, OldReleaseRemoves PROVE MigrationInv'
<1>1. /\ UNCHANGED <<new, promised>> /\ old \in Seq(OldDocuments) /\ Len(old) \in Nat
      /\ service' = [p \in Services |-> [service[p] EXCEPT !.shrunk = @ \/ Copying(service[p])]]
  BY DEF OldReleaseRemoves, MigrationInv
<1>2. old' \in Seq(OldDocuments)
  <2>1. PICK i \in 1..Len(old) : old' = SubSeq(old, 1, i - 1) \o SubSeq(old, i + 1, Len(old))
    <3>1. PICK i \in DOMAIN old : old' = RemoveAt(old, i)
      BY DEF OldReleaseRemoves
    <3>2. i \in 1..Len(old)
      BY <1>1
    <3>. QED BY <3>1, <3>2 DEF RemoveAt
  <2>2. (\A k \in 1..(i - 1) : old[k] \in OldDocuments) /\ \A k \in (i + 1)..Len(old) : old[k] \in OldDocuments
    BY <1>1
  <2>3. SubSeq(old, 1, i - 1) \in Seq(OldDocuments)
    BY <1>1, <2>2, SubSeqProperties
  <2>4. SubSeq(old, i + 1, Len(old)) \in Seq(OldDocuments)
    BY <1>1, <2>2, SubSeqProperties
  <2>. QED BY <2>1, <2>3, <2>4, ConcatProperties
<1>3. ASSUME NEW p \in Services
      PROVE  /\ service'[p] \in ServiceRow /\ service'[p].at = service[p].at /\ service'[p].copied = service[p].copied
             /\ Copying(service[p]) => service'[p].shrunk
  <2>1. service[p] \in ServiceRow /\ Copying(service[p]) \in BOOLEAN
    BY DEF MigrationInv, Copying
  <2>2. service'[p] = [service[p] EXCEPT !.shrunk = service[p].shrunk \/ Copying(service[p])]
    BY <1>1
  <2>. QED BY <2>1, <2>2 DEF ServiceRow
<1>4. ASSUME NEW p \in Services PROVE Carried(service[p])'
  BY <1>1, <1>3 DEF Carried, Safe, Copying, MigrationInv
<1>5. service' \in [Services -> ServiceRow]
  BY <1>1, <1>3
<1> QED
  BY <1>1, <1>2, <1>3, <1>4, <1>5 DEF MigrationInv, Safe

\* The invariant holds in every behaviour.
THEOREM MigrationHolds == KnowledgeSpec => []MigrationInv
<1>1. MigrationInv /\ [KnowledgeNext]_knowledgeVars => MigrationInv'
  <2> SUFFICES ASSUME MigrationInv, [KnowledgeNext]_knowledgeVars PROVE MigrationInv'
    OBVIOUS
  <2>1. CASE \E p \in Services : \/ OpenCollection(p) \/ CountLegacy(p) \/ ReadPage(p) \/ ComparePage(p) \/ CheckPage(p)
                                 \/ CountAgain(p) \/ RecordCopied(p)
    BY <2>1, PagesPass
  <2>2. CASE \E p \in Services : CopyPage(p) \/ DropRetired(p) \/ WriteDefaults(p) \/ DropReplaced(p)
    BY <2>2, DocumentsMove
  <2>3. CASE \E p \in Services : Crash(p)
    <3>1. PICK p \in Services : service' = [service EXCEPT ![p] = Starting] /\ UNCHANGED <<old, new, promised>>
      BY <2>3 DEF Crash
    <3>. QED BY <3>1, StartingFits, ServiceMoves DEF MigrationInv
  <2>4. CASE \E d \in Added : OldReleaseAdds(d)
    BY <2>4, OldGrows
  <2>5. CASE OldReleaseRemoves
    BY <2>5, OldShrinks
  <2>6. CASE UNCHANGED knowledgeVars
    BY <2>6 DEF knowledgeVars, MigrationInv, Carried, Safe, Copying
  <2> QED
    BY <2>1, <2>2, <2>3, <2>4, <2>5, <2>6 DEF KnowledgeNext
<1> QED
  BY <1>1, MigrationBegins, PTL DEF KnowledgeSpec

\* Whatever services die and start again, and whatever the old release writes meanwhile: what
\* the record promises is in the new collection, and the defaults have replaced their
\* predecessors when every service has started (_open_cosine_collection).
THEOREM DocumentsAreCopied == KnowledgeSpec => []CopiedOnce
<1>1. MigrationInv => CopiedOnce
  BY MigrationAssumption DEF MigrationInv, Carried, Safe, CopiedOnce
<1> QED
  BY <1>1, MigrationHolds, PTL

--------------------------------------------------------------------------------
(* The jobs of the studio *)

\* The rows of the jobs, and what a worker is about.
JobKinds == {"text", "analysis", "image", "video"}
JobRow == [kind : JobKinds,
           status : {"none", "asked", "queued", "running", "submitted", "submission_unknown",
                     "succeeded", "failed", "cancelled", "blocked"},
           holder : StudioWorkers \union {NoWorker}, leased : BOOLEAN, attempts : Nat, known : BOOLEAN]
WorkerRow == [at : {"idle", "claiming", "ordering", "ordered", "asking", "storing"}, job : Nat, seen : Nat]

\* The types of the studio.
StudioIsTyped ==
  /\ IsFiniteSet(Jobs) /\ Jobs \subseteq Nat /\ jobs \in [Jobs -> JobRow]
  /\ studio \in [StudioWorkers -> WorkerRow]
  /\ billed \in [Jobs -> Nat] /\ outputs \in [Jobs -> Nat] /\ retries \in [Jobs -> Nat]

\* The workers that may still order a job.
Ordering(j) == {w \in StudioWorkers : studio[w].at = "ordering" /\ studio[w].job = j}
Expected(j) == Cardinality(Ordering(j))

\* A job of which n workers may place an order, which was ordered b times, stored o times and
\* retried t times: no order is placed for what has ended without one, and for each time a text
\* was asked for it was claimed twice at most.
Sound(row, n, b, o, t) ==
  /\ row.leased => row.status \in {"running", "submitted"}
  /\ row.status = "submitted" => row.known
  /\ row.known => row.kind = "video"
  /\ row.kind = "image" => row.status # "failed"
  /\ row.kind \in {"image", "video"} =>
       /\ n + b <= 1
       /\ row.status \in {"none", "asked", "queued"} \/ (row.status \in {"failed", "cancelled"} /\ ~row.known)
            => n = 0 /\ b = 0
  /\ row.kind \notin {"image", "video"} =>
       /\ n + b <= 2 * t + row.attempts /\ row.attempts <= 2
       /\ row.status = "queued" => row.attempts < 2
  /\ row.status \in {"none", "asked"} => row.attempts = 0
  /\ row.status = "asked" => row.kind = "image"
  /\ o = IF row.status = "succeeded" THEN 1 ELSE 0

\* A worker that claims a job has locked its row; what it asks for or stores of a video has a task.
Fits(m, rows) == m.at # "idle" =>
  /\ m.job \in Jobs
  /\ m.at = "claiming" => rows[m.job].status \in {"queued", "submitted"} /\ ~rows[m.job].leased
  /\ m.at = "asking" \/ (m.at = "storing" /\ rows[m.job].kind = "video") => rows[m.job].known

\* The inductive invariant.
StudioInv ==
  /\ StudioIsTyped
  /\ \A j \in Jobs : Sound(jobs[j], Expected(j), billed[j], outputs[j], retries[j])
  /\ \A w \in StudioWorkers : Fits(studio[w], jobs)
  /\ \A v, w \in StudioWorkers :
       v # w /\ studio[v].at = "claiming" /\ studio[w].at = "claiming" => studio[v].job # studio[w].job

\* At first nothing is asked, and every worker rests.
LEMMA StudioBegins == StudioInit => StudioInv
<1> SUFFICES ASSUME StudioInit PROVE StudioInv
  OBVIOUS
<1>1. PICK order \in Orders :
        jobs = [j \in DOMAIN order |-> [kind |-> order[j], status |-> "none", holder |-> NoWorker,
                                        leased |-> FALSE, attempts |-> 0, known |-> FALSE]]
  BY DEF StudioInit
<1>2. order \in Seq(JobKinds) /\ Jobs = 1..Len(order) /\ Len(order) \in Nat
  BY <1>1, StudioAssumption DEF JobKinds, Jobs
<1>3. IsFiniteSet(Jobs) /\ Jobs \subseteq Nat
  BY <1>2, FS_Interval
<1>4. jobs \in [Jobs -> JobRow]
  BY <1>1, <1>2 DEF JobRow
<1>5. AtRest \in WorkerRow /\ AtRest.at = "idle"
  BY DEF AtRest, WorkerRow
<1>6. StudioIsTyped
  BY <1>3, <1>4, <1>5 DEF StudioInit, StudioIsTyped
<1>7. \A j \in Jobs : Expected(j) = 0
  <2>1. \A j \in Jobs : Ordering(j) = {}
    BY <1>5 DEF StudioInit, Ordering
  <2>. QED BY <2>1, FS_EmptySet DEF Expected
<1>8. ASSUME NEW j \in Jobs PROVE Sound(jobs[j], Expected(j), billed[j], outputs[j], retries[j])
  <2>1. /\ jobs[j].status = "none" /\ ~jobs[j].leased /\ ~jobs[j].known /\ jobs[j].attempts = 0
        /\ billed[j] = 0 /\ outputs[j] = 0 /\ retries[j] = 0
    BY <1>1 DEF StudioInit, Jobs
  <2>. QED BY <1>7, <2>1 DEF Sound
<1>9. \A w \in StudioWorkers : studio[w].at = "idle"
  BY <1>5 DEF StudioInit
<1> QED
  BY <1>6, <1>8, <1>9 DEF StudioInv, Fits

\* Fewer workers that may order a job, and nothing else of it changes.
LEMMA FewerExpected ==
  ASSUME NEW row, NEW n \in Nat, NEW k \in Nat, NEW b \in Nat, NEW o, NEW t \in Nat, row.attempts \in Nat,
         Sound(row, n, b, o, t), k <= n
  PROVE  Sound(row, k, b, o, t)
BY DEF Sound

\* How a step of one worker changes who may order.
LEMMA OrderingMoves ==
  ASSUME StudioInv, NEW w \in StudioWorkers, NEW m \in WorkerRow, studio' = [studio EXCEPT ![w] = m], NEW k
  PROVE  /\ Expected(k) \in Nat /\ Expected(k)' \in Nat
         /\ ~(m.at = "ordering" /\ m.job = k) => Expected(k)' <= Expected(k)
         /\ Expected(k)' <= Expected(k) + 1
         /\ w \in Ordering(k) =>
              Expected(k) >= 1 /\ (~(m.at = "ordering" /\ m.job = k) => Expected(k)' = Expected(k) - 1)
<1>. DEFINE a == Ordering(k)
            b == Ordering(k)'
<1>1. /\ \A v \in StudioWorkers : v # w => studio'[v] = studio[v]
      /\ studio'[w] = m
  BY DEF StudioInv, StudioIsTyped
<1>2. b \subseteq a \union {w} /\ (~(m.at = "ordering" /\ m.job = k) => b = a \ {w})
  BY <1>1 DEF Ordering
<1>3. IsFiniteSet(a) /\ IsFiniteSet(b) /\ Cardinality(a) \in Nat /\ Cardinality(b) \in Nat
  BY StudioAssumption, FS_Subset, FS_CardinalityType DEF Ordering
<1>. HIDE DEF a, b
<1>4. IsFiniteSet(a \union {w}) /\ Cardinality(a \union {w}) <= Cardinality(a) + 1
  <2>1. /\ IsFiniteSet(a \union {w})
        /\ Cardinality(a \union {w}) = IF w \in a THEN Cardinality(a) ELSE Cardinality(a) + 1
    BY <1>3, FS_AddElement
  <2>. QED BY <1>3, <2>1
<1>5. IsFiniteSet(a \ {w}) /\ Cardinality(a \ {w}) = (IF w \in a THEN Cardinality(a) - 1 ELSE Cardinality(a))
  BY <1>3, FS_RemoveElement
<1>6. Cardinality(b) <= Cardinality(a) + 1
  BY <1>2, <1>3, <1>4, FS_Subset, FS_CardinalityType
<1>7. w \in a => Cardinality(a) >= 1
  BY <1>3, <1>5, FS_CardinalityType
<1> QED
  BY <1>2, <1>3, <1>5, <1>6, <1>7 DEF Expected, a, b

\* The other jobs keep their counts, and no more workers than before may order them.
OthersStay(j) ==
  /\ billed' \in [Jobs -> Nat] /\ outputs' \in [Jobs -> Nat] /\ retries' \in [Jobs -> Nat]
  /\ \A k \in Jobs : k # j =>
       /\ billed'[k] = billed[k] /\ outputs'[k] = outputs[k] /\ retries'[k] = retries[k]
       /\ Expected(k) \in Nat /\ Expected(k)' \in Nat /\ Expected(k)' <= Expected(k)

\* A worker goes on with what it is about, unless the job it claims changes; nobody starts to claim.
WorkersStay(j, row) ==
  /\ studio' \in [StudioWorkers -> WorkerRow]
  /\ \A v \in StudioWorkers :
       \/ studio'[v] = studio[v] /\ (row = jobs[j] \/ studio[v].at # "claiming" \/ studio[v].job # j)
       \/ studio'[v].at # "claiming" /\ Fits(studio'[v], jobs')

\* One job changes, and perhaps what one worker is about.
LEMMA JobMoves ==
  ASSUME StudioInv, NEW j \in Jobs, NEW row \in JobRow, jobs' = [jobs EXCEPT ![j] = row],
         row.kind = jobs[j].kind, jobs[j].known => row.known, OthersStay(j), WorkersStay(j, row),
         Sound(row, Expected(j)', billed'[j], outputs'[j], retries'[j])
  PROVE  StudioInv'
<1>1. /\ jobs \in [Jobs -> JobRow] /\ Jobs' = Jobs /\ jobs' \in [Jobs -> JobRow] /\ jobs'[j] = row
      /\ \A k \in Jobs : k # j => jobs'[k] = jobs[k]
  BY DEF StudioInv, StudioIsTyped, Jobs
<1>2. StudioIsTyped'
  BY <1>1 DEF StudioInv, StudioIsTyped, OthersStay, WorkersStay
<1>3. ASSUME NEW k \in Jobs PROVE Sound(jobs[k], Expected(k), billed[k], outputs[k], retries[k])'
  <2>1. CASE k = j
    BY <1>1, <2>1 DEF Sound
  <2>2. CASE k # j
    <3>1. Sound(jobs[k], Expected(k), billed[k], outputs[k], retries[k])
      BY DEF StudioInv
    <3>2. jobs[k].attempts \in Nat /\ billed[k] \in Nat /\ retries[k] \in Nat
      BY DEF StudioInv, StudioIsTyped, JobRow
    <3>3. Sound(jobs[k], Expected(k)', billed[k], outputs[k], retries[k])
      BY <2>2, <3>1, <3>2, FewerExpected DEF OthersStay
    <3>. QED BY <1>1, <2>2, <3>3 DEF Sound, OthersStay
  <2>. QED BY <2>1, <2>2
<1>4. ASSUME NEW v \in StudioWorkers PROVE Fits(studio'[v], jobs')
  <2>1. CASE studio'[v] = studio[v] /\ (row = jobs[j] \/ studio[v].at # "claiming" \/ studio[v].job # j)
    BY <1>1, <2>1 DEF StudioInv, Fits
  <2>. QED BY <2>1 DEF WorkersStay
<1>5. \A v \in StudioWorkers : Fits(studio[v], jobs)'
  BY <1>1, <1>4 DEF Fits
<1>6. \A v \in StudioWorkers : studio'[v].at = "claiming" => studio'[v] = studio[v]
  BY DEF WorkersStay
<1>7. \A v, w \in StudioWorkers :
        v # w /\ studio'[v].at = "claiming" /\ studio'[w].at = "claiming" => studio'[v].job # studio'[w].job
  BY <1>6 DEF StudioInv
<1> QED
  BY <1>1, <1>2, <1>3, <1>5, <1>7 DEF StudioInv

\* One job changes that nobody claims; the workers go on.
LEMMA RowMoves ==
  ASSUME StudioInv, NEW j \in Jobs, NEW row \in JobRow, jobs' = [jobs EXCEPT ![j] = row],
         row.kind = jobs[j].kind, jobs[j].known => row.known, UNCHANGED <<studio, billed, outputs>>,
         NEW t \in Nat, retries' = [retries EXCEPT ![j] = t], Sound(row, Expected(j), billed[j], outputs[j], t),
         \A v \in StudioWorkers : studio[v].at # "claiming" \/ studio[v].job # j
  PROVE  StudioInv'
<1>1. /\ billed \in [Jobs -> Nat] /\ outputs \in [Jobs -> Nat] /\ retries \in [Jobs -> Nat]
      /\ studio \in [StudioWorkers -> WorkerRow]
  BY DEF StudioInv, StudioIsTyped
<1>2. /\ retries' \in [Jobs -> Nat] /\ retries'[j] = t
      /\ \A k \in Jobs : k # j => retries'[k] = retries[k]
  BY <1>1
<1>3. \A k \in Jobs : Expected(k) \in Nat /\ Expected(k)' = Expected(k)
  BY StudioAssumption, FS_Subset, FS_CardinalityType DEF Expected, Ordering
<1>4. Sound(row, Expected(j)', billed'[j], outputs'[j], retries'[j])
  BY <1>2, <1>3
<1>5. OthersStay(j)
  BY <1>1, <1>2, <1>3 DEF OthersStay
<1>6. WorkersStay(j, row)
  BY <1>1 DEF WorkersStay
<1> QED
  BY <1>4, <1>5, <1>6, JobMoves

\* A merchant asks for a job, cancels it, tries again, or withdraws it; its lease expires, its
\* video is rendered.
LEMMA MerchantsMove ==
  ASSUME StudioInv, NEW j \in Jobs,
         AskJob(j) \/ QueueJob(j) \/ CancelJob(j) \/ RetryJob(j) \/ Withdraw(j) \/ Expire(j) \/ RenderVideo(j)
  PROVE  StudioInv'
<1>. DEFINE m == jobs[j]
<1>1. /\ m \in JobRow /\ billed[j] \in Nat /\ retries[j] \in Nat
      /\ Sound(m, Expected(j), billed[j], outputs[j], retries[j])
      /\ studio \in [StudioWorkers -> WorkerRow] /\ billed \in [Jobs -> Nat] /\ outputs \in [Jobs -> Nat]
      /\ retries \in [Jobs -> Nat] /\ \A w \in StudioWorkers : Fits(studio[w], jobs)
  BY DEF StudioInv, StudioIsTyped
<1>2. \A k : Expected(k) \in Nat
  BY StudioAssumption, FS_Subset, FS_CardinalityType DEF Expected, Ordering
<1>3. UNCHANGED <<studio, billed, outputs>>
  BY DEF AskJob, QueueJob, CancelJob, RetryJob, Withdraw, Expire, RenderVideo
<1>4. \A k : Expected(k)' = Expected(k)
  BY <1>3 DEF Expected, Ordering
<1>5. CASE Withdraw(j) \/ RenderVideo(j)
  <2>1. UNCHANGED <<jobs, retries>>
    BY <1>5 DEF Withdraw, RenderVideo
  <2>. QED BY <1>3, <1>4, <2>1 DEF StudioInv, StudioIsTyped, Jobs, Sound, Fits
<1>6. CASE AskJob(j) \/ QueueJob(j) \/ CancelJob(j) \/ Expire(j)
  <2>1. PICK status \in {"asked", "queued", "cancelled", m.status}, leased \in {FALSE, m.leased} :
          /\ Sets(j, [m EXCEPT !.status = status, !.leased = leased])
          /\ \/ status = "asked" /\ m.status = "none" /\ m.kind = "image"
             \/ status = "queued" /\ m.status \in {"none", "asked"}
             \/ status = "cancelled" /\ m.status = "queued" /\ j \notin Claimed
             \/ status = m.status /\ m.leased /\ ~leased
    BY <1>1, <1>6 DEF AskJob, QueueJob, CancelJob, Expire, Sets, JobRow
  <2>. DEFINE row == [m EXCEPT !.status = status, !.leased = leased]
  <2>2. /\ row \in JobRow /\ row.status = status /\ row.leased = leased /\ row.kind = m.kind
        /\ row.known = m.known /\ row.attempts = m.attempts
    BY <1>1, <2>1 DEF JobRow
  <2>3. jobs' = [jobs EXCEPT ![j] = row] /\ retries' = retries
    BY <1>6, <2>1 DEF Sets, AskJob, QueueJob, CancelJob, Expire
  <2>. HIDE DEF row
  <2>4. Sound(row, Expected(j), billed[j], outputs[j], retries[j])
    <3>1. CASE status = "asked" /\ m.status = "none" /\ m.kind = "image"
      <4>1. m.status # "running" /\ m.status # "submitted" /\ ~m.leased /\ ~leased
        BY <1>1, <2>1, <3>1 DEF Sound
      <4>. QED BY <1>1, <2>2, <3>1, <4>1 DEF Sound
    <3>2. CASE status = "queued" /\ m.status \in {"none", "asked"}
      <4>1. m.status # "running" /\ m.status # "submitted" /\ ~m.leased /\ ~leased
        BY <1>1, <2>1, <3>2 DEF Sound
      <4>. QED BY <1>1, <2>2, <3>2, <4>1 DEF Sound
    <3>3. CASE status = "cancelled" /\ m.status = "queued"
      BY <1>1, <2>2, <3>3 DEF Sound, JobRow
    <3>4. CASE status = m.status
      BY <1>1, <2>1, <2>2, <3>4 DEF Sound, JobRow
    <3>. QED BY <2>1, <3>1, <3>2, <3>3, <3>4
  <2>5. ASSUME NEW v \in StudioWorkers PROVE studio[v].at # "claiming" \/ studio[v].job # j
    BY <1>1, <2>1 DEF Fits, Claimed
  <2>6. retries' = [retries EXCEPT ![j] = retries[j]]
    BY <1>1, <2>3
  <2>. QED BY <1>1, <1>3, <2>2, <2>3, <2>4, <2>5, <2>6, RowMoves
<1>7. CASE RetryJob(j)
  <2>. DEFINE again == IF m.known THEN "submitted" ELSE "queued"
              row == [m EXCEPT !.status = again, !.holder = NoWorker, !.leased = FALSE, !.attempts = 0]
  <2>1. /\ jobs' = [jobs EXCEPT ![j] = row] /\ retries' = [retries EXCEPT ![j] = retries[j] + 1]
        /\ m.status = "failed" /\ (m.kind = "video" => m.known)
    BY <1>1, <1>7 DEF RetryJob, MayRetry, Sets
  <2>2. /\ row \in JobRow /\ row.status = again /\ ~row.leased /\ row.kind = m.kind
        /\ row.known = m.known /\ row.attempts = 0
    BY <1>1 DEF JobRow
  <2>. HIDE DEF row
  <2>3. Sound(row, Expected(j), billed[j], outputs[j], retries[j] + 1)
    BY <1>1, <1>2, <2>1, <2>2 DEF Sound, JobRow
  <2>4. ASSUME NEW v \in StudioWorkers PROVE studio[v].at # "claiming" \/ studio[v].job # j
    BY <1>1, <2>1 DEF Fits
  <2>. DEFINE t == retries[j] + 1
  <2>5. t \in Nat
    BY <1>1
  <2>. HIDE DEF t
  <2>. QED BY <1>3, <2>1, <2>2, <2>3, <2>4, <2>5, RowMoves DEF t
<1> QED
  BY <1>5, <1>6, <1>7

\* A worker that does not go on to order leaves one fewer that may order what it had claimed.
LEMMA OrderingEnds ==
  ASSUME StudioInv, NEW w \in StudioWorkers, NEW m \in WorkerRow, studio' = [studio EXCEPT ![w] = m],
         m.at # "ordering", NEW k
  PROVE  /\ Expected(k) \in Nat /\ Expected(k)' \in Nat /\ Expected(k)' <= Expected(k)
         /\ w \in Ordering(k) => Expected(k) >= 1 /\ Expected(k)' = Expected(k) - 1
BY OrderingMoves

\* A worker goes on to m, and the job j becomes row: the worker held or claimed it, or it stays
\* as it was.
WorkerMoves(w, m, j, row) ==
  /\ studio' = [studio EXCEPT ![w] = m] /\ m \in WorkerRow /\ m.at # "claiming"
  /\ m.at = "ordering" => m.job = j
  /\ Fits(m, jobs')
  /\ jobs' = [jobs EXCEPT ![j] = row] /\ row \in JobRow /\ row.kind = jobs[j].kind
  /\ jobs[j].known => row.known
  /\ row = jobs[j] \/ jobs[j].leased \/ (studio[w].at = "claiming" /\ studio[w].job = j)

\* Its orders and results change with it, and those of no other job.
Counts(j, row, b, o) ==
  /\ b \in Nat /\ billed' = [billed EXCEPT ![j] = b]
  /\ o \in Nat /\ outputs' = [outputs EXCEPT ![j] = o]
  /\ retries' = retries /\ Sound(row, Expected(j)', b, o, retries[j])

\* Such a turn of a worker keeps the invariant.
LEMMA WorkerTurns ==
  ASSUME StudioInv, NEW w \in StudioWorkers, NEW m, NEW j \in Jobs, NEW row, NEW b, NEW o,
         WorkerMoves(w, m, j, row), Counts(j, row, b, o)
  PROVE  StudioInv'
<1>0. /\ studio' = [studio EXCEPT ![w] = m] /\ m \in WorkerRow /\ m.at # "claiming"
      /\ m.at = "ordering" => m.job = j
      /\ Fits(m, jobs')
      /\ jobs' = [jobs EXCEPT ![j] = row] /\ row \in JobRow /\ row.kind = jobs[j].kind
      /\ jobs[j].known => row.known
      /\ row = jobs[j] \/ jobs[j].leased \/ (studio[w].at = "claiming" /\ studio[w].job = j)
      /\ b \in Nat /\ billed' = [billed EXCEPT ![j] = b]
      /\ o \in Nat /\ outputs' = [outputs EXCEPT ![j] = o]
      /\ retries' = retries /\ Sound(row, Expected(j)', b, o, retries[j])
  BY DEF WorkerMoves, Counts
<1>1. /\ billed \in [Jobs -> Nat] /\ outputs \in [Jobs -> Nat] /\ retries \in [Jobs -> Nat]
      /\ studio \in [StudioWorkers -> WorkerRow] /\ \A v \in StudioWorkers : Fits(studio[v], jobs)
  BY DEF StudioInv, StudioIsTyped
<1>2. \A k \in Jobs : k # j => Expected(k) \in Nat /\ Expected(k)' \in Nat /\ Expected(k)' <= Expected(k)
  BY <1>0, OrderingMoves
<1>3. OthersStay(j)
  BY <1>0, <1>1, <1>2 DEF OthersStay
<1>4. \A v \in StudioWorkers : v # w /\ row # jobs[j] => studio[v].at # "claiming" \/ studio[v].job # j
  BY <1>0, <1>1 DEF StudioInv, Fits
<1>5. /\ studio' \in [StudioWorkers -> WorkerRow] /\ studio'[w] = m
      /\ \A v \in StudioWorkers : v # w => studio'[v] = studio[v]
  BY <1>0, <1>1
<1>6. WorkersStay(j, row)
  BY <1>0, <1>4, <1>5 DEF WorkersStay
<1>7. Sound(row, Expected(j)', billed'[j], outputs'[j], retries'[j])
  BY <1>0, <1>1
<1> QED
  BY <1>0, <1>3, <1>6, <1>7, JobMoves

\* What is known of the job that a worker is about.
LEMMA AtWork ==
  ASSUME StudioInv, NEW w \in StudioWorkers, studio[w].at # "idle", NEW j, j = studio[w].job
  PROVE  /\ studio \in [StudioWorkers -> WorkerRow] /\ jobs \in [Jobs -> JobRow]
         /\ billed \in [Jobs -> Nat] /\ outputs \in [Jobs -> Nat] /\ retries \in [Jobs -> Nat]
         /\ j \in Jobs /\ j \in Nat /\ jobs[j] \in JobRow
         /\ billed[j] \in Nat /\ outputs[j] \in Nat /\ retries[j] \in Nat /\ Expected(j) \in Nat
         /\ Sound(jobs[j], Expected(j), billed[j], outputs[j], retries[j]) /\ Fits(studio[w], jobs)
         /\ AtRest \in WorkerRow /\ AtRest.at = "idle" /\ Fits(AtRest, jobs')
<1>1. j \in Jobs /\ Fits(studio[w], jobs)
  BY DEF StudioInv, Fits
<1>2. Expected(j) \in Nat
  BY StudioAssumption, FS_Subset, FS_CardinalityType DEF Expected, Ordering
<1>3. AtRest \in WorkerRow /\ AtRest.at = "idle" /\ Fits(AtRest, jobs')
  BY DEF AtRest, WorkerRow, Fits
<1> QED
  BY <1>1, <1>2, <1>3 DEF StudioInv, StudioIsTyped

\* A worker reports and rests: what is submitted has a task, only a video has one, what an image
\* came to is never known to have failed, and a video without a task failed before it was ordered.
LEMMA Reports ==
  ASSUME StudioInv, NEW w \in StudioWorkers, studio[w].at # "idle", NEW j, j = studio[w].job,
         NEW status \in {"failed", "submission_unknown", "submitted"}, NEW known \in BOOLEAN,
         Report(w, j, status, known), UNCHANGED <<billed, outputs, retries>>,
         status = "submitted" => known \/ jobs[j].known, known => jobs[j].kind = "video",
         jobs[j].kind = "image" => status # "failed",
         jobs[j].kind = "video" /\ status = "failed" /\ ~jobs[j].known => studio[w].at = "ordering"
  PROVE  StudioInv'
<1>. DEFINE m == jobs[j]
<1>1. /\ studio \in [StudioWorkers -> WorkerRow] /\ jobs \in [Jobs -> JobRow] /\ j \in Jobs /\ m \in JobRow
      /\ billed \in [Jobs -> Nat] /\ outputs \in [Jobs -> Nat]
      /\ billed[j] \in Nat /\ outputs[j] \in Nat /\ retries[j] \in Nat /\ Expected(j) \in Nat
      /\ Sound(m, Expected(j), billed[j], outputs[j], retries[j]) /\ m.attempts \in Nat
      /\ AtRest \in WorkerRow /\ AtRest.at = "idle" /\ Fits(AtRest, jobs')
  BY AtWork DEF JobRow
<1>2. studio' = [studio EXCEPT ![w] = AtRest]
  BY DEF Report, Rests
<1>3. /\ Expected(j)' \in Nat /\ Expected(j)' <= Expected(j)
      /\ w \in Ordering(j) => Expected(j) >= 1 /\ Expected(j)' = Expected(j) - 1
  BY <1>1, <1>2, OrderingEnds
<1>4. billed' = [billed EXCEPT ![j] = billed[j]] /\ outputs' = [outputs EXCEPT ![j] = outputs[j]]
  BY <1>1
<1>5. CASE ~Holds(w, j)
  <2>1. jobs' = [jobs EXCEPT ![j] = m]
    BY <1>1, <1>5 DEF Report
  <2>2. Sound(m, Expected(j)', billed[j], outputs[j], retries[j])
    BY <1>1, <1>3, FewerExpected
  <2>3. WorkerMoves(w, AtRest, j, m)
    BY <1>1, <1>2, <2>1 DEF WorkerMoves
  <2>4. Counts(j, m, billed[j], outputs[j])
    BY <1>1, <1>4, <2>2 DEF Counts
  <2>. QED BY <1>1, <2>3, <2>4, WorkerTurns
<1>6. CASE Holds(w, j)
  <2>1. PICK s \in {status, "blocked"} :
          Sets(j, [m EXCEPT !.status = s, !.holder = NoWorker, !.leased = s = "submitted",
                            !.known = m.known \/ known])
    BY <1>6 DEF Report
  <2>. DEFINE row == [m EXCEPT !.status = s, !.holder = NoWorker, !.leased = s = "submitted",
                               !.known = m.known \/ known]
  <2>2. /\ row \in JobRow /\ row.status = s /\ row.leased = (s = "submitted") /\ row.kind = m.kind
        /\ row.known = (m.known \/ known) /\ row.attempts = m.attempts
    BY <1>1 DEF JobRow
  <2>3. jobs' = [jobs EXCEPT ![j] = row]
    BY <2>1 DEF Sets
  <2>. HIDE DEF row
  <2>4. m.leased /\ m.status \in {"running", "submitted"}
    BY <1>1, <1>6 DEF Holds, Sound
  <2>5. m.kind = "video" /\ s = "failed" /\ ~row.known =>
          Expected(j) >= 1 /\ Expected(j)' = Expected(j) - 1
    BY <1>1, <1>3, <2>2 DEF Ordering
  <2>6. Sound(row, Expected(j)', billed[j], outputs[j], retries[j])
    <3>1. /\ ~row.leased \/ row.status = "submitted"
          /\ row.status = "submitted" => row.known
          /\ row.known => row.kind = "video"
          /\ row.kind = "image" => row.status # "failed"
          /\ row.status \notin {"none", "asked", "queued", "cancelled", "succeeded"}
      BY <1>1, <2>2 DEF Sound
    <3>2. /\ outputs[j] = 0
          /\ row.kind \notin {"image", "video"} =>
               Expected(j)' + billed[j] <= 2 * retries[j] + row.attempts /\ row.attempts <= 2
      BY <1>1, <1>3, <2>2, <2>4 DEF Sound
    <3>3. row.kind \in {"image", "video"} => Expected(j)' + billed[j] <= 1
      BY <1>1, <1>3, <2>2 DEF Sound
    <3>4. row.kind \in {"image", "video"} /\ row.status = "failed" /\ ~row.known =>
            Expected(j)' = 0 /\ billed[j] = 0
      BY <1>1, <1>3, <2>2, <2>5, <3>1 DEF Sound
    <3>. QED BY <3>1, <3>2, <3>3, <3>4 DEF Sound
  <2>7. WorkerMoves(w, AtRest, j, row)
    BY <1>1, <1>2, <2>2, <2>3, <2>4 DEF WorkerMoves
  <2>8. Counts(j, row, billed[j], outputs[j])
    BY <1>1, <1>4, <2>6 DEF Counts
  <2>. QED BY <1>1, <2>7, <2>8, WorkerTurns
<1> QED
  BY <1>5, <1>6

\* A worker that goes on without a word keeps the job as it was: it places its order, or it does
\* not order at all.
LEMMA QuietTurns ==
  ASSUME StudioInv, NEW w \in StudioWorkers, studio[w].at # "idle", NEW j, j = studio[w].job,
         NEW m \in WorkerRow, studio' = [studio EXCEPT ![w] = m], m.at \notin {"claiming", "ordering"},
         Fits(m, jobs), UNCHANGED <<jobs, outputs, retries>>,
         billed' = billed \/ (billed' = [billed EXCEPT ![j] = @ + 1] /\ studio[w].at = "ordering")
  PROVE  StudioInv'
<1>1. /\ studio \in [StudioWorkers -> WorkerRow] /\ jobs \in [Jobs -> JobRow] /\ j \in Jobs /\ jobs[j] \in JobRow
      /\ billed \in [Jobs -> Nat] /\ outputs \in [Jobs -> Nat]
      /\ billed[j] \in Nat /\ outputs[j] \in Nat /\ retries[j] \in Nat /\ Expected(j) \in Nat
      /\ Sound(jobs[j], Expected(j), billed[j], outputs[j], retries[j]) /\ jobs[j].attempts \in Nat
  BY AtWork DEF JobRow
<1>2. /\ Expected(j)' \in Nat /\ Expected(j)' <= Expected(j)
      /\ w \in Ordering(j) => Expected(j) >= 1 /\ Expected(j)' = Expected(j) - 1
  BY OrderingEnds
<1>3. /\ jobs' = [jobs EXCEPT ![j] = jobs[j]] /\ outputs' = [outputs EXCEPT ![j] = outputs[j]]
      /\ Fits(m, jobs')
  BY <1>1
<1>4. WorkerMoves(w, m, j, jobs[j])
  BY <1>1, <1>3 DEF WorkerMoves
<1>5. CASE billed' = billed
  <2>1. Sound(jobs[j], Expected(j)', billed[j], outputs[j], retries[j])
    BY <1>1, <1>2, FewerExpected
  <2>2. billed' = [billed EXCEPT ![j] = billed[j]]
    BY <1>1, <1>5
  <2>3. Counts(j, jobs[j], billed[j], outputs[j])
    BY <1>1, <1>3, <2>1, <2>2 DEF Counts
  <2>. QED BY <1>1, <1>4, <2>3, WorkerTurns
<1>6. CASE billed' = [billed EXCEPT ![j] = @ + 1] /\ studio[w].at = "ordering"
  <2>. DEFINE b == billed[j] + 1
  <2>1. b \in Nat /\ billed' = [billed EXCEPT ![j] = b] /\ Expected(j)' + b = Expected(j) + billed[j] /\ Expected(j) >= 1
    BY <1>1, <1>2, <1>6 DEF Ordering
  <2>. HIDE DEF b
  <2>2. Sound(jobs[j], Expected(j)', b, outputs[j], retries[j])
    BY <1>1, <1>2, <2>1 DEF Sound
  <2>3. Counts(j, jobs[j], b, outputs[j])
    BY <1>1, <1>3, <2>1, <2>2 DEF Counts
  <2>. QED BY <1>1, <1>4, <2>3, WorkerTurns
<1> QED
  BY <1>5, <1>6

\* A worker looks for a job: what was interrupted is put back, failed or left to an operator, and
\* the job it finds is due and claimed by nobody else.
LEMMA WorkersLook == ASSUME StudioInv, NEW w \in StudioWorkers, LookForJob(w) PROVE StudioInv'
<1>1. /\ IsFiniteSet(Jobs) /\ Jobs \subseteq Nat /\ jobs \in [Jobs -> JobRow] /\ studio \in [StudioWorkers -> WorkerRow]
      /\ billed \in [Jobs -> Nat] /\ outputs \in [Jobs -> Nat] /\ retries \in [Jobs -> Nat]
  BY DEF StudioInv, StudioIsTyped
<1>2. jobs' = Swept /\ UNCHANGED <<billed, outputs, retries>> /\ studio[w].at = "idle"
  BY DEF LookForJob
<1>3. ASSUME NEW j \in Jobs
      PROVE  /\ Swept[j] \in JobRow /\ Swept[j].kind = jobs[j].kind /\ Swept[j].known = jobs[j].known
             /\ jobs[j].status # "running" => Swept[j] = jobs[j]
             /\ Swept[j] # jobs[j] =>
                  /\ jobs[j].status = "running" /\ ~Swept[j].leased /\ Swept[j].attempts = jobs[j].attempts
                  /\ Swept[j].status = Interrupted(j)
  <2>1. jobs[j] \in JobRow
    BY <1>1
  <2>2. Interrupted(j) \in {"submission_unknown", "queued", "failed"}
    BY DEF Interrupted
  <2>3. Swept[j] = IF jobs[j].status = "running" /\ ~jobs[j].leased
                   THEN [jobs[j] EXCEPT !.status = Interrupted(j), !.holder = NoWorker] ELSE jobs[j]
    BY DEF Swept
  <2>. QED BY <2>1, <2>2, <2>3 DEF JobRow
<1>4. Swept \in [Jobs -> JobRow] /\ Jobs' = Jobs
  BY <1>2, <1>3 DEF Swept, Jobs
<1>5. PICK row \in WorkerRow :
        /\ studio' = [studio EXCEPT ![w] = row] /\ row.at \in {"idle", "claiming"}
        /\ row.at = "claiming" => row.job \in Due(Swept)
  <2>1. CASE Due(Swept) = {}
    <3>1. studio' = [studio EXCEPT ![w] = studio[w]]
      BY <1>1, <2>1 DEF LookForJob
    <3>. QED BY <1>1, <1>2, <3>1
  <2>2. CASE Due(Swept) # {}
    <3>1. PICK first \in Due(Swept) :
            studio' = [studio EXCEPT ![w] = [at |-> "claiming", job |-> first, seen |-> ActiveJobs(Swept)]]
      BY <2>2 DEF LookForJob
    <3>2. first \in Nat
      BY <1>1 DEF Due
    <3>3. ActiveJobs(Swept) \in Nat
      BY <1>1, FS_Subset, FS_CardinalityType DEF ActiveJobs
    <3>4. [at |-> "claiming", job |-> first, seen |-> ActiveJobs(Swept)] \in WorkerRow
      BY <3>2, <3>3 DEF WorkerRow
    <3>. QED BY <3>1, <3>4
  <2>. QED BY <2>1, <2>2
<1>6. /\ studio' \in [StudioWorkers -> WorkerRow] /\ studio'[w] = row
      /\ \A v \in StudioWorkers : v # w => studio'[v] = studio[v]
  BY <1>1, <1>5
<1>7. ASSUME NEW k \in Jobs PROVE Sound(Swept[k], Expected(k)', billed[k], outputs[k], retries[k])
  <2>1. Expected(k) \in Nat /\ Expected(k)' \in Nat /\ Expected(k)' <= Expected(k)
    BY <1>5, OrderingMoves
  <2>2. /\ jobs[k] \in JobRow /\ billed[k] \in Nat /\ outputs[k] \in Nat /\ retries[k] \in Nat
        /\ Sound(jobs[k], Expected(k), billed[k], outputs[k], retries[k]) /\ jobs[k].attempts \in Nat
    BY <1>1 DEF StudioInv, JobRow
  <2>3. Sound(jobs[k], Expected(k)', billed[k], outputs[k], retries[k])
    BY <2>1, <2>2, FewerExpected
  <2>4. CASE Swept[k] # jobs[k]
    <3>1. /\ jobs[k].status = "running" /\ ~Swept[k].leased /\ Swept[k].attempts = jobs[k].attempts
          /\ Swept[k].status = Interrupted(k) /\ Swept[k].kind = jobs[k].kind /\ Swept[k].known = jobs[k].known
      BY <1>3, <2>4
    <3>2. Interrupted(k) = IF jobs[k].kind \in {"image", "video"} THEN "submission_unknown"
                           ELSE IF jobs[k].attempts < 2 THEN "queued" ELSE "failed"
      BY DEF Interrupted, Media
    <3>. QED BY <2>1, <2>2, <2>3, <3>1, <3>2 DEF Sound
  <2>. QED BY <2>3, <2>4
<1>8. ASSUME NEW v \in StudioWorkers PROVE Fits(studio'[v], Swept)
  <2>1. CASE v = w
    BY <1>5, <1>6, <2>1 DEF Fits, Due
  <2>2. CASE v # w
    <3>1. Fits(studio[v], jobs) /\ studio'[v] = studio[v]
      BY <1>6, <2>2 DEF StudioInv
    <3>. QED BY <1>3, <3>1 DEF Fits
  <2>. QED BY <2>1, <2>2
<1>9. ASSUME NEW u \in StudioWorkers, NEW v \in StudioWorkers, u # v,
             studio'[u].at = "claiming", studio'[v].at = "claiming"
      PROVE  studio'[u].job # studio'[v].job
  <2>1. row.at = "claiming" => \A x \in StudioWorkers : studio[x].at = "claiming" => studio[x].job # row.job
    BY <1>5 DEF Due, Claimed
  <2>. QED BY <1>6, <1>9, <2>1 DEF StudioInv
<1>10. StudioIsTyped'
  BY <1>1, <1>2, <1>4, <1>6 DEF StudioIsTyped
<1>11. \A k \in Jobs' : Sound(jobs[k], Expected(k), billed[k], outputs[k], retries[k])'
  BY <1>2, <1>4, <1>7 DEF Sound
<1>12. \A v \in StudioWorkers : Fits(studio[v], jobs)'
  BY <1>2, <1>4, <1>8 DEF Fits
<1> QED
  BY <1>9, <1>10, <1>11, <1>12 DEF StudioInv

\* A worker claims the job it found: it is blocked, left for later, given up, asked for or ordered.
LEMMA WorkersClaim == ASSUME StudioInv, NEW w \in StudioWorkers, ClaimJob(w) PROVE StudioInv'
<1>0. PICK j : j = studio[w].job
  OBVIOUS
<1>. USE <1>0
<1>. DEFINE m == jobs[j]
<1>1. /\ studio \in [StudioWorkers -> WorkerRow] /\ jobs \in [Jobs -> JobRow] /\ j \in Jobs /\ m \in JobRow
      /\ j \in Nat /\ billed \in [Jobs -> Nat] /\ outputs \in [Jobs -> Nat]
      /\ billed[j] \in Nat /\ outputs[j] \in Nat /\ retries[j] \in Nat /\ Expected(j) \in Nat
      /\ Sound(m, Expected(j), billed[j], outputs[j], retries[j]) /\ m.attempts \in Nat
      /\ AtRest \in WorkerRow /\ AtRest.at = "idle"
  BY AtWork DEF JobRow, ClaimJob
<1>2. /\ studio[w].at = "claiming" /\ UNCHANGED <<billed, outputs, retries>>
      /\ m.status \in {"queued", "submitted"} /\ ~m.leased
  BY AtWork DEF ClaimJob, Fits
<1>3. billed' = [billed EXCEPT ![j] = billed[j]] /\ outputs' = [outputs EXCEPT ![j] = outputs[j]]
  BY <1>1, <1>2
<1>4. CASE Rests(w) /\ UNCHANGED jobs
  BY <1>1, <1>2, <1>4, QuietTurns DEF Rests, Fits
<1>5. CASE \E status \in {"blocked", "failed"} :
             /\ Sets(j, [m EXCEPT !.status = status]) /\ Rests(w)
             /\ status = "failed" => m.status = "submitted"
  <2>1. PICK status \in {"blocked", "failed"} :
             /\ Sets(j, [m EXCEPT !.status = status]) /\ Rests(w)
             /\ status = "failed" => m.status = "submitted"
    BY <1>5
  <2>. DEFINE row == [m EXCEPT !.status = status]
  <2>2. /\ row \in JobRow /\ row.status = status /\ row.leased = m.leased /\ row.kind = m.kind
        /\ row.known = m.known /\ row.attempts = m.attempts
    BY <1>1 DEF JobRow
  <2>3. jobs' = [jobs EXCEPT ![j] = row] /\ studio' = [studio EXCEPT ![w] = AtRest]
    BY <2>1 DEF Sets, Rests
  <2>. HIDE DEF row
  <2>4. Expected(j)' \in Nat /\ Expected(j)' <= Expected(j)
    <3>1. AtRest \in WorkerRow /\ AtRest.at # "ordering" /\ studio' = [studio EXCEPT ![w] = AtRest]
      BY <1>1, <2>3
    <3>. QED BY <3>1, OrderingEnds
  <2>5. Sound(row, Expected(j)', billed[j], outputs[j], retries[j])
    BY <1>1, <1>2, <2>1, <2>2, <2>4 DEF Sound
  <2>6. Fits(AtRest, jobs')
    BY <1>1 DEF Fits
  <2>7. WorkerMoves(w, AtRest, j, row)
    BY <1>1, <1>2, <2>2, <2>3, <2>6 DEF WorkerMoves
  <2>8. Counts(j, row, billed[j], outputs[j])
    BY <1>1, <1>2, <1>3, <2>5 DEF Counts
  <2>. QED BY <1>1, <2>7, <2>8, WorkerTurns
<1>6. CASE /\ Sets(j, [m EXCEPT !.status = IF m.status = "queued" THEN "running" ELSE m.status,
                                !.holder = w, !.leased = TRUE, !.attempts = m.attempts + 1])
           /\ Works(w, IF m.status = "submitted" THEN "asking" ELSE "ordering")
  <2>. DEFINE more == m.attempts + 1
              row == [m EXCEPT !.status = IF m.status = "queued" THEN "running" ELSE m.status,
                               !.holder = w, !.leased = TRUE, !.attempts = more]
              to == [studio[w] EXCEPT !.at = IF m.status = "submitted" THEN "asking" ELSE "ordering"]
  <2>0. more \in Nat /\ more = m.attempts + 1
    BY <1>1
  <2>1. jobs' = [jobs EXCEPT ![j] = row] /\ studio' = [studio EXCEPT ![w] = to]
    BY <1>1, <1>6 DEF Sets, Works
  <2>. HIDE DEF more
  <2>2. /\ row \in JobRow /\ row.status = (IF m.status = "queued" THEN "running" ELSE m.status) /\ row.leased
        /\ row.kind = m.kind /\ row.known = m.known /\ row.attempts = more
    BY <1>1, <2>0 DEF JobRow
  <2>3. /\ to \in WorkerRow /\ to.job = j
        /\ to.at = (IF m.status = "submitted" THEN "asking" ELSE "ordering")
    BY <1>1 DEF WorkerRow
  <2>. HIDE DEF row, to
  <2>4. /\ Expected(j)' \in Nat /\ Expected(j)' <= Expected(j) + 1
        /\ m.status = "submitted" => Expected(j)' <= Expected(j)
    BY <1>1, <2>1, <2>3, OrderingMoves
  <2>5. Sound(row, Expected(j)', billed[j], outputs[j], retries[j])
    <3>1. CASE m.status = "queued"
      BY <1>1, <1>2, <2>0, <2>2, <2>4, <3>1 DEF Sound, JobRow
    <3>2. CASE m.status = "submitted"
      BY <1>1, <1>2, <2>0, <2>2, <2>4, <3>2 DEF Sound, JobRow
    <3>. QED BY <1>2, <3>1, <3>2
  <2>6. jobs'[j] = row
    BY <1>1, <2>1
  <2>7. Fits(to, jobs')
    <3>1. Jobs' = Jobs
      BY <1>1, <2>1 DEF Jobs
    <3>2. m.status = "submitted" => row.known
      BY <1>1, <2>2 DEF Sound
    <3>. QED BY <1>1, <2>3, <2>6, <3>1, <3>2 DEF Fits
  <2>8. to.at # "claiming" /\ (to.at = "ordering" => to.job = j)
    BY <2>3
  <2>9. WorkerMoves(w, to, j, row)
    BY <1>1, <1>2, <2>1, <2>2, <2>3, <2>7, <2>8 DEF WorkerMoves
  <2>10. Counts(j, row, billed[j], outputs[j])
    BY <1>1, <1>2, <1>3, <2>5 DEF Counts
  <2>. QED BY <1>1, <2>9, <2>10, WorkerTurns
<1>7. \/ Rests(w) /\ UNCHANGED jobs
      \/ \E status \in {"blocked", "failed"} :
             /\ Sets(j, [m EXCEPT !.status = status]) /\ Rests(w)
             /\ status = "failed" => m.status = "submitted"
      \/ /\ Sets(j, [m EXCEPT !.status = IF m.status = "queued" THEN "running" ELSE m.status,
                              !.holder = w, !.leased = TRUE, !.attempts = m.attempts + 1])
         /\ Works(w, IF m.status = "submitted" THEN "asking" ELSE "ordering")
  BY DEF ClaimJob
<1> QED
  BY <1>4, <1>5, <1>6, <1>7

\* A worker orders, reports, asks for a video, stores a result, or dies.
LEMMA WorkersMove ==
  ASSUME StudioInv, NEW w \in StudioWorkers,
         \/ RejectJob(w) \/ OrderRefused(w) \/ PlaceOrder(w) \/ OrderFails(w) \/ VideoOrdered(w)
         \/ ResultArrives(w) \/ AskForVideo(w) \/ StoreResult(w) \/ KillStudio(w)
  PROVE  StudioInv'
<1>0. PICK j : j = studio[w].job
  OBVIOUS
<1>. USE <1>0
<1>. DEFINE m == jobs[j]
<1>1. studio[w].at # "idle" /\ retries' = retries
  BY DEF RejectJob, OrderRefused, PlaceOrder, OrderFails, VideoOrdered, ResultArrives, AskForVideo,
         StoreResult, KillStudio
<1>2. /\ studio \in [StudioWorkers -> WorkerRow] /\ jobs \in [Jobs -> JobRow] /\ j \in Jobs /\ m \in JobRow
      /\ billed \in [Jobs -> Nat] /\ outputs \in [Jobs -> Nat]
      /\ billed[j] \in Nat /\ outputs[j] \in Nat /\ retries[j] \in Nat /\ Expected(j) \in Nat
      /\ Sound(m, Expected(j), billed[j], outputs[j], retries[j]) /\ m.attempts \in Nat
      /\ Fits(studio[w], jobs) /\ AtRest \in WorkerRow /\ AtRest.at = "idle" /\ Fits(AtRest, jobs')
  BY <1>1, AtWork DEF JobRow
<1>3. m.kind \in JobKinds /\ Media(j) = (m.kind \in {"image", "video"})
  BY <1>2 DEF JobRow, Media
<1>4. m.known => m.kind = "video"
  BY <1>2 DEF Sound
<1>5. CASE \E status \in {"failed", "submission_unknown", "submitted"}, known \in BOOLEAN :
             /\ Report(w, j, status, known) /\ UNCHANGED <<billed, outputs>>
             /\ status = "submitted" => known \/ m.known
             /\ known => m.kind = "video"
             /\ m.kind = "image" => status # "failed"
             /\ m.kind = "video" /\ status = "failed" /\ ~m.known => studio[w].at = "ordering"
  BY <1>1, <1>5, Reports
<1>6. CASE RejectJob(w) \/ OrderRefused(w)
  <2>1. PICK status \in {"failed", "submission_unknown"} :
          /\ Report(w, j, status, FALSE) /\ UNCHANGED <<billed, outputs>>
          /\ m.kind = "image" => status # "failed"
    BY <1>3, <1>6 DEF RejectJob, OrderRefused, Unanswered
  <2>2. studio[w].at = "ordering"
    BY <1>6 DEF RejectJob, OrderRefused
  <2>. QED BY <1>5, <2>1, <2>2
<1>7. CASE OrderFails(w)
  <2>1. PICK status \in {"failed", "submission_unknown"} :
          /\ Report(w, j, status, FALSE) /\ UNCHANGED <<billed, outputs>>
          /\ m.kind \in {"image", "video"} => status # "failed"
    BY <1>3, <1>7 DEF OrderFails, Unanswered
  <2>. QED BY <1>5, <2>1
<1>8. CASE VideoOrdered(w)
  <2>1. Report(w, j, "submitted", TRUE) /\ UNCHANGED <<billed, outputs>> /\ m.kind = "video"
    BY <1>8 DEF VideoOrdered
  <2>. QED BY <1>5, <2>1
<1>9. ASSUME NEW at \in {"ordered", "storing"}, Works(w, at), UNCHANGED <<jobs, outputs>>,
             at = "storing" => (m.kind = "video" => m.known),
             \/ billed' = billed
             \/ billed' = [billed EXCEPT ![j] = @ + 1] /\ studio[w].at = "ordering"
      PROVE  StudioInv'
  <2>. DEFINE to == [studio[w] EXCEPT !.at = at]
  <2>1. studio' = [studio EXCEPT ![w] = to]
    BY <1>2, <1>9 DEF Works
  <2>2. to \in WorkerRow /\ to.at = at /\ to.job = j
    BY <1>2 DEF WorkerRow
  <2>. HIDE DEF to
  <2>3. Fits(to, jobs)
    BY <1>2, <1>9, <2>2 DEF Fits
  <2>4. to.at \notin {"claiming", "ordering"}
    BY <2>2
  <2>. QED BY <1>1, <1>9, <2>1, <2>2, <2>3, <2>4, QuietTurns
<1>10. CASE PlaceOrder(w)
  BY <1>9, <1>10 DEF PlaceOrder
<1>11. CASE ResultArrives(w)
  BY <1>9, <1>11 DEF ResultArrives
<1>12. CASE KillStudio(w)
  <2>1. studio' = [studio EXCEPT ![w] = AtRest] /\ UNCHANGED <<jobs, billed, outputs>>
    BY <1>12 DEF KillStudio, Rests
  <2>. QED BY <1>1, <1>2, <2>1, QuietTurns
<1>13. CASE AskForVideo(w)
  <2>1. m.known /\ UNCHANGED <<billed, outputs>>
    BY <1>2, <1>13 DEF AskForVideo, Fits
  <2>2. \/ Works(w, "storing") /\ UNCHANGED jobs
        \/ Report(w, j, "failed", FALSE)
        \/ Report(w, j, "submitted", FALSE)
    BY <1>13 DEF AskForVideo
  <2>3. CASE Works(w, "storing") /\ UNCHANGED jobs
    BY <1>9, <2>1, <2>3
  <2>4. CASE Report(w, j, "failed", FALSE) \/ Report(w, j, "submitted", FALSE)
    BY <1>4, <1>5, <2>1, <2>4
  <2>. QED BY <2>2, <2>3, <2>4
<1>14. CASE StoreResult(w)
  <2>1. studio[w].at = "storing" /\ billed' = billed /\ (m.kind = "video" => m.known)
    BY <1>2, <1>14 DEF StoreResult, Fits
  <2>2. CASE /\ Holds(w, j) /\ Rests(w) /\ outputs' = [outputs EXCEPT ![j] = @ + 1]
             /\ Sets(j, [m EXCEPT !.status = "succeeded", !.holder = NoWorker, !.leased = FALSE])
    <3>. DEFINE row == [m EXCEPT !.status = "succeeded", !.holder = NoWorker, !.leased = FALSE]
    <3>1. /\ row \in JobRow /\ row.status = "succeeded" /\ ~row.leased /\ row.kind = m.kind
          /\ row.known = m.known /\ row.attempts = m.attempts
      BY <1>2 DEF JobRow
    <3>2. jobs' = [jobs EXCEPT ![j] = row] /\ studio' = [studio EXCEPT ![w] = AtRest]
      BY <2>2 DEF Sets, Rests
    <3>. HIDE DEF row
    <3>3. m.leased /\ m.status \in {"running", "submitted"} /\ outputs[j] = 0
      BY <1>2, <2>2 DEF Holds, Sound
    <3>4. outputs' = [outputs EXCEPT ![j] = 1] /\ billed' = [billed EXCEPT ![j] = billed[j]]
      BY <1>2, <2>1, <2>2, <3>3
    <3>5. Expected(j)' \in Nat /\ Expected(j)' <= Expected(j)
      <4>1. AtRest \in WorkerRow /\ AtRest.at # "ordering" /\ studio' = [studio EXCEPT ![w] = AtRest]
        BY <1>2, <3>2
      <4>. QED BY <4>1, OrderingEnds
    <3>6. Sound(row, Expected(j)', billed[j], 1, retries[j])
      <4>1. (row.known => row.kind = "video") /\ m.kind = row.kind
        BY <1>2, <3>1 DEF Sound
      <4>2. /\ row.kind \in {"image", "video"} => Expected(j)' + billed[j] <= 1
            /\ row.kind \notin {"image", "video"} =>
                 Expected(j)' + billed[j] <= 2 * retries[j] + row.attempts /\ row.attempts <= 2
        BY <1>2, <3>1, <3>5 DEF Sound
      <4>. QED BY <3>1, <4>1, <4>2 DEF Sound
    <3>7. WorkerMoves(w, AtRest, j, row)
      BY <1>2, <3>1, <3>2, <3>3 DEF WorkerMoves
    <3>8. Counts(j, row, billed[j], 1)
      BY <1>1, <1>2, <3>4, <3>6 DEF Counts
    <3>. QED BY <1>2, <3>7, <3>8, WorkerTurns
  <2>3. CASE /\ Report(w, j, IF m.kind = "video" THEN "submitted" ELSE Unanswered(j), FALSE)
             /\ UNCHANGED outputs
    <3>1. PICK status \in {"failed", "submission_unknown", "submitted"} :
            /\ Report(w, j, status, FALSE)
            /\ status = "submitted" => m.kind = "video"
            /\ m.kind \in {"image", "video"} => status # "failed"
      BY <1>3, <2>3 DEF Unanswered
    <3>. QED BY <1>5, <2>1, <2>3, <3>1
  <2>. QED BY <1>14, <2>2, <2>3 DEF StoreResult
<1> QED
  BY <1>6, <1>7, <1>8, <1>10, <1>11, <1>12, <1>13, <1>14

\* No step of the studio breaks the invariant.
LEMMA StudioGoesOn == StudioInv /\ [StudioNext]_studioVars => StudioInv'
<1> SUFFICES ASSUME StudioInv, [StudioNext]_studioVars PROVE StudioInv'
  OBVIOUS
<1>1. CASE UNCHANGED studioVars
  <2>1. UNCHANGED <<jobs, studio, billed, outputs, retries>>
    BY <1>1 DEF studioVars
  <2>2. \A k : Expected(k)' = Expected(k)
    BY <2>1 DEF Expected, Ordering
  <2>. QED BY <2>1, <2>2 DEF StudioInv, StudioIsTyped, Jobs, Sound, Fits
<1>2. CASE StudioNext
  BY <1>2, MerchantsMove, WorkersLook, WorkersClaim, WorkersMove DEF StudioNext
<1> QED
  BY <1>1, <1>2

\* The inductive invariant of the studio holds in every state.
THEOREM StudioHolds == StudioSpec => []StudioInv
<1>1. StudioInit => StudioInv
  BY StudioBegins
<1>2. StudioInv /\ [StudioNext]_studioVars => StudioInv'
  BY StudioGoesOn
<1> QED
  BY <1>1, <1>2, PTL DEF StudioSpec

\* A text or a video comes to be under way when it is asked for, with none of its kind in the
\* way, or when it is tried again: a worker only goes on with what is under way.
LEMMA ComesUnderWay ==
  ASSUME StudioInv, [StudioNext]_studioVars, NEW j \in Jobs, jobs[j].kind \in {"text", "video"}, UnderWay(j)'
  PROVE  UnderWay(j) \/ retries'[j] > 0 \/ QueueJob(j)
<1>. DEFINE m == jobs[j]
<1>1. /\ jobs \in [Jobs -> JobRow] /\ m \in JobRow /\ retries \in [Jobs -> Nat]
      /\ Sound(m, Expected(j), billed[j], outputs[j], retries[j])
      /\ studio \in [StudioWorkers -> WorkerRow] /\ \A w \in StudioWorkers : Fits(studio[w], jobs)
  BY DEF StudioInv, StudioIsTyped
<1>2. SUFFICES ASSUME jobs'[j] # m PROVE UnderWay(j) \/ retries'[j] > 0 \/ QueueJob(j)
  BY DEF UnderWay
<1>3. m.status \in {"running", "queued", "submitted"} => UnderWay(j)
  BY <1>1 DEF Sound, UnderWay, Pending
<1>4. CASE \E k \in Jobs : AskJob(k) \/ CancelJob(k) \/ QueueJob(k) \/ Expire(k)
  <2>1. PICK k \in Jobs : AskJob(k) \/ CancelJob(k) \/ QueueJob(k) \/ Expire(k)
    BY <1>4
  <2>2. k = j
    BY <1>1, <1>2, <2>1 DEF AskJob, CancelJob, QueueJob, Expire, Sets
  <2>3. Expire(j) => UnderWay(j)
    BY <1>1, <1>3 DEF Expire, Sound
  <2>4. CancelJob(j) => UnderWay(j)
    BY <1>3 DEF CancelJob
  <2>5. ~AskJob(j)
    BY DEF AskJob
  <2>. QED BY <2>1, <2>2, <2>3, <2>4, <2>5
<1>5. CASE \E k \in Jobs : RetryJob(k)
  BY <1>1, <1>2, <1>5 DEF RetryJob, Sets
<1>6. CASE \E w \in StudioWorkers : LookForJob(w)
  BY <1>1, <1>2, <1>3, <1>6 DEF LookForJob, Swept
<1>7. ASSUME NEW w \in StudioWorkers, ClaimJob(w) PROVE UnderWay(j)
  <2>1. studio[w].job = j /\ studio[w].at = "claiming"
    BY <1>1, <1>2, <1>7 DEF ClaimJob, Sets
  <2>2. m.status \in {"queued", "submitted"}
    BY <1>1, <2>1 DEF Fits
  <2>. QED BY <1>3, <2>2
<1>8. ASSUME NEW w \in StudioWorkers,
             \/ RejectJob(w) \/ OrderRefused(w) \/ OrderFails(w) \/ VideoOrdered(w) \/ AskForVideo(w) \/ StoreResult(w)
      PROVE  UnderWay(j)
  <2>1. studio[w].job = j /\ Holds(w, j)
    BY <1>1, <1>2, <1>8 DEF RejectJob, OrderRefused, OrderFails, VideoOrdered, AskForVideo, StoreResult, Report, Sets
  <2>2. m.status \in {"running", "submitted"}
    BY <1>1, <2>1 DEF Holds, Sound
  <2>. QED BY <1>3, <2>2
<1>9. (\A k \in Jobs : ~Withdraw(k) /\ ~RenderVideo(k)) /\ \A w \in StudioWorkers : ~PlaceOrder(w) /\ ~ResultArrives(w) /\ ~KillStudio(w)
  BY <1>2 DEF Withdraw, RenderVideo, PlaceOrder, ResultArrives, KillStudio
<1>10. StudioNext
  BY <1>2 DEF studioVars
<1> QED
  BY <1>4, <1>5, <1>6, <1>7, <1>8, <1>9, <1>10 DEF StudioNext

\* A job keeps its kind when one row changes to another of the same kind.
LEMMA KindKept ==
  ASSUME jobs \in [Jobs -> JobRow], NEW k, NEW row, row.kind = jobs[k].kind, jobs' = [jobs EXCEPT ![k] = row]
  PROVE  Jobs' = Jobs /\ \A j \in Jobs : jobs'[j].kind = jobs[j].kind
BY DEF Jobs

\* A job keeps its kind whatever is reported of it.
LEMMA ReportKeeps ==
  ASSUME StudioInv, NEW w, NEW k \in Jobs, NEW status, NEW known, Report(w, k, status, known)
  PROVE  Jobs' = Jobs /\ \A j \in Jobs : jobs'[j].kind = jobs[j].kind
<1>1. jobs \in [Jobs -> JobRow] /\ jobs[k] \in JobRow
  BY DEF StudioInv, StudioIsTyped
<1>2. CASE Holds(w, k)
  <2>1. PICK s : Sets(k, [jobs[k] EXCEPT !.status = s, !.holder = NoWorker, !.leased = s = "submitted",
                                         !.known = jobs[k].known \/ known])
    BY <1>2 DEF Report
  <2>. DEFINE row == [jobs[k] EXCEPT !.status = s, !.holder = NoWorker, !.leased = s = "submitted",
                                     !.known = jobs[k].known \/ known]
  <2>2. row.kind = jobs[k].kind /\ jobs' = [jobs EXCEPT ![k] = row]
    BY <1>1, <2>1 DEF JobRow, Sets
  <2>. HIDE DEF row
  <2>. QED BY <1>1, <2>2, KindKept
<1>3. CASE ~Holds(w, k)
  BY <1>3 DEF Report, Jobs
<1> QED BY <1>2, <1>3

\* Jobs keep their kinds.
LEMMA KindsStay ==
  ASSUME StudioInv, [StudioNext]_studioVars
  PROVE  Jobs' = Jobs /\ \A j \in Jobs : jobs'[j].kind = jobs[j].kind
<1>1. /\ jobs \in [Jobs -> JobRow] /\ \A w \in StudioWorkers : studio[w].at # "idle" => studio[w].job \in Jobs
  BY DEF StudioInv, StudioIsTyped, Fits
<1>2. CASE \E w \in StudioWorkers : LookForJob(w)
  BY <1>1, <1>2 DEF LookForJob, Swept, Jobs, JobRow
<1>3. ASSUME NEW k \in Jobs, NEW status, NEW holder, NEW leased, NEW attempts,
             Sets(k, [jobs[k] EXCEPT !.status = status, !.holder = holder, !.leased = leased, !.attempts = attempts])
      PROVE  Jobs' = Jobs /\ \A j \in Jobs : jobs'[j].kind = jobs[j].kind
  <2>. DEFINE row == [jobs[k] EXCEPT !.status = status, !.holder = holder, !.leased = leased, !.attempts = attempts]
  <2>1. row.kind = jobs[k].kind /\ jobs' = [jobs EXCEPT ![k] = row]
    BY <1>1, <1>3 DEF JobRow, Sets
  <2>. HIDE DEF row
  <2>. QED BY <1>1, <2>1, KindKept
<1>4. ASSUME NEW k \in Jobs, NEW status, Sets(k, [jobs[k] EXCEPT !.status = status])
      PROVE  Jobs' = Jobs /\ \A j \in Jobs : jobs'[j].kind = jobs[j].kind
  <2>. DEFINE row == [jobs[k] EXCEPT !.status = status]
  <2>1. row.kind = jobs[k].kind /\ jobs' = [jobs EXCEPT ![k] = row]
    BY <1>1, <1>4 DEF JobRow, Sets
  <2>. HIDE DEF row
  <2>. QED BY <1>1, <2>1, KindKept
<1>5. ASSUME NEW k \in Jobs, AskJob(k) \/ QueueJob(k) \/ CancelJob(k)
      PROVE  Jobs' = Jobs /\ \A j \in Jobs : jobs'[j].kind = jobs[j].kind
  BY <1>4, <1>5 DEF AskJob, QueueJob, CancelJob
<1>6. ASSUME NEW k \in Jobs, RetryJob(k)
      PROVE  Jobs' = Jobs /\ \A j \in Jobs : jobs'[j].kind = jobs[j].kind
  BY <1>3, <1>6 DEF RetryJob
<1>7. ASSUME NEW k \in Jobs, Expire(k)
      PROVE  Jobs' = Jobs /\ \A j \in Jobs : jobs'[j].kind = jobs[j].kind
  <2>. DEFINE row == [jobs[k] EXCEPT !.leased = FALSE]
  <2>1. row.kind = jobs[k].kind /\ jobs' = [jobs EXCEPT ![k] = row]
    BY <1>1, <1>7 DEF JobRow, Expire, Sets
  <2>. HIDE DEF row
  <2>. QED BY <1>1, <2>1, KindKept
<1>8. ASSUME NEW w \in StudioWorkers, ClaimJob(w)
      PROVE  Jobs' = Jobs /\ \A j \in Jobs : jobs'[j].kind = jobs[j].kind
  <2>. DEFINE k == studio[w].job
              row == [jobs[k] EXCEPT !.status = IF jobs[k].status = "queued" THEN "running" ELSE jobs[k].status,
                                     !.holder = w, !.leased = TRUE, !.attempts = jobs[k].attempts + 1]
  <2>1. k \in Jobs /\ row.kind = jobs[k].kind
    BY <1>1, <1>8 DEF ClaimJob, JobRow
  <2>2. CASE \E status : Sets(k, [jobs[k] EXCEPT !.status = status])
    BY <1>4, <2>1, <2>2
  <2>3. CASE UNCHANGED jobs
    BY <2>3 DEF Jobs
  <2>4. CASE jobs' = [jobs EXCEPT ![k] = row]
    <3>. HIDE DEF row, k
    <3>. QED BY <1>1, <2>1, <2>4, KindKept
  <2>5. \/ Sets(k, [jobs[k] EXCEPT !.status = "blocked"])
        \/ Sets(k, [jobs[k] EXCEPT !.status = "failed"])
        \/ UNCHANGED jobs
        \/ jobs' = [jobs EXCEPT ![k] = row]
    BY <1>8 DEF ClaimJob, Sets
  <2>. QED BY <2>2, <2>3, <2>4, <2>5
<1>9. ASSUME NEW w \in StudioWorkers, RejectJob(w) \/ OrderRefused(w) \/ OrderFails(w) \/ VideoOrdered(w)
      PROVE  Jobs' = Jobs /\ \A j \in Jobs : jobs'[j].kind = jobs[j].kind
  <2>1. studio[w].job \in Jobs
    BY <1>1, <1>9 DEF RejectJob, OrderRefused, OrderFails, VideoOrdered
  <2>. QED BY <1>9, <2>1, ReportKeeps DEF RejectJob, OrderRefused, OrderFails, VideoOrdered
<1>10. ASSUME NEW w \in StudioWorkers, AskForVideo(w)
      PROVE  Jobs' = Jobs /\ \A j \in Jobs : jobs'[j].kind = jobs[j].kind
  <2>1. studio[w].job \in Jobs
    BY <1>1, <1>10 DEF AskForVideo
  <2>. QED BY <1>10, <2>1, ReportKeeps DEF AskForVideo, Jobs
<1>11. ASSUME NEW w \in StudioWorkers, StoreResult(w)
      PROVE  Jobs' = Jobs /\ \A j \in Jobs : jobs'[j].kind = jobs[j].kind
  <2>. DEFINE k == studio[w].job
              row == [jobs[k] EXCEPT !.status = "succeeded", !.holder = NoWorker, !.leased = FALSE]
  <2>1. k \in Jobs /\ row.kind = jobs[k].kind
    BY <1>1, <1>11 DEF StoreResult, JobRow
  <2>2. jobs' = [jobs EXCEPT ![k] = row] \/ \E status : Report(w, k, status, FALSE)
    BY <1>11 DEF StoreResult, Sets
  <2>. HIDE DEF row, k
  <2>. QED BY <1>1, <2>1, <2>2, KindKept, ReportKeeps
<1>12. ASSUME NEW k \in Jobs, Withdraw(k) \/ RenderVideo(k) PROVE UNCHANGED jobs
  BY <1>12 DEF Withdraw, RenderVideo
<1>13. ASSUME NEW w \in StudioWorkers, PlaceOrder(w) \/ ResultArrives(w) \/ KillStudio(w) PROVE UNCHANGED jobs
  BY <1>13 DEF PlaceOrder, ResultArrives, KillStudio
<1>14. CASE UNCHANGED jobs
  BY <1>14 DEF Jobs
<1> QED
  BY <1>2, <1>5, <1>6, <1>7, <1>8, <1>9, <1>10, <1>11, <1>12, <1>13, <1>14 DEF StudioNext, studioVars

\* What was tried again stays so.
LEMMA RetriesGrow ==
  ASSUME StudioInv, [StudioNext]_studioVars, NEW j \in Jobs
  PROVE  retries[j] \in Nat /\ retries'[j] \in Nat /\ retries'[j] >= retries[j]
<1>1. retries \in [Jobs -> Nat] /\ j \in Jobs
  BY DEF StudioInv, StudioIsTyped
<1>2. CASE \E k \in Jobs : RetryJob(k)
  BY <1>1, <1>2 DEF RetryJob
<1>3. CASE ~\E k \in Jobs : RetryJob(k)
  <2>1. retries' = retries
    BY <1>3 DEF StudioNext, studioVars, AskJob, QueueJob, CancelJob, Withdraw, Expire, RenderVideo, LookForJob, ClaimJob,
                RejectJob, OrderRefused, PlaceOrder, OrderFails, VideoOrdered, ResultArrives, AskForVideo, StoreResult,
                KillStudio
  <2>. QED BY <1>1, <2>1
<1> QED
  BY <1>2, <1>3

\* However requests race: two texts, or two videos, of a session are under way together only
\* when one of them was tried again.
LEMMA OneAtATimeHolds == StudioSpec => []OneAtATime
<1>1. StudioInit => OneAtATime
  BY DEF StudioInit, OneAtATime, UnderWay, Pending, Jobs
<1>2. StudioInv /\ OneAtATime /\ [StudioNext]_studioVars => OneAtATime'
  <2> SUFFICES ASSUME StudioInv, OneAtATime, [StudioNext]_studioVars, NEW j \in Jobs, NEW k \in Jobs, j # k,
                      jobs[j].kind = jobs[k].kind, jobs[j].kind \in {"text", "video"}, UnderWay(j)', UnderWay(k)'
               PROVE  retries'[j] + retries'[k] > 0
    BY KindsStay DEF OneAtATime
  <2>1. /\ retries[j] \in Nat /\ retries'[j] \in Nat /\ retries'[j] >= retries[j]
        /\ retries[k] \in Nat /\ retries'[k] \in Nat /\ retries'[k] >= retries[k]
    BY RetriesGrow
  <2>2. UnderWay(j) /\ UnderWay(k) => retries[j] + retries[k] > 0
    BY DEF OneAtATime
  <2>3. ASSUME NEW a \in Jobs, NEW b \in Jobs, a # b, jobs[a].kind = jobs[b].kind, jobs[a].kind \in {"text", "video"},
               QueueJob(a), UnderWay(b)'
        PROVE  FALSE
    <3>1. jobs'[b] = jobs[b]
      BY <2>3 DEF QueueJob, Sets, StudioInv, StudioIsTyped
    <3>2. UnderWay(b)
      BY <2>3, <3>1 DEF UnderWay
    <3>3. jobs[a].status # "asked"
      BY <2>3 DEF StudioInv, Sound
    <3>4. InTheWay(a) = {}
      BY <2>3, <3>3 DEF QueueJob
    <3>. QED BY <2>3, <3>2, <3>4 DEF InTheWay, UnderWay, Media
  <2>4. UnderWay(j) \/ retries'[j] > 0 \/ QueueJob(j)
    BY ComesUnderWay
  <2>5. UnderWay(k) \/ retries'[k] > 0 \/ QueueJob(k)
    BY ComesUnderWay
  <2>. QED BY <2>1, <2>2, <2>3, <2>4, <2>5
<1> QED
  BY <1>1, <1>2, StudioHolds, PTL DEF StudioSpec

\* Whatever workers die, are slow or are told nothing, whatever merchants try again and however
\* many they are: an image or a video is ordered once, a text at most twice for each time it was
\* asked for, what is reported as failed or cancelled without a task was never ordered, a job has
\* one result exactly when it succeeded, and a second text or video is refused meanwhile.
THEOREM StudioOrdersOnce == StudioSpec => []OrderedAndKeptOnce
<1>1. StudioInv => OrderedOnce /\ StoredOnce
  <2> SUFFICES ASSUME StudioInv, NEW j \in Jobs
      PROVE  /\ billed[j] <= IF Media(j) THEN 1 ELSE 2 * (1 + retries[j])
             /\ Media(j) /\ jobs[j].status \in {"failed", "cancelled"} /\ ~jobs[j].known => billed[j] = 0
             /\ outputs[j] = IF jobs[j].status = "succeeded" THEN 1 ELSE 0
    BY DEF OrderedOnce, StoredOnce
  <2>1. /\ jobs[j] \in JobRow /\ jobs[j].attempts \in Nat /\ billed[j] \in Nat /\ retries[j] \in Nat
        /\ Sound(jobs[j], Expected(j), billed[j], outputs[j], retries[j])
    BY DEF StudioInv, StudioIsTyped, JobRow
  <2>2. Expected(j) \in Nat
    BY StudioAssumption, FS_Subset, FS_CardinalityType DEF Expected, Ordering
  <2>. QED BY <2>1, <2>2 DEF Sound, Media
<1> QED
  BY <1>1, StudioHolds, OneAtATimeHolds, PTL DEF OrderedAndKeptOnce

-----------------------------------------------------------------------------
(* The turns of a conversation: a risky action is taken up once, after its user confirmed it. *)

\* What is known of the fields of an action; a model guesses none that only the request may give.
Entities == {e \in [Fields -> {"none", "said", "guessed"}] : \A f \in CurrentRequestOnly : e[f] # "guessed"}
ChatItem == [turn : Turns, rule : Risky \union {"none"}, entities : Entities, domains : SUBSET STRING, urgent : BOOLEAN]
KeptItem == ChatItem \union {Nothing}

SettledAt == {"replying", "answered", "unanswered"}
Stages == {"new", "arrived", "recognizing", "executing"} \union Synchronous \union SettledAt
Decisions == {"none", "reject", "clarify", "confirm", "execute"}
TurnRow ==
  [at : Stages, process : Processes \union {Nothing}, message : Message \union {Nothing},
   names : Turns \union {Nothing}, item : KeptItem,
   decided : Decisions, escalated : BOOLEAN]

ChatTyped ==
  /\ shared \in [Kinds -> KeptItem]
  /\ copy \in [Processes -> [Kinds -> KeptItem]]
  /\ turn \in [Turns -> TurnRow]
  /\ consumed \in [Turns -> SUBSET Turns]
  /\ lost \in Nat

\* A complete action that a turn, which has decided, asks its user to confirm.
IsAskedFor(item, turns) ==
  /\ item \in ChatItem
  /\ turns[item.turn].at \in SettledAt /\ turns[item.turn].decided = "confirm"
  /\ Missing(item.rule, item.entities) = {}

\* A turn that is over is in no process; one that goes on carries what its stage needs, and
\* takes up a risky action only if that was asked for and its user says yes.
TurnFits(row, turns) ==
  /\ row.at \in {"new", "answered", "unanswered"} => row.process = Nothing
  /\ row.at \notin {"new"} \union SettledAt => row.message \in Message /\ row.process \in Processes
  /\ row.at = "confirming" => row.message.word = "yes"
  /\ row.at = "supplementing" => row.item \in ChatItem
  /\ row.at = "executing" /\ row.item.rule # "none" =>
       row.message.word = "yes" /\ IsAskedFor(row.item, turns)

TurnsFit == \A t \in Turns : TurnFits(turn[t], turn)

\* Every confirmation that is kept somewhere was asked for.
ConfirmationsFit ==
  /\ shared["confirmation"] # Nothing => IsAskedFor(shared["confirmation"], turn)
  /\ \A p \in Processes : copy[p]["confirmation"] # Nothing => IsAskedFor(copy[p]["confirmation"], turn)

\* What was consumed was put by a turn that does not put it again; Redis keeps a
\* confirmation after it was consumed only when a command failed.
InRedis(t) == IF shared["confirmation"] # Nothing /\ shared["confirmation"].turn = t THEN 1 ELSE 0
ConsumedIsGone ==
  \A t \in Turns :
    /\ consumed[t] # {} => turn[t].at \in SettledAt
    /\ IsFiniteSet(consumed[t]) /\ Cardinality(consumed[t]) + InRedis(t) <= 1 + lost

ChatInv == ChatTyped /\ TurnsFit /\ ConfirmationsFit /\ ConsumedIsGone

-----------------------------------------------------------------------------
\* A value is kept with where it comes from, whatever a model guessed.
LEMMA MergedIsTyped == ASSUME NEW guessed, NEW m \in Message PROVE Merged(guessed, m) \in Entities
BY DEF Merged, Entities, CurrentRequestOnly, Fields

\* What a message adds to an action are entities again.
LEMMA SuppliedIsTyped ==
  ASSUME NEW item \in ChatItem, NEW m \in Message
  PROVE  Supplied(item, m) \in Entities
<1>1. item.entities \in Entities
  BY DEF ChatItem
<1> QED
  BY <1>1 DEF Supplied, Entities, CurrentRequestOnly, Fields

\* What only the request may give has been written by the user when nothing is missing.
LEMMA AskedForIsSaid ==
  ASSUME NEW item, NEW turns, IsAskedFor(item, turns)
  PROVE  \A f \in Required[item.rule] \intersect CurrentRequestOnly : item.entities[f] = "said"
<1>1. item.entities \in Entities
  BY DEF IsAskedFor, ChatItem
<1>2. CurrentRequestOnly \subseteq Fields
  BY DEF CurrentRequestOnly, Fields
<1> QED
  BY <1>1, <1>2 DEF IsAskedFor, Missing, Entities

\* What a turn has decided stays so.
DoneStays ==
  \A u \in Turns : turn[u].at \in SettledAt => turn'[u].at \in SettledAt /\ turn'[u].decided = turn[u].decided

\* A turn that has decided stays the one that asked: what it asked for stays asked for.
LEMMA StillAskedFor ==
  ASSUME DoneStays
  PROVE  \A item : IsAskedFor(item, turn) => IsAskedFor(item, turn')
BY DEF DoneStays, IsAskedFor, ChatItem

\* One turn goes on.
LEMMA OneTurnGoesOn ==
  ASSUME ChatInv, NEW t \in Turns, NEW row \in TurnRow,
         turn[t].at \in SettledAt => row.at \in SettledAt /\ row.decided = turn[t].decided,
         turn' = [turn EXCEPT ![t] = row], TurnFits(row, turn)
  PROVE  turn' \in [Turns -> TurnRow] /\ TurnsFit' /\ DoneStays /\ turn'[t] = row
<1>1. turn \in [Turns -> TurnRow]
  BY DEF ChatInv, ChatTyped
<1>2. DoneStays /\ turn'[t] = row /\ \A u \in Turns \ {t} : turn'[u] = turn[u]
  BY <1>1 DEF DoneStays
<1>3. \A item : IsAskedFor(item, turn) => IsAskedFor(item, turn')
  BY <1>2, StillAskedFor
<1>4. \A r : TurnFits(r, turn) => TurnFits(r, turn')
  BY <1>3 DEF TurnFits
<1>5. \A u \in Turns : TurnFits(turn'[u], turn')
  BY <1>2, <1>4 DEF ChatInv, TurnsFit
<1> QED
  BY <1>1, <1>2, <1>5 DEF TurnsFit

\* The rows it may become.
LEMMA EndedRow ==
  ASSUME NEW row \in TurnRow, NEW how \in {"answered", "unanswered"}
  PROVE  /\ Ended(row, how) \in TurnRow /\ TurnFits(Ended(row, how), turn)
         /\ Ended(row, how).at = how /\ Ended(row, how).decided = row.decided
         /\ Ended(row, how).process = Nothing
<1>1. how \in Stages /\ Nothing \in KeptItem
  BY DEF Stages, SettledAt, KeptItem
<1>2. /\ Ended(row, how) \in TurnRow /\ Ended(row, how).at = how
      /\ Ended(row, how).decided = row.decided /\ Ended(row, how).process = Nothing
  BY <1>1 DEF Ended, TurnRow
<1> QED
  BY <1>2 DEF TurnFits, SettledAt

LEMMA DecidedRow ==
  ASSUME turn \in [Turns -> TurnRow], NEW t \in Turns, NEW decision \in Decisions
  PROVE  /\ Decided(t, decision) \in TurnRow /\ TurnFits(Decided(t, decision), turn)
         /\ Decided(t, decision).at = "replying" /\ Decided(t, decision).decided = decision
<1>1. turn[t] \in TurnRow /\ "replying" \in Stages /\ Nothing \in KeptItem
  BY DEF Stages, SettledAt, KeptItem
<1>2. /\ Decided(t, decision) \in TurnRow /\ Decided(t, decision).at = "replying"
      /\ Decided(t, decision).decided = decision
  BY <1>1 DEF Decided, TurnRow
<1> QED
  BY <1>2 DEF TurnFits, SettledAt

\* A turn is answered at once, or asks for a confirmation.
LEMMA TurnIsAnswered ==
  ASSUME ChatInv, NEW t \in Turns, turn[t].at \notin SettledAt, NEW decision \in Decisions,
         Answers(t, decision) \/ Asks(t, decision)
  PROVE  /\ turn' \in [Turns -> TurnRow] /\ TurnsFit' /\ DoneStays
         /\ turn'[t].at \in SettledAt /\ turn'[t].decided = decision
<1>1. turn \in [Turns -> TurnRow]
  BY DEF ChatInv, ChatTyped
<1>2. \E row \in TurnRow : /\ turn' = [turn EXCEPT ![t] = row] /\ TurnFits(row, turn)
                           /\ row.at \in SettledAt /\ row.decided = decision
  <2>1. CASE Asks(t, decision)
    BY <1>1, <2>1, DecidedRow DEF Asks, SettledAt
  <2>2. CASE Answers(t, decision)
    <3>. DEFINE row == Decided(t, decision)
    <3>1. row \in TurnRow /\ row.decided = decision
      BY <1>1, DecidedRow
    <3>2. turn' = [turn EXCEPT ![t] = Ended(row, "answered")]
      BY <2>2 DEF Answers
    <3>. HIDE DEF row
    <3> QED
      BY <3>1, <3>2, EndedRow DEF SettledAt
  <2> QED
    BY <2>1, <2>2
<1> QED
  BY <1>2, OneTurnGoesOn

\* The row of a turn that goes on, without an action, is one the invariant allows.
LEMMA GoingRow ==
  ASSUME TurnsFit, turn \in [Turns -> TurnRow], NEW t \in Turns, turn[t].at \notin {"new"} \union SettledAt,
         NEW where \in Stages \ ({"new", "supplementing", "executing"} \union SettledAt),
         where = "confirming" => turn[t].message.word = "yes"
  PROVE  /\ [turn[t] EXCEPT !.at = where] \in TurnRow
         /\ TurnFits([turn[t] EXCEPT !.at = where], turn)
<1>. DEFINE row == [turn[t] EXCEPT !.at = where]
<1>1. turn[t] \in TurnRow
  OBVIOUS
<1>2. row \in TurnRow /\ row.at = where /\ row.message = turn[t].message /\ row.process = turn[t].process
  BY <1>1 DEF TurnRow
<1>3. turn[t].message \in Message /\ turn[t].process \in Processes
  BY DEF TurnsFit, TurnFits
<1> QED
  BY <1>2, <1>3 DEF TurnFits, SettledAt

\* The row of a turn that goes on with an action it took from a store is one the invariant allows.
LEMMA CarryingRow ==
  ASSUME TurnsFit, turn \in [Turns -> TurnRow], NEW t \in Turns, turn[t].at \notin {"new"} \union SettledAt,
         NEW where \in {"supplementing", "executing"}, NEW item \in ChatItem,
         where = "executing" /\ item.rule # "none" =>
           turn[t].message.word = "yes" /\ IsAskedFor(item, turn)
  PROVE  /\ [turn[t] EXCEPT !.at = where, !.item = item] \in TurnRow
         /\ TurnFits([turn[t] EXCEPT !.at = where, !.item = item], turn)
<1>. DEFINE row == [turn[t] EXCEPT !.at = where, !.item = item]
<1>1. turn[t] \in TurnRow /\ where \in Stages /\ item \in KeptItem
  BY DEF Stages, Synchronous, KeptItem
<1>2. /\ row \in TurnRow /\ row.at = where /\ row.message = turn[t].message
      /\ row.process = turn[t].process /\ row.item = item
  BY <1>1 DEF TurnRow
<1>3. turn[t].message \in Message /\ turn[t].process \in Processes
  BY DEF TurnsFit, TurnFits
<1> QED
  BY <1>2, <1>3 DEF TurnFits

-----------------------------------------------------------------------------
\* What the commands to Redis do to the items: nothing is kept that was not there, or was put.
LEMMA PopTakes ==
  ASSUME ChatTyped, NEW kind \in Kinds, NEW p \in Processes, NEW item, Pop(kind, p, item)
  PROVE  /\ shared' \in [Kinds -> KeptItem] /\ copy' \in [Processes -> [Kinds -> KeptItem]]
         /\ lost' \in Nat /\ item \in {shared[kind], copy[p][kind]}
         /\ \A k \in Kinds : shared'[k] \in {shared[k], Nothing}
         /\ \A q \in Processes, k \in Kinds : copy'[q][k] \in {copy[q][k], Nothing}
         /\ \/ lost' = lost /\ item = shared[kind] /\ shared'[kind] = Nothing
            \/ lost' = lost + 1
<1>1. /\ shared \in [Kinds -> KeptItem] /\ copy \in [Processes -> [Kinds -> KeptItem]]
      /\ lost \in Nat /\ Nothing \in KeptItem
  BY DEF ChatTyped, KeptItem
<1>2. Without(kind) \in [Kinds -> KeptItem] /\ \A k \in Kinds : Without(kind)[k] \in {shared[k], Nothing}
      /\ Without(kind)[kind] = Nothing
  BY <1>1 DEF Without
<1>3. /\ copy' \in [Processes -> [Kinds -> KeptItem]]
      /\ \A q \in Processes, k \in Kinds : copy'[q][k] \in {copy[q][k], Nothing}
  BY <1>1 DEF Pop
<1>4. CASE item = shared[kind] /\ shared' = Without(kind) /\ UNCHANGED lost
  BY <1>1, <1>2, <1>3, <1>4
<1>5. CASE item = copy[p][kind] /\ shared' \in {shared, Without(kind)} /\ Fails
  <2>1. lost' = lost + 1
    BY <1>5 DEF Fails
  <2>2. lost' \in Nat
    BY <1>1, <2>1
  <2> QED
    BY <1>1, <1>2, <1>3, <1>5, <2>1, <2>2
<1> QED
  BY <1>4, <1>5 DEF Pop

\* What is put in a store is found there or in the copy of the process, and the rest stays.
LEMMA PutKeeps ==
  ASSUME ChatTyped, NEW kind \in Kinds, NEW p \in Processes, NEW item \in ChatItem, Put(kind, p, item)
  PROVE  /\ shared' \in [Kinds -> KeptItem] /\ copy' \in [Processes -> [Kinds -> KeptItem]]
         /\ lost' \in Nat /\ lost' >= lost
         /\ \A k \in Kinds : shared'[k] = shared[k] \/ (k = kind /\ shared'[k] = item)
         /\ \A q \in Processes, k \in Kinds : copy'[q][k] = copy[q][k] \/ (k = kind /\ copy'[q][k] = item)
<1>1. /\ shared \in [Kinds -> KeptItem] /\ copy \in [Processes -> [Kinds -> KeptItem]]
      /\ lost \in Nat /\ item \in KeptItem
  BY DEF ChatTyped, KeptItem
<1>. DEFINE put == [shared EXCEPT ![kind] = item]
            held == [copy[p] EXCEPT ![kind] = item]
<1>2. put \in [Kinds -> KeptItem] /\ \A k \in Kinds : put[k] = IF k = kind THEN item ELSE shared[k]
  BY <1>1
<1>3. shared' \in {shared, put}
  BY DEF Put
<1>5. held \in [Kinds -> KeptItem] /\ \A k \in Kinds : held[k] = IF k = kind THEN item ELSE copy[p][k]
  BY <1>1
<1>6. copy' = [copy EXCEPT ![p] = held]
  BY DEF Put
<1>. HIDE DEF put, held
<1>7. copy' \in [Processes -> [Kinds -> KeptItem]] /\ \A q \in Processes : copy'[q] = IF q = p THEN held ELSE copy[q]
  BY <1>1, <1>5, <1>6
<1>4. lost' \in {lost, lost + 1}
  BY DEF Put, Fails
<1>8. lost' \in Nat /\ lost' >= lost
  BY <1>1, <1>4
<1>9. \A q \in Processes, k \in Kinds : copy'[q][k] = copy[q][k] \/ (k = kind /\ copy'[q][k] = item)
  BY <1>5, <1>7
<1>10. /\ shared' \in [Kinds -> KeptItem]
       /\ \A k \in Kinds : shared'[k] = shared[k] \/ (k = kind /\ shared'[k] = item)
  BY <1>1, <1>2, <1>3
<1> QED
  BY <1>7, <1>8, <1>9, <1>10

\* The confirmations still fit when what is new among them does.
LEMMA ConfirmationsStayFit ==
  ASSUME ConfirmationsFit, DoneStays,
         \/ shared'["confirmation"] \in {shared["confirmation"], Nothing}
         \/ IsAskedFor(shared'["confirmation"], turn'),
         \A p \in Processes : \/ copy'[p]["confirmation"] \in {copy[p]["confirmation"], Nothing}
                              \/ IsAskedFor(copy'[p]["confirmation"], turn')
  PROVE  ConfirmationsFit'
BY StillAskedFor DEF ConfirmationsFit

\* What was consumed stays away, when a new confirmation is of a turn that was not over.
LEMMA ConsumedStaysGone ==
  ASSUME ChatTyped, ConsumedIsGone, DoneStays, consumed' = consumed,
         lost' \in Nat, lost' >= lost,
         \/ shared'["confirmation"] \in {shared["confirmation"], Nothing}
         \/ turn[shared'["confirmation"].turn].at \notin SettledAt
  PROVE  ConsumedIsGone'
<1> SUFFICES ASSUME NEW t \in Turns
             PROVE  /\ consumed[t] # {} => turn'[t].at \in SettledAt
                    /\ IsFiniteSet(consumed[t]) /\ Cardinality(consumed[t]) + InRedis(t)' <= 1 + lost'
  BY DEF ConsumedIsGone
<1>1. /\ consumed[t] # {} => turn[t].at \in SettledAt
      /\ IsFiniteSet(consumed[t]) /\ Cardinality(consumed[t]) + InRedis(t) <= 1 + lost
      /\ lost \in Nat
  BY DEF ConsumedIsGone, ChatTyped
<1>2. Cardinality(consumed[t]) \in Nat /\ InRedis(t) \in {0, 1} /\ InRedis(t)' \in {0, 1}
  BY <1>1, FS_CardinalityType DEF InRedis
<1>3. CASE InRedis(t)' <= InRedis(t)
  BY <1>1, <1>2, <1>3 DEF DoneStays
<1>4. CASE InRedis(t)' = 1 /\ InRedis(t) = 0
  <2>1. shared'["confirmation"] # Nothing /\ shared'["confirmation"].turn = t
    BY <1>4 DEF InRedis
  <2>2. shared'["confirmation"] # shared["confirmation"]
    BY <1>4, <2>1 DEF InRedis
  <2>3. consumed[t] = {}
    BY <1>1, <2>1, <2>2
  <2>4. Cardinality(consumed[t]) = 0
    BY <2>3, FS_EmptySet
  <2> QED
    BY <1>1, <1>2, <2>3, <2>4
<1> QED
  BY <1>2, <1>3, <1>4


-----------------------------------------------------------------------------
\* The steps of one turn. First those that take nothing away and put nothing anywhere.

\* A step that touches no store keeps the invariant if its turns do.
LEMMA StoresKept ==
  ASSUME ChatInv, DoneStays, TurnsFit', turn' \in [Turns -> TurnRow], lost' \in Nat,
         UNCHANGED <<stores, consumed>>, lost' >= lost
  PROVE  ChatInv'
<1>1. ChatTyped'
  BY DEF ChatInv, ChatTyped, stores
<1>2. ConfirmationsFit'
  BY ConfirmationsStayFit DEF ChatInv, stores
<1>3. ConsumedIsGone'
  BY ConsumedStaysGone DEF ChatInv, stores
<1> QED
  BY <1>1, <1>2, <1>3 DEF ChatInv

\* What resolve_pending makes of what it found.
LEMMA JudgeGoesOn ==
  ASSUME ChatInv, NEW t \in Turns, turn[t].at \notin {"new"} \union SettledAt, NEW pending, Judge(t, pending)
  PROVE  turn' \in [Turns -> TurnRow] /\ TurnsFit' /\ DoneStays
<1>1. turn \in [Turns -> TurnRow] /\ TurnsFit
  BY DEF ChatInv, ChatTyped
<1>2. CASE Answers(t, "reject")
  BY <1>1, <1>2, TurnIsAnswered DEF Decisions
<1>3. CASE \E where \in {"clarifying", "discarding", "cancelling"} : Goes(t, where)
  <2>1. PICK where \in {"clarifying", "discarding", "cancelling"} : Goes(t, where)
    BY <1>3
  <2>2. where \in Stages \ ({"new", "supplementing", "executing"} \union SettledAt) /\ where # "confirming"
    BY DEF Stages, Synchronous, SettledAt
  <2>3. turn' = [turn EXCEPT ![t] = [turn[t] EXCEPT !.at = where]]
    BY <2>1 DEF Goes
  <2> QED
    BY <1>1, <2>2, <2>3, GoingRow, OneTurnGoesOn
<1>4. CASE turn[t].message.word = "yes" /\ Goes(t, "confirming")
  <2>1. "confirming" \in Stages \ ({"new", "supplementing", "executing"} \union SettledAt)
    BY DEF Stages, Synchronous, SettledAt
  <2>2. turn' = [turn EXCEPT ![t] = [turn[t] EXCEPT !.at = "confirming"]]
    BY <1>4 DEF Goes
  <2> QED
    BY <1>1, <1>4, <2>1, <2>2, GoingRow, OneTurnGoesOn
<1> QED
  BY <1>2, <1>3, <1>4 DEF Judge

\* A message arrives.
LEMMA ArriveSafe == ASSUME ChatInv, NEW t \in Turns, Arrive(t) PROVE ChatInv'
<1>1. turn \in [Turns -> TurnRow] /\ turn[t] \in TurnRow /\ TurnsFit
  BY DEF ChatInv, ChatTyped
<1>2. PICK p \in Processes, m \in Texts[t],
           named \in {Nothing} \union {u \in Turns : Asked(u)} :
         turn' = [turn EXCEPT ![t].at = "arrived", ![t].process = p, ![t].message = m,
                              ![t].names = named]
  BY DEF Arrive
<1>. DEFINE row == [turn[t] EXCEPT !.at = "arrived", !.process = p, !.message = m, !.names = named]
<1>3. turn' = [turn EXCEPT ![t] = row]
  BY <1>2
<1>4. m \in Message /\ "arrived" \in Stages /\ named \in Turns \union {Nothing}
  BY ChatAssumption DEF Stages
<1>5. row \in TurnRow /\ row.at = "arrived" /\ row.message = m /\ row.process = p
  BY <1>1, <1>4 DEF TurnRow
<1>. HIDE DEF row
<1>6. TurnFits(row, turn)
  BY <1>4, <1>5 DEF TurnFits, SettledAt
<1>7. turn[t].at \notin SettledAt
  BY DEF Arrive, SettledAt
<1>8. turn' \in [Turns -> TurnRow] /\ TurnsFit' /\ DoneStays
  BY <1>3, <1>5, <1>6, <1>7, OneTurnGoesOn
<1> QED
  BY <1>8, StoresKept DEF Arrive, ChatInv, ChatTyped

\* A turn looks for an action that waits for its answer.
LEMMA LookSafe == ASSUME ChatInv, NEW t \in Turns, Look(t) PROVE ChatInv'
<1>1. turn \in [Turns -> TurnRow] /\ TurnsFit /\ turn[t].at = "arrived" /\ lost \in Nat
  BY DEF ChatInv, ChatTyped, Look
<1>2. PICK item : /\ Get("confirmation", turn[t].process, item)
                  /\ Judge(t, item) \/ Goes(t, "purging")
  BY DEF Look
<1>3. UNCHANGED stores /\ lost' \in {lost, lost + 1}
  BY <1>2 DEF Get, Fails
<1>4. CASE Judge(t, item)
  <2>1. turn' \in [Turns -> TurnRow] /\ TurnsFit' /\ DoneStays
    BY <1>1, <1>4, JudgeGoesOn DEF SettledAt
  <2> QED
    BY <1>1, <1>3, <2>1, StoresKept DEF Look
<1>5. CASE Goes(t, "purging")
  <2>1. "purging" \in Stages \ ({"new", "supplementing", "executing"} \union SettledAt)
    BY DEF Stages, Synchronous, SettledAt
  <2>2. turn' = [turn EXCEPT ![t] = [turn[t] EXCEPT !.at = "purging"]]
    BY <1>5 DEF Goes
  <2>3. turn' \in [Turns -> TurnRow] /\ TurnsFit' /\ DoneStays
    BY <1>1, <2>1, <2>2, GoingRow, OneTurnGoesOn DEF SettledAt
  <2> QED
    BY <1>1, <1>3, <2>3, StoresKept DEF Look
<1> QED
  BY <1>2, <1>4, <1>5

\* A turn ends: it executed, was blocked or answered, or its time was over.
LEMMA EndSafe ==
  ASSUME ChatInv, NEW t \in Turns, Execute(t) \/ Block(t) \/ ReplyTo(t) \/ Abandon(t)
  PROVE  ChatInv'
<1>1. turn \in [Turns -> TurnRow] /\ lost \in Nat /\ turn[t] \in TurnRow
  BY DEF ChatInv, ChatTyped
<1>2. turn' \in [Turns -> TurnRow] /\ TurnsFit' /\ DoneStays
  <2>1. CASE Block(t)
    BY <2>1, TurnIsAnswered DEF Block, SettledAt, Decisions
  <2>2. CASE ReplyTo(t) \/ Abandon(t)
    <3>1. PICK how \in {"answered", "unanswered"} : turn' = [turn EXCEPT ![t] = Ended(turn[t], how)]
      BY <2>2 DEF ReplyTo, Abandon
    <3> QED
      BY <1>1, <3>1, EndedRow, OneTurnGoesOn DEF SettledAt
  <2>3. CASE Execute(t)
    <3>1. PICK failed, asks \in SUBSET Agents(turn[t].item) :
            turn' = [turn EXCEPT ![t] =
              [Ended(Decided(t, IF turn[t].item.rule # "none" THEN "reject" ELSE "execute"), "answered") EXCEPT
                !.escalated = asks \ failed # {} \/ (~Parallel(turn[t].item) /\ turn[t].item.urgent)]]
      BY <2>3 DEF Execute
    <3>. DEFINE decision == IF turn[t].item.rule # "none" THEN "reject" ELSE "execute"
                escalates == asks \ failed # {} \/ (~Parallel(turn[t].item) /\ turn[t].item.urgent)
                ended == Ended(Decided(t, decision), "answered")
                row == [ended EXCEPT !.escalated = escalates]
    <3>2. Decided(t, decision) \in TurnRow
      BY <1>1, DecidedRow DEF Decisions
    <3>3. ended \in TurnRow /\ ended.at = "answered" /\ ended.process = Nothing
      BY <3>2, EndedRow
    <3>4. turn' = [turn EXCEPT ![t] = row]
      BY <3>1
    <3>5. escalates \in BOOLEAN
      OBVIOUS
    <3>. HIDE DEF ended, escalates, decision
    <3>6. row \in TurnRow /\ row.at = "answered" /\ row.process = Nothing
      BY <3>3, <3>5 DEF TurnRow
    <3>. HIDE DEF row
    <3>7. TurnFits(row, turn)
      BY <3>6 DEF TurnFits, SettledAt
    <3>8. turn[t].at \notin SettledAt
      BY <2>3 DEF Execute, SettledAt
    <3> QED
      BY <3>4, <3>6, <3>7, <3>8, OneTurnGoesOn
  <2> QED
    BY <2>1, <2>2, <2>3
<1> QED
  BY <1>1, <1>2, StoresKept DEF Execute, Block, ReplyTo, Abandon


\* Those that take an item away.
LEMMA PopsSafe ==
  ASSUME ChatInv, NEW kind \in Kinds, NEW p \in Processes, NEW item, Pop(kind, p, item),
         DoneStays, TurnsFit', turn' \in [Turns -> TurnRow], consumed' = consumed
  PROVE  ChatInv'
<1>1. ChatTyped /\ ConfirmationsFit /\ ConsumedIsGone /\ "confirmation" \in Kinds
  BY DEF ChatInv, Kinds
<1>2. /\ shared' \in [Kinds -> KeptItem] /\ copy' \in [Processes -> [Kinds -> KeptItem]] /\ lost' \in Nat
      /\ shared'["confirmation"] \in {shared["confirmation"], Nothing}
      /\ \A q \in Processes : copy'[q]["confirmation"] \in {copy[q]["confirmation"], Nothing}
      /\ lost' >= lost
  <2>1. lost \in Nat
    BY <1>1 DEF ChatTyped
  <2> QED
    BY <1>1, <2>1, PopTakes
<1>3. ChatTyped'
  BY <1>1, <1>2 DEF ChatTyped
<1>4. ConfirmationsFit'
  BY <1>1, <1>2, ConfirmationsStayFit
<1>5. ConsumedIsGone'
  BY <1>1, <1>2, ConsumedStaysGone
<1> QED
  BY <1>3, <1>4, <1>5 DEF ChatInv

\* A turn drops an action that waits.
LEMMA PurgeSafe == ASSUME ChatInv, NEW t \in Turns, Purge(t) PROVE ChatInv'
<1>1. turn[t].at = "purging" /\ turn[t].process \in Processes /\ "confirmation" \in Kinds
  BY DEF Purge, ChatInv, TurnsFit, TurnFits, Kinds, SettledAt
<1>2. turn' \in [Turns -> TurnRow] /\ TurnsFit' /\ DoneStays
  BY <1>1, JudgeGoesOn DEF Purge, SettledAt
<1> QED
  BY <1>1, <1>2, PopsSafe DEF Purge

\* A confirmation that is consumed was asked for, and is then gone.
LEMMA ConsumeSafe == ASSUME ChatInv, NEW t \in Turns, Consume(t) PROVE ChatInv'
<1>. DEFINE p == turn[t].process
<1>1. /\ ChatTyped /\ ConfirmationsFit /\ ConsumedIsGone /\ TurnsFit /\ "confirmation" \in Kinds
      /\ turn \in [Turns -> TurnRow] /\ consumed \in [Turns -> SUBSET Turns]
      /\ turn[t].at \in {"discarding", "cancelling", "confirming"}
  BY DEF Consume, ChatInv, ChatTyped, Kinds
<1>2. p \in Processes /\ (turn[t].at = "confirming" => turn[t].message.word = "yes")
  BY <1>1 DEF TurnsFit, TurnFits, SettledAt
<1>3. PICK item :
        /\ Pop("confirmation", p, item)
        /\ consumed' = IF Live("confirmation", item)
                         THEN [consumed EXCEPT ![item.turn] = @ \union {t}] ELSE consumed
        /\ IF turn[t].at = "confirming" /\ Live("confirmation", item)
             THEN Carries(t, "executing", item) ELSE Answers(t, "reject")
  BY DEF Consume
<1>4. /\ shared' \in [Kinds -> KeptItem] /\ copy' \in [Processes -> [Kinds -> KeptItem]] /\ lost' \in Nat
      /\ item \in {shared["confirmation"], copy[p]["confirmation"]}
      /\ shared'["confirmation"] \in {shared["confirmation"], Nothing}
      /\ \A q \in Processes : copy'[q]["confirmation"] \in {copy[q]["confirmation"], Nothing}
      /\ \/ lost' = lost /\ item = shared["confirmation"] /\ shared'["confirmation"] = Nothing
         \/ lost' = lost + 1
  BY <1>1, <1>2, <1>3, PopTakes
<1>5. Live("confirmation", item) => IsAskedFor(item, turn)
  BY <1>1, <1>2, <1>4 DEF Live, ConfirmationsFit
<1>6. turn' \in [Turns -> TurnRow] /\ TurnsFit' /\ DoneStays
  <2>1. CASE Answers(t, "reject")
    BY <1>1, <2>1, TurnIsAnswered DEF Decisions, SettledAt
  <2>2. CASE /\ turn[t].at = "confirming" /\ Live("confirmation", item)
             /\ Carries(t, "executing", item)
    <3>1. item \in ChatItem
      BY <1>5, <2>2 DEF IsAskedFor
    <3>2. turn' = [turn EXCEPT ![t] = [turn[t] EXCEPT !.at = "executing", !.item = item]]
      BY <2>2 DEF Carries
    <3> QED
      BY <1>1, <1>2, <1>5, <2>2, <3>1, <3>2, CarryingRow, OneTurnGoesOn DEF SettledAt
  <2> QED
    BY <1>3, <2>1, <2>2
<1>7. consumed' \in [Turns -> SUBSET Turns]
  BY <1>1, <1>3
<1>8. ChatTyped'
  BY <1>4, <1>6, <1>7 DEF ChatTyped
<1>9. ConfirmationsFit'
  BY <1>1, <1>4, <1>6, ConfirmationsStayFit
<1>10. ConsumedIsGone'
  <2> SUFFICES ASSUME NEW u \in Turns
               PROVE  /\ consumed'[u] # {} => turn'[u].at \in SettledAt
                      /\ IsFiniteSet(consumed'[u]) /\ Cardinality(consumed'[u]) + InRedis(u)' <= 1 + lost'
    BY DEF ConsumedIsGone
  <2>1. /\ consumed[u] # {} => turn[u].at \in SettledAt
        /\ IsFiniteSet(consumed[u]) /\ Cardinality(consumed[u]) + InRedis(u) <= 1 + lost
        /\ lost \in Nat /\ lost' \in {lost, lost + 1}
    BY <1>1, <1>4 DEF ConsumedIsGone, ChatTyped
  <2>2. Cardinality(consumed[u]) \in Nat /\ InRedis(u) \in {0, 1} /\ InRedis(u)' \in {0, 1} /\ InRedis(u)' <= InRedis(u)
    BY <1>4, <2>1, FS_CardinalityType DEF InRedis
  <2>3. CASE consumed'[u] = consumed[u]
    BY <1>6, <2>1, <2>2, <2>3 DEF DoneStays
  <2>4. CASE consumed'[u] # consumed[u]
    <3>1. Live("confirmation", item) /\ u = item.turn /\ consumed'[u] = consumed[u] \union {t}
      BY <1>1, <1>3, <2>4
    <3>2. turn'[u].at \in SettledAt
      BY <1>5, <1>6, <3>1 DEF IsAskedFor, DoneStays
    <3>3. /\ IsFiniteSet(consumed'[u]) /\ Cardinality(consumed'[u]) \in Nat
          /\ Cardinality(consumed'[u]) <= Cardinality(consumed[u]) + 1
      <4>1. IsFiniteSet(consumed'[u]) /\ Cardinality(consumed'[u]) \in {Cardinality(consumed[u]), Cardinality(consumed[u]) + 1}
        BY <2>1, <3>1, FS_AddElement
      <4> QED
        BY <2>2, <4>1
    <3>4. CASE lost' = lost /\ item = shared["confirmation"] /\ shared'["confirmation"] = Nothing
      <4>1. InRedis(u) = 1 /\ InRedis(u)' = 0
        BY <3>1, <3>4 DEF InRedis, Live
      <4> QED
        BY <2>1, <2>2, <3>2, <3>3, <3>4, <4>1
    <3>5. CASE lost' = lost + 1
      BY <2>1, <2>2, <3>2, <3>3, <3>5
    <3> QED
      BY <1>4, <3>2, <3>4, <3>5
  <2> QED
    BY <2>3, <2>4
<1> QED
  BY <1>6, <1>8, <1>9, <1>10 DEF ChatInv

\* A turn asks for what is missing, or for a confirmation.
LEMMA ClarifySafe == ASSUME ChatInv, NEW t \in Turns, Clarify(t) PROVE ChatInv'
<1>. DEFINE p == turn[t].process
<1>1. /\ ChatTyped /\ TurnsFit /\ "clarification" \in Kinds /\ turn[t].at = "clarifying"
      /\ turn \in [Turns -> TurnRow] /\ shared \in [Kinds -> KeptItem]
      /\ copy \in [Processes -> [Kinds -> KeptItem]] /\ consumed' = consumed
  BY DEF Clarify, ChatInv, ChatTyped, Kinds
<1>2. p \in Processes
  BY <1>1 DEF TurnsFit, TurnFits, SettledAt
<1>3. PICK item :
        /\ Pop("clarification", p, item)
        /\ \/ Goes(t, "recognizing") \/ Answers(t, "reject")
           \/ Live("clarification", item) /\ Carries(t, "supplementing", item)
  BY DEF Clarify
<1>4. item \in KeptItem
  BY <1>1, <1>2, <1>3, PopTakes
<1>5. turn' \in [Turns -> TurnRow] /\ TurnsFit' /\ DoneStays
  <2>1. CASE Answers(t, "reject")
    BY <1>1, <2>1, TurnIsAnswered DEF Decisions, SettledAt
  <2>2. CASE Goes(t, "recognizing")
    <3>1. "recognizing" \in Stages \ ({"new", "supplementing", "executing"} \union SettledAt)
      BY DEF Stages, SettledAt
    <3>2. turn' = [turn EXCEPT ![t] = [turn[t] EXCEPT !.at = "recognizing"]]
      BY <2>2 DEF Goes
    <3> QED
      BY <1>1, <3>1, <3>2, GoingRow, OneTurnGoesOn DEF SettledAt
  <2>3. CASE Live("clarification", item) /\ Carries(t, "supplementing", item)
    <3>1. item \in ChatItem
      BY <1>4, <2>3 DEF Live, KeptItem
    <3>2. turn' = [turn EXCEPT ![t] = [turn[t] EXCEPT !.at = "supplementing", !.item = item]]
      BY <2>3 DEF Carries
    <3> QED
      BY <1>1, <3>1, <3>2, CarryingRow, OneTurnGoesOn DEF SettledAt
  <2> QED
    BY <1>3, <2>1, <2>2, <2>3
<1> QED
  BY <1>1, <1>2, <1>3, <1>5, PopsSafe

-----------------------------------------------------------------------------
\* Those that put one somewhere: a confirmation is put by the turn that asks for it, which is
\* then over.
LEMMA PutsSafe ==
  ASSUME ChatInv, NEW t \in Turns, turn[t].at \notin SettledAt, NEW kind \in Kinds, NEW p \in Processes,
         NEW item \in ChatItem, Put(kind, p, item), item.turn = t,
         DoneStays, TurnsFit', turn' \in [Turns -> TurnRow], consumed' = consumed,
         kind = "confirmation" => IsAskedFor(item, turn')
  PROVE  ChatInv'
<1>1. ChatTyped /\ ConfirmationsFit /\ ConsumedIsGone /\ "confirmation" \in Kinds
  BY DEF ChatInv, Kinds
<1>2. /\ shared' \in [Kinds -> KeptItem] /\ copy' \in [Processes -> [Kinds -> KeptItem]]
      /\ lost' \in Nat /\ lost' >= lost
      /\ \/ shared'["confirmation"] = shared["confirmation"]
         \/ kind = "confirmation" /\ shared'["confirmation"] = item
      /\ \A q \in Processes : \/ copy'[q]["confirmation"] = copy[q]["confirmation"]
                              \/ kind = "confirmation" /\ copy'[q]["confirmation"] = item
  BY <1>1, PutKeeps
<1>3. ChatTyped'
  BY <1>1, <1>2 DEF ChatTyped
<1>4. ConfirmationsFit'
  BY <1>1, <1>2, ConfirmationsStayFit
<1>5. ConsumedIsGone'
  BY <1>1, <1>2, ConsumedStaysGone
<1> QED
  BY <1>3, <1>4, <1>5 DEF ChatInv

\* A turn that is answered with an item it has put.
LEMMA AsksSafe ==
  ASSUME ChatInv, NEW t \in Turns, turn[t].at \notin {"new"} \union SettledAt, NEW item \in ChatItem, item.turn = t,
         NEW complete \in BOOLEAN, complete => Missing(item.rule, item.entities) = {},
         Put(IF complete THEN "confirmation" ELSE "clarification", turn[t].process, item),
         IF complete THEN Asks(t, "confirm") ELSE Answers(t, "clarify"), consumed' = consumed
  PROVE  ChatInv'
<1>1. turn \in [Turns -> TurnRow] /\ TurnsFit /\ turn[t].at \notin SettledAt
  BY DEF ChatInv, ChatTyped
<1>2. turn[t].process \in Processes
  BY <1>1 DEF TurnsFit, TurnFits
<1>3. CASE complete
  <2>1. /\ turn' \in [Turns -> TurnRow] /\ TurnsFit' /\ DoneStays
        /\ turn'[t].at \in SettledAt /\ turn'[t].decided = "confirm"
    BY <1>1, <1>3, TurnIsAnswered DEF Decisions
  <2>2. IsAskedFor(item, turn')
    BY <1>3, <2>1 DEF IsAskedFor
  <2> QED
    BY <1>1, <1>2, <1>3, <2>1, <2>2, PutsSafe DEF Kinds
<1>4. CASE ~complete
  <2>1. turn' \in [Turns -> TurnRow] /\ TurnsFit' /\ DoneStays
    BY <1>1, <1>4, TurnIsAnswered DEF Decisions
  <2> QED
    BY <1>1, <1>2, <1>4, <2>1, PutsSafe DEF Kinds
<1> QED
  BY <1>3, <1>4

\* A turn adds what the message says to the action it took.
LEMMA SupplementSafe == ASSUME ChatInv, NEW t \in Turns, Supplement(t) PROVE ChatInv'
<1>. DEFINE item == turn[t].item
            m == turn[t].message
            merged == Supplied(item, m)
            missing == Missing(item.rule, merged)
            both == [domains |-> item.domains \union m.domains, urgent |-> item.urgent]
            renewed == Item(t, item.rule, merged, both)
<1>1. /\ turn \in [Turns -> TurnRow] /\ TurnsFit /\ turn[t].at = "supplementing" /\ consumed' = consumed
  BY DEF Supplement, ChatInv, ChatTyped
<1>2. item \in ChatItem /\ m \in Message /\ turn[t].process \in Processes
  BY <1>1 DEF TurnsFit, TurnFits, SettledAt
<1>3. /\ merged \in Entities /\ item.rule \in Risky \union {"none"}
      /\ both.domains \in SUBSET STRING /\ both.urgent \in BOOLEAN
  BY <1>2, SuppliedIsTyped DEF ChatItem, Message
<1>4. renewed \in ChatItem /\ renewed.turn = t /\ renewed.rule = item.rule /\ renewed.entities = merged
  BY <1>3 DEF Item, ChatItem
<1>. HIDE DEF renewed, merged, both
<1>5. CASE /\ Put("clarification", turn[t].process, [item EXCEPT !.turn = t])
           /\ Goes(t, "recognizing")
  <2>1. [item EXCEPT !.turn = t] \in ChatItem /\ [item EXCEPT !.turn = t].turn = t
    BY <1>2 DEF ChatItem
  <2>2. "recognizing" \in Stages \ ({"new", "supplementing", "executing"} \union SettledAt)
    BY DEF Stages, SettledAt
  <2>3. turn' = [turn EXCEPT ![t] = [turn[t] EXCEPT !.at = "recognizing"]]
    BY <1>5 DEF Goes
  <2>4. turn' \in [Turns -> TurnRow] /\ TurnsFit' /\ DoneStays
    BY <1>1, <2>2, <2>3, GoingRow, OneTurnGoesOn DEF SettledAt
  <2> QED
    BY <1>1, <1>2, <1>5, <2>1, <2>4, PutsSafe DEF Kinds, SettledAt
<1>6. CASE Put("clarification", turn[t].process, renewed) /\ Answers(t, "clarify")
  BY <1>1, <1>4, <1>6, AsksSafe DEF SettledAt
<1>7. CASE missing = {} /\ Put("confirmation", turn[t].process, renewed) /\ Asks(t, "confirm")
  BY <1>1, <1>4, <1>7, AsksSafe DEF SettledAt
<1> QED
  BY <1>5, <1>6, <1>7 DEF Supplement, renewed, merged, both

\* A turn decides what becomes of its action.
LEMMA DecideSafe == ASSUME ChatInv, NEW t \in Turns, Decide(t) PROVE ChatInv'
<1>. DEFINE m == turn[t].message
<1>1. /\ turn \in [Turns -> TurnRow] /\ TurnsFit /\ turn[t].at = "recognizing" /\ consumed' = consumed
      /\ lost \in Nat
  BY DEF Decide, ChatInv, ChatTyped
<1>2. m \in Message
  BY <1>1 DEF TurnsFit, TurnFits, SettledAt
<1>3. m.rule \in Risky \union {"none"} /\ m.domains \in SUBSET STRING /\ m.urgent \in BOOLEAN
  BY <1>2 DEF Message
<1>4. CASE /\ Answers(t, "reject") \/ Answers(t, "clarify")
           /\ UNCHANGED <<stores, expired, lost>>
  <2>1. turn' \in [Turns -> TurnRow] /\ TurnsFit' /\ DoneStays
    BY <1>1, <1>4, TurnIsAnswered DEF Decisions, SettledAt
  <2> QED
    BY <1>1, <1>4, <2>1, StoresKept
<1>5. CASE /\ Carries(t, "executing", Item(t, "none", [f \in Fields |-> "none"], m))
           /\ UNCHANGED <<stores, expired, lost>>
  <2>. DEFINE plain == Item(t, "none", [f \in Fields |-> "none"], m)
  <2>1. [f \in Fields |-> "none"] \in Entities
    BY DEF Entities, CurrentRequestOnly, Fields
  <2>2. plain \in ChatItem /\ plain.rule = "none"
    BY <1>3, <2>1 DEF Item, ChatItem
  <2>3. turn' = [turn EXCEPT ![t] = [turn[t] EXCEPT !.at = "executing", !.item = plain]]
    BY <1>5 DEF Carries
  <2>. HIDE DEF plain
  <2>4. turn' \in [Turns -> TurnRow] /\ TurnsFit' /\ DoneStays
    BY <1>1, <2>2, <2>3, CarryingRow, OneTurnGoesOn DEF SettledAt
  <2> QED
    BY <1>1, <1>5, <2>4, StoresKept
<1>6. ASSUME NEW guessed,
             Put(IF Missing(m.rule, Merged(guessed, m)) = {} THEN "confirmation" ELSE "clarification",
                 turn[t].process, Item(t, m.rule, Merged(guessed, m), m)),
             IF Missing(m.rule, Merged(guessed, m)) = {} THEN Asks(t, "confirm") ELSE Answers(t, "clarify")
      PROVE  ChatInv'
  <2>. DEFINE item == Item(t, m.rule, Merged(guessed, m), m)
  <2>1. /\ item \in ChatItem /\ item.turn = t /\ item.rule = m.rule
        /\ item.entities = Merged(guessed, m)
    BY <1>2, <1>3, MergedIsTyped DEF Item, ChatItem
  <2>. DEFINE complete == Missing(m.rule, Merged(guessed, m)) = {}
  <2>2. /\ Put(IF complete THEN "confirmation" ELSE "clarification", turn[t].process, item)
        /\ IF complete THEN Asks(t, "confirm") ELSE Answers(t, "clarify")
    BY <1>6
  <2>3. complete \in BOOLEAN /\ (complete => Missing(item.rule, item.entities) = {})
    BY <2>1
  <2>. HIDE DEF item, complete
  <2> QED
    BY <1>1, <2>1, <2>2, <2>3, AsksSafe DEF SettledAt
<1> QED
  BY <1>4, <1>5, <1>6 DEF Decide

-----------------------------------------------------------------------------
\* Time, and processes that restart.
LEMMA SurroundingsSafe ==
  ASSUME ChatInv,
         \/ \E k \in Kinds : Lapse(k) \/ Evict(k)
         \/ \E p \in Processes : Restart(p)
         \/ UNCHANGED chatVars
  PROVE  ChatInv'
<1>1. /\ turn \in [Turns -> TurnRow] /\ lost \in Nat /\ ChatTyped /\ ConfirmationsFit
      /\ ConsumedIsGone /\ TurnsFit
  BY DEF ChatInv, ChatTyped
<1>2. ASSUME NEW k \in Kinds, Lapse(k) PROVE ChatInv'
  BY <1>1, <1>2, StoresKept DEF Lapse, TurnsFit, TurnFits, DoneStays
<1>3. ASSUME NEW k \in Kinds, Evict(k) PROVE ChatInv'
  <2>1. UNCHANGED <<copy, turn, consumed, lost>> /\ shared' = Without(k)
    BY <1>3 DEF Evict
  <2>2. shared' \in [Kinds -> KeptItem] /\ \A j \in Kinds : shared'[j] \in {shared[j], Nothing}
    BY <1>1, <2>1 DEF ChatTyped, KeptItem, Without
  <2>3. shared'["confirmation"] \in {shared["confirmation"], Nothing}
    BY <2>2 DEF Kinds
  <2>4. ChatTyped'
    BY <1>1, <2>1, <2>2 DEF ChatTyped
  <2>5. TurnsFit' /\ DoneStays
    BY <1>1, <2>1 DEF TurnsFit, DoneStays
  <2>6. ConfirmationsFit'
    BY <1>1, <2>1, <2>3, <2>5, ConfirmationsStayFit
  <2>7. ConsumedIsGone'
    BY <1>1, <2>1, <2>3, <2>5, ConsumedStaysGone
  <2> QED
    BY <2>4, <2>5, <2>6, <2>7 DEF ChatInv
<1>4. ASSUME NEW p \in Processes, Restart(p) PROVE ChatInv'
  <2>1. /\ UNCHANGED <<shared, consumed, lost>>
        /\ copy' = [copy EXCEPT ![p] = [k \in Kinds |-> Nothing]]
        /\ \A t \in Turns : turn'[t] = IF turn[t].process = p THEN Ended(turn[t], "unanswered") ELSE turn[t]
        /\ turn' = [t \in Turns |-> turn'[t]]
    BY <1>4 DEF Restart
  <2>2. turn' \in [Turns -> TurnRow]
    BY <1>1, <2>1, EndedRow
  <2>3. DoneStays
    BY <1>1, <2>1, EndedRow DEF DoneStays, SettledAt
  <2>4. TurnsFit'
    <3>1. \A item : IsAskedFor(item, turn) => IsAskedFor(item, turn')
      BY <2>3, StillAskedFor
    <3>2. \A t \in Turns : TurnFits(turn'[t], turn)
      BY <1>1, <2>1, EndedRow DEF TurnsFit
    <3>3. \A t \in Turns : TurnFits(turn'[t], turn')
      BY <3>1, <3>2 DEF TurnFits
    <3> QED
      BY <3>3 DEF TurnsFit
  <2>5. /\ copy' \in [Processes -> [Kinds -> KeptItem]]
        /\ \A q \in Processes, k \in Kinds : copy'[q][k] \in {copy[q][k], Nothing}
    BY <1>1, <2>1 DEF ChatTyped, KeptItem
  <2>6. \A q \in Processes : copy'[q]["confirmation"] \in {copy[q]["confirmation"], Nothing}
    BY <2>5 DEF Kinds
  <2>7. ChatTyped'
    BY <1>1, <2>1, <2>2, <2>5 DEF ChatTyped
  <2>8. ConfirmationsFit'
    BY <1>1, <2>1, <2>3, <2>6, ConfirmationsStayFit
  <2>9. ConsumedIsGone'
    BY <1>1, <2>1, <2>3, ConsumedStaysGone
  <2> QED
    BY <2>4, <2>7, <2>8, <2>9 DEF ChatInv
<1>5. CASE UNCHANGED chatVars
  BY <1>1, <1>5, StoresKept DEF chatVars, TurnsFit, TurnFits, DoneStays
<1> QED
  BY <1>2, <1>3, <1>4, <1>5

\* Every step of a turn keeps the invariant.
LEMMA ChatStep == ChatInv /\ [ChatNext]_chatVars => ChatInv'
<1> SUFFICES ASSUME ChatInv, [ChatNext]_chatVars PROVE ChatInv'
  OBVIOUS
<1>1. ASSUME NEW t \in Turns,
             \/ Arrive(t) \/ Look(t) \/ Purge(t) \/ Consume(t) \/ Clarify(t)
             \/ Supplement(t) \/ Decide(t) \/ Execute(t) \/ Block(t) \/ ReplyTo(t) \/ Abandon(t)
      PROVE  ChatInv'
  BY <1>1, ArriveSafe, LookSafe, PurgeSafe, ConsumeSafe, ClarifySafe, SupplementSafe, DecideSafe, EndSafe
<1> QED
  BY <1>1, SurroundingsSafe DEF ChatNext

\* Nothing has been asked or kept yet.
LEMMA ChatBegins == ChatInit => ChatInv
<1> SUFFICES ASSUME ChatInit PROVE ChatInv
  OBVIOUS
<1>1. Nothing \in KeptItem /\ "new" \in Stages
  BY DEF KeptItem, Stages
<1>2. ChatTyped
  BY <1>1 DEF ChatInit, ChatTyped, TurnRow, Decisions
<1>3. TurnsFit
  BY DEF ChatInit, TurnsFit, TurnFits
<1>4. ConfirmationsFit
  BY DEF ChatInit, ConfirmationsFit, Kinds
<1>5. ConsumedIsGone
  <2> SUFFICES ASSUME NEW t \in Turns
               PROVE  consumed[t] = {} /\ IsFiniteSet(consumed[t]) /\ Cardinality(consumed[t]) + InRedis(t) <= 1 + lost
    BY DEF ConsumedIsGone
  <2>1. consumed[t] = {} /\ lost = 0 /\ InRedis(t) = 0
    BY DEF ChatInit, InRedis, Kinds
  <2> QED
    BY <2>1, FS_EmptySet
<1> QED
  BY <1>2, <1>3, <1>4, <1>5 DEF ChatInv

\* A risky action is taken up once, after the user agreed to it.
LEMMA ChatInvConfirms == ChatInv => ConfirmedOnce
<1> SUFFICES ASSUME ChatInv PROVE ConfirmedOnce
  OBVIOUS
<1>1. ConsumedOnce
  <2> SUFFICES ASSUME NEW t \in Turns PROVE Cardinality(consumed[t]) <= 1 + lost
    BY DEF ConsumedOnce
  <2>1. IsFiniteSet(consumed[t]) /\ Cardinality(consumed[t]) + InRedis(t) <= 1 + lost /\ lost \in Nat
    BY DEF ChatInv, ConsumedIsGone, ChatTyped
  <2>2. Cardinality(consumed[t]) \in Nat /\ InRedis(t) \in {0, 1}
    BY <2>1, FS_CardinalityType DEF InRedis
  <2> QED
    BY <2>1, <2>2
<1>2. RiskIsConfirmed
  <2> SUFFICES ASSUME NEW t \in Turns, Executes(t)
               PROVE  /\ turn[t].message.word = "yes"
                      /\ turn[t].item.turn # t /\ turn[turn[t].item.turn].decided = "confirm"
                      /\ turn[turn[t].item.turn].at \in {"replying", "answered", "unanswered"}
                      /\ \A f \in Required[turn[t].item.rule] \intersect CurrentRequestOnly :
                           turn[t].item.entities[f] = "said"
    BY DEF RiskIsConfirmed
  <2>1. turn[t].message.word = "yes" /\ IsAskedFor(turn[t].item, turn) /\ turn[t].at = "executing"
    BY DEF ChatInv, TurnsFit, TurnFits, Executes
  <2> QED
    BY <2>1, AskedForIsSaid DEF IsAskedFor, SettledAt
<1> QED
  BY <1>1, <1>2 DEF ConfirmedOnce

\* An action that was asked about is taken up by one turn at most, after the user agreed to it,
\* and what it may take from the request alone was said there and not remembered (the pending
\* store and the decision of a turn), for any turns and sessions.
THEOREM ActionsAreConfirmedOnce == ChatSpec => []ConfirmedOnce
BY ChatBegins, ChatStep, ChatInvConfirms, PTL DEF ChatSpec

-----------------------------------------------------------------------------
(* The recognition of intents *)

\* An answer that follows the model, or none; without the model, what was found without it.
Follows(r) ==
  /\ ~r.failed => r.intent \in {r.said, Other} /\ (r.sure < 20 => r.intent = Other)
  /\ r.failed => r.intent \in {v[1] : v \in VotedWithout(r.of)} \union {Other}

\* Keywords and templates cannot elect an intent that the model did not name.
LEMMA ElectedFollows ==
  ASSUME NEW i, NEW c \in Int, NEW emb, emb[2] \in 0..100, NEW pat, pat[2] \in 0..100
  PROVE  LET e == Elected(Weights(<<i, c>>, emb, pat)) IN e \in {i, Other} /\ (c < 20 => e = Other)
<1> DEFINE llm == <<i, c>>
           weights == Weights(llm, emb, pat)
           sums == [n \in DOMAIN weights |-> Weigh(weights, weights[n].vote[1])]
           Top == {n \in DOMAIN weights : \A k \in DOMAIN weights : sums[k] <= sums[n]}
           best == Min(Top)
<1>1. DOMAIN weights = 1..3 /\ weights[1].vote = llm /\ weights[2].vote = emb /\ weights[3].vote = pat
  BY DEF Weights, By
<1>2. ASSUME NEW x
      PROVE  /\ Weigh(weights, x) \in Int
             /\ x # i => Weigh(weights, x) < 5000
             /\ c < 20 => Weigh(weights, x) < 5000
  <2>1. CASE Similar
    <3>1. weights[1].weight = 70 /\ weights[2].weight = 20 /\ weights[3].weight = 10
      BY <2>1 DEF Weights, By
    <3> HIDE DEF weights
    <3>2. /\ Share(weights[1], x) = IF i = x THEN 70 * c ELSE 0
          /\ Share(weights[2], x) = IF emb[1] = x THEN 20 * emb[2] ELSE 0
          /\ Share(weights[3], x) = IF pat[1] = x THEN 10 * pat[2] ELSE 0
      BY <1>1, <3>1 DEF Share
    <3>3. /\ Share(weights[1], x) \in Int
          /\ x # i => Share(weights[1], x) = 0
          /\ c < 20 => Share(weights[1], x) <= 1400
      BY <3>2
    <3>4. Share(weights[2], x) \in 0..2000 /\ Share(weights[3], x) \in 0..1000
      BY <3>2
    <3> DEFINE s1 == Share(weights[1], x)
               s2 == Share(weights[2], x)
               s3 == Share(weights[3], x)
    <3>5. Weigh(weights, x) = s1 + s2 + s3
      BY DEF Weigh
    <3> HIDE DEF s1, s2, s3
    <3>6. s1 \in Int /\ (x # i => s1 = 0) /\ (c < 20 => s1 <= 1400)
      BY <3>3 DEF s1
    <3>7. s2 \in 0..2000 /\ s3 \in 0..1000
      BY <3>4 DEF s2, s3
    <3> QED BY <3>5, <3>6, <3>7
  <2>2. CASE ~Similar
    <3>1. weights[1].weight = 85 /\ weights[2].weight = 0 /\ weights[3].weight = 15
      BY <2>2 DEF Weights, By
    <3> HIDE DEF weights
    <3>2. /\ Share(weights[1], x) = IF i = x THEN 85 * c ELSE 0
          /\ Share(weights[2], x) = 0
          /\ Share(weights[3], x) = IF pat[1] = x THEN 15 * pat[2] ELSE 0
      BY <1>1, <3>1 DEF Share
    <3> QED BY <3>2 DEF Weigh
  <2> QED BY <2>1, <2>2
<1> HIDE DEF weights
<1>3. \A n \in 1..3 : sums[n] = Weigh(weights, weights[n].vote[1]) /\ sums[n] \in Int
  BY <1>1, <1>2
<1> HIDE DEF sums
<1>4. \E n \in 1..3 : \A k \in 1..3 : sums[k] <= sums[n]
  <2>1. CASE sums[2] <= sums[1] /\ sums[3] <= sums[1]
    BY <1>3, <2>1
  <2>2. CASE sums[1] <= sums[2] /\ sums[3] <= sums[2]
    BY <1>3, <2>2
  <2>3. CASE sums[1] <= sums[3] /\ sums[2] <= sums[3]
    BY <1>3, <2>3
  <2> QED BY <1>3, <2>1, <2>2, <2>3
<1>5. Top \subseteq 1..3 /\ Top # {}
  BY <1>1, <1>4
<1> HIDE DEF Top
<1>6. best \in Top
  <2>1. \E n \in Top : \A k \in Top : n =< k
    <3>1. CASE 1 \in Top
      BY <1>5, <3>1
    <3>2. CASE 1 \notin Top /\ 2 \in Top
      BY <1>5, <3>2
    <3>3. CASE 1 \notin Top /\ 2 \notin Top
      <4>1. \A k \in Top : k = 3
        BY <1>5, <3>3
      <4>2. 3 \in Top
        BY <1>5, <4>1
      <4> QED BY <4>1, <4>2
    <3> QED BY <3>1, <3>2, <3>3
  <2> QED BY <2>1 DEF Min
<1> HIDE DEF best
<1> DEFINE x == weights[best].vote[1]
<1>7. Elected(weights) = IF sums[best] >= 5000 THEN x ELSE Other
  BY DEF Elected, sums, Top, best
<1>8. best \in 1..3 /\ sums[best] = Weigh(weights, x)
  BY <1>3, <1>5, <1>6
<1> HIDE DEF x
<1>9. Elected(weights) \in {i, Other} /\ (c < 20 => Elected(weights) = Other)
  BY <1>2, <1>7, <1>8
<1> QED BY <1>9 DEF weights

\* What an asker may be told.
Elects == Intents \union {Other} \union UNION {{m.keywords[1], m.templates[1], m.preset} : m \in Messages}
Result == [intent : Elects, sure : Confidences \union {0, 100}, urgent : BOOLEAN, failed : BOOLEAN,
           said : Elects, of : Messages \union {NobodyAsks}]
\* The results that follow the model, and the entries of the cache that hold one.
Followed == {r \in Result : Follows(r)}
Entries == {m.key : m \in Messages} \X Followed

\* The inductive invariant: what is cached follows the model, as what an asker was told does,
\* and an asker that waits, waits with a message.
IntentInv ==
  /\ intents \in Seq(Entries)
  /\ asked \in [Askers -> Messages \union {NobodyAsks}]
  /\ told \in [Askers -> Followed]

\* Nobody has asked anything at first.
LEMMA NothingAsked == IntentInit => IntentInv
<1> SUFFICES ASSUME IntentInit PROVE IntentInv OBVIOUS
<1>1. NotTold \in Followed
  BY DEF NotTold, Followed, Result, Elects, Follows
<1> QED BY <1>1 DEF IntentInit, IntentInv

\* A result that follows the model may be cached, whatever is dropped for it.
LEMMA CacheFollows ==
  ASSUME IntentInv, NEW m \in Messages, NEW r \in Followed, Remember(m.key, r)
  PROVE  intents' \in Seq(Entries)
<1> DEFINE e == <<m.key, r>>
           kept == IF Len(intents) >= Capacity THEN SubSeq(intents, Capacity \div 2 + 1, Len(intents)) ELSE intents
<1>1. e \in Entries
  BY DEF Entries
<1>2. kept \in Seq(Entries)
  <2>1. Capacity \div 2 + 1 \in Int /\ Capacity \div 2 + 1 >= 1 /\ Len(intents) \in Nat
    BY IntentAssumption DEF IntentInv
  <2>2. \A n \in (Capacity \div 2 + 1)..Len(intents) : intents[n] \in Entries
    BY <2>1 DEF IntentInv
  <2> QED BY <2>1, <2>2, SubSeqProperties DEF IntentInv
<1>3. \/ intents' = Append(kept, e)
      \/ intents' = [n \in DOMAIN kept |-> IF kept[n][1] = m.key THEN e ELSE kept[n]]
  BY DEF Remember
<1> HIDE DEF e, kept
<1>4. CASE intents' = Append(kept, e)
  BY <1>1, <1>2, <1>4, AppendProperties
<1>5. CASE intents' = [n \in DOMAIN kept |-> IF kept[n][1] = m.key THEN e ELSE kept[n]]
  <2>1. DOMAIN kept = 1..Len(kept) /\ Len(kept) \in Nat /\ \A n \in 1..Len(kept) : kept[n] \in Entries
    BY <1>2
  <2>2. intents' \in [1..Len(kept) -> Entries]
    BY <1>1, <1>5, <2>1
  <2> QED BY <2>1, <2>2, IsASeq
<1> QED BY <1>3, <1>4, <1>5

\* What a call of the model leads to follows the model.
LEMMA AnswerFollows ==
  ASSUME NEW m \in Messages, NEW i \in Intents, NEW c \in Confidences, NEW f \in BOOLEAN,
         NEW elected,
         elected = IF f THEN WithoutModel(IF Similar THEN m.templates ELSE <<Other, 0>>, m.keywords)
                   ELSE Elected(Weights(<<i, c>>, IF Similar THEN m.templates ELSE <<Other, 0>>, m.keywords))
  PROVE  [intent |-> elected, sure |-> IF f THEN 0 ELSE c, urgent |-> Urgent(m, elected),
          failed |-> f, said |-> i, of |-> m] \in Followed
<1> DEFINE emb == IF Similar THEN m.templates ELSE <<Other, 0>>
<1>1. emb[2] \in 0..100 /\ m.keywords[2] \in 0..100 /\ c \in Int
  BY IntentAssumption
<1>2. emb[1] \in Elects /\ m.keywords[1] \in Elects /\ i \in Elects /\ Other \in Elects
  BY DEF Elects
<1>3. Urgent(m, elected) \in BOOLEAN
  BY DEF Urgent
<1> HIDE DEF emb
<1>4. CASE f
  <2>1. elected \in Elects
    BY <1>2, <1>4 DEF WithoutModel, emb
  <2>2. elected \in {v[1] : v \in VotedWithout(m)} \union {Other}
    <3>1. elected = WithoutModel(emb, m.keywords)
      BY <1>4 DEF emb
    <3>2. CASE emb[1] # Other /\ emb[2] > 0
      <4>1. Similar /\ emb = m.templates
        BY <3>2 DEF emb
      <4>. QED BY <3>1, <3>2, <4>1 DEF WithoutModel, VotedWithout
    <3>3. CASE ~(emb[1] # Other /\ emb[2] > 0)
      BY <3>1, <3>3 DEF WithoutModel, VotedWithout
    <3>. QED BY <3>2, <3>3
  <2> DEFINE result == [intent |-> elected, sure |-> 0, urgent |-> Urgent(m, elected), failed |-> f, said |-> i, of |-> m]
  <2>3. result \in Result
    BY <1>2, <1>3, <1>4, <2>1 DEF Result
  <2>4. Follows(result)
    BY <1>4, <2>2 DEF Follows
  <2> QED BY <1>4, <2>3, <2>4 DEF Followed
<1>5. CASE ~f
  <2>1. elected = Elected(Weights(<<i, c>>, emb, m.keywords))
    BY <1>5 DEF emb
  <2>2. elected \in {i, Other} /\ (c < 20 => elected = Other)
    BY <1>1, <2>1, ElectedFollows
  <2> QED BY <1>2, <1>3, <1>5, <2>2 DEF Followed, Follows, Result
<1> QED BY <1>4, <1>5

\* A step keeps what is cached and what is told as the model said.
LEMMA IntentStays == IntentInv /\ [IntentNext]_intentVars => IntentInv'
<1> SUFFICES ASSUME IntentInv, [IntentNext]_intentVars PROVE IntentInv' OBVIOUS
<1>1. ASSUME NEW a \in Askers, NEW m \in Messages, RecallIntent(a, m) PROVE IntentInv'
  <2>1. PICK n \in DOMAIN intents : told' = [told EXCEPT ![a] = intents[n][2]]
    BY <1>1 DEF RecallIntent
  <2>2. intents[n][2] \in Followed
    BY DEF IntentInv, Entries
  <2> QED BY <1>1, <2>1, <2>2 DEF RecallIntent, IntentInv
<1>2. ASSUME NEW a \in Askers, NEW m \in Messages, AskModel(a, m) PROVE IntentInv'
  BY <1>2 DEF AskModel, IntentInv
<1>5. ASSUME NEW a \in Askers, NEW m \in Messages, AnswerPreset(a, m) PROVE IntentInv'
  <2>1. Preset(m) = [intent |-> m.preset, sure |-> 100, urgent |-> FALSE, failed |-> FALSE, said |-> m.preset, of |-> m]
    BY DEF Preset
  <2>2. m.preset \in Elects
    BY DEF Elects
  <2>3. Preset(m) \in Followed
    BY <2>1, <2>2 DEF Followed, Follows, Result
  <2>4. told' = [told EXCEPT ![a] = Preset(m)] /\ UNCHANGED <<intents, asked>>
    BY <1>5 DEF AnswerPreset
  <2> QED BY <2>3, <2>4 DEF IntentInv
<1>6. ASSUME NEW a \in Askers, FailToAnswer(a) PROVE IntentInv'
  BY <1>6 DEF FailToAnswer, IntentInv
<1>3. ASSUME NEW a \in Askers, NEW i \in Intents, NEW c \in Confidences, NEW f \in BOOLEAN,
             ModelAnswers(a, i, c, f)
      PROVE  IntentInv'
  <2> DEFINE m == asked[a]
             elected == IF f THEN WithoutModel(IF Similar THEN m.templates ELSE <<Other, 0>>, m.keywords)
                        ELSE Elected(Weights(<<i, c>>, IF Similar THEN m.templates ELSE <<Other, 0>>, m.keywords))
             r == [intent |-> elected, sure |-> IF f THEN 0 ELSE c, urgent |-> Urgent(m, elected),
                   failed |-> f, said |-> i, of |-> m]
  <2>1. /\ m # NobodyAsks /\ told' = [told EXCEPT ![a] = r]
        /\ asked' = [asked EXCEPT ![a] = NobodyAsks] /\ Remember(m.key, r)
    BY <1>3 DEF ModelAnswers
  <2>2. m \in Messages
    BY <2>1 DEF IntentInv
  <2>3. r \in Followed
    BY <2>2, AnswerFollows
  <2> HIDE DEF m, r
  <2>4. intents' \in Seq(Entries)
    BY <2>1, <2>2, <2>3, CacheFollows
  <2> QED BY <2>1, <2>3, <2>4 DEF IntentInv
<1>4. CASE UNCHANGED intentVars
  BY <1>4 DEF intentVars, IntentInv
<1> QED BY <1>1, <1>2, <1>3, <1>4, <1>5, <1>6 DEF IntentNext

\* Keywords and templates never outvote a model that answered: what an asker is told, fresh or
\* cached, is the model's intent or none, unless the call it stems from failed; then it is
\* something they found in the message that the call was made for.
THEOREM ModelDecides == IntentSpec => []ModelIsNotOutvoted
<1>1. IntentInv => ModelIsNotOutvoted
  BY DEF IntentInv, ModelIsNotOutvoted, Followed, Follows
<1> QED BY NothingAsked, IntentStays, <1>1, PTL DEF IntentSpec
=============================================================================
