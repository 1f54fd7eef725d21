----------------------------- MODULE SchemaUpgrade -----------------------------
(* Upgrades of the database of the hosted agent (hosting/migrations.py): releases of  *)
(* the code that bring different migrations upgrade one database, may die in the      *)
(* middle of a migration, whose statements cannot be rolled back, and resume it. A     *)
(* service starts only on the schema of its own release.                              *)
EXTENDS Naturals, Sequences

CONSTANTS Hosts,     \* processes that upgrade, and then serve
          ReleaseOf, \* the migrations each host brings: the checksums, by version
          Steps,     \* statements of a migration
          MaxDeaths

ASSUME SchemaAssumption ==
  /\ Steps \in Nat
  /\ \A h \in Hosts : h # "free" /\ DOMAIN ReleaseOf[h] \subseteq Nat

VARIABLES ledger,  \* hosting_schema_migrations: each version's state and checksum
          built,   \* the statements that took effect, by version
          lock,    \* who holds the migration lock
          host,    \* what each host does
          deaths

schemaVars == <<ledger, built, lock, host, deaths>>

LockFree == "free"
Versions == UNION {DOMAIN ReleaseOf[h] : h \in Hosts}
NoRow == [state |-> "none", sum |-> "none"]
HostDown == [at |-> "down", version |-> 0, step |-> 0]

SchemaInit ==
  /\ ledger = [v \in Versions |-> NoRow] /\ built = [v \in Versions |-> {}]
  /\ lock = LockFree /\ host = [h \in Hosts |-> HostDown] /\ deaths = 0

--------------------------------------------------------------------------------
\* Without a look at the checksums.
KnownVersion(h, v) == v \in DOMAIN ReleaseOf[h]

\* audit: the ledger names only versions this release knows, with the same checksums.
Known(h, v) == v \in DOMAIN ReleaseOf[h] /\ ledger[v].sum = ReleaseOf[h][v]
Audited(h) == \A v \in Versions : ledger[v].state = "none" \/ Known(h, v)
Complete(v) == built[v] = 1..Steps

\* upgrade takes the lock and checks the whole history before it changes anything.
Upgrade(h) ==
  /\ host[h].at = "down" /\ lock = LockFree /\ Audited(h)
  /\ lock' = h /\ host' = [host EXCEPT ![h] = [HostDown EXCEPT !.at = "next", !.version = 1]]
  /\ UNCHANGED <<ledger, built, deaths>>

\* A version that was interrupted counts as done.
Settled(v) == ledger[v].state = "applied"

\* The next version: done and still there, or begun again from its first statement.
NextVersion(h) ==
  /\ host[h].at = "next" /\ host[h].version \in DOMAIN ReleaseOf[h]
  /\ LET v == host[h].version IN
     \/ Settled(v) /\ Complete(v) /\ host' = [host EXCEPT ![h].version = v + 1] /\ UNCHANGED ledger
     \/ /\ ~Settled(v)
        /\ ledger' = [ledger EXCEPT ![v] = [state |-> "applying", sum |-> ReleaseOf[h][v]]]
        /\ host' = [host EXCEPT ![h].at = "applying", ![h].step = 1]
  /\ UNCHANGED <<built, lock, deaths>>

\* One statement; what an earlier attempt did is skipped.
Apply(h) ==
  /\ host[h].at = "applying" /\ host[h].step <= Steps
  /\ built' = [built EXCEPT ![host[h].version] = @ \union {host[h].step}]
  /\ host' = [host EXCEPT ![h].step = @ + 1]
  /\ UNCHANGED <<ledger, lock, deaths>>

\* Verified and recorded.
Applied(h) ==
  /\ host[h].at = "applying" /\ host[h].step > Steps /\ Complete(host[h].version)
  /\ ledger' = [ledger EXCEPT ![host[h].version].state = "applied"]
  /\ host' = [host EXCEPT ![h] = [HostDown EXCEPT !.at = "next", !.version = host[h].version + 1]]
  /\ UNCHANGED <<built, lock, deaths>>

\* A statement fails: that is recorded, and the lock is released.
Failed(h) ==
  /\ host[h].at = "applying" /\ deaths < MaxDeaths /\ deaths' = deaths + 1
  /\ ledger' = [ledger EXCEPT ![host[h].version].state = "failed"]
  /\ host' = [host EXCEPT ![h] = HostDown] /\ lock' = LockFree
  /\ UNCHANGED built

Upgraded(h) ==
  /\ host[h].at = "next" /\ host[h].version \notin DOMAIN ReleaseOf[h]
  /\ host' = [host EXCEPT ![h] = HostDown] /\ lock' = LockFree
  /\ UNCHANGED <<ledger, built, deaths>>

\* require_runtime_schema: every migration of the release is applied, and no other known.
Serve(h) ==
  /\ host[h].at = "down" /\ Audited(h)
  /\ \A v \in DOMAIN ReleaseOf[h] : ledger[v].state = "applied" /\ Complete(v)
  /\ host' = [host EXCEPT ![h].at = "serving"]
  /\ UNCHANGED <<ledger, built, lock, deaths>>

StopHost(h) ==
  /\ host[h].at = "serving" /\ host' = [host EXCEPT ![h] = HostDown]
  /\ UNCHANGED <<ledger, built, lock, deaths>>

\* The process dies: its connection, and with it the lock, is lost.
DieUpgrading(h) ==
  /\ lock = h /\ deaths < MaxDeaths /\ deaths' = deaths + 1
  /\ lock' = LockFree /\ host' = [host EXCEPT ![h] = HostDown]
  /\ UNCHANGED <<ledger, built>>

SchemaNext ==
  \E h \in Hosts : \/ Upgrade(h) \/ NextVersion(h) \/ Apply(h) \/ Applied(h) \/ Failed(h)
                   \/ Upgraded(h) \/ Serve(h) \/ StopHost(h) \/ DieUpgrading(h)
SchemaSpec == SchemaInit /\ [][SchemaNext]_schemaVars

--------------------------------------------------------------------------------
\* A service runs on the schema its own release defines, whatever died on the way and
\* whatever other releases upgrade meanwhile (upgrade, require_runtime_schema).
ServesOnItsSchema ==
  \A h \in Hosts : host[h].at = "serving" =>
    \A v \in DOMAIN ReleaseOf[h] : ledger[v].sum = ReleaseOf[h][v] /\ Complete(v)
=============================================================================
