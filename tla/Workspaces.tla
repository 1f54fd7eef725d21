------------------------------ MODULE Workspaces ------------------------------
(* The snapshot of one workspace (hosting/repository.py, hosting/executor.py): the       *)
(* owner uploads one, a run starts from it and changes a copy of its own, and a run that *)
(* succeeded is committed. A run that failed may be resumed by a new run. Snapshots are  *)
(* content: two runs may come to the same one.                                           *)
EXTENDS Naturals, FiniteSets

CONSTANTS Copies,    \* runs, of several sessions of the workspace
          Contents,  \* snapshots
          MaxRevision,
          Empty      \* no snapshot

VARIABLES head,      \* the workspace: snapshot_ref and version
          workCopy,  \* the runs
          lostWork   \* snapshots a commit replaced although its run never saw them

workVars == <<head, workCopy, lostWork>>

\* saw is the snapshot a run, or the one it resumes, started from.
NoCopy == [at |-> "none", version |-> 0, ref |-> Empty, saw |-> Empty, shell |-> FALSE]

WorkInit ==
  /\ head = [ref |-> Empty, version |-> 1] /\ workCopy = [r \in Copies |-> NoCopy] /\ lostWork = {}

Moved(ref) == head' = [ref |-> ref, version |-> head.version + 1]

\* workspace_snapshot: the owner replaces the snapshot.
Upload(x) == head.version < MaxRevision /\ Moved(x) /\ UNCHANGED <<workCopy, lostWork>>

\* create_run: the version and a checkpoint that names the snapshot.
StartCopy(r) ==
  /\ workCopy[r].at = "none"
  /\ workCopy' = [workCopy EXCEPT ![r] = [NoCopy EXCEPT !.at = "running", !.version = head.version,
                                               !.ref = head.ref, !.saw = head.ref]]
  /\ UNCHANGED <<head, lostWork>>

\* Whatever became of the workspace since.
MayReopenAnyway(r, p) == workCopy[p].at = "failed" /\ ~workCopy[p].shell

\* A run is resumed on an unchanged workspace, from its checkpoint, and never when it
\* used the shell.
MayReopen(r, p) ==
  /\ workCopy[p].at = "failed" /\ workCopy[p].version = head.version /\ ~workCopy[p].shell
Resume(r, p) ==
  /\ workCopy[r].at = "none" /\ MayReopen(r, p)
  /\ workCopy' = [workCopy EXCEPT ![r] = [workCopy[p] EXCEPT !.at = "running", !.version = head.version]]
  /\ UNCHANGED <<head, lostWork>>

\* executor.execute: the tool starts from the checkpoint and leaves another; the call is
\* recorded even when it fails or the run stops before the checkpoint is written.
Shell(r, x) ==
  /\ workCopy[r].at = "running" /\ ~workCopy[r].shell
  /\ workCopy' = [workCopy EXCEPT ![r].ref = x, ![r].shell = TRUE]
  /\ UNCHANGED <<head, lostWork>>
ShellFails(r) ==
  /\ workCopy[r].at = "running" /\ ~workCopy[r].shell
  /\ workCopy' = [workCopy EXCEPT ![r].shell = TRUE]
  /\ UNCHANGED <<head, lostWork>>

CopyEnds(r, how) ==
  /\ workCopy[r].at = "running" /\ workCopy' = [workCopy EXCEPT ![r].at = how] /\ UNCHANGED <<head, lostWork>>

\* Whether the workspace is still the one the run started from.
Unchanged(r) == head.version = workCopy[r].version

\* commit_workspace: nothing to do, or the snapshot is replaced. A run may be committed
\* again.
Commit(r) ==
  /\ workCopy[r].at = "succeeded" /\ workCopy[r].ref # Empty
  /\ workCopy[r].ref # head.ref /\ Unchanged(r) /\ head.version < MaxRevision
  /\ Moved(workCopy[r].ref)
  /\ lostWork' = IF head.ref = workCopy[r].saw THEN lostWork ELSE lostWork \union {head.ref}
  /\ UNCHANGED workCopy

WorkNext ==
  \/ \E x \in Contents : Upload(x)
  \/ \E r \in Copies : \/ StartCopy(r) \/ ShellFails(r) \/ Commit(r)
                       \/ \E p \in Copies : Resume(r, p)
                       \/ \E x \in Contents : Shell(r, x)
                       \/ \E how \in {"succeeded", "failed"} : CopyEnds(r, how)
WorkSpec == WorkInit /\ [][WorkNext]_workVars

--------------------------------------------------------------------------------
\* A commit only replaces the snapshot its run started from, also when the run was
\* resumed: what another run or the owner put there meanwhile is kept (commit_workspace,
\* create_run).
CommitsKeepWork == lostWork = {}
=============================================================================
