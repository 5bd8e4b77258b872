---------------------------- MODULE SecretCleanup ----------------------------
\* The journal that keeps secret files and database rows together
\* (core/secret_cleanup.py). A key's secret is a file outside the database;
\* its creation and its deletion each have an intent row, and failed
\* deletions are also queued. The operators below are the queue's methods,
\* applied to everything the system holds of one secret:
\*   file, tmp   whether the file, and its temporary predecessor, exist
\*   create      the state of the create intent ("none": no row)
\*   delete      the state of the delete intent
\*   queue       the state of the task in secret_cleanup_queue

IntentStates == {"none", "prepared", "file_ready", "committed", "pending", "failed", "removed"}

QueueStates == {"none", "pending", "failed", "removed"}

Secrets == [file : BOOLEAN, tmp : BOOLEAN, create : IntentStates, delete : IntentStates,
            queue : QueueStates]

NoSecret == [file |-> FALSE, tmp |-> FALSE, create |-> "none", delete |-> "none",
             queue |-> "none"]

\* _SECRET_INTENT_TRANSITIONS: what mark() lets an intent move to.
Transitions ==
  [prepared   |-> {"prepared", "file_ready", "committed", "failed", "removed"},
   file_ready |-> {"file_ready", "committed", "failed", "removed"},
   committed  |-> {"committed", "failed", "removed"},
   pending    |-> {"pending", "failed", "removed"},
   failed     |-> {"failed", "pending", "prepared", "removed"},
   removed    |-> {"removed"}]

CanMark(state, new) == /\ state # "none"
                       /\ new \in Transitions[state]

Mark(s, intent, new) == [s EXCEPT ![intent] = new]

\* A create intent that is new or is reopened after a failure. A removed one
\* is never reopened.
CanPrepareCreate(s) == s.create # "removed"

PrepareCreate(s) == IF s.create \in {"none", "failed"} THEN Mark(s, "create", "prepared") ELSE s

\* Mutant: a completed deletion is prepared again.
PrepareDelete_Reopens(s) == Mark(s, "delete", "pending")

PrepareDelete(s) == IF s.delete = "removed" THEN s ELSE Mark(s, "delete", "pending")

\* The delete intent and the queued task are closed in one transaction.
CompleteDelete(s) ==
  [s EXCEPT !.delete = "removed",
            !.queue = IF @ = "none" THEN "none" ELSE "removed"]

\* record_delete_failure: the error is kept in the queue for a later repair.
Enqueue(s) == [s EXCEPT !.queue = "pending"]

\* Mutant: repair unlinks a queued file without asking who owns it.
RepairQueue_Unchecked(s, live, unlinked) ==
  IF s.queue \notin {"pending", "failed"} THEN s
  ELSE IF ~unlinked THEN [s EXCEPT !.queue = "failed"]
  ELSE [s EXCEPT !.file = FALSE, !.queue = "removed"]

\* repair(): a queued deletion is tried again unless a resource that is not
\* revoked owns the file.
RepairQueue(s, live, unlinked) ==
  IF s.queue \notin {"pending", "failed"} THEN s
  ELSE IF live \/ ~unlinked THEN [s EXCEPT !.queue = "failed"]
  ELSE [s EXCEPT !.file = FALSE, !.queue = "removed"]

\* The first pass of reconcile(): a row that is revoked has a delete intent, a
\* row that is not has a create intent.
Adopt(s, row, live) ==
  IF ~row THEN s
  ELSE IF ~live THEN PrepareDelete(s)
  ELSE IF s.create = "none" THEN PrepareCreate(s) ELSE s

\* The second pass, for a delete intent.
ApplyDelete(s, live, unlinked) ==
  IF s.delete = "none" THEN s
  ELSE IF live THEN Mark(s, "delete", "failed")
  ELSE IF s.file /\ ~unlinked
       THEN IF s.delete = "removed" THEN s ELSE Mark(s, "delete", "failed")
  ELSE CompleteDelete([s EXCEPT !.file = FALSE])

\* Mutant: an intent whose row was never written is taken for a committed one.
ApplyCreate_AlwaysCommits(s, row, live, unlinked) ==
  IF s.create \in {"none", "removed"} THEN s ELSE Mark(s, "create", "committed")

\* The second pass, for a create intent: without a live row its file is a
\* crash orphan; with one the intent ends committed, or failed if the file is
\* missing.
ApplyCreate(s, row, live, unlinked) ==
  IF s.create = "none" THEN s
  ELSE IF ~(row /\ live)
       THEN IF s.file /\ ~unlinked
            THEN IF s.create = "removed" THEN s ELSE Mark(s, "create", "failed")
            ELSE Mark([s EXCEPT !.file = FALSE], "create", "removed")
  ELSE Mark(s, "create", IF s.file THEN "committed" ELSE "failed")

\* The last pass: a file that no open intent protects and no live row owns is
\* an orphan. The temporary file's name is protected by no intent.
SweepOrphans(s, live, unlinked) ==
  LET protected == \/ s.create \in {"prepared", "file_ready", "committed", "failed"}
                   \/ s.delete \in {"pending", "failed"}
  IN [s EXCEPT !.tmp = @ /\ ~unlinked,
               !.file = @ /\ (protected \/ live \/ ~unlinked)]

\* The whole of repair() for one secret.
Repair(s, row, live, unlinked) ==
  LET queued == RepairQueue(s, live, unlinked)
      adopted == Adopt(queued, row, live)
      deleted == ApplyDelete(adopted, live, unlinked)
      created == ApplyCreate(deleted, row, live, unlinked)
  IN SweepOrphans(created, live, unlinked)

\* health(): a secret is settled when nothing of it waits for a repair.
Settled(s) == /\ s.create \in {"none", "committed", "removed"}
              /\ s.delete \in {"none", "removed"}
              /\ s.queue \in {"none", "removed"}
==============================================================================
