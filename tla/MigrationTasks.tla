--------------------------- MODULE MigrationTasks ---------------------------
(***************************************************************************)
(* The durable status of a migration task: _TASK_TRANSITIONS of            *)
(* src/noyra/migration/manager.py, the table transition_task_in_transaction*)
(* checks every change against.                                            *)
(***************************************************************************)

TaskTransitions ==
  [planned           |-> {"preflight", "awaiting_approval", "cancelled", "failed"},
   preflight         |-> {"awaiting_approval", "approved", "cancelled", "failed"},
   awaiting_approval |-> {"approved", "rejected", "expired", "cancelled"},
   approved          |-> {"preparing", "rolling_back", "cancelled", "failed"},
   preparing         |-> {"transferring", "restoring", "validating", "cutover",
                          "committed", "rolling_back", "failed"},
   transferring      |-> {"restoring", "validating", "rolling_back", "failed"},
   restoring         |-> {"validating", "rolling_back", "failed"},
   validating        |-> {"cutover", "committed", "rolling_back", "failed"},
   cutover           |-> {"committed", "rolling_back", "failed"},
   committed         |-> {},
   rolling_back      |-> {"rolled_back", "failed"},
   rolled_back       |-> {},
   cancelled         |-> {},
   failed            |-> {"preflight", "rolling_back", "cancelled"}]

TaskStates == DOMAIN TaskTransitions

\* Moving to the status a task already has is accepted and changes nothing.
TaskMay(from, to) == from = to \/ to \in TaskTransitions[from]
=============================================================================
