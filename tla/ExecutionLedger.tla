-------------------------- MODULE ExecutionLedger --------------------------
(***************************************************************************)
(* The durable rows of a project phase execution (cognition/execution.py,  *)
(* ProjectExecutionLedger): how a row is prepared and moved, and what the  *)
(* integrity pass demands of every row.                                    *)
(*                                                                         *)
(* A row keeps its status, its evidence, the artifact it points to (path   *)
(* and digest) and its revision history.  A digest is the content itself.  *)
(* Revisions are read back ordered by (created_at, revision_id) where the  *)
(* timestamp has milliseconds and the id is random, so two revisions of    *)
(* one millisecond come back in either order: "tie" says that a revision   *)
(* carries the timestamp of the one written before it.                     *)
(***************************************************************************)
EXTENDS Integers, Sequences, FiniteSets, SequencesExt

ExecutionStatuses ==
    {"prepared", "executing", "succeeded", "failed", "unknown", "blocked"}
Terminal == {"succeeded", "failed", "unknown", "blocked"}

NoEvidence == [kind |-> "none", id |-> 0]
NoPath == <<0, 0>>
\* The files of a phase: the adapters other than the prototype's write one
\* evidence file per phase; a prototype has one manifest per execution.
PhaseFile(p) == <<p, -1>>
ManifestFile(key) == key

\* get_or_prepare: the row of <<phase, attempt>>, created when missing.
Prepared ==
    [status |-> "prepared", evidence |-> NoEvidence, path |-> NoPath,
     hash |-> NoEvidence, passed |-> FALSE,
     revisions |-> <<[status |-> "prepared", tie |-> FALSE]>>]

\* transition: a terminal row refuses to move, a prepared one only starts
\* executing; links already recorded are kept when none is given.
MayMove(row, status) ==
    /\ row.status \notin Terminal
    /\ row.status = "prepared" => status = "executing"

Moved(row, status, evidence, path, hash, tie) ==
    [status    |-> status,
     evidence  |-> IF evidence = NoEvidence THEN row.evidence ELSE evidence,
     path      |-> IF path = NoPath THEN row.path ELSE path,
     hash      |-> IF path = NoPath THEN row.hash ELSE hash,
     passed    |-> status = "succeeded",
     revisions |-> Append(row.revisions, [status |-> status, tie |-> tie])]

\* The orders in which a history can be read back: positions that share one
\* timestamp come in any order.
Instant(revisions, i) ==
    Cardinality({j \in 1..i : ~revisions[j].tie})
ReadOrders(revisions) ==
    IF \A i \in 1..Len(revisions) : ~revisions[i].tie
    THEN {revisions}
    ELSE { [i \in 1..Len(revisions) |-> revisions[perm[i]]] :
             perm \in { f \in [1..Len(revisions) -> 1..Len(revisions)] :
                          /\ \A i, j \in 1..Len(revisions) : i # j => f[i] # f[j]
                          /\ \A i \in 1..Len(revisions) - 1 :
                               Instant(revisions, f[i]) <= Instant(revisions, f[i + 1]) } }

HistoryVerifies(row, history) ==
    /\ history[1].status = "prepared"
    /\ \A i \in 2..Len(history) :
         /\ history[i - 1].status = "prepared" => history[i].status = "executing"
         /\ history[i - 1].status \notin Terminal
    /\ history[Len(history)].status = row.status
    /\ row.status = "prepared" => Len(history) = 1

\* _verify_execution_connection: files maps a path to the content on disk.
ArtifactVerifies(row, files) ==
    row.path # NoPath =>
        /\ row.path \in DOMAIN files
        /\ files[row.path] = row.hash
        /\ row.hash = row.evidence

\* _validate_success_connection, for what the adapters can get wrong: the
\* evidence exists and the artifact is its canonical encoding.
SuccessVerifies(row) ==
    row.status = "succeeded" => row.evidence # NoEvidence /\ row.path # NoPath /\ row.passed

RowVerifies(row, files, phaseStatus, projectStatus) ==
    /\ \A history \in ReadOrders(row.revisions) : HistoryVerifies(row, history)
    /\ ArtifactVerifies(row, files)
    /\ SuccessVerifies(row)
    /\ row.passed => row.status = "succeeded"
    /\ projectStatus = "completed" => phaseStatus = "completed"
=============================================================================
