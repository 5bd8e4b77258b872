------------------------- MODULE AutonomousProjects -------------------------
(***************************************************************************)
(* Autonomous projects (cognition/projects.py, AutonomousProjectManager)   *)
(* and the execution of their phases (cognition/execution.py,              *)
(* ProjectPhaseExecutor), with the durable clock that charges active time. *)
(*                                                                         *)
(* One formed project with phases 1..NumPhases.  The two entry points, a   *)
(* review (run_due) and a phase execution (run_phase inside its clock      *)
(* session), are called in any order, one at a time, the way               *)
(* tests/test_autonomous_projects.py calls them; ProjectCycle restricts    *)
(* the order to the one of the cognition cycle.  Each database transaction *)
(* and each file write is a step; the process may crash between two steps  *)
(* and a lease may be invalidated between two steps that do not share a    *)
(* commit scope.  Texts, budgets other than model calls and help actions,  *)
(* sleep reflections and affect are left out.                              *)
(***************************************************************************)
EXTENDS ExecutionLedger, FiniteSetsExt

CONSTANTS
    NumPhases,       \* ordered phases of the project
    Kind,            \* phase -> output type
    Dispositions,    \* what the reviewing model may answer
    MaxCalls,        \* budget.max_model_calls
    MaxCycles,       \* budget.max_cycles
    MaxHelp,         \* budget.max_external_actions
    NoProgressLimit, \* _dynamic_no_progress_limit
    ActiveLimit,     \* active execution time after which a project is abandoned
    Ties,            \* may two revisions fall in one millisecond
    MaxReviews, MaxSessions, MaxSerial, MaxCrashes, MaxInterrupts  \* bounds

Phases == 1..NumPhases
Kinds == {"research", "software", "prediction", "experiment", "collaboration"}
VARIABLES
    project,    \* the row: [status, current, maxCalls]
    phase,      \* phase -> [status, attempts, noProgress]
    reviews,    \* committed reviews
    calls,      \* review number -> the proposal of its succeeded model call
    software,   \* phases whose prototype model call succeeded
    uses,       \* recorded uses: [calls: review numbers, help: count]
    help,       \* an assistance request is open
    clock,      \* the execution clock events
    exec,       \* <<phase, attempt>> -> execution row
    files,      \* path -> content on disk
    trees,      \* executions whose prototype tree is published
    prediction, \* phase -> status of the prediction made for it
    research,   \* phase -> id of its latest accepted research run, 0 when none
    serial,     \* research runs and events made so far (their ids)
    run,        \* the running operation
    paid,       \* history: review model calls answered
    crashes, interrupts

rows == <<project, phase, reviews, calls, software, uses, help, exec, prediction, research>>
disk == <<files, trees>>
vars == <<rows, disk, clock, serial, run, paid, crashes, interrupts>>

Terminals == {"completed", "abandoned"}
NoCall == [disposition |-> "none", phase |-> 0, budget |-> 0]
Idle == [at |-> "idle", session |-> 0, key |-> <<0, 0>>, next |-> "executing",
         evidence |-> NoEvidence, proposal |-> NoCall]
\* The revised budget belongs to scale_down only.
Proposals == {r \in [disposition: Dispositions, phase: Phases, budget: {1, MaxCalls}] :
                r.disposition # "scale_down" => r.budget = MaxCalls}
\* The answer of a committed review is not read again.
Committed == [disposition |-> "committed", phase |-> 0, budget |-> 0]

\* PROJECT_STATUS_TRANSITIONS.
StatusTransitions ==
    [planned   |-> {"active", "paused", "blocked", "abandoned"},
     active    |-> {"paused", "blocked", "completed", "abandoned"},
     paused    |-> {"active", "blocked", "abandoned"},
     blocked   |-> {"active", "paused", "abandoned"},
     completed |-> {}, abandoned |-> {}]

-----------------------------------------------------------------------------
\* The execution clock: start opens a session; stop charges the time since
\* its start, recover charges nothing.
ClockOpen == clock # <<>> /\ Last(clock).action = "start"
Event(action, session, kind, delta) ==
    [action |-> action, session |-> session, kind |-> kind, delta |-> delta]

ChargedUpTo(n) == FoldSeq(LAMBDA e, sum : e.delta + sum, 0, SubSeq(clock, 1, n))
Charged == ChargedUpTo(Len(clock))
\* Mutant: the deadline is compared with > instead of >=.
Overdue_OffByOne == project.status = "active" /\ Charged > ActiveLimit

Overdue == project.status = "active" /\ Charged >= ActiveLimit

\* begin_execution, as part of the step that calls it.
Begun(kind) == Append(clock, Event("start", Len(clock) + 1, kind, 0))
CanBegin == project.status = "active" /\ ~ClockOpen /\ Len(clock) < 2 * MaxSessions

\* Mutant: the time since the start is charged to an interrupted session.
Recovered_Charged ==
    IF ClockOpen
    THEN Append(clock, Event("recover", Last(clock).session, Last(clock).kind, 1))
    ELSE clock

\* recover: what abort_execution and _recover_execution_clocks append.
Recovered == IF ClockOpen
             THEN Append(clock, Event("recover", Last(clock).session, Last(clock).kind, 0))
             ELSE clock

-----------------------------------------------------------------------------
\* _expire_overdue_projects, from _selected_project.
ExpireOverdue ==
    /\ run.at = "idle" /\ Overdue
    /\ project' = [project EXCEPT !.status = "abandoned"]
    /\ UNCHANGED <<phase, reviews, calls, software, uses, help, exec, prediction, research,
                   disk, clock, serial, run, paid, crashes, interrupts>>

\* The same check right after a session was stopped.
ExpireAfter ==
    /\ run.at = "after"
    /\ project' = IF Overdue THEN [project EXCEPT !.status = "abandoned"]
                             ELSE project
    /\ run' = Idle
    /\ UNCHANGED <<phase, reviews, calls, software, uses, help, exec, prediction, research,
                   disk, clock, serial, paid, crashes, interrupts>>

\* finish_execution: the session charges the time that has passed.
Finish ==
    /\ run.at = "finish"
    /\ \E delta \in {0, 1} :
         clock' = Append(clock, Event("stop", run.session, Last(clock).kind, delta))
    /\ ClockOpen /\ Last(clock).session = run.session
    /\ run' = [run EXCEPT !.at = "after"]
    /\ UNCHANGED <<rows, disk, serial, paid, crashes, interrupts>>

Done(r) == IF r.session = 0 THEN Idle ELSE [r EXCEPT !.at = "finish"]

-----------------------------------------------------------------------------
\* _run_project_phase: the active current phase is executed inside a session.
PhaseRunnable ==
    /\ project.status = "active" /\ ~Overdue
    /\ project.current # 0 /\ phase[project.current].status = "active"

BeginPhase ==
    /\ run.at = "idle" /\ PhaseRunnable /\ CanBegin
    /\ clock' = Begun("phase_execution")
    /\ run' = [Idle EXCEPT !.at = "prepare", !.session = Len(clock) + 1,
                           !.key = <<project.current, phase[project.current].attempts>>]
    /\ UNCHANGED <<rows, disk, serial, paid, crashes, interrupts>>

Row == exec[run.key]
MyKind == Kind[run.key[1]]

\* get_or_prepare; a terminal row is returned as it is, and an adapter other
\* than research only starts a prepared one.
Prepare ==
    /\ run.at = "prepare"
    /\ exec' = IF run.key \in DOMAIN exec THEN exec
               ELSE [k \in DOMAIN exec \cup {run.key} |->
                        IF k = run.key THEN Prepared ELSE exec[k]]
    /\ run' = LET row == exec'[run.key]
              IN  CASE row.status \in Terminal -> [run EXCEPT !.at = "finish"]
                    [] row.status = "executing" /\ MyKind # "research" ->
                         [run EXCEPT !.at = "work"]
                    [] OTHER -> [run EXCEPT !.at = "start"]
    /\ UNCHANGED <<project, phase, reviews, calls, software, uses, help, prediction, research,
                   disk, clock, serial, paid, crashes, interrupts>>

\* The ledger transition of the running execution.
Transition(status, evidence, path, hash) ==
    /\ MayMove(Row, status)
    /\ \E tie \in Ties :
         exec' = [exec EXCEPT ![run.key] = Moved(@, status, evidence, path, hash, tie)]

StartExecuting ==
    /\ run.at = "start"
    /\ Transition("executing", NoEvidence, NoPath, NoEvidence)
    /\ run' = [run EXCEPT !.at = "work"]
    /\ UNCHANGED <<project, phase, reviews, calls, software, uses, help, prediction, research,
                   disk, clock, serial, paid, crashes, interrupts>>

\* An adapter ends the execution without an artifact, or leaves it waiting.
Settle(status, evidence) ==
    /\ Transition(status, evidence, NoPath, NoEvidence)
    /\ run' = [run EXCEPT !.at = "finish"]

\* run_research_phase: the search is not authorized, ends unknown, accepts
\* nothing, or a research run bound to the phase was accepted, now or before.
ResearchEnds ==
    /\ run.at = "work" /\ MyKind = "research"
    /\ \/ /\ \E status \in {"blocked", "unknown", "failed"} : Settle(status, NoEvidence)
          /\ UNCHANGED <<research, serial>>
       \/ /\ \/ serial < MaxSerial /\ serial' = serial + 1
             \/ research[run.key[1]] # 0 /\ serial' = serial
          /\ research' = [research EXCEPT ![run.key[1]] = IF serial' > serial THEN serial' ELSE @]
          /\ run' = [run EXCEPT !.at = "write", !.next = "succeeded",
                        !.evidence = [kind |-> "research", id |-> research'[run.key[1]]]]
          /\ UNCHANGED exec
    /\ UNCHANGED <<project, phase, reviews, calls, software, uses, help, prediction,
                   disk, clock, paid, crashes, interrupts>>

\* _run_prediction_record.
PredictionWork ==
    /\ run.at = "work" /\ MyKind = "prediction"
    /\ LET p == run.key[1] IN
       IF Row.evidence.kind = "prediction"
       THEN /\ UNCHANGED prediction
            /\ CASE prediction[p] = "open" -> UNCHANGED exec /\ run' = [run EXCEPT !.at = "finish"]
                 [] prediction[p] = "cancelled" -> Settle("blocked", Row.evidence)
                 [] prediction[p] = "resolved" ->
                      /\ run' = [run EXCEPT !.at = "write", !.next = "succeeded",
                                    !.evidence = [kind |-> "prediction", id |-> 1]]
                      /\ UNCHANGED exec
       ELSE \/ Settle("blocked", NoEvidence) /\ UNCHANGED prediction
            \/ Settle("executing", [kind |-> "pending", id |-> 0]) /\ UNCHANGED prediction
            \* The prediction already made under the phase's key has another
            \* target time: create refuses and the adapter raises.
            \/ /\ prediction[p] # "none"
               /\ run' = [run EXCEPT !.at = "finish"] /\ UNCHANGED <<exec, prediction>>
            \/ /\ prediction[p] = "none"
               /\ prediction' = [prediction EXCEPT ![p] = "open"]
               /\ run' = [run EXCEPT !.at = "write", !.next = "executing",
                             !.evidence = [kind |-> "prediction", id |-> 0]]
               /\ UNCHANGED exec
    /\ UNCHANGED <<project, phase, reviews, calls, software, uses, help, research,
                   disk, clock, serial, paid, crashes, interrupts>>

\* The world resolves or cancels a prediction.
ResolvePrediction(p) ==
    /\ prediction[p] = "open"
    /\ \E status \in {"resolved", "cancelled"} :
         prediction' = [prediction EXCEPT ![p] = status]
    /\ UNCHANGED <<project, phase, reviews, calls, software, uses, help, exec, research,
                   disk, clock, serial, run, paid, crashes, interrupts>>

\* _run_self_experiment: a baseline event, and in a later call a follow-up.
ExperimentWork ==
    /\ run.at = "work" /\ MyKind = "experiment" /\ serial < MaxSerial
    /\ serial' = serial + 1
    /\ IF Row.evidence.kind # "baseline"
       THEN Settle("executing", [kind |-> "baseline", id |-> serial'])
       ELSE /\ run' = [run EXCEPT !.at = "write", !.next = "succeeded",
                          !.evidence = [kind |-> "followup", id |-> serial']]
            /\ UNCHANGED exec
    /\ UNCHANGED <<project, phase, reviews, calls, software, uses, help, prediction, research,
                   disk, clock, paid, crashes, interrupts>>

\* _run_collaboration_request: the message has the phase's key, so sending
\* it again returns the first one.
CollaborationWork ==
    /\ run.at = "work" /\ MyKind = "collaboration"
    /\ run' = [run EXCEPT !.at = "write", !.next = "succeeded",
                          !.evidence = [kind |-> "sent", id |-> run.key[1]]]
    /\ UNCHANGED <<rows, disk, clock, serial, paid, crashes, interrupts>>

\* Mutant: the row is completed before its artifact is on disk.
WriteEvidence_RowFirst ==
    /\ run.at = "write"
    /\ Transition(run.next, run.evidence, PhaseFile(run.key[1]), run.evidence)
    /\ run' = [run EXCEPT !.at = "finish"]
    /\ UNCHANGED <<project, phase, reviews, calls, software, uses, help, prediction, research,
                   disk, clock, serial, paid, crashes, interrupts>>

\* ProjectWorkspace.write: a file is replaced atomically.
Written(path, content) ==
    [f \in DOMAIN files \cup {path} |-> IF f = path THEN content ELSE files[f]]

\* _write_evidence and the write of run_research_phase.
WriteEvidence ==
    /\ run.at = "write"
    /\ \/ /\ files' = Written(PhaseFile(run.key[1]), run.evidence)
          /\ run' = [run EXCEPT !.at = "record"]
          /\ UNCHANGED exec
       \* The write is refused (quota, I/O): research ends blocked, the other
       \* adapters let the error out.
       \/ /\ UNCHANGED files
          /\ IF MyKind = "research" THEN Settle("blocked", run.evidence)
             ELSE run' = [run EXCEPT !.at = "finish"] /\ UNCHANGED exec
    /\ UNCHANGED <<project, phase, reviews, calls, software, uses, help, prediction, research,
                   trees, clock, serial, paid, crashes, interrupts>>

\* _validated_success, or the transition that records a pending prediction:
\* evidence that fails its validator leaves the row blocked.
RecordEvidence ==
    /\ run.at = "record"
    /\ \E status \in IF run.next = "succeeded" THEN {"succeeded", "blocked"} ELSE {run.next} :
         Transition(status, run.evidence, PhaseFile(run.key[1]), run.evidence)
    /\ run' = [run EXCEPT !.at = "finish"]
    /\ UNCHANGED <<project, phase, reviews, calls, software, uses, help, prediction, research,
                   disk, clock, serial, paid, crashes, interrupts>>

-----------------------------------------------------------------------------
\* _PrototypePublication.rollback: manifest, generation and staging removed.
RolledBack(key) ==
    /\ files' = [f \in DOMAIN files \ {ManifestFile(key)} |-> files[f]]
    /\ trees' = trees \ {key}

\* _run_software_prototype up to the model's answer: what an interrupted
\* publication of this execution left is removed first.  The model call has
\* the phase's key, so a later attempt gets the first answer again.
SoftwareProposal ==
    /\ run.at = "work" /\ MyKind = "software"
    /\ RolledBack(run.key)
    /\ \/ /\ run.key[1] \notin software
          /\ \E status \in {"blocked", "unknown"} : Settle(status, NoEvidence)
          /\ UNCHANGED software
       \/ /\ software' = software \cup {run.key[1]}
          /\ run' = [run EXCEPT !.at = "tree"]
          /\ UNCHANGED exec
    /\ UNCHANGED <<project, phase, reviews, calls, uses, help, prediction, research,
                   clock, serial, paid, crashes, interrupts>>

\* publish: the staged tree is renamed into its generation ...
PublishTree ==
    /\ run.at = "tree"
    /\ \/ trees' = trees \cup {run.key} /\ run' = [run EXCEPT !.at = "manifest"]
          /\ UNCHANGED <<files, exec>>
       \* ... or the tree is refused (paths, quota, validator).
       \/ RolledBack(run.key) /\ Settle("blocked", [kind |-> "staged", id |-> 0])
    /\ UNCHANGED <<project, phase, reviews, calls, software, uses, help, prediction, research,
                   clock, serial, paid, crashes, interrupts>>

\* ... and its manifest is written; a failing test rolls everything back.
PublishManifest ==
    /\ run.at = "manifest"
    /\ \/ /\ files' = Written(ManifestFile(run.key), [kind |-> "manifest", id |-> run.key[2]])
          /\ run' = [run EXCEPT !.at = "commit_tree"]
          /\ UNCHANGED <<exec, trees>>
       \/ RolledBack(run.key) /\ Settle("blocked", [kind |-> "staged", id |-> 0])
    /\ UNCHANGED <<project, phase, reviews, calls, software, uses, help, prediction, research,
                   clock, serial, paid, crashes, interrupts>>

\* Mutant: the publication is rolled back on exit although it was committed.
CommitTree_RollsBack ==
    /\ run.at = "commit_tree"
    /\ LET manifest == [kind |-> "manifest", id |-> run.key[2]] IN
       Transition("succeeded", manifest, ManifestFile(run.key), manifest)
    /\ RolledBack(run.key)
    /\ run' = [run EXCEPT !.at = "finish"]
    /\ UNCHANGED <<project, phase, reviews, calls, software, uses, help, prediction, research,
                   clock, serial, paid, crashes, interrupts>>

\* _validated_success with cleanup_failed_artifact.
CommitTree ==
    /\ run.at = "commit_tree"
    /\ LET manifest == [kind |-> "manifest", id |-> run.key[2]] IN
       \/ Transition("succeeded", manifest, ManifestFile(run.key), manifest) /\ UNCHANGED disk
       \/ RolledBack(run.key) /\ Transition("blocked", manifest, NoPath, NoEvidence)
    /\ run' = [run EXCEPT !.at = "finish"]
    /\ UNCHANGED <<project, phase, reviews, calls, software, uses, help, prediction, research,
                   clock, serial, paid, crashes, interrupts>>

-----------------------------------------------------------------------------
\* Mutant: the call that formed the project is not counted.
ModelUse_NoFormation(u) == Cardinality(u.calls)

\* _sync_resource_usage: succeeded review calls become uses (the one of the
\* formation is recorded when the project is formed).
Synced == [uses EXCEPT !.calls = @ \cup {n \in DOMAIN calls : calls[n] # NoCall}]
ModelUse(u) == 1 + Cardinality(u.calls)
Exhausted(u) == ModelUse(u) >= project.maxCalls \/ (MaxHelp > 0 /\ u.help >= MaxHelp)

\* _local_resource_decision: what pauses the project without a model call.
LocalPause(u) ==
    \/ project.status \notin {"paused", "blocked"} /\ (Exhausted(u) \/ reviews >= MaxCycles)
    \/ /\ project.status = "active" /\ project.current # 0
       /\ phase[project.current].noProgress >= NoProgressLimit

\* _apply_local_transition.
Locally(status) ==
    project' = IF status \in StatusTransitions[project.status]
               THEN [project EXCEPT !.status = status] ELSE project

ReviewRuns == run.at = "idle" /\ project.status \notin Terminals /\ ~Overdue

\* run_due when a limit was reached.
PauseLocally ==
    /\ ReviewRuns /\ LocalPause(Synced)
    /\ uses' = Synced
    /\ Locally("paused")
    /\ UNCHANGED <<phase, reviews, calls, software, help, exec, prediction, research,
                   disk, clock, serial, run, paid, crashes, interrupts>>

\* run_due when a review is due: an active project is reviewed in a session.
BeginReview ==
    /\ ReviewRuns /\ ~LocalPause(Synced) /\ reviews < MaxReviews
    /\ uses' = Synced
    /\ \/ /\ project.status = "active" /\ CanBegin
          /\ clock' = Begun("project_review")
          /\ run' = [Idle EXCEPT !.at = "review", !.session = Len(clock) + 1]
       \/ /\ project.status # "active" /\ UNCHANGED clock
          /\ run' = [Idle EXCEPT !.at = "review"]
    /\ UNCHANGED <<project, phase, reviews, calls, software, help, exec, prediction, research,
                   disk, serial, paid, crashes, interrupts>>

\* Mutant: any succeeded attempt of the phase will do.
PhaseExecuted_AnyPhase(p) == \E key \in DOMAIN exec : exec[key].status = "succeeded"

\* _validated_phase_execution: the row of the phase's attempt succeeded and
\* its artifact still verifies.
PhaseExecuted(p) ==
    LET key == <<p, phase[p].attempts>>
    IN  /\ key \in DOMAIN exec /\ exec[key].status = "succeeded"
        /\ RowVerifies(exec[key], files, phase[p].status, project.status)

\* _validate_review.
ReviewValid(proposal) ==
    LET d == proposal.disposition IN
    /\ project.status \notin Terminals
    /\ d = "activate" => project.status \in {"planned", "paused", "blocked"}
    /\ d = "continue" => project.status = "active"
    /\ d = "complete_phase" =>
         phase[proposal.phase].status = "active" /\ PhaseExecuted(proposal.phase)
    /\ d = "scale_down" => proposal.budget <= project.maxCalls
    /\ d = "request_help" => uses.help < MaxHelp


\* _execute_review up to the answer: a succeeded call of this review number
\* is used again when it is still valid; the gateway returns it again even
\* when it is not.
ReviewAnswer ==
    /\ run.at = "review"
    /\ \/ /\ calls[reviews] # NoCall
          /\ ReviewValid(calls[reviews]) \/ ModelUse(uses) < project.maxCalls
          /\ run' = [run EXCEPT !.at = "commit", !.proposal = calls[reviews]]
          /\ UNCHANGED <<project, calls, paid>>
       \/ /\ calls[reviews] # NoCall => ~ReviewValid(calls[reviews])
          /\ ModelUse(uses) >= project.maxCalls
          /\ Locally("paused") /\ run' = Done(run) /\ UNCHANGED <<calls, paid>>
       \/ /\ calls[reviews] = NoCall /\ ModelUse(uses) < project.maxCalls
          /\ \/ run' = Done(run) /\ UNCHANGED <<calls, paid>>
             \/ \E proposal \in Proposals :
                  /\ calls' = [calls EXCEPT ![reviews] = proposal]
                  /\ run' = [run EXCEPT !.at = "commit", !.proposal = proposal]
                  /\ paid' = paid + 1
          /\ UNCHANGED project
    /\ UNCHANGED <<phase, reviews, software, uses, help, exec, prediction, research,
                   disk, clock, serial, crashes, interrupts>>

-----------------------------------------------------------------------------
\* Mutant: completing the last phase moves on to a phase that does not exist.
ReviewedProject_NoLast(proposal) ==
    IF proposal.disposition = "complete_phase"
    THEN [project EXCEPT !.current = proposal.phase + 1]
    ELSE [project EXCEPT !.status = "active"]

\* _commit_review: what each disposition does to the project and its phases.
ReviewedProject(proposal) ==
    LET d == proposal.disposition
        last == proposal.phase = NumPhases
    IN  CASE d = "activate" -> [project EXCEPT !.status = "active"]
          [] d = "complete_phase" /\ last ->
               [project EXCEPT !.status = "completed", !.current = 0]
          [] d = "complete_phase" /\ ~last -> [project EXCEPT !.current = proposal.phase + 1]
          [] d = "scale_down" -> [project EXCEPT !.status = "paused", !.maxCalls = proposal.budget]
          [] d = "pause" -> [project EXCEPT !.status = "paused"]
          [] d = "abandon" -> [project EXCEPT !.status = "abandoned"]
          [] d = "request_help" -> [project EXCEPT !.status = "blocked"]
          [] OTHER -> project

ReviewedPhases(proposal) ==
    LET d == proposal.disposition
        p == proposal.phase
    IN  CASE d = "activate" ->
               [phase EXCEPT ![p].status = "active", ![p].attempts = @ + 1]
          [] d = "continue" -> [phase EXCEPT ![p].attempts = @ + 1]
          [] d = "wait" -> [phase EXCEPT ![p].attempts = @ + 1, ![p].noProgress = @ + 1]
          [] d = "complete_phase" ->
               [q \in Phases |->
                  IF q = p THEN [status |-> "completed", attempts |-> phase[p].attempts + 1,
                                 noProgress |-> 0]
                  ELSE IF q = p + 1 THEN [phase[q] EXCEPT !.status = "active"] ELSE phase[q]]
          [] OTHER -> phase

\* An invalid proposal, or help asked for while a request is open, is rejected.
CommitReview ==
    /\ run.at = "commit"
    /\ LET proposal == run.proposal
           asks == proposal.disposition = "request_help"
       IN  IF ReviewValid(proposal) /\ ~(asks /\ help)
           THEN /\ project' = ReviewedProject(proposal)
                /\ phase' = ReviewedPhases(proposal)
                /\ reviews' = reviews + 1
                /\ calls' = [calls EXCEPT ![reviews] = Committed]
                /\ help' = (help \/ asks)
                /\ uses' = [calls |-> uses.calls \cup {reviews},
                            help |-> uses.help + (IF asks THEN 1 ELSE 0)]
           ELSE UNCHANGED <<project, phase, reviews, calls, help, uses>>
    /\ run' = Done(run)
    /\ UNCHANGED <<software, exec, prediction, research,
                   disk, clock, serial, paid, crashes, interrupts>>

\* _complete_if_settled of the reward workflow closes the request.
ResolveHelp ==
    /\ help /\ help' = FALSE
    /\ UNCHANGED <<project, phase, reviews, calls, software, uses, exec, prediction, research,
                   disk, clock, serial, run, paid, crashes, interrupts>>

-----------------------------------------------------------------------------
\* The lease of the running operation is invalidated: its next transaction
\* raises and abort_execution closes the session.  A prototype is published
\* and recorded inside one commit scope, which an invalidation waits for.
Interrupt ==
    /\ run.at \notin {"idle", "down", "manifest", "commit_tree"} /\ interrupts < MaxInterrupts
    /\ clock' = IF run.session # 0 THEN Recovered ELSE clock
    /\ run' = Idle
    /\ interrupts' = interrupts + 1
    /\ UNCHANGED <<rows, disk, serial, paid, crashes>>

Crash ==
    /\ run.at # "down" /\ crashes < MaxCrashes
    /\ run' = [Idle EXCEPT !.at = "down"]
    /\ crashes' = crashes + 1
    /\ UNCHANGED <<rows, disk, clock, serial, paid, interrupts>>


\* bootstrap of the cognition cycle: _recover_execution_clocks.
Restart ==
    /\ run.at = "down"
    /\ clock' = Recovered
    /\ run' = Idle
    /\ UNCHANGED <<rows, disk, serial, paid, crashes, interrupts>>

-----------------------------------------------------------------------------
\* The project right after _commit_formation.
Init ==
    /\ project = [status |-> "planned", current |-> 1, maxCalls |-> MaxCalls]
    /\ phase = [p \in Phases |-> [status |-> IF p = 1 THEN "active" ELSE "pending",
                                  attempts |-> 0, noProgress |-> 0]]
    /\ reviews = 0 /\ calls = [n \in 0..MaxReviews |-> NoCall]
    /\ software = {} /\ uses = [calls |-> {}, help |-> 0] /\ help = FALSE
    /\ clock = <<>> /\ exec = [k \in {} |-> Prepared] /\ files = [f \in {} |-> NoEvidence]
    /\ trees = {} /\ prediction = [p \in Phases |-> "none"] /\ research = [p \in Phases |-> 0]
    /\ serial = 0 /\ run = Idle /\ paid = 0 /\ crashes = 0 /\ interrupts = 0

PhaseStep ==
    \/ Prepare \/ StartExecuting \/ ResearchEnds \/ PredictionWork \/ ExperimentWork
    \/ CollaborationWork \/ WriteEvidence \/ RecordEvidence
    \/ SoftwareProposal \/ PublishTree \/ PublishManifest \/ CommitTree
ReviewStep == ReviewAnswer \/ CommitReview
ClockStep == Finish \/ ExpireAfter
World == ResolveHelp \/ (\E p \in Phases : ResolvePrediction(p))
Faults == Interrupt \/ Crash \/ Restart

Next ==
    \/ ExpireOverdue \/ PauseLocally \/ BeginReview \/ BeginPhase
    \/ PhaseStep \/ ReviewStep \/ ClockStep \/ World \/ Faults

-----------------------------------------------------------------------------
(* The order in which the cognition cycle drives the operations            *)
(* (cognition/cycle.py, CognitionCycle.run_once): the active current phase *)
(* of the selected project is executed, and only when there is no such     *)
(* phase does the tick reach the project review.                           *)

\* Mutant: the tick goes on to the review after a phase execution.
CycleReview_Always == PauseLocally \/ BeginReview

\* run_due is reached when _run_project_phase returned None.
CycleReview == ~PhaseRunnable /\ (PauseLocally \/ BeginReview)

CycleNext ==
    \/ ExpireOverdue \/ BeginPhase \/ CycleReview
    \/ PhaseStep \/ ReviewStep \/ ClockStep \/ World \/ Faults

Spec == Init /\ [][Next]_vars

\* The running operation goes on, and a stopped process is started again.
Fairness == WF_vars(PhaseStep \/ ReviewStep \/ ClockStep \/ Restart)
LiveSpec == Spec /\ Fairness

-----------------------------------------------------------------------------
\* Type invariant.
TypeOK ==
    /\ project \in [status: DOMAIN StatusTransitions, current: 0..NumPhases,
                    maxCalls: 1..MaxCalls]
    /\ phase \in [Phases -> [status: {"pending", "active", "completed"},
                             attempts: Nat, noProgress: Nat]]
    /\ reviews \in 0..MaxReviews /\ calls \in [0..MaxReviews -> Proposals \cup {NoCall, Committed}]
    /\ software \subseteq Phases /\ uses.calls \subseteq 0..MaxReviews /\ uses.help \in 0..MaxHelp
    /\ help \in BOOLEAN
    /\ \A i \in DOMAIN clock : clock[i].action \in {"start", "stop", "recover"}
    /\ \A k \in DOMAIN exec : k[1] \in Phases /\ exec[k].status \in ExecutionStatuses
    /\ trees \subseteq DOMAIN exec
    /\ prediction \in [Phases -> {"none", "open", "resolved", "cancelled"}]
    /\ research \in [Phases -> 0..MaxSerial] /\ serial \in 0..MaxSerial
    /\ run.at \in {"idle", "down", "prepare", "start", "work", "write", "record", "tree",
                   "manifest", "commit_tree", "review", "commit", "finish", "after"}

\* The validators of the output types: what a succeeded row must rest on.
ResearchValidates(k) == exec[k].evidence.kind = "research" /\ exec[k].evidence.id \in 1..serial
SoftwareValidates(k) == exec[k].evidence.kind = "manifest" /\ k \in trees
PredictionValidates(k) ==
    exec[k].evidence = [kind |-> "prediction", id |-> 1] /\ prediction[k[1]] = "resolved"
ExperimentValidates(k) == exec[k].evidence.kind = "followup"
CollaborationValidates(k) == exec[k].evidence = [kind |-> "sent", id |-> k[1]]
Validates(k) ==
    CASE Kind[k[1]] = "research"   -> ResearchValidates(k)
      [] Kind[k[1]] = "software"   -> SoftwareValidates(k)
      [] Kind[k[1]] = "prediction" -> PredictionValidates(k)
      [] Kind[k[1]] = "experiment" -> ExperimentValidates(k)
      [] OTHER                     -> CollaborationValidates(k)

\* _verify_execution_clocks and _verify_resource_uses.
ClockVerifies ==
    \A i \in DOMAIN clock :
        IF i % 2 = 1 THEN clock[i].action = "start" /\ clock[i].delta = 0
        ELSE /\ clock[i].action \in {"stop", "recover"}
             /\ clock[i].session = clock[i - 1].session /\ clock[i].kind = clock[i - 1].kind
             /\ clock[i].action = "recover" => clock[i].delta = 0
UsesVerify == \A n \in uses.calls : calls[n] # NoCall

\* Whenever the integrity pass runs, whatever crashed or was interrupted
\* before, it accepts every execution row: its history, its artifact on disk,
\* what its output type rests on (ProjectExecutionLedger.
\* verify_integrity).
ExecutionsVerify ==
    \A k \in DOMAIN exec :
        /\ RowVerifies(exec[k], files, phase[k[1]].status, project.status)
        /\ exec[k].status = "succeeded" => Validates(k)

\* A completed phase has an execution that succeeded, so a project that
\* completed has one for each of its phases, however reviews, executions,
\* crashes and retries were interleaved (_validated_phase_execution).
CompletionHasEvidence ==
    /\ \A p \in Phases : phase[p].status = "completed" =>
         \E k \in DOMAIN exec : k[1] = p /\ exec[k].status = "succeeded"
    /\ project.status = "completed" => \A p \in Phases : phase[p].status = "completed"

\* The clock of the project is what _verify_execution_clocks accepts: starts
\* alternate with the event that closes them, for the same session, and only
\* a stop charges time; every recorded use is of an answered call.  An open session belongs to the running operation or
\* to a process that is down.
ClocksVerify ==
    /\ ClockVerifies /\ UsesVerify
    /\ ClockOpen => run.at = "down" \/ run.session = Last(clock).session

\* No session begins once the charged time has reached the limit
\* (_expire_overdue_projects runs before a project is selected).
NoSessionPastLimit ==
    \A i \in DOMAIN clock : clock[i].action = "start" => ChargedUpTo(i) < ActiveLimit

\* A review is paid for once: a crash or an interrupt between the model's
\* answer and the commit leads to the same answer, not to another call.
AnswersPaidOnce == paid = Cardinality({n \in DOMAIN calls : calls[n] # NoCall})

\* The review calls of a project stay within its formation budget, those
\* whose review was interrupted or rejected included.
ReviewCallsWithinBudget == 1 + paid <= MaxCalls


\* docs/implementation/m25-autonomous-projects.md: "Resource usage is
\* reconciled from model calls": a review sees every model call of the
\* project as used.
UsageReconciled ==
    run.at = "review" => ModelUse(uses) = 1 + paid + Cardinality(software)

\* execution.py: "completed project contains an incomplete execution phase"
\* is what the integrity pass refuses, so completion never leaves a phase that
\* was executed without completing it.
CompletedIsComplete ==
    project.status = "completed" => \A k \in DOMAIN exec : phase[k[1]].status = "completed"

\* With no operation running the artifacts on disk are the recorded ones
\* (execution.py: "project execution artifact byte digest mismatch").
ArtifactsVerifyAtRest ==
    run.at \in {"idle", "down"} => \A k \in DOMAIN exec : ArtifactVerifies(exec[k], files)

\* A history is read back as a legal sequence of statuses (execution.py:
\* "project execution transition history mismatch").
HistoriesVerify ==
    \A k \in DOMAIN exec :
        \A history \in ReadOrders(exec[k].revisions) : HistoryVerifies(exec[k], history)

\* One attempt of a phase is executed at most once: while the project is
\* active no review can raise the attempt number, so the cycle works on one
\* row per phase (the order of run_once).
OneAttemptPerActivation ==
    \A k \in DOMAIN exec : \A l \in DOMAIN exec :
        k[1] = l[1] /\ exec[k].status \notin Terminal => k = l

\* docs/implementation/m25-autonomous-projects.md: "The local supervisor
\* pauses a project when a budget, cycle, or no-progress limit is reached":
\* a phase execution does not begin beyond one.
StartsWithinLimits == clock' # clock /\ Last(clock').action = "start" => ~LocalPause(Synced)
=============================================================================
