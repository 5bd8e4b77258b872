-------------------------------- MODULE MCAgent --------------------------------
(***************************************************************************)
(* The subject's dealings and projects for TLC. Each behaviour exercises   *)
(* one component, in one of the scenes below, and leaves the others where  *)
(* they started.                                                           *)
(***************************************************************************)
EXTENDS Integers, Sequences, FiniteSets

CONSTANT Scenes  \* the scenes of the run

VARIABLES
  scene,
  row, waiting, created, fresh, trans, binding, route, withdrawn, disp, lease,
  recovered, lookups, wire, accepted, stopped, used,
  project, phase, reviews, calls, software, uses, help, clock, exec, files, trees,
  prediction, research, serial, run, paid, crashes, interrupts

delivery == <<row, waiting, created, fresh, trans, binding, route, withdrawn, disp,
  lease, recovered, lookups, wire, accepted, stopped, used>>
projects == <<project, phase, reviews, calls, software, uses, help, clock, exec, files,
  trees, prediction, research, serial, run, paid, crashes, interrupts>>
vars == <<scene, delivery, projects>>

\* A message and a reply through one webhook: timeouts, late answers and a fence.
Faulty == INSTANCE Delivery WITH
  Plain <- {"p"}, Replies <- {"r"}, Pushes <- {}, NumTransports <- 1, Bound <- 1,
  Email <- {}, MaxChanges <- 0, MaxFences <- 1, MaxCrashes <- 0, MaxFaults <- 0

\* One message, a fence and a crash; every queued message comes to an end.
Restarted == INSTANCE Delivery WITH
  Plain <- {"p"}, Replies <- {}, Pushes <- {}, NumTransports <- 1, Bound <- 1,
  Email <- {}, MaxChanges <- 0, MaxFences <- 1, MaxCrashes <- 1, MaxFaults <- 0

\* A push while consent, transport and binding change and a transaction fails.
Consent == INSTANCE Delivery WITH
  Plain <- {}, Replies <- {}, Pushes <- {"p"}, NumTransports <- 1, Bound <- 1,
  Email <- {}, MaxChanges <- 3, MaxFences <- 0, MaxCrashes <- 0, MaxFaults <- 1

\* Mail and webhook transports, a change and a crash.
Mail == INSTANCE Delivery WITH
  Plain <- {"p"}, Replies <- {}, Pushes <- {"w"}, NumTransports <- 2, Bound <- 1,
  Email <- {1}, MaxChanges <- 1, MaxFences <- 0, MaxCrashes <- 1, MaxFaults <- 0

\* Two prototype phases, reviewed and executed in any order; a crash.
Prototypes == INSTANCE AutonomousProjects WITH
  NumPhases <- 2, Kind <- <<"software", "software">>, Dispositions <- {"activate",
  "complete_phase"}, MaxCalls <- 9, MaxCycles <- 9, MaxHelp <- 1, NoProgressLimit <- 3,
  ActiveLimit <- 2, Ties <- {FALSE}, MaxReviews <- 4, MaxSessions <- 4, MaxSerial <- 1,
  MaxCrashes <- 1, MaxInterrupts <- 0

\* Every decision of a review, under tight budgets; a crash.
Limits == INSTANCE AutonomousProjects WITH
  NumPhases <- 2, Kind <- <<"research", "collaboration">>, Dispositions <- {"activate",
  "complete_phase", "wait", "pause", "scale_down", "request_help", "abandon"},
  MaxCalls <- 3, MaxCycles <- 2, MaxHelp <- 1, NoProgressLimit <- 1, ActiveLimit <- 2,
  Ties <- {FALSE}, MaxReviews <- 3, MaxSessions <- 3, MaxSerial <- 1, MaxCrashes <- 1,
  MaxInterrupts <- 0

\* The order of the cognition cycle; a crash and an interrupt.
Cycle == INSTANCE AutonomousProjects WITH
  NumPhases <- 2, Kind <- <<"experiment", "prediction">>, Dispositions <- {"activate",
  "continue", "pause"}, MaxCalls <- 9, MaxCycles <- 9, MaxHelp <- 1,
  NoProgressLimit <- 3, ActiveLimit <- 2, Ties <- {FALSE}, MaxReviews <- 3,
  MaxSessions <- 3, MaxSerial <- 2, MaxCrashes <- 1, MaxInterrupts <- 1

\* Experiments and predictions in any order; sessions close.
Records == INSTANCE AutonomousProjects WITH
  NumPhases <- 2, Kind <- <<"experiment", "prediction">>, Dispositions <- {"activate",
  "continue", "complete_phase"}, MaxCalls <- 9, MaxCycles <- 9, MaxHelp <- 1,
  NoProgressLimit <- 3, ActiveLimit <- 2, Ties <- {FALSE}, MaxReviews <- 3,
  MaxSessions <- 3, MaxSerial <- 4, MaxCrashes <- 1, MaxInterrupts <- 0

------------------------------------------------------------------------------
\* Every component starts; only the one the scene is about takes steps.
Init ==
  /\ scene \in Scenes
  /\ CASE scene = "restart" -> Restarted!Init
       [] scene = "consent" -> Consent!Init
       [] scene = "mail" -> Mail!Init
       [] OTHER -> Faulty!Init
  /\ CASE scene = "prototypes" -> Prototypes!Init
       [] scene = "limits" -> Limits!Init
       [] scene = "records" -> Records!Init
       [] OTHER -> Cycle!Init

Next ==
  /\ \/ /\ \/ scene = "faults" /\ Faulty!Next
           \/ scene = "restart" /\ Restarted!Next
           \/ scene = "consent" /\ Consent!Next
           \/ scene = "mail" /\ Mail!Next
        /\ UNCHANGED <<projects>>
     \/ /\ \/ scene = "prototypes" /\ Prototypes!Next
           \/ scene = "limits" /\ Limits!Next
           \/ scene = "cycle" /\ Cycle!CycleNext
           \/ scene = "records" /\ Records!Next
        /\ UNCHANGED <<delivery>>
  /\ UNCHANGED scene

RestartedDoes(A) == scene = "restart" /\ A /\ UNCHANGED <<scene, projects>>

RecordsDoes(A) == scene = "records" /\ A /\ UNCHANGED <<scene, delivery>>

\* The fairness each component justifies for itself.
Spec == /\ Init /\ [][Next]_vars
        /\ WF_vars(RestartedDoes(Restarted!TickSteps))
        /\ WF_vars(RestartedDoes(Restarted!Elapse("p")))
        /\ WF_vars(RecordsDoes(Records!PhaseStep \/ Records!ReviewStep \/ Records!ClockStep \/ Records!Restart))

------------------------------------------------------------------------------
\* Every variable has its type, in every scene.
TypeOK ==
  CASE scene = "faults" -> Faulty!TypeOK
    [] scene = "restart" -> Restarted!TypeOK
    [] scene = "consent" -> Consent!TypeOK
    [] scene = "mail" -> Mail!TypeOK
    [] scene = "prototypes" -> Prototypes!TypeOK
    [] scene = "limits" -> Limits!TypeOK
    [] scene = "cycle" -> Cycle!TypeOK
    [] scene = "records" -> Records!TypeOK

\* The provider takes a message at most once, whatever crashes, timeouts, fences and
\* retries happen.
AcceptedAtMostOnce ==
  /\ scene = "faults" => Faulty!AcceptedAtMostOnce
  /\ scene = "restart" => Restarted!AcceptedAtMostOnce
  /\ scene = "mail" => Mail!AcceptedAtMostOnce

\* A recorded outcome is true: a row marked delivered was accepted, and a row marked
\* failed was not and has nothing under way.
OutcomeTruthful ==
  /\ scene = "faults" => Faulty!OutcomeTruthful
  /\ scene = "restart" => Restarted!OutcomeTruthful
  /\ scene = "mail" => Mail!OutcomeTruthful

\* A push whose consent was withdrawn, or a message whose transport was disabled or
\* whose conversation was deleted on its way to the last check, is never written,
\* even if consent or transport come back.
NoRevival ==
  [][/\ scene = "consent" => Consent!RevivesNothing
     /\ scene = "mail" => Mail!RevivesNothing]_vars

\* Once a delivery is settled no late answer, handler, recovery or second
\* reconciliation changes it.
SettledIsFinal ==
  [][/\ scene = "faults" => Faulty!KeepsSettled
     /\ scene = "restart" => Restarted!KeepsSettled]_vars

\* Every queued message comes to an end: delivered, unknown or out of attempts.
QueuedEnds == scene = "restart" => Restarted!QueuedEnds

\* "Losing the receipt here risks a duplicate resend" (transport.py): a message
\* whose confirmed delivery could not be recorded is not sent again.
ReceiptKept == scene = "consent" => Consent!AcceptedAtMostOnce

\* Whenever the integrity pass runs, whatever crashed or was interrupted before, it
\* accepts every execution row.
ExecutionsVerify ==
  /\ scene = "prototypes" => Prototypes!ExecutionsVerify
  /\ scene = "cycle" => Cycle!ExecutionsVerify
  /\ scene = "records" => Records!ExecutionsVerify

\* A completed phase has an execution that succeeded, and a completed project has
\* one for each of its phases.
CompletionHasEvidence ==
  /\ scene = "prototypes" => Prototypes!CompletionHasEvidence
  /\ scene = "limits" => Limits!CompletionHasEvidence
  /\ scene = "records" => Records!CompletionHasEvidence

\* The review calls of a project stay within its formation budget, those whose
\* review was interrupted or rejected included.
ReviewCallsWithinBudget == scene = "limits" => Limits!ReviewCallsWithinBudget

\* A review is paid for once: a crash or an interrupt between the answer and the
\* commit leads to the same answer.
AnswersPaidOnce == scene = "limits" => Limits!AnswersPaidOnce

\* The clock of the project is what _verify_execution_clocks accepts, and an open
\* session belongs to the running operation or to a process that is down.
ClocksVerify ==
  /\ scene = "limits" => Limits!ClocksVerify
  /\ scene = "records" => Records!ClocksVerify

\* No session begins once the charged time has reached the limit.
NoSessionPastLimit == scene = "limits" => Limits!NoSessionPastLimit

\* In the order of the cycle one attempt of a phase is executed at most once.
OneAttemptPerActivation == scene = "cycle" => Cycle!OneAttemptPerActivation


\* Deliveries, with the types of all components: accepted at most once, and what is
\* recorded is true.
DeliverySafe == TypeOK /\ AcceptedAtMostOnce /\ OutcomeTruthful

\* No step revives a withdrawn message or changes a settled one.
DeliveryStepsLegal == NoRevival /\ SettledIsFinal


==============================================================================
