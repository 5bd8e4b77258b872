------------------------------- MODULE MCWallet -------------------------------
(***************************************************************************)
(* The wallet for TLC: payments through the signer to the chain, and the   *)
(* queue of balance reads. Each behaviour exercises one of them, in one of *)
(* the scenes below, and leaves the other where it started.                *)
(***************************************************************************)
EXTENDS Integers, Sequences, FiniteSets

CONSTANT Scenes  \* the scenes of the run

VARIABLES
  scene,
  policy, order, mode, authDay, journal, exec, att, seen, touched, day, worker, inbox,
  pool, blocks, up, reorgs, fences, crashes,
  clock, readRun, readAtt, snaps, active, reader, req, real, used

payments == <<policy, order, mode, authDay, journal, exec, att, seen, touched, day,
  worker, inbox, pool, blocks, up, reorgs, fences, crashes>>
reads == <<clock, readRun, readAtt, snaps, active, reader, req, real, used>>
vars == <<scene, payments, reads>>

\* Two orders, one thread, funds for both: receipts, refunds and a nonce the
\* operator names.
Pay == INSTANCE WalletPayments WITH
  Orders <- {"o1", "o2"}, Workers <- {"w1"}, NamedNonces <- {1}, Amount <- 2, Fee <- 1,
  Funds <- 6, DailyLimit <- 4, MaxAttempts <- 1, MaxNonce <- 1, MaxVersion <- 1,
  MaxDay <- 0, MaxReorgs <- 0, MaxFences <- 0, MaxCrashes <- 0

\* Two orders whose amounts the balance covers and whose fees it does not; a policy
\* change.
Budget == INSTANCE WalletPayments WITH
  Orders <- {"o1", "o2"}, Workers <- {"w1"}, NamedNonces <- {}, Amount <- 2, Fee <- 1,
  Funds <- 5, DailyLimit <- 4, MaxAttempts <- 1, MaxNonce <- 1, MaxVersion <- 2,
  MaxDay <- 0, MaxReorgs <- 0, MaxFences <- 0, MaxCrashes <- 0

\* Two orders the balance covers, of which the daily limit admits one a day; a new
\* day.
Daily == INSTANCE WalletPayments WITH
  Orders <- {"o1", "o2"}, Workers <- {"w1"}, NamedNonces <- {}, Amount <- 2, Fee <- 1,
  Funds <- 6, DailyLimit <- 2, MaxAttempts <- 1, MaxNonce <- 1, MaxVersion <- 1,
  MaxDay <- 1, MaxReorgs <- 0, MaxFences <- 0, MaxCrashes <- 0

\* One order, two threads: late answers, retries, polls and a recovery by the
\* operator while a thread is in flight.
Race == INSTANCE WalletPayments WITH
  Orders <- {"o1"}, Workers <- {"w1", "w2"}, NamedNonces <- {}, Amount <- 2, Fee <- 1,
  Funds <- 3, DailyLimit <- 2, MaxAttempts <- 2, MaxNonce <- 1, MaxVersion <- 1,
  MaxDay <- 0, MaxReorgs <- 0, MaxFences <- 0, MaxCrashes <- 0

\* One order, one thread: a fence and a crash between attempts.
Fenced == INSTANCE WalletPayments WITH
  Orders <- {"o1"}, Workers <- {"w1"}, NamedNonces <- {}, Amount <- 2, Fee <- 1,
  Funds <- 3, DailyLimit <- 2, MaxAttempts <- 2, MaxNonce <- 1, MaxVersion <- 1,
  MaxDay <- 0, MaxReorgs <- 0, MaxFences <- 1, MaxCrashes <- 1

\* One order, one thread, retries and one reorganized block.
Reorg == INSTANCE WalletPayments WITH
  Orders <- {"o1"}, Workers <- {"w1"}, NamedNonces <- {}, Amount <- 2, Fee <- 1,
  Funds <- 3, DailyLimit <- 2, MaxAttempts <- 2, MaxNonce <- 1, MaxVersion <- 1,
  MaxDay <- 0, MaxReorgs <- 1, MaxFences <- 0, MaxCrashes <- 0

\* Two workers claim one run, lose claims and retry.
Claims == INSTANCE BalanceAcquisition WITH
  NumRuns <- 1, TargetOf <- <<1>>, Workers <- {"w1", "w2"}, MaxAttempts <- 2,
  MaxConcurrent <- 2, Interval <- 1, Window <- 3, Limit <- 4, LeaseTime <- 1,
  Backoff <- 1, PastDue <- FALSE, WorkerLag <- 0, OperatorLag <- 0, MaxTime <- 3,
  MaxRevokes <- 0, MaxFences <- 0, MaxCrashes <- 0, run <- readRun, att <- readAtt,
  worker <- reader

\* One worker whose transactions follow its clock reads late; the target is revoked.
Lagging == INSTANCE BalanceAcquisition WITH
  NumRuns <- 1, TargetOf <- <<1>>, Workers <- {"w1"}, MaxAttempts <- 2,
  MaxConcurrent <- 2, Interval <- 1, Window <- 3, Limit <- 4, LeaseTime <- 1,
  Backoff <- 1, PastDue <- FALSE, WorkerLag <- 1, OperatorLag <- 0, MaxTime <- 3,
  MaxRevokes <- 1, MaxFences <- 0, MaxCrashes <- 0, run <- readRun, att <- readAtt,
  worker <- reader

\* One worker, a fence and a restart; runs may be due in the past.
ReadFaults == INSTANCE BalanceAcquisition WITH
  NumRuns <- 1, TargetOf <- <<1>>, Workers <- {"w1"}, MaxAttempts <- 2,
  MaxConcurrent <- 2, Interval <- 1, Window <- 3, Limit <- 4, LeaseTime <- 1,
  Backoff <- 1, PastDue <- TRUE, WorkerLag <- 0, OperatorLag <- 0, MaxTime <- 2,
  MaxRevokes <- 0, MaxFences <- 1, MaxCrashes <- 1, run <- readRun, att <- readAtt,
  worker <- reader

\* Two runs share the request budget of a network.
ReadBudget == INSTANCE BalanceAcquisition WITH
  NumRuns <- 2, TargetOf <- <<1, 2>>, Workers <- {"w1", "w2"}, MaxAttempts <- 1,
  MaxConcurrent <- 2, Interval <- 1, Window <- 2, Limit <- 2, LeaseTime <- 1,
  Backoff <- 1, PastDue <- FALSE, WorkerLag <- 0, OperatorLag <- 0, MaxTime <- 2,
  MaxRevokes <- 0, MaxFences <- 0, MaxCrashes <- 0, run <- readRun, att <- readAtt,
  worker <- reader

------------------------------------------------------------------------------
\* Every component starts; only the one the scene is about takes steps.
Init ==
  /\ scene \in Scenes
  /\ CASE scene = "payments" -> Pay!Init
       [] scene = "budget" -> Budget!Init
       [] scene = "daily" -> Daily!Init
       [] scene = "fence" -> Fenced!Init
       [] scene = "reorg" -> Reorg!Init
       [] OTHER -> Race!Init
  /\ CASE scene = "lag" -> Lagging!Init
       [] scene = "readFaults" -> ReadFaults!Init
       [] scene = "readBudget" -> ReadBudget!Init
       [] OTHER -> Claims!Init

Next ==
  /\ \/ /\ \/ scene = "payments" /\ Pay!Next
           \/ scene = "budget" /\ Budget!Next
           \/ scene = "daily" /\ Daily!Next
           \/ scene = "race" /\ Race!Next
           \/ scene = "fence" /\ Fenced!Next
           \/ scene = "reorg" /\ Reorg!Next
        /\ UNCHANGED <<reads>>
     \/ /\ \/ scene = "claims" /\ Claims!Next
           \/ scene = "lag" /\ Lagging!Next
           \/ scene = "readFaults" /\ ReadFaults!Next
           \/ scene = "readBudget" /\ ReadBudget!Next
        /\ UNCHANGED <<payments>>
  /\ UNCHANGED scene

FencedDoes(A) == scene = "fence" /\ A /\ UNCHANGED <<scene, reads>>

\* The fairness each component justifies for itself.
Spec == /\ Init /\ [][Next]_vars
        /\ WF_vars(FencedDoes(Fenced!WorkerStep("w1")))
        /\ WF_vars(FencedDoes(Fenced!BootRecovers("o1")))
        /\ WF_vars(FencedDoes(Fenced!Admit))

------------------------------------------------------------------------------
\* Every variable has its type, in every scene.
TypeOK ==
  CASE scene = "payments" -> Pay!TypeOK
    [] scene = "budget" -> Budget!TypeOK
    [] scene = "daily" -> Daily!TypeOK
    [] scene = "race" -> Race!TypeOK
    [] scene = "fence" -> Fenced!TypeOK
    [] scene = "reorg" -> Reorg!TypeOK
    [] scene = "claims" -> Claims!TypeOK
    [] scene = "lag" -> Lagging!TypeOK
    [] scene = "readFaults" -> ReadFaults!TypeOK
    [] scene = "readBudget" -> ReadBudget!TypeOK

\* The chain never pays an order twice, whatever is retried, recovered, reorganized
\* or answered late.
PaidAtMostOnce ==
  /\ scene = "payments" => Pay!PaidAtMostOnce
  /\ scene = "race" => Race!PaidAtMostOnce
  /\ scene = "fence" => Fenced!PaidAtMostOnce
  /\ scene = "reorg" => Reorg!PaidAtMostOnce

\* No payment can displace another on the chain: transfers that bear the same nonce
\* belong to one order.
NonceHasOneOwner ==
  /\ scene = "payments" => Pay!NonceHasOneOwner
  /\ scene = "race" => Race!NonceHasOneOwner

\* A confirmed order was paid by the transfer its execution names.
ConfirmedWasPaid ==
  /\ scene = "payments" => Pay!ConfirmedWasPaid
  /\ scene = "race" => Race!ConfirmedWasPaid
  /\ scene = "fence" => Fenced!ConfirmedWasPaid

\* Whatever has been handed to the signer can be mined in full.
NeverOverdrawn ==
  /\ scene = "budget" => Budget!NeverOverdrawn
  /\ scene = "payments" => Pay!NeverOverdrawn

\* What the chain paid, or may still pay, of one day's authorizations stays within
\* the daily limit.
DailyLimitHolds == scene = "daily" => Daily!DailyLimitHolds

\* A cancelled or refunded order has no transfer that was paid or that may still be
\* mined.
ReleasedNeverPaid ==
  /\ scene = "payments" => Pay!ReleasedNeverPaid
  /\ scene = "race" => Race!ReleasedNeverPaid
  /\ scene = "fence" => Fenced!ReleasedNeverPaid

\* Order and execution move together, and what left the reserved account left it
\* once.
RowsAgree ==
  /\ scene = "payments" => Pay!RowsAgree
  /\ scene = "race" => Race!RowsAgree
  /\ scene = "fence" => Fenced!RowsAgree

\* Whatever workers, operators, fences and restarts do, the rows of the balance
\* reads pass the integrity verification that would otherwise quarantine the
\* subject.
EvidenceVerifies ==
  /\ scene = "claims" => Claims!EvidenceVerifies
  /\ scene = "lag" => Lagging!EvidenceVerifies
  /\ scene = "readFaults" => ReadFaults!EvidenceVerifies

\* A run writes at most one balance snapshot, and one that did has succeeded.
OneSnapshot ==
  /\ scene = "claims" => Claims!OneSnapshot
  /\ scene = "lag" => Lagging!OneSnapshot
  /\ scene = "readFaults" => ReadFaults!OneSnapshot

\* The requests really sent by the attempts that started within any window do not
\* exceed the limit.
BudgetHolds == scene = "readBudget" => ReadBudget!BudgetHolds

\* Attempts on the network start at least the interval apart, over all runs and
\* workers.
StartsSpaced == scene = "readBudget" => ReadBudget!StartsSpaced

\* Payment bytes leave only under a policy that allows payments, for the attempt the
\* rows call current.
SendsAreAuthorized ==
  [][/\ scene = "budget" => Budget!AuthorizedSends
     /\ scene = "race" => Race!AuthorizedSends
     /\ scene = "fence" => Fenced!AuthorizedSends]_vars

\* A run that is succeeded, failed or cancelled never changes again, and an attempt
\* that ended keeps its outcome.
EndedIsFinal ==
  [][/\ scene = "claims" => Claims!KeepsEnded
     /\ scene = "lag" => Lagging!KeepsEnded
     /\ scene = "readFaults" => ReadFaults!KeepsEnded]_vars

\* No order stays in signing: a thread reports, or the restart fences it.
SigningEnds == scene = "fence" => Fenced!SigningEnds

\* "do not post it twice when a later canonical receipt is observed" (economy.py): a
\* later canonical receipt confirms an order that a reorganization sent back to
\* unknown.
CanonicalReceiptSettles == [][scene = "reorg" => Reorg!CanonicalReceiptSettles]_vars



\* Payment bytes leave only when authorized, and what ended stays ended.
WalletStepsLegal == SendsAreAuthorized /\ EndedIsFinal

==============================================================================
