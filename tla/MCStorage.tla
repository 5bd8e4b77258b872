------------------------------- MODULE MCStorage -------------------------------
(***************************************************************************)
(* Storage for TLC: archives and the upgrade of the database. Each         *)
(* behaviour exercises one component, in one of the scenes below, and      *)
(* leaves the others where they started.                                   *)
(***************************************************************************)
EXTENDS Integers, Sequences, FiniteSets

CONSTANT Scenes  \* the scenes of the run

VARIABLES
  scene,
  pointer, manifest, segment, object, aged, revisions, ring, worker, booted, next, cuts,
  crashes, faults,
  file, cloud, staged, late, queue, archive, replica, verifiedAt, circuit, mover, count,
  db, backups, boot, approval, origin, used

staging == <<pointer, manifest, segment, object, aged, revisions, ring, worker, booted,
  next, cuts, crashes, faults>>
replicas == <<file, cloud, staged, late, queue, archive, replica, verifiedAt, circuit,
  mover, count>>
schema == <<db, backups, boot, approval, origin, used>>
vars == <<scene, staging, replicas, schema>>

\* Two maintenance passes at once, and a crash.
Passes == INSTANCE ArchiveStaging WITH
  Events <- 1 .. 2, Observations <- {3}, Batch <- 2, Workers <- {"a", "b"},
  Concurrent <- TRUE, KeyIds <- {1}, Fingerprints <- {1}, MaxSegments <- 4,
  MaxAged <- 0, MaxCuts <- 0, MaxCrashes <- 0, MaxFaults <- 0, MaxGenerations <- 1

\* One leased pass, a stale one whose lease was cut, and a crash.
Staged == INSTANCE ArchiveStaging WITH
  Events <- 1 .. 2, Observations <- {3}, Batch <- 2, Workers <- {"a", "b"},
  Concurrent <- FALSE, KeyIds <- {1}, Fingerprints <- {1}, MaxSegments <- 4,
  MaxAged <- 4, MaxCuts <- 1, MaxCrashes <- 1, MaxFaults <- 0, MaxGenerations <- 1

\* The same with a fault of the disk.
Faulty == INSTANCE ArchiveStaging WITH
  Events <- 1 .. 2, Observations <- {3}, Batch <- 2, Workers <- {"a", "b"},
  Concurrent <- FALSE, KeyIds <- {1}, Fingerprints <- {1}, MaxSegments <- 4,
  MaxAged <- 1, MaxCuts <- 1, MaxCrashes <- 1, MaxFaults <- 1, MaxGenerations <- 1

\* The keyring changes at every restart.
Rotated == INSTANCE ArchiveStaging WITH
  Events <- 1 .. 2, Observations <- {3}, Batch <- 2, Workers <- {"a"},
  Concurrent <- FALSE, KeyIds <- {1, 2}, Fingerprints <- {1, 2}, MaxSegments <- 2,
  MaxAged <- 0, MaxCuts <- 0, MaxCrashes <- 1, MaxFaults <- 0, MaxGenerations <- 3

\* One tick at a time against a store that fails, times out and stores late.
Offload == INSTANCE ArchiveReplicas WITH
  Kind <- "events", Ticks <- {"a"}, Readers <- {}, Leased <- TRUE,
  Outcomes <- {"failed", "late", "disk"}, MaxAttempts <- 2, Threshold <- 2,
  MaxClaims <- 7, MaxFaults <- 4, MaxExpiries <- 1, MaxLosses <- 0, MaxCuts <- 0,
  MaxCrashes <- 1, worker <- mover

\* A tick, a stale one, and a reader, with a loss of one of the copies.
Fetched == INSTANCE ArchiveReplicas WITH
  Kind <- "observations", Ticks <- {"a", "b"}, Readers <- {"r"}, Leased <- TRUE,
  Outcomes <- {"failed", "garbled", "damage", "disk"}, MaxAttempts <- 3, Threshold <- 2,
  MaxClaims <- 3, MaxFaults <- 1, MaxExpiries <- 0, MaxLosses <- 1, MaxCuts <- 1,
  MaxCrashes <- 0, worker <- mover

\* Two ticks without leases that compete for the claim.
Claimed == INSTANCE ArchiveReplicas WITH
  Kind <- "events", Ticks <- {"a", "b"}, Readers <- {}, Leased <- FALSE,
  Outcomes <- {"failed", "late"}, MaxAttempts <- 3, Threshold <- 2, MaxClaims <- 3,
  MaxFaults <- 1, MaxExpiries <- 1, MaxLosses <- 0, MaxCuts <- 0, MaxCrashes <- 0,
  worker <- mover

\* Databases whose evidence is created or renewed on the way.
History == INSTANCE SchemaUpgrade WITH
  Tables <- {"behavior", "post", "action"}, Versions <- {33, 48, 52, 111}, First <- {32,
  47, 48, 111}, Policy <- "legacy", Rewound <- FALSE, MaxEdits <- 2, MaxFaults <- 1,
  MaxCrashes <- 1

\* Databases whose rows can be upgraded without approval.
Sealed == INSTANCE SchemaUpgrade WITH
  Tables <- {"submission", "bucket", "policy"}, Versions <- {59, 60, 66, 80, 111},
  First <- {58, 60, 80}, Policy <- "bootstrap", Rewound <- FALSE, MaxEdits <- 1,
  MaxFaults <- 1, MaxCrashes <- 1

\* Wallet rows that need an approval, in a policy table that has its automation
\* column.
Legacy == INSTANCE SchemaUpgrade WITH
  Tables <- {"order", "journal", "execution"}, Versions <- {59, 60, 61, 62, 111},
  First <- {59, 60}, Policy <- "legacy", Rewound <- TRUE, MaxEdits <- 1, MaxFaults <- 1,
  MaxCrashes <- 2

\* A wallet as schema 59 left it.
Genuine == INSTANCE SchemaUpgrade WITH
  Tables <- {"policy", "order"}, Versions <- {59, 60, 61, 66, 111}, First <- {59},
  Policy <- "legacy", Rewound <- FALSE, MaxEdits <- 0, MaxFaults <- 0, MaxCrashes <- 1

------------------------------------------------------------------------------
\* Every component starts; only the one the scene is about takes steps.
Init ==
  /\ scene \in Scenes
  /\ CASE scene = "passes" -> Passes!Init
       [] scene = "faulty" -> Faulty!Init
       [] scene = "rotated" -> Rotated!Init
       [] OTHER -> Staged!Init
  /\ CASE scene = "fetched" -> Fetched!Init
       [] scene = "claimed" -> Claimed!Init
       [] OTHER -> Offload!Init
  /\ CASE scene = "history" -> History!Init
       [] scene = "sealed" -> Sealed!Init
       [] scene = "legacy" -> Legacy!Init
       [] OTHER -> Genuine!Init

Next ==
  /\ \/ /\ \/ scene = "passes" /\ Passes!Next
           \/ scene = "leased" /\ Staged!Next
           \/ scene = "faulty" /\ Faulty!Next
           \/ scene = "rotated" /\ Rotated!Next
        /\ UNCHANGED <<replicas, schema>>
     \/ /\ \/ scene = "offload" /\ Offload!Next
           \/ scene = "fetched" /\ Fetched!Next
           \/ scene = "claimed" /\ Claimed!Next
        /\ UNCHANGED <<staging, schema>>
     \/ /\ \/ scene = "history" /\ History!Next
           \/ scene = "sealed" /\ Sealed!Next
           \/ scene = "legacy" /\ Legacy!Next
           \/ scene = "genuine" /\ Genuine!Next
        /\ UNCHANGED <<staging, replicas>>
  /\ UNCHANGED scene

StagedDoes(A) == scene = "leased" /\ A /\ UNCHANGED <<scene, replicas, schema>>

OffloadDoes(A) == scene = "offload" /\ A /\ UNCHANGED <<scene, staging, schema>>

SealedDoes(A) == scene = "sealed" /\ A /\ UNCHANGED <<scene, staging, replicas>>

GenuineDoes(A) == scene = "genuine" /\ A /\ UNCHANGED <<scene, staging, replicas>>

\* The fairness each component justifies for itself.
Spec == /\ Init /\ [][Next]_vars
        /\ \A w \in {"a", "b"} : WF_vars(StagedDoes(Staged!Work(w)))
        /\ \A s \in 1 .. 4 : WF_vars(StagedDoes(Staged!Age(s)))
        /\ WF_vars(OffloadDoes(Offload!Tick("a")))
        /\ WF_vars(OffloadDoes(Offload!TimePasses))
        /\ WF_vars(SealedDoes(Sealed!Initialize))
        /\ SF_vars(SealedDoes(Sealed!Start(FALSE)))
        /\ WF_vars(GenuineDoes(Genuine!Initialize))
        /\ WF_vars(GenuineDoes(Genuine!Start(TRUE)))
        /\ WF_vars(GenuineDoes(Genuine!Review))

------------------------------------------------------------------------------
\* Every variable has its type, in every scene.
TypeOK ==
  CASE scene = "passes" -> Passes!TypeOK
    [] scene = "leased" -> Staged!TypeOK
    [] scene = "faulty" -> Faulty!TypeOK
    [] scene = "rotated" -> Rotated!TypeOK
    [] scene = "offload" -> Offload!TypeOK
    [] scene = "fetched" -> Fetched!TypeOK
    [] scene = "claimed" -> Claimed!TypeOK
    [] scene = "history" -> History!TypeOK
    [] scene = "sealed" -> Sealed!TypeOK
    [] scene = "legacy" -> Legacy!TypeOK
    [] scene = "genuine" -> Genuine!TypeOK

\* Whenever the integrity pass runs, each archived row is in exactly one committed
\* segment whose object is in the store.
ArchiveVerifies ==
  /\ scene = "passes" => Passes!ArchiveVerifies
  /\ scene = "leased" => Staged!ArchiveVerifies
  /\ scene = "rotated" => Rotated!ArchiveVerifies

\* A pass that got past the keyring check can decrypt every committed segment.
KeysKept == scene = "rotated" => Rotated!KeysKept

\* The fate of a staging manifest is decided once, and the object of a committed
\* segment is not touched again.
FateIsFinal ==
  [][/\ scene = "passes" => Passes!FateIsFinal
     /\ scene = "leased" => Staged!FateIsFinal
     /\ scene = "faulty" => Faulty!FateIsFinal]_vars

\* In the end every cold row is archived, no staging manifest is under way and
\* nothing unreferenced stays in the store.
ArchiveSettles == scene = "leased" => Staged!ArchiveSettles

\* One good copy of the segment is left as long as the surroundings leave one.
GoodCopyKept ==
  /\ scene = "offload" => Offload!GoodCopyKept
  /\ scene = "fetched" => Fetched!GoodCopyKept
  /\ scene = "claimed" => Claimed!GoodCopyKept

\* What the records call verified was read back from the store.
VerifiedIsTrue ==
  /\ scene = "offload" => Offload!VerifiedIsTrue
  /\ scene = "fetched" => Fetched!VerifiedIsTrue
  /\ scene = "claimed" => Claimed!VerifiedIsTrue

\* The payload of an unfinished transfer is on disk.
PayloadKept == scene = "offload" => Offload!PayloadKept

\* A worker that has lost its claim changes nothing of the transfer.
LostClaimIsInert ==
  [][/\ scene = "fetched" => Fetched!LostClaimIsInert
     /\ scene = "claimed" => Claimed!LostClaimIsInert]_vars

\* In the end the segment is in the cloud and verified.
Offloaded == scene = "offload" => Offload!Offloaded

\* A failed transfer can be tried again.
FailureRecoverable == scene = "claimed" => Claimed!FailureRecoverable

\* No upgrade turns a damaged row into one that verifies.
NoLaundering ==
  /\ scene = "history" => History!NoLaundering
  /\ scene = "sealed" => Sealed!NoLaundering
  /\ scene = "legacy" => Legacy!NoLaundering

\* The image an unfinished upgrade set out from can be restored.
OriginKept ==
  /\ scene = "history" => History!OriginKept
  /\ scene = "sealed" => Sealed!OriginKept
  /\ scene = "legacy" => Legacy!OriginKept

\* A running database has the current version, marker and inventory.
RunningIsComplete ==
  /\ scene = "history" => History!RunningIsComplete
  /\ scene = "sealed" => Sealed!RunningIsComplete
  /\ scene = "legacy" => Legacy!RunningIsComplete

\* A start that fails undoes what it did.
FailedStartUndone ==
  [][/\ scene = "history" => History!FailedStartUndone
     /\ scene = "sealed" => Sealed!FailedStartUndone
     /\ scene = "legacy" => Legacy!FailedStartUndone]_vars

\* An undamaged database ends up running.
UpgradeSucceeds == scene = "sealed" => Sealed!UpgradeSucceeds

\* A damaged policy does not verify again.
PolicyNotLaundered == scene = "sealed" => Sealed!PolicyNotLaundered

\* An approved upgrade comes to run.
ApprovedUpgradeCompletes == scene = "genuine" => Genuine!ApprovedUpgradeCompletes


\* A decided fate is final, a lost claim is inert, and a failed start is undone.
StorageStepsLegal == FateIsFinal /\ LostClaimIsInert /\ FailedStartUndone


==============================================================================
