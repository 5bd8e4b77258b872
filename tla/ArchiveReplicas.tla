---------------------------- MODULE ArchiveReplicas ----------------------------
(***************************************************************************)
(* One archived segment between the local disk and an optional cloud store *)
(* (core/archive.py): the queue of uploads with leased claims, the ledger  *)
(* of replica states, the maintenance tick that stages, uploads, verifies  *)
(* and then frees the local copy, the readers that fetch it back, and the  *)
(* circuit breaker of the S3 provider.                                     *)
(*                                                                         *)
(* A copy is absent, good or bad (its bytes do not have the recorded       *)
(* hash). Time only passes as far as the code can tell: a retry becomes    *)
(* due, a lease expires, a cooldown ends.                                  *)
(***************************************************************************)
EXTENDS Integers, FiniteSets

CONSTANTS
  Kind,                 \* whether the segment holds events or observations
  Ticks, Readers,       \* maintenance ticks and read-through restores
  Leased,               \* whether ticks run under an admission lease
  Outcomes,             \* what a call of the provider may do
  MaxAttempts,          \* max_attempts of drain
  Threshold,            \* circuit_failure_threshold
  MaxClaims, MaxFaults, MaxExpiries, MaxLosses, MaxCuts, MaxCrashes

VARIABLES
  file, cloud,  \* the two copies
  staged,       \* whether the queue's copy of the payload is on disk
  late,         \* whether a put that timed out may still reach the store
  queue,        \* the row of archive_transfer_queue
  archive,      \* the status of the row of storage_archives
  replica,      \* archive_object_replicas: state by type
  verifiedAt,   \* whether the cloud replica has a verified_at
  circuit,      \* the provider's failure count, circuit and cached readiness
  worker,       \* ticks and readers
  count         \* how often each thing the bounds limit has happened

vars == <<file, cloud, staged, late, queue, archive, replica, verifiedAt, circuit, worker,
          count>>

Copies == {"absent", "good", "bad"}

Workers == Ticks \cup Readers

-----------------------------------------------------------------------------
(* The ledger of replicas.                                                 *)

States == {"pending", "uploading", "present", "verified", "gc_pending", "absent", "restoring",
           "unavailable", "missing", "corrupt"}

\* _TRANSITIONS.
Transitions ==
  [s \in States |->
     CASE s = "pending"     -> {"pending", "uploading", "unavailable", "missing", "corrupt"}
       [] s = "uploading"   -> {"pending", "verified", "unavailable", "missing", "corrupt"}
       [] s = "present"     -> {"present", "gc_pending", "absent", "restoring", "corrupt"}
       [] s = "verified"    -> {"verified", "unavailable", "missing", "corrupt"}
       [] s = "gc_pending"  -> {"present", "absent", "unavailable", "corrupt"}
       [] s = "absent"      -> {"absent", "restoring", "unavailable", "missing", "corrupt"}
       [] s = "restoring"   -> {"present", "absent", "unavailable", "missing", "corrupt"}
       [] s = "unavailable" -> {"pending", "uploading", "present", "verified", "absent",
                                "restoring"}
       [] s = "missing"     -> {"pending", "absent", "restoring", "verified", "corrupt"}
       [] s = "corrupt"     -> {"pending", "absent", "restoring", "verified"}]

\* transition and its connection form: anything else raises IntegrityError.
Legal(type, s) == replica[type] # "none" /\ s \in Transitions[replica[type]]

\* ensure: a new row takes the state, an old one moves there unless it is
\* there already.
Ensured(type, s) == replica[type] \in {"none", s} \/ Legal(type, s)

\* _state_values keeps the time of the first verification.
Verified(s) == verifiedAt \/ s = "verified"

Set(type, s) ==
  /\ replica' = [replica EXCEPT ![type] = s]
  /\ verifiedAt' = IF type = "cloud" THEN Verified(s) ELSE verifiedAt

\* The failure of the cloud replica is noted if its state allows that.
NoteBoth(local, remote) ==
  /\ replica' = [local |-> local,
                 cloud |-> IF Legal("cloud", remote) THEN remote ELSE replica.cloud]
  /\ UNCHANGED verifiedAt

-----------------------------------------------------------------------------
(* The provider. A call is refused while the circuit is open or a probe is *)
(* required; otherwise it succeeds, finds nothing, or fails. The refusal   *)
(* is an ArchiveUnavailableError, which is an IntegrityError.              *)

NoCircuit == [fails |-> 0, open |-> FALSE, probe |-> FALSE, cached |-> "none"]

\* _require_closed_circuit.
Refuses == circuit.open \/ circuit.probe

\* _record_provider_success, _record_provider_failure.
CallSucceeds == circuit' = [circuit EXCEPT !.fails = 0, !.cached = "ready"]

CallFails ==
  LET n == circuit.fails + 1
  IN circuit' = [fails |-> IF n > Threshold THEN Threshold ELSE n, cached |-> "down",
                 open |-> circuit.open \/ n >= Threshold,
                 probe |-> circuit.probe \/ n >= Threshold]

Spend(what, max) == count[what] < max /\ count' = [count EXCEPT ![what] = @ + 1]

\* get, with the checks of its caller: what the caller learns.
Get(result) ==
  \/ Refuses /\ result = "refused" /\ UNCHANGED <<circuit, count>>
  \/ ~Refuses /\ result = cloud /\ cloud # "absent" /\ CallSucceeds /\ UNCHANGED count
  \/ ~Refuses /\ result = cloud /\ cloud = "absent" /\ UNCHANGED <<circuit, count>>
  \/ /\ ~Refuses /\ result = "failed" /\ "failed" \in Outcomes
     /\ Spend("faults", MaxFaults) /\ CallFails

Results == {"refused", "failed"} \cup Copies

\* The replica state a failed call leads to, by the class of its exception.
Failure(result) ==
  CASE result = "absent" -> "missing"
    [] result \in {"bad", "refused"} -> "corrupt"
    [] OTHER -> "unavailable"

\* _record_readiness_success.
\* Mutant: a successful probe closes the circuit but leaves the probe due.
ProbeSucceeds_StillRequired ==
  circuit' = [circuit EXCEPT !.fails = 0, !.open = FALSE, !.cached = "ready"]

ProbeSucceeds == circuit' = [fails |-> 0, open |-> FALSE, probe |-> FALSE, cached |-> "ready"]

-----------------------------------------------------------------------------
(* The tick: recovery, readiness, staging, draining, freeing.              *)

Idle == [pc |-> "idle", lease |-> TRUE, token |-> 0, why |-> "none"]

At(w, pc) == worker[w].pc = pc

Go(w, pc) == worker' = [worker EXCEPT ![w].pc = pc]

End(w) == worker' = [worker EXCEPT ![w] = Idle]

\* What a transaction, a checkpoint or a commit scope asks of a leased tick.
Current(w) == ~Leased \/ worker[w].lease

Doing(w, pc) == At(w, pc) /\ Current(w)

Begin(w) ==
  /\ At(w, "idle")
  /\ Leased => \A v \in Ticks : At(v, "idle") \/ ~worker[v].lease
  /\ Go(w, "recover")
  /\ UNCHANGED <<file, cloud, staged, late, queue, archive, replica, verifiedAt, circuit, count>>

\* queue.gc_orphans: a payload without a row is removed.
GcOrphans ==
  IF queue.status = "none" THEN FALSE ELSE staged

\* _recover_local_transitions: what an interrupted restore or collection left
\* is set to what the disk holds.
RecoverLocalTransitions(w) ==
  /\ Doing(w, "recover")
  /\ IF replica.local \in {"gc_pending", "restoring"}
     THEN Set("local", CASE file = "good" -> "present" [] file = "bad" -> "corrupt"
                         [] OTHER -> "absent")
     ELSE UNCHANGED <<replica, verifiedAt>>
  /\ staged' = GcOrphans
  /\ Go(w, "readiness")
  /\ UNCHANGED <<file, cloud, late, queue, archive, circuit, count>>

\* readiness: the cached answer, or a probe that bypasses the circuit.
CachedAnswer == IF circuit.probe THEN circuit.open ELSE circuit.cached # "none"

Readiness(w) ==
  /\ At(w, "readiness")
  /\ \/ /\ CachedAnswer
        /\ IF circuit.cached = "ready" THEN Go(w, "discover") ELSE End(w)
        /\ UNCHANGED <<circuit, count>>
     \/ /\ ~CachedAnswer
        /\ ProbeSucceeds /\ Go(w, "discover")
        /\ UNCHANGED count
     \/ /\ ~CachedAnswer /\ "failed" \in Outcomes
        /\ Spend("faults", MaxFaults) /\ CallFails /\ End(w)
  /\ UNCHANGED <<file, cloud, staged, late, queue, archive, replica, verifiedAt>>

\* _queue_event_segments and _queue_observation_segments: a segment without a
\* verified cloud replica whose local file is there is registered and queued.
\* The recorded hash of the local replica is that of the good copy.
Queueable == replica.cloud # "verified" /\ file # "absent"

QueueSegment(w) ==
  /\ Doing(w, "discover")
  /\ IF ~Queueable THEN Go(w, "expired") /\ UNCHANGED <<replica, verifiedAt>>
     ELSE IF file = "good" /\ Ensured("local", "present")
     THEN Set("local", "present") /\ Go(w, "stage")
     ELSE End(w) /\ UNCHANGED <<replica, verifiedAt>>
  /\ UNCHANGED <<file, cloud, staged, late, queue, archive, circuit, count>>

QueueEventSegments(w) == Kind = "events" /\ QueueSegment(w)

QueueObservationSegments(w) == Kind = "observations" /\ QueueSegment(w)

\* enqueue: an uploading row is left alone; any other starts again.
Enqueue(w) ==
  /\ Doing(w, "stage")
  /\ archive' = IF archive = "none" THEN "pending" ELSE archive
  /\ IF queue.status \in {"queued", "uploading"} THEN UNCHANGED <<queue, staged>>
     ELSE /\ staged' = TRUE
          /\ queue' = [status |-> "queued", attempts |-> 0, token |-> 0, lease |-> FALSE,
                       due |-> TRUE]
  /\ Go(w, "expired")
  /\ UNCHANGED <<file, cloud, late, replica, verifiedAt, circuit, count>>

\* drain first gives up uploads whose lease has expired.
RecoverExpired(w) ==
  /\ Doing(w, "expired")
  /\ IF queue.status = "uploading" /\ ~queue.lease
     THEN /\ queue' = [queue EXCEPT !.status = "failed", !.token = 0, !.due = TRUE]
          /\ IF replica.cloud = "uploading" THEN Set("cloud", "unavailable")
             ELSE UNCHANGED <<replica, verifiedAt>>
     ELSE UNCHANGED <<queue, replica, verifiedAt>>
  /\ Go(w, "claim")
  /\ UNCHANGED <<file, cloud, staged, late, archive, circuit, count>>

Due == queue.status \in {"queued", "failed"} /\ queue.due

\* The claim and the replica row change together, or not at all: a state that
\* may not become uploading ends the tick.
Claim(w) ==
  /\ Doing(w, "claim") /\ Due
  /\ Ensured("cloud", "uploading")
  /\ Spend("claims", MaxClaims)
  /\ queue' = [queue EXCEPT !.status = "uploading", !.attempts = @ + 1,
                            !.token = count.claims + 1, !.lease = TRUE]
  /\ Set("cloud", "uploading")
  /\ worker' = [worker EXCEPT ![w].pc = "put", ![w].token = count.claims + 1]
  /\ UNCHANGED <<file, cloud, staged, late, archive, circuit>>

ClaimRefused(w) ==
  /\ Doing(w, "claim") /\ Due
  /\ ~Ensured("cloud", "uploading")
  /\ End(w)
  /\ UNCHANGED <<file, cloud, staged, late, queue, archive, replica, verifiedAt, circuit, count>>

NothingDue(w) ==
  /\ Doing(w, "claim") /\ ~Due
  /\ Go(w, "clean")
  /\ UNCHANGED <<file, cloud, staged, late, queue, archive, replica, verifiedAt, circuit, count>>

\* The surroundings do not spoil the object in the cloud when it is, or is
\* just becoming, the only good copy.
Spare == file = "good" /\ \A w \in Ticks : ~At(w, "gcdelete")

Fails(w, why) == worker' = [worker EXCEPT ![w].pc = "fail", ![w].why = why]

\* put: the payload is read and checked, then sent. The store may fail, store
\* it wrongly, or let the call time out and still store it later.
Put(w) ==
  /\ Doing(w, "put")
  /\ \/ /\ ~staged /\ Fails(w, "missing")
        /\ UNCHANGED <<cloud, late, circuit, count>>
     \/ /\ staged /\ Refuses /\ Fails(w, "corrupt")
        /\ UNCHANGED <<cloud, late, circuit, count>>
     \/ /\ staged /\ ~Refuses /\ CallSucceeds
        /\ cloud' = "good" /\ Go(w, "renew")
        /\ UNCHANGED <<late, count>>
     \/ /\ staged /\ ~Refuses /\ "garbled" \in Outcomes /\ Spare /\ CallSucceeds
        /\ Spend("faults", MaxFaults)
        /\ cloud' = "bad" /\ Go(w, "renew")
        /\ UNCHANGED late
     \/ /\ staged /\ ~Refuses /\ "failed" \in Outcomes /\ CallFails
        /\ Spend("faults", MaxFaults)
        /\ Fails(w, "unavailable")
        /\ late' \in {late, "late" \in Outcomes}
        /\ UNCHANGED cloud
  /\ UNCHANGED <<file, staged, queue, archive, replica, verifiedAt>>

\* The claim is the worker's while its token is on the row.
Mine(w) == queue.status = "uploading" /\ queue.token = worker[w].token

\* _renew_claim: a claim that is lost or expired ends this transfer.
RenewClaim(w) ==
  /\ Doing(w, "renew")
  /\ Go(w, IF Mine(w) /\ queue.lease THEN "read" ELSE "clean")
  /\ UNCHANGED <<file, cloud, staged, late, queue, archive, replica, verifiedAt, circuit, count>>

\* Mutant: the store's answer to the put is taken for the readback.
Readback_Trusted(w) ==
  /\ Doing(w, "read")
  /\ Go(w, "commit")
  /\ UNCHANGED <<file, cloud, staged, late, queue, archive, replica, verifiedAt, circuit, count>>

Readback(w) ==
  /\ Doing(w, "read")
  /\ \E r \in Results :
       /\ Get(r)
       /\ IF r = "good" THEN Go(w, "commit") ELSE Fails(w, Failure(r))
  /\ UNCHANGED <<file, cloud, staged, late, queue, archive, replica, verifiedAt>>

\* A failure is recorded by the owner of the claim only.
\* Mutant: whoever fails records it.
UploadFails_AnyOwner(w) ==
  /\ Doing(w, "fail")
  /\ IF queue.status = "uploading" /\ Legal("cloud", worker[w].why)
     THEN /\ queue' = [queue EXCEPT !.token = 0, !.lease = FALSE, !.due = FALSE,
                       !.status = IF queue.attempts >= MaxAttempts THEN "dead" ELSE "failed"]
          /\ Set("cloud", worker[w].why)
     ELSE UNCHANGED <<queue, replica, verifiedAt>>
  /\ Go(w, "clean")
  /\ UNCHANGED <<file, cloud, staged, late, archive, circuit, count>>

UploadFails(w) ==
  /\ Doing(w, "fail")
  /\ IF Mine(w) /\ Legal("cloud", worker[w].why)
     THEN /\ queue' = [queue EXCEPT !.token = 0, !.lease = FALSE, !.due = FALSE,
                       !.status = IF queue.attempts >= MaxAttempts THEN "dead" ELSE "failed"]
          /\ Set("cloud", worker[w].why)
     ELSE UNCHANGED <<queue, replica, verifiedAt>>
  /\ IF Mine(w) /\ ~Legal("cloud", worker[w].why) THEN End(w) ELSE Go(w, "clean")
  /\ UNCHANGED <<file, cloud, staged, late, archive, circuit, count>>

\* The completion: the claim must be the worker's and not expired.
Complete(w) ==
  /\ Doing(w, "commit")
  /\ IF Mine(w) /\ queue.lease /\ Ensured("cloud", "verified")
     THEN /\ queue' = [queue EXCEPT !.status = "uploaded", !.token = 0, !.lease = FALSE]
          /\ archive' = "verified"
          /\ Set("cloud", "verified")
          /\ Go(w, "unlink")
     ELSE /\ IF Mine(w) /\ queue.lease THEN End(w) ELSE Go(w, "clean")
          /\ UNCHANGED <<queue, archive, replica, verifiedAt>>
  /\ UNCHANGED <<file, cloud, staged, late, circuit, count>>

\* The payload is removed after the commit, without asking for a lease...
UnlinkPayload(w) ==
  /\ At(w, "unlink")
  /\ staged' = FALSE
  /\ Go(w, "clean")
  /\ UNCHANGED <<file, cloud, late, queue, archive, replica, verifiedAt, circuit, count>>

\* ...and once more, for what a crash left, under the lock of the database.
CleanupUploadedPayloads(w) ==
  /\ Doing(w, "clean")
  /\ staged' = (staged /\ queue.status # "uploaded")
  /\ Go(w, "collect")
  /\ UNCHANGED <<file, cloud, late, queue, archive, replica, verifiedAt, circuit, count>>

\* _garbage_collect_local: a local file with a verified cloud replica is
\* marked, read, compared with what the cloud returns now, and removed.
Collect(w) ==
  /\ Doing(w, "collect")
  /\ IF replica.local = "present" /\ replica.cloud = "verified"
     THEN Set("local", "gc_pending") /\ Go(w, "gcread")
     ELSE End(w) /\ UNCHANGED <<replica, verifiedAt>>
  /\ UNCHANGED <<file, cloud, staged, late, queue, archive, circuit, count>>

\* A file that is gone would become missing, which the table does not allow:
\* the tick ends and the row stays as it is.
CollectRead(w) ==
  /\ Doing(w, "gcread")
  /\ CASE file = "good" -> Go(w, "gcfetch") /\ UNCHANGED <<replica, verifiedAt>>
       [] file = "bad" -> /\ End(w)
                          /\ IF Legal("local", "corrupt") THEN Set("local", "corrupt")
                             ELSE UNCHANGED <<replica, verifiedAt>>
       [] OTHER -> /\ IF Legal("local", "missing")
                      THEN Set("local", "missing") ELSE UNCHANGED <<replica, verifiedAt>>
                   /\ End(w)
  /\ UNCHANGED <<file, cloud, staged, late, queue, archive, circuit, count>>

\* Mutant: the verified state of the replica is trusted.
CollectFetch_Trusted(w) ==
  /\ Doing(w, "gcfetch")
  /\ Go(w, "gcdelete")
  /\ UNCHANGED <<file, cloud, staged, late, queue, archive, replica, verifiedAt, circuit, count>>

CollectFetch(w) ==
  /\ Doing(w, "gcfetch")
  /\ \E r \in Results :
       /\ Get(r)
       /\ IF r = "good" THEN Go(w, "gcdelete") /\ UNCHANGED <<replica, verifiedAt>>
          ELSE /\ NoteBoth(IF Legal("local", "present") THEN "present" ELSE replica.local,
                           Failure(r))
               /\ End(w)
  /\ UNCHANGED <<file, cloud, staged, late, queue, archive>>

CollectDelete(w) ==
  /\ Doing(w, "gcdelete")
  /\ \/ /\ file' = "absent"
        /\ IF Legal("local", "absent") THEN Set("local", "absent")
           ELSE UNCHANGED <<replica, verifiedAt>>
        /\ UNCHANGED count
     \/ /\ "disk" \in Outcomes /\ Spend("faults", MaxFaults)
        /\ IF Legal("local", "present") THEN Set("local", "present")
           ELSE UNCHANGED <<replica, verifiedAt>>
        /\ UNCHANGED file
  /\ End(w)
  /\ UNCHANGED <<cloud, staged, late, queue, archive, circuit>>

-----------------------------------------------------------------------------
(* restore_local: a reader that finds no local file.                       *)

\* The archive is verified, and the cloud replica, if there is a row, has
\* been verified once and is not being uploaded.
Restorable ==
  /\ archive = "verified"
  /\ replica.cloud # "none" =>
       verifiedAt /\ replica.cloud \in {"verified", "unavailable", "missing", "corrupt"}

RestoreBegin(r) ==
  /\ At(r, "idle")
  /\ file = "absent" /\ Restorable /\ Ensured("local", "absent")
  /\ Set("local", "absent")
  /\ Go(r, "restoring")
  /\ UNCHANGED <<file, cloud, staged, late, queue, archive, circuit, count>>

RestoreMark(r) ==
  /\ At(r, "restoring")
  /\ IF Legal("local", "restoring") THEN Set("local", "restoring") /\ Go(r, "fetch")
     ELSE End(r) /\ UNCHANGED <<replica, verifiedAt>>
  /\ UNCHANGED <<file, cloud, staged, late, queue, archive, circuit, count>>

RestoreFetch(r) ==
  /\ At(r, "fetch")
  /\ \E result \in Results :
       /\ Get(result)
       /\ IF result = "good" THEN Go(r, "publish") /\ UNCHANGED <<replica, verifiedAt>>
          ELSE /\ IF Legal("local", Failure(result))
                  THEN NoteBoth(Failure(result), Failure(result))
                  ELSE UNCHANGED <<replica, verifiedAt>>
               /\ End(r)
  /\ UNCHANGED <<file, cloud, staged, late, queue, archive>>

\* put_stored writes the file; the row becomes present if it still may.
RestorePublish(r) ==
  /\ At(r, "publish")
  /\ \/ /\ file' = "good"
        /\ IF Legal("local", "present") THEN Set("local", "present") /\ Go(r, "confirm")
           ELSE End(r) /\ UNCHANGED <<replica, verifiedAt>>
        /\ UNCHANGED count
     \/ /\ "disk" \in Outcomes /\ Spend("faults", MaxFaults)
        /\ IF Legal("local", "unavailable") THEN Set("local", "unavailable")
           ELSE UNCHANGED <<replica, verifiedAt>>
        /\ End(r)
        /\ UNCHANGED file
  /\ UNCHANGED <<cloud, staged, late, queue, archive, circuit>>

RestoreConfirm(r) ==
  /\ At(r, "confirm")
  /\ IF Ensured("cloud", "verified") THEN Set("cloud", "verified")
     ELSE UNCHANGED <<replica, verifiedAt>>
  /\ End(r)
  /\ UNCHANGED <<file, cloud, staged, late, queue, archive, circuit, count>>

-----------------------------------------------------------------------------
(* The surroundings.                                                       *)

\* A tick whose lease was cut stops at its next transaction or checkpoint.
Invalidated(w) ==
  /\ ~Current(w)
  /\ worker[w].pc \notin {"idle", "unlink", "readiness"}
  /\ End(w)
  /\ UNCHANGED <<file, cloud, staged, late, queue, archive, replica, verifiedAt, circuit, count>>

CutLease(w) ==
  /\ Leased /\ worker[w].lease /\ ~At(w, "idle")
  /\ Spend("cuts", MaxCuts)
  /\ worker' = [worker EXCEPT ![w].lease = FALSE]
  /\ UNCHANGED <<file, cloud, staged, late, queue, archive, replica, verifiedAt, circuit>>

\* A put that timed out reaches the store after all.
LatePut ==
  /\ late /\ late' = FALSE
  /\ cloud' = "good"
  /\ UNCHANGED <<file, staged, queue, archive, replica, verifiedAt, circuit, worker, count>>

\* A retry becomes due, a cooldown ends, a cached readiness grows old.
TimePasses ==
  /\ queue' = [queue EXCEPT !.due = TRUE]
  /\ circuit' = [circuit EXCEPT !.open = FALSE, !.cached = "none"]
  /\ UNCHANGED <<file, cloud, staged, late, archive, replica, verifiedAt, worker, count>>

Expire ==
  /\ queue.status = "uploading" /\ queue.lease
  /\ Spend("expiries", MaxExpiries)
  /\ queue' = [queue EXCEPT !.lease = FALSE]
  /\ UNCHANGED <<file, cloud, staged, late, archive, replica, verifiedAt, circuit, worker>>

\* The cloud loses or garbles the object, or the disk the local file.
CloudLoss ==
  /\ cloud = "good" /\ Spare
  /\ Spend("losses", MaxLosses)
  /\ cloud' \in {"absent", "bad"}
  /\ UNCHANGED <<file, staged, late, queue, archive, replica, verifiedAt, circuit, worker>>

LocalDamage ==
  /\ "damage" \in Outcomes
  /\ file = "good" /\ cloud = "good"
  /\ Spend("losses", MaxLosses)
  /\ file' = "bad"
  /\ UNCHANGED <<cloud, staged, late, queue, archive, replica, verifiedAt, circuit, worker>>

\* The lease of an upload in progress outlives a restart; the circuit does
\* not. What a lost process had claimed expires. A crash between a change of
\* the local file and that of its row leaves the row as it was.
Crash ==
  /\ Spend("crashes", MaxCrashes)
  /\ worker' = [w \in Workers |-> Idle]
  /\ circuit' = NoCircuit
  /\ queue' = [queue EXCEPT !.lease = FALSE]
  /\ \/ UNCHANGED file
     \/ \E w \in Ticks : At(w, "gcdelete") /\ Current(w) /\ file' = "absent"
     \/ \E r \in Readers : At(r, "publish") /\ file' = "good"
  /\ UNCHANGED <<cloud, staged, late, archive, replica, verifiedAt>>

Init ==
  /\ file = "good" /\ cloud = "absent"
  /\ staged = FALSE /\ late = FALSE
  /\ queue = [status |-> "none", attempts |-> 0, token |-> 0, lease |-> FALSE, due |-> FALSE]
  /\ archive = "none"
  /\ replica = [local |-> "none", cloud |-> "none"]
  /\ verifiedAt = FALSE
  /\ circuit = NoCircuit
  /\ worker = [w \in Workers |-> Idle]
  /\ count = [claims |-> 0, faults |-> 0, expiries |-> 0, losses |-> 0, cuts |-> 0,
              crashes |-> 0]

Tick(w) ==
  \/ Begin(w) \/ RecoverLocalTransitions(w) \/ Readiness(w)
  \/ QueueEventSegments(w) \/ QueueObservationSegments(w) \/ Enqueue(w)
  \/ RecoverExpired(w) \/ Claim(w) \/ ClaimRefused(w) \/ NothingDue(w)
  \/ Put(w) \/ RenewClaim(w) \/ Readback(w) \/ UploadFails(w) \/ Complete(w)
  \/ UnlinkPayload(w) \/ CleanupUploadedPayloads(w)
  \/ Collect(w) \/ CollectRead(w) \/ CollectFetch(w) \/ CollectDelete(w)
  \/ Invalidated(w)

Restore(r) ==
  RestoreBegin(r) \/ RestoreMark(r) \/ RestoreFetch(r) \/ RestorePublish(r) \/ RestoreConfirm(r)

Next ==
  \/ \E w \in Ticks : Tick(w) \/ CutLease(w)
  \/ \E r \in Readers : Restore(r)
  \/ LatePut \/ TimePasses \/ Expire \/ CloudLoss \/ LocalDamage \/ Crash

-----------------------------------------------------------------------------
(* Properties.                                                             *)

TypeOK ==
  /\ file \in Copies /\ cloud \in Copies
  /\ staged \in BOOLEAN /\ late \in BOOLEAN /\ verifiedAt \in BOOLEAN
  /\ queue.status \in {"none", "queued", "uploading", "failed", "uploaded", "dead"}
  /\ queue.attempts \in 0 .. MaxClaims /\ queue.token \in 0 .. MaxClaims
  /\ archive \in {"none", "pending", "verified"}
  /\ replica \in [{"local", "cloud"} -> States \cup {"none"}]
  /\ circuit.fails \in 0 .. Threshold

\* As long as the surroundings leave one good copy, so does the runtime: the
\* local file goes only when the cloud has just returned the same bytes.
GoodCopyKept == file = "good" \/ cloud = "good"

\* What the records call verified was read back: without a loss in the cloud,
\* the object is there and good.
VerifiedIsTrue == count.losses = 0 /\ replica.cloud = "verified" => cloud = "good"

\* A worker that has lost its claim changes nothing of the transfer.
LostClaimIsInert ==
  \A w \in Ticks :
    worker[w].pc \in {"renew", "read", "fail", "commit"} /\ worker'[w] # worker[w] /\ ~Mine(w)
      /\ count'.crashes = count.crashes
      => UNCHANGED <<queue, archive, replica>>

\* The payload of a transfer that is not finished is on disk.
PayloadKept == queue.status \in {"queued", "failed", "uploading"} => staged

\* In the end the segment is in the cloud and verified, whatever failed on
\* the way, the circuit breaker included.
Offloaded == <>[](replica.cloud = "verified" /\ queue.status = "uploaded")

\* A failed transfer can be tried again.
FailureRecoverable == queue.status \in {"queued", "failed"} => Ensured("cloud", "uploading")
=============================================================================
