---------------------------- MODULE ArchiveStaging ----------------------------
(***************************************************************************)
(* Moving cold event payloads and observation bodies out of the database   *)
(* into encrypted segments (core/event_archive.py,                         *)
(* world/observation_archive.py), with the two-phase ledger of staging     *)
(* manifests, the local object store and the keyring they rest on          *)
(* (core/archive.py).                                                      *)
(*                                                                         *)
(* The object store is outside the database's transactions. A manifest is  *)
(* prepared before the object is written, stored once the object has been  *)
(* read back, and committed in the transaction that publishes the pointers *)
(* of the source rows. What a crash, a cut lease or a full disk leaves     *)
(* behind is replayed or removed by a later maintenance pass.              *)
(*                                                                         *)
(* A row is a number, in the order of its time; a segment is a number too. *)
(* A manifest's source state is its set of rows: row contents never change *)
(* (nothing but the archive updates them), so their hashes are left out.   *)
(***************************************************************************)
EXTENDS Integers, FiniteSets, FiniteSetsExt

CONSTANTS
  Events, Observations,  \* the rows old enough to be archived, by kind
  Batch,                 \* rows that fit in one segment
  Workers,               \* maintenance passes, possibly stale ones
  Concurrent,            \* whether several passes may hold a live lease
  KeyIds, Fingerprints,  \* what the keyring file may bind
  MaxSegments, MaxAged, MaxCuts, MaxCrashes, MaxFaults, MaxGenerations

VARIABLES
  pointer,    \* the segment a row was moved to (0: the row is still inline)
  manifest,   \* archive_staging_manifests, by segment
  segment,    \* the committed segments: event_payload_segments and
              \* observation_content_segments
  object,     \* the file of a segment in the local store
  aged,       \* the files older than the grace period of the orphan sweep
  revisions,  \* archive_keyring_revisions: generation -> recorded keyring
  ring,       \* the keyring the process was started with
  worker,     \* the maintenance passes
  booted,     \* whether the pass of the start is done or under way
  next, cuts, crashes, faults

vars == <<pointer, manifest, segment, object, aged, revisions, ring, worker, booted, next,
          cuts, crashes, faults>>

Items == Events \cup Observations

Rows(kind) == IF kind = "event" THEN Events ELSE Observations

Segments == 1 .. MaxSegments

NoManifest == [status |-> "none"]

Missing == [rows |-> {}, key |-> [id |-> 0, print |-> 0]]

Live(s) == manifest[s].status \in {"prepared", "stored"}

-----------------------------------------------------------------------------
(* The keyring: key ids bound to fingerprints, one of them active.         *)

\* A keyring that __init__ accepts: the active key is one of its keys.
Keyrings ==
  {r \in [gen : 1 .. MaxGenerations, keys : [KeyIds -> Fingerprints \cup {0}], active : KeyIds] :
     r.keys[r.active] # 0}

ActiveKey(r) == [id |-> r.active, print |-> r.keys[r.active]]

\* resolve: the key of a segment is there under its id and its fingerprint.
Resolves(r, key) == r.keys[key.id] = key.print

\* What the recorded revisions say of a key id, 0 if nothing.
Recorded(id) ==
  LET known == {g \in DOMAIN revisions : revisions[g].keys[id] # 0}
  IN IF known = {} THEN 0 ELSE revisions[Min(known)].keys[id]

\* _validate_revision_connection: generations go up by one and mean one
\* thing, a key id is never bound to another key, and every committed segment
\* keeps its key.
\* Mutant: a keyring may drop the keys of committed segments.
RevisionValid_KeysDropped(r) ==
  LET newest == IF revisions = <<>> THEN r.gen - 1 ELSE Max(DOMAIN revisions)
  IN /\ r.gen \in DOMAIN revisions =>
          revisions[r.gen] = [keys |-> r.keys, active |-> r.active]
     /\ r.gen \in {newest, newest + 1}
     /\ \A id \in KeyIds : r.keys[id] # 0 => Recorded(id) \in {0, r.keys[id]}

RevisionValid(r) ==
  LET newest == IF revisions = <<>> THEN r.gen - 1 ELSE Max(DOMAIN revisions)
  IN /\ r.gen \in DOMAIN revisions =>
          revisions[r.gen] = [keys |-> r.keys, active |-> r.active]
     /\ r.gen \in {newest, newest + 1}
     /\ \A id \in KeyIds : r.keys[id] # 0 => Recorded(id) \in {0, r.keys[id]}
     /\ \A s \in segment : Resolves(r, manifest[s].key)

WithRevision(r) ==
  [g \in DOMAIN revisions \cup {r.gen} |->
     IF g = r.gen THEN [keys |-> r.keys, active |-> r.active] ELSE revisions[g]]

-----------------------------------------------------------------------------
(* Checks of one staged object and of the committed archive.               *)

\* stored_metadata, get and _verify_staged_payload: the file is there and
\* decrypts, under the manifest's key, to the manifest's rows.
ObjectVerifies(s) == object[s] = [rows |-> manifest[s].rows, key |-> manifest[s].key]

StagedEventsVerify(s) == manifest[s].kind = "event" /\ ObjectVerifies(s)

StagedObservationsVerify(s) == manifest[s].kind = "observation" /\ ObjectVerifies(s)

Verified(s) == StagedEventsVerify(s) \/ StagedObservationsVerify(s)

\* _load_segment and load_content: the same for a committed segment. Whether
\* its key is there is a property of its own.
LoadSegment(s) == s \in segment /\ ObjectVerifies(s)

LoadContent(s) == s \in segment /\ ObjectVerifies(s)

\* referenced: a live or committed manifest, or a committed segment, names
\* the object.
\* Mutant: only live manifests protect their object.
Referenced_LiveOnly(s) == Live(s)

\* Mutant: an abandoned manifest protects its object too.
Referenced_Abandoned(s) == manifest[s].status \notin {"none", "removed"} \/ s \in segment

Referenced(s) == \/ manifest[s].status \in {"prepared", "stored", "committed"}
                 \/ s \in segment

\* _verify_database_manifest: every pointer leads to a segment, and every
\* segment is pointed to by exactly the rows of its manifest.
VerifyDatabaseManifest ==
  /\ \A i \in Events : pointer[i] # 0 => pointer[i] \in segment
  /\ \A s \in segment : manifest[s].kind = "event" =>
       {i \in Events : pointer[i] = s} = manifest[s].rows

\* _verify_payload_integrity: each segment loads and holds those rows.
VerifyPayloadIntegrity ==
  \A s \in segment : manifest[s].kind = "event" => LoadSegment(s)

\* verify_integrity of the observation archive: the segments are the ones the
\* rows point to, and each loads and holds its rows.
ObservationSegment(s) ==
  /\ LoadContent(s)
  /\ {i \in Observations : pointer[i] = s} = manifest[s].rows

VerifyObservations ==
  LET owned == {s \in segment : manifest[s].kind = "observation"}
  IN /\ owned = {pointer[i] : i \in Observations} \ {0}
     /\ \A s \in owned : ObservationSegment(s)

-----------------------------------------------------------------------------
(* A maintenance pass. pc is the next thing it does; kind, seg, rows and   *)
(* todo are the local variables of archive_cold and reconcile_staging,     *)
(* replay says which of the two is at work on seg.                         *)

Idle == [pc |-> "idle", lease |-> FALSE, kind |-> "event", seg |-> 0, rows |-> {},
         todo |-> {}, replay |-> FALSE, boot |-> FALSE]

Go(w, pc) == worker' = [worker EXCEPT ![w].pc = pc]

Stop(w) == worker' = [worker EXCEPT ![w] = Idle]

At(w, pc) == worker[w].pc = pc

Holds(w, pc) == At(w, pc) /\ worker[w].lease

\* reconcile_archives, once at the start of the process: the sweep and the
\* replay of both archives, with nothing else running.
Boot(w) ==
  /\ At(w, "idle") /\ ~booted
  /\ booted' = TRUE
  /\ worker' = [worker EXCEPT
       ![w] = [Idle EXCEPT !.pc = "sweep", !.lease = TRUE, !.boot = TRUE]]
  /\ UNCHANGED <<pointer, manifest, segment, object, aged, revisions, ring, next, cuts,
                 crashes, faults>>

\* maintain begins with the orphan sweep too.
Begin(w) ==
  /\ At(w, "idle") /\ booted
  /\ \A v \in Workers : ~worker[v].boot /\ (Concurrent \/ ~worker[v].lease)
  /\ worker' = [worker EXCEPT ![w] = [Idle EXCEPT !.pc = "sweep", !.lease = TRUE]]
  /\ UNCHANGED <<pointer, manifest, segment, object, aged, revisions, ring, booted, next,
                 cuts, crashes, faults>>

\* gc_orphans asks the ledger about one aged file...
SweepLook(w) ==
  /\ At(w, "sweep")
  /\ \E s \in aged :
       /\ ~Referenced(s)
       /\ worker' = [worker EXCEPT ![w].pc = "unlink", ![w].seg = s]
  /\ UNCHANGED <<pointer, manifest, segment, object, aged, revisions, ring, booted, next,
                 cuts, crashes, faults>>

\* ...and removes it. No lease is asked for here.
SweepUnlink(w) ==
  /\ At(w, "unlink")
  /\ object' = [object EXCEPT ![worker[w].seg] = Missing]
  /\ aged' = aged \ {worker[w].seg}
  /\ Go(w, "sweep")
  /\ UNCHANGED <<pointer, manifest, segment, revisions, ring, booted, next, cuts, crashes,
                 faults>>

SweepDone(w) ==
  /\ At(w, "sweep")
  /\ \A s \in aged : Referenced(s)
  /\ Go(w, "enter")
  /\ UNCHANGED <<pointer, manifest, segment, object, aged, revisions, ring, booted, next,
                 cuts, crashes, faults>>

\* _admit_write_stage: storage pressure skips the archive of this kind.
NextKind(w) ==
  IF worker[w].kind = "event"
  THEN [Idle EXCEPT !.pc = "enter", !.lease = worker[w].lease, !.boot = worker[w].boot,
                    !.kind = "observation"]
  ELSE Idle

PressureSkips(w) ==
  /\ At(w, "enter")
  /\ faults < MaxFaults /\ faults' = faults + 1
  /\ worker' = [worker EXCEPT ![w] = NextKind(w)]
  /\ UNCHANGED <<pointer, manifest, segment, object, aged, revisions, ring, booted, next,
                 cuts, crashes>>

\* The manifests that reconcile_staging has to look at.
Staged(kind) == {s \in Segments : Live(s) /\ manifest[s].kind = kind}

\* The event archive asks for one manifest after the other; the observation
\* archive reads its list at the start.
Listed(kind) == IF kind = "event" THEN Segments ELSE Staged(kind)

\* The pass of the start records no keyring.
EnterReplay(w) ==
  /\ Holds(w, "enter") /\ worker[w].boot
  /\ worker' = [worker EXCEPT ![w].pc = "pick", ![w].todo = Listed(worker[w].kind)]
  /\ UNCHANGED <<pointer, manifest, segment, object, aged, revisions, ring, booted, next, cuts,
                 crashes, faults>>

\* record_revision: the first transaction of archive_cold. A keyring that is
\* not valid for the history ends the pass.
RecordRevision(w) ==
  /\ Holds(w, "enter") /\ ~worker[w].boot
  /\ RevisionValid(ring)
  /\ revisions' = WithRevision(ring)
  /\ worker' = [worker EXCEPT ![w].pc = "pick", ![w].todo = Listed(worker[w].kind)]
  /\ UNCHANGED <<pointer, manifest, segment, object, aged, ring, booted, next, cuts,
                 crashes, faults>>

RevisionRefused(w) ==
  /\ Holds(w, "enter") /\ ~worker[w].boot
  /\ ~RevisionValid(ring)
  /\ Stop(w)
  /\ UNCHANGED <<pointer, manifest, segment, object, aged, revisions, ring, booted, next,
                 cuts, crashes, faults>>

-----------------------------------------------------------------------------
(* reconcile_staging.                                                      *)

EventCandidates(w) == worker[w].todo \cap Staged("event")

ObservationCandidates(w) == worker[w].todo

Candidates(w) ==
  IF worker[w].kind = "event" THEN EventCandidates(w) ELSE ObservationCandidates(w)

\* The key of the manifest must be in the keyring: if not, the pass ends.
Pick(w) ==
  /\ At(w, "pick")
  /\ \E s \in Candidates(w) :
       /\ Resolves(ring, manifest[s].key)
       /\ worker' = [worker EXCEPT ![w].pc = "examine", ![w].seg = s, ![w].replay = TRUE,
                                   ![w].todo = @ \ {s}]
  /\ UNCHANGED <<pointer, manifest, segment, object, aged, revisions, ring, booted, next,
                 cuts, crashes, faults>>

PickRefused(w) ==
  /\ At(w, "pick")
  /\ \E s \in Candidates(w) : ~Resolves(ring, manifest[s].key)
  /\ Stop(w)
  /\ UNCHANGED <<pointer, manifest, segment, object, aged, revisions, ring, booted, next,
                 cuts, crashes, faults>>

PickDone(w) ==
  /\ At(w, "pick")
  /\ Candidates(w) = {}
  /\ worker' = [worker EXCEPT ![w] = IF @.boot THEN NextKind(w) ELSE [@ EXCEPT !.pc = "select"]]
  /\ UNCHANGED <<pointer, manifest, segment, object, aged, revisions, ring, booted, next,
                 cuts, crashes, faults>>

\* The object is read without a lease, outside any transaction.
Examine(w) ==
  /\ At(w, "examine")
  /\ Go(w, IF Verified(worker[w].seg) THEN "mark" ELSE "abandon")
  /\ UNCHANGED <<pointer, manifest, segment, object, aged, revisions, ring, booted, next,
                 cuts, crashes, faults>>

-----------------------------------------------------------------------------
(* archive_cold, from the selection of the rows to their finalization.     *)

\* The oldest rows that are still inline, as many as fit.
Oldest(rows) ==
  LET inline == {i \in rows : pointer[i] = 0}
  IN {i \in inline : Cardinality({j \in inline : j < i}) < Batch}

ColdEvents == Oldest(Events)

ColdObservations == Oldest(Observations)

Cold(kind) == IF kind = "event" THEN ColdEvents ELSE ColdObservations

Select(w) ==
  /\ At(w, "select")
  /\ worker' = [worker EXCEPT
       ![w] = IF Cold(worker[w].kind) = {} THEN NextKind(w)
              ELSE [@ EXCEPT !.pc = "prepare", !.rows = Cold(worker[w].kind), !.replay = FALSE]]
  /\ UNCHANGED <<pointer, manifest, segment, object, aged, revisions, ring, booted, next,
                 cuts, crashes, faults>>

\* ArchiveStagingLedger.prepare, with a new segment id.
Prepare(w) ==
  /\ Holds(w, "prepare")
  /\ next < MaxSegments
  /\ next' = next + 1
  /\ manifest' = [manifest EXCEPT ![next + 1] =
       [status |-> "prepared", kind |-> worker[w].kind, rows |-> worker[w].rows,
        key |-> ActiveKey(ring)]]
  /\ worker' = [worker EXCEPT ![w].pc = "assert", ![w].seg = next + 1]
  /\ UNCHANGED <<pointer, segment, object, aged, revisions, ring, booted, cuts, crashes, faults>>

\* assert_current_lease, before the provider is called. The lease may be cut
\* between this check and the write.
AssertLease(w) ==
  /\ Holds(w, "assert")
  /\ Go(w, "put")
  /\ UNCHANGED <<pointer, manifest, segment, object, aged, revisions, ring, booted, next,
                 cuts, crashes, faults>>

\* put: encrypt under the active key, write a temporary file, rename it.
Put(w) ==
  /\ At(w, "put")
  /\ object' = [object EXCEPT ![worker[w].seg] =
       [rows |-> worker[w].rows, key |-> manifest[worker[w].seg].key]]
  /\ aged' = aged \ {worker[w].seg}
  /\ Go(w, "readback")
  /\ UNCHANGED <<pointer, manifest, segment, revisions, ring, booted, next, cuts, crashes,
                 faults>>

\* The written object is read back and compared with the manifest.
Readback(w) ==
  /\ At(w, "readback")
  /\ IF Verified(worker[w].seg) THEN Go(w, "mark") ELSE Stop(w)
  /\ UNCHANGED <<pointer, manifest, segment, object, aged, revisions, ring, booted, next,
                 cuts, crashes, faults>>

\* An input or output error of the provider ends the pass.
ProviderFails(w) ==
  /\ worker[w].pc \in {"put", "readback"}
  /\ faults < MaxFaults /\ faults' = faults + 1
  /\ Stop(w)
  /\ UNCHANGED <<pointer, manifest, segment, object, aged, revisions, ring, booted, next,
                 cuts, crashes>>

\* Where a pass goes when it is done with a manifest it replayed or with the
\* segment it wrote.
Continue(w) ==
  worker' = [worker EXCEPT ![w] = IF @.replay THEN [@ EXCEPT !.pc = "pick"] ELSE NextKind(w)]

\* mark_stored: prepared becomes stored; a manifest that is stored or
\* committed already is left alone; any other is refused.
\* Mutant: only a prepared manifest may be marked, not one marked already.
MarkStored_PreparedOnly(w) ==
  LET s == worker[w].seg
  IN /\ Holds(w, "mark")
     /\ manifest' = IF manifest[s].status = "prepared"
                    THEN [manifest EXCEPT ![s].status = "stored"]
                    ELSE manifest
     /\ IF manifest[s].status = "prepared" THEN Go(w, "finalize")
        ELSE IF worker[w].replay THEN Go(w, "pick") ELSE Stop(w)
     /\ UNCHANGED <<pointer, segment, object, aged, revisions, ring, booted, next, cuts,
                    crashes, faults>>

MarkStored(w) ==
  LET s == worker[w].seg
  IN /\ Holds(w, "mark")
     /\ manifest' = IF manifest[s].status = "prepared"
                    THEN [manifest EXCEPT ![s].status = "stored"]
                    ELSE manifest
     /\ IF manifest[s].status \in {"prepared", "stored", "committed"} THEN Go(w, "finalize")
        ELSE IF worker[w].replay THEN Go(w, "pick") ELSE Stop(w)
     /\ UNCHANGED <<pointer, segment, object, aged, revisions, ring, booted, next, cuts,
                    crashes, faults>>

\* _finalize_staged_manifest: the rows must still be inline.
Unclaimed(s) == \A i \in manifest[s].rows : pointer[i] = 0

\* Mutant: a row that another segment took is moved again.
Publish_Unchecked(w, s) ==
  /\ manifest[s].status = "stored"
  /\ pointer' = [i \in Items |-> IF i \in manifest[s].rows THEN s ELSE pointer[i]]
  /\ segment' = segment \cup {s}
  /\ manifest' = [manifest EXCEPT ![s].status = "committed"]
  /\ Continue(w)

Publish(w, s) ==
  /\ manifest[s].status = "stored"
  /\ Unclaimed(s)
  /\ pointer' = [i \in Items |-> IF i \in manifest[s].rows THEN s ELSE pointer[i]]
  /\ segment' = segment \cup {s}
  /\ manifest' = [manifest EXCEPT ![s].status = "committed"]
  /\ Continue(w)

PublishEvents(w, s) == manifest[s].kind = "event" /\ Publish(w, s)

PublishObservations(w, s) == manifest[s].kind = "observation" /\ Publish(w, s)

Finalize(w) ==
  LET s == worker[w].seg
  IN /\ Holds(w, "finalize")
     /\ \/ PublishEvents(w, s)
        \/ PublishObservations(w, s)
        \/ /\ manifest[s].status = "stored" /\ ~Unclaimed(s)
           /\ Go(w, "abandon")
           /\ UNCHANGED <<pointer, segment, manifest>>
        \/ /\ manifest[s].status # "stored"
           /\ IF manifest[s].status = "committed" \/ worker[w].replay
              THEN Continue(w) ELSE Stop(w)
           /\ UNCHANGED <<pointer, segment, manifest>>
     /\ UNCHANGED <<object, aged, revisions, ring, booted, next, cuts, crashes, faults>>

\* mark_abandoned is a compare-and-swap; the object is deleted only by the
\* pass whose swap succeeded.
\* Mutant: the object goes whoever decided the manifest's fate.
Abandon_Anyway(w) ==
  LET s == worker[w].seg
  IN /\ Holds(w, "abandon")
     /\ manifest' = IF Live(s) THEN [manifest EXCEPT ![s].status = "abandoned"] ELSE manifest
     /\ Go(w, "delete")
     /\ UNCHANGED <<pointer, segment, object, aged, revisions, ring, booted, next, cuts,
                    crashes, faults>>

Abandon(w) ==
  LET s == worker[w].seg
  IN /\ Holds(w, "abandon")
     /\ IF Live(s)
        THEN /\ manifest' = [manifest EXCEPT ![s].status = "abandoned"]
             /\ Go(w, "delete")
        ELSE /\ IF worker[w].replay \/ manifest[s].status = "committed"
                THEN Continue(w) ELSE Stop(w)
             /\ UNCHANGED manifest
     /\ UNCHANGED <<pointer, segment, object, aged, revisions, ring, booted, next, cuts,
                    crashes, faults>>

\* The deletion is outside the transaction, and its failure is suppressed.
DeleteObject(w) ==
  LET s == worker[w].seg
  IN /\ At(w, "delete")
     /\ \/ /\ object' = [object EXCEPT ![s] = Missing]
           /\ aged' = aged \ {s}
           /\ UNCHANGED faults
        \/ /\ faults < MaxFaults /\ faults' = faults + 1
           /\ UNCHANGED <<object, aged>>
     /\ Go(w, "removed")
     /\ UNCHANGED <<pointer, manifest, segment, revisions, ring, booted, next, cuts,
                    crashes>>

MarkRemoved(w) ==
  LET s == worker[w].seg
  IN /\ Holds(w, "removed")
     /\ manifest' = IF manifest[s].status = "abandoned"
                    THEN [manifest EXCEPT ![s].status = "removed"] ELSE manifest
     /\ IF worker[w].replay THEN Go(w, "pick") ELSE Stop(w)
     /\ UNCHANGED <<pointer, segment, object, aged, revisions, ring, booted, next, cuts,
                    crashes, faults>>

-----------------------------------------------------------------------------
(* The surroundings.                                                       *)

Transactions == {"enter", "prepare", "mark", "finalize", "abandon", "removed"}

\* A transaction, or the explicit check, of a pass whose lease was cut raises
\* OperationInvalidated and ends the pass.
Invalidated(w) ==
  /\ worker[w].pc \in Transactions \cup {"assert"}
  /\ ~worker[w].lease
  /\ Stop(w)
  /\ UNCHANGED <<pointer, manifest, segment, object, aged, revisions, ring, booted, next,
                 cuts, crashes, faults>>

CutLease(w) ==
  /\ worker[w].lease /\ ~worker[w].boot
  /\ cuts < MaxCuts /\ cuts' = cuts + 1
  /\ worker' = [worker EXCEPT ![w].lease = FALSE]
  /\ UNCHANGED <<pointer, manifest, segment, object, aged, revisions, ring, booted, next,
                 crashes, faults>>

\* A file that has been there for an hour is old enough to be swept.
Age(s) ==
  /\ object[s] # Missing /\ s \notin aged /\ Cardinality(aged) < MaxAged
  /\ aged' = aged \cup {s}
  /\ UNCHANGED <<pointer, manifest, segment, object, revisions, ring, worker, booted, next,
                 cuts, crashes, faults>>

\* A staged object may be damaged on disk before it is committed.
Damage(s) ==
  /\ object[s] # Missing /\ s \notin segment
  /\ \A w \in Workers : worker[w].pc \in {"idle", "sweep", "enter"}
  /\ faults < MaxFaults /\ faults' = faults + 1
  /\ object' = [object EXCEPT ![s] = [rows |-> {}, key |-> manifest[s].key]]
  /\ UNCHANGED <<pointer, manifest, segment, aged, revisions, ring, worker, booted, next,
                 cuts, crashes>>

\* The process ends and is started again, possibly with another keyring.
Restart(r) ==
  /\ crashes < MaxCrashes /\ crashes' = crashes + 1
  /\ ring' = r
  /\ booted' = FALSE
  /\ worker' = [w \in Workers |-> Idle]
  /\ UNCHANGED <<pointer, manifest, segment, object, aged, revisions, next, cuts,
                 faults>>

Init ==
  /\ pointer = [i \in Items |-> 0]
  /\ manifest = [s \in Segments |-> NoManifest]
  /\ segment = {} /\ aged = {}
  /\ object = [s \in Segments |-> Missing]
  /\ revisions = <<>>
  /\ ring \in {r \in Keyrings : r.gen = 1 /\ \A id \in KeyIds \ {r.active} : r.keys[id] = 0}
  /\ worker = [w \in Workers |-> Idle]
  /\ booted = FALSE /\ next = 0 /\ cuts = 0 /\ crashes = 0 /\ faults = 0

\* A pass goes on by itself; the surroundings may stop it anywhere.
Work(w) ==
  \/ Boot(w) \/ Begin(w) \/ SweepLook(w) \/ SweepUnlink(w) \/ SweepDone(w)
  \/ EnterReplay(w) \/ RecordRevision(w) \/ RevisionRefused(w)
  \/ Pick(w) \/ PickRefused(w) \/ PickDone(w) \/ Examine(w)
  \/ Select(w) \/ Prepare(w) \/ AssertLease(w) \/ Put(w) \/ Readback(w)
  \/ MarkStored(w) \/ Finalize(w) \/ Abandon(w) \/ DeleteObject(w) \/ MarkRemoved(w)
  \/ Invalidated(w)

Next ==
  \/ \E w \in Workers : Work(w) \/ PressureSkips(w) \/ ProviderFails(w) \/ CutLease(w)
  \/ \E s \in Segments : Age(s) \/ Damage(s)
  \/ \E r \in Keyrings : Restart(r)

-----------------------------------------------------------------------------
(* Properties.                                                             *)

Statuses == {"prepared", "stored", "committed", "abandoned", "removed"}

Keys == [id : KeyIds, print : Fingerprints]

TypeOK ==
  /\ pointer \in [Items -> 0 .. MaxSegments]
  /\ \A s \in Segments :
       /\ manifest[s] # NoManifest =>
            /\ manifest[s].status \in Statuses
            /\ manifest[s].kind \in {"event", "observation"}
            /\ manifest[s].rows \subseteq Rows(manifest[s].kind)
            /\ manifest[s].key \in Keys
       /\ object[s] # Missing => object[s].rows \subseteq Items /\ object[s].key \in Keys
  /\ segment \subseteq 1 .. next
  /\ aged \subseteq {s \in Segments : object[s] # Missing}
  /\ DOMAIN revisions \subseteq 1 .. MaxGenerations
  /\ ring \in Keyrings

\* Whenever the integrity pass runs, both archives verify: each archived row
\* is in exactly one committed segment, and the object of that segment is in
\* the store, whatever was replayed, abandoned or swept.
ArchiveVerifies == VerifyDatabaseManifest /\ VerifyPayloadIntegrity /\ VerifyObservations

\* A pass that got past the keyring check can decrypt every committed
\* segment, and the recorded generations have no gap.
KeysKept ==
  /\ \A w \in Workers :
       ~worker[w].boot /\ worker[w].pc \notin {"idle", "sweep", "unlink", "enter"} =>
         \A s \in segment : Resolves(ring, manifest[s].key)
  /\ \A g \in DOMAIN revisions : g - 1 \in DOMAIN revisions \cup {Min(DOMAIN revisions) - 1}

\* What a step does to the ledger: the fate of a manifest is decided once,
\* and an object a committed segment names is not touched again.
FateIsFinal ==
  \A s \in Segments :
    /\ manifest[s].status = "committed" => manifest'[s].status = "committed"
    /\ manifest[s].status \in {"abandoned", "removed"} =>
         manifest'[s].status \in {"abandoned", "removed"}
    /\ s \in segment /\ s \in segment' => object'[s] = object[s]

\* In the end every cold row has left the database, no manifest is under way,
\* and nothing unreferenced stays in the store, whatever was interrupted.
ArchiveSettles ==
  <>[](/\ \A i \in DOMAIN pointer : pointer[i] # 0
       /\ \A s \in DOMAIN object : ~Live(s) /\ (object[s] # Missing => s \in segment))
=============================================================================
