---------------------------- MODULE SchemaUpgrade ----------------------------
(***************************************************************************)
(* What Database.initialize does to the database file at every start       *)
(* (core/database.py): the rollback image, one transaction per schema      *)
(* version, the features and hashes that are renewed at every start, the   *)
(* schema contract, the restore after a failure and the removal of the     *)
(* images after a success; and the offline approval of legacy wallet rows  *)
(* (core/wallet_schema.py, scripts/authorize-wallet-schema60.py).          *)
(*                                                                         *)
(* A table has one row, of which the model knows which parts are still as  *)
(* they were written: the part every format of its state hash covers, and  *)
(* the part (limits, allow-lists, timestamps) that the legacy formats left *)
(* out. A hash is the format with the values it covers. Evidence kept in a *)
(* table of its own (revisions, moderation history) is a hash too, and     *)
(* "none" is its absence. Versions that only add tables, columns or        *)
(* triggers are folded into the next one that touches rows.                *)
(***************************************************************************)
EXTENDS Integers, FiniteSetsExt

CONSTANTS
  Tables,     \* the tables that have a row
  Versions,   \* the schema versions of the chain; the greatest is the current one
  First,      \* the versions the database may start at
  Policy,     \* the hash the policy has before schema 60
  Rewound,    \* whether the policy table has its automation column already
  MaxEdits, MaxFaults, MaxCrashes

VARIABLES
  db,        \* the database file
  backups,   \* the rollback images: a function from versions to images
  boot,      \* the process that initializes or runs
  approval,  \* the fingerprints an operator has approved
  origin,    \* history: the image the upgrade under way has started from
  used       \* edits, faults and crashes so far

vars == <<db, backups, boot, approval, origin, used>>

Current == Max(Versions)

NextVersion(v) == Min({w \in Versions : w > v})

-----------------------------------------------------------------------------
(* Rows and their hashes.                                                  *)

Formats == {"none", "bootstrap", "legacy", "v33", "v48", "v52", "v58", "v59", "v60", "v61",
            "v62", "v65", "v69", "v80", "now", "revised"}

Seals == [format : Formats, bound : BOOLEAN, loose : BOOLEAN]

Rows == [bound : BOOLEAN, loose : BOOLEAN, seal : Seals]

\* What the hash of a row in a format tells apart.
Hash(f, r) ==
  [format |-> f,
   bound |-> f \notin {"none", "bootstrap"} => r.bound,
   loose |-> f \notin {"none", "bootstrap", "legacy"} => r.loose]

SealedAs(r, f) == r.seal = Hash(f, r)

Reseal(f, r) == [r EXCEPT !.seal = Hash(f, r)]

AsWritten(r) == r.bound /\ r.loose

\* The format in which the integrity pass of the current version reads a table.
Top(t) ==
  CASE t = "behavior" -> "v33" [] t = "post" -> "v52" [] t = "submission" -> "v59"
    [] t = "policy" -> "now" [] t = "journal" -> "v60" [] t = "order" -> "v61"
    [] t = "execution" -> "v62" [] t = "bucket" -> "v80" [] t = "action" -> "revised"

\* The format a row of a table has in a database of version v.
FormatAt(t, v) ==
  CASE t = "behavior" -> IF v < 33 THEN "none" ELSE "v33"
    [] t = "post" -> IF v < 48 THEN "none" ELSE IF v < 52 THEN "v48" ELSE "v52"
    [] t = "submission" -> IF v < 59 THEN "v58" ELSE "v59"
    [] t = "policy" -> IF v < 60 THEN Policy ELSE IF v < 66 THEN "v65" ELSE "now"
    [] t = "journal" -> IF v < 60 THEN "legacy" ELSE "v60"
    [] t = "order" -> IF v < 61 THEN "legacy" ELSE "v61"
    [] t = "execution" -> IF v < 61 THEN "legacy" ELSE IF v < 62 THEN "v61" ELSE "v62"
    [] t = "bucket" -> IF v < 80 THEN "v69" ELSE "v80"
    [] t = "action" -> "revised"

-----------------------------------------------------------------------------
(* The upgrades. Each is the set of rows it may leave: none when it raises. *)

\* _backfill_behavior_log_revisions: a baseline for a log without revisions.
BackfillBehavior(r) == {IF r.seal.format = "none" THEN Reseal("v33", r) ELSE r}

\* _ensure_public_post_moderation_history: a baseline for a post without history.
ModerationHistory(r) == {IF r.seal.format = "none" THEN Reseal("v48", r) ELSE r}

\* _upgrade_public_post_evidence: the content, each event and the chain must
\* verify, and then get hashes of the new format.
PublicPostEvidence(r) == IF SealedAs(r, "v48") THEN {Reseal("v52", r)} ELSE {}

\* _upgrade_wallet_submission_consent.
SubmissionConsent(r) ==
  CASE SealedAs(r, "v59") -> {r}
    [] SealedAs(r, "v58") -> {Reseal("v59", r)}
    [] OTHER -> {}

\* is_default_bootstrap.
IsDefaultBootstrap(r) == r.seal.format = "bootstrap" /\ AsWritten(r)

\* _upgrade_wallet_payment_policy_hashes.
PolicyHashes(r, approved) ==
  CASE SealedAs(r, "now") -> {r}
    [] r.seal.format = "bootstrap" /\ (IsDefaultBootstrap(r) \/ approved) -> {Reseal("now", r)}
    [] approved /\ SealedAs(r, "legacy") -> {Reseal("now", r)}
    [] OTHER -> {}

\* _upgrade_wallet_ledger_hashes.
LedgerHashes(r, approved) ==
  CASE SealedAs(r, "v60") -> {r}
    [] SealedAs(r, "legacy") /\ approved -> {Reseal("v60", r)}
    [] OTHER -> {}

\* _upgrade_wallet_temporal_hashes, of orders and of executions.
\* Mutant: a matching legacy hash is enough.
TemporalHashes_Unapproved(r, approved) ==
  CASE SealedAs(r, "v61") -> {r}
    [] SealedAs(r, "legacy") -> {Reseal("v61", r)}
    [] OTHER -> {}

TemporalHashes(r, approved) ==
  CASE SealedAs(r, "v61") -> {r}
    [] SealedAs(r, "legacy") /\ approved -> {Reseal("v61", r)}
    [] OTHER -> {}

\* _upgrade_wallet_receipt_evidence.
ReceiptEvidence(r) ==
  CASE SealedAs(r, "v62") -> {r}
    [] SealedAs(r, "v61") -> {Reseal("v62", r)}
    [] OTHER -> {}


RecipientAllowlist(r) ==
  CASE SealedAs(r, "now") -> {r}
    [] SealedAs(r, "v65") \/ IsDefaultBootstrap(r) -> {Reseal("now", r)}
    [] OTHER -> {}

\* _upgrade_provider_health_bucket_hashes, with _verify_bucket.
\* Mutant: a row that does not verify in the old format is hashed anew.
BucketHashes_Rehash(r) == IF SealedAs(r, "v80") THEN {r} ELSE {Reseal("v80", r)}

BucketHashes(r) ==
  CASE SealedAs(r, "v69") -> {Reseal("v80", r)}
    [] SealedAs(r, "v80") -> {r}
    [] OTHER -> {}

Upgraded(t, v, r, approved) ==
  CASE t = "behavior" /\ v = 33 -> BackfillBehavior(r)
    [] t = "post" /\ v = 48 -> ModerationHistory(r)
    [] t = "post" /\ v = 52 -> PublicPostEvidence(r)
    [] t = "submission" /\ v = 59 -> SubmissionConsent(r)
    [] t = "policy" /\ v = 60 -> PolicyHashes(r, approved)
    [] t = "journal" /\ v = 60 -> LedgerHashes(r, approved)
    [] t \in {"order", "execution"} /\ v = 61 -> TemporalHashes(r, approved)
    [] t = "execution" /\ v = 62 -> ReceiptEvidence(r)
    [] t = "policy" /\ v = 66 -> RecipientAllowlist(r)
    [] t = "bucket" /\ v = 80 -> BucketHashes(r)
    [] OTHER -> {r}

-----------------------------------------------------------------------------
(* The approval.                                                           *)

\* wallet_upgrade_fingerprint: schema_meta, identity, policies, orders,
\* journals and entries.
Fingerprint(image) ==
  [version |-> image.version, marker |-> image.marker, baseline |-> image.baseline,
   automation |-> image.automation,
   row |-> [t \in Tables \cap {"policy", "order", "journal"} |-> image.row[t]]]

Approved == boot.approved

\* _migrate compares the fingerprint at once when it starts at schema 60, and
\* inside the transaction of schema 60 otherwise.
\* Mutant: only the transaction of schema 60 compares it.
FingerprintHolds_OnlyAt60(v) == v = 60 => Fingerprint(db) \in approval

FingerprintHolds(v) ==
  v = 60 \/ (boot.start.version = 60 /\ v = 61) => Fingerprint(db) \in approval

\* WalletEconomyStore.verify_integrity inside the approved transaction of
\* schema 60. It reads the automation column, and sqlite3.Row raises IndexError
\* when there is none.
EconomyVerifies(rows) ==
  /\ db.automation
  /\ \A t \in Tables : /\ t = "policy" => SealedAs(rows[t], "now")
                       /\ t = "submission" => SealedAs(rows[t], "v59")
                       /\ t = "journal" => SealedAs(rows[t], "v60")
                       /\ t = "order" => SealedAs(rows[t], "legacy")

\* The rows the transaction of version v leaves, if it commits.
Migrated(v) ==
  {rows \in [Tables -> UNION {Upgraded(t, v, db.row[t], Approved) : t \in Tables}] :
     /\ \A t \in Tables : rows[t] \in Upgraded(t, v, db.row[t], Approved)
     /\ Approved => FingerprintHolds(v)
     /\ Approved /\ v = 60 => EconomyVerifies(rows)}

-----------------------------------------------------------------------------
(* initialize.                                                             *)

Down == [pc |-> "down", start |-> db, approved |-> FALSE]

Spend(what, max) == used[what] < max /\ used' = [used EXCEPT ![what] = @ + 1]

Go(pc) == boot' = [boot EXCEPT !.pc = pc]

\* _create_migration_backup verifies a copy and moves it over any older image
\* of the same version.
\* Mutant: there is one image, whatever the version.
CreateBackup_OneImage == backups' = [v \in {Current} |-> db]

CreateBackup ==
  backups' = [v \in DOMAIN backups \cup {db.version} |->
                IF v = db.version THEN db ELSE backups[v]]

\* _preflight_schema_version and the rollback image. An approval is refused
\* at any version but 59 and 60.
Start(approved) ==
  /\ boot.pc = "down"
  /\ approved => approval # {} /\ db.version \in {59, 60}
  /\ IF db.version < Current THEN CreateBackup ELSE UNCHANGED backups
  /\ boot' = [pc |-> "migrate", start |-> db, approved |-> approved]
  /\ UNCHANGED <<db, approval, origin, used>>

\* One version of _migrate: rows and marker change in one transaction.
Migrate ==
  /\ boot.pc = "migrate" /\ db.version < Current
  /\ LET v == NextVersion(db.version)
     IN IF Migrated(v) = {}
        THEN Go("restore") /\ UNCHANGED db
        ELSE /\ \E rows \in Migrated(v) :
                  db' = [db EXCEPT !.row = rows, !.version = v,
                                   !.audit = @ \/ (Approved /\ v = 60)]
             /\ UNCHANGED boot
  /\ UNCHANGED <<backups, approval, origin, used>>

MigrateEnds ==
  /\ boot.pc = "migrate" /\ db.version = Current
  /\ Go("features")
  /\ UNCHANGED <<db, backups, approval, origin, used>>

\* _ensure_optional_features: behavior logs must have revisions, an action
\* without one gets a baseline, and the tables of a new version become the
\* inventory of the retention contract.
\* Mutant: a behavior log without a revision gets a baseline at every start.
EnsureOptionalFeatures_Baseline ==
  /\ boot.pc = "features"
  /\ db' = [db EXCEPT !.row = [t \in Tables |->
                                 IF t \in {"behavior", "action"} /\ db.row[t].seal.format = "none"
                                 THEN Reseal(Top(t), db.row[t]) ELSE db.row[t]],
                      !.baseline = IF @.version = db.version THEN @
                                   ELSE [version |-> db.version, odd |-> db.odd]]
  /\ Go("automation")
  /\ UNCHANGED <<backups, approval, origin, used>>

EnsureOptionalFeatures ==
  /\ boot.pc = "features"
  /\ IF "behavior" \in Tables /\ db.row["behavior"].seal.format = "none"
     THEN Go("restore") /\ UNCHANGED db
     ELSE /\ db' = [db EXCEPT
                      !.row = [t \in Tables |->
                                 IF t = "action" /\ db.row[t].seal.format = "none"
                                 THEN Reseal("revised", db.row[t]) ELSE db.row[t]],
                      !.baseline = IF @.version = db.version THEN @
                                   ELSE [version |-> db.version, odd |-> db.odd]]
          /\ Go("automation")
  /\ UNCHANGED <<backups, approval, origin, used>>

\* _upgrade_wallet_payment_policy_automation: every policy is hashed anew.
PolicyAutomation ==
  /\ boot.pc = "automation"
  /\ db' = [db EXCEPT !.automation = TRUE,
                      !.row = [t \in Tables |-> IF t = "policy" THEN Reseal("now", db.row[t])
                                                ELSE db.row[t]]]
  /\ Go("contract")
  /\ UNCHANGED <<backups, approval, origin, used>>


ContractHolds == ~db.odd /\ db.marker <= db.version

ValidateContract ==
  /\ boot.pc = "contract"
  /\ IF ContractHolds
     THEN db' = [db EXCEPT !.marker = db.version] /\ Go("cleanup")
     ELSE Go("restore") /\ UNCHANGED db
  /\ UNCHANGED <<backups, approval, origin, used>>

\* _cleanup_migration_backups removes what it can.
Cleanup ==
  /\ boot.pc = "cleanup"
  /\ \E kept \in SUBSET DOMAIN backups : backups' = [v \in kept |-> backups[v]]
  /\ origin' = db /\ Go("up")
  /\ UNCHANGED <<db, approval, used>>

\* Any exception inside the handler.
Fault ==
  /\ boot.pc \in {"migrate", "features", "automation", "contract"}
  /\ Spend("faults", MaxFaults) /\ Go("restore")
  /\ UNCHANGED <<db, backups, approval, origin>>

\* _restore_migration_backup. A start at the current version has no image.
\* Mutant: the oldest image is restored.
RestoreBackup_Oldest ==
  db' = IF boot.start.version < Current THEN backups[Min(DOMAIN backups)] ELSE db

RestoreBackup ==
  db' = IF boot.start.version < Current THEN backups[boot.start.version] ELSE db

Restore ==
  /\ boot.pc = "restore"
  /\ RestoreBackup /\ boot' = [Down EXCEPT !.start = db']
  /\ UNCHANGED <<backups, approval, origin, used>>

\* The restore may fail as well: the database stays where the failure left it.
RestoreFails ==
  /\ boot.pc = "restore" /\ Spend("faults", MaxFaults)
  /\ boot' = Down
  /\ UNCHANGED <<db, backups, approval, origin>>

-----------------------------------------------------------------------------
(* The operator and the surroundings.                                      *)

\* authorize-wallet-schema60.py without a fingerprint, and the review of the
\* rows it names: only rows that are as written are approved.
Review ==
  /\ boot.pc = "down" /\ db.version = 59 /\ approval = {}
  /\ \A t \in Tables \cap {"policy", "order", "journal"} : AsWritten(db.row[t])
  /\ approval' = {Fingerprint(db)}
  /\ UNCHANGED <<db, backups, boot, origin, used>>

Stop ==
  /\ boot.pc = "up"
  /\ boot' = Down
  /\ UNCHANGED <<db, backups, approval, origin, used>>

Crash ==
  /\ boot.pc # "down" /\ Spend("crashes", MaxCrashes)
  /\ boot' = Down
  /\ UNCHANGED <<db, backups, approval, origin>>

\* Damage while the process is down, of a row that has a hash, or of the
\* evidence or the tables themselves.
Damaged ==
  {[db EXCEPT !.row[t].bound = FALSE] : t \in {u \in Tables : db.row[u].seal.format # "none"}}
  \cup {[db EXCEPT !.row[t].loose = FALSE] :
          t \in {u \in Tables : db.row[u].seal.format # "none"}}
  \cup {[db EXCEPT !.row[t].seal = [format |-> "none", bound |-> TRUE, loose |-> TRUE]] :
          t \in Tables \cap {"behavior", "post", "action"}}
  \cup {[db EXCEPT !.odd = TRUE]}

Edit ==
  /\ boot.pc = "down" /\ Spend("edits", MaxEdits)
  /\ db' \in Damaged /\ db' # db
  /\ boot' = [boot EXCEPT !.start = db']
  /\ origin' = IF db.version = origin.version THEN db' ELSE origin
  /\ UNCHANGED <<backups, approval>>

InitialImage(v) ==
  [version |-> v, automation |-> v = Current \/ Rewound, odd |-> FALSE, audit |-> FALSE,
   marker |-> IF v = Current THEN v ELSE 0, baseline |-> [version |-> v, odd |-> FALSE],
   row |-> [t \in Tables |->
              Reseal(FormatAt(t, v), [bound |-> TRUE, loose |-> TRUE,
                                      seal |-> [format |-> "none", bound |-> TRUE,
                                                loose |-> TRUE]])]]

Init ==
  /\ db \in {InitialImage(v) : v \in First}
  /\ backups = [v \in {} |-> db]
  /\ boot = Down
  /\ approval = {}
  /\ origin = db
  /\ used = [edits |-> 0, faults |-> 0, crashes |-> 0]

Initialize ==
  \/ Migrate \/ MigrateEnds \/ EnsureOptionalFeatures \/ PolicyAutomation
  \/ ValidateContract \/ Cleanup \/ Restore

Next ==
  \/ Start(FALSE) \/ Start(TRUE) \/ Initialize \/ Fault \/ RestoreFails
  \/ Review \/ Stop \/ Crash \/ Edit

-----------------------------------------------------------------------------
Images ==
  [version : Versions \cup First, automation : BOOLEAN, odd : BOOLEAN, audit : BOOLEAN,
   marker : {0, Current}, row : [Tables -> Rows],
   baseline : [version : Versions \cup First, odd : BOOLEAN]]

\* Every variable has its type.
TypeOK ==
  /\ db \in Images /\ origin \in Images /\ boot.start \in Images
  /\ DOMAIN backups \subseteq Versions \cup First
  /\ \A v \in DOMAIN backups : backups[v] \in Images
  /\ boot.pc \in {"down", "migrate", "features", "automation", "contract", "cleanup",
                  "restore", "up"}
  /\ Cardinality(approval) <= 1
  /\ used \in [edits : 0 .. MaxEdits, faults : 0 .. MaxFaults, crashes : 0 .. MaxCrashes]

\* No upgrade turns a damaged row into one that verifies: whatever steps,
\* failures, restores and approvals led to a running database, a row that
\* verifies in the current format of its table is as it was written. (Not so
\* for policies, which every start hashes anew, for actions without a revision,
\* which every start gives one, and for the times of executions, which the
\* approved fingerprint leaves out.)
NoLaundering ==
  boot.pc = "up" =>
    \A t \in Tables \ {"policy", "action"} :
      SealedAs(db.row[t], Top(t)) => /\ db.row[t].bound
                                     /\ t # "execution" => db.row[t].loose

\* "A migration must not turn an already-tampered legacy row into a trusted row
\* merely by changing the hash format", for payment policies.
PolicyNotLaundered ==
  boot.pc = "up" /\ "policy" \in Tables /\ SealedAs(db.row["policy"], "now")
    => AsWritten(db.row["policy"])

\* The image from which an unfinished upgrade set out can still be restored,
\* through crashes and further starts at the versions in between.
OriginKept ==
  db.version # origin.version =>
    origin.version \in DOMAIN backups /\ backups[origin.version] = origin

\* A database that runs has the current version, a contract marker, and no
\* table in its retention inventory that the contract does not know.
RunningIsComplete ==
  boot.pc = "up" => /\ db.version = Current /\ db.marker = Current
                    /\ db.automation /\ ~db.baseline.odd

\* A start that fails undoes everything it did, unless the restore fails too.
FailedStartUndone ==
  boot.pc \notin {"down", "up"} /\ boot'.pc = "down" /\ used' = used
    /\ boot.start.version < Current => db' = boot.start

\* Started again and again, an undamaged database ends up running.
UpgradeSucceeds == []<>(boot.pc = "up" \/ used.edits > 0)

\* An approved upgrade of an undamaged database comes to run.
ApprovedUpgradeCompletes == approval # {} /\ used.edits = 0 ~> boot.pc = "up"
=============================================================================
