---------------------------- MODULE ModelResources ----------------------------
\* The store of model resources (model/resources.py): a group of API keys that
\* an operator configures, extends, disables and revokes while model calls
\* select keys and report on them. Every change appends a revision of the
\* group or an event of the key, and verify_integrity() replays both. Most
\* methods read the clock before they enter their transaction.
EXTENDS Integers, Sequences, FiniteSets, SecretCleanup

CONSTANTS
  Keys,         \* key ids the operators may create
  Fingerprint,  \* the secret behind each key id, [Keys -> a set]
  Operators,    \* HTTP threads of operators
  Calls,        \* threads of model calls
  MaxTime,      \* bound on the clock
  Lag,          \* how old a clock read may be when its transaction starts
  Cooldown,     \* cooldown_seconds, in clock units
  GroupLimit,   \* keys a group may hold (64 in the code)
  MaxRequests,  \* bound on operator requests
  MaxCalls,     \* bound on model calls
  MaxFaults,    \* bound on file operations that fail
  MaxCrashes    \* bound on restarts

VARIABLES
  clock,    \* utc_now()
  group,    \* the row of cognitive_resource_groups and its revisions
  key,      \* the rows of cognitive_resource_keys
  events,   \* the rows of cognitive_resource_key_events, in rowid order
  secret,   \* files, intents and queued deletions, see SecretCleanup
  op,       \* what each operator thread is doing
  call,     \* what each model call is doing
  booting,  \* secrets the startup repair has yet to visit
  used      \* requests, calls, faults and crashes so far

store == <<group, key, events, secret>>

vars == <<clock, group, key, events, secret, op, call, booting, used>>

\* Time 0 stands for NULL.
Times == 0..(MaxTime + Cooldown)

NoKey == [status |-> "none", count |-> 0, failures |-> 0, until |-> 0,
          selected |-> 0, succeeded |-> 0, failed |-> 0, created |-> 0]

NewKey(now) == [NoKey EXCEPT !.status = "active", !.created = now]

Idle == [pc |-> "idle", kind |-> "none", at |-> 0, key |-> {}, expected |-> 0]

NoCall == [pc |-> "idle", at |-> 0, key |-> {}]

\* Readings utc_now() may have given before the transaction that uses them.
Readings == {t \in 1..clock : t >= clock - Lag}

\* A row of cognitive_resource_keys exists from its insertion on.
Rows == {k \in Keys : key[k].status # "none"}

Live(k) == key[k].status \in {"active", "cooldown"}

------------------------------------------------------------------------------
\* _insert_group_revision and the update of the group's row.
SetGroup(status, now) ==
  group' = [group EXCEPT !.status = status, !.updated = now,
                         !.revisions = Append(@, [status |-> status, at |-> now])]

\* _insert_key_event.
Event(type, now) == [type |-> type, at |-> now]

Insert(k, type, now) == [events EXCEPT ![k] = Append(@, Event(type, now))]


\* What record_success, record_failure and the revocations write to a row
\* (_update_key_connection).
Succeeded(row, now) ==
  [row EXCEPT !.status = "active", !.failures = 0, !.until = 0, !.succeeded = now]

Failed(row, now) ==
  [row EXCEPT !.status = "cooldown", !.failures = @ + 1, !.until = clock + Cooldown,
              !.failed = now]

Revoked(row) == [row EXCEPT !.status = "revoked", !.until = 0]

------------------------------------------------------------------------------
\* Operator requests. A thread reads the clock as it enters a method.
Begin(o, kind, ks) ==
  /\ booting = {} /\ op[o].pc = "idle" /\ used.requests < MaxRequests
  /\ op' = [op EXCEPT ![o] = [pc |-> IF kind \in {"configure", "add"} THEN "prepare" ELSE "commit",
                              kind |-> kind, at |-> clock, key |-> ks,
                              expected |-> group.updated]]
  /\ used' = [used EXCEPT !.requests = @ + 1]
  /\ UNCHANGED <<clock, store, call, booting>>

\* A key id is new.
FreshKeys == {k \in Keys : secret[k] = NoSecret /\ \A o \in Operators : k \notin op[o].key}

BeginConfigure(o) == /\ group.status = "none"
                     /\ \E k \in FreshKeys : Begin(o, "configure", {k})

\* add_keys refuses a revoked group before it touches a file.
BeginAdd(o) == /\ group.status \in {"active", "disabled"}
               /\ \E k \in FreshKeys : Begin(o, "add", {k})

BeginChange(o) == /\ group.status # "none"
                  /\ \E kind \in {"disable", "enable", "update", "revoke"} : Begin(o, kind, {})

BeginRevokeKey(o) == \E k \in Rows : Begin(o, "revoke_key", {k})

Goto(o, pc) == op' = [op EXCEPT ![o].pc = pc]

Done(o) == op' = [op EXCEPT ![o] = Idle]

TheKey(o) == CHOOSE k \in Keys : k \in op[o].key

\* The create intent is journalled before the file is written.
PrepareSecret(o) ==
  /\ op[o].pc = "prepare"
  /\ CanPrepareCreate(secret[TheKey(o)])
  /\ secret' = [secret EXCEPT ![TheKey(o)] = PrepareCreate(@)]
  /\ Goto(o, "write")
  /\ UNCHANGED <<clock, group, key, events, call, booting, used>>

\* _write_secret: the temporary file, then its replacement of the file. A
\* failed write removes the temporary file.
OpenTemporary(o) ==
  /\ op[o].pc = "write"
  /\ secret' = [secret EXCEPT ![TheKey(o)].tmp = TRUE]
  /\ Goto(o, "replace")
  /\ UNCHANGED <<clock, group, key, events, call, booting, used>>

ReplaceFile(o) ==
  /\ op[o].pc = "replace"
  /\ \/ /\ secret' = [secret EXCEPT ![TheKey(o)].tmp = FALSE, ![TheKey(o)].file = TRUE]
        /\ Goto(o, "ready")
        /\ UNCHANGED used
     \/ /\ used.faults < MaxFaults
        /\ secret' = [secret EXCEPT ![TheKey(o)].tmp = FALSE]
        /\ Goto(o, "abort")
        /\ used' = [used EXCEPT !.faults = @ + 1]
  /\ UNCHANGED <<clock, group, key, events, call, booting>>

MarkFileReady(o) ==
  /\ op[o].pc = "ready"
  /\ secret' = [secret EXCEPT ![TheKey(o)] = Mark(@, "create", "file_ready")]
  /\ Goto(o, "insert")
  /\ UNCHANGED <<clock, group, key, events, call, booting, used>>

\* Mutant: the group is not read again under the writer lock.
CanAdd_NotRechecked(k) == /\ Cardinality(Rows) < GroupLimit
                          /\ \A j \in Rows : Fingerprint[j] # Fingerprint[k]

\* The checks add_keys repeats in its transaction.
CanAdd(k) == /\ group.status \in {"active", "disabled"}
             /\ Cardinality(Rows) < GroupLimit
             /\ \A j \in Rows : Fingerprint[j] # Fingerprint[k]

\* The transaction of configure: the group, its first revision and its keys.
\* Another group with the label refuses it.
InsertGroup(o) ==
  /\ op[o].pc = "insert" /\ op[o].kind = "configure"
  /\ LET k == TheKey(o)
     IN \/ /\ group.status = "none"
           /\ group' = [status |-> "active", created |-> op[o].at, updated |-> op[o].at,
                        revisions |-> <<[status |-> "active", at |-> op[o].at]>>]
           /\ key' = [key EXCEPT ![k] = NewKey(op[o].at)]
           /\ events' = Insert(k, "configured", op[o].at)
           /\ Goto(o, "committed")
        \/ /\ group.status \in {"active", "disabled"}
           /\ Goto(o, "abort")
           /\ UNCHANGED <<group, key, events>>
  /\ UNCHANGED <<clock, secret, call, booting, used>>

\* The transaction of add_keys, with the clock read when the method began.
InsertKey(o) ==
  /\ op[o].pc = "insert" /\ op[o].kind = "add"
  /\ LET k == TheKey(o)
     IN \/ /\ CanAdd(k)
           /\ key' = [key EXCEPT ![k] = NewKey(op[o].at)]
           /\ events' = Insert(k, "configured", op[o].at)
           /\ Goto(o, "committed")
        \/ /\ ~CanAdd(k)
           /\ Goto(o, "abort")
           /\ UNCHANGED <<key, events>>
  /\ UNCHANGED <<clock, group, secret, call, booting, used>>

MarkCommitted(o) ==
  /\ op[o].pc = "committed"
  /\ secret' = [secret EXCEPT ![TheKey(o)] = Mark(@, "create", "committed")]
  /\ Done(o)
  /\ UNCHANGED <<clock, group, key, events, call, booting, used>>

\* _abort_secret_create: the files go and the intent is removed, or failed if
\* they cannot be removed.
AbortSecretCreate(o) ==
  /\ op[o].pc = "abort"
  /\ \/ /\ secret' = [secret EXCEPT ![TheKey(o)] =
                        Mark([@ EXCEPT !.file = FALSE, !.tmp = FALSE], "create", "removed")]
        /\ UNCHANGED used
     \/ /\ used.faults < MaxFaults /\ secret[TheKey(o)].file
        /\ secret' = [secret EXCEPT ![TheKey(o)] = Mark(@, "create", "failed")]
        /\ used' = [used EXCEPT !.faults = @ + 1]
  /\ Done(o)
  /\ UNCHANGED <<clock, group, key, events, call, booting>>

\* A transaction that began at the reading op[o].at, which is at most Lag old.
Fresh(o) == op[o].at \in Readings

\* disable, enable and update. A revoked group is left alone, and update also
\* refuses a row that changed since the operator read it.
Change(o) ==
  /\ op[o].pc = "commit" /\ op[o].kind \in {"disable", "enable", "update"} /\ Fresh(o)
  /\ \/ /\ group.status # "revoked"
        /\ op[o].kind = "update" => op[o].expected = group.updated
        /\ SetGroup(CASE op[o].kind = "disable" -> "disabled"
                      [] op[o].kind = "enable" -> "active"
                      [] OTHER -> group.status, op[o].at)
     \/ /\ group.status = "revoked" \/ (op[o].kind = "update" /\ op[o].expected # group.updated)
        /\ UNCHANGED group
  /\ Done(o)
  /\ UNCHANGED <<clock, key, events, secret, call, booting, used>>

\* Mutant: the keys stay usable when their group is revoked.
RevokeTargets_None == {}

\* The keys revoke() touches: every row of the group, also those already
\* revoked.
RevokeTargets == Rows

\* revoke: the group, its keys and their delete intents in one transaction.
Revoke(o) ==
  /\ op[o].pc = "commit" /\ op[o].kind = "revoke" /\ Fresh(o)
  /\ \/ /\ group.status # "revoked"
        /\ SetGroup("revoked", op[o].at)
        /\ key' = [k \in Keys |-> IF k \in RevokeTargets THEN Revoked(key[k]) ELSE key[k]]
        /\ events' = [k \in Keys |-> IF k \in RevokeTargets
                                     THEN Append(events[k], Event("revoked", op[o].at))
                                     ELSE events[k]]
        /\ secret' = [k \in Keys |-> IF k \in RevokeTargets THEN PrepareDelete(secret[k])
                                                            ELSE secret[k]]
        /\ op' = [op EXCEPT ![o].pc = "unlink", ![o].key = RevokeTargets]
     \/ /\ group.status = "revoked"
        /\ Done(o)
        /\ UNCHANGED store
  /\ UNCHANGED <<clock, call, booting, used>>

\* revoke_key: the only method that reads the clock inside its transaction.
RevokeKey(o) ==
  /\ op[o].pc = "commit" /\ op[o].kind = "revoke_key"
  /\ LET k == TheKey(o)
     IN \/ /\ key[k].status # "revoked"
           /\ key' = [key EXCEPT ![k] = Revoked(@)]
           /\ events' = Insert(k, "revoked", clock)
           /\ secret' = [secret EXCEPT ![k] = PrepareDelete(@)]
           /\ Goto(o, "unlink")
        \/ /\ key[k].status = "revoked"
           /\ Done(o)
           /\ UNCHANGED <<key, events, secret>>
  /\ UNCHANGED <<clock, group, call, booting, used>>

\* After the transaction: each file is unlinked, and then its intent is
\* closed, or the failure is queued.
Unlink(o) ==
  /\ op[o].pc = "unlink"
  /\ \/ /\ op[o].key = {}
        /\ Done(o)
        /\ UNCHANGED <<secret, used>>
     \/ \E k \in op[o].key :
          \/ /\ secret' = [secret EXCEPT ![k].file = FALSE]
             /\ op' = [op EXCEPT ![o].pc = "close", ![o].expected = 0]
             /\ UNCHANGED used
          \/ /\ used.faults < MaxFaults /\ secret[k].file
             /\ secret' = [secret EXCEPT ![k] = Enqueue(@)]
             /\ used' = [used EXCEPT !.faults = @ + 1]
             /\ op' = [op EXCEPT ![o].key = @ \ {k}]
  /\ UNCHANGED <<clock, group, key, events, call, booting>>

\* complete_delete, for a key whose file is gone.
CloseDelete(o) ==
  /\ op[o].pc = "close"
  /\ \E k \in op[o].key :
       /\ ~secret[k].file
       /\ secret' = [secret EXCEPT ![k] = CompleteDelete(@)]
       /\ op' = [op EXCEPT ![o].pc = "unlink", ![o].key = @ \ {k}]
  /\ UNCHANGED <<clock, group, key, events, call, booting, used>>

------------------------------------------------------------------------------
\* Model calls. select_key takes the least used key that is not cooling down.
Eligible(k, now) == \/ key[k].status = "active"
                    \/ key[k].status = "cooldown" /\ key[k].until <= now

\* Mutant: the key used most is chosen.
LeastUsed_Most(ks) == {k \in ks : \A j \in ks : key[k].count >= key[j].count}

LeastUsed(ks) == {k \in ks : \A j \in ks : key[k].count <= key[j].count}

Oldest(ks) == {k \in ks : \A j \in ks : key[k].created <= key[j].created}

SelectKey(c) ==
  /\ booting = {} /\ call[c].pc = "idle" /\ used.calls < MaxCalls /\ group.status = "active"
  /\ used' = [used EXCEPT !.calls = @ + 1]
  /\ \E now \in Readings :
       LET ks == {k \in Keys : Eligible(k, now)}
       IN \E k \in Oldest(LeastUsed(ks)) :
            /\ key' = [key EXCEPT ![k].status = "active", ![k].until = 0,
                                  ![k].count = @ + 1, ![k].selected = now]
            /\ events' = Insert(k, "selected", now)
            /\ call' = [call EXCEPT ![c] = [pc |-> "read", at |-> 0, key |-> {k}]]
  /\ UNCHANGED <<clock, group, secret, op, booting>>

CalledKey(c) == CHOOSE k \in Keys : k \in call[c].key

\* api_key: the row is read first and refuses a revoked key; then the file is
\* read, which a revocation may meanwhile have unlinked.
ReadRow(c) ==
  /\ call[c].pc = "read"
  /\ call' = [call EXCEPT ![c] = IF Live(CalledKey(c)) THEN [@ EXCEPT !.pc = "file"] ELSE NoCall]
  /\ UNCHANGED <<clock, store, op, booting, used>>

ReadFile(c) ==
  /\ call[c].pc = "file"
  /\ call' = [call EXCEPT ![c] =
                IF secret[CalledKey(c)].file THEN [@ EXCEPT !.pc = "sent"] ELSE NoCall]
  /\ UNCHANGED <<clock, store, op, booting, used>>

\* The provider answers; the thread reads the clock.
Answer(c) ==
  /\ call[c].pc = "sent"
  /\ call' = [call EXCEPT ![c].pc = "report", ![c].at = clock]
  /\ UNCHANGED <<clock, store, op, booting, used>>

\* Mutant: a late answer is recorded on a revoked key.
Ignored_Never(row) == FALSE

\* A revoked key ignores what late callbacks report.
Ignored(row) == row.status = "revoked"

\* record_success and record_failure.
Report(c) ==
  /\ call[c].pc = "report" /\ call[c].at \in Readings
  /\ LET k == CalledKey(c)
     IN \/ /\ ~Ignored(key[k])
           /\ \/ /\ key' = [key EXCEPT ![k] = Succeeded(@, call[c].at)]
                 /\ events' = Insert(k, "succeeded", call[c].at)
              \/ /\ key' = [key EXCEPT ![k] = Failed(@, call[c].at)]
                 /\ events' = Insert(k, "cooled_down", call[c].at)
        \/ /\ Ignored(key[k])
           /\ UNCHANGED <<key, events>>
  /\ call' = [call EXCEPT ![c] = NoCall]
  /\ UNCHANGED <<clock, group, secret, op, booting, used>>

------------------------------------------------------------------------------
\* The clock advances only as far as the threads' readings allow.
Tick ==
  /\ clock < MaxTime
  /\ \A o \in Operators : op[o].pc \in {"commit"} /\ op[o].kind # "revoke_key"
                          => op[o].at >= clock + 1 - Lag
  /\ \A o \in Operators : op[o].kind \in {"configure", "add"} /\ op[o].pc # "committed"
                          /\ op[o].pc # "abort" => op[o].at >= clock + 1 - Lag
  /\ \A c \in Calls : call[c].pc = "report" => call[c].at >= clock + 1 - Lag
  /\ clock' = clock + 1
  /\ UNCHANGED <<store, op, call, booting, used>>

\* The process stops anywhere. The next start repairs every secret, one after
\* the other, before admission opens.
Crash ==
  /\ used.crashes < MaxCrashes
  /\ used' = [used EXCEPT !.crashes = @ + 1]
  /\ op' = [o \in Operators |-> Idle]
  /\ call' = [c \in Calls |-> NoCall]
  /\ booting' = Keys
  /\ UNCHANGED <<clock, store>>

BootRepair ==
  /\ \E k \in booting :
       /\ \/ /\ secret' = [secret EXCEPT ![k] = Repair(@, k \in Rows, Live(k), TRUE)]
             /\ UNCHANGED used
          \/ /\ used.faults < MaxFaults /\ (secret[k].file \/ secret[k].tmp)
             /\ secret' = [secret EXCEPT ![k] = Repair(@, k \in Rows, Live(k), FALSE)]
             /\ used' = [used EXCEPT !.faults = @ + 1]
       /\ booting' = booting \ {k}
  /\ UNCHANGED <<clock, group, key, events, op, call>>

Init ==
  /\ clock = 1
  /\ group = [status |-> "none", created |-> 0, updated |-> 0, revisions |-> <<>>]
  /\ key = [k \in Keys |-> NoKey]
  /\ events = [k \in Keys |-> <<>>]
  /\ secret = [k \in Keys |-> NoSecret]
  /\ op = [o \in Operators |-> Idle]
  /\ call = [c \in Calls |-> NoCall]
  /\ booting = {}
  /\ used = [requests |-> 0, calls |-> 0, faults |-> 0, crashes |-> 0]

OperatorStep(o) ==
  \/ BeginConfigure(o) \/ BeginAdd(o) \/ BeginChange(o) \/ BeginRevokeKey(o)
  \/ PrepareSecret(o) \/ OpenTemporary(o) \/ ReplaceFile(o) \/ MarkFileReady(o)
  \/ InsertGroup(o) \/ InsertKey(o) \/ MarkCommitted(o) \/ AbortSecretCreate(o)
  \/ Change(o) \/ Revoke(o) \/ RevokeKey(o) \/ Unlink(o) \/ CloseDelete(o)

CallStep(c) == SelectKey(c) \/ ReadRow(c) \/ ReadFile(c) \/ Answer(c) \/ Report(c)

Next == \/ \E o \in Operators : OperatorStep(o)
        \/ \E c \in Calls : CallStep(c)
        \/ Tick \/ Crash \/ BootRepair

Spec == Init /\ [][Next]_vars

------------------------------------------------------------------------------
\* What verify_integrity() computes from the events of a key.
Count(k, type) == Cardinality({i \in DOMAIN events[k] : events[k][i].type = type})

LastOf(k, types) == LET is == {i \in DOMAIN events[k] : events[k][i].type \in types}
                    IN IF is = {} THEN 0
                       ELSE CHOOSE i \in is : \A j \in is : j <= i

TimeOf(k, i) == IF i = 0 THEN 0 ELSE events[k][i].at

StatusAfter == [configured |-> "active", selected |-> "active", succeeded |-> "active",
                cooled_down |-> "cooldown", revoked |-> "revoked"]

ReplayedFailures(k) ==
  Cardinality({i \in DOMAIN events[k] : /\ events[k][i].type = "cooled_down"
                                        /\ i > LastOf(k, {"succeeded"})})

ReplayMatchesKey(k) ==
  /\ events[k][1] = Event("configured", key[k].created)
  /\ key[k].count = Count(k, "selected")
  /\ key[k].failures = ReplayedFailures(k)
  /\ key[k].selected = TimeOf(k, LastOf(k, {"selected"}))
  /\ key[k].succeeded = TimeOf(k, LastOf(k, {"succeeded"}))
  /\ key[k].failed = TimeOf(k, LastOf(k, {"cooled_down"}))
  /\ key[k].status = StatusAfter[events[k][Len(events[k])].type]
  /\ (key[k].status = "cooldown") = (key[k].until # 0)

\* verify_integrity() rejects an event after a revocation, and one that is
\* dated before its predecessor.
SequenceValid(k) ==
  \A i \in 2..Len(events[k]) : /\ events[k][i - 1].type # "revoked"
                               /\ events[k][i - 1].at <= events[k][i].at

GroupVerifies ==
  LET r == group.revisions
  IN group.status # "none" =>
       /\ r[1] = [status |-> "active", at |-> group.created]
       /\ r[Len(r)] = [status |-> group.status, at |-> group.updated]
       /\ \A i \in 2..Len(r) : r[i - 1].status # "revoked" /\ r[i - 1].at <= r[i].at

TypeOK ==
  /\ clock \in 1..MaxTime
  /\ group.status \in {"none", "active", "disabled", "revoked"}
  /\ group.created \in Times /\ group.updated \in Times
  /\ key \in [Keys -> [status : {"none", "active", "cooldown", "revoked"}, count : 0..MaxCalls,
                       failures : 0..MaxCalls, until : Times, selected : Times,
                       succeeded : Times, failed : Times, created : Times]]
  /\ secret \in [Keys -> Secrets]
  /\ \A k \in Keys : (events[k] = <<>>) = (k \notin Rows)
  /\ booting \subseteq Keys
  /\ used.requests \in 0..MaxRequests /\ used.calls \in 0..MaxCalls

\* Whatever operators, late answers and restarts do, each key's row is what
\* its events say: uses, failures in a row, times and status (the comparison
\* that ends verify_integrity). The group's row agrees with its revisions.
ReplayMatches == (\A k \in Rows : ReplayMatchesKey(k)) /\ GroupVerifies

\* No event follows a key's revocation and no event is dated before its
\* predecessor, the other half of what verify_integrity() demands.
HistoriesVerify == \A k \in Rows : SequenceValid(k)

\* A revoked group holds no usable key, whatever was being added when it was
\* revoked; and no group holds one secret twice, however two requests race
\* (the checks add_keys repeats under the writer lock).
RevokedGroupIsDead ==
  /\ group.status = "revoked" => \A k \in Keys : ~Live(k)
  /\ \A j, k \in Rows : Fingerprint[j] = Fingerprint[k] => j = k

\* No usable key ever lacks its file, through crashes and failed writes; and
\* once startup repair is over and no request is in flight, a file without a
\* usable key is still on record for a later repair.
SecretsAccounted ==
  /\ \A k \in Keys : Live(k) => secret[k].file
  /\ (booting = {} /\ \A o \in Operators : op[o] = Idle) =>
       \A k \in Keys : /\ Live(k) => secret[k].create = "committed"
                       /\ secret[k].file /\ ~Live(k) => ~Settled(secret[k])

\* Revocation is final, and mark() is never asked for a transition its table
\* refuses: it would raise in the middle of a request or of the startup.
MovesLegally ==
  \A k \in Keys :
    /\ key[k].status = "revoked" => key'[k].status = "revoked"
    /\ \A intent \in {"create", "delete"} :
         LET a == secret[k][intent]
             b == secret'[k][intent]
         IN a = b \/ a = "none" \/ CanMark(a, b)

StatesMoveLegally == [][MovesLegally]_vars

==============================================================================
