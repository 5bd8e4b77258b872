--------------------------- MODULE WalletPayments ---------------------------
(***************************************************************************)
(* The payment engine at work (wallet/execution.py): threads that execute, *)
(* retry and poll payments, an operator who changes the policy, cancels    *)
(* and refunds, the signer service, the chain it broadcasts to, the        *)
(* admission gate that can invalidate a scheduler's lease, and crashes.    *)
(*                                                                         *)
(* A thread holds no database transaction while it talks to the signer.    *)
(* What it learned before a call is a field of its record; the rows may    *)
(* have moved by the time it writes its result.                            *)
(***************************************************************************)
EXTENDS PaymentLedger

CONSTANTS
    Workers,        \* HTTP handler threads and the scheduler's thread
    NamedNonces,    \* nonces an operator names instead of asking the signer
    MaxReorgs,      \* blocks the chain may give back
    MaxFences,      \* invalidations of the admission gate
    MaxCrashes

VARIABLES
    worker,     \* each thread: pc, op and what it remembers
    inbox,      \* transfers the signer has been sent and not answered
    pool,       \* transfers signed and broadcast
    blocks,     \* the chain's view of the spending address, in nonce order
    up,         \* "up", or "boot" from a crash until admission opens
    reorgs, fences, crashes

env == <<inbox, pool, blocks, reorgs>>
vars == <<ledger, worker, env, up, fences, crashes>>

Tx == [o : Orders, k : 1..MaxAttempts, nonce : 0..(MaxNonce + 1)]
Idle == [pc |-> "idle", op |-> "none", o |-> "none", n |-> 0, ver |-> 0,
         st |-> "none", lease |-> "none", res |-> "none", k |-> 0]

Init ==
    /\ InitLedger
    /\ worker = [w \in Workers |-> Idle]
    /\ inbox = {} /\ pool = {} /\ blocks = <<>>
    /\ up = "up"
    /\ reorgs = 0 /\ fences = 0 /\ crashes = 0

\* The transfer of an order's current attempt.
TransferOf(o) == [o |-> o, k |-> exec[o].n, nonce |-> exec[o].nonce]

MinedAt(t) == {i \in 1..Len(blocks) : blocks[i].tx = t}
Spent ==
    Fee * Len(blocks) + Amount * Cardinality({i \in 1..Len(blocks) : blocks[i].ok})

\* get_pending_nonce: the first nonce after the mined and the pooled ones.
\* A lagging node may still answer with the mined count.
PendingNonce ==
    CHOOSE n \in Len(blocks)..(Len(blocks) + Cardinality(pool)) :
        /\ \A t \in pool : t.nonce # n
        /\ \A m \in Len(blocks)..(n - 1) : \E t \in pool : t.nonce = m

\* The hashes _lookup_receipt asks for: the recorded one and every attempt's.
KnownHashes(o) ==
    ({exec[o].tx} \cup {att[o][k].tx : k \in 1..Len(att[o])}) \ {0}

To(w, pc) == worker' = [worker EXCEPT ![w].pc = pc]
Answer(w, res, k) == worker' = [worker EXCEPT ![w].pc = "mark", ![w].res = res, ![w].k = k]
Done(w) == worker' = [worker EXCEPT ![w] = Idle]
Outside == UNCHANGED <<env, up, fences, crashes>>

-----------------------------------------------------------------------------
(* Threads                                                                 *)

\* A call begins by reading the policy version; a scheduler's call carries a
\* lease, an HTTP handler's does not.  poll_receipt goes on only for an open
\* execution and execute_ready verifies a confirmed one.
Start(w, op, o, lease) ==
    /\ up = "up" /\ worker[w].pc = "idle"
    /\ CASE op = "execute" -> order[o] = "reserved"
         [] op = "retry" -> order[o] = "unknown"
         [] op = "poll" -> exec[o].st \in {"broadcast", "unknown"}
         [] op = "verify" -> exec[o].st = "confirmed"
    /\ worker' = [worker EXCEPT ![w] =
           [pc |-> IF op = "execute" THEN "prepare" ELSE "lookup", op |-> op, o |-> o, n |-> 0,
            ver |-> policy.version, st |-> exec[o].st, lease |-> lease, res |-> "none", k |-> 0]]
    /\ UNCHANGED ledger /\ Outside


\* _lookup_receipt for retry_unknown and poll_receipt: a receipt of a known
\* hash, none yet, or an answer that proves nothing (error, or too few
\* confirmations).
LookupReceipt(w) ==
    LET o == worker[w].o IN
    /\ worker[w].pc = "lookup" /\ worker[w].op \in {"retry", "poll"}
    /\ \/ \E i \in 1..Len(blocks) :
              /\ blocks[i].tx.o = o /\ blocks[i].tx.k \in KnownHashes(o)
              /\ Answer(w, IF blocks[i].ok THEN "paid" ELSE "reverted", blocks[i].tx.k)
       \/ /\ worker[w].op = "retry"
          /\ To(w, "prepare")
       \/ /\ worker[w].op = "poll"
          /\ IF worker[w].st = "unknown" THEN Done(w) ELSE Answer(w, "unsettled", 0)
       \/ /\ worker[w].op = "poll"
          /\ Done(w)
    /\ UNCHANGED ledger /\ Outside

\* verify_confirmed_receipt: the receipt is still canonical, or it is not.
VerifyConfirmed(w) ==
    LET o == worker[w].o
        canonical == \E i \in 1..Len(blocks) :
            blocks[i].tx.o = o /\ blocks[i].tx.k = exec[o].tx /\ blocks[i].ok
    IN  /\ worker[w].pc = "lookup" /\ worker[w].op = "verify"
        /\ IF canonical THEN Done(w) ELSE Answer(w, "reorganized", 0)
        /\ UNCHANGED ledger /\ Outside

\* _prepare for execute_order; the nonce comes from the signer's node, which
\* must be ahead of the local history, or from the operator.
PrepareStep(w) ==
    LET o == worker[w].o IN
    /\ worker[w].pc = "prepare" /\ worker[w].op = "execute"
    /\ worker[w].lease # "stale"
    /\ \E nonce \in 0..MaxNonce :
          /\ \/ nonce \in {Len(blocks), PendingNonce} /\ \A m \in HeldNonces : nonce > m
             \/ nonce \in NamedNonces
          /\ Prepare(o, nonce)
    /\ worker' = [worker EXCEPT ![w].pc = "dispatch", ![w].n = 1]
    /\ Outside

\* _prepare for retry_unknown.
PrepareRetryStep(w) ==
    LET o == worker[w].o IN
    /\ worker[w].pc = "prepare" /\ worker[w].op = "retry"
    /\ worker[w].lease # "stale"
    /\ PrepareRetry(o)
    /\ worker' = [worker EXCEPT ![w].pc = "dispatch", ![w].n = exec[o].n + 1]
    /\ Outside

\* _prepare raises and nothing was written: a stale lease, an order, policy
\* or balance that no longer allows it, or a nonce or fee authority that is
\* unavailable.
PrepareRefused(w) ==
    /\ worker[w].pc = "prepare"
    /\ Done(w)
    /\ UNCHANGED ledger /\ Outside

\* Mutant: authorize checks the lease only.
Authorized_LeaseOnly(w) == TRUE

\* authorize: the policy the call read, the execution row it prepared, and
\* the policy's verdict on the order.
Authorized(w) ==
    LET o == worker[w].o IN
    /\ policy.version = worker[w].ver
    /\ exec[o].st = "signing" /\ exec[o].n = worker[w].n
    /\ PolicyAllows(o, mode[o])

\* _sign_and_broadcast up to the bytes: authorize runs again in the thread
\* that writes them and holds the policy lock and the gate meanwhile, so the
\* check and the send are one step.
Dispatch(w) ==
    /\ worker[w].pc = "dispatch"
    /\ \/ /\ worker[w].lease = "stale"
          /\ Answer(w, "invalidated", 0)
          /\ UNCHANGED inbox
       \/ /\ worker[w].lease # "stale" /\ ~Authorized(w)
          /\ Answer(w, "denied", 0)
          /\ UNCHANGED inbox
       \/ /\ worker[w].lease # "stale" /\ Authorized(w)
          /\ inbox' = inbox \cup {TransferOf(worker[w].o)}
          /\ To(w, "sent")
    /\ UNCHANGED <<ledger, pool, blocks, reorgs, up, fences, crashes>>

\* The deadline passes, or the connection fails, before or after the bytes
\* are written; the caller cannot tell, and a late thread sends nothing.
SignerTimeout(w) ==
    /\ worker[w].pc \in {"dispatch", "sent"}
    /\ Answer(w, "unknown", 0)
    /\ UNCHANGED ledger /\ Outside

\* A thread waiting for the answer about transfer t.
Awaiting(t) == {w \in Workers : worker[w].pc = "sent" /\ worker[w].o = t.o /\ worker[w].n = t.k}

\* The signer signs and broadcasts; the answer is the hash, or a failure that
\* may name the hash, or never arrives.
SignerBroadcasts(t) ==
    /\ t \in inbox
    /\ inbox' = inbox \ {t} /\ pool' = pool \cup {t}
    /\ \/ \E w \in Awaiting(t) : \/ Answer(w, "ok", t.k)
                                 \/ \E k \in {0, t.k} : Answer(w, "unknown", k)
       \/ UNCHANGED worker
    /\ UNCHANGED <<ledger, blocks, reorgs, up, fences, crashes>>

\* The signer refuses: this transfer is not broadcast.
SignerRejects(t) ==
    /\ t \in inbox
    /\ inbox' = inbox \ {t}
    /\ \/ \E w \in Awaiting(t) : Answer(w, "rejected", 0)
       \/ UNCHANGED worker
    /\ UNCHANGED <<ledger, pool, blocks, reorgs, up, fences, crashes>>

\* How execute_order, retry_unknown and poll_receipt record their outcome:
\* a refusal fails a first attempt only.
MarkOutcome(w) ==
    LET o == worker[w].o
        res == worker[w].res
        k == worker[w].k
    IN  CASE res = "ok" -> MarkBroadcast(o, k)
          [] res \in {"rejected", "denied"} ->
                IF worker[w].op = "execute" THEN MarkFailed(o, 0, NoReceipt) ELSE MarkUnknown(o, 0)
          [] res = "reverted" -> MarkFailed(o, k, 0)
          [] res = "reorganized" -> MarkReconcileRequired(o)
          [] res \in {"invalidated", "unknown", "unsettled"} -> MarkUnknown(o, k)

\* All of them but mark_reconcile_required run in an accounting scope, which
\* a stale lease does not stop.
Mark(w) ==
    /\ worker[w].pc = "mark" /\ worker[w].res # "paid"
    /\ IF worker[w].lease = "stale" /\ worker[w].res = "reorganized"
       THEN UNCHANGED ledger
       ELSE MarkOutcome(w)
    /\ Done(w)
    /\ Outside

\* _mark_confirmed, which is no accounting: it returns a confirmed order and
\* raises for a stale lease, for an order that awaits no receipt and for a
\* settlement that was posted before.
MarkPaid(w) ==
    LET o == worker[w].o IN
    /\ worker[w].pc = "mark" /\ worker[w].res = "paid"
    /\ IF worker[w].lease # "stale" /\ CanConfirm(o)
       THEN MarkConfirmed(o, worker[w].k)
       ELSE UNCHANGED ledger
    /\ Done(w)
    /\ Outside

-----------------------------------------------------------------------------
(* The operator                                                            *)

Operator ==
    /\ up = "up"
    /\ \/ \E o \in Orders : \/ EnsureOrder(o) \/ ConfirmOrder(o) \/ RejectOrder(o)
                            \/ CancelOrder(o) \/ RefundOrder(o)
       \/ \E m \in Modes, p \in BOOLEAN : UpdatePolicy(m, p)
    /\ UNCHANGED <<worker, env, up, fences, crashes>>

\* recover_inflight over HTTP, while threads of this process are at work.
OperatorRecovers(o) ==
    /\ up = "up"
    /\ RecoverInflight(o)
    /\ UNCHANGED <<worker, env, up, fences, crashes>>

\* A balance observation reads the chain.
ObserveBalance ==
    /\ up = "up"
    /\ <<seen, touched>> # <<Funds - Spent, {}>>
    /\ Observe(Funds - Spent)
    /\ UNCHANGED <<worker, env, up, fences, crashes>>

DayPasses == NextDay /\ UNCHANGED <<worker, env, up, fences, crashes>>

-----------------------------------------------------------------------------
(* The chain, the gate and the process                                     *)

\* A pooled transfer whose nonce is next is mined; it pays or it reverts.
Mine(t, ok) ==
    /\ t \in pool /\ t.nonce = Len(blocks)
    /\ blocks' = Append(blocks, [tx |-> t, ok |-> ok])
    /\ UNCHANGED <<ledger, worker, inbox, pool, reorgs, up, fences, crashes>>

\* The newest block of the address is reorganized away.
Reorganize ==
    /\ reorgs < MaxReorgs /\ blocks # <<>>
    /\ blocks' = SubSeq(blocks, 1, Len(blocks) - 1)
    /\ reorgs' = reorgs + 1
    /\ UNCHANGED <<ledger, worker, inbox, pool, up, fences, crashes>>

\* The gate invalidates the leases it has granted.
Invalidate ==
    /\ up = "up" /\ fences < MaxFences
    /\ fences' = fences + 1
    /\ worker' = [w \in Workers |->
          IF worker[w].lease = "live" THEN [worker[w] EXCEPT !.lease = "stale"] ELSE worker[w]]
    /\ UNCHANGED <<ledger, env, up, crashes>>

\* The process dies; threads are gone, rows, signer and chain are not.
Crash ==
    /\ up = "up" /\ crashes < MaxCrashes
    /\ crashes' = crashes + 1
    /\ up' = "boot"
    /\ worker' = [w \in Workers |-> Idle]
    /\ UNCHANGED <<ledger, env, fences>>

\* _complete_boot_after_integrity recovers every signing row ...
BootRecovers(o) ==
    /\ up = "boot"
    /\ RecoverInflight(o)
    /\ UNCHANGED <<worker, env, up, fences, crashes>>

\* ... before admission opens.
Admit ==
    /\ up = "boot"
    /\ \A o \in Orders : exec[o].st # "signing"
    /\ up' = "up"
    /\ UNCHANGED <<ledger, worker, env, fences, crashes>>

-----------------------------------------------------------------------------
Ops == {"execute", "retry", "poll", "verify"}

WorkerStep(w) ==
    \/ LookupReceipt(w) \/ VerifyConfirmed(w) \/ PrepareStep(w) \/ PrepareRetryStep(w)
    \/ PrepareRefused(w) \/ Dispatch(w) \/ SignerTimeout(w) \/ Mark(w) \/ MarkPaid(w)

Next ==
    \/ \E w \in Workers, op \in Ops, o \in Orders, l \in {"none", "live"} : Start(w, op, o, l)
    \/ \E w \in Workers : WorkerStep(w)
    \/ \E t \in inbox : SignerBroadcasts(t) \/ SignerRejects(t)
    \/ Operator
    \/ \E o \in Orders : OperatorRecovers(o)
    \/ ObserveBalance \/ DayPasses
    \/ \E t \in pool, ok \in BOOLEAN : Mine(t, ok)
    \/ Reorganize \/ Invalidate \/ Crash
    \/ \E o \in Orders : BootRecovers(o)
    \/ Admit

Spec == Init /\ [][Next]_vars

\* A started thread runs on, its HTTP call ends at the deadline at the latest,
\* and a process that starts finishes booting.
LiveSpec ==
    /\ Spec
    /\ \A w \in Workers : WF_vars(WorkerStep(w))
    /\ \A o \in Orders : WF_vars(BootRecovers(o))
    /\ WF_vars(Admit)

-----------------------------------------------------------------------------
(* Properties                                                              *)

TypeOK ==
    /\ LedgerTypeOK
    /\ \A w \in Workers :
           /\ worker[w].pc \in {"idle", "lookup", "prepare", "dispatch", "sent", "mark"}
           /\ worker[w].pc # "idle" => worker[w].o \in Orders
           /\ worker[w].lease \in {"none", "live", "stale"}
    /\ inbox \subseteq Tx /\ pool \subseteq Tx
    /\ \A i \in 1..Len(blocks) : blocks[i].tx \in pool /\ blocks[i].tx.nonce = i - 1
    /\ up \in {"up", "boot"}

\* Transfers of an order that a block can still include.
Open(o) == {t \in inbox \cup pool : t.o = o /\ t.nonce >= Len(blocks)}
Paid(o) == \E i \in 1..Len(blocks) : blocks[i].tx.o = o /\ blocks[i].ok

\* The chain never pays an order twice, whatever is retried, recovered or
\* answered late: attempts share one nonce (_prepare 1681-1685).
PaidAtMostOnce ==
    \A o \in Orders :
        Cardinality({i \in 1..Len(blocks) : blocks[i].tx.o = o /\ blocks[i].ok}) <= 1

\* No payment can displace another on the chain: two transfers that bear the
\* same nonce belong to one order, also when an execution that failed before
\* a broadcast gave its nonce back.
NonceHasOneOwner ==
    \A s, t \in inbox \cup pool : s.nonce = t.nonce => s.o = t.o

\* Money given back is not paid out as well: a cancelled or refunded order
\* has no transfer that was paid or that may still be mined.
ReleasedNeverPaid ==
    \A o \in Orders : order[o] \in {"cancelled", "refunded"} => ~Paid(o) /\ Open(o) = {}

\* Whatever has been handed to the signer can be mined in full: observations,
\* reservations and pending fees never let the open transfers exceed what
\* the address holds.
NeverOverdrawn ==
    LET open == {o \in Orders : Open(o) # {}}
    IN  Spent + (Amount + Fee) * Cardinality(open) <= Funds

\* What the chain paid, or may still pay, of one day's authorizations stays
\* within the daily limit.
DailyLimitHolds ==
    \A d \in 0..MaxDay :
        Amount * Cardinality({o \in Orders : authDay[o] = d /\ (Paid(o) \/ Open(o) # {})})
            <= DailyLimit

\* A confirmed order was paid by the transfer its execution names.
ConfirmedWasPaid ==
    \A o \in Orders : order[o] = "confirmed" =>
        \E i \in 1..Len(blocks) :
            blocks[i].tx.o = o /\ blocks[i].tx.k = exec[o].tx /\ blocks[i].ok

\* Order and execution move together, which recovery relies on (1355); what
\* left the reserved account left it once.
RowsAgree ==
    \A o \in Orders :
        /\ \/ exec[o].st \in {"none", order[o]}
           \/ order[o] = "refunded" /\ exec[o].st = "failed"
        /\ Cardinality(journal[o] \cap {"release", "settlement", "refund"}) <= 1
        /\ order[o] \in Holding \cup {"failed", "confirmed"} => "reservation" \in journal[o]

\* Payment bytes leave only under a policy that allows payments, for the
\* attempt the rows call current.
AuthorizedSends ==
    \A t \in inbox' \ inbox :
        ~policy.paused /\ policy.mode # "disabled" /\ exec[t.o].st = "signing" /\ exec[t.o].n = t.k

\* No order stays in signing: a thread reports, or the restart fences it.
SigningEnds == \A o \in Orders : order[o] = "signing" ~> order[o] # "signing"

\* Only the implementation before the fix left a failed execution over an
\* attempt that may have been broadcast (tests/test_wallet_fee_admission.py).
OnlyLegacyIsUnresolved == ~UnresolvedPayment

\* No attempt hides the receipt of another one's transaction: a hash that was
\* recorded stays among those _lookup_receipt asks for.
KeepsHashes == \A o \in Orders : KnownHashes(o) \subseteq KnownHashes(o)'

\* A later canonical receipt confirms an order that a reorganization sent
\* back to unknown.
CanonicalReceiptSettles ==
    \A w \in Workers :
        ( /\ worker[w].pc = "mark" /\ worker[w].res = "paid" /\ worker[w].lease # "stale"
          /\ order[worker[w].o] \in {"broadcast", "unknown"}
          /\ worker'[w].pc = "idle" /\ up' = "up" )
        => order'[worker[w].o] = "confirmed"
=============================================================================
