--------------------------- MODULE PaymentLedger ---------------------------
(***************************************************************************)
(* The durable rows behind a wallet payment and the transactions that move *)
(* them: the payment policy, the payment orders with their journals        *)
(* (wallet/economy.py) and the executions with their attempts              *)
(* (wallet/execution.py).  Every operator below is one database            *)
(* transaction; WalletPayments composes them with the threads that call    *)
(* them, the signer and the chain.                                         *)
(*                                                                         *)
(* One network, one native asset and one spending address; every order is  *)
(* worth Amount and every execution may cost Fee.  A transaction hash is   *)
(* named by the attempt that produced it, 0 is NULL.                       *)
(***************************************************************************)
EXTENDS Integers, FiniteSets, Sequences

CONSTANTS
    Orders,         \* accepted submissions, each with one payment order
    Amount, Fee,    \* atoms of an order, and gas_limit * max_fee_per_gas
    Funds,          \* what the spending address holds at the start
    DailyLimit,     \* policy["daily_limit"]
    MaxAttempts,    \* 32 in the code
    MaxNonce,       \* bound on the nonces an operator names
    MaxVersion,     \* bound on the policy's version
    MaxDay          \* bound on the days that pass

VARIABLES
    policy,     \* wallet_payment_policies: version, mode, paused
    order,      \* wallet_payment_orders.status ("none": no row yet)
    mode,       \* wallet_payment_orders.payment_mode
    authDay,    \* wallet_payment_orders.authorized_at, as a day
    journal,    \* wallet_ledger_journals: the types posted for an order
    exec,       \* wallet_payment_executions, one row per order at most
    att,        \* wallet_payment_execution_attempts of the order
    seen,       \* balance of the latest wallet_balance_snapshots row
    touched,    \* orders whose execution row was written since then
    day         \* self.clock(), as a day

ledger == <<policy, order, mode, authDay, journal, exec, att, seen, touched, day>>
rows == <<order, mode, authDay, journal, exec, att, touched>>

Modes == {"disabled", "conditional_confirmation", "automatic"}
OrderStatus == {"none", "pending_policy", "awaiting_confirmation", "reserved",
                "cancelled", "rejected", "signing", "broadcast", "unknown",
                "confirmed", "failed", "refunded"}
ExecStatus == {"none", "signing", "broadcast", "unknown", "confirmed", "failed"}
Journals == {"reservation", "release", "settlement", "refund"}
NoReceipt == -1

\* _ORDER_TRANSITIONS, without the targets no caller uses (expired).
OrderTransitions ==
    [s \in OrderStatus |->
        CASE s = "pending_policy" ->
                {"awaiting_confirmation", "reserved", "rejected", "cancelled"}
          [] s = "awaiting_confirmation" -> {"reserved", "rejected", "cancelled"}
          [] s = "reserved" -> {"cancelled", "signing"}
          [] s = "signing" -> {"broadcast", "unknown", "failed"}
          [] s = "broadcast" -> {"unknown", "confirmed", "failed"}
          [] s = "unknown" ->
                {"signing", "broadcast", "confirmed", "failed", "refunded"}
          [] s = "confirmed" -> {"unknown"}
          [] s = "failed" -> {"refunded"}
          [] OTHER -> {}]

\* A row of wallet_payment_executions: n is attempt_count, tx the tx_hash,
\* rcpt the receipt_status.
NoExec == [st |-> "none", n |-> 0, tx |-> 0, nonce |-> -1, rcpt |-> NoReceipt]

\* active_status of _policy_allows, and the statuses that hold a reservation.
ActiveStatus == {"reserved", "signing", "broadcast", "unknown", "confirmed"}
Holding == {"reserved", "signing", "broadcast", "unknown"}
PendingExec == {"signing", "broadcast", "unknown"}

InitLedger ==
    /\ policy = [version |-> 1, mode |-> "automatic", paused |-> FALSE]
    /\ order = [o \in Orders |-> "none"]
    /\ mode = [o \in Orders |-> "disabled"]
    /\ authDay = [o \in Orders |-> -1]
    /\ journal = [o \in Orders |-> {}]
    /\ exec = [o \in Orders |-> NoExec]
    /\ att = [o \in Orders |-> <<>>]
    /\ seen = Funds
    /\ touched = {}
    /\ day = 0

-----------------------------------------------------------------------------
(* Authorization                                                           *)

HeldBy(S) == {o \in S : order[o] \in Holding}

\* Mutant: the daily amount counts orders until they are signed.
PolicyAllows_ReservedOnly(o, m) ==
    LET others == Orders \ {o}
        today == {p \in others : order[p] = "reserved" /\ authDay[p] = day}
    IN  /\ ~policy.paused
        /\ policy.mode # "disabled"
        /\ m = "automatic" => policy.mode = "automatic"
        /\ Amount * (Cardinality(today) + 1) <= DailyLimit
        /\ seen - Amount * Cardinality(HeldBy(others)) >= Amount

\* _policy_allows for an order of payment mode m: switches, the daily amount
\* of the other orders authorized today, and the observed balance after every
\* other reservation.
PolicyAllows(o, m) ==
    LET others == Orders \ {o}
        today == {p \in others : order[p] \in ActiveStatus /\ authDay[p] = day}
    IN  /\ ~policy.paused
        /\ policy.mode # "disabled"
        /\ m = "automatic" => policy.mode = "automatic"
        /\ Amount * (Cardinality(today) + 1) <= DailyLimit
        /\ seen - Amount * Cardinality(HeldBy(others)) >= Amount

\* _require_resolved_legacy_payments raises when this holds: an execution
\* failed without a receipt over an older attempt that may have been
\* broadcast, or a refund over an execution that is still open.
UnresolvedPayment ==
    \E o \in Orders :
        \/ /\ exec[o].st = "failed" /\ exec[o].rcpt = NoReceipt
           /\ \E k \in 1..(exec[o].n - 1) : att[o][k].st \in {"unknown", "broadcast"}
        \/ order[o] = "refunded" /\ exec[o].st \in PendingExec

\* _check_observed_fee_budget: the observation is newer than every settled
\* execution, and covers the reservations, the fees of the other open
\* executions and this fee.
FeeBudgetAllows(o) ==
    LET pending == {p \in Orders \ {o} : exec[p].st \in PendingExec}
    IN  /\ ~UnresolvedPayment
        /\ \A p \in touched : ~(exec[p].st \in {"confirmed", "failed"} /\ exec[p].tx # 0)
        /\ seen - Amount * Cardinality(HeldBy(Orders)) - Fee * Cardinality(pending) >= Fee

\* Mutant: only an execution being signed holds its nonce.
HeldNonces_Signing == {exec[o].nonce : o \in {p \in Orders : exec[p].st = "signing"}}

\* uq_wallet_payment_execution_nonce, and the query for the highest local
\* nonce: an execution that failed before any broadcast frees its nonce.
HeldNonces ==
    {exec[o].nonce : o \in {p \in Orders :
        exec[p].st \in {"signing", "broadcast", "unknown", "confirmed"} \/ exec[p].tx # 0}}

-----------------------------------------------------------------------------
(* Orders (wallet/economy.py)                                              *)

\* _transition_order: a reservation stamps authorized_at.
TransitionOrder(o, target) ==
    /\ target \in OrderTransitions[order[o]]
    /\ order' = [order EXCEPT ![o] = target]
    /\ authDay' = IF target = "reserved" THEN [authDay EXCEPT ![o] = day] ELSE authDay

\* _post_order_journal: one journal of each type per order.
PostJournal(o, type) ==
    /\ type \notin journal[o]
    /\ journal' = [journal EXCEPT ![o] = @ \cup {type}]

\* _ensure_order: the order takes the policy's mode and its first status.
EnsureOrder(o) ==
    LET m == policy.mode
        target == CASE m = "disabled" -> "rejected"
                    [] m = "conditional_confirmation" -> "awaiting_confirmation"
                    [] OTHER -> IF PolicyAllows(o, m) THEN "reserved" ELSE "rejected"
    IN  /\ order[o] = "none"
        /\ target \in OrderTransitions["pending_policy"]
        /\ order' = [order EXCEPT ![o] = target]
        /\ mode' = [mode EXCEPT ![o] = m]
        /\ IF target = "reserved"
           THEN authDay' = [authDay EXCEPT ![o] = day] /\ PostJournal(o, "reservation")
           ELSE UNCHANGED <<authDay, journal>>
        /\ UNCHANGED <<policy, exec, att, seen, touched, day>>

\* confirm_order, through _reserve_order.
ConfirmOrder(o) ==
    /\ order[o] = "awaiting_confirmation"
    /\ PolicyAllows(o, mode[o])
    /\ TransitionOrder(o, "reserved")
    /\ PostJournal(o, "reservation")
    /\ UNCHANGED <<policy, mode, exec, att, seen, touched, day>>

\* reject_order
RejectOrder(o) ==
    /\ order[o] \in {"pending_policy", "awaiting_confirmation"}
    /\ TransitionOrder(o, "rejected")
    /\ UNCHANGED <<policy, mode, journal, exec, att, seen, touched, day>>

\* cancel_order, through _release_order for a reserved order.
CancelOrder(o) ==
    /\ order[o] \in {"reserved", "pending_policy", "awaiting_confirmation"}
    /\ TransitionOrder(o, "cancelled")
    /\ IF order[o] = "reserved" THEN PostJournal(o, "release") ELSE UNCHANGED journal
    /\ UNCHANGED <<policy, mode, exec, att, seen, touched, day>>

\* Mutant: refund without asking for unresolved broadcasts.
RefundOrder_Unchecked(o) ==
    /\ order[o] = "failed"
    /\ TransitionOrder(o, "refunded")
    /\ PostJournal(o, "refund")
    /\ UNCHANGED <<policy, mode, exec, att, seen, touched, day>>

\* refund_order
RefundOrder(o) ==
    /\ ~UnresolvedPayment
    /\ order[o] = "failed"
    /\ TransitionOrder(o, "refunded")
    /\ PostJournal(o, "refund")
    /\ UNCHANGED <<policy, mode, exec, att, seen, touched, day>>

\* update_policy, under wallet_policy_scope; expected_version is the version
\* the operator read, and a stale one is refused.
UpdatePolicy(m, paused) ==
    /\ policy.version < MaxVersion
    /\ policy' = [version |-> policy.version + 1, mode |-> m, paused |-> paused]
    /\ UNCHANGED <<rows, seen, day>>

-----------------------------------------------------------------------------
(* Executions (wallet/execution.py)                                        *)

\* _finish_attempt writes the row numbered attempt_count, whatever attempt
\* the caller made.
FinishAttempt(o, st, tx) ==
    att' = [att EXCEPT ![o][exec[o].n] = [st |-> st, tx |-> tx]]

\* What both branches of _prepare check before anything is written.
PolicyAdmits(o) ==
    /\ ~policy.paused
    /\ policy.mode # "disabled"
    /\ PolicyAllows(o, mode[o])

\* Mutant: the fee budget is not checked.
CanPrepare_NoFee(o) == order[o] = "reserved" /\ PolicyAdmits(o)

\* The conditions of _prepare for a reserved order, the nonce apart.
CanPrepare(o) ==
    /\ order[o] = "reserved"
    /\ PolicyAdmits(o)
    /\ FeeBudgetAllows(o)

\* _prepare for a reserved order: the execution and its first attempt.
Prepare(o, nonce) ==
    /\ CanPrepare(o)
    /\ nonce \notin HeldNonces
    /\ TransitionOrder(o, "signing")
    /\ exec' = [exec EXCEPT ![o] =
                    [st |-> "signing", n |-> 1, tx |-> 0, nonce |-> nonce, rcpt |-> NoReceipt]]
    /\ att' = [att EXCEPT ![o] = <<[st |-> "signing", tx |-> 0]>>]
    /\ touched' = touched \cup {o}
    /\ UNCHANGED <<policy, mode, journal, seen, day>>

\* Mutant: one attempt too many.
CanPrepareRetry_OffByOne(o) ==
    /\ order[o] = "unknown"
    /\ PolicyAdmits(o)
    /\ exec[o].n <= MaxAttempts
    /\ FeeBudgetAllows(o)

\* The conditions of _prepare for an unknown order.
CanPrepareRetry(o) ==
    /\ order[o] = "unknown"
    /\ PolicyAdmits(o)
    /\ exec[o].n < MaxAttempts
    /\ FeeBudgetAllows(o)

\* Mutant: a retry takes the next free nonce instead of the recorded one.
PrepareRetry_FreshNonce(o) ==
    /\ CanPrepareRetry(o)
    /\ TransitionOrder(o, "signing")
    /\ exec' = [exec EXCEPT ![o].st = "signing", ![o].rcpt = NoReceipt, ![o].n = @ + 1,
                            ![o].nonce = CHOOSE k \in 0..MaxNonce + 1 : k \notin HeldNonces]
    /\ att' = [att EXCEPT ![o] = Append(@, [st |-> "signing", tx |-> 0])]
    /\ touched' = touched \cup {o}
    /\ UNCHANGED <<policy, mode, journal, seen, day>>

\* _prepare for an unknown order: same nonce and envelope, one more attempt.
PrepareRetry(o) ==
    /\ CanPrepareRetry(o)
    /\ TransitionOrder(o, "signing")
    /\ exec' = [exec EXCEPT ![o].st = "signing", ![o].rcpt = NoReceipt, ![o].n = @ + 1]
    /\ att' = [att EXCEPT ![o] = Append(@, [st |-> "signing", tx |-> 0])]
    /\ touched' = touched \cup {o}
    /\ UNCHANGED <<policy, mode, journal, seen, day>>

\* Moves an order and its execution together, as every _mark_ operation does.
Settle(o, st, tx, rcpt) ==
    /\ TransitionOrder(o, st)
    /\ exec' = [exec EXCEPT ![o].st = st, ![o].tx = tx, ![o].rcpt = rcpt]
    /\ FinishAttempt(o, st, tx)
    /\ touched' = touched \cup {o}
    /\ UNCHANGED <<policy, mode, seen, day>>

\* _mark_broadcast of hash k: returns the row unchanged unless the order is
\* being signed.
MarkBroadcast(o, k) ==
    IF order[o] = "signing"
    THEN Settle(o, "broadcast", k, exec[o].rcpt) /\ UNCHANGED journal
    ELSE UNCHANGED ledger

\* Mutant: only a broadcast can become unknown.
MarkUnknown_BroadcastOnly(o, k) ==
    IF order[o] = "broadcast"
    THEN Settle(o, "unknown", IF k = 0 THEN exec[o].tx ELSE k, exec[o].rcpt) /\ UNCHANGED journal
    ELSE UNCHANGED ledger

\* _mark_unknown: a missing hash keeps the recorded one.
MarkUnknown(o, k) ==
    IF order[o] \in {"signing", "broadcast"}
    THEN Settle(o, "unknown", IF k = 0 THEN exec[o].tx ELSE k, exec[o].rcpt) /\ UNCHANGED journal
    ELSE UNCHANGED ledger

\* _mark_failed, on a rejection (no receipt) or on a reverted receipt of k.
MarkFailed(o, k, rcpt) ==
    IF order[o] \in {"signing", "broadcast", "unknown"}
    THEN Settle(o, "failed", IF k = 0 THEN exec[o].tx ELSE k, rcpt) /\ UNCHANGED journal
    ELSE UNCHANGED ledger

\* _mark_confirmed writes when the order awaits a receipt and its settlement
\* has not been posted.
CanConfirm(o) == order[o] \in {"broadcast", "unknown"} /\ "settlement" \notin journal[o]

MarkConfirmed(o, k) ==
    /\ CanConfirm(o)
    /\ Settle(o, "confirmed", k, 1)
    /\ PostJournal(o, "settlement")

\* mark_reconcile_required: a settled payment whose receipt left the
\* canonical chain.  Receipt fields and journals stay.
MarkReconcileRequired(o) ==
    IF exec[o].st = "confirmed"
    THEN Settle(o, "unknown", exec[o].tx, exec[o].rcpt) /\ UNCHANGED journal
    ELSE UNCHANGED ledger

\* Mutant: the execution is fenced, its order is not.
RecoverInflight_ExecutionOnly(o) ==
    /\ exec[o].st = "signing" /\ order[o] = "signing"
    /\ exec' = [exec EXCEPT ![o].st = "unknown"]
    /\ FinishAttempt(o, "unknown", exec[o].tx)
    /\ touched' = touched \cup {o}
    /\ UNCHANGED <<policy, order, mode, authDay, journal, seen, day>>

\* One row of recover_database_inflight: process_restarted.
RecoverInflight(o) ==
    /\ exec[o].st = "signing" /\ order[o] = "signing"
    /\ Settle(o, "unknown", exec[o].tx, NoReceipt)
    /\ UNCHANGED journal

-----------------------------------------------------------------------------
\* A balance observation of the spending address (wallet/store.py); what it
\* reads is the chain's, so the composition gives the value.
Observe(balance) ==
    /\ seen' = balance
    /\ touched' = {}
    /\ UNCHANGED <<policy, order, mode, authDay, journal, exec, att, day>>

NextDay ==
    /\ day < MaxDay
    /\ day' = day + 1
    /\ UNCHANGED <<policy, rows, seen>>

LedgerTypeOK ==
    /\ policy \in [version : 1..MaxVersion, mode : Modes, paused : BOOLEAN]
    /\ order \in [Orders -> OrderStatus]
    /\ mode \in [Orders -> Modes]
    /\ authDay \in [Orders -> -1..MaxDay]
    /\ journal \in [Orders -> SUBSET Journals]
    /\ exec \in [Orders -> [st : ExecStatus, n : 0..MaxAttempts, tx : 0..MaxAttempts,
                            nonce : -1..(MaxNonce + 1), rcpt : {NoReceipt, 0, 1}]]
    /\ \A o \in Orders :
           /\ Len(att[o]) = exec[o].n
           /\ \A k \in 1..Len(att[o]) :
                  att[o][k] \in [st : ExecStatus \ {"none"}, tx : 0..MaxAttempts]
    /\ seen \in Int
    /\ touched \subseteq Orders
    /\ day \in 0..MaxDay
=============================================================================
