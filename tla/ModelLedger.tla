---------------------------- MODULE ModelLedger ----------------------------
(***************************************************************************)
(* The model-call ledger: ModelLedger of src/noyra/model/ledger.py.        *)
(*                                                                         *)
(*   calls     model_calls in creation order: the logical request, the     *)
(*             resource group it is routed to, its status, and whether its *)
(*             error code is operator_cancelled                            *)
(*   attempts  model_attempts in authorization order; "tokens" is the      *)
(*             recorded usage (Null: the reservation stays counted)        *)
(*   audit     retry evidence, <<action, call>>                            *)
(*                                                                         *)
(* sent, used and usable are history: whether the request left the host,   *)
(* what the provider really consumed, and whether its answer parses.       *)
(* Every operator here is one BEGIN IMMEDIATE transaction.                 *)
(***************************************************************************)
EXTENDS Integers, Sequences, FiniteSets, FiniteSetsExt

CONSTANTS
  Groups,         \* resource groups of one pool
  DailyAttempts,  \* [Groups -> Nat]: daily_attempts
  DailyTokens,    \* [Groups -> Nat]: daily_input/output_tokens, as one dimension
  Reserve         \* tokens one attempt reserves

VARIABLES calls, attempts, audit

ledger == <<calls, attempts, audit>>

Null == -1

CallStates == {"prepared", "executing", "succeeded", "failed", "unknown"}
AttemptStates == {"authorized", "executing", "succeeded", "failed", "unknown", "cancelled"}
Active == {"authorized", "executing"}

AttemptsOf(c) == {i \in DOMAIN attempts : attempts[i].call = c}

NewCall(r, g) == [req |-> r, group |-> g, st |-> "prepared", operatorCancelled |-> FALSE]

PrepareCall(r, g) ==
  /\ calls' = Append(calls, NewCall(r, g))
  /\ UNCHANGED <<attempts, audit>>

\* The status of a call that may still get an attempt.  A continuation is a
\* retry inside one gateway loop and follows a settled attempt.
MayAuthorize(c, continuation) ==
  IF calls[c].st = "executing" /\ continuation
  THEN /\ AttemptsOf(c) # {}
       /\ attempts[Max(AttemptsOf(c))].st \notin Active
  ELSE calls[c].st = "prepared"

\* Mutant: an attempt whose usage is not known yet is left out of the sum.
Counted_Unreserved(i) == IF attempts[i].tokens = Null THEN 0 ELSE attempts[i].tokens

\* COALESCE(input_tokens, reserved_input_tokens).
Counted(i) == IF attempts[i].tokens = Null THEN Reserve ELSE attempts[i].tokens

BudgetAttempts(groups, day) ==
  {i \in DOMAIN attempts :
     /\ attempts[i].day = day
     /\ attempts[i].st # "cancelled"
     /\ calls[attempts[i].call].group \in groups}

BudgetStatus(groups, day) ==
  LET rows == BudgetAttempts(groups, day)
  IN  [attempts |-> Cardinality(rows), tokens |-> MapThenSumSet(Counted, rows)]

Within(status, maxAttempts, maxTokens) ==
  /\ status.attempts + 1 <= maxAttempts
  /\ status.tokens + Reserve <= maxTokens

\* The group's own limits, then the pool's: the sums over its active groups,
\* against what every group of the pool has spent.
Fits(g, day, active) ==
  /\ Within(BudgetStatus({g}, day), DailyAttempts[g], DailyTokens[g])
  /\ Within(BudgetStatus(Groups, day),
            MapThenSumSet(LAMBDA h : DailyAttempts[h], active),
            MapThenSumSet(LAMBDA h : DailyTokens[h], active))

NewAttempt(c, day) ==
  [call |-> c, day |-> day, st |-> "authorized", tokens |-> Null,
   sent |-> FALSE, used |-> 0, usable |-> FALSE]

AuthorizeAttempt(c, day) ==
  /\ attempts' = Append(attempts, NewAttempt(c, day))
  /\ calls' = [calls EXCEPT ![c].st = "executing"]
  /\ UNCHANGED audit

StartAttempt(a) ==
  /\ attempts' = [attempts EXCEPT ![a].st = "executing"]
  /\ UNCHANGED <<calls, audit>>

CancelUnsentAttempt(a) ==
  /\ attempts[a].st \in Active
  /\ attempts' = [attempts EXCEPT ![a].st = "cancelled"]
  /\ UNCHANGED <<calls, audit>>

FinishAttempt(a, status, tokens) ==
  /\ attempts[a].st = "executing"
  /\ attempts' = [attempts EXCEPT ![a].st = status, ![a].tokens = tokens]
  /\ UNCHANGED <<calls, audit>>

\* finish_call raises, and changes nothing, when the call is in no state it
\* accepts: only a failure may close a call that no attempt was made for.
MayFinish(c, status) ==
  calls[c].st \in {"executing"} \cup (IF status = "failed" THEN {"prepared"} ELSE {})

FinishCall(c, status) ==
  /\ calls' = IF MayFinish(c, status) THEN [calls EXCEPT ![c].st = status] ELSE calls
  /\ UNCHANGED <<attempts, audit>>

Interrupted(st) ==
  CASE st = "authorized" -> "cancelled"
    [] st = "executing" -> "unknown"
    [] OTHER -> st


AmbiguousStates == {"succeeded", "unknown"}

\* Mutant: recovery forgets the attempts that were executing.
RecoverInterrupted_AttemptsOnly ==
  /\ attempts' = [i \in DOMAIN attempts |->
       [attempts[i] EXCEPT !.st = IF @ = "executing" THEN "executing" ELSE Interrupted(@)]]
  /\ UNCHANGED <<calls, audit>>

RecoverInterrupted ==
  /\ attempts' = [i \in DOMAIN attempts |-> [attempts[i] EXCEPT !.st = Interrupted(@)]]
  /\ calls' = [c \in DOMAIN calls |->
       IF calls[c].st \in {"prepared", "executing"}
       THEN [calls[c] EXCEPT !.st =
               IF \E i \in AttemptsOf(c) : Interrupted(attempts[i].st) \in AmbiguousStates
               THEN "unknown" ELSE "failed"]
       ELSE calls[c]]
  /\ UNCHANGED audit

PrepareUnknownRetry(c) ==
  /\ calls[c].st = "unknown"
  /\ calls' = [calls EXCEPT ![c].st = "prepared"]
  /\ audit' = audit \cup {<<"authorized", c>>}
  /\ UNCHANGED attempts

ReconcileUnknown(c, outcome) ==
  /\ calls[c].st = "unknown"
  /\ calls' = [calls EXCEPT ![c].st = outcome]
  /\ UNCHANGED <<attempts, audit>>

\* Mutant: the call is failed the way the gateway fails one, so its error
\* code does not say that an operator cancelled it.
ReconcilePreparedFailed_Uncoded(c) ==
  /\ calls[c].st = "prepared"
  /\ calls' = [calls EXCEPT ![c].st = "failed"]
  /\ audit' = IF <<"authorized", c>> \in audit
              THEN audit \cup {<<"cancelled", c>>} ELSE audit
  /\ UNCHANGED attempts

ReconcilePreparedFailed(c) ==
  /\ calls[c].st = "prepared"
  /\ calls' = [calls EXCEPT ![c].st = "failed", ![c].operatorCancelled = TRUE]
  /\ audit' = IF <<"authorized", c>> \in audit
              THEN audit \cup {<<"cancelled", c>>} ELSE audit
  /\ UNCHANGED attempts

CloseFailedUnknownRetry(c) ==
  /\ calls[c].st = "failed"
  /\ <<"authorized", c>> \in audit
  /\ {<<"closed", c>>, <<"cancelled", c>>} \cap audit = {}
  /\ audit' = audit \cup {<<"closed", c>>}
  /\ UNCHANGED <<calls, attempts>>

-----------------------------------------------------------------------------

\* Rows of the tables are well formed and refer to one another.
LedgerTypeOK(reqs, days) ==
  /\ \A c \in DOMAIN calls :
       calls[c] \in [req : reqs, group : Groups, st : CallStates,
                     operatorCancelled : BOOLEAN]
  /\ \A i \in DOMAIN attempts :
       attempts[i] \in [call : DOMAIN calls, day : days, st : AttemptStates,
                        tokens : {Null} \cup 0..Reserve, sent : BOOLEAN,
                        used : 0..Reserve, usable : BOOLEAN]
  /\ audit \subseteq {"authorized", "cancelled", "closed"} \X (DOMAIN calls)
=============================================================================
