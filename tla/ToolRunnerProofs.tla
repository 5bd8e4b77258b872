-------------------------- MODULE ToolRunnerProofs --------------------------
(***************************************************************************)
(* Proofs about the action ledger and its executors, for any number of     *)
(* keys, callers and charges.  The row lemmas say what each ledger method  *)
(* does to one row; the induction then only reads those facts.             *)
(***************************************************************************)
EXTENDS ToolRunner, TLAPS

-----------------------------------------------------------------------------
(* What each method of the ledger does to a row. *)

\* Append adds one element at the end and keeps the others.
LEMMA AppendFacts ==
  ASSUME NEW S, NEW q \in Seq(S), NEW x \in S
  PROVE  /\ Append(q, x) \in Seq(S)
         /\ Len(q) \in Nat /\ Len(Append(q, x)) = Len(q) + 1
         /\ Append(q, x)[Len(q) + 1] = x
         /\ \A i \in 1..Len(q) : Append(q, x)[i] = q[i]
  OBVIOUS

\* The fields of a row have their types.
LEMMA RowFields ==
  \A r \in Row : /\ r.status \in ActionStates /\ r.kind \in Kinds /\ r.retry \in Nat
                 /\ r.revs \in Seq(ActionStates) /\ r.log \in Seq(ExecutorCompletion)
  BY DEF Row

\* A new row is well formed and unstarted.
LEMMA PreparedRow ==
  ASSUME NEW kind \in Kinds
  PROVE  LET n == Prepared(kind)
         IN  /\ n \in Row /\ Intact(n)
             /\ n.status = "prepared" /\ n.kind = kind /\ n.retry = 0 /\ Len(n.log) = 0
  BY DEF Prepared, Row, Intact, Terminal, ActionStates, ExecutorCompletion

\* start moves a prepared row to executing and counts the attempt.
LEMMA StartedRow ==
  ASSUME NEW r \in Row, Intact(r), StartAllowed(r)
  PROVE  /\ Started(r) \in Row /\ Intact(Started(r))
         /\ Started(r).status = "executing" /\ Started(r).kind = r.kind
         /\ Started(r).retry = r.retry + 1 /\ Len(Started(r).log) = 0
<1>1. /\ Started(r).status = "executing" /\ Started(r).kind = r.kind
      /\ Started(r).retry = r.retry + 1 /\ Started(r).log = r.log
      /\ Started(r).revs = Append(r.revs, "executing")
  BY DEF Started, Row
<1>2. "executing" \in ActionStates /\ r.retry + 1 \in Nat
  BY RowFields DEF ActionStates
<1>3. Append(r.revs, "executing") \in Seq(ActionStates)
  BY <1>2, AppendFacts, RowFields
<1>4. Started(r) \in Row
  BY <1>2, <1>3 DEF Started, Row
<1>5. Len(r.log) \in Nat
  BY RowFields
<1>6. Len(r.log) = 0
  BY <1>5 DEF Intact, StartAllowed, Terminal, ExecutorCompletion
<1>7. Len(Append(r.revs, "executing")) > 0
      /\ Append(r.revs, "executing")[Len(Append(r.revs, "executing"))] = "executing"
  BY <1>2, AppendFacts, RowFields
<1>8. Intact(Started(r))
  BY <1>1, <1>6, <1>7 DEF Intact, Terminal, ExecutorCompletion
<1> QED
  BY <1>1, <1>4, <1>6, <1>8

\* Recording an outcome, first or on top of "unknown", keeps the row intact.
LEMMA RecordedRow ==
  ASSUME NEW r \in Row, Intact(r), NEW s \in ExecutorCompletion,
         \/ ~Terminal(r)
         \/ r.status = "unknown" /\ s # "unknown"
  PROVE  /\ Recorded(r, s) \in Row /\ Intact(Recorded(r, s))
         /\ Recorded(r, s).status = s /\ Recorded(r, s).kind = r.kind
         /\ Recorded(r, s).retry = r.retry
         /\ Len(Recorded(r, s).log) = IF Terminal(r) THEN 2 ELSE 1
<1>1. /\ Recorded(r, s).status = s /\ Recorded(r, s).kind = r.kind
      /\ Recorded(r, s).retry = r.retry
      /\ Recorded(r, s).revs = Append(r.revs, s) /\ Recorded(r, s).log = Append(r.log, s)
  BY DEF Recorded, Row
<1>2. s \in ActionStates
  BY DEF ActionStates
<1>3. Append(r.revs, s) \in Seq(ActionStates) /\ Append(r.log, s) \in Seq(ExecutorCompletion)
  BY <1>2, AppendFacts, RowFields
<1>4. Recorded(r, s) \in Row
  BY <1>2, <1>3 DEF Recorded, Row
<1>5. Len(r.log) \in Nat
  BY RowFields
<1>6. CASE ~Terminal(r)
  <2>1. Len(r.log) = 0
    BY <1>5, <1>6 DEF Intact
  <2>2. Len(Append(r.log, s)) = 1 /\ Append(r.log, s)[1] = s
    BY <2>1, AppendFacts, RowFields
  <2>3. Len(Append(r.revs, s)) > 0 /\ Append(r.revs, s)[Len(Append(r.revs, s))] = s
    BY <1>2, AppendFacts, RowFields
  <2>4. Intact(Recorded(r, s))
    BY <1>1, <2>2, <2>3 DEF Intact, Terminal
  <2> QED
    BY <1>1, <1>4, <1>6, <2>2, <2>4
<1>7. CASE r.status = "unknown" /\ s # "unknown"
  <2>1. Terminal(r)
    BY <1>7 DEF Terminal, ExecutorCompletion
  <2>2. Len(r.log) > 0 /\ Len(r.log) <= 2 /\ r.log[Len(r.log)] = "unknown"
    BY <1>5, <1>7, <2>1 DEF Intact
  <2>3. Len(r.log) = 1 /\ r.log[1] = "unknown"
    <3>1. Len(r.log) # 2
      BY <1>7, <2>2 DEF Intact
    <3>2. \A n \in Nat : n > 0 /\ n <= 2 /\ n # 2 => n = 1
      OBVIOUS
    <3>3. Len(r.log) = 1
      BY <1>5, <2>2, <3>1, <3>2
    <3> QED
      BY <2>2, <3>3
  <2>4. Len(Append(r.log, s)) = 2 /\ Append(r.log, s)[1] = "unknown" /\ Append(r.log, s)[2] = s
    <3>1. /\ Len(Append(r.log, s)) = Len(r.log) + 1 /\ Append(r.log, s)[Len(r.log) + 1] = s
          /\ \A i \in 1..Len(r.log) : Append(r.log, s)[i] = r.log[i]
      BY AppendFacts, RowFields
    <3>2. 1 \in 1..Len(r.log) /\ Len(r.log) + 1 = 2
      BY <2>3
    <3> QED
      BY <2>3, <3>1, <3>2
  <2>5. Len(Append(r.revs, s)) > 0 /\ Append(r.revs, s)[Len(Append(r.revs, s))] = s
    BY <1>2, AppendFacts, RowFields
  <2>6. Intact(Recorded(r, s))
    BY <1>1, <1>7, <2>4, <2>5 DEF Intact, Terminal
  <2> QED
    BY <1>1, <1>4, <2>1, <2>4, <2>6
<1> QED
  BY <1>6, <1>7

-----------------------------------------------------------------------------
(***************************************************************************)
(* The inductive invariant.  AtMostOneExecution and RecordIsTruthful are   *)
(* not inductive: they need to know where the executor of a key is, that   *)
(* there is one at most, and that none survives a crash.                   *)
(***************************************************************************)

Executing(c) == job[c].at \in {"run", "check", "finish"}

\* A caller that works on a key has its row; one that runs it owns it.
JobsOwnRows ==
  \A c \in Callers :
    /\ job[c].at # "idle" => Exists(actions[job[c].key])
    /\ Executing(c) => actions[job[c].key].status = "executing"
    /\ job[c].at = "start" => charges[job[c].key] > 0

\* One executor per key.
SoleExecutor ==
  \A c, d \in Callers : Executing(c) /\ Executing(d) /\ job[c].key = job[d].key => c = d

\* How far the executor is says whether the file has been replaced.
EffectByPlace ==
  \A c \in Callers :
    LET k == job[c].key
    IN  /\ job[c].at = "run" => effects[k] = 0
        /\ job[c].at = "check" => effects[k] = 1 /\ actions[k].kind = "write"
        /\ job[c].at = "finish" =>
             /\ job[c].outcome # "cancelled"
             /\ job[c].outcome = "succeeded" /\ actions[k].kind = "write" => effects[k] = 1
             /\ job[c].outcome = "failed" => effects[k] = 0

\* What a row alone says about its attempt and its effect.
RowHistory ==
  \A k \in Keys :
    /\ actions[k].status \in {"none", "prepared"} => actions[k].retry = 0 /\ effects[k] = 0
    /\ actions[k].retry \in {0, 1} /\ effects[k] \in {0, 1}
    /\ actions[k].kind # "write" => effects[k] = 0

\* A dead process has no callers.
DownIsQuiet == ~up => op = Idle /\ \A c \in Callers : job[c] = Idle

IInv ==
  /\ TypeOK
  /\ JobsOwnRows
  /\ SoleExecutor
  /\ EffectByPlace
  /\ RowHistory
  /\ DownIsQuiet
  /\ LedgerVerifies
  /\ RecordIsTruthful
  /\ ChargedBeforeRun

-----------------------------------------------------------------------------

\* The fields of a job have their types; moving it keeps the others.
LEMMA JobFields ==
  ASSUME NEW j \in Jobs
  PROVE  /\ j.at \in {"idle", "charge", "cancel", "start", "run", "check", "finish"}
         /\ j.at = "idle" => j = Idle
         /\ j.at # "idle" => j.key \in Keys
         /\ j.at = "finish" => j.outcome \in ExecutorCompletion
         /\ j.at = "charge" => j.seen \in {"prepared", "executing"}
         /\ j.at \notin {"idle", "finish"} =>
              \A p \in {"cancel", "start", "run", "check"} :
                LET n == [j EXCEPT !.at = p]
                IN  n \in Jobs /\ n.at = p /\ n.key = j.key
  BY DEF Jobs, Idle

\* A job that is about to finish is well formed.
LEMMA FinishJob ==
  ASSUME NEW k \in Keys, NEW s \in ExecutorCompletion
  PROVE  LET n == [at |-> "finish", key |-> k, outcome |-> s]
         IN  n \in Jobs /\ n.at = "finish" /\ n.key = k /\ n.outcome = s
  BY DEF Jobs

\* A row that exists is a Row, and NoRow is none.
LEMMA RowExists ==
  /\ \A r \in Row \cup {NoRow} : Exists(r) <=> r \in Row
  /\ \A r \in Row \cup {NoRow} : r.status # "none" => r \in Row
  /\ NoRow \notin Row
  BY DEF Row, NoRow, Exists, ActionStates, ExecutorCompletion

\* The invariant holds initially.
LEMMA InitInv == Init => IInv
<1> SUFFICES ASSUME Init PROVE IInv
  OBVIOUS
<1>1. TypeOK
  BY ChargesAssumption DEF Init, TypeOK, Jobs, Requests
<1>2. JobsOwnRows /\ SoleExecutor /\ EffectByPlace /\ DownIsQuiet
  BY DEF Init, JobsOwnRows, SoleExecutor, EffectByPlace, DownIsQuiet, Executing, Idle
<1>3. RowHistory /\ LedgerVerifies /\ ChargedBeforeRun
  BY DEF Init, RowHistory, LedgerVerifies, ChargedBeforeRun, Exists, NoRow
<1>4. RecordIsTruthful
  BY DEF Init, RecordIsTruthful, NoRow
<1> QED
  BY <1>1, <1>2, <1>3, <1>4 DEF IInv

\* Steps in which only the job of one caller moves.
LEMMA JobStep ==
  ASSUME IInv, NEW c \in Callers, NEW n \in Jobs,
         job[c].at # "idle",
         job' = [job EXCEPT ![c] = n],
         UNCHANGED <<actions, charges, grant, effects, op, open, fenced, up>>,
         n.at # "idle" => n.key = job[c].key,
         n.at \in {"run", "check", "finish"} => Executing(c),
         n.at = "start" => charges[n.key] > 0,
         n.at = "run" => effects[n.key] = 0,
         n.at = "check" => effects[n.key] = 1 /\ actions[n.key].kind = "write",
         n.at = "finish" =>
           /\ n.outcome # "cancelled"
           /\ n.outcome = "succeeded" /\ actions[n.key].kind = "write" => effects[n.key] = 1
           /\ n.outcome = "failed" => effects[n.key] = 0
  PROVE  IInv'
<1>1. TypeOK'
  BY DEF IInv, TypeOK
<1>2. job'[c] = n /\ \A d \in Callers : d # c => job'[d] = job[d]
  BY DEF IInv, TypeOK
<1>3. up
  BY DEF IInv, DownIsQuiet, Idle
<1>4. JobsOwnRows'
  BY <1>2 DEF IInv, JobsOwnRows, Executing
<1>5. SoleExecutor'
  BY <1>2 DEF IInv, SoleExecutor, Executing
<1>6. EffectByPlace'
  BY <1>2 DEF IInv, EffectByPlace
<1>7. RowHistory' /\ LedgerVerifies' /\ RecordIsTruthful' /\ ChargedBeforeRun'
  BY DEF IInv, RowHistory, LedgerVerifies, RecordIsTruthful, ChargedBeforeRun
<1>8. DownIsQuiet'
  BY <1>3 DEF DownIsQuiet
<1> QED
  BY <1>1, <1>4, <1>5, <1>6, <1>7, <1>8 DEF IInv

\* Steps that write one row: the facts about jobs are left to the action.
LEMMA RowStep ==
  ASSUME IInv, up, NEW k \in Keys, NEW r \in Row, Intact(r),
         actions' = [actions EXCEPT ![k] = r],
         UNCHANGED <<charges, grant, effects, open, up>>,
         job' \in [Callers -> Jobs], op' \in Requests,
         fenced' \subseteq Callers \cup {Operator},
         JobsOwnRows', SoleExecutor', EffectByPlace',
         r.retry \in {0, 1}, r.retry <= charges[k],
         r.status = "prepared" => r.retry = 0 /\ effects[k] = 0,
         r.kind # "write" => effects[k] = 0,
         r.kind = "write" /\ Len(r.log) <= 1 =>
           /\ r.status = "succeeded" => effects[k] = 1
           /\ r.status \in {"failed", "cancelled"} => effects[k] = 0
  PROVE  IInv'
<1>1. actions'[k] = r /\ \A l \in Keys : l # k => actions'[l] = actions[l]
  BY DEF IInv, TypeOK
<1>2. TypeOK'
  BY DEF IInv, TypeOK
<1>3. RowHistory'
  <2>1. r.status # "none"
    BY DEF Row, ActionStates, ExecutorCompletion
  <2> QED
    BY <1>1, <2>1 DEF IInv, RowHistory
<1>4. LedgerVerifies'
  BY <1>1 DEF IInv, LedgerVerifies
<1>5. RecordIsTruthful'
  BY <1>1 DEF IInv, RecordIsTruthful
<1>6. ChargedBeforeRun'
  BY <1>1 DEF IInv, ChargedBeforeRun
<1>7. DownIsQuiet'
  BY DEF DownIsQuiet
<1> QED
  BY <1>2, <1>3, <1>4, <1>5, <1>6, <1>7 DEF IInv

\* A caller that is not idle works on a key of the ledger, in a live process.
LEMMA BusyCaller ==
  ASSUME IInv, NEW c \in Callers, job[c].at # "idle"
  PROVE  job[c] \in Jobs /\ job[c].key \in Keys /\ actions[job[c].key] \in Row /\ up
<1>1. job[c] \in Jobs
  BY DEF IInv, TypeOK
<1>2. job[c].key \in Keys
  BY <1>1, JobFields
<1>3. actions[job[c].key] \in Row \cup {NoRow}
  BY <1>2 DEF IInv, TypeOK
<1>4. actions[job[c].key] \in Row
  BY <1>3, RowExists DEF IInv, JobsOwnRows
<1>5. up
  BY DEF IInv, DownIsQuiet, Idle
<1> QED
  BY <1>1, <1>2, <1>4, <1>5

\* The tool of a caller ends with an outcome that fits the effect.
LEMMA FinishingStep ==
  ASSUME IInv, NEW c \in Callers, Executing(c), NEW s \in ExecutorCompletion,
         s # "cancelled", Finishing(c, s),
         UNCHANGED <<actions, charges, grant, effects, op, open, fenced, up>>,
         s = "succeeded" /\ Kind(c) = "write" => effects[job[c].key] = 1,
         s = "failed" => effects[job[c].key] = 0
  PROVE  IInv'
<1> DEFINE n == [at |-> "finish", key |-> job[c].key, outcome |-> s]
<1>1. job[c].at # "idle" /\ job[c].key \in Keys
  BY BusyCaller DEF Executing
<1>2. n \in Jobs /\ n.at = "finish" /\ n.key = job[c].key /\ n.outcome = s
  BY <1>1, FinishJob
<1>3. job' = [job EXCEPT ![c] = n]
  BY DEF Finishing
<1> HIDE DEF n
<1> QED
  BY <1>1, <1>2, <1>3, JobStep DEF Kind

\* Every step of a caller keeps the invariant.
LEMMA CallerInv ==
  ASSUME IInv, NEW c \in Callers, CallerStep(c)
  PROVE  IInv'
<1> DEFINE j == job[c]
           k == job[c].key
<1>1. CASE ChargeFails(c)
  <2>1. CASE j.seen = "prepared"
    <3>1. [j EXCEPT !.at = "cancel"] \in Jobs /\ [j EXCEPT !.at = "cancel"].at = "cancel"
          /\ [j EXCEPT !.at = "cancel"].key = k
      BY <1>1, BusyCaller, JobFields DEF ChargeFails, At
    <3>2. job' = [job EXCEPT ![c] = [j EXCEPT !.at = "cancel"]]
      BY <1>1, <2>1 DEF ChargeFails, Goto
    <3> QED
      BY <1>1, <3>1, <3>2, JobStep DEF ChargeFails, At
  <2>2. CASE j.seen # "prepared"
    BY <1>1, <2>2, JobStep DEF ChargeFails, At, Return, Idle, Jobs
  <2> QED
    BY <2>1, <2>2
<1>2. CASE PublishFenced(c)
  <2>1. effects[k] = 0 /\ Executing(c)
    BY <1>2 DEF PublishFenced, At, IInv, EffectByPlace, Executing
  <2> QED
    BY <1>2, <2>1, FinishingStep DEF PublishFenced, ExecutorCompletion
<1>3. CASE WriteFails(c)
  <2>1. Executing(c)
    BY <1>3 DEF WriteFails, At, Executing
  <2> QED
    BY <1>3, <2>1, FinishingStep DEF WriteFails, ExecutorCompletion
<1>4. CASE CheckPublished(c)
  <2>1. effects[k] = 1 /\ Executing(c)
    BY <1>4 DEF CheckPublished, At, IInv, EffectByPlace, Executing
  <2> QED
    BY <1>4, <2>1, FinishingStep DEF CheckPublished, ExecutorCompletion
<1>5. CASE Fetch(c)
  <2>1. effects[k] = 0 /\ Executing(c) /\ Kind(c) # "write"
    BY <1>5 DEF Fetch, At, IInv, EffectByPlace, Executing
  <2>2. PICK s \in {"succeeded", "failed"} : Finishing(c, s)
    BY <1>5 DEF Fetch
  <2> QED
    BY <1>5, <2>1, <2>2, FinishingStep DEF Fetch, ExecutorCompletion
<1>6. CASE Cancel(c)
  <2> DEFINE r == IF Current(c) /\ CancelAllowed(actions[k]) THEN Cancelled(actions[k])
                                                           ELSE actions[k]
  <2>1. job[c].at = "cancel" /\ k \in Keys /\ actions[k] \in Row /\ up
    BY <1>6, BusyCaller DEF Cancel, At
  <2>2. actions' = [actions EXCEPT ![k] = r] /\ job' = [job EXCEPT ![c] = Idle]
    BY <1>6 DEF Cancel, Return
  <2>3. Intact(actions[k])
    BY <2>1, RowExists DEF IInv, LedgerVerifies
  <2>4. CASE Current(c) /\ CancelAllowed(actions[k])
    <3>1. "cancelled" \in ExecutorCompletion /\ ~Terminal(actions[k])
      BY <2>4 DEF ExecutorCompletion, CancelAllowed, Terminal
    <3>2. /\ r \in Row /\ Intact(r)
          /\ r.status = "cancelled" /\ r.kind = actions[k].kind /\ r.retry = actions[k].retry
      BY <2>1, <2>3, <2>4, <3>1, RecordedRow DEF Cancelled
    <3> HIDE DEF r
    <3>3. effects[k] = 0 /\ actions[k].retry = 0
      BY <2>1, <2>4 DEF CancelAllowed, IInv, RowHistory
    <3>4. actions'[k] = r /\ \A l \in Keys : l # k => actions'[l] = actions[l]
      BY <2>1, <2>2 DEF IInv, TypeOK
    <3>5. job'[c] = Idle /\ \A d \in Callers : d # c => job'[d] = job[d]
      BY <2>2 DEF IInv, TypeOK
    <3>6. JobsOwnRows'
      BY <1>6, <2>4, <3>2, <3>4, <3>5 DEF Cancel, CancelAllowed, IInv, JobsOwnRows, Executing, Exists, Idle
    <3>7. SoleExecutor'
      BY <3>5 DEF IInv, SoleExecutor, Executing, Idle
    <3>8. EffectByPlace'
      BY <1>6, <3>2, <3>4, <3>5 DEF Cancel, IInv, EffectByPlace, Idle
    <3>9. job' \in [Callers -> Jobs] /\ op' \in Requests /\ fenced' \subseteq Callers \cup {Operator}
      BY <1>6, <2>2 DEF Cancel, IInv, TypeOK, Jobs
    <3> QED
      BY <1>6, <2>1, <2>2, <3>2, <3>3, <3>6, <3>7, <3>8, <3>9, RowStep
         DEF Cancel, IInv, RowHistory, ChargedBeforeRun
  <2>5. CASE ~(Current(c) /\ CancelAllowed(actions[k]))
    <3>1. actions' = actions
      BY <2>1, <2>2, <2>5 DEF IInv, TypeOK
    <3> QED
      BY <1>6, <2>1, <2>2, <3>1, JobStep DEF Cancel, Idle, Jobs
  <2> QED
    BY <2>4, <2>5
<1>7. CASE Charge(c)
  <2> DEFINE n == [j EXCEPT !.at = "start"]
  <2>1. job[c].at = "charge" /\ k \in Keys /\ actions[k] \in Row /\ up
    BY <1>7, BusyCaller DEF Charge, At
  <2>2. n \in Jobs /\ n.at = "start" /\ n.key = k
    BY <2>1, BusyCaller, JobFields
  <2>3. job' = [job EXCEPT ![c] = n]
    BY <1>7 DEF Charge, Goto
  <2> HIDE DEF n
  <2>4. job'[c] = n /\ \A d \in Callers : d # c => job'[d] = job[d]
    BY <2>3 DEF IInv, TypeOK
  <2>5. charges' = [charges EXCEPT ![k] = @ + 1] /\ charges[k] < MaxCharges /\ charges[k] \in Nat
    BY <1>7, <2>1, ChargesAssumption DEF Charge, IInv, TypeOK
  <2>6. charges' \in [Keys -> 0..MaxCharges] /\ charges'[k] > 0
        /\ \A l \in Keys : charges'[l] >= charges[l] /\ charges[l] \in Nat /\ charges'[l] \in Nat
    BY <2>1, <2>5, ChargesAssumption DEF IInv, TypeOK
  <2>7. TypeOK'
    BY <1>7, <2>2, <2>3, <2>6 DEF Charge, IInv, TypeOK
  <2>8. JobsOwnRows'
    <3> SUFFICES ASSUME NEW d \in Callers
                 PROVE  /\ job'[d].at # "idle" => Exists(actions'[job'[d].key])
                        /\ Executing(d)' => actions'[job'[d].key].status = "executing"
                        /\ job'[d].at = "start" => charges'[job'[d].key] > 0
      BY DEF JobsOwnRows
    <3>1. CASE d = c
      BY <1>7, <2>1, <2>2, <2>4, <2>6, <3>1 DEF Charge, IInv, JobsOwnRows, Executing
    <3>2. CASE d # c
      <4>1. job'[d] = job[d] /\ (job[d].at = "start" => job[d].key \in Keys)
        BY <2>4, <3>2, BusyCaller
      <4> QED
        BY <1>7, <2>6, <4>1 DEF Charge, IInv, JobsOwnRows, Executing
    <3> QED
      BY <3>1, <3>2
  <2>9. SoleExecutor' /\ EffectByPlace'
    BY <1>7, <2>2, <2>4 DEF Charge, IInv, SoleExecutor, EffectByPlace, Executing
  <2>10. RowHistory' /\ LedgerVerifies' /\ RecordIsTruthful' /\ DownIsQuiet'
    BY <1>7, <2>1 DEF Charge, IInv, RowHistory, LedgerVerifies, RecordIsTruthful, DownIsQuiet
  <2>11. ChargedBeforeRun'
    <3> SUFFICES ASSUME NEW l \in Keys PROVE actions[l].retry <= charges'[l]
      BY <1>7 DEF Charge, ChargedBeforeRun
    <3>1. actions[l].retry \in Nat /\ actions[l].retry <= charges[l]
      BY DEF IInv, RowHistory, ChargedBeforeRun
    <3> QED
      BY <2>6, <3>1
  <2> QED
    BY <2>7, <2>8, <2>9, <2>10, <2>11 DEF IInv
<1>8. CASE Start(c)
  <2>1. job[c].at = "start" /\ k \in Keys /\ actions[k] \in Row /\ up
    BY <1>8, BusyCaller DEF Start, At
  <2>2. CASE Current(c) /\ StartAllowed(actions[k])
    <3> DEFINE n == [j EXCEPT !.at = "run"]
               r == Started(actions[k])
    <3>1. n \in Jobs /\ n.at = "run" /\ n.key = k
      BY <2>1, BusyCaller, JobFields
    <3>2. actions' = [actions EXCEPT ![k] = r] /\ job' = [job EXCEPT ![c] = n]
      BY <1>8, <2>2 DEF Start, Goto
    <3>3. Intact(actions[k])
      BY <2>1, RowExists DEF IInv, LedgerVerifies
    <3>4. effects[k] = 0 /\ actions[k].retry = 0 /\ charges[k] > 0 /\ charges[k] \in Nat
      BY <2>1, <2>2, ChargesAssumption DEF StartAllowed, IInv, RowHistory, JobsOwnRows, TypeOK
    <3>5. /\ r \in Row /\ Intact(r) /\ r.status = "executing" /\ r.kind = actions[k].kind
          /\ r.retry = 1
      BY <2>1, <2>2, <3>3, <3>4, StartedRow
    <3> HIDE DEF n, r
    <3>6. actions'[k] = r /\ \A l \in Keys : l # k => actions'[l] = actions[l]
      BY <2>1, <3>2 DEF IInv, TypeOK
    <3>7. job'[c] = n /\ \A d \in Callers : d # c => job'[d] = job[d]
      BY <3>2 DEF IInv, TypeOK
    <3>8. \A d \in Callers : d # c /\ Executing(d) => job[d].key # k
      BY <2>2 DEF StartAllowed, IInv, JobsOwnRows
    <3>9. JobsOwnRows'
      <4> SUFFICES ASSUME NEW d \in Callers
                   PROVE  /\ job'[d].at # "idle" => Exists(actions'[job'[d].key])
                          /\ Executing(d)' => actions'[job'[d].key].status = "executing"
                          /\ job'[d].at = "start" => charges'[job'[d].key] > 0
        BY DEF JobsOwnRows
      <4>1. CASE d = c
        BY <3>1, <3>5, <3>6, <3>7, <4>1 DEF Executing, Exists
      <4>2. CASE d # c
        <5>1. job'[d] = job[d] /\ charges' = charges
          BY <1>8, <3>7, <4>2 DEF Start
        <5>2. CASE job[d].at = "idle"
          BY <5>1, <5>2 DEF Executing
        <5>3. CASE job[d].at # "idle"
          <6>1. job[d].key \in Keys
            BY <5>3, BusyCaller
          <6> QED
            BY <3>5, <3>6, <5>1, <6>1 DEF IInv, JobsOwnRows, Executing, Exists
        <5> QED
          BY <5>2, <5>3
      <4> QED
        BY <4>1, <4>2
    <3>10. SoleExecutor'
      BY <3>1, <3>7, <3>8 DEF IInv, SoleExecutor, Executing
    <3>11. EffectByPlace'
      <4>1. \A d \in Callers : d # c /\ job[d].at \in {"check", "finish"} =>
              job[d].key \in Keys /\ job[d].key # k
        BY <3>8, BusyCaller DEF Executing
      <4>2. effects' = effects
        BY <1>8 DEF Start
      <4> QED
        BY <3>1, <3>4, <3>6, <3>7, <4>1, <4>2 DEF IInv, EffectByPlace
    <3>12. job' \in [Callers -> Jobs] /\ op' \in Requests /\ fenced' \subseteq Callers \cup {Operator}
      BY <1>8, <3>1, <3>2 DEF Start, IInv, TypeOK
    <3> QED
      <4>1. 1 <= charges[k]
        BY <3>4
      <4> QED
        BY <1>8, <2>1, <3>2, <3>4, <3>5, <3>9, <3>10, <3>11, <3>12, <4>1, RowStep DEF Start
  <2>3. CASE ~(Current(c) /\ StartAllowed(actions[k]))
    BY <1>8, <2>1, <2>3, JobStep DEF Start, Return, Idle, Jobs
  <2> QED
    BY <2>2, <2>3
<1>9. CASE Publish(c)
  <2> DEFINE n == [j EXCEPT !.at = "check"]
  <2>1. job[c].at = "run" /\ k \in Keys /\ actions[k] \in Row /\ up /\ actions[k].kind = "write"
    BY <1>9, BusyCaller DEF Publish, At, Kind
  <2>2. n \in Jobs /\ n.at = "check" /\ n.key = k
    BY <2>1, BusyCaller, JobFields
  <2>3. job' = [job EXCEPT ![c] = n]
    BY <1>9 DEF Publish, Goto
  <2> HIDE DEF n
  <2>4. job'[c] = n /\ \A d \in Callers : d # c => job'[d] = job[d]
    BY <2>3 DEF IInv, TypeOK
  <2>5. effects[k] = 0 /\ actions[k].status = "executing" /\ Executing(c)
    BY <2>1 DEF IInv, EffectByPlace, JobsOwnRows, Executing
  <2>6. effects' \in [Keys -> Nat] /\ effects'[k] = 1 /\ \A l \in Keys : l # k => effects'[l] = effects[l]
    BY <1>9, <2>1, <2>5 DEF Publish, IInv, TypeOK
  <2>7. TypeOK'
    BY <1>9, <2>2, <2>3, <2>6 DEF Publish, IInv, TypeOK
  <2>8. \A d \in Callers : d # c /\ Executing(d) => job[d].key # k /\ job[d].key \in Keys
    BY <2>5, BusyCaller DEF IInv, SoleExecutor, Executing
  <2>9. JobsOwnRows' /\ SoleExecutor'
    <3>1. UNCHANGED <<actions, charges>>
      BY <1>9 DEF Publish
    <3>2. Exists(actions[k])
      BY <2>5 DEF Exists
    <3>3. JobsOwnRows'
      BY <2>2, <2>4, <2>5, <3>1, <3>2 DEF IInv, JobsOwnRows, Executing
    <3>4. \A d \in Callers : Executing(d)' => Executing(d) /\ job'[d].key = job[d].key
      BY <2>2, <2>4, <2>5 DEF Executing
    <3>5. SoleExecutor'
      BY <3>4 DEF IInv, SoleExecutor
    <3> QED
      BY <3>3, <3>5
  <2>10. EffectByPlace'
    BY <1>9, <2>1, <2>2, <2>4, <2>6, <2>8 DEF Publish, IInv, EffectByPlace, Executing
  <2>11. RowHistory' /\ RecordIsTruthful'
    BY <1>9, <2>1, <2>5, <2>6 DEF Publish, IInv, RowHistory, RecordIsTruthful
  <2>12. LedgerVerifies' /\ ChargedBeforeRun' /\ DownIsQuiet'
    BY <1>9, <2>1 DEF Publish, IInv, LedgerVerifies, ChargedBeforeRun, DownIsQuiet
  <2> QED
    BY <2>7, <2>9, <2>10, <2>11, <2>12 DEF IInv
<1>10. CASE Finish(c)
  <2> DEFINE ok == FinishAllowed(actions[k]) /\ (Kind(c) = "read" => Current(c))
             r == Finished(actions[k], j.outcome)
  <2>1. job[c].at = "finish" /\ j \in Jobs /\ k \in Keys /\ actions[k] \in Row /\ up
    BY <1>10, BusyCaller DEF Finish, At
  <2>2. actions' = [actions EXCEPT ![k] = IF ok THEN r ELSE actions[k]]
        /\ job' = [job EXCEPT ![c] = Idle]
    BY <1>10 DEF Finish, Return
  <2>3. CASE ok
    <3>1. Intact(actions[k])
      BY <2>1, RowExists DEF IInv, LedgerVerifies
    <3>2. j.outcome \in ExecutorCompletion /\ ~Terminal(actions[k])
      BY <2>1, <2>3, JobFields DEF FinishAllowed, Terminal, ExecutorCompletion
    <3>3. /\ r \in Row /\ Intact(r) /\ r.status = j.outcome /\ r.kind = actions[k].kind
          /\ r.retry = actions[k].retry
      BY <2>1, <3>1, <3>2, RecordedRow DEF Finished
    <3> HIDE DEF r
    <3>4. actions'[k] = r /\ \A l \in Keys : l # k => actions'[l] = actions[l]
      BY <2>1, <2>2, <2>3 DEF IInv, TypeOK
    <3>5. job'[c] = Idle /\ \A d \in Callers : d # c => job'[d] = job[d]
      BY <2>2 DEF IInv, TypeOK
    <3>6. \A d \in Callers : d # c /\ Executing(d) => job[d].key # k
      BY <2>1 DEF IInv, SoleExecutor, Executing
    <3>7. r.status # "none" /\ r.status # "prepared"
      BY <3>2, <3>3 DEF ExecutorCompletion
    <3>8. JobsOwnRows'
      BY <1>10, <3>4, <3>5, <3>6, <3>7 DEF Finish, IInv, JobsOwnRows, Executing, Exists, Idle
    <3>9. SoleExecutor'
      BY <3>5 DEF IInv, SoleExecutor, Executing, Idle
    <3>10. EffectByPlace'
      <4>1. effects' = effects
        BY <1>10 DEF Finish
      <4>2. \A d \in Callers : d # c /\ job[d].at # "idle" =>
              actions'[job[d].key].kind = actions[job[d].key].kind
        BY <3>3, <3>4, BusyCaller
      <4>3. job'[c].at = "idle"
        BY <3>5 DEF Idle
      <4> QED
        BY <3>5, <4>1, <4>2, <4>3 DEF IInv, EffectByPlace
    <3>11. job' \in [Callers -> Jobs] /\ op' \in Requests /\ fenced' \subseteq Callers \cup {Operator}
      BY <1>10, <2>2 DEF Finish, IInv, TypeOK, Jobs
    <3>12. /\ j.outcome # "cancelled"
           /\ j.outcome = "succeeded" /\ actions[k].kind = "write" => effects[k] = 1
           /\ j.outcome = "failed" => effects[k] = 0
      BY <2>1 DEF IInv, EffectByPlace
    <3>13. r.retry \in {0, 1} /\ r.retry <= charges[k] /\ (r.kind # "write" => effects[k] = 0)
      BY <2>1, <3>3 DEF IInv, RowHistory, ChargedBeforeRun
    <3>14. actions' = [actions EXCEPT ![k] = r]
      BY <2>2, <2>3
    <3> QED
      BY <1>10, <2>1, <3>3, <3>7, <3>8, <3>9, <3>10, <3>11, <3>12, <3>13, <3>14, RowStep DEF Finish
  <2>4. CASE ~ok
    <3>1. actions' = actions
      BY <2>1, <2>2, <2>4 DEF IInv, TypeOK
    <3> QED
      BY <1>10, <2>1, <2>2, <3>1, JobStep DEF Finish, Idle, Jobs
  <2> QED
    BY <2>3, <2>4
<1> QED
  BY <1>1, <1>2, <1>3, <1>4, <1>5, <1>6, <1>7, <1>8, <1>9, <1>10 DEF CallerStep

\* A call of a tool keeps the invariant.
LEMMA PrepareInv ==
  ASSUME IInv, NEW c \in Callers, NEW k \in Keys, NEW kind \in Kinds, Prepare(c, k, kind)
  PROVE  IInv'
<1> DEFINE r == IF Exists(actions[k]) THEN actions[k] ELSE Prepared(kind)
           n == [at |-> "charge", key |-> k, seen |-> r.status]
<1>1. actions[k] \in Row \cup {NoRow} /\ ~Terminal(actions[k]) /\ job[c].at = "idle" /\ up
  BY DEF Prepare, At, IInv, TypeOK
<1>2. actions' = [actions EXCEPT ![k] = r]
  BY DEF Prepare
<1>3. /\ r \in Row /\ Intact(r) /\ r.status \in {"prepared", "executing"}
      /\ Exists(actions[k]) => r = actions[k]
      /\ ~Exists(actions[k]) => r.status = "prepared" /\ r.retry = 0 /\ effects[k] = 0 /\ Len(r.log) = 0
  <2>1. CASE Exists(actions[k])
    <3>1. actions[k] \in Row /\ Intact(actions[k])
      BY <1>1, <2>1, RowExists DEF IInv, LedgerVerifies
    <3> QED
      BY <1>1, <2>1, <3>1, RowFields DEF Terminal, ActionStates
  <2>2. CASE ~Exists(actions[k])
    <3>1. effects[k] = 0
      BY <2>2 DEF Exists, IInv, RowHistory
    <3> QED
      BY <2>2, <3>1, PreparedRow
  <2> QED
    BY <2>1, <2>2
<1> HIDE DEF r
<1>4. actions'[k] = r /\ \A l \in Keys : l # k => actions'[l] = actions[l]
  BY <1>2 DEF IInv, TypeOK
<1>5. n \in Jobs /\ n.at = "charge" /\ n.key = k
  BY <1>3 DEF Jobs
<1>6. job' = [job EXCEPT ![c] = n]
  <2>1. job' = [job EXCEPT ![c] = [at |-> "charge", key |-> k, seen |-> actions'[k].status]]
    BY DEF Prepare
  <2> QED
    BY <1>4, <2>1
<1> HIDE DEF n
<1>7. job'[c] = n /\ \A d \in Callers : d # c => job'[d] = job[d]
  BY <1>6 DEF IInv, TypeOK
<1>8. \A l \in Keys : Exists(actions[l]) => actions'[l] = actions[l]
  BY <1>3, <1>4
<1>9. Exists(r)
  BY <1>3, RowExists
<1>10. UNCHANGED <<charges, grant, effects, op, open, up>> /\ fenced' = fenced \ {c}
  BY DEF Prepare
<1>11. \A d \in Callers : d # c /\ job[d].at # "idle" =>
         job[d].key \in Keys /\ actions'[job[d].key] = actions[job[d].key]
               /\ Exists(actions[job[d].key])
  BY <1>8, BusyCaller DEF IInv, JobsOwnRows
<1>12. JobsOwnRows'
  BY <1>4, <1>5, <1>7, <1>9, <1>10, <1>11 DEF IInv, JobsOwnRows, Executing
<1>13. SoleExecutor'
  BY <1>5, <1>7 DEF IInv, SoleExecutor, Executing
<1>14. EffectByPlace'
  BY <1>5, <1>7, <1>10, <1>11 DEF IInv, EffectByPlace
<1>15. job' \in [Callers -> Jobs] /\ op' \in Requests /\ fenced' \subseteq Callers \cup {Operator}
  BY <1>5, <1>6, <1>10 DEF IInv, TypeOK
<1>16. r.retry \in {0, 1} /\ r.retry <= charges[k]
       /\ (r.status = "prepared" => r.retry = 0 /\ effects[k] = 0)
       /\ (r.kind # "write" => effects[k] = 0)
  <2>1. charges[k] \in Nat
    BY ChargesAssumption DEF IInv, TypeOK
  <2> QED
    BY <1>3, <2>1 DEF IInv, RowHistory, ChargedBeforeRun
<1> QED
  BY <1>1, <1>2, <1>3, <1>10, <1>12, <1>13, <1>14, <1>15, <1>16, RowStep

\* The operator's request keeps the invariant.
LEMMA OperatorInv ==
  ASSUME IInv, OperatorActs
  PROVE  IInv'
<1> DEFINE k == op.key
           old == actions[k]
<1>1. op.at = "act" /\ k \in Keys /\ op.seen \in ActionStates /\ op.outcome \in Reconciliation /\ up
  BY DEF OperatorActs, IInv, TypeOK, Requests, Idle, DownIsQuiet
<1>2. UNCHANGED <<charges, grant, effects, job, open, fenced, up>> /\ op' = Idle
  BY DEF OperatorActs
<1>3. CASE actions' = actions
  <2>1. TypeOK'
    BY <1>2, <1>3 DEF IInv, TypeOK, Requests
  <2>2. JobsOwnRows' /\ SoleExecutor' /\ EffectByPlace'
    BY <1>2, <1>3 DEF IInv, JobsOwnRows, SoleExecutor, EffectByPlace, Executing
  <2>3. RowHistory' /\ LedgerVerifies' /\ RecordIsTruthful' /\ ChargedBeforeRun' /\ DownIsQuiet'
    BY <1>1, <1>2, <1>3 DEF IInv, RowHistory, LedgerVerifies, RecordIsTruthful, ChargedBeforeRun, DownIsQuiet
  <2> QED
    BY <2>1, <2>2, <2>3 DEF IInv
<1>4. ASSUME NEW s \in ExecutorCompletion, actions' = [actions EXCEPT ![k] = Recorded(old, s)],
             \/ old.status = "prepared" /\ s = "cancelled"
             \/ old.status = "unknown" /\ s # "unknown"
      PROVE  IInv'
  <2> DEFINE r == Recorded(old, s)
  <2>1. old \in Row /\ Intact(old)
    BY <1>1, <1>4, RowExists DEF IInv, TypeOK, LedgerVerifies
  <2>2. old.status = "prepared" => ~Terminal(old)
    BY DEF Terminal, ExecutorCompletion
  <2>3. old.status = "unknown" => Terminal(old)
    BY DEF Terminal, ExecutorCompletion
  <2>4. /\ r \in Row /\ Intact(r) /\ r.status = s /\ r.kind = old.kind /\ r.retry = old.retry
        /\ old.status = "unknown" => Len(r.log) = 2
    <3>1. ~Terminal(old) \/ (old.status = "unknown" /\ s # "unknown")
      BY <1>4, <2>2
    <3>2. /\ r \in Row /\ Intact(r) /\ r.status = s /\ r.kind = old.kind /\ r.retry = old.retry
          /\ Len(r.log) = IF Terminal(old) THEN 2 ELSE 1
      BY <2>1, <3>1, RecordedRow
    <3> QED
      BY <2>3, <3>2
  <2> HIDE DEF r
  <2>5. actions'[k] = r /\ \A l \in Keys : l # k => actions'[l] = actions[l]
    BY <1>1, <1>4 DEF IInv, TypeOK, r
  <2>6. r.status # "none" /\ r.status # "prepared"
    BY <2>4 DEF ExecutorCompletion
  <2>7. JobsOwnRows'
    <3>1. \A d \in Callers : Executing(d) => job[d].key # k
      BY <1>4 DEF IInv, JobsOwnRows
    <3>2. \A d \in Callers : job[d].at # "idle" => job[d].key \in Keys
      BY BusyCaller
    <3>3. \A d \in Callers : job[d].at # "idle" => Exists(actions'[job[d].key])
      BY <2>5, <2>6, <3>2 DEF IInv, JobsOwnRows, Exists
    <3>4. \A d \in Callers : Executing(d) => actions'[job[d].key].status = "executing"
      BY <2>5, <3>1, <3>2 DEF IInv, JobsOwnRows, Executing
    <3> QED
      BY <1>2, <3>3, <3>4 DEF IInv, JobsOwnRows, Executing, Exists
  <2>8. SoleExecutor'
    BY <1>2 DEF IInv, SoleExecutor, Executing
  <2>9. EffectByPlace'
    <3>1. \A d \in Callers : job[d].at # "idle" =>
            actions'[job[d].key].kind = actions[job[d].key].kind
      BY <2>4, <2>5, BusyCaller
    <3> QED
      BY <1>2, <3>1 DEF IInv, EffectByPlace
  <2>10. r.retry \in {0, 1} /\ r.retry <= charges[k] /\ (r.kind # "write" => effects[k] = 0)
         /\ (old.status = "prepared" => effects[k] = 0)
    BY <1>1, <2>4 DEF IInv, RowHistory, ChargedBeforeRun
  <2>11. r.kind = "write" /\ Len(r.log) <= 1 =>
           /\ r.status = "succeeded" => effects[k] = 1
           /\ r.status \in {"failed", "cancelled"} => effects[k] = 0
    <3>1. CASE old.status = "prepared" /\ s = "cancelled"
      BY <2>4, <2>10, <3>1
    <3>2. CASE old.status = "unknown"
      <4>1. Len(r.log) = 2
        BY <2>4, <3>2
      <4>2. \A n : n = 2 => ~(n <= 1)
        OBVIOUS
      <4> QED
        BY <4>1, <4>2
    <3> QED
      BY <1>4, <3>1, <3>2
  <2>12. job' \in [Callers -> Jobs] /\ op' \in Requests /\ fenced' \subseteq Callers \cup {Operator}
    BY <1>2 DEF IInv, TypeOK, Requests
  <2>13. actions' = [actions EXCEPT ![k] = r]
    BY <1>4 DEF r
  <2> QED
    BY <1>1, <1>2, <2>4, <2>6, <2>7, <2>8, <2>9, <2>10, <2>11, <2>12, <2>13, RowStep
<1>5. CASE Current(Operator) /\ op.seen = "prepared" /\ CancelAllowed(old)
  <2>1. actions' = [actions EXCEPT ![k] = Recorded(old, "cancelled")] /\ old.status = "prepared"
    BY <1>5 DEF OperatorActs, Cancelled, CancelAllowed
  <2> QED
    BY <1>4, <2>1 DEF ExecutorCompletion
<1>6. CASE Current(Operator) /\ op.seen = "unknown" /\ ReconcileAllowed(old)
  <2>1. actions' = [actions EXCEPT ![k] = Recorded(old, op.outcome)] /\ old.status = "unknown"
    BY <1>6 DEF OperatorActs, Reconciled, ReconcileAllowed
  <2> QED
    BY <1>1, <1>4, <2>1 DEF ExecutorCompletion, Reconciliation
<1>7. CASE /\ ~(Current(Operator) /\ op.seen = "prepared" /\ CancelAllowed(old))
           /\ ~(Current(Operator) /\ op.seen = "unknown" /\ ReconcileAllowed(old))
  <2>1. actions' = [actions EXCEPT ![k] = old]
    BY <1>7 DEF OperatorActs
  <2>2. actions' = actions
    BY <1>1, <2>1 DEF IInv, TypeOK
  <2> QED
    BY <1>3, <2>2
<1> QED
  BY <1>5, <1>6, <1>7

\* The environment keeps the invariant.
LEMMA EnvironmentInv ==
  ASSUME IInv, Fence \/ Reopen \/ GrantOrRevoke \/ Crash \/ UNCHANGED vars
               \/ \E k \in Keys, s \in Reconciliation : OperatorReads(k, s)
  PROVE  IInv'
<1> DEFINE quiet == op' = Idle /\ job' = [c \in Callers |-> Idle]
           moves == /\ UNCHANGED <<actions, charges, effects>>
                    /\ job' = job \/ job' = [c \in Callers |-> Idle]
                    /\ up => up' \/ quiet
                    /\ ~up => op' = op /\ job' = job
<1>1. moves
  <2>1. CASE Fence \/ Reopen \/ GrantOrRevoke
    BY <2>1 DEF Fence, Reopen, GrantOrRevoke
  <2>2. CASE Crash
    BY <2>2 DEF Crash
  <2>3. CASE UNCHANGED vars
    BY <2>3 DEF vars
  <2>4. CASE \E k \in Keys, s \in Reconciliation : OperatorReads(k, s)
    BY <2>4 DEF OperatorReads
  <2> QED
    BY <2>1, <2>2, <2>3, <2>4
<1>2. TypeOK'
  <2>1. CASE \E k \in Keys, s \in Reconciliation : OperatorReads(k, s)
    <3> PICK k \in Keys, s \in Reconciliation : OperatorReads(k, s)
      BY <2>1
    <3>1. actions[k].status \in ActionStates
      BY DEF OperatorReads, ActionStates, ExecutorCompletion
    <3>2. op' \in Requests
      BY <3>1 DEF OperatorReads, Requests
    <3> QED
      BY <3>2 DEF OperatorReads, IInv, TypeOK
  <2>2. CASE Fence \/ Reopen \/ GrantOrRevoke
    BY <2>2 DEF Fence, Reopen, GrantOrRevoke, IInv, TypeOK
  <2>3. CASE Crash
    BY <2>3 DEF Crash, IInv, TypeOK, Jobs, Requests
  <2>4. CASE UNCHANGED vars
    BY <2>4 DEF vars, IInv, TypeOK
  <2> QED
    BY <2>1, <2>2, <2>3, <2>4
<1>3. JobsOwnRows' /\ SoleExecutor' /\ EffectByPlace'
  <2>1. CASE job' = job
    BY <1>1, <2>1 DEF IInv, JobsOwnRows, SoleExecutor, EffectByPlace, Executing
  <2>2. CASE job' = [c \in Callers |-> Idle]
    <3>1. \A c \in Callers : job'[c].at = "idle"
      BY <2>2 DEF Idle
    <3> QED
      BY <3>1 DEF JobsOwnRows, SoleExecutor, EffectByPlace, Executing
  <2> QED
    BY <1>1, <2>1, <2>2
<1>4. RowHistory' /\ LedgerVerifies' /\ RecordIsTruthful' /\ ChargedBeforeRun'
  BY <1>1 DEF IInv, RowHistory, LedgerVerifies, RecordIsTruthful, ChargedBeforeRun
<1>5. DownIsQuiet'
  BY <1>1 DEF IInv, DownIsQuiet
<1> QED
  BY <1>2, <1>3, <1>4, <1>5 DEF IInv

\* Restart recovery keeps the invariant: nobody is running what it settles.
LEMMA BootInv ==
  ASSUME IInv, Boot
  PROVE  IInv'
<1>1. UNCHANGED <<charges, grant, effects, job, op, open, fenced>> /\ up' = TRUE
  BY DEF Boot
<1>2. ASSUME NEW k \in Keys
      PROVE  /\ actions'[k].status # "executing" => actions'[k] = actions[k] \/ actions'[k].status = "unknown"
             /\ actions'[k] \in Row \cup {NoRow}
             /\ Exists(actions'[k]) => Intact(actions'[k])
             /\ actions'[k].kind = actions[k].kind /\ actions'[k].retry = actions[k].retry
             /\ actions'[k] = actions[k] \/ actions'[k].status = "unknown"
  <2>1. actions'[k] = Recovered(actions[k])
    BY DEF Boot
  <2>2. CASE actions[k].status = "executing"
    <3>1. actions[k] \in Row /\ Intact(actions[k]) /\ "unknown" \in ExecutorCompletion /\ ~Terminal(actions[k])
      BY <2>2, RowExists DEF IInv, TypeOK, LedgerVerifies, Terminal, ExecutorCompletion
    <3> QED
      BY <2>1, <2>2, <3>1, RecordedRow DEF Recovered
  <2>3. CASE actions[k].status # "executing"
    BY <2>1, <2>3 DEF Recovered, IInv, TypeOK, LedgerVerifies
  <2> QED
    BY <2>2, <2>3
<1>3. TypeOK'
  <2>1. actions' \in [Keys -> Row \cup {NoRow}]
    BY <1>2 DEF Boot
  <2> QED
    BY <1>1, <2>1 DEF IInv, TypeOK
<1>4. \A c \in Callers : job'[c].at = "idle"
  BY <1>1 DEF Boot, IInv, DownIsQuiet, Idle
<1>5. JobsOwnRows' /\ SoleExecutor' /\ EffectByPlace'
  BY <1>4 DEF JobsOwnRows, SoleExecutor, EffectByPlace, Executing
<1>6. RowHistory' /\ LedgerVerifies' /\ ChargedBeforeRun'
  BY <1>1, <1>2 DEF IInv, RowHistory, LedgerVerifies, ChargedBeforeRun
<1>7. RecordIsTruthful'
  BY <1>1, <1>2 DEF IInv, RecordIsTruthful
<1>8. DownIsQuiet'
  BY <1>1 DEF DownIsQuiet
<1> QED
  BY <1>3, <1>5, <1>6, <1>7, <1>8 DEF IInv

\* The inductive invariant holds in every reachable state.
THEOREM Invariant == Spec => []IInv
<1>1. IInv /\ [Next]_vars => IInv'
  BY CallerInv, PrepareInv, OperatorInv, EnvironmentInv, BootInv DEF Next
<1> QED
  BY <1>1, InitInv, PTL DEF Spec

\* Type correctness.
THEOREM TypeCorrect == Spec => []TypeOK
  BY Invariant, PTL DEF IInv

\* At most one execution per idempotency key, across callers and crashes
\* (start, finish and recover_interrupted of ActionLedger).
THEOREM OneExecution == Spec => []AtMostOneExecution
<1>1. IInv => AtMostOneExecution
  BY DEF IInv, AtMostOneExecution, RowHistory, SoleExecutor, Running, Executing
<1> QED
  BY <1>1, Invariant, PTL

\* The recorded outcome of a write agrees with the file
\* (ToolRunner.write_text and write_atomic).
THEOREM TruthfulRecord == Spec => []RecordIsTruthful
  BY Invariant, PTL DEF IInv

\* The ledger always passes ActionLedger.verify_integrity.
THEOREM AlwaysVerifies == Spec => []LedgerVerifies
  BY Invariant, PTL DEF IInv

\* Nothing runs uncharged (CapabilityStore.use before ActionLedger.start).
THEOREM AlwaysCharged == Spec => []ChargedBeforeRun
  BY Invariant, PTL DEF IInv

-----------------------------------------------------------------------------
(* What a step does to the ledger and to the world. *)

\* The status changes that the ledger's methods make.
Legal(a, b) ==
  \/ a = "none" /\ b = "prepared"
  \/ a = "prepared" /\ b \in {"executing", "cancelled"}
  \/ a = "executing" /\ b \in ExecutorCompletion
  \/ a = "unknown" /\ b \in Reconciliation

RowMoves ==
  \E k \in Keys, r \in Row :
    /\ actions' = [actions EXCEPT ![k] = r]
    /\ Legal(actions[k].status, r.status)
    /\ UNCHANGED effects

FileReplaced ==
  \E k \in Keys :
    /\ actions[k].status = "executing" /\ effects[k] = 0
    /\ effects' = [effects EXCEPT ![k] = 1]
    /\ UNCHANGED actions

\* A caller's step leaves ledger and file alone, moves one row legally, or
\* replaces the file of an executing row for the first time.
LEMMA CallerMoves ==
  ASSUME IInv, IInv', NEW c \in Callers,
         CallerStep(c) \/ \E k \in Keys, kind \in Kinds : Prepare(c, k, kind)
  PROVE  UNCHANGED <<actions, effects>> \/ RowMoves \/ FileReplaced
<1> DEFINE k == job[c].key
<1>1. CASE Charge(c) \/ ChargeFails(c) \/ PublishFenced(c) \/ WriteFails(c) \/ CheckPublished(c) \/ Fetch(c)
  BY <1>1 DEF Charge, ChargeFails, PublishFenced, WriteFails, CheckPublished, Fetch
<1>2. CASE Publish(c)
  <2>1. job[c].at = "run"
    BY <1>2 DEF Publish, At
  <2>2. k \in Keys
    BY <2>1, BusyCaller
  <2>3. actions[k].status = "executing" /\ effects[k] = 0
    BY <2>1 DEF IInv, JobsOwnRows, EffectByPlace, Executing
  <2>4. effects' = [effects EXCEPT ![k] = 1] /\ UNCHANGED actions
    BY <1>2, <2>3 DEF Publish
  <2> QED
    BY <2>2, <2>3, <2>4 DEF FileReplaced
<1>3. ASSUME k \in Keys, UNCHANGED effects, NEW r,
             actions' = [actions EXCEPT ![k] = r], r = actions[k] \/ Legal(actions[k].status, r.status)
      PROVE  UNCHANGED <<actions, effects>> \/ RowMoves
  <2>1. CASE r = actions[k]
    BY <1>3, <2>1 DEF IInv, TypeOK
  <2>2. CASE r # actions[k]
    <3>1. actions'[k] = r /\ actions'[k] \in Row \cup {NoRow}
      BY <1>3 DEF IInv, TypeOK
    <3>2. r.status # "none"
      BY <1>3, <2>2 DEF Legal, ExecutorCompletion, Reconciliation
    <3>3. r \in Row
      BY <3>1, <3>2 DEF NoRow
    <3> QED
      BY <1>3, <2>2, <3>3 DEF RowMoves
  <2> QED
    BY <2>1, <2>2
<1>4. CASE Cancel(c)
  <2>1. k \in Keys /\ actions[k] \in Row
    BY <1>4, BusyCaller DEF Cancel, At
  <2>2. CASE Current(c) /\ CancelAllowed(actions[k])
    <3>1. Cancelled(actions[k]).status = "cancelled"
      BY <2>1 DEF Cancelled, Recorded, Row
    <3>2. actions' = [actions EXCEPT ![k] = Cancelled(actions[k])] /\ UNCHANGED effects
      BY <1>4, <2>2 DEF Cancel
    <3>3. Legal(actions[k].status, Cancelled(actions[k]).status)
      BY <2>2, <3>1 DEF Legal, CancelAllowed
    <3> QED
      BY <1>3, <2>1, <3>2, <3>3
  <2>3. CASE ~(Current(c) /\ CancelAllowed(actions[k]))
    <3>1. actions' = [actions EXCEPT ![k] = actions[k]] /\ UNCHANGED effects
      BY <1>4, <2>3 DEF Cancel
    <3> QED
      BY <1>3, <2>1, <3>1
  <2> QED
    BY <2>2, <2>3
<1>5. CASE Start(c)
  <2>1. k \in Keys /\ actions[k] \in Row
    BY <1>5, BusyCaller DEF Start, At
  <2>2. CASE Current(c) /\ StartAllowed(actions[k])
    <3>1. Started(actions[k]).status = "executing"
      BY <2>1 DEF Started, Row
    <3>2. actions' = [actions EXCEPT ![k] = Started(actions[k])] /\ UNCHANGED effects
      BY <1>5, <2>2 DEF Start
    <3>3. Legal(actions[k].status, Started(actions[k]).status)
      BY <2>2, <3>1 DEF Legal, StartAllowed
    <3> QED
      BY <1>3, <2>1, <3>2, <3>3
  <2>3. CASE ~(Current(c) /\ StartAllowed(actions[k]))
    BY <1>5, <2>3 DEF Start
  <2> QED
    BY <2>2, <2>3
<1>6. CASE Finish(c)
  <2> DEFINE settles == FinishAllowed(actions[k]) /\ (Kind(c) = "read" => Current(c))
  <2>1. k \in Keys /\ actions[k] \in Row /\ job[c] \in Jobs /\ job[c].at = "finish"
    BY <1>6, BusyCaller DEF Finish, At
  <2>2. job[c].outcome \in ExecutorCompletion
    BY <2>1, JobFields
  <2>3. CASE settles
    <3>1. Finished(actions[k], job[c].outcome).status = job[c].outcome
      BY <2>1 DEF Finished, Recorded, Row
    <3>2. actions' = [actions EXCEPT ![k] = Finished(actions[k], job[c].outcome)] /\ UNCHANGED effects
      BY <1>6, <2>3 DEF Finish
    <3>3. Legal(actions[k].status, Finished(actions[k], job[c].outcome).status)
      BY <2>2, <2>3, <3>1 DEF Legal, FinishAllowed
    <3> QED
      BY <1>3, <2>1, <3>2, <3>3
  <2>4. CASE ~settles
    <3>1. actions' = [actions EXCEPT ![k] = actions[k]] /\ UNCHANGED effects
      BY <1>6, <2>4 DEF Finish
    <3> QED
      BY <1>3, <2>1, <3>1
  <2> QED
    BY <2>3, <2>4
<1>7. ASSUME NEW l \in Keys, NEW kind \in Kinds, Prepare(c, l, kind)
      PROVE  UNCHANGED <<actions, effects>> \/ RowMoves
  <2>1. CASE Exists(actions[l])
    <3>1. actions' = [actions EXCEPT ![l] = actions[l]] /\ UNCHANGED effects
      BY <1>7, <2>1 DEF Prepare
    <3> QED
      BY <3>1 DEF IInv, TypeOK
  <2>2. CASE ~Exists(actions[l])
    <3>1. actions' = [actions EXCEPT ![l] = Prepared(kind)] /\ UNCHANGED effects
      BY <1>7, <2>2 DEF Prepare
    <3> QED
      BY <2>2, <3>1, PreparedRow DEF RowMoves, Legal, Exists
  <2> QED
    BY <2>1, <2>2
<1> QED
  BY <1>1, <1>2, <1>4, <1>5, <1>6, <1>7 DEF CallerStep

\* Every step is one of the above, or the recovery of a boot.
LEMMA StepMoves ==
  ASSUME IInv, IInv', [Next]_vars
  PROVE  \/ UNCHANGED <<actions, effects>> \/ RowMoves \/ FileReplaced
         \/ actions' = [k \in Keys |-> Recovered(actions[k])] /\ UNCHANGED effects
<1>1. CASE OperatorActs
  <2> DEFINE k == op.key
  <2>1. k \in Keys /\ op.outcome \in Reconciliation
    BY <1>1 DEF OperatorActs, IInv, TypeOK, Requests, Idle
  <2>2. UNCHANGED effects
    BY <1>1 DEF OperatorActs
  <2>3. ASSUME NEW s \in ExecutorCompletion, actions' = [actions EXCEPT ![k] = Recorded(actions[k], s)],
               Legal(actions[k].status, s)
        PROVE  RowMoves
    <3>1. actions[k] \in Row
      BY <2>1, <2>3, RowExists DEF IInv, TypeOK, Legal, ExecutorCompletion
    <3>2. Recorded(actions[k], s).status = s
      BY <3>1 DEF Recorded, Row
    <3>3. actions'[k] = Recorded(actions[k], s) /\ actions'[k] \in Row \cup {NoRow}
      BY <2>1, <2>3 DEF IInv, TypeOK
    <3>4. Recorded(actions[k], s) \in Row
      BY <3>2, <3>3 DEF NoRow, ExecutorCompletion
    <3>5. Legal(actions[k].status, Recorded(actions[k], s).status)
      BY <2>3, <3>2
    <3> QED
      BY <2>1, <2>2, <2>3, <3>4, <3>5 DEF RowMoves
  <2>4. CASE Current(Operator) /\ op.seen = "prepared" /\ CancelAllowed(actions[k])
    <3>1. actions' = [actions EXCEPT ![k] = Recorded(actions[k], "cancelled")]
      BY <1>1, <2>4 DEF OperatorActs, Cancelled
    <3> QED
      BY <2>3, <2>4, <3>1 DEF CancelAllowed, Legal, ExecutorCompletion
  <2>5. CASE Current(Operator) /\ op.seen = "unknown" /\ ReconcileAllowed(actions[k])
    <3>1. actions' = [actions EXCEPT ![k] = Recorded(actions[k], op.outcome)]
      BY <1>1, <2>5 DEF OperatorActs, Reconciled
    <3>2. op.outcome \in ExecutorCompletion /\ Legal(actions[k].status, op.outcome)
      BY <2>1, <2>5 DEF ReconcileAllowed, Legal, ExecutorCompletion, Reconciliation
    <3> QED
      BY <2>3, <3>1, <3>2
  <2>6. CASE /\ ~(Current(Operator) /\ op.seen = "prepared" /\ CancelAllowed(actions[k]))
             /\ ~(Current(Operator) /\ op.seen = "unknown" /\ ReconcileAllowed(actions[k]))
    <3>1. actions' = [actions EXCEPT ![k] = actions[k]]
      BY <1>1, <2>6 DEF OperatorActs
    <3> QED
      BY <2>2, <3>1 DEF IInv, TypeOK
  <2> QED
    BY <2>4, <2>5, <2>6
<1>2. CASE Boot
  BY <1>2 DEF Boot
<1>3. CASE \/ Fence \/ Reopen \/ GrantOrRevoke \/ Crash \/ UNCHANGED vars
           \/ \E k \in Keys, s \in Reconciliation : OperatorReads(k, s)
  BY <1>3 DEF Fence, Reopen, GrantOrRevoke, Crash, vars, OperatorReads
<1> QED
  BY <1>1, <1>2, <1>3, CallerMoves DEF Next

\* A recorded outcome is final; "unknown" changes only into a known outcome
\* (finish, cancel, reconcile_unknown and recover_interrupted).
THEOREM FinalOutcome == Spec => OutcomeIsFinal
<1>1. ASSUME IInv, IInv', [Next]_vars
      PROVE  KeepsOutcomes
  <2> SUFFICES ASSUME NEW k \in Keys
               PROVE  /\ actions[k].status \in Reconciliation => actions'[k] = actions[k]
                      /\ actions[k].status = "unknown" =>
                           actions'[k].status \in {"unknown"} \cup Reconciliation
    BY DEF KeepsOutcomes
  <2>1. CASE UNCHANGED <<actions, effects>> \/ FileReplaced
    BY <2>1 DEF FileReplaced
  <2>2. CASE RowMoves
    <3> PICK l \in Keys, r \in Row : /\ actions' = [actions EXCEPT ![l] = r]
                                     /\ Legal(actions[l].status, r.status)
      BY <2>2 DEF RowMoves
    <3>1. CASE l # k
      BY <3>1
    <3>2. CASE l = k
      <4>1. actions'[k] = r
        BY <1>1, <3>2 DEF IInv, TypeOK
      <4> QED
        BY <3>2, <4>1 DEF Legal, Reconciliation
    <3> QED
      BY <3>1, <3>2
  <2>3. CASE actions' = [l \in Keys |-> Recovered(actions[l])]
    BY <2>3 DEF Recovered, Reconciliation
  <2> QED
    BY <1>1, <2>1, <2>2, <2>3, StepMoves
<1> QED
  BY <1>1, Invariant, PTL DEF Spec, OutcomeIsFinal

\* The phases of the promise, one status at a time.
LEMMA PhaseOf ==
  /\ Phase("none") = "idle" /\ Phase("prepared") = "idle"
  /\ Phase("executing") = "attempt" /\ Phase("unknown") = "doubt"
  /\ \A s \in Reconciliation : Phase(s) = "settled"
  BY DEF Phase, Reconciliation

\* The ledger, its executors, its crashes and its operator implement the
\* at-most-once promise (AtMostOnce.tla).
THEOREM KeepsPromise == Spec => ImplementsAtMostOnce
<1> DEFINE phase == [k \in Keys |-> Phase(actions[k].status)]
<1>1. Init => Promise!AInit
  BY PhaseOf DEF Init, Promise!AInit, NoRow
<1>2. ASSUME IInv, IInv', [Next]_vars
      PROVE  [Promise!ANext]_(Promise!avars)
  <2>1. CASE UNCHANGED <<actions, effects>>
    BY <2>1 DEF Promise!avars
  <2>2. CASE FileReplaced
    <3> PICK k \in Keys : /\ actions[k].status = "executing" /\ effects[k] = 0
                          /\ effects' = [effects EXCEPT ![k] = 1]
                          /\ UNCHANGED actions
      BY <2>2 DEF FileReplaced
    <3>1. Promise!Effect(k)
      BY PhaseOf DEF Promise!Effect
    <3> QED
      BY <3>1 DEF Promise!ANext
  <2>3. CASE RowMoves
    <3> PICK k \in Keys, r \in Row : /\ actions' = [actions EXCEPT ![k] = r]
                                     /\ Legal(actions[k].status, r.status)
                                     /\ UNCHANGED effects
      BY <2>3 DEF RowMoves
    <3>1. phase' = [phase EXCEPT ![k] = Phase(r.status)]
      BY <1>2 DEF IInv, TypeOK
    <3>2. phase[k] = Phase(actions[k].status)
      OBVIOUS
    <3> HIDE DEF phase
    <3>3. CASE actions[k].status = "none" /\ r.status = "prepared"
      <4>1. phase' = phase
        BY <3>1, <3>2, <3>3, PhaseOf DEF phase
      <4> QED
        BY <4>1 DEF Promise!avars, phase
    <3>4. CASE actions[k].status = "prepared" /\ r.status = "executing"
      <4>1. Promise!Attempt(k)
        BY <3>1, <3>2, <3>4, PhaseOf DEF Promise!Attempt, phase
      <4> QED
        BY <4>1 DEF Promise!ANext
    <3>5. CASE r.status \in Reconciliation /\ actions[k].status \in {"prepared", "executing", "unknown"}
      <4>1. phase[k] \in {"idle", "attempt", "doubt"} /\ Phase(r.status) = "settled"
        BY <3>2, <3>5, PhaseOf
      <4>2. Promise!Settle(k)
        BY <3>1, <4>1 DEF Promise!Settle, phase
      <4> QED
        BY <4>2 DEF Promise!ANext
    <3>6. CASE r.status = "unknown" /\ actions[k].status = "executing"
      <4>1. phase' = [l \in Keys |-> IF l \in {k} THEN "doubt" ELSE phase[l]]
        BY <3>1, <3>6, PhaseOf DEF phase
      <4>2. Promise!Doubt({k})
        BY <3>2, <3>6, <4>1, PhaseOf DEF Promise!Doubt, phase
      <4> QED
        BY <4>2 DEF Promise!ANext
    <3> QED
      BY <3>3, <3>4, <3>5, <3>6 DEF Legal, Reconciliation, ExecutorCompletion
  <2>4. CASE actions' = [k \in Keys |-> Recovered(actions[k])] /\ UNCHANGED effects
    <3> DEFINE K == {k \in Keys : actions[k].status = "executing"}
    <3>1. \A k \in K : Recovered(actions[k]).status = "unknown"
      BY <1>2, RowExists DEF IInv, TypeOK, Recovered, Recorded, Row
    <3>2. \A k \in Keys : phase'[k] = IF k \in K THEN "doubt" ELSE phase[k]
      BY <2>4, <3>1, PhaseOf DEF Recovered
    <3>3. \A k \in K : phase[k] = "attempt"
      BY PhaseOf
    <3>4. Promise!Doubt(K)
      BY <2>4, <3>2, <3>3 DEF Promise!Doubt
    <3> QED
      BY <3>4 DEF Promise!ANext
  <2> QED
    BY <1>2, <2>1, <2>2, <2>3, <2>4, StepMoves
<1> QED
  BY <1>1, <1>2, Invariant, PTL DEF Spec, ImplementsAtMostOnce, Promise!ASpec
=============================================================================
