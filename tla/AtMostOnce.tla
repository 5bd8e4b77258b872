----------------------------- MODULE AtMostOnce -----------------------------
(***************************************************************************)
(* What the action ledger promises about one idempotency key, whoever      *)
(* calls and however often the process dies: the action is attempted once, *)
(* its effect happens at most once and only during that attempt, and after *)
(* the attempt the recorded outcome settles once, possibly by way of       *)
(* "unknown".                                                              *)
(***************************************************************************)
EXTENDS Naturals

CONSTANT Keys

VARIABLES
  phase,    \* [Keys -> {"idle", "attempt", "doubt", "settled"}]
  effects   \* [Keys -> Nat]: how often the effect reached the world

avars == <<phase, effects>>

AInit ==
  /\ phase = [k \in Keys |-> "idle"]
  /\ effects = [k \in Keys |-> 0]

\* The single attempt starts.
Attempt(k) ==
  /\ phase[k] = "idle"
  /\ phase' = [phase EXCEPT ![k] = "attempt"]
  /\ UNCHANGED effects

\* The effect happens, once, during the attempt.
Effect(k) ==
  /\ phase[k] = "attempt"
  /\ effects[k] = 0
  /\ effects' = [effects EXCEPT ![k] = 1]
  /\ UNCHANGED phase

\* The attempt ends in a known outcome, or is given up before it started.
Settle(k) ==
  /\ phase[k] \in {"idle", "attempt", "doubt"}
  /\ phase' = [phase EXCEPT ![k] = "settled"]
  /\ UNCHANGED effects

\* The attempts of a set of keys end in doubt (a crash takes them together).
Doubt(K) ==
  /\ \A k \in K : phase[k] = "attempt"
  /\ phase' = [k \in Keys |-> IF k \in K THEN "doubt" ELSE phase[k]]
  /\ UNCHANGED effects

ANext ==
  \/ \E k \in Keys : Attempt(k) \/ Effect(k) \/ Settle(k)
  \/ \E K \in SUBSET Keys : Doubt(K)

ASpec == AInit /\ [][ANext]_avars
=============================================================================
