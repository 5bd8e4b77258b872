------------------------------ MODULE Lifecycle -----------------------------
(***************************************************************************)
(* The durable lifecycle state machine of src/noyra/core/lifecycle.py: the *)
(* table ALLOWED_TRANSITIONS that every transition is checked against, and *)
(* the recovery edge of recover_for_restart, which is not in the table.    *)
(* Each method is one BEGIN IMMEDIATE transaction on the row runtime_state.*)
(***************************************************************************)

AllowedTransitions ==
  [booting          |-> {"orienting", "active", "stopped"},
   orienting        |-> {"active", "stopped"},
   active           |-> {"paused", "winding_down", "stopped"},
   paused           |-> {"active", "stopped"},
   winding_down     |-> {"reflective_sleep", "stopped"},
   reflective_sleep |-> {"deep_sleep", "stopped"},
   deep_sleep       |-> {"waking", "stopped"},
   waking           |-> {"active", "stopped"},
   stopped          |-> {"booting", "resetting"},
   resetting        |-> {"booting", "stopped"}]

LifecycleStates == DOMAIN AllowedTransitions

SleepStates == {"winding_down", "reflective_sleep", "deep_sleep", "waking"}

CanMove(from, to) == to \in AllowedTransitions[from]

\* Mutant: a restart always boots afresh, asleep or not.
Restarted_Fresh(s) ==
  IF s = "paused" THEN s ELSE "booting"

\* recover_after_integrity: a stopped runtime boots, a paused one stays
\* paused, a sleeping one stays asleep, anything else boots again.
Restarted(s) ==
  IF s \in SleepStates \cup {"paused"} THEN s ELSE "booting"
=============================================================================
