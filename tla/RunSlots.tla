------------------------------ MODULE RunSlots ------------------------------
(***************************************************************************)
(* What AgentRunner promises its callers, with no event loop in it: every  *)
(* key is a slot that holds at most one run in progress.  A run is put     *)
(* into the slot of its key once, may be displaced by a newer one or taken *)
(* out by its own end, by a cancellation or by a shutdown, and never comes *)
(* back.                                                                   *)
(***************************************************************************)
CONSTANTS
  Keys,   \* the run keys (namespace, dialog origin and user)
  Tasks,  \* the runs
  NoTask  \* an empty slot, not a run

VARIABLES
  slot,   \* slot[k]: the run in progress under key k, or NoTask
  used    \* the runs that have been submitted so far

slotVars == <<slot, used>>

SlotsInit ==
  /\ slot = [k \in Keys |-> NoTask]
  /\ used = {}

\* A fresh run takes the slot of its key, whatever was there; the cancellation
\* of the run it displaces may take runs that one waits for out of theirs (K).
Occupy(k, t, K) ==
  /\ t \notin used
  /\ slot' = [j \in Keys |-> IF j = k THEN t ELSE IF j \in K THEN NoTask ELSE slot[j]]
  /\ used' = used \cup {t}

\* Runs leave their slots: one that ends, or all of them at a shutdown.
Vacate(K) ==
  /\ slot' = [k \in Keys |-> IF k \in K THEN NoTask ELSE slot[k]]
  /\ UNCHANGED used

SlotsNext ==
  \/ \E k \in Keys, t \in Tasks, K \in SUBSET Keys : Occupy(k, t, K)
  \/ \E K \in SUBSET Keys : Vacate(K)

SlotsSpec == SlotsInit /\ [][SlotsNext]_slotVars
=============================================================================
