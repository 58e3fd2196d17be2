------------------------------ MODULE SlotCircuit ------------------------------
(***************************************************************************)
(* The circuit breaker of one agent slot (SlotCircuit in                   *)
(* crates/buzz-acp/src/lib.rs).  Like EventQueue it is an object of the     *)
(* main loop, so its methods are operators.                                *)
(*                                                                         *)
(* crashes is the number of crash_times still inside the 60 s window; time  *)
(* lowers it.  circuit is open_until compared with now: "closed" when it    *)
(* is None, "open" while the cooldown runs, "elapsed" once it is over.      *)
(* respawn is the slot's background respawn task: "none", "running", or     *)
(* the result it left in respawn_rx, "ok" or "failed"; respawn_in_flight    *)
(* is respawn # "none", for the flag is cleared when the result is read.    *)
(***************************************************************************)
EXTENDS Integers

CONSTANT Threshold  \* CIRCUIT_BREAKER_THRESHOLD

ASSUME ThresholdAssumption == Threshold \in Nat \ {0}

Slot == [crashes : 0..Threshold, circuit : {"closed", "open", "elapsed"},
         respawn : {"none", "running", "ok", "failed"}]

FreshSlot == [crashes |-> 0, circuit |-> "closed", respawn |-> "none"]

RespawnInFlight(s) == s.respawn # "none"

\* Mutation of HalfOpen: open_until is not cleared.
HalfOpenUncleared(s) == [s EXCEPT !.crashes = Threshold - 1]

\* Half-open: the history is seeded so that the probe's crash re-opens it.
HalfOpen(s) == [s EXCEPT !.crashes = Threshold - 1, !.circuit = "closed"]

\* Mutation of RecordCrash: the threshold is never compared.
RecordCrashForever(s) == [s EXCEPT !.crashes = @ + 1, !.respawn = "running"]

\* record_crash followed by its callers' reaction: the slot respawns unless
\* the circuit is, or now becomes, open.
RecordCrash(s) ==
    CASE s.circuit = "elapsed" -> [HalfOpen(s) EXCEPT !.respawn = "running"]
      [] s.circuit = "open" -> s
      [] s.circuit = "closed" /\ s.crashes + 1 >= Threshold ->
           [s EXCEPT !.crashes = Threshold, !.circuit = "open"]
      [] OTHER -> [s EXCEPT !.crashes = @ + 1, !.respawn = "running"]

MarkSpawnFailed(s) == [s EXCEPT !.circuit = "open"]

\* Mutation of CanRefill: an elapsed cooldown does not count.
CanRefillClosed(s) == s.circuit = "closed"

CanRefill(s) == s.circuit # "open"

Refilled(s) ==
    [(IF s.circuit = "elapsed" THEN HalfOpen(s) ELSE s) EXCEPT !.respawn = "running"]

\* The main loop reads the result from respawn_rx.
Collected(s) ==
    IF s.respawn = "failed"
    THEN MarkSpawnFailed([s EXCEPT !.respawn = "none"])
    ELSE [s EXCEPT !.respawn = "none"]

=============================================================================
