----------------------------- MODULE PoolLifecycle -----------------------------
(***************************************************************************)
(* The lazy agent pool of the harness: the state machine of                 *)
(* pool_lifecycle.rs and the variables of the main loop that go with it.    *)
(* A wake is one background task that starts the agents and sends           *)
(* (attempt, result) on wake_rx; the main loop takes the pool out of the    *)
(* lifecycle, so Ready is never seen between two iterations.                *)
(***************************************************************************)
EXTENDS Integers, Sequences, FiniteSets

\* What a wake task sends: its attempt, and whether the pool started.
Result == [attempt : Nat, ok : BOOLEAN]
Results == Seq(Result)

\* life, attempt and due are PoolLifecycle (due: now >= retry_at), ready is
\* pool_ready, task is what wake_tasks holds, results is wake_rx, and alive
\* counts the started pools nobody has shut down.
Pool == [life : {"listening", "waking", "failed"}, attempt : Nat, due : BOOLEAN,
         ready : BOOLEAN, task : {"none", "running", "finished", "panicked"},
         results : Results, alive : Nat]

Asleep == [life |-> "listening", attempt |-> 0, due |-> FALSE, ready |-> FALSE,
           task |-> "none", results |-> <<>>, alive |-> 0]

\* An eager configuration: initialize_agent_pool ran before the loop.
Started == [Asleep EXCEPT !.ready = TRUE, !.alive = 1]

\* Mutation of WakeDue: a wake in progress does not hold the next one back.
WakeDueAgain(p) == p.life # "failed" \/ p.due

\* Mutation of WakeDue: a failed wake is not tried again.
WakeDueOnce(p) == p.life = "listening"

\* start_wake_if_due
WakeDue(p) == p.life = "listening" \/ (p.life = "failed" /\ p.due)

StartWake(p) ==
    [p EXCEPT !.life = "waking", !.due = FALSE, !.task = "running",
              !.attempt = IF p.life = "listening" THEN 1 ELSE @ + 1]

\* complete_wake: the result of another attempt is dropped, and its pool with it.
IsCurrent(p, r) == p.life = "waking" /\ p.attempt = r.attempt

CompleteWake(p, r) ==
    IF r.ok THEN [p EXCEPT !.life = "listening", !.attempt = 0, !.ready = TRUE]
            ELSE [p EXCEPT !.life = "failed", !.due = FALSE]

\* The wake task returns: initialize_agent_pool shuts down what it started
\* when it fails.
WakeReturned(p, ok) ==
    [p EXCEPT !.task = "finished",
              !.results = Append(@, [attempt |-> p.attempt, ok |-> ok]),
              !.alive = IF ok THEN @ + 1 ELSE @]

\* Teardown of the idle pool.
PutToSleep(p) == [Asleep EXCEPT !.task = p.task, !.results = p.results, !.alive = p.alive - 1]

\* After the loop: the pools nobody took are shut down, then the pool itself.
Taken(p) == IF p.ready THEN 1 ELSE 0
Untaken(p) == Cardinality({k \in DOMAIN p.results : p.results[k].ok})

\* Mutation of ShutDown: wake_rx is not drained.
ShutDownUndrained(p) ==
    [p EXCEPT !.results = <<>>, !.ready = FALSE, !.task = "none", !.alive = @ - Taken(p)]

ShutDown(p) ==
    [p EXCEPT !.results = <<>>, !.ready = FALSE, !.task = "none",
              !.alive = @ - Untaken(p) - Taken(p)]

=============================================================================
