------------------------------ MODULE AgentHarness ------------------------------
(***************************************************************************)
(* The buzz-acp agent harness: the main loop of crates/buzz-acp/src/lib.rs, *)
(* the pool of agent subprocesses it hands batches to, the prompt tasks    *)
(* that run beside it, and the background respawns of crashed agents.      *)
(*                                                                         *)
(* The main loop owns the queue, the pool and the circuits.  Prompt tasks  *)
(* and respawns talk to it through channels only: a task leaves its result *)
(* in result_rx (phase "done") or dies (phase "panicked"), a steer leaves  *)
(* its ack, a respawn its result in respawn_rx.  One action is one arm of   *)
(* the loop's select!, one section of the loop's top, one turn of the      *)
(* dispatch_pending loop, or one step of a task, of a clock or of the       *)
(* outside world.                                                          *)
(***************************************************************************)
EXTENDS EventQueue, SlotCircuit

CONSTANTS Agents,         \* the slots of the pool
          Handling,       \* MultipleEventHandling of the configuration
          Shapes,         \* what an arriving event can look like
          Controls,       \* owner and observer commands that can arrive
          Timers,         \* whether some periodic select! arm is configured
          Heartbeats,     \* whether the heartbeat arm is configured
          Expiry,         \* whether a turn can outlive its in-flight deadline
          MaxEvents,      \* bound: events that arrive
          MaxFaults,      \* bound: failed turns and failed respawns
          MaxControls,    \* bound: commands that arrive
          MaxMemberships  \* bound: membership notifications that arrive

Signals == {"Steer", "Interrupt", "Cancel", "Rotate", "SwitchModel"}

\* Config::validate: every mode but Queue needs DedupMode::Queue.
ASSUME HarnessConstants ==
    /\ Handling \in {"Queue", "Steer", "Interrupt", "OwnerInterrupt"}
    /\ Handling # "Queue" => DedupMode = "Queue"
    /\ Shapes \subseteq [channel : Channels, created : Nat, scoped : BOOLEAN,
                         root : Roots, owner : BOOLEAN]
    /\ Controls \subseteq {"Cancel", "Rotate", "SwitchModel"}
    /\ {Timers, Heartbeats, Expiry} \subseteq BOOLEAN
    /\ {MaxEvents, MaxFaults, MaxControls, MaxMemberships} \subseteq Nat

VARIABLES queue,        \* the EventQueue
          idle,         \* slots whose agent is in the pool
          tasks,        \* task_map and the prompt task of each slot
          slots,        \* crash_history
          steers,       \* native steers whose ack the main loop has not read
          removed,      \* removed_channels
          heartbeat,    \* heartbeat_in_flight
          pc,           \* where the main loop is
          dispatching,  \* whether dispatch_pending's loop is running
          nextId,       \* arrival number of the next event
          budget,       \* what is left of the bounds
          fate          \* history: what became of every event

vars == <<queue, idle, tasks, slots, steers, removed, heartbeat, pc, dispatching,
          nextId, budget, fate>>

-----------------------------------------------------------------------------
(* Types *)

Outcomes == {"ok", "cancelled", "drain_timeout", "exited", "idle_timeout",
             "hard_quiet", "hard_active", "transport_error", "app_error", "denied"}

\* Outcomes after which the agent process is replaced.
Fatal == {"drain_timeout", "exited", "idle_timeout", "hard_quiet", "hard_active",
          "transport_error"}

\* One prompt task: its state, source, batch and thread; the control oneshot
\* ("armed" until a signal takes it, "none" for a heartbeat); the outcome and
\* the batch its PromptResult carries; the copy TaskMeta keeps for a panic.
Task == [phase : {"none", "running", "done", "panicked"},
         channel : Channels \cup {NoChannel},
         batch : Batch,
         root : Roots \cup {"none"},
         control : Signals \cup {"armed", "none"},
         outcome : Outcomes \cup {"none"},
         retry : Batch]

NoTask == [phase |-> "none", channel |-> NoChannel, batch |-> NoBatch,
           root |-> "none", control |-> "none", outcome |-> "none",
           retry |-> NoBatch]

\* A native steer: buffered in the capacity-1 channel, written to the agent,
\* or resolved as delivered, as to be merged by cancellation, or as neutral.
Resolved == {"success", "fallback", "neutral"}

SteerRecord == [event : Event, agent : Agents,
                state : Resolved \cup {"buffered", "written"}]

Fates == {"unseen", "live", "answered", "steered", "dropped", "notified"}

TypeOK ==
    /\ queue \in QueueState
    /\ idle \subseteq Agents
    /\ tasks \in [Agents -> Task]
    /\ slots \in [Agents -> Slot]
    /\ steers \subseteq SteerRecord
    /\ removed \subseteq Channels
    /\ heartbeat \in BOOLEAN
    /\ pc \in {"top", "collect", "select", "drain", "exited"}
    /\ dispatching \in BOOLEAN
    /\ nextId \in 1..(MaxEvents + 1)
    /\ budget \in [faults : 0..MaxFaults, controls : 0..MaxControls,
                   memberships : 0..MaxMemberships]
    /\ fate \in [1..MaxEvents -> Fates]

\* The pool starts with the agents that came up, at least one.
Init ==
    /\ queue = EmptyQueue
    /\ idle \in (SUBSET Agents) \ {{}}
    /\ tasks = [a \in Agents |-> NoTask]
    /\ slots = [a \in Agents |-> FreshSlot]
    /\ steers = {}
    /\ removed = {}
    /\ heartbeat = FALSE
    /\ pc = "top"
    /\ dispatching = FALSE
    /\ nextId = 1
    /\ budget = [faults |-> MaxFaults, controls |-> MaxControls,
                 memberships |-> MaxMemberships]
    /\ fate = [i \in 1..MaxEvents |-> "unseen"]

-----------------------------------------------------------------------------
(* Helpers *)

Ids(evs) == {e.id : e \in evs}

\* The history after the events of evs that are still live meet their end.
Settle(f, evs, end) ==
    [i \in DOMAIN f |-> IF i \in Ids(evs) /\ f[i] = "live" THEN end ELSE f[i]]

\* task_map entries, by channel and by conversation.
Busy == {a \in Agents : tasks[a].phase # "none"}

TasksOf(c) == {a \in Busy : tasks[a].channel = c}

\* Mutation of ConversationTasks: the thread is ignored.
ChannelTasks(c, root) == TasksOf(c)

ConversationTasks(c, root) == {a \in TasksOf(c) : tasks[a].root = root}

\* Mutation of AllDead: respawns under way are ignored.
AllDeadNow(i, t, s) == i = {} /\ \A a \in Agents : t[a].phase = "none"

\* live_count() = 0 and no respawn in flight.
AllDead(i, t, s) ==
    /\ i = {}
    /\ \A a \in Agents : t[a].phase = "none" /\ ~RespawnInFlight(s[a])

ResultReady == \E a \in Agents : tasks[a].phase = "done"

\* select! is biased: no arm below result_rx runs while a result is there.
AtSelect == pc = "select" /\ ~dispatching /\ ~ResultReady

\* control_tx.take(): only the first signal reaches the task.
TakeControl(a, signal) ==
    IF tasks[a].control = "armed" THEN [tasks EXCEPT ![a].control = signal] ELSE tasks

\* Signal one of the tasks ts, whichever the map yields first.
Signal(ts, signal) ==
    IF ts = {} THEN {tasks} ELSE {TakeControl(a, signal) : a \in ts}

-----------------------------------------------------------------------------
(* The top of the loop *)

\* Mutation of EmptySlots: checked-out agents are taken for dead.
SlotsWithoutIdleAgent == Agents \ idle

\* ~slot_alive: no agent in the pool and none checked out.
EmptySlots == {a \in Agents : a \notin idle /\ tasks[a].phase = "none"}

\* Maintenance, when its interval has elapsed: compaction, refill of empty
\* slots, and a dispatch if anything can be flushed.
Maintain ==
    /\ pc = "top" /\ ~dispatching
    /\ pc' = "collect"
    /\ LET compact == CompactExpiredState(queue)
       IN  /\ queue' = ExpireInFlight(compact)
           /\ fate' = Settle(fate, ExpiryEvicts(compact), "dropped")
           /\ dispatching' = HasFlushableWork(compact)
    /\ slots' = [a \in Agents |->
                    IF a \in EmptySlots /\ ~RespawnInFlight(slots[a]) /\ CanRefill(slots[a])
                    THEN Refilled(slots[a]) ELSE slots[a]]
    /\ UNCHANGED <<idle, tasks, steers, removed, heartbeat, nextId, budget>>

\* The results of finished respawns are read; maintenance was either done or
\* not due.  A collected agent triggers a dispatch.
Collect ==
    /\ pc \in {"top", "collect"} /\ ~dispatching
    /\ pc' = "select"
    /\ LET back == {a \in Agents : slots[a].respawn = "ok"}
           ended == {a \in Agents : slots[a].respawn \in {"ok", "failed"}}
       IN  /\ idle' = idle \cup back
           /\ slots' = [a \in Agents |->
                           IF a \in ended THEN Collected(slots[a]) ELSE slots[a]]
           /\ dispatching' = (back # {})
    /\ UNCHANGED <<queue, tasks, steers, removed, heartbeat, nextId, budget, fate>>

-----------------------------------------------------------------------------
(* dispatch_pending: one turn of its loop *)

DispatchNothing ==
    /\ dispatching
    /\ \E out \in FlushNext(queue) :
          /\ out.batch = NoBatch
          /\ queue' = out.queue
    /\ fate' = Settle(fate, ExpiryEvicts(queue), "dropped")
    /\ dispatching' = FALSE
    /\ UNCHANGED <<idle, tasks, slots, steers, removed, heartbeat, pc, nextId, budget>>

\* try_claim prefers an agent with a session of the channel; sessions are not
\* modelled, so any idle agent may be claimed.
DispatchBatch ==
    /\ dispatching
    /\ \E out \in FlushNext(queue), a \in idle :
          /\ out.batch # NoBatch
          /\ queue' = out.queue
          /\ idle' = idle \ {a}
          /\ tasks' = [tasks EXCEPT ![a] =
                [phase |-> "running", channel |-> out.batch.channel,
                 batch |-> out.batch,
                 root |-> out.batch.events[Len(out.batch.events)].root,
                 control |-> "armed", outcome |-> "none", retry |-> NoBatch]]
    /\ fate' = Settle(fate, ExpiryEvicts(queue), "dropped")
    /\ UNCHANGED <<slots, steers, removed, heartbeat, pc, dispatching, nextId, budget>>

\* pool_exhausted: the batch goes back and the loop ends.
DispatchExhausted ==
    /\ dispatching
    /\ idle = {}
    /\ \E out \in FlushNext(queue) :
          /\ out.batch # NoBatch
          /\ queue' = MarkComplete(RequeuePreserveTimestamps(out.queue, out.batch),
                                   out.batch.channel)
          /\ fate' = Settle(fate, ExpiryEvicts(queue) \cup
                       Overflow(out.queue.queues[out.batch.channel], out.batch.events),
                       "dropped")
    /\ dispatching' = FALSE
    /\ UNCHANGED <<idle, tasks, slots, steers, removed, heartbeat, pc, nextId, budget>>

-----------------------------------------------------------------------------
(* Select arms: results, panics, steer acks *)

\* What handle_prompt_result does with the batch a result carries: the queue
\* and the history it leaves.
AfterRequeue(b) ==
    [queue |-> Requeue(queue, b),
     fate |-> IF Exhausted(queue, b) THEN Settle(fate, BatchItems(b), "notified")
              ELSE Settle(fate, Overflow(queue.queues[b.channel], b.events), "dropped")]

AfterResult(t) ==
    CASE t.retry = NoBatch ->
           [queue |-> queue,
            fate |-> Settle(fate, BatchItems(t.batch),
                            IF t.outcome = "ok" THEN "answered" ELSE "dropped")]
      [] t.retry # NoBatch /\ t.channel \in removed ->
           [queue |-> queue, fate |-> Settle(fate, BatchItems(t.retry), "dropped")]
      [] t.retry # NoBatch /\ t.channel \notin removed
         /\ t.outcome \in {"cancelled", "drain_timeout"} ->
           [queue |-> RequeueAsCancelled(queue, t.retry,
                        IF t.retry.reason = "none" THEN "Steer" ELSE t.retry.reason),
            fate |-> fate]
      [] t.retry # NoBatch /\ t.channel \notin removed
         /\ t.outcome \in {"hard_quiet", "denied"} ->
           [queue |-> queue, fate |-> Settle(fate, BatchItems(t.retry), "notified")]
      [] OTHER -> AfterRequeue(t.retry)

\* Mutation of HeartbeatAfter: the flag stays set.
HeartbeatKept(t) == heartbeat

\* A turn without a channel was the heartbeat: its end clears the flag.
HeartbeatAfter(t) == heartbeat /\ t.channel # NoChannel

HandlePromptResult(a) ==
    LET t == tasks[a]
        after == AfterResult(t)
    IN  /\ pc = "select" /\ ~dispatching
        /\ t.phase = "done"
        /\ queue' = IF t.channel = NoChannel THEN after.queue
                    ELSE MarkComplete(after.queue, t.channel)
        /\ fate' = after.fate
        /\ heartbeat' = HeartbeatAfter(t)
        /\ tasks' = [tasks EXCEPT ![a] = NoTask]
        /\ IF t.outcome \in Fatal
           THEN /\ slots' = [slots EXCEPT ![a] = RecordCrash(@)]
                /\ UNCHANGED idle
                /\ pc' = IF AllDead(idle, tasks', slots') THEN "exited" ELSE "drain"
           ELSE /\ idle' = idle \cup {a}
                /\ UNCHANGED slots
                /\ pc' = "drain"
        /\ UNCHANGED <<steers, removed, dispatching, nextId, budget>>

\* recover_panicked_agent, from the panic arm or from the drain of ready join
\* results that follows every result.
Recoverable(t) ==
    /\ t.channel # NoChannel
    /\ t.channel \notin removed
    /\ DedupMode = "Queue" \/ HasScoped(t.batch.events)

AfterPanic(t) ==
    IF Recoverable(t)
    THEN [AfterRequeue(t.batch) EXCEPT
             !.fate = IF Exhausted(queue, t.batch)
                      THEN Settle(fate, BatchItems(t.batch), "dropped") ELSE @]
    ELSE [queue |-> queue, fate |-> Settle(fate, BatchItems(t.batch), "dropped")]

RecoverPanicked(a) ==
    LET t == tasks[a]
        after == AfterPanic(t)
    IN  /\ pc = "drain" \/ AtSelect
        /\ t.phase = "panicked"
        /\ queue' = IF t.channel = NoChannel THEN after.queue
                    ELSE MarkComplete(after.queue, t.channel)
        /\ fate' = after.fate
        /\ heartbeat' = HeartbeatAfter(t)
        /\ tasks' = [tasks EXCEPT ![a] = NoTask]
        /\ slots' = [slots EXCEPT ![a] = RecordCrash(@)]
        /\ IF AllDead(idle, tasks', slots')
           THEN pc' = "exited" /\ UNCHANGED dispatching
           ELSE IF pc = "drain"
                THEN UNCHANGED <<pc, dispatching>>
                ELSE pc' = "top" /\ dispatching' = TRUE
        /\ UNCHANGED <<idle, steers, removed, nextId, budget>>

\* No join result is ready any more: the result arm dispatches.
DrainDone ==
    /\ pc = "drain"
    /\ \A a \in Agents : tasks[a].phase # "panicked"
    /\ pc' = "top"
    /\ dispatching' = TRUE
    /\ UNCHANGED <<queue, idle, tasks, slots, steers, removed, heartbeat, nextId,
                   budget, fate>>

\* The steer ack arm: a delivered event is removed; any other is released,
\* and where the steer never landed its conversation's turn is cancelled.
HandleSteerAck(s) ==
    LET e == s.event IN
    /\ AtSelect
    /\ s.state \in Resolved
    /\ steers' = steers \ {s}
    /\ IF s.state = "success"
       THEN /\ queue' = RemoveEvent(ExtendDeadline(queue, e.channel), e)
            /\ fate' = Settle(fate, {e}, "steered")
       ELSE /\ queue' = ReleaseNativeSteer(queue, e)
            /\ fate' = Settle(fate, ReleaseEvicts(queue, e), "dropped")
    /\ IF s.state = "fallback"
       THEN tasks' \in Signal(ConversationTasks(e.channel, e.root), "Steer")
       ELSE UNCHANGED tasks
    /\ pc' = "top"
    /\ dispatching' = TRUE
    /\ UNCHANGED <<idle, slots, removed, heartbeat, nextId, budget>>

\* A completion check granted the turn a fresh budget.
HandleExtendDeadline(c) ==
    /\ AtSelect
    /\ queue.deadlines[c] = "passed"
    /\ TasksOf(c) # {}
    /\ queue' = ExtendDeadline(queue, c)
    /\ pc' = "top"
    /\ UNCHANGED <<idle, tasks, slots, steers, removed, heartbeat, dispatching,
                   nextId, budget, fate>>

-----------------------------------------------------------------------------
(* Select arms: what the relay delivers *)

\* mode_gate_signal
ModeGateSignal(e) ==
    CASE Handling = "Queue" -> "none"
      [] Handling = "Steer" -> "Steer"
      [] Handling = "Interrupt" -> "Interrupt"
      [] OTHER -> IF e.owner THEN "Interrupt" ELSE "none"

\* An accepted event disturbs the turn in flight only if neither of them is a
\* scoped request (a running batch is known through TaskMeta's copy).
MidTurn(q, e) ==
    /\ e.channel \in q.inFlight
    /\ ~e.scoped
    /\ \A a \in TasksOf(e.channel) : ~HasScoped(tasks[a].batch.events)
    /\ ModeGateSignal(e) # "none"

\* send_steer succeeds: the channel of a running task has a free place.
CanBuffer(a) ==
    /\ tasks[a].phase = "running"
    /\ \A s \in steers : s.agent = a => s.state # "buffered"

\* try_native_steer, then the cancelling fallback, for a Steer whose
\* conversation matches the turn in flight.
NativeSteer(q, e) ==
    \E a \in ConversationTasks(e.channel, e.root) :
        /\ CanBuffer(a)
        /\ queue' = MarkNativeSteerPending(q, e)
        /\ steers' = steers \cup {[event |-> e, agent |-> a, state |-> "buffered"]}
        /\ UNCHANGED tasks

LeaveOrSignal(q, e) ==
    /\ queue' = q
    /\ UNCHANGED steers
    /\ IF MidTurn(q, e) /\ TasksOf(e.channel) # {}
       THEN \E a \in TasksOf(e.channel) :
               tasks' = IF ModeGateSignal(e) = "Steer" /\ tasks[a].root # e.root
                        THEN tasks ELSE TakeControl(a, ModeGateSignal(e))
       ELSE UNCHANGED tasks

Arrival(shape) ==
    [id |-> nextId, channel |-> shape.channel, created |-> shape.created,
     scoped |-> shape.scoped, root |-> shape.root, owner |-> shape.owner]

\* An event that passed the author gate and the subscription rules.
RelayEvent(shape) ==
    LET e == Arrival(shape)
        q == Push(queue, e)
    IN  /\ AtSelect
        /\ nextId <= MaxEvents
        /\ nextId' = nextId + 1
        /\ IF Accepts(queue, e)
           THEN /\ fate' = [Settle(fate, PushEvicts(queue, e), "dropped")
                               EXCEPT ![nextId] = "live"]
                /\ \/ MidTurn(q, e) /\ ModeGateSignal(e) = "Steer" /\ NativeSteer(q, e)
                   \/ LeaveOrSignal(q, e)
           ELSE /\ fate' = [fate EXCEPT ![nextId] = "dropped"]
                /\ UNCHANGED <<queue, steers, tasks>>
        /\ pc' = "top"
        /\ dispatching' = TRUE
        /\ UNCHANGED <<idle, slots, removed, heartbeat, budget>>

\* !cancel, !rotate and the observer's cancel_turn and switch_model frames.
ControlCommand(c, signal) ==
    /\ AtSelect
    /\ budget.controls > 0
    /\ budget' = [budget EXCEPT !.controls = @ - 1]
    /\ tasks' \in Signal(TasksOf(c), signal)
    /\ pc' = "top"
    /\ UNCHANGED <<queue, idle, slots, steers, removed, heartbeat, dispatching,
                   nextId, fate>>

MemberRemoved(c) ==
    /\ AtSelect
    /\ c \notin removed
    /\ budget.memberships > 0
    /\ budget' = [budget EXCEPT !.memberships = @ - 1]
    /\ queue' = DrainChannel(queue, c)
    /\ fate' = Settle(fate, Items(queue.queues[c]) \cup Items(queue.cancelled[c])
                              \cup Items(queue.withheld[c]), "dropped")
    /\ removed' = removed \cup {c}
    /\ pc' = "top"
    /\ UNCHANGED <<idle, tasks, slots, steers, heartbeat, dispatching, nextId>>

MemberAdded(c) ==
    /\ AtSelect
    /\ c \in removed
    /\ budget.memberships > 0
    /\ budget' = [budget EXCEPT !.memberships = @ - 1]
    /\ removed' = removed \ {c}
    /\ pc' = "top"
    /\ UNCHANGED <<queue, idle, tasks, slots, steers, heartbeat, dispatching,
                   nextId, fate>>

-----------------------------------------------------------------------------
(* Select arms: timers *)

\* Presence, typing and reaper ticks: they only take the loop to its top.
TimerTick ==
    /\ Timers
    /\ AtSelect
    /\ pc' = "top"
    /\ UNCHANGED <<queue, idle, tasks, slots, steers, removed, heartbeat, dispatching,
                   nextId, budget, fate>>

\* The heartbeat yields to flushable work, and runs once at a time.
HeartbeatTick ==
    /\ Heartbeats
    /\ AtSelect
    /\ pc' = "top"
    /\ queue' = ExpireInFlight(queue)
    /\ fate' = Settle(fate, ExpiryEvicts(queue), "dropped")
    /\ dispatching' = HasFlushableWork(queue)
    /\ \/ /\ ~HasFlushableWork(queue) /\ ~heartbeat
          /\ \E a \in idle :
                /\ idle' = idle \ {a}
                /\ tasks' = [tasks EXCEPT ![a] = [NoTask EXCEPT !.phase = "running"]]
          /\ heartbeat' = TRUE
       \/ /\ HasFlushableWork(queue) \/ heartbeat \/ idle = {}
          /\ UNCHANGED <<idle, tasks, heartbeat>>
    /\ UNCHANGED <<slots, steers, removed, nextId, budget>>

-----------------------------------------------------------------------------
(* Prompt tasks *)

\* requeue_batch_if_queue
BatchIfQueue(b) == IF DedupMode = "Queue" THEN b ELSE NoBatch

\* requeue_cancelled_batch
CancelledBatch(b, signal) ==
    CASE signal \in {"Cancel", "Rotate"} -> NoBatch
      [] DedupMode = "Drop" -> NoBatch
      [] OTHER -> [b EXCEPT !.reason = IF signal = "Steer" THEN "Steer" ELSE "Interrupt"]

\* The batches a PromptResult with this outcome can carry: the control arm
\* decides it only if a signal reached a prompt that was still in flight.
RetryBatches(t, outcome) ==
    LET signalled == t.control \in Signals
        plain == IF t.channel = NoChannel THEN NoBatch ELSE BatchIfQueue(t.batch)
        cut == CancelledBatch(t.batch, t.control)
    IN  CASE outcome = "ok" -> {NoBatch}
          [] outcome \in {"cancelled", "drain_timeout"} -> IF signalled THEN {cut} ELSE {}
          [] outcome \in {"hard_quiet", "hard_active"} -> {plain}
          [] OTHER -> {plain} \cup (IF signalled THEN {cut} ELSE {})

\* Steers a task leaves unresolved when it ends are neutral: the read loop
\* drains the pending one, and the buffered one is dropped with its receiver.
SteersAfter(a) ==
    {IF s.agent = a /\ s.state \notin Resolved THEN [s EXCEPT !.state = "neutral"] ELSE s :
        s \in steers}

TaskFinishes(a, outcome) ==
    /\ tasks[a].phase = "running"
    /\ outcome \notin {"ok", "cancelled"} => budget.faults > 0
    /\ budget' = [budget EXCEPT
                     !.faults = IF outcome \in {"ok", "cancelled"} THEN @ ELSE @ - 1]
    /\ \E b \in RetryBatches(tasks[a], outcome) :
          tasks' = [tasks EXCEPT ![a].phase = "done", ![a].outcome = outcome,
                                 ![a].retry = b]
    /\ steers' = SteersAfter(a)
    /\ UNCHANGED <<queue, idle, slots, removed, heartbeat, pc, dispatching, nextId,
                   fate>>

TaskPanics(a) ==
    /\ tasks[a].phase = "running"
    /\ budget.faults > 0
    /\ budget' = [budget EXCEPT !.faults = @ - 1]
    /\ tasks' = [tasks EXCEPT ![a].phase = "panicked"]
    /\ steers' = SteersAfter(a)
    /\ UNCHANGED <<queue, idle, slots, removed, heartbeat, pc, dispatching, nextId,
                   fate>>

\* The read loop takes a buffered steer when none is written: it writes it, or
\* has no transport for it.  A written steer is answered.
SteerStep(s, state) ==
    /\ tasks[s.agent].phase = "running"
    /\ \/ /\ s.state = "buffered"
          /\ \A r \in steers : r.agent = s.agent => r.state # "written"
          /\ state \in {"written", "fallback"}
       \/ /\ s.state = "written"
          /\ state \in Resolved
    /\ steers' = (steers \ {s}) \cup {[s EXCEPT !.state = state]}
    /\ UNCHANGED <<queue, idle, tasks, slots, removed, heartbeat, pc, dispatching,
                   nextId, budget, fate>>

-----------------------------------------------------------------------------
(* Respawns and clocks *)

RespawnEnds(a, result) ==
    /\ slots[a].respawn = "running"
    /\ result = "failed" => budget.faults > 0
    /\ budget' = [budget EXCEPT !.faults = IF result = "failed" THEN @ - 1 ELSE @]
    /\ slots' = [slots EXCEPT ![a].respawn = result]
    /\ UNCHANGED <<queue, idle, tasks, steers, removed, heartbeat, pc, dispatching,
                   nextId, fate>>

RetryAfterPasses(c) ==
    /\ queue.retryAfter[c] = "active"
    /\ queue' = [queue EXCEPT !.retryAfter[c] = "passed"]
    /\ UNCHANGED <<idle, tasks, slots, steers, removed, heartbeat, pc, dispatching,
                   nextId, budget, fate>>

DeadlinePasses(c) ==
    /\ Expiry
    /\ queue.deadlines[c] = "active"
    /\ queue' = [queue EXCEPT !.deadlines[c] = "passed"]
    /\ UNCHANGED <<idle, tasks, slots, steers, removed, heartbeat, pc, dispatching,
                   nextId, budget, fate>>

\* The cooldown ends, or the oldest crashes leave the window.
CircuitAges(a) ==
    /\ \/ /\ slots[a].circuit = "open"
          /\ slots' = [slots EXCEPT ![a].circuit = "elapsed"]
       \/ /\ slots[a].circuit = "closed" /\ slots[a].crashes > 0
          /\ slots' = [slots EXCEPT ![a].crashes = @ - 1]
    /\ UNCHANGED <<queue, idle, tasks, steers, removed, heartbeat, pc, dispatching,
                   nextId, budget, fate>>

-----------------------------------------------------------------------------

Exited == pc = "exited" /\ UNCHANGED vars

LoopStep ==
    \/ Maintain
    \/ Collect
    \/ DispatchNothing
    \/ DispatchBatch
    \/ DispatchExhausted
    \/ DrainDone
    \/ \E a \in Agents : HandlePromptResult(a) \/ RecoverPanicked(a)
    \/ \E s \in steers : HandleSteerAck(s)
    \/ \E c \in Channels : HandleExtendDeadline(c)
    \/ \E shape \in Shapes : RelayEvent(shape)
    \/ \E c \in Channels, signal \in Controls : ControlCommand(c, signal)
    \/ \E c \in Channels : MemberRemoved(c) \/ MemberAdded(c)
    \/ TimerTick
    \/ HeartbeatTick

OtherStep ==
    \/ \E a \in Agents, outcome \in Outcomes : TaskFinishes(a, outcome)
    \/ \E a \in Agents : TaskPanics(a) \/ CircuitAges(a)
    \/ \E a \in Agents, result \in {"ok", "failed"} : RespawnEnds(a, result)
    \/ \E s \in steers, state \in Resolved \cup {"written"} : SteerStep(s, state)
    \/ \E c \in Channels : RetryAfterPasses(c) \/ DeadlinePasses(c)

Next ==
    \/ LoopStep
    \/ pc # "exited" /\ OtherStep
    \/ Exited

Spec == Init /\ [][Next]_vars

\* Tokio runs every ready task; biased select! polls results, panics and acks
\* before any timer, so a waiting one is read; clocks advance; a turn ends,
\* for the read loop bounds it; a respawn ends.  Nothing is assumed of the
\* relay, the owner or the failures.
Fairness ==
    /\ WF_vars(DispatchNothing) /\ WF_vars(DispatchBatch) /\ WF_vars(DispatchExhausted)
    /\ WF_vars(Collect) /\ WF_vars(DrainDone) /\ SF_vars(Maintain)
    /\ WF_vars(TimerTick)
    /\ \A a \in Agents :
          /\ SF_vars(HandlePromptResult(a)) /\ SF_vars(RecoverPanicked(a))
          /\ WF_vars(TaskFinishes(a, "ok")) /\ WF_vars(RespawnEnds(a, "ok"))
          /\ WF_vars(slots[a].circuit = "open" /\ CircuitAges(a))
    /\ SF_vars(\E s \in steers : HandleSteerAck(s))
    /\ \A c \in Channels : WF_vars(RetryAfterPasses(c))

FairSpec == Spec /\ Fairness

-----------------------------------------------------------------------------
(* Properties *)

\* Every event the harness still answers for, wherever it waits.
QueueItems(c) ==
    Items(queue.queues[c]) \cup Items(queue.cancelled[c]) \cup Items(queue.withheld[c])

TaskItems(a) == BatchItems(tasks[a].batch)

Held == (UNION {QueueItems(c) : c \in Channels}) \cup (UNION {TaskItems(a) : a \in Agents})

\* A channel is in flight exactly while it has a deadline: an in-flight entry
\* without one could never be expired and would block its channel for ever
\* (the comment of drain_channel).
InFlightHasDeadline ==
    \A c \in Channels : c \in queue.inFlight <=> queue.deadlines[c] # "none"

\* No channel's queue outgrows MAX_PENDING_PER_CHANNEL, whatever mix of pushes,
\* requeues, releases and recoveries fills it.
QueueCapped == \A c \in Channels : Len(queue.queues[c]) <= MaxPending

\* The retry counter never passes MAX_RETRIES, and a running throttle always
\* belongs to a counted attempt: requeue and mark_complete agree on which
\* channels are backing off.
BackoffCounted ==
    \A c \in Channels : /\ queue.retryCounts[c] <= MaxRetries
                        /\ queue.retryAfter[c] = "active" => queue.retryCounts[c] > 0

\* While no deadline expires, the channels marked in flight are exactly those
\* with a task, one task each: no channel is prompted twice at once, none is
\* released early by another turn's mark_complete, none stays wedged.
OneTurnPerChannel ==
    /\ \A c \in Channels : c \in queue.inFlight <=> TasksOf(c) # {}
    /\ \A a, b \in Busy : tasks[a].channel = tasks[b].channel => a = b

\* An event waits in one place only: it is never queued twice, nor queued
\* while withheld for a steer, kept as cancelled or held by a turn.
OnePlace ==
    /\ \A c \in Channels : \A s \in {queue.queues[c], queue.cancelled[c], queue.withheld[c]} :
          \A i, j \in DOMAIN s : s[i].id = s[j].id => i = j
    /\ \A c \in Channels :
          /\ Items(queue.queues[c]) \cap Items(queue.cancelled[c]) = {}
          /\ Items(queue.queues[c]) \cap Items(queue.withheld[c]) = {}
          /\ Items(queue.cancelled[c]) \cap Items(queue.withheld[c]) = {}
          /\ \A a \in Agents : QueueItems(c) \cap TaskItems(a) = {}
    /\ \A a, b \in Agents : a # b => TaskItems(a) \cap TaskItems(b) = {}

\* A scoped request is prompted alone: never batched with another event and
\* never merged with a cancelled turn, however it comes back.
ScopedAlone ==
    \A a \in Busy : HasScoped(tasks[a].batch.events \o tasks[a].batch.cancelled) =>
        Len(tasks[a].batch.events) = 1 /\ tasks[a].batch.cancelled = <<>>

\* A withheld event always has a steer whose ack is still to be read, so
\* something will release it: the side table leaks nothing.
WithheldHasSteer ==
    \A c \in Channels : \A e \in Items(queue.withheld[c]) :
        \E s \in steers : s.event = e

\* An event delivered by a native steer is not delivered again: from the ack
\* on, no queue and no turn holds it.
SteeredOnce == \A e \in Held : fate[e.id] # "steered"

\* No event disappears: one that has not met a recorded end is still held.
NoSilentLoss ==
    \A i \in 1..MaxEvents : fate[i] = "live" => i \in Ids(Held)

\* The last event of a prompted batch is the newest one: format_prompt takes
\* its scope and its reply anchor from the last event.
NewestLast ==
    \A a \in Busy : \A i \in DOMAIN tasks[a].batch.events :
        tasks[a].batch.events[i].created <=
            tasks[a].batch.events[Len(tasks[a].batch.events)].created

\* A slot is never filled twice: while a respawn is in flight the slot holds
\* no agent and runs no task (the "BUG" branch of return_agent), and an idle
\* agent is never also checked out.
SlotOwnedOnce ==
    \A a \in Agents :
        /\ RespawnInFlight(slots[a]) => a \notin idle /\ a \notin Busy
        /\ ~(a \in idle /\ a \in Busy)

\* A slot with an agent, or with one on its way, has a closed circuit: a crash
\* is always counted, and a half-open probe was seeded before it started.
LiveSlotClosed ==
    \A a \in Agents : a \in idle \cup Busy \/ RespawnInFlight(slots[a]) =>
        slots[a].circuit = "closed"

\* heartbeat_in_flight is set exactly while a channel-less task is there, and
\* there is at most one.
HeartbeatExact ==
    /\ heartbeat <=> TasksOf(NoChannel) # {}
    /\ \A a, b \in TasksOf(NoChannel) : a = b

\* A steer only cancels the turn of its own conversation: the step that sends
\* Steer to a task leaves an event of that task's thread in its channel's queue.
SteerOwnConversation ==
    [][\A a \in Agents :
          tasks[a].control = "armed" /\ tasks'[a].control = "Steer" =>
              \E e \in Items(queue'.queues[tasks[a].channel]) : e.root = tasks[a].root]_vars

\* The harness only gives up when no agent is left and none is coming: the
\* step to "exited" leaves every slot empty, with no respawn under way.
ExitOnlyWhenDead ==
    [][pc' = "exited" /\ pc # "exited" =>
          idle' = {} /\ \A a \in Agents : /\ tasks'[a].phase = "none"
                                        /\ slots'[a].respawn = "none"]_vars

\* Nothing stays in the harness for ever: an event that waits in a queue, in
\* the side table of a steer, as cancelled or in a turn leaves, unless the
\* harness exits.
HeldLeaves ==
    \A i \in 1..MaxEvents : i \in Ids(Held) ~> (i \notin Ids(Held) \/ pc = "exited")

\* A crashed slot comes back, unless the harness exits.
SlotsRecover ==
    \A a \in Agents : a \notin idle \cup Busy ~> (a \in idle \cup Busy \/ pc = "exited")

=============================================================================
