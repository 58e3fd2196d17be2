-------------------------------- MODULE PoolProofs --------------------------------
(***************************************************************************)
(* The pool of agents and its turns, proved for every number of agents and *)
(* channels: slots, circuits and the heartbeat flag (PoolInv), and one turn *)
(* per channel (TurnInv).                                                  *)
(***************************************************************************)
EXTENDS AgentHarnessProofs

-----------------------------------------------------------------------------
(* Slots, circuits and the heartbeat *)

PoolInv == SlotOwnedOnce /\ LiveSlotClosed /\ HeartbeatExact

\* The parts of the pool's invariant, slot by slot: the slot is consistent when
\* its agent is idle (i), has a task in this phase (p), and its circuit is s.
SlotFine(i, p, s) ==
    /\ s.respawn # "none" => ~i /\ p = "none"
    /\ ~(i /\ p # "none")
    /\ i \/ p # "none" \/ s.respawn # "none" => s.circuit = "closed"

\* The slot part of PoolInv is SlotFine for every slot.
LEMMA SlotsFine ==
    SlotOwnedOnce /\ LiveSlotClosed <=>
        \A a \in Agents : SlotFine(a \in idle, tasks[a].phase, slots[a])
BY DEF SlotOwnedOnce, LiveSlotClosed, SlotFine, Busy, RespawnInFlight

\* The same after a step.
LEMMA SlotsFineNext ==
    (SlotOwnedOnce /\ LiveSlotClosed)' <=>
        \A a \in Agents : SlotFine(a \in idle', tasks'[a].phase, slots'[a])
BY DEF SlotOwnedOnce, LiveSlotClosed, SlotFine, Busy, RespawnInFlight

\* A task map that differs in neither phases nor channels.
SameTurns(u) ==
    \A a \in Agents : u[a].phase = tasks[a].phase /\ u[a].channel = tasks[a].channel

\* A signal changes nothing but a control channel.
LEMMA SignalSameTurns ==
    ASSUME HarnessInv, NEW ts \in SUBSET Agents, NEW signal, NEW u \in Signal(ts, signal)
    PROVE  SameTurns(u)
<1>1. u = tasks \/ \E a \in ts : u = TakeControl(a, signal)
  BY DEF Signal
<1>2. ASSUME NEW a \in Agents PROVE SameTurns(TakeControl(a, signal))
  BY DEF TakeControl, SameTurns, HarnessInv, Task
<1> QED
  BY <1>1, <1>2 DEF SameTurns

\* Steps that move no agent, start or end no turn and touch no circuit.
LEMMA QuietStep ==
    ASSUME PoolInv, SameTurns(tasks'), UNCHANGED <<idle, slots, heartbeat>>
    PROVE  PoolInv'
BY DEF PoolInv, SameTurns, SlotOwnedOnce, LiveSlotClosed, HeartbeatExact, Busy, TasksOf,
       RespawnInFlight

\* Relay events, steer acks and commands disturb the pool in no way.
LEMMA ArmsSameTurns ==
    ASSUME HarnessInv,
           \/ \E s \in steers : HandleSteerAck(s)
           \/ \E shape \in Shapes : RelayEvent(shape)
           \/ \E c \in Channels, signal \in Controls : ControlCommand(c, signal)
    PROVE  SameTurns(tasks') /\ UNCHANGED <<idle, slots, heartbeat>>
<1>1. \A c, root : TasksOf(c) \in SUBSET Agents /\ ConversationTasks(c, root) \in SUBSET Agents
  BY DEF TasksOf, ConversationTasks, Busy
<1>2. CASE \E s \in steers : HandleSteerAck(s)
  <2>1. PICK s \in steers : HandleSteerAck(s)
    BY <1>2
  <2>2. \/ tasks' = tasks
        \/ tasks' \in Signal(ConversationTasks(s.event.channel, s.event.root), "Steer")
    BY <2>1 DEF HandleSteerAck
  <2>3. SameTurns(tasks')
    BY <1>1, <2>2, SignalSameTurns DEF SameTurns
  <2> QED
    BY <2>1, <2>3 DEF HandleSteerAck
<1>3. CASE \E shape \in Shapes : RelayEvent(shape)
  <2>1. PICK shape \in Shapes : RelayEvent(shape)
    BY <1>3
  <2> DEFINE e == Arrival(shape)
             m == ModeGateSignal(e)
  <2>2. tasks' = tasks \/ \E a \in TasksOf(e.channel) : tasks' = TakeControl(a, m)
    BY <2>1 DEF RelayEvent, NativeSteer, LeaveOrSignal
  <2> HIDE DEF e, m
  <2>3. ASSUME NEW a \in TasksOf(e.channel) PROVE SameTurns(TakeControl(a, m))
    <3>1. TakeControl(a, m) \in Signal({a}, m) /\ {a} \in SUBSET Agents
      BY <1>1 DEF Signal
    <3> QED
      BY <3>1, SignalSameTurns
  <2>4. SameTurns(tasks')
    BY <2>2, <2>3 DEF SameTurns
  <2> QED
    BY <2>1, <2>4 DEF RelayEvent
<1>4. CASE \E c \in Channels, signal \in Controls : ControlCommand(c, signal)
  BY <1>1, <1>4, SignalSameTurns DEF ControlCommand
<1> QED
  BY <1>2, <1>3, <1>4

\* What the circuit methods leave of a slot whose agent just died, whose slot is
\* refilled, or whose respawn came back.
LEMMA CircuitFine ==
    ASSUME NEW s \in Slot
    PROVE  /\ s.circuit = "closed" /\ s.respawn = "none" =>
                SlotFine(FALSE, "none", RecordCrash(s))
           /\ s.respawn = "none" /\ CanRefill(s) => SlotFine(FALSE, "none", Refilled(s))
           /\ s.respawn = "ok" /\ s.circuit = "closed" =>
                SlotFine(TRUE, "none", Collected(s))
           /\ s.respawn = "failed" => SlotFine(FALSE, "none", Collected(s))
<1>1. ASSUME s.circuit = "closed", s.respawn = "none"
      PROVE  SlotFine(FALSE, "none", RecordCrash(s))
  BY <1>1 DEF SlotFine, RecordCrash, Slot
<1>2. ASSUME s.respawn = "none", CanRefill(s)
      PROVE  SlotFine(FALSE, "none", Refilled(s))
  BY <1>2 DEF SlotFine, CanRefill, Refilled, HalfOpen, Slot
<1>3. ASSUME s.respawn = "ok", s.circuit = "closed"
      PROVE  SlotFine(TRUE, "none", Collected(s))
  BY <1>3 DEF SlotFine, Collected, Slot
<1>4. ASSUME s.respawn = "failed" PROVE SlotFine(FALSE, "none", Collected(s))
  BY <1>4 DEF SlotFine, Collected, MarkSpawnFailed, Slot
<1> QED
  BY <1>1, <1>2, <1>3, <1>4

\* Maintenance refills only slots that are empty and have no respawn under way.
LEMMA MaintainPool == HarnessInv /\ PoolInv /\ Maintain => PoolInv'
<1> SUFFICES ASSUME HarnessInv, PoolInv, Maintain PROVE PoolInv'
  OBVIOUS
<1>1. \A a \in Agents : SlotFine(a \in idle, tasks[a].phase, slots[a]) /\ slots[a] \in Slot
  BY SlotsFine DEF PoolInv, HarnessInv, RestOK
<1>2. \A a \in Agents : SlotFine(a \in idle', tasks'[a].phase, slots'[a])
  <2> SUFFICES ASSUME NEW a \in Agents
               PROVE  SlotFine(a \in idle', tasks'[a].phase, slots'[a])
    OBVIOUS
  <2>1. idle' = idle /\ tasks' = tasks
    BY DEF Maintain
  <2>2. slots'[a] = IF a \in EmptySlots /\ ~RespawnInFlight(slots[a]) /\ CanRefill(slots[a])
                    THEN Refilled(slots[a]) ELSE slots[a]
    BY DEF Maintain
  <2>3. CASE a \in EmptySlots /\ ~RespawnInFlight(slots[a]) /\ CanRefill(slots[a])
    <3>1. (a \in idle) = FALSE /\ tasks[a].phase = "none" /\ slots[a].respawn = "none"
      BY <2>3 DEF EmptySlots, RespawnInFlight
    <3>2. SlotFine(FALSE, "none", Refilled(slots[a]))
      BY <1>1, <2>3, <3>1, CircuitFine
    <3> QED
      BY <2>1, <2>2, <2>3, <3>1, <3>2
  <2>4. CASE ~(a \in EmptySlots /\ ~RespawnInFlight(slots[a]) /\ CanRefill(slots[a]))
    BY <1>1, <2>1, <2>2, <2>4
  <2> QED
    BY <2>3, <2>4
<1>3. HeartbeatExact'
  BY DEF Maintain, PoolInv, HeartbeatExact, TasksOf, Busy
<1> QED
  BY <1>2, <1>3, SlotsFineNext DEF PoolInv

\* Reading a respawn result fills a slot that nothing else filled meanwhile.
LEMMA CollectPool == HarnessInv /\ PoolInv /\ Collect => PoolInv'
<1> SUFFICES ASSUME HarnessInv, PoolInv, Collect PROVE PoolInv'
  OBVIOUS
<1>1. \A a \in Agents : SlotFine(a \in idle, tasks[a].phase, slots[a]) /\ slots[a] \in Slot
  BY SlotsFine DEF PoolInv, HarnessInv, RestOK
<1>2. \A a \in Agents : SlotFine(a \in idle', tasks'[a].phase, slots'[a])
  <2> SUFFICES ASSUME NEW a \in Agents
               PROVE  SlotFine(a \in idle', tasks'[a].phase, slots'[a])
    OBVIOUS
  <2>1. tasks' = tasks
    BY DEF Collect
  <2>2. /\ a \in idle' <=> a \in idle \/ slots[a].respawn = "ok"
        /\ slots'[a] = IF slots[a].respawn \in {"ok", "failed"}
                       THEN Collected(slots[a]) ELSE slots[a]
    BY DEF Collect
  <2>3. CASE slots[a].respawn = "ok"
    <3>1. tasks[a].phase = "none" /\ slots[a].circuit = "closed"
      BY <1>1, <2>3 DEF SlotFine
    <3>2. SlotFine(TRUE, "none", Collected(slots[a]))
      BY <1>1, <2>3, <3>1, CircuitFine
    <3> QED
      BY <2>1, <2>2, <2>3, <3>1, <3>2 DEF SlotFine
  <2>4. CASE slots[a].respawn = "failed"
    <3>1. tasks[a].phase = "none" /\ a \notin idle
      BY <1>1, <2>4 DEF SlotFine
    <3>2. SlotFine(FALSE, "none", Collected(slots[a]))
      BY <1>1, <2>4, CircuitFine
    <3> QED
      BY <2>1, <2>2, <2>4, <3>1, <3>2 DEF SlotFine
  <2>5. CASE slots[a].respawn \notin {"ok", "failed"}
    BY <1>1, <2>1, <2>2, <2>5 DEF SlotFine
  <2> QED
    BY <2>3, <2>4, <2>5
<1>3. HeartbeatExact'
  BY DEF Collect, PoolInv, HeartbeatExact, TasksOf, Busy
<1> QED
  BY <1>2, <1>3, SlotsFineNext DEF PoolInv

\* Checking an agent out of the pool for a turn of channel c.
LEMMA CheckOutPool ==
    ASSUME HarnessInv, PoolInv, NEW a \in idle, NEW t \in Task, t.phase = "running",
           idle' = idle \ {a}, tasks' = [tasks EXCEPT ![a] = t], slots' = slots,
           \/ t.channel # NoChannel /\ heartbeat' = heartbeat
           \/ t.channel = NoChannel /\ ~heartbeat /\ heartbeat' = TRUE
    PROVE  PoolInv'
<1>1. a \in Agents /\ tasks \in [Agents -> Task]
  BY DEF HarnessInv, RestOK
<1>2. \A b \in Agents : SlotFine(b \in idle, tasks[b].phase, slots[b])
  BY SlotsFine DEF PoolInv
<1>3. tasks'[a] = t /\ \A b \in Agents : b # a => tasks'[b] = tasks[b]
  BY <1>1
<1>4. \A b \in Agents : SlotFine(b \in idle', tasks'[b].phase, slots'[b])
  BY <1>1, <1>2, <1>3 DEF SlotFine
<1>5. tasks[a].phase = "none"
  BY <1>1, <1>2 DEF SlotFine
<1>6. HeartbeatExact'
  <2>1. a \notin TasksOf(NoChannel)
    BY <1>5 DEF TasksOf, Busy
  <2>2. CASE t.channel # NoChannel
    <3>1. TasksOf(NoChannel)' = TasksOf(NoChannel)
      BY <1>1, <1>3, <2>1, <2>2 DEF TasksOf, Busy
    <3> QED
      BY <2>2, <3>1 DEF PoolInv, HeartbeatExact
  <2>3. CASE t.channel = NoChannel
    <3>1. TasksOf(NoChannel) = {} /\ heartbeat' = TRUE
      BY <2>3 DEF PoolInv, HeartbeatExact
    <3>2. TasksOf(NoChannel)' = {a}
      BY <1>1, <1>3, <2>3, <3>1 DEF TasksOf, Busy
    <3> QED
      BY <3>1, <3>2 DEF HeartbeatExact
  <2> QED
    BY <2>2, <2>3
<1> QED
  BY <1>4, <1>6, SlotsFineNext DEF PoolInv

\* A dispatched turn takes an idle agent whose slot had no task.
LEMMA DispatchBatchPool == HarnessInv /\ PoolInv /\ DispatchBatch => PoolInv'
<1> SUFFICES ASSUME HarnessInv, PoolInv, DispatchBatch PROVE PoolInv'
  OBVIOUS
<1> DEFINE Started(b) == [phase |-> "running", channel |-> b.channel, batch |-> b,
                          root |-> b.events[Len(b.events)].root, control |-> "armed",
                          outcome |-> "none", retry |-> NoBatch]
<1>1. PICK out \in FlushNext(queue), a \in idle :
        /\ out.batch # NoBatch
        /\ idle' = idle \ {a}
        /\ tasks' = [tasks EXCEPT ![a] = Started(out.batch)]
  BY DEF DispatchBatch
<1>2. BatchOK(out.batch) /\ out.batch.events # <<>>
  BY <1>1, FlushNextOK DEF HarnessInv, FlushOutcomeOK
<1>3. TaskOK(Started(out.batch))
  BY <1>2, NewTaskOK
<1>4. /\ Started(out.batch) \in Task
      /\ Started(out.batch).phase = "running"
      /\ Started(out.batch).channel # NoChannel
  BY <1>2, <1>3, ChannelNames DEF TaskOK, BatchOK
<1>5. slots' = slots /\ heartbeat' = heartbeat
  BY DEF DispatchBatch
<1> HIDE DEF Started
<1> QED
  BY <1>1, <1>4, <1>5, CheckOutPool

\* A heartbeat takes an idle agent only while no other heartbeat runs.
LEMMA HeartbeatTickPool == HarnessInv /\ PoolInv /\ HeartbeatTick => PoolInv'
<1> SUFFICES ASSUME HarnessInv, PoolInv, HeartbeatTick PROVE PoolInv'
  OBVIOUS
<1> DEFINE beat == [NoTask EXCEPT !.phase = "running"]
<1>1. beat \in Task /\ beat.phase = "running" /\ beat.channel = NoChannel
  BY NoTaskOK DEF TaskOK, Task, NoTask
<1>2. \/ /\ ~heartbeat /\ heartbeat' = TRUE
         /\ \E a \in idle : idle' = idle \ {a} /\ tasks' = [tasks EXCEPT ![a] = beat]
      \/ UNCHANGED <<idle, tasks, heartbeat>>
  BY DEF HeartbeatTick
<1>3. slots' = slots
  BY DEF HeartbeatTick
<1> HIDE DEF beat
<1>4. CASE UNCHANGED <<idle, tasks, heartbeat>>
  BY <1>3, <1>4, QuietStep DEF SameTurns
<1>5. CASE /\ ~heartbeat /\ heartbeat' = TRUE
           /\ \E a \in idle : idle' = idle \ {a} /\ tasks' = [tasks EXCEPT ![a] = beat]
  BY <1>1, <1>3, <1>5, CheckOutPool
<1> QED
  BY <1>2, <1>4, <1>5

\* The end of a turn: its agent goes back to the pool, or its slot counts a
\* crash and is respawned; the flag of a heartbeat is cleared.
LEMMA TurnEndsPool ==
    ASSUME HarnessInv, PoolInv, NEW a \in Agents, tasks[a].phase # "none",
           tasks' = [tasks EXCEPT ![a] = NoTask],
           heartbeat' = HeartbeatAfter(tasks[a]),
           \/ idle' = idle \cup {a} /\ slots' = slots
           \/ idle' = idle /\ slots' = [slots EXCEPT ![a] = RecordCrash(@)]
    PROVE  PoolInv'
<1>1. tasks \in [Agents -> Task] /\ slots \in [Agents -> Slot] /\ idle \subseteq Agents
      /\ heartbeat \in BOOLEAN
  BY DEF HarnessInv, RestOK
<1>2. \A b \in Agents : SlotFine(b \in idle, tasks[b].phase, slots[b])
  BY SlotsFine DEF PoolInv
<1>3. tasks'[a] = NoTask /\ \A b \in Agents : b # a => tasks'[b] = tasks[b]
  BY <1>1
<1>4. a \notin idle /\ slots[a].respawn = "none" /\ slots[a].circuit = "closed"
  BY <1>2 DEF SlotFine
<1>5. NoTask.phase = "none"
  BY DEF NoTask
<1>6. \A b \in Agents : SlotFine(b \in idle', tasks'[b].phase, slots'[b])
  <2>1. CASE idle' = idle \cup {a} /\ slots' = slots
    BY <1>2, <1>3, <1>4, <1>5, <2>1 DEF SlotFine
  <2>2. CASE idle' = idle /\ slots' = [slots EXCEPT ![a] = RecordCrash(@)]
    <3>1. slots'[a] = RecordCrash(slots[a]) /\ \A b \in Agents : b # a => slots'[b] = slots[b]
      BY <1>1, <2>2
    <3>2. SlotFine(FALSE, "none", RecordCrash(slots[a]))
      BY <1>1, <1>4, CircuitFine
    <3> QED
      BY <1>2, <1>3, <1>4, <1>5, <2>2, <3>1, <3>2 DEF SlotFine
  <2> QED
    BY <2>1, <2>2
<1>7. HeartbeatExact'
  <2>1. TasksOf(NoChannel)' = TasksOf(NoChannel) \ {a}
    BY <1>1, <1>3, <1>5 DEF TasksOf, Busy
  <2>2. a \in TasksOf(NoChannel) <=> tasks[a].channel = NoChannel
    BY DEF TasksOf, Busy
  <2> QED
    BY <1>1, <2>1, <2>2 DEF PoolInv, HeartbeatExact, HeartbeatAfter
<1> QED
  BY <1>6, <1>7, SlotsFineNext DEF PoolInv

\* The pool as it starts: fresh circuits, no turn, no heartbeat.
LEMMA InitPool == Init => PoolInv
BY DEF Init, PoolInv, SlotOwnedOnce, LiveSlotClosed, HeartbeatExact, TasksOf, Busy, NoTask,
       FreshSlot, RespawnInFlight

\* Tasks that finish or panic keep their place in the task map.
LEMMA TaskStepsPool ==
    ASSUME HarnessInv, PoolInv, NEW a \in Agents,
           TaskPanics(a) \/ \E outcome \in Outcomes : TaskFinishes(a, outcome)
    PROVE  PoolInv'
<1>1. tasks \in [Agents -> Task]
  BY DEF HarnessInv
<1>2. tasks[a].phase # "none" /\ tasks'[a].phase # "none" /\ tasks'[a].channel = tasks[a].channel
  <2>1. CASE TaskPanics(a)
    BY <1>1, <2>1 DEF TaskPanics, Task
  <2>2. CASE \E outcome \in Outcomes : TaskFinishes(a, outcome)
    <3>0. PICK outcome \in Outcomes : TaskFinishes(a, outcome)
      BY <2>2
    <3>1. PICK b \in RetryBatches(tasks[a], outcome) :
            tasks' = [tasks EXCEPT ![a].phase = "done", ![a].outcome = outcome,
                                   ![a].retry = b]
      BY <3>0 DEF TaskFinishes
    <3>2. tasks[a].phase = "running"
      BY <3>0 DEF TaskFinishes
    <3>3. tasks'[a] = [tasks[a] EXCEPT !.phase = "done", !.outcome = outcome, !.retry = b]
      BY <1>1, <3>1
    <3> QED
      BY <1>1, <3>2, <3>3 DEF Task
  <2> QED
    BY <2>1, <2>2
<1>3. \A b \in Agents : b # a => tasks'[b] = tasks[b]
  BY <1>1 DEF TaskPanics, TaskFinishes
<1>4. UNCHANGED <<idle, slots, heartbeat>>
  BY DEF TaskPanics, TaskFinishes
<1>5. \A b \in Agents : /\ tasks'[b].phase = "none" <=> tasks[b].phase = "none"
                        /\ tasks'[b].channel = tasks[b].channel
  BY <1>2, <1>3
<1>6. Busy' = Busy /\ TasksOf(NoChannel)' = TasksOf(NoChannel)
  BY <1>5 DEF Busy, TasksOf
<1> QED
  BY <1>4, <1>6 DEF PoolInv, SlotOwnedOnce, LiveSlotClosed, HeartbeatExact, RespawnInFlight

\* Respawns that end and circuits that age change only their slot's circuit.
LEMMA SlotStepsPool ==
    ASSUME HarnessInv, PoolInv, NEW a \in Agents,
           CircuitAges(a) \/ \E result \in {"ok", "failed"} : RespawnEnds(a, result)
    PROVE  PoolInv'
<1>1. slots \in [Agents -> Slot]
  BY DEF HarnessInv, RestOK
<1>2. \A b \in Agents : SlotFine(b \in idle, tasks[b].phase, slots[b])
  BY SlotsFine DEF PoolInv
<1>3. UNCHANGED <<idle, tasks, heartbeat>>
  BY DEF CircuitAges, RespawnEnds
<1>4. \A b \in Agents : b # a => slots'[b] = slots[b]
  BY <1>1 DEF CircuitAges, RespawnEnds
<1>5. SlotFine(a \in idle, tasks[a].phase, slots'[a])
  <2>1. CASE CircuitAges(a)
    BY <1>1, <1>2, <2>1 DEF CircuitAges, SlotFine, Slot
  <2>2. CASE \E result \in {"ok", "failed"} : RespawnEnds(a, result)
    BY <1>1, <1>2, <2>2 DEF RespawnEnds, SlotFine, Slot
  <2> QED
    BY <2>1, <2>2
<1>6. \A b \in Agents : SlotFine(b \in idle', tasks'[b].phase, slots'[b])
  BY <1>2, <1>3, <1>4, <1>5
<1>7. HeartbeatExact'
  BY <1>3 DEF PoolInv, HeartbeatExact, TasksOf, Busy
<1> QED
  BY <1>6, <1>7, SlotsFineNext DEF PoolInv

\* Every step of the harness keeps the pool consistent.
LEMMA NextPool == HarnessInv /\ PoolInv /\ [Next]_vars => PoolInv'
<1> SUFFICES ASSUME HarnessInv, PoolInv, [Next]_vars PROVE PoolInv'
  OBVIOUS
<1>1. CASE LoopStep
  <2>1. CASE Maintain
    BY <2>1, MaintainPool
  <2>2. CASE Collect
    BY <2>2, CollectPool
  <2>3. CASE DispatchBatch
    BY <2>3, DispatchBatchPool
  <2>4. CASE HeartbeatTick
    BY <2>4, HeartbeatTickPool
  <2>5. CASE \E a \in Agents : HandlePromptResult(a) \/ RecoverPanicked(a)
    <3>1. PICK a \in Agents : HandlePromptResult(a) \/ RecoverPanicked(a)
      BY <2>5
    <3>2. /\ tasks[a].phase # "none"
          /\ tasks' = [tasks EXCEPT ![a] = NoTask]
          /\ heartbeat' = HeartbeatAfter(tasks[a])
          /\ \/ idle' = idle \cup {a} /\ slots' = slots
             \/ idle' = idle /\ slots' = [slots EXCEPT ![a] = RecordCrash(@)]
      BY <3>1 DEF HandlePromptResult, RecoverPanicked
    <3> QED
      BY <3>2, TurnEndsPool
  <2>6. CASE \/ \E s \in steers : HandleSteerAck(s)
             \/ \E shape \in Shapes : RelayEvent(shape)
             \/ \E c \in Channels, signal \in Controls : ControlCommand(c, signal)
    BY <2>6, ArmsSameTurns, QuietStep
  <2>7. CASE \/ DispatchNothing \/ DispatchExhausted \/ DrainDone \/ TimerTick
             \/ \E c \in Channels : \/ HandleExtendDeadline(c)
                                    \/ MemberRemoved(c) \/ MemberAdded(c)
    <3>1. UNCHANGED <<idle, tasks, slots, heartbeat>>
      BY <2>7 DEF DispatchNothing, DispatchExhausted, DrainDone, TimerTick,
                  HandleExtendDeadline, MemberRemoved, MemberAdded
    <3> QED
      BY <3>1, QuietStep DEF SameTurns
  <2> QED
    BY <1>1, <2>1, <2>2, <2>3, <2>4, <2>5, <2>6, <2>7 DEF LoopStep
<1>2. CASE OtherStep
  <2>1. CASE \E a \in Agents : TaskPanics(a) \/ \E outcome \in Outcomes : TaskFinishes(a, outcome)
    BY <2>1, TaskStepsPool
  <2>2. CASE \E a \in Agents :
               CircuitAges(a) \/ \E result \in {"ok", "failed"} : RespawnEnds(a, result)
    BY <2>2, SlotStepsPool
  <2>3. CASE \/ \E s \in steers, state \in Resolved \cup {"written"} : SteerStep(s, state)
             \/ \E c \in Channels : RetryAfterPasses(c) \/ DeadlinePasses(c)
    <3>1. UNCHANGED <<idle, tasks, slots, heartbeat>>
      BY <2>3 DEF SteerStep, RetryAfterPasses, DeadlinePasses
    <3> QED
      BY <3>1, QuietStep DEF SameTurns
  <2> QED
    BY <1>2, <2>1, <2>2, <2>3 DEF OtherStep
<1>3. CASE Exited \/ UNCHANGED vars
  <2>1. UNCHANGED <<idle, tasks, slots, heartbeat>>
    BY <1>3 DEF Exited, vars
  <2> QED
    BY <2>1, QuietStep DEF SameTurns
<1> QED
  BY <1>1, <1>2, <1>3 DEF Next

\* The pool is consistent in every behaviour of the harness.
THEOREM PoolInvariant == Spec => []PoolInv
<1> QED
  BY InitPool, NextPool, HarnessInvariant, PTL DEF Spec

\* No slot is ever filled twice: the "BUG" branch of return_agent is unreachable.
THEOREM SlotSafety == Spec => []SlotOwnedOnce
<1>1. PoolInv => SlotOwnedOnce
  BY DEF PoolInv
<1> QED
  BY <1>1, PoolInvariant, PTL

\* A slot with an agent, or with one on its way, has a closed circuit.
THEOREM CircuitSafety == Spec => []LiveSlotClosed
<1>1. PoolInv => LiveSlotClosed
  BY DEF PoolInv
<1> QED
  BY <1>1, PoolInvariant, PTL

\* heartbeat_in_flight is set exactly while its turn is there: a panic or a
\* crash cannot leave it stuck.
THEOREM HeartbeatSafety == Spec => []HeartbeatExact
<1>1. PoolInv => HeartbeatExact
  BY DEF PoolInv
<1> QED
  BY <1>1, PoolInvariant, PTL

-----------------------------------------------------------------------------
(* One turn per channel, while no deadline expires *)

TurnInv ==
    /\ ~Expiry
    /\ \A c \in Channels : queue.deadlines[c] # "passed"
    /\ OneTurnPerChannel

\* Two queues with the same in-flight table.
SameFlight(q, r) == r.inFlight = q.inFlight /\ r.deadlines = q.deadlines

\* The methods that move events leave the in-flight table alone; drain_channel
\* is one of them, however much of a removed channel it drops.
LEMMA MethodsSameFlight ==
    ASSUME NEW q \in QueueState, NEW e, NEW b, NEW c, NEW reason
    PROVE  /\ SameFlight(q, Push(q, e))
           /\ SameFlight(q, Requeue(q, b))
           /\ SameFlight(q, RequeuePreserveTimestamps(q, b))
           /\ SameFlight(q, RequeueAsCancelled(q, b, reason))
           /\ SameFlight(q, DrainChannel(q, c))
           /\ SameFlight(q, MarkNativeSteerPending(q, e))
           /\ SameFlight(q, ReleaseNativeSteer(q, e))
           /\ SameFlight(q, RemoveEvent(q, e))
           /\ SameFlight(q, CompactExpiredState(q))
<1>1. SameFlight(q, Push(q, e))
  BY DEF SameFlight, QueueState, Push
<1>2. SameFlight(q, Requeue(q, b))
  BY DEF SameFlight, QueueState, Requeue
<1>3. SameFlight(q, RequeuePreserveTimestamps(q, b))
  BY DEF SameFlight, QueueState, RequeuePreserveTimestamps
<1>4. SameFlight(q, RequeueAsCancelled(q, b, reason))
  BY DEF SameFlight, QueueState, RequeueAsCancelled
<1>5. SameFlight(q, DrainChannel(q, c))
  BY DEF SameFlight, QueueState, DrainChannel
<1>6. SameFlight(q, MarkNativeSteerPending(q, e))
  BY DEF SameFlight, QueueState, MarkNativeSteerPending
<1>7. SameFlight(q, ReleaseNativeSteer(q, e)) /\ SameFlight(q, RemoveEvent(q, e))
  BY DEF SameFlight, QueueState, ReleaseNativeSteer, RemoveEvent
<1>8. SameFlight(q, CompactExpiredState(q))
  BY DEF SameFlight, QueueState, CompactExpiredState
<1> QED
  BY <1>1, <1>2, <1>3, <1>4, <1>5, <1>6, <1>7, <1>8

\* The expiry block does nothing while no deadline has passed.
LEMMA NothingExpires ==
    ASSUME NEW q \in QueueState, \A c \in Channels : q.deadlines[c] # "passed"
    PROVE  SameFlight(q, ExpireInFlight(q))
<1>1. Expired(q) = {}
  BY DEF Expired
<1>2. q.deadlines = [c \in Channels |-> q.deadlines[c]]
  BY DEF QueueState
<1> QED
  BY <1>1, <1>2 DEF ExpireInFlight, SameFlight, QueueState

\* mark_complete frees its channel and no other.
LEMMA MarkCompleteFlight ==
    ASSUME NEW q \in QueueState, NEW c \in Channels
    PROVE  /\ MarkComplete(q, c).inFlight = q.inFlight \ {c}
           /\ MarkComplete(q, c).deadlines = [q.deadlines EXCEPT ![c] = "none"]
BY DEF MarkComplete, QueueState

\* A step that keeps the in-flight table, and the turns' channels, keeps TurnInv.
LEMMA SameTurnStep ==
    ASSUME TurnInv, SameFlight(queue, queue'),
           \A a \in Agents : /\ tasks'[a].phase = "none" <=> tasks[a].phase = "none"
                             /\ tasks'[a].channel = tasks[a].channel
    PROVE  TurnInv'
<1>1. Busy' = Busy /\ \A c : TasksOf(c)' = TasksOf(c)
  BY DEF Busy, TasksOf
<1> QED
  BY <1>1 DEF TurnInv, OneTurnPerChannel, SameFlight, Busy, TasksOf

\* Nothing is in flight at the start.
LEMMA InitTurn == ~Expiry /\ Init => TurnInv
BY DEF Init, TurnInv, OneTurnPerChannel, EmptyQueue, TasksOf, Busy, NoTask

\* A dispatched batch is of a channel without a turn, which gets exactly one.
LEMMA DispatchBatchTurn == HarnessInv /\ PoolInv /\ TurnInv /\ DispatchBatch => TurnInv'
<1> SUFFICES ASSUME HarnessInv, PoolInv, TurnInv, DispatchBatch PROVE TurnInv'
  OBVIOUS
<1>1. PICK out \in FlushNext(queue), a \in idle :
        /\ out.batch # NoBatch
        /\ queue' = out.queue
        /\ \E t : /\ tasks' = [tasks EXCEPT ![a] = t]
                 /\ t.phase = "running"
                 /\ t.channel = out.batch.channel
  BY DEF DispatchBatch
<1> DEFINE c == out.batch.channel
<1>2. queue \in QueueState /\ QueueOK(queue) /\ tasks \in [Agents -> Task] /\ a \in Agents
  BY DEF HarnessInv, RestOK, QueueOK
<1>3. SameFlight(queue, ExpireInFlight(queue))
  BY <1>2, NothingExpires DEF TurnInv
<1>4. /\ c \in Channels
      /\ c \notin queue.inFlight
      /\ queue'.inFlight = queue.inFlight \cup {c}
      /\ queue'.deadlines = [queue.deadlines EXCEPT ![c] = "active"]
  <2>1. FlushOutcomeOK(ExpireInFlight(queue), out)
    BY <1>2, FlushNextOK
  <2> QED
    BY <1>1, <1>3, <2>1 DEF FlushOutcomeOK, SameFlight, BatchOK
<1> HIDE DEF c
<1>5. tasks[a].phase = "none"
  BY <1>2 DEF PoolInv, SlotOwnedOnce, Busy
<1>6. /\ tasks'[a].phase = "running" /\ tasks'[a].channel = c
      /\ \A b \in Agents : b # a => tasks'[b] = tasks[b]
  BY <1>1, <1>2 DEF c
<1>7. TasksOf(c) = {}
  BY <1>4 DEF TurnInv, OneTurnPerChannel
<1>8. /\ TasksOf(c)' = {a}
      /\ \A d : d # c => TasksOf(d)' = TasksOf(d)
  BY <1>2, <1>5, <1>6, <1>7 DEF TasksOf, Busy
<1>9. OneTurnPerChannel'
  <2>1. \A d \in Channels : d \in queue'.inFlight <=> TasksOf(d)' # {}
    BY <1>4, <1>8 DEF TurnInv, OneTurnPerChannel
  <2>2. \A x, y \in Busy' : tasks'[x].channel = tasks'[y].channel => x = y
    BY <1>2, <1>5, <1>6, <1>7 DEF TurnInv, OneTurnPerChannel, TasksOf, Busy
  <2> QED
    BY <2>1, <2>2 DEF OneTurnPerChannel
<1>10. \A d \in Channels : queue'.deadlines[d] # "passed"
  BY <1>2, <1>4 DEF TurnInv, QueueState
<1> QED
  BY <1>9, <1>10 DEF TurnInv

\* A dispatch that finds no agent takes the channel and frees it again.
LEMMA DispatchExhaustedTurn == HarnessInv /\ TurnInv /\ DispatchExhausted => TurnInv'
<1> SUFFICES ASSUME HarnessInv, TurnInv, DispatchExhausted PROVE TurnInv'
  OBVIOUS
<1>1. PICK out \in FlushNext(queue) :
        /\ out.batch # NoBatch
        /\ queue' = MarkComplete(RequeuePreserveTimestamps(out.queue, out.batch),
                                 out.batch.channel)
  BY DEF DispatchExhausted
<1> DEFINE c == out.batch.channel
           r == RequeuePreserveTimestamps(out.queue, out.batch)
<1>2. queue \in QueueState /\ QueueOK(queue)
  BY DEF HarnessInv, QueueOK
<1>3. SameFlight(queue, ExpireInFlight(queue))
  BY <1>2, NothingExpires DEF TurnInv
<1>4. QueueOK(out.queue) /\ FlushOutcomeOK(ExpireInFlight(queue), out)
  BY <1>2, FlushNextOK
<1>5. /\ c \in Channels /\ BatchOK(out.batch)
      /\ c \notin queue.inFlight
      /\ out.queue.inFlight = queue.inFlight \cup {c}
      /\ out.queue.deadlines = [queue.deadlines EXCEPT ![c] = "active"]
  BY <1>1, <1>3, <1>4 DEF FlushOutcomeOK, SameFlight, BatchOK
<1>6. r \in QueueState
  BY <1>4, <1>5, RequeuePreserveTimestampsOK DEF QueueOK
<1>7. SameFlight(out.queue, r)
  BY <1>4, MethodsSameFlight DEF QueueOK
<1> HIDE DEF r, c
<1>8. queue'.inFlight = r.inFlight \ {c} /\ queue'.deadlines = [r.deadlines EXCEPT ![c] = "none"]
  BY <1>1, <1>5, <1>6, MarkCompleteFlight DEF r, c
<1>9. queue'.inFlight = queue.inFlight
  BY <1>5, <1>7, <1>8 DEF SameFlight
<1>10. \A d \in Channels : queue'.deadlines[d] # "passed"
  BY <1>2, <1>5, <1>7, <1>8 DEF TurnInv, QueueState, SameFlight
<1>11. tasks' = tasks
  BY DEF DispatchExhausted
<1> QED
  BY <1>9, <1>10, <1>11 DEF TurnInv, OneTurnPerChannel, TasksOf, Busy

\* The end of a turn frees its own channel, which no other turn holds.
LEMMA TurnEndsTurn ==
    ASSUME HarnessInv, TurnInv, NEW a \in Agents, tasks[a].phase # "none",
           tasks' = [tasks EXCEPT ![a] = NoTask],
           NEW q, QueueOK(q), SameFlight(queue, q),
           queue' = IF tasks[a].channel = NoChannel THEN q
                    ELSE MarkComplete(q, tasks[a].channel)
    PROVE  TurnInv'
<1>1. tasks \in [Agents -> Task] /\ queue \in QueueState /\ q \in QueueState
      /\ NoTask.phase = "none" /\ tasks[a].channel \in Channels \cup {NoChannel}
  BY DEF HarnessInv, QueueOK, NoTask, Task
<1>2. tasks'[a] = NoTask /\ \A b \in Agents : b # a => tasks'[b] = tasks[b]
  BY <1>1
<1>3. PICK c : c = tasks[a].channel
  OBVIOUS
<1>4. TasksOf(c) = {a}
  BY <1>3 DEF TurnInv, OneTurnPerChannel, TasksOf, Busy
<1>5. TasksOf(c)' = {} /\ \A d : d # c => TasksOf(d)' = TasksOf(d)
  BY <1>1, <1>2, <1>4 DEF TasksOf, Busy
<1>6. \A x, y \in Busy' : tasks'[x].channel = tasks'[y].channel => x = y
  BY <1>1, <1>2 DEF TurnInv, OneTurnPerChannel, Busy
<1>7. CASE c = NoChannel
  <2>1. SameFlight(queue, queue') /\ \A d \in Channels : d # c
    BY <1>7, <1>3, ChannelNames
  <2> QED
    BY <1>5, <1>6, <2>1 DEF TurnInv, OneTurnPerChannel, SameFlight
<1>8. CASE c # NoChannel
  <2>1. c \in Channels /\ queue' = MarkComplete(q, c)
    BY <1>1, <1>8, <1>3
  <2>2. /\ queue'.inFlight = queue.inFlight \ {c}
        /\ queue'.deadlines = [queue.deadlines EXCEPT ![c] = "none"]
    BY <1>1, <2>1, MarkCompleteFlight DEF SameFlight
  <2>3. \A d \in Channels : d \in queue'.inFlight <=> TasksOf(d)' # {}
    BY <1>5, <2>2 DEF TurnInv, OneTurnPerChannel
  <2>4. \A d \in Channels : queue'.deadlines[d] # "passed"
    BY <1>1, <2>1, <2>2 DEF TurnInv, QueueState
  <2> QED
    BY <1>6, <2>3, <2>4 DEF TurnInv, OneTurnPerChannel
<1> QED
  BY <1>7, <1>8

\* Whatever a result or a panic does with its batch, the in-flight table waits
\* for mark_complete.
LEMMA AfterSameFlight ==
    ASSUME HarnessInv, NEW t
    PROVE  /\ SameFlight(queue, AfterResult(t).queue)
           /\ SameFlight(queue, AfterPanic(t).queue)
<1>1. queue \in QueueState /\ SameFlight(queue, queue)
  BY DEF HarnessInv, QueueOK, SameFlight
<1>2. \A b : SameFlight(queue, AfterRequeue(b).queue)
  BY <1>1, MethodsSameFlight DEF AfterRequeue
<1>3. \A b, r : SameFlight(queue, RequeueAsCancelled(queue, b, r))
  BY <1>1, MethodsSameFlight
<1>4. \/ AfterResult(t).queue = queue
      \/ \E r : AfterResult(t).queue = RequeueAsCancelled(queue, t.retry, r)
      \/ AfterResult(t).queue = AfterRequeue(t.retry).queue
  BY DEF AfterResult
<1>5. AfterPanic(t).queue \in {queue, AfterRequeue(t.batch).queue}
  BY DEF AfterPanic, AfterRequeue
<1> QED
  BY <1>1, <1>2, <1>3, <1>4, <1>5

\* Every step of the harness keeps one turn per channel.
LEMMA NextTurn == HarnessInv /\ PoolInv /\ TurnInv /\ [Next]_vars => TurnInv'
<1> SUFFICES ASSUME HarnessInv, PoolInv, TurnInv, [Next]_vars PROVE TurnInv'
  OBVIOUS
<1>0. queue \in QueueState /\ QueueOK(queue) /\ tasks \in [Agents -> Task]
  BY DEF HarnessInv, QueueOK
<1> DEFINE Undisturbed == \A a \in Agents :
              /\ tasks'[a].phase = "none" <=> tasks[a].phase = "none"
              /\ tasks'[a].channel = tasks[a].channel
<1>1. CASE LoopStep
  <2>1. CASE Maintain
    <3> DEFINE k == CompactExpiredState(queue)
    <3>1. QueueOK(k) /\ SameFlight(queue, k)
      BY <1>0, CompactExpiredStateOK, MethodsSameFlight
    <3>2. queue' = ExpireInFlight(k) /\ Undisturbed
      BY <2>1 DEF Maintain
    <3> HIDE DEF k
    <3>3. SameFlight(k, ExpireInFlight(k))
      BY <3>1, NothingExpires DEF QueueOK, SameFlight, TurnInv
    <3> QED
      BY <3>1, <3>2, <3>3, SameTurnStep DEF SameFlight
  <2>2. CASE DispatchNothing
    <3>1. queue' = ExpireInFlight(queue) /\ Undisturbed
      <4>1. PICK out \in FlushNext(queue) : out.batch = NoBatch /\ queue' = out.queue
        BY <2>2 DEF DispatchNothing
      <4>2. FlushOutcomeOK(ExpireInFlight(queue), out)
        BY <1>0, FlushNextOK
      <4> QED
        BY <2>2, <4>1, <4>2, ChannelNames
           DEF DispatchNothing, FlushOutcomeOK, BatchOK, NoBatch
    <3>2. SameFlight(queue, queue')
      BY <1>0, <3>1, NothingExpires DEF TurnInv
    <3> QED
      BY <3>1, <3>2, SameTurnStep
  <2>3. CASE DispatchBatch
    BY <2>3, DispatchBatchTurn
  <2>4. CASE DispatchExhausted
    BY <2>4, DispatchExhaustedTurn
  <2>5. CASE HeartbeatTick
    <3>1. SameFlight(queue, queue')
      BY <1>0, <2>5, NothingExpires DEF HeartbeatTick, TurnInv
    <3>2. CASE UNCHANGED tasks
      BY <3>1, <3>2, SameTurnStep
    <3>3. CASE \E a \in idle : /\ ~heartbeat
                               /\ tasks' = [tasks EXCEPT ![a] = [NoTask EXCEPT !.phase = "running"]]
      <4>1. PICK a \in idle :
              /\ ~heartbeat
              /\ tasks' = [tasks EXCEPT ![a] = [NoTask EXCEPT !.phase = "running"]]
        BY <3>3
      <4>2. a \in Agents /\ tasks[a].phase = "none" /\ TasksOf(NoChannel) = {}
        BY <4>1 DEF HarnessInv, RestOK, PoolInv, SlotOwnedOnce, HeartbeatExact, Busy
      <4>3. /\ tasks'[a].phase = "running" /\ tasks'[a].channel = NoChannel
            /\ \A b \in Agents : b # a => tasks'[b] = tasks[b]
        BY <1>0, <4>1, <4>2 DEF NoTask
      <4>4. \A d \in Channels : TasksOf(d)' = TasksOf(d)
        BY <4>2, <4>3, ChannelNames DEF TasksOf, Busy
      <4>5. \A x, y \in Busy' : tasks'[x].channel = tasks'[y].channel => x = y
        BY <4>2, <4>3 DEF TurnInv, OneTurnPerChannel, TasksOf, Busy
      <4> QED
        BY <3>1, <4>4, <4>5 DEF TurnInv, OneTurnPerChannel, SameFlight
    <3> QED
      BY <2>5, <3>2, <3>3 DEF HeartbeatTick
  <2>6. CASE \E a \in Agents : HandlePromptResult(a) \/ RecoverPanicked(a)
    <3>1. PICK a \in Agents : HandlePromptResult(a) \/ RecoverPanicked(a)
      BY <2>6
    <3>2. TaskOK(tasks[a])
      BY DEF HarnessInv, TasksOK
    <3>3. tasks[a].phase # "none" /\ tasks' = [tasks EXCEPT ![a] = NoTask]
      BY <3>1 DEF HandlePromptResult, RecoverPanicked
    <3>4. \E q \in {AfterResult(tasks[a]).queue, AfterPanic(tasks[a]).queue} :
            queue' = IF tasks[a].channel = NoChannel THEN q
                     ELSE MarkComplete(q, tasks[a].channel)
      BY <3>1 DEF HandlePromptResult, RecoverPanicked
    <3>5. \A q \in {AfterResult(tasks[a]).queue, AfterPanic(tasks[a]).queue} :
            QueueOK(q) /\ SameFlight(queue, q)
      BY <3>2, AfterResultOK, AfterPanicOK, AfterSameFlight DEF AfterOK
    <3> QED
      BY <3>3, <3>4, <3>5, TurnEndsTurn
  <2>7. CASE \E s \in steers : HandleSteerAck(s)
    <3>1. PICK s \in steers : HandleSteerAck(s)
      BY <2>7
    <3> DEFINE e == s.event
               x == ExtendDeadline(queue, e.channel)
    <3>2. e \in Event /\ e.channel \in Channels
      BY DEF HarnessInv, RestOK, SteerRecord, Event
    <3> HIDE DEF e
    <3>3. x \in QueueState /\ x.inFlight = queue.inFlight
          /\ \A c \in Channels : x.deadlines[c] # "passed"
      <4>1. QueueOK(x)
        BY <1>0, <3>2, ExtendDeadlineOK
      <4> QED
        BY <1>0, <4>1 DEF ExtendDeadline, QueueState, TurnInv, QueueOK
    <3>4. queue' \in {RemoveEvent(x, e), ReleaseNativeSteer(queue, e)}
      BY <3>1 DEF HandleSteerAck, e
    <3> HIDE DEF x
    <3>5. /\ queue'.inFlight = queue.inFlight
          /\ \A c \in Channels : queue'.deadlines[c] # "passed"
      BY <1>0, <3>3, <3>4, MethodsSameFlight DEF SameFlight, TurnInv
    <3>6. SameTurns(tasks')
      BY <2>7, ArmsSameTurns
    <3>7. Busy' = Busy /\ \A c : TasksOf(c)' = TasksOf(c)
      BY <3>6 DEF SameTurns, Busy, TasksOf
    <3> QED
      BY <3>5, <3>6, <3>7 DEF TurnInv, OneTurnPerChannel, SameTurns, Busy
  <2>8. CASE \E c \in Channels : HandleExtendDeadline(c)
    BY <2>8 DEF HandleExtendDeadline, TurnInv
  <2>9. CASE \E shape \in Shapes : RelayEvent(shape)
    <3>1. PICK shape \in Shapes : RelayEvent(shape)
      BY <2>9
    <3> DEFINE e == Arrival(shape)
               q == Push(queue, e)
    <3>2. e \in Event
      <4>1. shape \in [channel : Channels, created : Nat, scoped : BOOLEAN,
                       root : Roots, owner : BOOLEAN]
        BY HarnessConstants
      <4>2. nextId \in Nat
        BY HarnessConstants DEF HarnessInv, RestOK
      <4> QED
        BY <4>1, <4>2 DEF Arrival, Event
    <3>3. queue' \in {queue, q, MarkNativeSteerPending(q, e)}
      BY <3>1 DEF RelayEvent, NativeSteer, LeaveOrSignal
    <3>4. q \in QueueState /\ SameFlight(queue, q)
      BY <1>0, <3>2, PushOK, MethodsSameFlight DEF QueueOK
    <3> HIDE DEF q, e
    <3>5. SameFlight(queue, queue')
      BY <3>3, <3>4, MethodsSameFlight DEF SameFlight
    <3>6. SameTurns(tasks')
      BY <2>9, ArmsSameTurns
    <3> QED
      BY <3>5, <3>6, SameTurnStep DEF SameTurns
  <2>10. CASE \E c \in Channels, signal \in Controls : ControlCommand(c, signal)
    <3>1. SameTurns(tasks') /\ queue' = queue
      BY <2>10, ArmsSameTurns DEF ControlCommand
    <3> QED
      BY <3>1, SameTurnStep DEF SameTurns, SameFlight
  <2>11. CASE \E c \in Channels : MemberRemoved(c) \/ MemberAdded(c)
    <3>1. SameFlight(queue, queue') /\ tasks' = tasks
      BY <1>0, <2>11, MethodsSameFlight DEF MemberRemoved, MemberAdded, SameFlight
    <3> QED
      BY <3>1, SameTurnStep
  <2>12. CASE Collect \/ DrainDone \/ TimerTick
    <3>1. UNCHANGED <<queue, tasks>>
      BY <2>12 DEF Collect, DrainDone, TimerTick
    <3> QED
      BY <3>1, SameTurnStep DEF SameFlight
  <2> QED
    BY <1>1, <2>1, <2>2, <2>3, <2>4, <2>5, <2>6, <2>7, <2>8, <2>9, <2>10, <2>11, <2>12
       DEF LoopStep
<1>2. CASE OtherStep
  <2>1. CASE \E a \in Agents, outcome \in Outcomes : TaskFinishes(a, outcome)
    <3>1. PICK a \in Agents, outcome \in Outcomes : TaskFinishes(a, outcome)
      BY <2>1
    <3>2. PICK b \in RetryBatches(tasks[a], outcome) :
            /\ tasks[a].phase = "running"
            /\ tasks' = [tasks EXCEPT ![a].phase = "done", ![a].outcome = outcome,
                                     ![a].retry = b]
      BY <3>1 DEF TaskFinishes
    <3>3. tasks' = [tasks EXCEPT ![a] = [tasks[a] EXCEPT !.phase = "done",
                                           !.outcome = outcome, !.retry = b]]
      BY <1>0, <3>2
    <3>4. Undisturbed
      BY <1>0, <3>2, <3>3 DEF Task
    <3> QED
      BY <2>1, <3>4, SameTurnStep DEF TaskFinishes, SameFlight
  <2>2. CASE \E a \in Agents : TaskPanics(a)
    <3>1. Undisturbed /\ queue' = queue
      BY <1>0, <2>2 DEF TaskPanics, Task
    <3> QED
      BY <3>1, SameTurnStep DEF SameFlight
  <2>3. CASE \/ \E a \in Agents : CircuitAges(a)
             \/ \E a \in Agents, result \in {"ok", "failed"} : RespawnEnds(a, result)
             \/ \E s \in steers, state \in Resolved \cup {"written"} : SteerStep(s, state)
    <3>1. UNCHANGED <<queue, tasks>>
      BY <2>3 DEF CircuitAges, RespawnEnds, SteerStep
    <3> QED
      BY <3>1, SameTurnStep DEF SameFlight
  <2>4. CASE \E c \in Channels : RetryAfterPasses(c) \/ DeadlinePasses(c)
    <3>1. SameFlight(queue, queue') /\ tasks' = tasks
      BY <1>0, <2>4 DEF RetryAfterPasses, DeadlinePasses, TurnInv, SameFlight, QueueState
    <3> QED
      BY <3>1, SameTurnStep
  <2> QED
    BY <1>2, <2>1, <2>2, <2>3, <2>4 DEF OtherStep
<1>3. CASE Exited \/ UNCHANGED vars
  <2>1. UNCHANGED <<queue, tasks>>
    BY <1>3 DEF Exited, vars
  <2> QED
    BY <2>1, SameTurnStep DEF SameFlight
<1> QED
  BY <1>1, <1>2, <1>3 DEF Next

\* While no turn outlives its deadline, the channels in flight are exactly those
\* with a turn, one turn each: whatever cancels, panics, exhausts the pool or
\* removes the channel, no channel is prompted twice at once or left wedged.
THEOREM TurnSafety == ~Expiry /\ Spec => []OneTurnPerChannel
<1>1. TurnInv => OneTurnPerChannel
  BY DEF TurnInv
<1> QED
  BY <1>1, InitTurn, NextTurn, HarnessInvariant, PoolInvariant, PTL DEF Spec

-----------------------------------------------------------------------------
(* Exit *)

\* The harness gives up only when no agent is left and none is coming: a slot
\* that is idle, prompting or respawning keeps it alive.
THEOREM ExitSafety == Spec => ExitOnlyWhenDead
<1> DEFINE Dead == idle' = {} /\ \A a \in Agents : /\ tasks'[a].phase = "none"
                                                 /\ slots'[a].respawn = "none"
<1>1. ASSUME HarnessInv, Next, pc' = "exited", pc # "exited" PROVE Dead
  <2>1. \E a \in Agents : HandlePromptResult(a) \/ RecoverPanicked(a)
    BY <1>1 DEF Next, LoopStep, OtherStep, Exited, Maintain, Collect, DispatchNothing,
                DispatchBatch, DispatchExhausted, DrainDone, HandleSteerAck,
                HandleExtendDeadline, RelayEvent, ControlCommand, MemberRemoved,
                MemberAdded, TimerTick, HeartbeatTick, TaskFinishes, TaskPanics,
                CircuitAges, RespawnEnds, SteerStep, RetryAfterPasses, DeadlinePasses
  <2>2. PICK a \in Agents : HandlePromptResult(a) \/ RecoverPanicked(a)
    BY <2>1
  <2>3. AllDead(idle, tasks', slots') /\ idle' = idle
    BY <1>1, <2>2 DEF HandlePromptResult, RecoverPanicked, AtSelect
  <2> QED
    BY <2>3 DEF AllDead, RespawnInFlight
<1>2. HarnessInv /\ [Next]_vars => [pc' = "exited" /\ pc # "exited" => Dead]_vars
  BY <1>1
<1> QED
  BY <1>2, HarnessInvariant, PTL DEF Spec, ExitOnlyWhenDead

=============================================================================
