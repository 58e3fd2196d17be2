---------------------------- MODULE AgentHarnessProofs ----------------------------
(***************************************************************************)
(* Invariants of the agent harness, proved for every pool, every set of    *)
(* channels, every configuration and every bound.                          *)
(***************************************************************************)
EXTENDS AgentHarness, EventQueueProofs

-----------------------------------------------------------------------------
(* The inductive invariant *)

\* A task belongs to the channel of its batch; a batch it gives back is of that
\* channel too; and a heartbeat has no control channel, so no signal can make it
\* give a batch back.
TaskOK(t) ==
    /\ t \in Task
    /\ t.batch.channel = t.channel
    /\ t.retry # NoBatch => t.channel \in Channels /\ t.retry.channel = t.channel
    /\ t.channel = NoChannel => t.control = "none"

TasksOK(ts) == DOMAIN ts = Agents /\ \A a \in Agents : TaskOK(ts[a])

\* The types of the other variables.
RestOK ==
    /\ idle \subseteq Agents
    /\ slots \in [Agents -> Slot]
    /\ steers \subseteq SteerRecord
    /\ removed \subseteq Channels
    /\ heartbeat \in BOOLEAN
    /\ pc \in {"top", "collect", "select", "drain", "exited"}
    /\ dispatching \in BOOLEAN
    /\ nextId \in 1..(MaxEvents + 1)
    /\ budget \in [faults : 0..MaxFaults, controls : 0..MaxControls,
                   memberships : 0..MaxMemberships]

HistoryOK ==
    /\ fate \in [1..MaxEvents -> Fates]

HarnessInv ==
    /\ tasks \in [Agents -> Task]
    /\ TasksOK(tasks)
    /\ QueueOK(queue)
    /\ RestOK
    /\ HistoryOK

-----------------------------------------------------------------------------
(* Operators *)

\* The history keeps its type when events meet their end.
LEMMA SettleType ==
    ASSUME NEW f \in [1..MaxEvents -> Fates], NEW evs, NEW end \in Fates
    PROVE  Settle(f, evs, end) \in [1..MaxEvents -> Fates]
BY DEF Settle

\* The methods of a slot's circuit breaker keep its type: the crash history
\* never outgrows the threshold.
LEMMA SlotTypes ==
    ASSUME NEW s \in Slot
    PROVE  /\ HalfOpen(s) \in Slot
           /\ RecordCrash(s) \in Slot
           /\ Refilled(s) \in Slot
           /\ Collected(s) \in Slot
<1>1. Threshold \in Nat \ {0}
  BY ThresholdAssumption
<1> DEFINE Crashes == 0..Threshold
<1>2. Threshold \in Crashes /\ Threshold - 1 \in Crashes
  BY <1>1
<1>3. \A n \in Crashes : ~(n + 1 >= Threshold) => n + 1 \in Crashes
  BY <1>1
<1>4. Slot = [crashes : Crashes, circuit : {"closed", "open", "elapsed"},
              respawn : {"none", "running", "ok", "failed"}]
  BY DEF Slot
<1> HIDE DEF Crashes
<1>5. HalfOpen(s) \in Slot
  BY <1>2, <1>4 DEF HalfOpen
<1>6. RecordCrash(s) \in Slot
  <2>1. CASE s.circuit = "elapsed"
    <3>1. RecordCrash(s) = [HalfOpen(s) EXCEPT !.respawn = "running"]
      BY <2>1 DEF RecordCrash
    <3> QED
      BY <1>5, <3>1 DEF Slot
  <2>2. CASE s.circuit = "open"
    BY <2>2 DEF RecordCrash
  <2>3. CASE s.circuit = "closed" /\ s.crashes + 1 >= Threshold
    <3>1. RecordCrash(s) = [s EXCEPT !.crashes = Threshold, !.circuit = "open"]
      BY <2>3 DEF RecordCrash
    <3> QED
      BY <1>2, <1>4, <3>1
  <2>4. CASE s.circuit = "closed" /\ ~(s.crashes + 1 >= Threshold)
    <3>1. RecordCrash(s) = [s EXCEPT !.crashes = @ + 1, !.respawn = "running"]
      BY <2>4 DEF RecordCrash
    <3> QED
      BY <1>3, <1>4, <2>4, <3>1
  <2> QED
    BY <2>1, <2>2, <2>3, <2>4 DEF Slot
<1>7. Refilled(s) \in Slot
  <2>1. Refilled(s) = [HalfOpen(s) EXCEPT !.respawn = "running"]
        \/ Refilled(s) = [s EXCEPT !.respawn = "running"]
    BY DEF Refilled
  <2> QED
    BY <1>5, <2>1 DEF Slot
<1>8. Collected(s) \in Slot
  BY DEF Collected, MarkSpawnFailed, Slot
<1> QED
  BY <1>5, <1>6, <1>7, <1>8

\* Replacing one task by a correct one keeps the task map correct.
LEMMA SetTaskOK ==
    ASSUME NEW ts \in [Agents -> Task], TasksOK(ts), NEW a \in Agents, NEW t, TaskOK(t)
    PROVE  [ts EXCEPT ![a] = t] \in [Agents -> Task] /\ TasksOK([ts EXCEPT ![a] = t])
BY DEF TasksOK, TaskOK

\* An empty task_map entry.
LEMMA NoTaskOK == TaskOK(NoTask)
<1>1. NoBatch \in Batch
  BY EmptySeq DEF NoBatch, Batch
<1> QED
  BY <1>1 DEF TaskOK, NoTask, Task, NoBatch

\* A signal takes the control channel of at most one task.
LEMMA TakeControlOK ==
    ASSUME HarnessInv, NEW a \in Agents, NEW signal \in Signals
    PROVE  TakeControl(a, signal) \in [Agents -> Task] /\ TasksOK(TakeControl(a, signal))
<1>1. CASE tasks[a].control = "armed"
  <2> DEFINE t == [tasks[a] EXCEPT !.control = signal]
  <2>1. TaskOK(tasks[a])
    BY DEF HarnessInv, TasksOK
  <2>2. TaskOK(t)
    BY <1>1, <2>1 DEF TaskOK, Task
  <2>3. TakeControl(a, signal) = [tasks EXCEPT ![a] = t]
    BY <1>1 DEF TakeControl, HarnessInv
  <2>4. tasks \in [Agents -> Task] /\ TasksOK(tasks)
    BY DEF HarnessInv
  <2> HIDE DEF t
  <2>5. [tasks EXCEPT ![a] = t] \in [Agents -> Task] /\ TasksOK([tasks EXCEPT ![a] = t])
    BY <2>2, <2>4, SetTaskOK
  <2> QED
    BY <2>3, <2>5
<1>2. CASE tasks[a].control # "armed"
  BY <1>2 DEF TakeControl, HarnessInv
<1> QED
  BY <1>1, <1>2

\* Signalling one task of a set, or none, keeps the task map correct.
LEMMA SignalOK ==
    ASSUME HarnessInv, NEW ts \in SUBSET Agents, NEW signal \in Signals,
           NEW u \in Signal(ts, signal)
    PROVE  u \in [Agents -> Task] /\ TasksOK(u)
<1>1. u = tasks \/ \E a \in ts : u = TakeControl(a, signal)
  BY DEF Signal
<1> QED
  BY <1>1, TakeControlOK DEF HarnessInv

\* What is left after a batch was handled: a correct queue and history.
AfterOK(after) ==
    /\ QueueOK(after.queue)
    /\ after.fate \in [1..MaxEvents -> Fates]

\* requeue, as a failed turn or a panic calls it.
LEMMA AfterRequeueOK ==
    ASSUME HarnessInv, NEW b, BatchOK(b)
    PROVE  AfterOK(AfterRequeue(b))
<1>1. QueueOK(Requeue(queue, b))
  BY RequeueOK DEF HarnessInv
<1>2. /\ fate \in [1..MaxEvents -> Fates]
  BY DEF HarnessInv, HistoryOK
<1>3. "notified" \in Fates /\ "dropped" \in Fates
  BY DEF Fates
<1>4. AfterRequeue(b).fate \in [1..MaxEvents -> Fates]
  BY <1>2, <1>3, SettleType DEF AfterRequeue
<1>6. AfterRequeue(b).queue = Requeue(queue, b)
  BY DEF AfterRequeue
<1> QED
  BY <1>1, <1>4, <1>6 DEF AfterOK

\* handle_prompt_result: every branch leaves a correct queue.
LEMMA AfterResultOK ==
    ASSUME HarnessInv, NEW t, TaskOK(t)
    PROVE  AfterOK(AfterResult(t))
<1>1. /\ fate \in [1..MaxEvents -> Fates]
      /\ QueueOK(queue)
  BY DEF HarnessInv, HistoryOK
<1>2. {"notified", "dropped", "answered"} \subseteq Fates
  BY DEF Fates
<1>3. \A evs : \A end \in {"notified", "dropped", "answered"} :
        AfterOK([queue |-> queue, fate |-> Settle(fate, evs, end)])
  BY <1>1, <1>2, SettleType DEF AfterOK
<1>4. CASE t.retry = NoBatch
  BY <1>3, <1>4 DEF AfterResult
<1>5. CASE t.retry # NoBatch
  <2>1. BatchOK(t.retry)
    BY <1>5 DEF TaskOK, Task, BatchOK
  <2>2. CASE t.channel \in removed
    BY <1>3, <1>5, <2>2 DEF AfterResult
  <2>3. CASE t.channel \notin removed /\ t.outcome \in {"cancelled", "drain_timeout"}
    <3> DEFINE r == IF t.retry.reason = "none" THEN "Steer" ELSE t.retry.reason
    <3>1. r \in Reasons \cup {"none"}
      BY <2>1 DEF BatchOK, Batch, Reasons
    <3>2. AfterResult(t) = [queue |-> RequeueAsCancelled(queue, t.retry, r),
                            fate |-> fate]
      BY <1>5, <2>3 DEF AfterResult
    <3> HIDE DEF r
    <3>3. QueueOK(RequeueAsCancelled(queue, t.retry, r))
      BY <1>1, <2>1, <3>1, RequeueAsCancelledOK
    <3> QED
      BY <1>1, <3>2, <3>3 DEF AfterOK
  <2>4. CASE t.channel \notin removed /\ t.outcome \in {"hard_quiet", "denied"}
    <3>1. AfterResult(t) = [queue |-> queue,
                            fate |-> Settle(fate, BatchItems(t.retry), "notified")]
      BY <1>5, <2>4 DEF AfterResult
    <3> QED
      BY <1>3, <3>1
  <2>5. CASE /\ t.channel \notin removed
             /\ t.outcome \notin {"cancelled", "drain_timeout", "hard_quiet", "denied"}
    <3>1. AfterResult(t) = AfterRequeue(t.retry)
      BY <1>5, <2>5 DEF AfterResult
    <3> QED
      BY <2>1, <3>1, AfterRequeueOK
  <2> QED
    BY <2>2, <2>3, <2>4, <2>5
<1> QED
  BY <1>4, <1>5

\* recover_panicked_agent
LEMMA AfterPanicOK ==
    ASSUME HarnessInv, NEW t, TaskOK(t)
    PROVE  AfterOK(AfterPanic(t))
<1>1. /\ fate \in [1..MaxEvents -> Fates]
      /\ QueueOK(queue)
  BY DEF HarnessInv, HistoryOK
<1>2. Settle(fate, BatchItems(t.batch), "dropped") \in [1..MaxEvents -> Fates]
  BY <1>1, SettleType DEF Fates
<1>3. CASE Recoverable(t)
  <2>1. BatchOK(t.batch)
    BY <1>3 DEF Recoverable, TaskOK, Task, Batch, BatchOK
  <2>2. AfterOK(AfterRequeue(t.batch))
    BY <2>1, AfterRequeueOK
  <2>3. /\ AfterPanic(t).queue = AfterRequeue(t.batch).queue
        /\ AfterPanic(t).fate \in {AfterRequeue(t.batch).fate,
                                   Settle(fate, BatchItems(t.batch), "dropped")}
    BY <1>3 DEF AfterPanic, AfterRequeue
  <2> QED
    BY <1>2, <2>2, <2>3 DEF AfterOK
<1>4. CASE ~Recoverable(t)
  BY <1>1, <1>2, <1>4 DEF AfterPanic, AfterOK
<1> QED
  BY <1>3, <1>4

\* Everything a turn's end can give back is a batch of the turn's own channel.
LEMMA RetryBatchesOK ==
    ASSUME NEW t, TaskOK(t), NEW outcome, NEW b \in RetryBatches(t, outcome)
    PROVE  b = NoBatch \/ (b \in Batch /\ b.channel = t.channel /\ t.channel \in Channels)
<1> DEFINE plain == IF t.channel = NoChannel THEN NoBatch ELSE BatchIfQueue(t.batch)
           cut == CancelledBatch(t.batch, t.control)
<1>1. b \in {NoBatch, plain} \/ (t.control \in Signals /\ b = cut)
  BY DEF RetryBatches
<1>2. plain = NoBatch \/ (plain = t.batch /\ t.channel # NoChannel)
  BY DEF BatchIfQueue
<1>3. t.batch \in Batch /\ t.batch.channel = t.channel
      /\ t.channel \in Channels \cup {NoChannel}
  BY DEF TaskOK, Task
<1>4. t.control \in Signals => t.channel # NoChannel
  BY DEF TaskOK, Signals
<1>5. cut = NoBatch \/ (cut \in Batch /\ cut.channel = t.channel)
  <2>1. cut = NoBatch \/ cut = [t.batch EXCEPT !.reason = "Steer"]
        \/ cut = [t.batch EXCEPT !.reason = "Interrupt"]
    BY DEF CancelledBatch
  <2> HIDE DEF cut
  <2> QED
    BY <1>3, <2>1 DEF Batch, Reasons
<1> HIDE DEF plain, cut
<1> QED
  BY <1>1, <1>2, <1>3, <1>4, <1>5

-----------------------------------------------------------------------------
(* The invariant holds initially and is kept by every action *)

\* The pool as it starts, with at least one agent and nothing queued.
LEMMA InitInv == Init => HarnessInv
<1> SUFFICES ASSUME Init PROVE HarnessInv
  OBVIOUS
<1>1. tasks \in [Agents -> Task] /\ TasksOK(tasks)
  BY NoTaskOK DEF Init, TasksOK, TaskOK
<1>2. QueueOK(queue)
  BY EmptyQueueOK DEF Init
<1>3. FreshSlot \in Slot
  BY ThresholdAssumption DEF FreshSlot, Slot
<1>4. MaxEvents \in Nat /\ MaxFaults \in Nat /\ MaxControls \in Nat
      /\ MaxMemberships \in Nat
  BY HarnessConstants
<1>5. /\ idle \subseteq Agents
      /\ slots \in [Agents -> Slot]
      /\ steers \subseteq SteerRecord
      /\ removed \subseteq Channels
  BY <1>3 DEF Init
<1>6. /\ heartbeat \in BOOLEAN
      /\ pc \in {"top", "collect", "select", "drain", "exited"}
      /\ dispatching \in BOOLEAN
  BY DEF Init
<1>7. nextId \in 1..(MaxEvents + 1)
  BY <1>4 DEF Init
<1>8. budget \in [faults : 0..MaxFaults, controls : 0..MaxControls,
                  memberships : 0..MaxMemberships]
  BY <1>4 DEF Init
<1>9. HistoryOK
  BY QueueConstants DEF Init, HistoryOK, Fates
<1> QED
  BY <1>1, <1>2, <1>5, <1>8, <1>9, <1>6, <1>7 DEF HarnessInv, RestOK

\* Maintenance: compaction, expiry and refill of empty slots.
LEMMA MaintainInv == HarnessInv /\ Maintain => HarnessInv'
<1> SUFFICES ASSUME HarnessInv, Maintain PROVE HarnessInv'
  OBVIOUS
<1>1. QueueOK(queue')
  <2>1. QueueOK(CompactExpiredState(queue))
    BY CompactExpiredStateOK DEF HarnessInv
  <2>2. QueueOK(ExpireInFlight(CompactExpiredState(queue)))
    BY <2>1, ExpireInFlightOK
  <2> QED
    BY <2>2 DEF Maintain
<1>2. slots' \in [Agents -> Slot]
  BY SlotTypes DEF Maintain, HarnessInv, RestOK
<1>3. fate' \in [1..MaxEvents -> Fates]
  BY SettleType DEF Maintain, HarnessInv, HistoryOK, Fates
<1>4. dispatching' \in BOOLEAN
  BY DEF Maintain, HasFlushableWork
<1> QED
  BY <1>1, <1>2, <1>3, <1>4 DEF Maintain, HarnessInv, RestOK, HistoryOK

\* Reading the results of finished respawns.
LEMMA CollectInv == HarnessInv /\ Collect => HarnessInv'
<1> SUFFICES ASSUME HarnessInv, Collect PROVE HarnessInv'
  OBVIOUS
<1>1. slots' \in [Agents -> Slot]
  BY SlotTypes DEF Collect, HarnessInv, RestOK
<1>2. idle' \subseteq Agents /\ dispatching' \in BOOLEAN
  BY DEF Collect, HarnessInv, RestOK
<1> QED
  BY <1>1, <1>2 DEF Collect, HarnessInv, RestOK, HistoryOK

\* dispatch_pending finds nothing to flush.
LEMMA DispatchNothingInv == HarnessInv /\ DispatchNothing => HarnessInv'
<1> SUFFICES ASSUME HarnessInv, DispatchNothing PROVE HarnessInv'
  OBVIOUS
<1>1. QueueOK(queue')
  BY FlushNextOK DEF DispatchNothing, HarnessInv
<1>2. fate' \in [1..MaxEvents -> Fates]
  BY SettleType DEF DispatchNothing, HarnessInv, HistoryOK, Fates
<1> QED
  BY <1>1, <1>2 DEF DispatchNothing, HarnessInv, RestOK, HistoryOK

\* The task dispatch_pending starts for a batch.
LEMMA NewTaskOK ==
    ASSUME NEW b, BatchOK(b), b.events # <<>>
    PROVE  TaskOK([phase |-> "running", channel |-> b.channel, batch |-> b,
                   root |-> b.events[Len(b.events)].root, control |-> "armed",
                   outcome |-> "none", retry |-> NoBatch])
<1>1. b \in Batch /\ b.channel \in Channels /\ b.events \in Seq(Event)
  BY DEF BatchOK, Batch
<1>2. Len(b.events) \in 1..Len(b.events)
  BY <1>1, EmptySeq
<1>3. b.events[Len(b.events)] \in Event
  BY <1>1, <1>2, ElementOfSeq
<1>4. b.events[Len(b.events)].root \in Roots
  BY <1>3 DEF Event
<1>5. NoBatch \in Batch
  BY EmptySeq DEF NoBatch, Batch
<1> QED
  BY <1>1, <1>4, <1>5, ChannelNames DEF TaskOK, Task

\* dispatch_pending starts a turn.
LEMMA DispatchBatchInv == HarnessInv /\ DispatchBatch => HarnessInv'
<1> SUFFICES ASSUME HarnessInv, DispatchBatch PROVE HarnessInv'
  OBVIOUS
<1> DEFINE Started(b) == [phase |-> "running", channel |-> b.channel, batch |-> b,
                          root |-> b.events[Len(b.events)].root, control |-> "armed",
                          outcome |-> "none", retry |-> NoBatch]
<1>1. PICK out \in FlushNext(queue), a \in idle :
        /\ out.batch # NoBatch
        /\ queue' = out.queue
        /\ idle' = idle \ {a}
        /\ tasks' = [tasks EXCEPT ![a] = Started(out.batch)]
  BY DEF DispatchBatch
<1>2. QueueOK(out.queue) /\ FlushOutcomeOK(ExpireInFlight(queue), out)
  BY FlushNextOK DEF HarnessInv
<1>3. BatchOK(out.batch) /\ out.batch.events # <<>>
  BY <1>1, <1>2 DEF FlushOutcomeOK
<1>4. TaskOK(Started(out.batch))
  BY <1>3, NewTaskOK
<1>5. a \in Agents /\ tasks \in [Agents -> Task] /\ TasksOK(tasks)
  BY DEF HarnessInv, RestOK
<1> HIDE DEF Started
<1>6. tasks' \in [Agents -> Task] /\ TasksOK(tasks')
  BY <1>1, <1>4, <1>5, SetTaskOK
<1>7. fate' \in [1..MaxEvents -> Fates]
  BY SettleType DEF DispatchBatch, HarnessInv, HistoryOK, Fates
<1> QED
  BY <1>1, <1>2, <1>6, <1>7 DEF DispatchBatch, HarnessInv, RestOK, HistoryOK

\* dispatch_pending finds a batch but no agent, and puts the batch back.
LEMMA DispatchExhaustedInv == HarnessInv /\ DispatchExhausted => HarnessInv'
<1> SUFFICES ASSUME HarnessInv, DispatchExhausted PROVE HarnessInv'
  OBVIOUS
<1>1. PICK out \in FlushNext(queue) :
        /\ out.batch # NoBatch
        /\ queue' = MarkComplete(RequeuePreserveTimestamps(out.queue, out.batch),
                                 out.batch.channel)
        /\ fate' = Settle(fate, ExpiryEvicts(queue) \cup
                       Overflow(out.queue.queues[out.batch.channel], out.batch.events),
                       "dropped")
  BY DEF DispatchExhausted
<1>2. QueueOK(out.queue) /\ FlushOutcomeOK(ExpireInFlight(queue), out)
  BY FlushNextOK DEF HarnessInv
<1>3. BatchOK(out.batch)
  BY <1>1, <1>2 DEF FlushOutcomeOK
<1>4. QueueOK(RequeuePreserveTimestamps(out.queue, out.batch))
  BY <1>2, <1>3, RequeuePreserveTimestampsOK
<1>5. QueueOK(queue')
  BY <1>1, <1>3, <1>4, MarkCompleteOK DEF BatchOK
<1>6. fate' \in [1..MaxEvents -> Fates]
  BY <1>1, SettleType DEF HarnessInv, HistoryOK, Fates
<1> QED
  BY <1>5, <1>6 DEF DispatchExhausted, HarnessInv, RestOK, HistoryOK

\* handle_prompt_result, every outcome.
LEMMA HandlePromptResultInv ==
    ASSUME HarnessInv, NEW a \in Agents, HandlePromptResult(a)
    PROVE  HarnessInv'
<1> DEFINE t == tasks[a]
           after == AfterResult(t)
<1>1. TaskOK(t) /\ tasks \in [Agents -> Task] /\ TasksOK(tasks)
  BY DEF HarnessInv, TasksOK
<1>2. AfterOK(after)
  BY <1>1, AfterResultOK
<1> HIDE DEF after
<1>3. QueueOK(queue')
  <2>1. QueueOK(after.queue)
    BY <1>2 DEF AfterOK
  <2>2. t.channel # NoChannel => t.channel \in Channels
    BY <1>1 DEF TaskOK, Task
  <2>3. queue' = IF t.channel = NoChannel THEN after.queue
                 ELSE MarkComplete(after.queue, t.channel)
    BY DEF HandlePromptResult, after
  <2> QED
    BY <2>1, <2>2, <2>3, MarkCompleteOK
<1>4. HistoryOK'
  <2>1. fate' = after.fate
    BY DEF HandlePromptResult, after
  <2> QED
    BY <1>2, <2>1 DEF AfterOK, HistoryOK
<1>5. tasks' \in [Agents -> Task] /\ TasksOK(tasks')
  BY <1>1, NoTaskOK, SetTaskOK DEF HandlePromptResult
<1>6. slots' \in [Agents -> Slot] /\ idle' \subseteq Agents
  BY SlotTypes DEF HandlePromptResult, HarnessInv, RestOK
<1>7. heartbeat' \in BOOLEAN /\ pc' \in {"drain", "exited"}
  BY DEF HandlePromptResult, HeartbeatAfter
<1> QED
  BY <1>3, <1>4, <1>5, <1>6, <1>7 DEF HandlePromptResult, HarnessInv, RestOK

\* recover_panicked_agent, from either of its callers.
LEMMA RecoverPanickedInv ==
    ASSUME HarnessInv, NEW a \in Agents, RecoverPanicked(a)
    PROVE  HarnessInv'
<1> DEFINE t == tasks[a]
           after == AfterPanic(t)
<1>1. TaskOK(t) /\ tasks \in [Agents -> Task] /\ TasksOK(tasks)
  BY DEF HarnessInv, TasksOK
<1>2. AfterOK(after)
  BY <1>1, AfterPanicOK
<1> HIDE DEF after
<1>3. QueueOK(queue')
  <2>1. QueueOK(after.queue)
    BY <1>2 DEF AfterOK
  <2>2. t.channel # NoChannel => t.channel \in Channels
    BY <1>1 DEF TaskOK, Task
  <2>3. queue' = IF t.channel = NoChannel THEN after.queue
                 ELSE MarkComplete(after.queue, t.channel)
    BY DEF RecoverPanicked, after
  <2> QED
    BY <2>1, <2>2, <2>3, MarkCompleteOK
<1>4. HistoryOK'
  <2>1. fate' = after.fate
    BY DEF RecoverPanicked, after
  <2> QED
    BY <1>2, <2>1 DEF AfterOK, HistoryOK
<1>5. tasks' \in [Agents -> Task] /\ TasksOK(tasks')
  BY <1>1, NoTaskOK, SetTaskOK DEF RecoverPanicked
<1>6. slots' \in [Agents -> Slot]
  BY SlotTypes DEF RecoverPanicked, HarnessInv, RestOK
<1>7. /\ heartbeat' \in BOOLEAN
      /\ pc' \in {"drain", "exited", "top"}
      /\ dispatching' \in BOOLEAN
  BY DEF RecoverPanicked, HeartbeatAfter, HarnessInv, RestOK
<1> QED
  BY <1>3, <1>4, <1>5, <1>6, <1>7 DEF RecoverPanicked, HarnessInv, RestOK

\* The steer ack arm: success, fallback and neutral.
LEMMA HandleSteerAckInv ==
    ASSUME HarnessInv, NEW s \in steers, HandleSteerAck(s)
    PROVE  HarnessInv'
<1> DEFINE e == s.event
<1>1. e \in Event /\ e.channel \in Channels
  BY DEF HarnessInv, RestOK, SteerRecord, Event
<1> HIDE DEF e
<1>2. QueueOK(queue) /\ fate \in [1..MaxEvents -> Fates]
  BY DEF HarnessInv, HistoryOK
<1>3. QueueOK(queue')
  <2>1. QueueOK(ExtendDeadline(queue, e.channel))
    BY <1>1, <1>2, ExtendDeadlineOK
  <2>2. QueueOK(RemoveEvent(ExtendDeadline(queue, e.channel), e))
    BY <1>1, <2>1, RemoveEventOK
  <2>3. QueueOK(ReleaseNativeSteer(queue, e))
    BY <1>1, <1>2, ReleaseNativeSteerOK
  <2>4. queue' \in {RemoveEvent(ExtendDeadline(queue, e.channel), e),
                    ReleaseNativeSteer(queue, e)}
    BY DEF HandleSteerAck, e
  <2> QED
    BY <2>2, <2>3, <2>4
<1>4. fate' \in [1..MaxEvents -> Fates]
  <2>1. fate' \in {Settle(fate, {e}, "steered"),
                   Settle(fate, ReleaseEvicts(queue, e), "dropped")}
    BY DEF HandleSteerAck, e
  <2> QED
    BY <1>2, <2>1, SettleType DEF Fates
<1>5. tasks' \in [Agents -> Task] /\ TasksOK(tasks')
  <2>1. UNCHANGED tasks
        \/ tasks' \in Signal(ConversationTasks(e.channel, e.root), "Steer")
    BY DEF HandleSteerAck, e
  <2>2. ConversationTasks(e.channel, e.root) \in SUBSET Agents
    BY DEF ConversationTasks, TasksOf, Busy
  <2>3. "Steer" \in Signals
    BY DEF Signals
  <2>4. CASE UNCHANGED tasks
    BY <2>4 DEF HarnessInv
  <2>5. CASE tasks' \in Signal(ConversationTasks(e.channel, e.root), "Steer")
    BY <2>2, <2>3, <2>5, SignalOK
  <2> QED
    BY <2>1, <2>4, <2>5
<1>6. steers' \subseteq SteerRecord
  BY DEF HandleSteerAck, HarnessInv, RestOK
<1> QED
  BY <1>3, <1>4, <1>5, <1>6 DEF HandleSteerAck, HarnessInv, RestOK, HistoryOK

\* A completion check extends the deadline of a running turn.
LEMMA HandleExtendDeadlineInv ==
    ASSUME HarnessInv, NEW c \in Channels, HandleExtendDeadline(c)
    PROVE  HarnessInv'
<1>1. QueueOK(queue')
  BY ExtendDeadlineOK DEF HandleExtendDeadline, HarnessInv
<1> QED
  BY <1>1 DEF HandleExtendDeadline, HarnessInv, RestOK, HistoryOK

\* An event arrives: pushed, steered natively, signalled or dropped.
LEMMA RelayEventInv ==
    ASSUME HarnessInv, NEW shape \in Shapes, RelayEvent(shape)
    PROVE  HarnessInv'
<1> DEFINE e == Arrival(shape)
           q == Push(queue, e)
<1>1. MaxEvents \in Nat /\ nextId \in 1..MaxEvents /\ nextId \in Nat
      /\ nextId' = nextId + 1
  BY HarnessConstants DEF RelayEvent, HarnessInv, RestOK
<1>2. e \in Event
  <2>1. shape \in [channel : Channels, created : Nat, scoped : BOOLEAN,
                   root : Roots, owner : BOOLEAN]
    BY HarnessConstants
  <2> QED
    BY <1>1, <2>1 DEF Arrival, Event
<1>3. QueueOK(queue) /\ QueueOK(q)
  BY <1>2, PushOK DEF HarnessInv
<1>4. tasks \in [Agents -> Task] /\ TasksOK(tasks) /\ steers \subseteq SteerRecord
  BY DEF HarnessInv, RestOK
<1>5. /\ fate' \in [1..MaxEvents -> Fates]
      /\ nextId' \in 1..(MaxEvents + 1)
  <2>1. fate \in [1..MaxEvents -> Fates]
    BY DEF HarnessInv, HistoryOK
  <2>2. Settle(fate, PushEvicts(queue, e), "dropped") \in [1..MaxEvents -> Fates]
    BY <2>1, SettleType DEF Fates
  <2>3. \/ fate' = [Settle(fate, PushEvicts(queue, e), "dropped") EXCEPT ![nextId] = "live"]
        \/ fate' = [fate EXCEPT ![nextId] = "dropped"]
    BY DEF RelayEvent
  <2>4. fate' \in [1..MaxEvents -> Fates]
    BY <2>1, <2>2, <2>3 DEF Fates
  <2> QED
    BY <1>1, <2>4 DEF RelayEvent
<1>6. /\ QueueOK(queue')
      /\ tasks' \in [Agents -> Task] /\ TasksOK(tasks')
      /\ steers' \subseteq SteerRecord
  <2>1. \/ NativeSteer(q, e)
        \/ LeaveOrSignal(q, e)
        \/ UNCHANGED <<queue, steers, tasks>>
    BY DEF RelayEvent
  <2> HIDE DEF q, e
  <2>2. CASE NativeSteer(q, e)
    <3>1. PICK a \in ConversationTasks(e.channel, e.root) :
            /\ queue' = MarkNativeSteerPending(q, e)
            /\ steers' = steers \cup {[event |-> e, agent |-> a, state |-> "buffered"]}
            /\ UNCHANGED tasks
      BY <2>2 DEF NativeSteer
    <3>2. a \in Agents
      BY DEF ConversationTasks, TasksOf, Busy
    <3>3. [event |-> e, agent |-> a, state |-> "buffered"] \in SteerRecord
      BY <1>2, <3>2 DEF SteerRecord
    <3>4. QueueOK(queue')
      BY <1>2, <1>3, <3>1, MarkNativeSteerPendingOK
    <3> QED
      BY <1>4, <3>1, <3>3, <3>4
  <2>3. CASE LeaveOrSignal(q, e)
    <3>1. queue' = q /\ steers' = steers
      BY <2>3 DEF LeaveOrSignal
    <3>2. \/ tasks' = tasks
          \/ \E a \in TasksOf(e.channel) :
                tasks' = TakeControl(a, ModeGateSignal(e)) /\ ModeGateSignal(e) # "none"
      BY <2>3 DEF LeaveOrSignal, MidTurn
    <3>3. ModeGateSignal(e) # "none" => ModeGateSignal(e) \in Signals
      BY DEF ModeGateSignal, Signals
    <3>4. TasksOf(e.channel) \subseteq Agents
      BY DEF TasksOf, Busy
    <3>5. tasks' \in [Agents -> Task] /\ TasksOK(tasks')
      BY <1>4, <3>2, <3>3, <3>4, TakeControlOK
    <3> QED
      BY <1>3, <1>4, <3>1, <3>5
  <2>4. CASE UNCHANGED <<queue, steers, tasks>>
    BY <1>3, <1>4, <2>4
  <2> QED
    BY <2>1, <2>2, <2>3, <2>4
<1> QED
  BY <1>5, <1>6 DEF RelayEvent, HarnessInv, RestOK, HistoryOK

\* !cancel, !rotate, cancel_turn and switch_model.
LEMMA ControlCommandInv ==
    ASSUME HarnessInv, NEW c \in Channels, NEW signal \in Controls,
           ControlCommand(c, signal)
    PROVE  HarnessInv'
<1>1. signal \in Signals
  BY HarnessConstants DEF Signals
<1>2. TasksOf(c) \in SUBSET Agents
  BY DEF TasksOf, Busy
<1>3. tasks' \in [Agents -> Task] /\ TasksOK(tasks')
  BY <1>1, <1>2, SignalOK DEF ControlCommand
<1>4. budget' \in [faults : 0..MaxFaults, controls : 0..MaxControls,
                   memberships : 0..MaxMemberships]
  BY HarnessConstants DEF ControlCommand, HarnessInv, RestOK
<1> QED
  BY <1>3, <1>4 DEF ControlCommand, HarnessInv, RestOK, HistoryOK

\* The agent is removed from a channel: its queue is drained.
LEMMA MemberRemovedInv ==
    ASSUME HarnessInv, NEW c \in Channels, MemberRemoved(c)
    PROVE  HarnessInv'
<1>1. QueueOK(queue')
  BY DrainChannelOK DEF MemberRemoved, HarnessInv
<1>2. fate' \in [1..MaxEvents -> Fates]
  BY SettleType DEF MemberRemoved, HarnessInv, HistoryOK, Fates
<1>3. budget' \in [faults : 0..MaxFaults, controls : 0..MaxControls,
                   memberships : 0..MaxMemberships]
  BY HarnessConstants DEF MemberRemoved, HarnessInv, RestOK
<1> QED
  BY <1>1, <1>2, <1>3 DEF MemberRemoved, HarnessInv, RestOK, HistoryOK

\* The agent is added back to a channel.
LEMMA MemberAddedInv ==
    ASSUME HarnessInv, NEW c \in Channels, MemberAdded(c)
    PROVE  HarnessInv'
<1>1. budget' \in [faults : 0..MaxFaults, controls : 0..MaxControls,
                   memberships : 0..MaxMemberships]
  BY HarnessConstants DEF MemberAdded, HarnessInv, RestOK
<1> QED
  BY <1>1 DEF MemberAdded, HarnessInv, RestOK, HistoryOK

\* The heartbeat starts a turn without a channel, or yields.
LEMMA HeartbeatTickInv == HarnessInv /\ HeartbeatTick => HarnessInv'
<1> SUFFICES ASSUME HarnessInv, HeartbeatTick PROVE HarnessInv'
  OBVIOUS
<1>1. QueueOK(queue')
  BY ExpireInFlightOK DEF HeartbeatTick, HarnessInv
<1>2. fate' \in [1..MaxEvents -> Fates]
  BY SettleType DEF HeartbeatTick, HarnessInv, HistoryOK, Fates
<1>3. dispatching' \in BOOLEAN
  BY DEF HeartbeatTick, HasFlushableWork
<1>4. /\ tasks' \in [Agents -> Task] /\ TasksOK(tasks')
      /\ idle' \subseteq Agents /\ heartbeat' \in BOOLEAN
  <2> DEFINE beat == [NoTask EXCEPT !.phase = "running"]
  <2>1. TaskOK(beat)
    BY NoTaskOK DEF TaskOK, Task, NoTask
  <2>2. tasks \in [Agents -> Task] /\ TasksOK(tasks) /\ idle \subseteq Agents
        /\ heartbeat \in BOOLEAN
    BY DEF HarnessInv, RestOK
  <2>3. \/ \E a \in idle : idle' = idle \ {a} /\ tasks' = [tasks EXCEPT ![a] = beat]
                            /\ heartbeat' = TRUE
        \/ UNCHANGED <<idle, tasks, heartbeat>>
    BY DEF HeartbeatTick
  <2> HIDE DEF beat
  <2>4. CASE \E a \in idle : idle' = idle \ {a} /\ tasks' = [tasks EXCEPT ![a] = beat]
                             /\ heartbeat' = TRUE
    <3>1. PICK a \in idle : /\ idle' = idle \ {a}
                            /\ tasks' = [tasks EXCEPT ![a] = beat]
                            /\ heartbeat' = TRUE
      BY <2>4
    <3>2. a \in Agents
      BY <2>2
    <3>3. tasks' \in [Agents -> Task] /\ TasksOK(tasks')
      BY <2>1, <2>2, <3>1, <3>2, SetTaskOK
    <3> QED
      BY <2>2, <3>1, <3>3
  <2>5. CASE UNCHANGED <<idle, tasks, heartbeat>>
    BY <2>2, <2>5
  <2> QED
    BY <2>3, <2>4, <2>5
<1> QED
  BY <1>1, <1>2, <1>3, <1>4 DEF HeartbeatTick, HarnessInv, RestOK, HistoryOK

\* A step that only moves the main loop keeps the invariant.
LEMMA LoopMovesInv == HarnessInv /\ (DrainDone \/ TimerTick \/ UNCHANGED vars) => HarnessInv'
BY DEF DrainDone, TimerTick, vars, HarnessInv, RestOK, HistoryOK

\* A task that ends resolves its steers and nobody else's.
LEMMA SteersAfterType ==
    ASSUME HarnessInv, NEW a \in Agents
    PROVE  SteersAfter(a) \subseteq SteerRecord
BY DEF SteersAfter, HarnessInv, RestOK, SteerRecord, Resolved

\* A prompt task ends and leaves its result.
LEMMA TaskFinishesInv ==
    ASSUME HarnessInv, NEW a \in Agents, NEW outcome \in Outcomes,
           TaskFinishes(a, outcome)
    PROVE  HarnessInv'
<1>1. PICK b \in RetryBatches(tasks[a], outcome) :
        tasks' = [tasks EXCEPT ![a].phase = "done", ![a].outcome = outcome, ![a].retry = b]
  BY DEF TaskFinishes
<1> DEFINE t == [tasks[a] EXCEPT !.phase = "done", !.outcome = outcome, !.retry = b]
<1>2. TaskOK(tasks[a]) /\ tasks \in [Agents -> Task] /\ TasksOK(tasks)
  BY DEF HarnessInv, TasksOK
<1>3. TaskOK(t)
  <2>1. b = NoBatch \/ (b \in Batch /\ b.channel = tasks[a].channel
                        /\ tasks[a].channel \in Channels)
    BY <1>2, RetryBatchesOK
  <2>2. NoBatch \in Batch
    BY EmptySeq DEF NoBatch, Batch
  <2> QED
    BY <1>2, <2>1, <2>2 DEF TaskOK, Task
<1>4. tasks' = [tasks EXCEPT ![a] = t]
  BY <1>1, <1>2
<1> HIDE DEF t
<1>5. tasks' \in [Agents -> Task] /\ TasksOK(tasks')
  BY <1>2, <1>3, <1>4, SetTaskOK
<1>6. budget' \in [faults : 0..MaxFaults, controls : 0..MaxControls,
                   memberships : 0..MaxMemberships]
  BY HarnessConstants DEF TaskFinishes, HarnessInv, RestOK
<1>7. steers' \subseteq SteerRecord
  BY SteersAfterType DEF TaskFinishes
<1> QED
  BY <1>5, <1>6, <1>7 DEF TaskFinishes, HarnessInv, RestOK, HistoryOK

\* A prompt task panics.
LEMMA TaskPanicsInv ==
    ASSUME HarnessInv, NEW a \in Agents, TaskPanics(a)
    PROVE  HarnessInv'
<1> DEFINE t == [tasks[a] EXCEPT !.phase = "panicked"]
<1>1. TaskOK(tasks[a]) /\ tasks \in [Agents -> Task] /\ TasksOK(tasks)
  BY DEF HarnessInv, TasksOK
<1>2. TaskOK(t)
  BY <1>1 DEF TaskOK, Task
<1>3. tasks' = [tasks EXCEPT ![a] = t]
  BY <1>1 DEF TaskPanics
<1> HIDE DEF t
<1>4. tasks' \in [Agents -> Task] /\ TasksOK(tasks')
  BY <1>1, <1>2, <1>3, SetTaskOK
<1>5. budget' \in [faults : 0..MaxFaults, controls : 0..MaxControls,
                   memberships : 0..MaxMemberships]
  BY HarnessConstants DEF TaskPanics, HarnessInv, RestOK
<1>6. steers' \subseteq SteerRecord
  BY SteersAfterType DEF TaskPanics
<1> QED
  BY <1>4, <1>5, <1>6 DEF TaskPanics, HarnessInv, RestOK, HistoryOK

\* The read loop writes or resolves a native steer.
LEMMA SteerStepInv ==
    ASSUME HarnessInv, NEW s \in steers, NEW state \in Resolved \cup {"written"},
           SteerStep(s, state)
    PROVE  HarnessInv'
<1>1. steers' \subseteq SteerRecord
  BY DEF SteerStep, HarnessInv, RestOK, SteerRecord, Resolved
<1> QED
  BY <1>1 DEF SteerStep, HarnessInv, RestOK, HistoryOK

\* A background respawn leaves its result.
LEMMA RespawnEndsInv ==
    ASSUME HarnessInv, NEW a \in Agents, NEW result \in {"ok", "failed"},
           RespawnEnds(a, result)
    PROVE  HarnessInv'
<1>1. slots' \in [Agents -> Slot]
  BY DEF RespawnEnds, HarnessInv, RestOK, Slot
<1>2. budget' \in [faults : 0..MaxFaults, controls : 0..MaxControls,
                   memberships : 0..MaxMemberships]
  BY HarnessConstants DEF RespawnEnds, HarnessInv, RestOK
<1> QED
  BY <1>1, <1>2 DEF RespawnEnds, HarnessInv, RestOK, HistoryOK

\* A throttle or a deadline passes.
LEMMA ClocksInv ==
    ASSUME HarnessInv, NEW c \in Channels, RetryAfterPasses(c) \/ DeadlinePasses(c)
    PROVE  HarnessInv'
<1>1. QueueOK(queue')
  <2>1. CASE RetryAfterPasses(c)
    BY <2>1 DEF RetryAfterPasses, HarnessInv, QueueOK, QueueState, DeadlinesMatch,
                WithinCap, ThrottleCounted, Clock
  <2>2. CASE DeadlinePasses(c)
    BY <2>2 DEF DeadlinePasses, HarnessInv, QueueOK, QueueState, DeadlinesMatch,
                WithinCap, ThrottleCounted, Clock
  <2> QED
    BY <2>1, <2>2
<1> QED
  BY <1>1 DEF RetryAfterPasses, DeadlinePasses, HarnessInv, RestOK, HistoryOK

\* A cooldown ends, or a crash leaves the window.
LEMMA CircuitAgesInv ==
    ASSUME HarnessInv, NEW a \in Agents, CircuitAges(a)
    PROVE  HarnessInv'
<1>1. slots' \in [Agents -> Slot]
  <2>1. slots \in [Agents -> Slot] /\ Threshold \in Nat
    BY ThresholdAssumption DEF HarnessInv, RestOK
  <2>2. CASE slots' = [slots EXCEPT ![a].circuit = "elapsed"]
    BY <2>1, <2>2 DEF Slot
  <2>3. CASE slots[a].crashes > 0 /\ slots' = [slots EXCEPT ![a].crashes = @ - 1]
    <3>1. slots[a].crashes - 1 \in 0..Threshold
      BY <2>1, <2>3 DEF Slot
    <3> QED
      BY <2>1, <2>3, <3>1 DEF Slot
  <2> QED
    BY <2>2, <2>3 DEF CircuitAges
<1> QED
  BY <1>1 DEF CircuitAges, HarnessInv, RestOK, HistoryOK

\* Every step of the harness keeps the invariant.
LEMMA NextInv == HarnessInv /\ [Next]_vars => HarnessInv'
<1> SUFFICES ASSUME HarnessInv, [Next]_vars PROVE HarnessInv'
  OBVIOUS
<1>1. CASE LoopStep
  <2>1. CASE Maintain
    BY <2>1, MaintainInv
  <2>2. CASE Collect
    BY <2>2, CollectInv
  <2>3. CASE DispatchNothing
    BY <2>3, DispatchNothingInv
  <2>4. CASE DispatchBatch
    BY <2>4, DispatchBatchInv
  <2>5. CASE DispatchExhausted
    BY <2>5, DispatchExhaustedInv
  <2>6. CASE DrainDone \/ TimerTick
    BY <2>6, LoopMovesInv
  <2>7. CASE \E a \in Agents : HandlePromptResult(a) \/ RecoverPanicked(a)
    BY <2>7, HandlePromptResultInv, RecoverPanickedInv
  <2>8. CASE \E s \in steers : HandleSteerAck(s)
    BY <2>8, HandleSteerAckInv
  <2>9. CASE \E c \in Channels : HandleExtendDeadline(c)
    BY <2>9, HandleExtendDeadlineInv
  <2>10. CASE \E shape \in Shapes : RelayEvent(shape)
    BY <2>10, RelayEventInv
  <2>11. CASE \E c \in Channels, signal \in Controls : ControlCommand(c, signal)
    BY <2>11, ControlCommandInv
  <2>12. CASE \E c \in Channels : MemberRemoved(c) \/ MemberAdded(c)
    BY <2>12, MemberRemovedInv, MemberAddedInv
  <2>13. CASE HeartbeatTick
    BY <2>13, HeartbeatTickInv
  <2> QED
    BY <1>1, <2>1, <2>2, <2>3, <2>4, <2>5, <2>6, <2>7, <2>8, <2>9, <2>10, <2>11, <2>12,
       <2>13 DEF LoopStep
<1>2. CASE OtherStep
  <2>1. CASE \E a \in Agents, outcome \in Outcomes : TaskFinishes(a, outcome)
    BY <2>1, TaskFinishesInv
  <2>2. CASE \E a \in Agents : TaskPanics(a) \/ CircuitAges(a)
    BY <2>2, TaskPanicsInv, CircuitAgesInv
  <2>3. CASE \E a \in Agents, result \in {"ok", "failed"} : RespawnEnds(a, result)
    BY <2>3, RespawnEndsInv
  <2>4. CASE \E s \in steers, state \in Resolved \cup {"written"} : SteerStep(s, state)
    BY <2>4, SteerStepInv
  <2>5. CASE \E c \in Channels : RetryAfterPasses(c) \/ DeadlinePasses(c)
    BY <2>5, ClocksInv
  <2> QED
    BY <1>2, <2>1, <2>2, <2>3, <2>4, <2>5 DEF OtherStep
<1>3. CASE Exited \/ UNCHANGED vars
  BY <1>3, LoopMovesInv DEF Exited
<1> QED
  BY <1>1, <1>2, <1>3 DEF Next

\* The inductive invariant holds in every behaviour.
THEOREM HarnessInvariant == Spec => []HarnessInv
<1> QED
  BY InitInv, NextInv, PTL DEF Spec

\* Every variable of the harness keeps its type, for every pool, channel set
\* and bound: no method indexes an absent entry, no counter leaves its range.
THEOREM TypeCorrect == Spec => []TypeOK
<1>1. HarnessInv => TypeOK
  BY DEF HarnessInv, QueueOK, RestOK, HistoryOK, TypeOK
<1> QED
  BY <1>1, HarnessInvariant, PTL

\* A channel is in flight exactly while it has a deadline, also when turns
\* outlive their deadline and acks come late: no channel can be wedged.
THEOREM DeadlineSafety == Spec => []InFlightHasDeadline
<1>1. HarnessInv => InFlightHasDeadline
  BY DEF HarnessInv, QueueOK, DeadlinesMatch, InFlightHasDeadline
<1> QED
  BY <1>1, HarnessInvariant, PTL

\* No channel's queue outgrows MAX_PENDING_PER_CHANNEL.
THEOREM CapSafety == Spec => []QueueCapped
<1>1. HarnessInv => QueueCapped
  BY DEF HarnessInv, QueueOK, WithinCap, QueueCapped
<1> QED
  BY <1>1, HarnessInvariant, PTL

\* The retry counter stays within MAX_RETRIES, and a running throttle always
\* belongs to a counted attempt.
THEOREM BackoffSafety == Spec => []BackoffCounted
<1>1. HarnessInv => BackoffCounted
  BY DEF HarnessInv, QueueOK, ThrottleCounted, BackoffCounted
<1> QED
  BY <1>1, HarnessInvariant, PTL

=============================================================================
