------------------------------- MODULE PromptProofs -------------------------------
(***************************************************************************)
(* What a prompt of the harness is made of, proved for every pool, every   *)
(* set of channels and every bound: a scoped request is prompted alone,    *)
(* while no turn outlives its in-flight deadline; and in a harness that    *)
(* queues what arrives during a turn, the last event of a prompt is the    *)
(* newest and no event disappears between prompts.                         *)
(***************************************************************************)
EXTENDS EventProofs

-----------------------------------------------------------------------------
(* Scoped requests *)

\* Some event of the set is a scoped request.
Scoped(S) == \E e \in S : e.scoped

\* A batch with a scoped request has nothing else.
Alone(b) == Scoped(BatchItems(b)) => Len(b.events) = 1 /\ b.cancelled = <<>>

\* At most one event of the set is a scoped request.
FewScoped(S) == \A e, f \in S : e.scoped /\ f.scoped => e = f

\* HasScoped looks at the items of its sequence.
LEMMA ScopedItems ==
    ASSUME NEW s
    PROVE  HasScoped(s) <=> Scoped(Items(s))
BY DEF HasScoped, Scoped, Items

\* A drained prefix with a scoped request is that request.
LEMMA DrainScoped ==
    ASSUME NEW s \in Seq(Event), s # <<>>, NEW n, n = DrainCount(s), HasScoped(SubSeq(s, 1, n))
    PROVE  n = 1
<1>1. n \in 1..Len(s) /\ Len(s) \in Nat
  BY DrainCountType, LenProperties
<1>2. 1 \in Nat \ {0} /\ n \in Int /\ n <= Len(s)
  BY <1>1
<1>3. Items(SubSeq(s, 1, n)) = {s[i] : i \in 1..n} /\ Items(SubSeq(s, 1, n)) \subseteq Items(s)
  BY <1>2, SubSeqDistinct
<1>4. PICK j \in 1..n : s[j].scoped
  <2>1. Scoped(Items(SubSeq(s, 1, n)))
    BY ScopedItems
  <2> QED
    BY <1>3, <2>1 DEF Scoped
<1>5. HasScoped(s)
  <2>1. Scoped(Items(SubSeq(s, 1, n)))
    BY ScopedItems
  <2>2. Scoped(Items(s))
    BY <1>3, <2>1 DEF Scoped
  <2> QED
    BY <2>2, ScopedItems
<1>6. /\ FirstScoped(s) \in 1..Len(s)
      /\ \A i \in 1..(FirstScoped(s) - 1) : ~s[i].scoped
  BY <1>5, FirstScopedType, LenProperties
<1>7. CASE FirstScoped(s) = 1
  BY <1>5, <1>7 DEF DrainCount
<1>8. CASE FirstScoped(s) # 1
  <2>1. n = Least(MaxBatch, FirstScoped(s) - 1)
    BY <1>5, <1>8 DEF DrainCount
  <2>2. n <= FirstScoped(s) - 1
    BY <1>6, <2>1, LeastProperties, QueueConstants
  <2>3. j \in 1..(FirstScoped(s) - 1)
    BY <1>1, <1>4, <1>6, <2>2
  <2> QED
    BY <1>4, <1>6, <2>3
<1> QED
  BY <1>7, <1>8

\* What the cancelled events of a queue promise: a channel with a cancelled scoped
\* request is not throttled, and has one of them only.
CancelledScope(q) ==
    \A c \in Channels : Scoped(Items(q.cancelled[c])) =>
        q.retryAfter[c] # "active" /\ FewScoped(Items(q.cancelled[c]))

\* What flush_next takes: a scoped request alone and from an unthrottled channel;
\* none stays cancelled in the channel it takes from.
FlushScope(q, out) ==
    /\ Alone(out.batch)
    /\ out.queue.retryAfter = q.retryAfter
    /\ Scoped(BatchItems(out.batch)) => q.retryAfter[out.batch.channel] # "active"
    /\ ~Scoped(Items(out.queue.cancelled[out.batch.channel]))

\* The scoped branch of flush_next.
LEMMA FlushScopedScope ==
    ASSUME NEW q, QueueOK(q), CancelledScope(q), NEW c \in ScopedRecoverable(q), ChannelSound(q, c)
    PROVE  FlushScope(q, FlushScoped(q, c))
<1> DEFINE s == q.cancelled[c]
           k == FirstScoped(s)
           v == DropAt(s, k)
           out == FlushScoped(q, c)
<1>1. c \in Channels /\ HasScoped(s) /\ q \in QueueState /\ q.retryAfter[c] # "active"
  BY DEF ScopedRecoverable, Unthrottled, QueueOK
<1>2. s \in Seq(Event) /\ Distinct(s)
  BY <1>1, FieldTypes DEF ChannelSound
<1>3. k \in DOMAIN s /\ s[k].scoped
  BY <1>1, <1>2, FirstScopedType
<1>4. Items(v) = Items(s) \ {s[k]} /\ s[k] \in Items(s)
  <2>1. s[k] \in Items(s)
    BY <1>3 DEF Items
  <2> QED
    BY <1>2, <1>3, <2>1, DropAtDistinct
<1>5. out.queue.cancelled[c] = v /\ out.queue.retryAfter = q.retryAfter
  BY <1>1 DEF FlushScoped, TakeFlight, QueueState
<1>6. out.batch.channel = c /\ out.batch.events = <<s[k]>> /\ out.batch.cancelled = <<>>
  BY DEF FlushScoped
<1> HIDE DEF out, v, k
<1>7. ~Scoped(Items(v))
  <2>1. Scoped(Items(s))
    BY <1>1, ScopedItems
  <2>2. FewScoped(Items(s))
    BY <1>1, <2>1 DEF CancelledScope
  <2> HIDE DEF s
  <2> QED
    BY <1>3, <1>4, <2>2 DEF FewScoped, Scoped
<1>8. Alone(out.batch)
  <2>1. Len(out.batch.events) = 1
    BY <1>6
  <2> QED
    BY <1>6, <2>1 DEF Alone
<1> QED
  BY <1>1, <1>5, <1>6, <1>7, <1>8 DEF FlushScope, out

\* The cancelled events of a channel that flush_next could have taken a scoped
\* request from have none, when no channel has.
LEMMA NoneRecoverable ==
    ASSUME NEW q, CancelledScope(q), ScopedRecoverable(q) = {}, NEW c \in Channels \ q.inFlight
    PROVE  ~Scoped(Items(q.cancelled[c]))
<1> SUFFICES ASSUME Scoped(Items(q.cancelled[c])) PROVE FALSE
  OBVIOUS
<1>1. q.retryAfter[c] # "active" /\ HasScoped(q.cancelled[c])
  BY ScopedItems DEF CancelledScope
<1> QED
  BY <1>1 DEF ScopedRecoverable, Unthrottled

\* Nothing queued is ready.
LEMMA FlushCancelledScope ==
    ASSUME NEW q, QueueOK(q), CancelledScope(q), ScopedRecoverable(q) = {},
           NEW c \in CancelledIdle(q)
    PROVE  FlushScope(q, FlushCancelled(q, c))
<1> DEFINE out == FlushCancelled(q, c)
<1>1. c \in Channels \ q.inFlight /\ q \in QueueState
  BY DEF CancelledIdle, QueueOK
<1>2. ~Scoped(Items(q.cancelled[c]))
  BY <1>1, NoneRecoverable
<1>3. out.queue.cancelled[c] = <<>> /\ out.queue.retryAfter = q.retryAfter
  BY <1>1 DEF FlushCancelled, TakeFlight, QueueState
<1>4. out.batch.channel = c /\ out.batch.events = q.cancelled[c] /\ out.batch.cancelled = <<>>
  BY DEF FlushCancelled
<1> HIDE DEF out
<1>5. ~Scoped(BatchItems(out.batch)) /\ ~Scoped(Items(out.queue.cancelled[c]))
  BY <1>2, <1>3, <1>4, EmptyItems DEF BatchItems, Scoped
<1> QED
  BY <1>3, <1>4, <1>5 DEF FlushScope, Alone, out

\* A drained batch.
LEMMA FlushQueuedScope ==
    ASSUME NEW q, QueueOK(q), CancelledScope(q), ScopedRecoverable(q) = {},
           NEW c \in Candidates(q), NEW out \in FlushQueued(q, c)
    PROVE  FlushScope(q, out)
<1> DEFINE s == q.queues[c]
           n == DrainCount(s)
           taken == SubSeq(s, 1, n)
           u == SubSeq(s, n + 1, Len(s))
           k == q.cancelled[c]
           left == [q EXCEPT !.queues[c] = u]
           merged == [left EXCEPT !.cancelled[c] = <<>>, !.cancelReasons[c] = "none"]
           reason == IF q.cancelled[c] = <<>> THEN "none" ELSE q.cancelReasons[c]
<1>1. c \in Channels \ q.inFlight /\ q \in QueueState /\ s # <<>> /\ q.retryAfter[c] # "active"
  BY DEF Candidates, Unthrottled, QueueOK
<1>2. s \in Seq(Event) /\ Len(s) \in Nat
  BY <1>1, FieldTypes, LenProperties
<1>3. n \in 1..Len(s)
  BY <1>1, <1>2, DrainCountType
<1>4. taken \in Seq(Event) /\ Len(taken) = n
  <2> HIDE DEF n, s
  <2> QED
    BY <1>2, <1>3, SubSeqInside
<1>5. ~Scoped(Items(k))
  BY <1>1, NoneRecoverable
<1>6. CASE HasScoped(taken)
  <2>1. PICK evs \in SortedByCreated(taken) :
          out = [queue |-> TakeFlight(left, c),
                 batch |-> [channel |-> c, events |-> evs, cancelled |-> <<>>,
                            reason |-> "none"]]
    BY <1>6 DEF FlushQueued
  <2>2. n = 1
    BY <1>1, <1>2, <1>6, DrainScoped
  <2> HIDE DEF taken, u, n
  <2>3. Len(evs) = 1
    BY <1>4, <2>2, SortedType
  <2>4. out.queue.cancelled[c] = k /\ out.queue.retryAfter = q.retryAfter
    BY <1>1, <2>1 DEF TakeFlight, QueueState
  <2>5. out.batch.channel = c /\ out.batch.events = evs /\ out.batch.cancelled = <<>>
    BY <2>1
  <2> HIDE DEF k
  <2> QED
    BY <1>1, <1>5, <2>3, <2>4, <2>5 DEF FlushScope, Alone
<1>7. CASE ~HasScoped(taken)
  <2>1. PICK evs \in SortedByCreated(taken) :
          out = [queue |-> TakeFlight(merged, c),
                 batch |-> [channel |-> c, events |-> evs, cancelled |-> q.cancelled[c],
                            reason |-> reason]]
    BY <1>7 DEF FlushQueued
  <2> HIDE DEF taken, u, n, reason
  <2>2. Items(evs) = Items(taken)
    BY <1>4, SortedItems
  <2>3. ~Scoped(Items(taken))
    BY <1>7, ScopedItems
  <2>4. out.queue.cancelled[c] = <<>> /\ out.queue.retryAfter = q.retryAfter
    BY <1>1, <2>1 DEF TakeFlight, QueueState
  <2>5. out.batch.channel = c /\ out.batch.events = evs /\ out.batch.cancelled = k
    BY <2>1
  <2> HIDE DEF k
  <2>6. ~Scoped(BatchItems(out.batch))
    BY <1>5, <2>2, <2>3, <2>5 DEF BatchItems, Scoped
  <2>7. ~Scoped(Items(out.queue.cancelled[c]))
    BY <2>4, EmptyItems DEF Scoped
  <2> QED
    BY <2>4, <2>5, <2>6, <2>7 DEF FlushScope, Alone
<1> QED
  BY <1>6, <1>7

\* flush_next, whichever branch it takes.
LEMMA FlushNextScope ==
    ASSUME NEW q, QueueOK(q), CancelledScope(q), NEW out \in FlushNext(q), out.batch # NoBatch,
           \A c \in Channels : ChannelSound(q, c)
    PROVE  FlushScope(q, out)
<1> DEFINE x == ExpireInFlight(q)
<1>1. QueueOK(x) /\ (\A c \in Channels : ChannelSound(x, c))
      /\ x.cancelled = q.cancelled /\ x.retryAfter = q.retryAfter
  <2>1. x.cancelled = q.cancelled /\ x.retryAfter = q.retryAfter
    BY DEF ExpireInFlight, QueueOK, QueueState
  <2> QED
    BY <2>1, ExpireInFlightOK, ExpireMoves
<1>2. \/ \E c \in ScopedRecoverable(x) : out = FlushScoped(x, c)
      \/ ScopedRecoverable(x) = {} /\ \E c \in Candidates(x) : out \in FlushQueued(x, c)
      \/ ScopedRecoverable(x) = {} /\ \E c \in CancelledIdle(x) : out = FlushCancelled(x, c)
  BY DEF FlushNext, OldestHeads
<1> HIDE DEF x
<1>3. CancelledScope(x)
  BY <1>1 DEF CancelledScope
<1>4. ScopedRecoverable(x) \subseteq Channels
  BY DEF ScopedRecoverable
<1>5. FlushScope(x, out)
  BY <1>1, <1>2, <1>3, <1>4, FlushScopedScope, FlushQueuedScope, FlushCancelledScope
<1> QED
  BY <1>1, <1>5 DEF FlushScope

\* Scoped requests are alone in their turn, their channel is not throttled, and a
\* cancelled one waits, single, in a channel without a turn.
ScopeInv ==
    /\ \A a \in Busy : Alone(tasks[a].batch)
    /\ \A a \in Busy : tasks[a].channel \in Channels /\ Scoped(BatchItems(tasks[a].batch)) =>
          queue.retryAfter[tasks[a].channel] # "active"
    /\ CancelledScope(queue)
    /\ \A c \in Channels : Scoped(Items(queue.cancelled[c])) => TasksOf(c) = {}

\* A step that cancels nothing, throttles nothing and starts no turn with events.
LEMMA ScopeFrame ==
    ASSUME ScopeInv,
           \A c \in Channels : Items(queue'.cancelled[c]) \subseteq Items(queue.cancelled[c]),
           \A c \in Channels : queue'.retryAfter[c] = "active" => queue.retryAfter[c] = "active",
           \A a \in Agents : tasks'[a].phase # "none" =>
              \/ /\ tasks[a].phase # "none" /\ tasks'[a].batch = tasks[a].batch
                 /\ tasks'[a].channel = tasks[a].channel
              \/ tasks'[a].batch = NoBatch /\ tasks'[a].channel = NoChannel
    PROVE  ScopeInv'
<1>1. \A a \in Busy' : \/ /\ a \in Busy /\ tasks'[a].batch = tasks[a].batch
                          /\ tasks'[a].channel = tasks[a].channel
                       \/ tasks'[a].batch = NoBatch /\ tasks'[a].channel = NoChannel
  BY DEF Busy
<1>2. Alone(NoBatch) /\ ~Scoped(BatchItems(NoBatch))
  BY NoBatchSound DEF Alone, Scoped
<1>3. \A a \in Busy' : Alone(tasks'[a].batch)
  BY <1>1, <1>2 DEF ScopeInv
<1>4. \A a \in Busy' : tasks'[a].channel \in Channels /\ Scoped(BatchItems(tasks'[a].batch)) =>
          queue'.retryAfter[tasks'[a].channel] # "active"
  BY <1>1, <1>2 DEF ScopeInv
<1>5. \A c \in Channels : Scoped(Items(queue'.cancelled[c])) => Scoped(Items(queue.cancelled[c]))
  BY DEF Scoped
<1>6. CancelledScope(queue')
  BY <1>5 DEF ScopeInv, CancelledScope, FewScoped
<1>7. \A c \in Channels : TasksOf(c)' \subseteq TasksOf(c)
  BY <1>1, ChannelNames DEF TasksOf
<1>8. \A c \in Channels : Scoped(Items(queue'.cancelled[c])) => TasksOf(c)' = {}
  BY <1>5, <1>7 DEF ScopeInv
<1> QED
  BY <1>3, <1>4, <1>6, <1>8 DEF ScopeInv

\* dispatch_pending starts a turn.
LEMMA DispatchBatchScope ==
    ASSUME HarnessInv, PlaceInv, ScopeInv, DispatchBatch
    PROVE  ScopeInv'
<1> DEFINE Started(b) == [phase |-> "running", channel |-> b.channel, batch |-> b,
                          root |-> b.events[Len(b.events)].root, control |-> "armed",
                          outcome |-> "none", retry |-> NoBatch]
<1>0. \A b : Started(b).batch = b /\ Started(b).channel = b.channel
  OBVIOUS
<1>1. PICK out \in FlushNext(queue), a \in idle :
        /\ out.batch # NoBatch
        /\ queue' = out.queue
        /\ tasks' = [tasks EXCEPT ![a] = Started(out.batch)]
  BY DEF DispatchBatch
<1> HIDE DEF Started
<1> DEFINE c == out.batch.channel
<1>2. a \in Agents /\ tasks \in [Agents -> Task] /\ QueueOK(queue)
      /\ \A d \in Channels : ChannelSound(queue, d)
  BY DEF HarnessInv, RestOK, PlaceInv, PlaceOK, Separate
<1>3. /\ tasks'[a].batch = out.batch /\ tasks'[a].channel = c
      /\ \A b \in Agents : b # a => tasks'[b] = tasks[b]
  BY <1>0, <1>1, <1>2
<1>4. FlushScope(queue, out)
  BY <1>1, <1>2, FlushNextScope DEF ScopeInv
<1>5. FlushMoves(ExpireInFlight(queue), out) /\ ExpireInFlight(queue).cancelled = queue.cancelled
  BY <1>2, FlushNextMoves DEF ExpireInFlight, QueueOK, QueueState
<1>6. c \in Channels /\ \A d \in Channels \ {c} : queue'.cancelled[d] = queue.cancelled[d]
  BY <1>1, <1>5 DEF FlushMoves, OthersSame
<1> HIDE DEF c
<1>7. /\ Alone(out.batch) /\ queue'.retryAfter = queue.retryAfter
      /\ Scoped(BatchItems(out.batch)) => queue.retryAfter[c] # "active"
      /\ ~Scoped(Items(queue'.cancelled[c]))
  BY <1>1, <1>4 DEF FlushScope, c
<1>8. \A b \in Busy' : b = a \/ (b \in Busy /\ tasks'[b] = tasks[b])
  BY <1>3 DEF Busy
<1>9. \A b \in Busy' : Alone(tasks'[b].batch)
  BY <1>3, <1>7, <1>8 DEF ScopeInv
<1>10. \A b \in Busy' : tasks'[b].channel \in Channels /\ Scoped(BatchItems(tasks'[b].batch)) =>
          queue'.retryAfter[tasks'[b].channel] # "active"
  BY <1>3, <1>7, <1>8 DEF ScopeInv
<1>11. CancelledScope(queue')
  BY <1>6, <1>7 DEF ScopeInv, CancelledScope
<1>12. \A d \in Channels \ {c} : TasksOf(d)' \subseteq TasksOf(d)
  BY <1>3, <1>8 DEF TasksOf
<1>13. \A d \in Channels : Scoped(Items(queue'.cancelled[d])) => TasksOf(d)' = {}
  BY <1>6, <1>7, <1>12 DEF ScopeInv
<1> QED
  BY <1>9, <1>10, <1>11, <1>13 DEF ScopeInv

\* dispatch_pending finds no agent.
LEMMA DispatchExhaustedScope ==
    ASSUME HarnessInv, PlaceInv, ScopeInv, DispatchExhausted
    PROVE  ScopeInv'
<1>1. PICK out \in FlushNext(queue) :
        /\ out.batch # NoBatch
        /\ queue' = MarkComplete(RequeuePreserveTimestamps(out.queue, out.batch),
                                 out.batch.channel)
  BY DEF DispatchExhausted
<1> DEFINE r == RequeuePreserveTimestamps(out.queue, out.batch)
           c == out.batch.channel
<1>2. QueueOK(queue) /\ \A d \in Channels : ChannelSound(queue, d)
  BY DEF HarnessInv, PlaceInv, PlaceOK, Separate
<1>3. FlushScope(queue, out)
  BY <1>1, <1>2, FlushNextScope DEF ScopeInv
<1>4. FlushMoves(ExpireInFlight(queue), out) /\ ExpireInFlight(queue).cancelled = queue.cancelled
  BY <1>2, FlushNextMoves DEF ExpireInFlight, QueueOK, QueueState
<1>5. \A d \in Channels : Items(out.queue.cancelled[d]) \subseteq Items(queue.cancelled[d])
  BY <1>1, <1>4 DEF FlushMoves, OthersSame
<1>6. QueueOK(out.queue) /\ BatchOK(out.batch)
  BY <1>1, <1>2, FlushNextOK DEF FlushOutcomeOK
<1>7. r \in QueueState /\ r.cancelled = out.queue.cancelled /\ r.retryAfter = out.queue.retryAfter
  BY <1>6, RequeuePreserveTimestampsOK DEF QueueOK, RequeuePreserveTimestamps, QueueState
<1> HIDE DEF r
<1>8. /\ queue'.cancelled = r.cancelled
      /\ \A d \in Channels : queue'.retryAfter[d] = "active" => r.retryAfter[d] = "active"
  BY <1>1, <1>6, <1>7 DEF MarkComplete, QueueState, BatchOK, r
<1>9. tasks' = tasks
  BY DEF DispatchExhausted
<1> QED
  BY <1>3, <1>5, <1>7, <1>8, <1>9, ScopeFrame DEF FlushScope

\* What requeue and requeue_as_cancelled do to the throttles and the cancelled
\* events.
LEMMA RequeueScope ==
    ASSUME NEW q, QueueOK(q), NEW b, BatchOK(b), NEW reason
    PROVE  /\ Requeue(q, b).cancelled = q.cancelled
           /\ \A d \in Channels \ {b.channel} : Requeue(q, b).retryAfter[d] = q.retryAfter[d]
           /\ RequeueAsCancelled(q, b, reason).retryAfter = q.retryAfter
           /\ \A d \in Channels \ {b.channel} :
                RequeueAsCancelled(q, b, reason).cancelled[d] = q.cancelled[d]
           /\ Items(RequeueAsCancelled(q, b, reason).cancelled[b.channel]) =
                Items(q.cancelled[b.channel]) \cup BatchItems(b)
<1>1. q \in QueueState /\ b.channel \in Channels /\ b.events \in Seq(Event)
      /\ b.cancelled \in Seq(Event) /\ q.cancelled[b.channel] \in Seq(Event)
  BY FieldTypes DEF QueueOK, BatchOK, Batch
<1>2. /\ Requeue(q, b).cancelled = q.cancelled
      /\ \A d \in Channels \ {b.channel} : Requeue(q, b).retryAfter[d] = q.retryAfter[d]
  BY <1>1 DEF Requeue, QueueState
<1>3. /\ RequeueAsCancelled(q, b, reason).retryAfter = q.retryAfter
      /\ \A d \in Channels \ {b.channel} :
           RequeueAsCancelled(q, b, reason).cancelled[d] = q.cancelled[d]
      /\ RequeueAsCancelled(q, b, reason).cancelled[b.channel] =
           q.cancelled[b.channel] \o b.cancelled \o b.events
  BY <1>1 DEF RequeueAsCancelled, QueueState
<1> DEFINE s == q.cancelled[b.channel]
           t == b.cancelled
           u == b.events
<1> HIDE DEF s, t, u
<1>4. s \o t \in Seq(Event) /\ Items(s \o t) = Items(s) \cup Items(t)
  BY <1>1, ConcatDistinct, ConcatProperties DEF s, t
<1>5. Items((s \o t) \o u) = Items(s) \cup Items(t) \cup Items(u)
  BY <1>1, <1>4, ConcatDistinct DEF u
<1> QED
  BY <1>2, <1>3, <1>5 DEF BatchItems, s, t, u

\* A turn ends: its channel has no other turn and no cancelled scoped request.
LEMMA TurnEndsScope ==
    ASSUME HarnessInv, PlaceInv, TurnInv, ScopeInv, NEW a \in Agents,
           HandlePromptResult(a) \/ RecoverPanicked(a)
    PROVE  ScopeInv'
<1>1. PICK q : /\ QueueOK(q) /\ GivesBack(tasks[a], q)
               /\ queue' = IF tasks[a].channel = NoChannel THEN q
                           ELSE MarkComplete(q, tasks[a].channel)
               /\ tasks' = [tasks EXCEPT ![a] = NoTask]
  BY TurnEndsShape
<1>2. TaskOK(tasks[a]) /\ tasks \in [Agents -> Task] /\ QueueOK(queue) /\ q \in QueueState
      /\ tasks[a].channel \in Channels \cup {NoChannel}
  BY <1>1 DEF HarnessInv, TasksOK, TaskOK, Task, QueueOK
<1>3. a \in Busy
  BY DEF HandlePromptResult, RecoverPanicked, Busy
<1>4. Busy' = Busy \ {a} /\ \A b \in Agents : b # a => tasks'[b] = tasks[b]
  BY <1>1, <1>2 DEF Busy, NoTask
<1>5. /\ queue'.cancelled = q.cancelled
      /\ \A d \in Channels : queue'.retryAfter[d] = "active" => q.retryAfter[d] = "active"
  BY <1>1, <1>2 DEF MarkComplete, QueueState
<1>6. CASE q = queue
  <2>1. \A b \in Agents : tasks'[b].phase # "none" =>
           tasks[b].phase # "none" /\ tasks'[b] = tasks[b]
    BY <1>4 DEF Busy
  <2> QED
    BY <1>5, <1>6, <2>1, ScopeFrame
<1>7. CASE q # queue
  <2>1. PICK b, reason : /\ BatchOK(b) /\ b.channel = tasks[a].channel
                         /\ b.events = tasks[a].batch.events
                         /\ b.cancelled = tasks[a].batch.cancelled
                         /\ q \in {Requeue(queue, b), RequeueAsCancelled(queue, b, reason)}
    BY <1>1, <1>7 DEF GivesBack
  <2> DEFINE c == b.channel
             k == queue.cancelled[c]
  <2>2. c \in Channels /\ c = tasks[a].channel /\ BatchItems(b) = BatchItems(tasks[a].batch)
    BY <2>1 DEF BatchOK, BatchItems
  <2>3. ~Scoped(Items(k)) /\ Alone(b) /\ (Scoped(BatchItems(b)) => queue.retryAfter[c] # "active")
    BY <1>3, <2>1, <2>2 DEF ScopeInv, TasksOf, Alone
  <2>4. TasksOf(c)' = {} /\ \A d \in Channels : TasksOf(d)' \subseteq TasksOf(d)
    BY <1>3, <1>4, <2>2 DEF TurnInv, OneTurnPerChannel, TasksOf, Busy
  <2>5. /\ \A d \in Channels \ {c} : q.cancelled[d] = queue.cancelled[d]
        /\ \A d \in Channels \ {c} : q.retryAfter[d] = queue.retryAfter[d]
        /\ \/ q.cancelled[c] = k
           \/ q.retryAfter = queue.retryAfter /\ Items(q.cancelled[c]) = Items(k) \cup BatchItems(b)
    BY <1>2, <2>1, <2>2, RequeueScope
  <2> HIDE DEF c, k
  <2>6. \A d \in Busy' : d \in Busy /\ tasks'[d] = tasks[d] /\ tasks[d].channel # c
    BY <1>3, <1>4, <2>2 DEF TurnInv, OneTurnPerChannel, Busy
  <2>7. \A d \in Busy' : Alone(tasks'[d].batch)
    BY <2>6 DEF ScopeInv
  <2>8. \A d \in Busy' : tasks'[d].channel \in Channels /\ Scoped(BatchItems(tasks'[d].batch)) =>
           queue'.retryAfter[tasks'[d].channel] # "active"
    BY <1>5, <2>5, <2>6 DEF ScopeInv
  <2>9. Scoped(Items(queue'.cancelled[c])) =>
           queue'.retryAfter[c] # "active" /\ FewScoped(Items(queue'.cancelled[c]))
    <3> SUFFICES ASSUME Scoped(Items(queue'.cancelled[c]))
                 PROVE  queue'.retryAfter[c] # "active" /\ FewScoped(Items(queue'.cancelled[c]))
      OBVIOUS
    <3>1. q.retryAfter = queue.retryAfter /\ Items(queue'.cancelled[c]) = Items(k) \cup BatchItems(b)
      BY <1>5, <2>3, <2>5
    <3>2. Scoped(BatchItems(b))
      BY <2>3, <3>1 DEF Scoped
    <3>3. PICK e : BatchItems(b) = {e}
      <4>1. Len(b.events) = 1 /\ b.cancelled = <<>>
        BY <2>3, <3>2 DEF Alone
      <4>2. b.events \in Seq(Event)
        BY <2>1 DEF BatchOK, Batch
      <4>3. DOMAIN b.events = {1}
        BY <4>1, <4>2, LenProperties
      <4>4. Items(b.events) = {b.events[1]}
        BY <4>3 DEF Items
      <4> QED
        BY <4>1, <4>4, EmptyItems DEF BatchItems
    <3> QED
      BY <1>5, <2>2, <2>3, <3>1, <3>2, <3>3 DEF FewScoped, Scoped
  <2>10. CancelledScope(queue')
    BY <1>5, <2>5, <2>9 DEF ScopeInv, CancelledScope
  <2>11. \A d \in Channels : Scoped(Items(queue'.cancelled[d])) => TasksOf(d)' = {}
    BY <1>5, <2>4, <2>5 DEF ScopeInv
  <2> QED
    BY <2>7, <2>8, <2>10, <2>11 DEF ScopeInv
<1> QED
  BY <1>6, <1>7

\* Every step of a harness without expiry keeps scoped requests alone.
LEMMA NextScope == HarnessInv /\ PlaceInv /\ TurnInv /\ ScopeInv /\ [Next]_vars => ScopeInv'
<1> SUFFICES ASSUME HarnessInv, PlaceInv, TurnInv, ScopeInv, [Next]_vars PROVE ScopeInv'
  OBVIOUS
<1>0. QueueOK(queue) /\ queue \in QueueState /\ tasks \in [Agents -> Task]
  BY DEF HarnessInv, QueueOK
<1> DEFINE SamePrompts == \A a \in Agents : tasks'[a].phase # "none" =>
              \/ /\ tasks[a].phase # "none" /\ tasks'[a].batch = tasks[a].batch
                 /\ tasks'[a].channel = tasks[a].channel
              \/ tasks'[a].batch = NoBatch /\ tasks'[a].channel = NoChannel
           LessCancelled ==
             /\ \A c \in Channels : Items(queue'.cancelled[c]) \subseteq Items(queue.cancelled[c])
             /\ \A c \in Channels : queue'.retryAfter[c] = "active" => queue.retryAfter[c] = "active"
<1>1. SamePrompts /\ LessCancelled => ScopeInv'
  BY ScopeFrame
<1>2. \A q \in QueueState : /\ ExpireInFlight(q).cancelled = q.cancelled
                            /\ ExpireInFlight(q).retryAfter = q.retryAfter
  BY DEF ExpireInFlight, QueueState
<1>3. tasks' = tasks => SamePrompts
  OBVIOUS
<1>4. queue'.cancelled = queue.cancelled /\ queue'.retryAfter = queue.retryAfter => LessCancelled
  OBVIOUS
<1>5. \A b \in Agents : \A signal : tasks' = [tasks EXCEPT ![b].control = signal] => SamePrompts
  BY <1>0 DEF Task
<1> HIDE DEF SamePrompts, LessCancelled
<1>6. CASE Maintain
  <2> DEFINE k == CompactExpiredState(queue)
  <2>1. k \in QueueState
    BY <1>0, CompactExpiredStateOK DEF QueueOK
  <2>2. k.cancelled = queue.cancelled
        /\ \A c \in Channels : k.retryAfter[c] = "active" => queue.retryAfter[c] = "active"
    BY <1>0 DEF QueueState, CompactExpiredState
  <2>3. queue' = ExpireInFlight(k) /\ tasks' = tasks
    BY <1>6 DEF Maintain
  <2> HIDE DEF k
  <2>4. LessCancelled
    BY <1>2, <2>1, <2>2, <2>3 DEF LessCancelled
  <2> QED
    BY <1>1, <1>3, <2>3, <2>4
<1>7. CASE DispatchNothing
  BY <1>0, <1>7, <1>4, <1>1, <1>3, <1>2, DispatchNothingQueue DEF DispatchNothing
<1>8. CASE DispatchBatch
  BY <1>8, DispatchBatchScope
<1>9. CASE DispatchExhausted
  BY <1>9, DispatchExhaustedScope
<1>10. CASE HeartbeatTick
  <2>1. queue' = ExpireInFlight(queue)
    BY <1>10 DEF HeartbeatTick
  <2> DEFINE beat == [NoTask EXCEPT !.phase = "running"]
  <2>2. beat.batch = NoBatch /\ beat.channel = NoChannel
    BY DEF NoTask
  <2>3. tasks' = tasks \/ \E a \in idle : tasks' = [tasks EXCEPT ![a] = beat]
    BY <1>10 DEF HeartbeatTick
  <2> HIDE DEF beat
  <2>4. SamePrompts
    BY <1>0, <2>2, <2>3 DEF SamePrompts
  <2> QED
    BY <1>0, <1>4, <1>1, <1>2, <2>1, <2>4
<1>11. CASE \E a \in Agents : HandlePromptResult(a) \/ RecoverPanicked(a)
  BY <1>11, TurnEndsScope
<1>12. ASSUME NEW s \in steers, HandleSteerAck(s) PROVE ScopeInv'
  <2>1. s.event.channel \in Channels
    BY DEF HarnessInv, RestOK, SteerRecord, Event
  <2>2. queue'.cancelled = queue.cancelled /\ queue'.retryAfter = queue.retryAfter
    BY <1>0, <1>12, <2>1 DEF HandleSteerAck, RemoveEvent, ExtendDeadline, ReleaseNativeSteer, QueueState
  <2>3. tasks' = tasks \/ \E b \in Agents : tasks' = [tasks EXCEPT ![b].control = "Steer"]
    BY <1>12 DEF HandleSteerAck, Signal, TakeControl, ConversationTasks, TasksOf, Busy
  <2> QED
    BY <1>4, <1>1, <1>3, <1>5, <2>2, <2>3
<1>13. ASSUME NEW shape \in Shapes, RelayEvent(shape) PROVE ScopeInv'
  <2> DEFINE e == Arrival(shape)
             m == ModeGateSignal(e)
  <2>1. e.channel \in Channels
    BY ArrivalType
  <2>2. queue' \in {queue, Push(queue, e), MarkNativeSteerPending(Push(queue, e), e)}
    BY <1>13 DEF RelayEvent, NativeSteer, LeaveOrSignal
  <2>3. tasks' = tasks \/ \E b \in Agents : tasks' = [tasks EXCEPT ![b].control = m]
    BY <1>13 DEF RelayEvent, NativeSteer, LeaveOrSignal, TakeControl, TasksOf, Busy
  <2> HIDE DEF e, m
  <2>4. Push(queue, e).cancelled = queue.cancelled /\ Push(queue, e).retryAfter = queue.retryAfter
    BY <1>0 DEF Push, QueueState
  <2>5. /\ MarkNativeSteerPending(Push(queue, e), e).cancelled = Push(queue, e).cancelled
        /\ MarkNativeSteerPending(Push(queue, e), e).retryAfter = Push(queue, e).retryAfter
    BY <1>0 DEF Push, MarkNativeSteerPending, QueueState
  <2>6. queue'.cancelled = queue.cancelled /\ queue'.retryAfter = queue.retryAfter
    BY <2>2, <2>4, <2>5
  <2> QED
    BY <1>4, <1>1, <1>3, <1>5, <2>3, <2>6
<1>14. ASSUME NEW c \in Channels, MemberRemoved(c) PROVE ScopeInv'
  <2>1. tasks' = tasks /\ queue' = DrainChannel(queue, c)
    BY <1>14 DEF MemberRemoved
  <2>2. /\ queue'.cancelled[c] = <<>> /\ queue'.retryAfter[c] = "none"
        /\ \A d \in Channels \ {c} : /\ queue'.cancelled[d] = queue.cancelled[d]
                                     /\ queue'.retryAfter[d] = queue.retryAfter[d]
    BY <1>0, <2>1 DEF DrainChannel, QueueState
  <2>3. LessCancelled
    BY <2>2, EmptyItems DEF LessCancelled
  <2> QED
    BY <1>1, <1>3, <2>1, <2>3
<1>15. ASSUME NEW a \in Agents, NEW outcome, TaskFinishes(a, outcome) PROVE ScopeInv'
  <2>1. queue' = queue /\ tasks[a].phase = "running"
    BY <1>15 DEF TaskFinishes
  <2>2. PICK b : tasks' = [tasks EXCEPT ![a].phase = "done", ![a].outcome = outcome, ![a].retry = b]
    BY <1>15 DEF TaskFinishes
  <2>3. tasks' = [tasks EXCEPT ![a] = [tasks[a] EXCEPT !.phase = "done", !.outcome = outcome,
                                                     !.retry = b]]
    BY <1>0, <2>2
  <2>4. SamePrompts
    BY <1>0, <2>1, <2>3 DEF SamePrompts, Task
  <2> QED
    BY <1>4, <1>1, <2>1, <2>4
<1>16. ASSUME NEW a \in Agents, TaskPanics(a) PROVE ScopeInv'
  <2>1. queue' = queue /\ tasks[a].phase = "running" /\ tasks' = [tasks EXCEPT ![a].phase = "panicked"]
    BY <1>16 DEF TaskPanics
  <2>2. SamePrompts
    BY <1>0, <2>1 DEF SamePrompts, Task
  <2> QED
    BY <1>4, <1>1, <2>1, <2>2
<1>17. ASSUME NEW c \in Channels, NEW signal \in Controls, ControlCommand(c, signal) PROVE ScopeInv'
  <2>1. queue' = queue
        /\ (tasks' = tasks \/ \E b \in Agents : tasks' = [tasks EXCEPT ![b].control = signal])
    BY <1>17 DEF ControlCommand, Signal, TakeControl, TasksOf, Busy
  <2> QED
    BY <1>4, <1>1, <1>3, <1>5, <2>1
<1>18. ASSUME NEW c \in Channels,
              HandleExtendDeadline(c) \/ RetryAfterPasses(c) \/ DeadlinePasses(c)
       PROVE  ScopeInv'
  <2>1. tasks' = tasks /\ queue'.cancelled = queue.cancelled
    BY <1>0, <1>18 DEF HandleExtendDeadline, RetryAfterPasses, DeadlinePasses, ExtendDeadline, QueueState
  <2>2. CASE HandleExtendDeadline(c) \/ DeadlinePasses(c)
    <3>1. queue'.retryAfter = queue.retryAfter
      BY <1>0, <2>2 DEF HandleExtendDeadline, DeadlinePasses, ExtendDeadline, QueueState
    <3> QED
      BY <1>4, <1>1, <1>3, <2>1, <3>1
  <2>3. CASE RetryAfterPasses(c)
    <3>1. queue'.retryAfter = [queue.retryAfter EXCEPT ![c] = "passed"]
      BY <1>0, <2>3 DEF RetryAfterPasses, QueueState
    <3>2. queue.retryAfter \in [Channels -> Clock]
      BY <1>0 DEF QueueState
    <3>3. LessCancelled
      BY <2>1, <3>1, <3>2 DEF LessCancelled
    <3> QED
      BY <1>1, <1>3, <2>1, <3>3
  <2> QED
    BY <1>18, <2>2, <2>3
<1>19. CASE \/ Collect \/ DrainDone \/ TimerTick \/ Exited \/ UNCHANGED vars
            \/ \E c \in Channels : MemberAdded(c)
            \/ \E a \in Agents : CircuitAges(a)
            \/ \E a \in Agents, result \in {"ok", "failed"} : RespawnEnds(a, result)
            \/ \E s \in steers, state \in Resolved \cup {"written"} : SteerStep(s, state)
  <2>1. UNCHANGED <<queue, tasks>>
    BY <1>19 DEF Collect, DrainDone, TimerTick, Exited, vars, MemberAdded, CircuitAges,
                 RespawnEnds, SteerStep
  <2> QED
    BY <1>4, <1>1, <1>3, <2>1
<1> QED
  BY <1>6, <1>7, <1>8, <1>9, <1>10, <1>11, <1>12, <1>13, <1>14, <1>15, <1>16, <1>17, <1>18, <1>19
     DEF Next, LoopStep, OtherStep

\* Nothing is cancelled and no turn runs at the start.
LEMMA InitScope == Init => ScopeInv
<1> SUFFICES ASSUME Init PROVE ScopeInv
  OBVIOUS
<1>1. \A c \in Channels : queue.cancelled[c] = <<>>
  BY DEF Init, EmptyQueue
<1>2. Busy = {}
  BY DEF Init, Busy, NoTask
<1>3. \A c \in Channels : ~Scoped(Items(queue.cancelled[c]))
  BY <1>1, EmptyItems DEF Scoped
<1> QED
  BY <1>2, <1>3 DEF ScopeInv, CancelledScope

\* A scoped request is prompted alone: not batched, not merged with a cancelled
\* turn, however often it is cancelled, requeued and recovered, in a harness whose
\* turns end before their in-flight deadline.
THEOREM ScopedRequestsAlone == ~Expiry /\ Spec => []ScopedAlone
<1>1. HarnessInv /\ ScopeInv => ScopedAlone
  <2> SUFFICES ASSUME HarnessInv, ScopeInv, NEW a \in Busy,
                      HasScoped(tasks[a].batch.events \o tasks[a].batch.cancelled)
               PROVE  Len(tasks[a].batch.events) = 1 /\ tasks[a].batch.cancelled = <<>>
    BY DEF ScopedAlone
  <2> DEFINE b == tasks[a].batch
  <2>1. b.events \in Seq(Event) /\ b.cancelled \in Seq(Event)
    BY DEF HarnessInv, Busy, Task, Batch
  <2>2. Items(b.events \o b.cancelled) = BatchItems(b)
    BY <2>1, ConcatDistinct DEF BatchItems
  <2>3. Scoped(BatchItems(b))
    BY <2>2, ScopedItems
  <2> QED
    BY <2>3 DEF ScopeInv, Alone
<1> QED
  BY <1>1, InitScope, NextScope, TurnInvariant, PlaceInvariant, HarnessInvariant, PTL DEF Spec

-----------------------------------------------------------------------------
(* A harness that queues: no event disturbs a turn *)

\* The last event of the sequence is the newest.
Newest(s) == \A i \in DOMAIN s : s[i].created <= s[Len(s)].created

\* A turn that no later event cut short: nothing was merged into it, and where a
\* signal ended it that signal discards its batch.
PlainTask(t) ==
    /\ t.control \in {"armed", "none", "Cancel", "Rotate"}
    /\ t.batch.cancelled = <<>>
    /\ t.phase = "none" => t.batch.events = <<>>
    /\ t.outcome \in {"cancelled", "drain_timeout"} => t.retry = NoBatch
    /\ Newest(t.batch.events)

\* Nothing is cancelled and nothing withheld.
PlainQueue(q) == \A c \in Channels : q.cancelled[c] = <<>> /\ q.withheld[c] = <<>>

\* The configuration, and what it rules out: steers, withheld and cancelled events.
PlainInv ==
    /\ Handling = "Queue" /\ "SwitchModel" \notin Controls
    /\ steers = {}
    /\ PlainQueue(queue)
    /\ \A a \in Agents : PlainTask(tasks[a])

\* A sorted batch has its newest event last.
LEMMA SortedNewest ==
    ASSUME NEW s \in Seq(Event), NEW t \in SortedByCreated(s)
    PROVE  Newest(t)
<1>1. DOMAIN s = 1..Len(s) /\ Len(s) \in Nat /\ \A i \in DOMAIN s : s[i].created \in Nat
  <2>1. \A i \in 1..Len(s) : s[i] \in Event
    BY ElementOfSeq
  <2> QED
    BY <2>1, LenProperties DEF Event
<1>2. PICK p \in [DOMAIN s -> DOMAIN s] : StablyOrders(p, s) /\ t = [i \in DOMAIN s |-> s[p[i]]]
  BY DEF SortedByCreated
<1>3. Len(t) = Len(s) /\ DOMAIN t = DOMAIN s
  BY <1>2, SortedType, LenProperties
<1>4. \A i \in DOMAIN s : t[i] = s[p[i]] /\ p[i] \in DOMAIN s
  BY <1>2
<1>5. ASSUME NEW i \in DOMAIN s, NEW j \in DOMAIN s, i < j PROVE t[i].created <= t[j].created
  <2>1. s[p[i]].created < s[p[j]].created \/ s[p[i]].created = s[p[j]].created
    BY <1>2, <1>5 DEF StablyOrders
  <2>2. t[i].created \in Nat /\ t[j].created \in Nat
    BY <1>1, <1>4
  <2> QED
    BY <1>4, <2>1, <2>2
<1> SUFFICES ASSUME NEW i \in DOMAIN s PROVE t[i].created <= t[Len(s)].created
  BY <1>3 DEF Newest
<1>6. i \in 1..Len(s) /\ Len(s) \in DOMAIN s
  BY <1>1
<1>7. CASE i < Len(s)
  BY <1>5, <1>6, <1>7
<1>8. CASE i = Len(s)
  BY <1>1, <1>4, <1>8
<1> QED
  BY <1>1, <1>6, <1>7, <1>8

\* The expiry block finds nothing to put back.
LEMMA ExpirePlain ==
    ASSUME NEW q \in QueueState, PlainQueue(q)
    PROVE  PlainQueue(ExpireInFlight(q))
BY DEF PlainQueue, ExpireInFlight, QueueState

\* flush_next takes queued events only, and sorts them.
LEMMA FlushPlain ==
    ASSUME NEW q, QueueOK(q), PlainQueue(q), NEW out \in FlushNext(q), out.batch # NoBatch
    PROVE  PlainQueue(out.queue) /\ out.batch.cancelled = <<>> /\ Newest(out.batch.events)
<1> DEFINE x == ExpireInFlight(q)
<1>1. QueueOK(x) /\ PlainQueue(x) /\ x \in QueueState
  BY ExpireInFlightOK, ExpirePlain DEF QueueOK
<1>2. \/ \E c \in ScopedRecoverable(x) : out = FlushScoped(x, c)
      \/ \E c \in Candidates(x) : out \in FlushQueued(x, c)
      \/ \E c \in CancelledIdle(x) : out = FlushCancelled(x, c)
  BY DEF FlushNext, OldestHeads
<1> HIDE DEF x
<1>3. ScopedRecoverable(x) = {} /\ CancelledIdle(x) = {}
  BY <1>1 DEF PlainQueue, ScopedRecoverable, CancelledIdle, HasScoped
<1>4. PICK c \in Candidates(x) : out \in FlushQueued(x, c)
  BY <1>2, <1>3
<1> DEFINE s == x.queues[c]
           n == DrainCount(s)
           taken == SubSeq(s, 1, n)
           u == SubSeq(s, n + 1, Len(s))
           left == [x EXCEPT !.queues[c] = u]
           merged == [left EXCEPT !.cancelled[c] = <<>>, !.cancelReasons[c] = "none"]
<1>5. c \in Channels /\ s # <<>>
  BY DEF Candidates
<1>6. s \in Seq(Event) /\ Len(s) \in Nat
  BY <1>1, <1>5, FieldTypes, LenProperties
<1>7. n \in 1..Len(s)
  BY <1>5, <1>6, DrainCountType
<1>8. taken \in Seq(Event)
  <2> HIDE DEF n, s
  <2> QED
    BY <1>6, <1>7, SubSeqInside
<1>9. PICK evs \in SortedByCreated(taken), r \in {TakeFlight(left, c), TakeFlight(merged, c)} :
        out.queue = r /\ out.batch.events = evs /\ out.batch.cancelled \in {<<>>, x.cancelled[c]}
  <2>1. CASE HasScoped(taken)
    <3>1. PICK evs \in SortedByCreated(taken) :
            out = [queue |-> TakeFlight(left, c),
                   batch |-> [channel |-> c, events |-> evs, cancelled |-> <<>>,
                              reason |-> "none"]]
      BY <1>4, <2>1 DEF FlushQueued
    <3> HIDE DEF taken, left, merged
    <3>2. out.queue = TakeFlight(left, c) /\ out.batch.events = evs /\ out.batch.cancelled = <<>>
      BY <3>1
    <3> QED
      BY <3>2
  <2>2. CASE ~HasScoped(taken)
    <3> DEFINE reason == IF x.cancelled[c] = <<>> THEN "none" ELSE x.cancelReasons[c]
    <3>1. PICK evs \in SortedByCreated(taken) :
            out = [queue |-> TakeFlight(merged, c),
                   batch |-> [channel |-> c, events |-> evs, cancelled |-> x.cancelled[c],
                              reason |-> reason]]
      BY <1>4, <2>2 DEF FlushQueued
    <3> HIDE DEF taken, left, merged, reason
    <3>2. out.queue = TakeFlight(merged, c) /\ out.batch.events = evs
          /\ out.batch.cancelled = x.cancelled[c]
      BY <3>1
    <3> QED
      BY <3>2
  <2> QED
    BY <2>1, <2>2
<1> HIDE DEF n, taken, u
<1>10. PlainQueue(TakeFlight(left, c)) /\ PlainQueue(TakeFlight(merged, c))
  BY <1>1, <1>5 DEF PlainQueue, TakeFlight, QueueState
<1> HIDE DEF left, merged
<1>11. x.cancelled[c] = <<>>
  BY <1>1, <1>5 DEF PlainQueue
<1> QED
  BY <1>8, <1>9, <1>10, <1>11, SortedNewest

\* An empty batch has no newest event to miss.
LEMMA EmptyNewest == Newest(<<>>)
BY DEF Newest

\* The tasks a step leaves alone, and the ones it ends, are plain.
LEMMA NoTaskPlain == PlainTask(NoTask) /\ PlainTask([NoTask EXCEPT !.phase = "running"])
BY EmptyNewest DEF PlainTask, NoTask, NoBatch

\* What the end of a plain turn leaves: its events have met a recorded end, or
\* they are back in the queue but for what the cap drops.
PlainEnd(t, after) ==
    \/ after.queue = queue /\ \E end \in Fates \ {"live"} :
                                 after.fate = Settle(fate, BatchItems(t.batch), end)
    \/ \E b : /\ BatchOK(b) /\ b.channel = t.channel
              /\ b.events = t.batch.events /\ b.cancelled = <<>>
              /\ after.queue = Requeue(queue, b)
              /\ IF Exhausted(queue, b)
                 THEN \E end \in Fates \ {"live"} :
                         after.fate = Settle(fate, BatchItems(t.batch), end)
                 ELSE after.fate = Settle(fate, Overflow(queue.queues[b.channel], b.events), "dropped")

\* handle_prompt_result and recover_panicked_agent, for a plain turn.
LEMMA AfterPlain ==
    ASSUME HarnessInv, PlaceInv, NEW a \in Agents, PlainTask(tasks[a])
    PROVE  PlainEnd(tasks[a], AfterResult(tasks[a])) /\ PlainEnd(tasks[a], AfterPanic(tasks[a]))
<1> DEFINE t == tasks[a]
<1>1. TaskOK(t) /\ (t.retry # NoBatch => /\ t.retry.events = t.batch.events
                                         /\ t.retry.cancelled = t.batch.cancelled)
  BY DEF HarnessInv, TasksOK, PlaceInv, RetrySame
<1>2. PlainTask(t)
  OBVIOUS
<1> HIDE DEF t
<1>3. {"answered", "dropped", "notified"} \subseteq Fates \ {"live"}
  BY DEF Fates
<1>4. t.retry # NoBatch => /\ BatchOK(t.retry) /\ t.retry.channel = t.channel
                           /\ t.retry.cancelled = <<>>
                           /\ BatchItems(t.retry) = BatchItems(t.batch)
  BY <1>1, <1>2 DEF TaskOK, Task, BatchOK, PlainTask, BatchItems
<1>5. t.channel # NoChannel => BatchOK(t.batch) /\ t.batch.channel = t.channel
                               /\ t.batch.cancelled = <<>>
  BY <1>1, <1>2 DEF TaskOK, Task, Batch, BatchOK, PlainTask
<1>6. PlainEnd(t, AfterResult(t))
  <2> DEFINE end == IF t.outcome = "ok" THEN "answered" ELSE "dropped"
  <2>1. \/ AfterResult(t) = [queue |-> queue, fate |-> Settle(fate, BatchItems(t.batch), end)]
        \/ /\ t.retry # NoBatch
           /\ AfterResult(t) = [queue |-> queue, fate |-> Settle(fate, BatchItems(t.retry), "dropped")]
        \/ /\ t.retry # NoBatch
           /\ AfterResult(t) = [queue |-> queue, fate |-> Settle(fate, BatchItems(t.retry), "notified")]
        \/ t.retry # NoBatch /\ AfterResult(t) = AfterRequeue(t.retry)
    BY <1>2 DEF AfterResult, PlainTask
  <2>2. end \in Fates \ {"live"}
    BY <1>3
  <2> HIDE DEF end
  <2>3. CASE AfterResult(t) = [queue |-> queue, fate |-> Settle(fate, BatchItems(t.batch), end)]
    BY <2>2, <2>3 DEF PlainEnd
  <2>4. CASE t.retry # NoBatch /\ AfterResult(t) = [queue |-> queue, fate |-> Settle(fate, BatchItems(t.retry), "dropped")]
    BY <1>3, <1>4, <2>4 DEF PlainEnd
  <2>5. CASE t.retry # NoBatch /\ AfterResult(t) = [queue |-> queue, fate |-> Settle(fate, BatchItems(t.retry), "notified")]
    BY <1>3, <1>4, <2>5 DEF PlainEnd
  <2>6. CASE t.retry # NoBatch /\ AfterResult(t) = AfterRequeue(t.retry)
    <3>1. /\ AfterResult(t).queue = Requeue(queue, t.retry)
          /\ AfterResult(t).fate =
               IF Exhausted(queue, t.retry) THEN Settle(fate, BatchItems(t.retry), "notified")
               ELSE Settle(fate, Overflow(queue.queues[t.retry.channel], t.retry.events), "dropped")
      BY <2>6 DEF AfterRequeue
    <3> QED
      BY <1>1, <1>3, <1>4, <2>6, <3>1 DEF PlainEnd
  <2> QED
    BY <2>1, <2>3, <2>4, <2>5, <2>6
<1>7. PlainEnd(t, AfterPanic(t))
  <2>1. CASE Recoverable(t)
    <3>1. /\ AfterPanic(t).queue = Requeue(queue, t.batch)
          /\ AfterPanic(t).fate =
               IF Exhausted(queue, t.batch) THEN Settle(fate, BatchItems(t.batch), "dropped")
               ELSE Settle(fate, Overflow(queue.queues[t.batch.channel], t.batch.events), "dropped")
      BY <2>1 DEF AfterPanic, AfterRequeue
    <3>2. t.channel # NoChannel
      BY <2>1 DEF Recoverable
    <3> QED
      BY <1>3, <1>5, <3>1, <3>2 DEF PlainEnd
  <2>2. CASE ~Recoverable(t)
    <3>1. AfterPanic(t) = [queue |-> queue, fate |-> Settle(fate, BatchItems(t.batch), "dropped")]
      BY <2>2 DEF AfterPanic
    <3> QED
      BY <1>3, <3>1 DEF PlainEnd
  <2> QED
    BY <2>1, <2>2
<1> QED
  BY <1>6, <1>7 DEF t

\* A turn that ends, whichever arm reads it.
LEMMA PlainTurnEnds ==
    ASSUME HarnessInv, PlaceInv, NEW a \in Agents, PlainTask(tasks[a]),
           HandlePromptResult(a) \/ RecoverPanicked(a)
    PROVE  \E after : /\ PlainEnd(tasks[a], after) /\ after.queue \in QueueState
                      /\ queue' = IF tasks[a].channel = NoChannel THEN after.queue
                                  ELSE MarkComplete(after.queue, tasks[a].channel)
                      /\ fate' = after.fate
                      /\ tasks' = [tasks EXCEPT ![a] = NoTask]
                      /\ steers' = steers
<1>1. TaskOK(tasks[a])
  BY DEF HarnessInv, TasksOK
<1>2. AfterResult(tasks[a]).queue \in QueueState /\ AfterPanic(tasks[a]).queue \in QueueState
  BY <1>1, AfterResultOK, AfterPanicOK DEF AfterOK, QueueOK
<1>3. CASE HandlePromptResult(a)
  BY <1>2, <1>3, AfterPlain DEF HandlePromptResult
<1>4. CASE RecoverPanicked(a)
  BY <1>2, <1>4, AfterPlain DEF RecoverPanicked
<1> QED
  BY <1>3, <1>4

\* An arrival is queued or discarded, and disturbs no turn.
LEMMA PlainArrival ==
    ASSUME PlainInv, NEW shape \in Shapes, RelayEvent(shape)
    PROVE  /\ tasks' = tasks /\ steers' = steers
           /\ IF Accepts(queue, Arrival(shape))
              THEN /\ queue' = Push(queue, Arrival(shape))
                   /\ fate' = [Settle(fate, PushEvicts(queue, Arrival(shape)), "dropped")
                                 EXCEPT ![nextId] = "live"]
              ELSE queue' = queue /\ fate' = [fate EXCEPT ![nextId] = "dropped"]
<1> DEFINE e == Arrival(shape)
           q == Push(queue, e)
<1>1. ModeGateSignal(e) = "none" /\ ~MidTurn(q, e)
  BY DEF PlainInv, ModeGateSignal, MidTurn
<1>2. IF Accepts(queue, e)
      THEN /\ fate' = [Settle(fate, PushEvicts(queue, e), "dropped") EXCEPT ![nextId] = "live"]
           /\ MidTurn(q, e) \/ LeaveOrSignal(q, e)
      ELSE fate' = [fate EXCEPT ![nextId] = "dropped"] /\ UNCHANGED <<queue, steers, tasks>>
  BY DEF RelayEvent
<1> HIDE DEF q, e
<1>3. LeaveOrSignal(q, e) => queue' = q /\ steers' = steers /\ tasks' = tasks
  BY <1>1 DEF LeaveOrSignal
<1> QED
  BY <1>1, <1>2, <1>3 DEF q, e

\* Every step of a harness that queues is plain.
LEMMA NextPlain == HarnessInv /\ PlaceInv /\ PlainInv /\ [Next]_vars => PlainInv'
<1> SUFFICES ASSUME HarnessInv, PlaceInv, PlainInv, [Next]_vars PROVE PlainInv'
  OBVIOUS
<1>0. QueueOK(queue) /\ queue \in QueueState /\ tasks \in [Agents -> Task] /\ PlainQueue(queue)
      /\ steers = {} /\ \A a \in Agents : PlainTask(tasks[a]) /\ TaskOK(tasks[a])
  BY DEF HarnessInv, QueueOK, TasksOK, PlainInv
<1> DEFINE PlainTasks == \A a \in Agents : PlainTask(tasks'[a])
<1>1. steers' = {} /\ PlainQueue(queue') /\ PlainTasks => PlainInv'
  BY DEF PlainInv
<1>2. tasks' = tasks => PlainTasks
  BY <1>0
<1>3. queue' = queue => PlainQueue(queue')
  BY <1>0
<1>4. \A a \in Agents : \A t : tasks' = [tasks EXCEPT ![a] = t] /\ PlainTask(t) => PlainTasks
  BY <1>0
<1> HIDE DEF PlainTasks
<1>5. CASE Maintain
  <2>1. CompactExpiredState(queue) \in QueueState /\ PlainQueue(CompactExpiredState(queue))
    BY <1>0, CompactExpiredStateOK DEF QueueOK, PlainQueue, CompactExpiredState, QueueState
  <2> QED
    BY <1>0, <1>1, <1>2, <1>5, <2>1, ExpirePlain DEF Maintain
<1>6. CASE DispatchNothing
  BY <1>0, <1>1, <1>2, <1>6, DispatchNothingQueue, ExpirePlain DEF DispatchNothing
<1>7. CASE DispatchBatch
  <2> DEFINE Started(b) == [phase |-> "running", channel |-> b.channel, batch |-> b,
                            root |-> b.events[Len(b.events)].root, control |-> "armed",
                            outcome |-> "none", retry |-> NoBatch]
  <2>1. \A b : b.cancelled = <<>> /\ Newest(b.events) => PlainTask(Started(b))
    BY DEF PlainTask
  <2>2. PICK out \in FlushNext(queue), a \in idle :
          /\ out.batch # NoBatch
          /\ queue' = out.queue
          /\ tasks' = [tasks EXCEPT ![a] = Started(out.batch)]
    BY <1>7 DEF DispatchBatch
  <2> HIDE DEF Started
  <2>3. PlainQueue(queue') /\ PlainTask(Started(out.batch))
    BY <1>0, <2>1, <2>2, FlushPlain
  <2>4. a \in Agents /\ steers' = steers
    BY <1>7 DEF DispatchBatch, HarnessInv, RestOK
  <2> QED
    BY <1>0, <1>1, <1>4, <2>2, <2>3, <2>4
<1>8. CASE DispatchExhausted
  <2>1. PICK out \in FlushNext(queue) :
          /\ out.batch # NoBatch
          /\ queue' = MarkComplete(RequeuePreserveTimestamps(out.queue, out.batch),
                                   out.batch.channel)
    BY <1>8 DEF DispatchExhausted
  <2>2. PlainQueue(out.queue)
    BY <1>0, <2>1, FlushPlain
  <2>3. QueueOK(out.queue) /\ BatchOK(out.batch)
    BY <1>0, <2>1, FlushNextOK DEF FlushOutcomeOK
  <2>4. PlainQueue(queue')
    BY <2>1, <2>2, <2>3 DEF PlainQueue, MarkComplete, RequeuePreserveTimestamps, QueueOK,
                            QueueState, BatchOK
  <2> QED
    BY <1>0, <1>1, <1>2, <1>8, <2>4 DEF DispatchExhausted
<1>9. CASE HeartbeatTick
  <2> DEFINE beat == [NoTask EXCEPT !.phase = "running"]
  <2>1. tasks' = tasks \/ \E a \in idle : tasks' = [tasks EXCEPT ![a] = beat]
    BY <1>9 DEF HeartbeatTick
  <2>2. PlainTask(beat)
    BY NoTaskPlain
  <2> HIDE DEF beat
  <2>3. queue' = ExpireInFlight(queue) /\ steers' = steers /\ idle \subseteq Agents
    BY <1>9 DEF HeartbeatTick, HarnessInv, RestOK
  <2>4. PlainTasks
    BY <1>2, <1>4, <2>1, <2>2, <2>3
  <2> QED
    BY <1>0, <1>1, <2>3, <2>4, ExpirePlain
<1>10. ASSUME NEW a \in Agents, HandlePromptResult(a) \/ RecoverPanicked(a) PROVE PlainInv'
  <2>1. PICK after : /\ PlainEnd(tasks[a], after) /\ after.queue \in QueueState
                     /\ queue' = IF tasks[a].channel = NoChannel THEN after.queue
                                 ELSE MarkComplete(after.queue, tasks[a].channel)
                     /\ tasks' = [tasks EXCEPT ![a] = NoTask]
                     /\ steers' = steers
    BY <1>0, <1>10, PlainTurnEnds
  <2>2. PlainQueue(after.queue)
    <3>1. after.queue = queue \/ \E b : BatchOK(b) /\ after.queue = Requeue(queue, b)
      BY <2>1 DEF PlainEnd
    <3>2. \A b : BatchOK(b) => PlainQueue(Requeue(queue, b))
      BY <1>0 DEF PlainQueue, Requeue, QueueState, BatchOK
    <3> QED
      BY <1>0, <3>1, <3>2
  <2>3. PlainQueue(queue')
    BY <2>1, <2>2 DEF PlainQueue, MarkComplete, QueueState
  <2> QED
    BY <1>0, <1>1, <1>4, <2>1, <2>3, NoTaskPlain
<1>11. ASSUME NEW shape \in Shapes, RelayEvent(shape) PROVE PlainInv'
  <2>1. tasks' = tasks /\ steers' = steers /\ queue' \in {queue, Push(queue, Arrival(shape))}
    BY <1>11, PlainArrival
  <2>2. PlainQueue(queue')
    BY <1>0, <2>1 DEF PlainQueue, Push, QueueState
  <2> QED
    BY <1>0, <1>1, <1>2, <2>1, <2>2
<1>12. ASSUME NEW c \in Channels, MemberRemoved(c) PROVE PlainInv'
  <2>1. tasks' = tasks /\ steers' = steers /\ queue' = DrainChannel(queue, c)
    BY <1>12 DEF MemberRemoved
  <2>2. PlainQueue(queue')
    BY <1>0, <2>1 DEF PlainQueue, DrainChannel, QueueState
  <2> QED
    BY <1>0, <1>1, <1>2, <2>1, <2>2
<1>13. ASSUME NEW a \in Agents, NEW outcome \in Outcomes, TaskFinishes(a, outcome) PROVE PlainInv'
  <2>1. queue' = queue /\ steers' = {} /\ tasks[a].phase = "running"
    BY <1>0, <1>13 DEF TaskFinishes, SteersAfter
  <2>2. PICK b \in RetryBatches(tasks[a], outcome) :
          tasks' = [tasks EXCEPT ![a].phase = "done", ![a].outcome = outcome, ![a].retry = b]
    BY <1>13 DEF TaskFinishes
  <2> DEFINE t == [tasks[a] EXCEPT !.phase = "done", !.outcome = outcome, !.retry = b]
  <2>3. tasks' = [tasks EXCEPT ![a] = t]
    BY <1>0, <2>2
  <2>4. outcome \in {"cancelled", "drain_timeout"} => b = NoBatch
    BY <1>0, <2>2 DEF RetryBatches, CancelledBatch, PlainTask, Signals
  <2>5. /\ t.control = tasks[a].control /\ t.batch = tasks[a].batch /\ t.phase = "done"
        /\ t.outcome = outcome /\ t.retry = b
    BY <1>0 DEF Task
  <2> HIDE DEF t
  <2>6. PlainTask(t)
    BY <1>0, <2>4, <2>5 DEF PlainTask
  <2> QED
    BY <1>1, <1>3, <1>4, <2>1, <2>3, <2>6
<1>14. ASSUME NEW a \in Agents, TaskPanics(a) PROVE PlainInv'
  <2>1. queue' = queue /\ steers' = {}
    BY <1>0, <1>14 DEF TaskPanics, SteersAfter
  <2> DEFINE t == [tasks[a] EXCEPT !.phase = "panicked"]
  <2>2. tasks' = [tasks EXCEPT ![a] = t]
    BY <1>0, <1>14 DEF TaskPanics
  <2>3. /\ t.control = tasks[a].control /\ t.batch = tasks[a].batch /\ t.phase = "panicked"
        /\ t.outcome = tasks[a].outcome /\ t.retry = tasks[a].retry
    BY <1>0 DEF Task
  <2> HIDE DEF t
  <2>4. PlainTask(t)
    BY <1>0, <2>3 DEF PlainTask
  <2> QED
    BY <1>1, <1>3, <1>4, <2>1, <2>2, <2>4
<1>15. ASSUME NEW c \in Channels, NEW signal \in Controls, ControlCommand(c, signal) PROVE PlainInv'
  <2>1. queue' = queue /\ steers' = steers
        /\ (tasks' = tasks \/ \E a \in Agents : tasks' = [tasks EXCEPT ![a].control = signal])
    BY <1>15 DEF ControlCommand, Signal, TakeControl, TasksOf, Busy
  <2>2. signal \in {"Cancel", "Rotate"}
    BY HarnessConstants DEF PlainInv
  <2>3. ASSUME NEW a \in Agents, tasks' = [tasks EXCEPT ![a].control = signal] PROVE PlainTasks
    <3> DEFINE t == [tasks[a] EXCEPT !.control = signal]
    <3>1. tasks' = [tasks EXCEPT ![a] = t]
      BY <1>0, <2>3
    <3>2. /\ t.control = signal /\ t.batch = tasks[a].batch /\ t.phase = tasks[a].phase
          /\ t.outcome = tasks[a].outcome /\ t.retry = tasks[a].retry
      BY <1>0 DEF Task
    <3> HIDE DEF t
    <3>3. PlainTask(t)
      BY <1>0, <2>2, <3>2 DEF PlainTask
    <3> QED
      BY <1>4, <3>1, <3>3
  <2> QED
    BY <1>0, <1>1, <1>2, <1>3, <2>1, <2>3
<1>16. ASSUME NEW c \in Channels,
              HandleExtendDeadline(c) \/ RetryAfterPasses(c) \/ DeadlinePasses(c)
       PROVE  PlainInv'
  <2>1. tasks' = tasks /\ steers' = steers
    BY <1>16 DEF HandleExtendDeadline, RetryAfterPasses, DeadlinePasses
  <2>2. PlainQueue(queue')
    BY <1>0, <1>16 DEF HandleExtendDeadline, RetryAfterPasses, DeadlinePasses, ExtendDeadline,
                       PlainQueue, QueueState
  <2> QED
    BY <1>0, <1>1, <1>2, <2>1, <2>2
<1>17. CASE \/ Collect \/ DrainDone \/ TimerTick \/ Exited \/ UNCHANGED vars
            \/ \E c \in Channels : MemberAdded(c)
            \/ \E a \in Agents : CircuitAges(a)
            \/ \E a \in Agents, result \in {"ok", "failed"} : RespawnEnds(a, result)
  <2>1. UNCHANGED <<queue, tasks, steers>>
    BY <1>17 DEF Collect, DrainDone, TimerTick, Exited, vars, MemberAdded, CircuitAges,
                 RespawnEnds
  <2> QED
    BY <1>0, <1>1, <1>2, <1>3, <2>1
<1>18. /\ ~\E s \in steers : HandleSteerAck(s)
       /\ ~\E s \in steers, state \in Resolved \cup {"written"} : SteerStep(s, state)
  BY <1>0
<1> QED
  BY <1>5, <1>6, <1>7, <1>8, <1>9, <1>10, <1>11, <1>12, <1>13, <1>14, <1>15, <1>16, <1>17, <1>18
     DEF Next, LoopStep, OtherStep

\* At the start the queue is empty and no turn runs.
LEMMA InitPlain == Handling = "Queue" /\ "SwitchModel" \notin Controls /\ Init => PlainInv
BY NoTaskPlain DEF Init, PlainInv, PlainQueue, EmptyQueue

LEMMA PlainInvariant ==
    Handling = "Queue" /\ "SwitchModel" \notin Controls /\ Spec => []PlainInv
<1> QED
  BY InitPlain, NextPlain, PlaceInvariant, HarnessInvariant, PTL DEF Spec

\* The last event of a prompted batch is the newest one, in a harness that queues
\* what arrives during a turn and switches no model.
THEOREM PromptsEndWithNewest ==
    Handling = "Queue" /\ "SwitchModel" \notin Controls /\ Spec => []NewestLast
<1>1. PlainInv => NewestLast
  BY DEF PlainInv, PlainTask, Newest, NewestLast, Busy
<1> QED
  BY <1>1, PlainInvariant, PTL

-----------------------------------------------------------------------------
(* A harness that queues: no event disappears *)

\* The queue or a turn holds the event.
Kept(q, ts, f) ==
    \/ \E c \in Channels : f \in ChannelItems(q, c)
    \/ \E a \in Agents : f \in BatchItems(ts[a].batch)

\* Every event without a recorded end is held.
LossInv == \A i \in 1..MaxEvents : fate[i] = "live" => \E f : Kept(queue, tasks, f) /\ f.id = i

\* A step that records the end of what it lets go.
LEMMA SettleLoss ==
    ASSUME HarnessInv, LossInv, NEW evs, NEW end \in Fates \ {"live"},
           fate' = Settle(fate, evs, end),
           \A f : Kept(queue, tasks, f) => Kept(queue', tasks', f) \/ f \in evs
    PROVE  LossInv'
<1> SUFFICES ASSUME NEW i \in 1..MaxEvents, fate'[i] = "live"
             PROVE  \E f : Kept(queue', tasks', f) /\ f.id = i
  BY DEF LossInv
<1>1. fate'[i] = IF i \in Ids(evs) /\ fate[i] = "live" THEN end ELSE fate[i]
  BY DEF Settle, HarnessInv, HistoryOK
<1>2. fate[i] = "live" /\ i \notin Ids(evs)
  BY <1>1
<1>3. PICK f : Kept(queue, tasks, f) /\ f.id = i
  BY <1>2 DEF LossInv
<1>4. f \notin evs
  BY <1>2, <1>3 DEF Ids
<1> QED
  BY <1>3, <1>4

\* A step that lets nothing go.
LEMMA KeepLoss ==
    ASSUME LossInv, fate' = fate, \A f : Kept(queue, tasks, f) => Kept(queue', tasks', f)
    PROVE  LossInv'
BY DEF LossInv

\* What holds an event after a step that moves no event and changes no batch.
LEMMA StillKept ==
    ASSUME NEW q, NEW r, SameEvents(q, r), NEW ts, NEW us,
           \A a \in Agents : us[a].batch = ts[a].batch
    PROVE  \A f : Kept(q, ts, f) => Kept(r, us, f)
BY DEF SameEvents, Kept, ChannelItems

\* The expiry block lets go what it evicts.
LEMMA ExpireKept ==
    ASSUME NEW q, QueueOK(q), \A c \in Channels : ChannelSound(q, c), NEW ts
    PROVE  \A f : Kept(q, ts, f) => Kept(ExpireInFlight(q), ts, f) \/ f \in ExpiryEvicts(q)
<1>1. \A c \in Channels : ChannelItems(q, c) \subseteq
                            ChannelItems(ExpireInFlight(q), c) \cup ExpiryEvicts(q)
  BY ExpireMoves
<1> QED
  BY <1>1 DEF Kept

\* A batch without cancelled events goes back to its queue but for the overflow.
LEMMA RequeueKept ==
    ASSUME NEW q, QueueOK(q), NEW b, BatchOK(b), b.cancelled = <<>>,
           NEW r, r.queues[b.channel] = PushFront(q.queues[b.channel], b.events),
           r.cancelled = q.cancelled, r.withheld = q.withheld
    PROVE  ChannelItems(q, b.channel) \cup BatchItems(b) \subseteq
             ChannelItems(r, b.channel) \cup Overflow(q.queues[b.channel], b.events)
<1> DEFINE c == b.channel
           s == q.queues[c]
<1>1. c \in Channels /\ b.events \in Seq(Event) /\ s \in Seq(Event)
  BY FieldTypes DEF BatchOK, Batch, QueueOK
<1>2. Items(PushFront(s, b.events)) \cup Overflow(s, b.events) = Items(s) \cup Items(b.events)
  BY <1>1, PushFrontItems
<1>3. BatchItems(b) = Items(b.events)
  BY EmptyItems DEF BatchItems
<1> QED
  BY <1>2, <1>3 DEF ChannelItems

\* dispatch_pending starts a turn in a slot that held nothing.
LEMMA DispatchBatchLoss ==
    ASSUME HarnessInv, PoolInv, PlaceInv, PlainInv, LossInv, DispatchBatch
    PROVE  LossInv'
<1> DEFINE Started(b) == [phase |-> "running", channel |-> b.channel, batch |-> b,
                          root |-> b.events[Len(b.events)].root, control |-> "armed",
                          outcome |-> "none", retry |-> NoBatch]
<1>0. \A b : Started(b).batch = b
  OBVIOUS
<1>1. PICK out \in FlushNext(queue), a \in idle :
        /\ out.batch # NoBatch
        /\ queue' = out.queue
        /\ tasks' = [tasks EXCEPT ![a] = Started(out.batch)]
  BY DEF DispatchBatch
<1> HIDE DEF Started
<1> DEFINE x == ExpireInFlight(queue)
           c == out.batch.channel
<1>2. a \in Agents /\ tasks \in [Agents -> Task] /\ QueueOK(queue)
      /\ \A d \in Channels : ChannelSound(queue, d)
  BY DEF HarnessInv, RestOK, PlaceInv, PlaceOK, Separate
<1>3. tasks'[a].batch = out.batch /\ \A b \in Agents : b # a => tasks'[b] = tasks[b]
  BY <1>0, <1>1, <1>2
<1>4. BatchItems(tasks[a].batch) = {}
  <2>1. tasks[a].phase = "none"
    BY <1>2 DEF PoolInv, SlotOwnedOnce, Busy
  <2>2. tasks[a].batch.events = <<>> /\ tasks[a].batch.cancelled = <<>>
    BY <1>2, <2>1 DEF PlainInv, PlainTask
  <2> QED
    BY <2>2, EmptyItems DEF BatchItems
<1>5. /\ c \in Channels /\ OthersSame(x, out.queue, c)
      /\ ChannelItems(x, c) = ChannelItems(out.queue, c) \cup BatchItems(out.batch)
  BY <1>1, <1>2, FlushNextMoves DEF FlushMoves
<1>6. \A f : Kept(queue, tasks, f) => Kept(x, tasks, f) \/ f \in ExpiryEvicts(queue)
  BY <1>2, ExpireKept
<1> HIDE DEF x, c
<1>7. \A d \in Channels \ {c} : ChannelItems(queue', d) = ChannelItems(x, d)
  BY <1>1, <1>5, OthersItems
<1>8. \A f : Kept(x, tasks, f) => Kept(queue', tasks', f)
  <2> SUFFICES ASSUME NEW f, Kept(x, tasks, f) PROVE Kept(queue', tasks', f)
    OBVIOUS
  <2>1. CASE \E d \in Channels : f \in ChannelItems(x, d)
    BY <1>1, <1>2, <1>3, <1>5, <1>7, <2>1 DEF Kept
  <2>2. CASE \E b \in Agents : f \in BatchItems(tasks[b].batch)
    BY <1>3, <1>4, <2>2 DEF Kept
  <2> QED
    BY <2>1, <2>2 DEF Kept
<1>9. fate' = Settle(fate, ExpiryEvicts(queue), "dropped") /\ "dropped" \in Fates \ {"live"}
  BY DEF DispatchBatch, Fates
<1> QED
  BY <1>6, <1>8, <1>9, SettleLoss

\* dispatch_pending finds no agent.
LEMMA DispatchExhaustedLoss ==
    ASSUME HarnessInv, PlaceInv, PlainInv, LossInv, DispatchExhausted
    PROVE  LossInv'
<1>1. PICK out \in FlushNext(queue) :
        /\ out.batch # NoBatch
        /\ queue' = MarkComplete(RequeuePreserveTimestamps(out.queue, out.batch),
                                 out.batch.channel)
        /\ fate' = Settle(fate, ExpiryEvicts(queue) \cup
                     Overflow(out.queue.queues[out.batch.channel], out.batch.events),
                     "dropped")
  BY DEF DispatchExhausted
<1> DEFINE x == ExpireInFlight(queue)
           c == out.batch.channel
           r == RequeuePreserveTimestamps(out.queue, out.batch)
           lost == Overflow(out.queue.queues[c], out.batch.events)
<1>2. QueueOK(queue) /\ PlainQueue(queue) /\ (\A d \in Channels : ChannelSound(queue, d))
      /\ tasks' = tasks
  BY DEF HarnessInv, PlainInv, PlaceInv, PlaceOK, Separate, DispatchExhausted
<1>3. out.batch.cancelled = <<>>
  BY <1>1, <1>2, FlushPlain
<1>4. QueueOK(out.queue) /\ BatchOK(out.batch)
  BY <1>1, <1>2, FlushNextOK DEF FlushOutcomeOK
<1>5. /\ c \in Channels /\ OthersSame(x, out.queue, c)
      /\ ChannelItems(x, c) = ChannelItems(out.queue, c) \cup BatchItems(out.batch)
  BY <1>1, <1>2, FlushNextMoves DEF FlushMoves
<1>6. \A f : Kept(queue, tasks, f) => Kept(x, tasks, f) \/ f \in ExpiryEvicts(queue)
  BY <1>2, ExpireKept
<1>7. /\ r.queues[c] = PushFront(out.queue.queues[c], out.batch.events)
      /\ r.cancelled = out.queue.cancelled /\ r.withheld = out.queue.withheld
      /\ OthersSame(out.queue, r, c) /\ r \in QueueState
  BY <1>4, <1>5, RequeuePreserveTimestampsOK DEF RequeuePreserveTimestamps, QueueOK, QueueState, OthersSame
<1> HIDE DEF x, r
<1>8. ChannelItems(out.queue, c) \cup BatchItems(out.batch) \subseteq ChannelItems(r, c) \cup lost
  BY <1>3, <1>4, <1>7, RequeueKept
<1>9. SameEvents(r, queue')
  BY <1>1, <1>5, <1>7, MethodsSameEvents DEF r
<1> HIDE DEF c, lost
<1>10. \A d \in Channels \ {c} : ChannelItems(r, d) = ChannelItems(x, d)
  BY <1>5, <1>7, OthersItems
<1>11. \A f : Kept(x, tasks, f) => Kept(r, tasks, f) \/ f \in lost
  BY <1>5, <1>8, <1>10 DEF Kept
<1>12. \A f : Kept(r, tasks, f) => Kept(queue', tasks', f)
  BY <1>2, <1>9, StillKept
<1>13. fate' = Settle(fate, ExpiryEvicts(queue) \cup lost, "dropped") /\ "dropped" \in Fates \ {"live"}
  BY <1>1 DEF Fates, lost, c
<1>14. \A f : Kept(queue, tasks, f) => Kept(queue', tasks', f) \/ f \in ExpiryEvicts(queue) \cup lost
  BY <1>6, <1>11, <1>12
<1> QED
  BY <1>13, <1>14, SettleLoss

\* A turn ends.
LEMMA TurnEndsLoss ==
    ASSUME HarnessInv, PlaceInv, PlainInv, LossInv, NEW a \in Agents,
           HandlePromptResult(a) \/ RecoverPanicked(a)
    PROVE  LossInv'
<1>1. PICK after : /\ PlainEnd(tasks[a], after) /\ after.queue \in QueueState
                   /\ queue' = IF tasks[a].channel = NoChannel THEN after.queue
                               ELSE MarkComplete(after.queue, tasks[a].channel)
                   /\ fate' = after.fate
                   /\ tasks' = [tasks EXCEPT ![a] = NoTask]
  BY PlainTurnEnds DEF PlainInv
<1>2. TaskOK(tasks[a]) /\ tasks \in [Agents -> Task] /\ QueueOK(queue) /\ queue \in QueueState
      /\ tasks[a].batch.cancelled = <<>>
  BY DEF HarnessInv, TasksOK, QueueOK, PlainInv, PlainTask
<1>3. \A b \in Agents : b # a => tasks'[b] = tasks[b]
  BY <1>1, <1>2
<1>4. SameEvents(after.queue, queue')
  BY <1>1, <1>2, MethodsSameEvents DEF SameEvents, TaskOK, Task
<1>5. \A f : Kept(after.queue, tasks', f) => Kept(queue', tasks', f)
  BY <1>4, StillKept
<1> DEFINE mine == BatchItems(tasks[a].batch)
<1>6. ASSUME SameEvents(queue, after.queue),
             NEW end \in Fates \ {"live"}, after.fate = Settle(fate, mine, end)
      PROVE  LossInv'
  <2>1. \A f : Kept(queue, tasks, f) => Kept(after.queue, tasks', f) \/ f \in mine
    BY <1>3, <1>6 DEF Kept, SameEvents, ChannelItems
  <2>2. \A f : Kept(queue, tasks, f) => Kept(queue', tasks', f) \/ f \in mine
    BY <1>5, <2>1
  <2> QED
    BY <1>1, <1>6, <2>2, SettleLoss
<1>7. CASE after.queue = queue /\ \E end \in Fates \ {"live"} : after.fate = Settle(fate, mine, end)
  BY <1>6, <1>7 DEF SameEvents
<1>8. ASSUME NEW b, BatchOK(b), b.channel = tasks[a].channel,
             b.events = tasks[a].batch.events, b.cancelled = <<>>,
             after.queue = Requeue(queue, b),
             IF Exhausted(queue, b)
             THEN \E end \in Fates \ {"live"} : after.fate = Settle(fate, mine, end)
             ELSE after.fate = Settle(fate, Overflow(queue.queues[b.channel], b.events), "dropped")
      PROVE  LossInv'
  <2>1. CASE Exhausted(queue, b)
    <3>1. SameEvents(queue, after.queue)
      BY <1>2, <1>8, <2>1 DEF SameEvents, Requeue, QueueState
    <3> QED
      BY <1>6, <1>8, <2>1, <3>1
  <2>2. CASE ~Exhausted(queue, b)
    <3> DEFINE c == b.channel
               r == after.queue
               lost == Overflow(queue.queues[c], b.events)
    <3>1. /\ c \in Channels /\ OthersSame(queue, r, c)
          /\ r.queues[c] = PushFront(queue.queues[c], b.events)
          /\ r.cancelled = queue.cancelled /\ r.withheld = queue.withheld
      BY <1>2, <1>8, <2>2 DEF Requeue, QueueState, OthersSame, BatchOK
    <3>2. ChannelItems(queue, c) \cup BatchItems(b) \subseteq ChannelItems(r, c) \cup lost
      BY <1>2, <1>8, <3>1, RequeueKept
    <3>3. BatchItems(b) = mine
      BY <1>2, <1>8 DEF BatchItems
    <3>4. \A d \in Channels \ {c} : ChannelItems(r, d) = ChannelItems(queue, d)
      BY <3>1, OthersItems
    <3>5. after.fate = Settle(fate, lost, "dropped") /\ "dropped" \in Fates \ {"live"}
      BY <1>8, <2>2 DEF Fates
    <3> HIDE DEF c, lost, mine
    <3>6. \A f : Kept(queue, tasks, f) => Kept(r, tasks', f) \/ f \in lost
      <4> SUFFICES ASSUME NEW f, Kept(queue, tasks, f) PROVE Kept(r, tasks', f) \/ f \in lost
        OBVIOUS
      <4>1. CASE \E d \in Channels : f \in ChannelItems(queue, d)
        BY <3>1, <3>2, <3>4, <4>1 DEF Kept
      <4>2. CASE \E d \in Agents : f \in BatchItems(tasks[d].batch)
        BY <1>3, <3>1, <3>2, <3>3, <4>2 DEF Kept, mine
      <4> QED
        BY <4>1, <4>2 DEF Kept
    <3>7. \A f : Kept(queue, tasks, f) => Kept(queue', tasks', f) \/ f \in lost
      BY <1>5, <3>6
    <3> QED
      BY <1>1, <3>5, <3>7, SettleLoss
  <2> QED
    BY <2>1, <2>2
<1> QED
  BY <1>1, <1>7, <1>8 DEF PlainEnd

\* An event arrives.
LEMMA RelayEventLoss ==
    ASSUME HarnessInv, PlaceInv, PlainInv, LossInv, NEW shape \in Shapes, RelayEvent(shape)
    PROVE  LossInv'
<1> DEFINE e == Arrival(shape)
           c == e.channel
           lost == PushEvicts(queue, e)
<1>1. /\ tasks' = tasks
      /\ IF Accepts(queue, e)
         THEN /\ queue' = Push(queue, e)
              /\ fate' = [Settle(fate, lost, "dropped") EXCEPT ![nextId] = "live"]
         ELSE queue' = queue /\ fate' = [fate EXCEPT ![nextId] = "dropped"]
  BY PlainArrival
<1>2. e.id = nextId /\ c \in Channels
  BY ArrivalType
<1>3. queue' = Push(queue, e) =>
        /\ OthersSame(queue, queue', c)
        /\ ChannelItems(queue, c) \cup {e} \subseteq ChannelItems(queue', c) \cup lost
        /\ e \in Items(queue'.queues[c])
  BY ArrivalMoves
<1> HIDE DEF e, c, lost
<1>4. fate \in [1..MaxEvents -> Fates]
  BY DEF HarnessInv, HistoryOK
<1>5. CASE ~Accepts(queue, e)
  <2>1. \A i \in 1..MaxEvents : fate'[i] = "live" => fate[i] = "live"
    BY <1>1, <1>4, <1>5
  <2> QED
    BY <1>1, <1>5, <2>1 DEF LossInv
<1>6. CASE Accepts(queue, e)
  <2>1. \A d \in Channels \ {c} : ChannelItems(queue', d) = ChannelItems(queue, d)
    BY <1>1, <1>3, <1>6, OthersItems
  <2>2. \A f : Kept(queue, tasks, f) => Kept(queue', tasks', f) \/ f \in lost
    BY <1>1, <1>2, <1>3, <1>6, <2>1 DEF Kept
  <2>3. Kept(queue', tasks', e)
    BY <1>1, <1>2, <1>3, <1>6 DEF Kept, ChannelItems
  <2> SUFFICES ASSUME NEW i \in 1..MaxEvents, fate'[i] = "live"
               PROVE  \E f : Kept(queue', tasks', f) /\ f.id = i
    BY DEF LossInv
  <2>4. CASE i = nextId
    BY <1>2, <2>3, <2>4
  <2>5. CASE i # nextId
    <3>1. fate'[i] = Settle(fate, lost, "dropped")[i]
      BY <1>1, <1>4, <1>6, <2>5 DEF Settle
    <3>2. fate[i] = "live" /\ i \notin Ids(lost)
      BY <1>4, <3>1 DEF Settle
    <3>3. PICK f : Kept(queue, tasks, f) /\ f.id = i
      BY <3>2 DEF LossInv
    <3>4. f \notin lost
      BY <3>2, <3>3 DEF Ids
    <3> QED
      BY <2>2, <3>3, <3>4
  <2> QED
    BY <2>4, <2>5
<1> QED
  BY <1>5, <1>6

\* Every step of a harness that queues records the end of what it lets go.
LEMMA NextLoss ==
    HarnessInv /\ PoolInv /\ PlaceInv /\ PlainInv /\ LossInv /\ [Next]_vars => LossInv'
<1> SUFFICES ASSUME HarnessInv, PoolInv, PlaceInv, PlainInv, LossInv, [Next]_vars PROVE LossInv'
  OBVIOUS
<1>0. QueueOK(queue) /\ queue \in QueueState /\ tasks \in [Agents -> Task] /\ steers = {}
      /\ SameEvents(queue, queue) /\ \A c \in Channels : ChannelSound(queue, c)
  BY DEF HarnessInv, QueueOK, SameEvents, PlainInv, PlaceInv, PlaceOK, Separate
<1>1. fate' = fate /\ SameEvents(queue, queue')
      /\ (\A a \in Agents : tasks'[a].batch = tasks[a].batch) => LossInv'
  BY StillKept, KeepLoss
<1>2. ASSUME NEW q, QueueOK(q), SameEvents(queue, q), queue' = ExpireInFlight(q),
             fate' = Settle(fate, ExpiryEvicts(q), "dropped"),
             \A f : Kept(q, tasks, f) => Kept(q, tasks', f)
      PROVE  LossInv'
  <2>1. \A c \in Channels : ChannelSound(q, c)
    BY <1>0, <1>2 DEF SameEvents, ChannelSound
  <2>2. \A f : Kept(queue, tasks, f) => Kept(q, tasks, f)
    BY <1>2, StillKept
  <2>3. \A f : Kept(q, tasks', f) => Kept(queue', tasks', f) \/ f \in ExpiryEvicts(q)
    BY <1>2, <2>1, ExpireKept
  <2>4. \A f : Kept(queue, tasks, f) => Kept(queue', tasks', f) \/ f \in ExpiryEvicts(q)
    BY <1>2, <2>2, <2>3
  <2>5. "dropped" \in Fates \ {"live"}
    BY DEF Fates
  <2> QED
    BY <1>2, <2>4, <2>5, SettleLoss
<1>3. CASE Maintain
  <2> DEFINE k == CompactExpiredState(queue)
  <2>1. QueueOK(k)
    BY <1>0, CompactExpiredStateOK
  <2>2. SameEvents(queue, k)
    BY <1>0 DEF SameEvents, QueueState, CompactExpiredState
  <2>3. queue' = ExpireInFlight(k) /\ tasks' = tasks
        /\ fate' = Settle(fate, ExpiryEvicts(k), "dropped")
    BY <1>3 DEF Maintain
  <2> HIDE DEF k
  <2> QED
    BY <1>2, <2>1, <2>2, <2>3
<1>4. CASE DispatchNothing
  <2>1. tasks' = tasks /\ fate' = Settle(fate, ExpiryEvicts(queue), "dropped")
    BY <1>4 DEF DispatchNothing
  <2> QED
    BY <1>0, <1>2, <1>4, <2>1, DispatchNothingQueue
<1>5. CASE DispatchBatch
  BY <1>5, DispatchBatchLoss
<1>6. CASE DispatchExhausted
  BY <1>6, DispatchExhaustedLoss
<1>7. CASE HeartbeatTick
  <2> DEFINE beat == [NoTask EXCEPT !.phase = "running"]
  <2>1. tasks' = tasks \/ \E a \in idle : tasks' = [tasks EXCEPT ![a] = beat]
    BY <1>7 DEF HeartbeatTick
  <2>2. queue' = ExpireInFlight(queue) /\ fate' = Settle(fate, ExpiryEvicts(queue), "dropped")
    BY <1>7 DEF HeartbeatTick
  <2> HIDE DEF beat
  <2>3. \A a \in Agents : tasks'[a] = tasks[a] \/ BatchItems(tasks[a].batch) = {}
    <3>1. \A a \in idle : a \in Agents /\ tasks[a].phase = "none"
      BY DEF HarnessInv, RestOK, PoolInv, SlotOwnedOnce, Busy
    <3>2. \A a \in idle : tasks[a].batch.events = <<>> /\ tasks[a].batch.cancelled = <<>>
      BY <3>1 DEF PlainInv, PlainTask
    <3>3. \A a \in idle : BatchItems(tasks[a].batch) = {}
      BY <3>2, EmptyItems DEF BatchItems
    <3> QED
      BY <1>0, <2>1, <3>1, <3>3
  <2>4. \A f : Kept(queue, tasks, f) => Kept(queue, tasks', f)
    BY <2>3 DEF Kept
  <2> QED
    BY <1>0, <1>2, <2>2, <2>4
<1>8. CASE \E a \in Agents : HandlePromptResult(a) \/ RecoverPanicked(a)
  BY <1>8, TurnEndsLoss
<1>9. CASE \E shape \in Shapes : RelayEvent(shape)
  BY <1>9, RelayEventLoss
<1>10. ASSUME NEW c \in Channels, MemberRemoved(c) PROVE LossInv'
  <2>1. tasks' = tasks /\ queue' = DrainChannel(queue, c)
        /\ fate' = Settle(fate, ChannelItems(queue, c), "dropped")
    BY <1>10 DEF MemberRemoved, ChannelItems
  <2>2. \A d \in Channels \ {c} : ChannelItems(queue', d) = ChannelItems(queue, d)
    BY <1>0, <2>1, DrainMoves, OthersItems
  <2>3. \A f : Kept(queue, tasks, f) => Kept(queue', tasks', f) \/ f \in ChannelItems(queue, c)
    BY <2>1, <2>2 DEF Kept
  <2>4. "dropped" \in Fates \ {"live"}
    BY DEF Fates
  <2> QED
    BY <2>1, <2>3, <2>4, SettleLoss
<1>11. CASE \E a \in Agents : TaskPanics(a) \/ \E outcome \in Outcomes : TaskFinishes(a, outcome)
  <2>1. fate' = fate /\ queue' = queue
    BY <1>11 DEF TaskPanics, TaskFinishes
  <2>2. \A b \in Agents : tasks'[b].batch = tasks[b].batch
    BY <1>11, TaskStepsPlace
  <2> QED
    BY <1>0, <1>1, <2>1, <2>2
<1>12. CASE \E c \in Channels, signal \in Controls : ControlCommand(c, signal)
  <2>1. fate' = fate /\ queue' = queue
    BY <1>12 DEF ControlCommand
  <2>2. SameBatches(tasks')
    BY <1>12, ArmsSameBatches
  <2> QED
    BY <1>0, <1>1, <2>1, <2>2 DEF SameBatches
<1>13. CASE \/ Collect \/ DrainDone \/ TimerTick \/ Exited \/ UNCHANGED vars
            \/ \E c \in Channels : \/ MemberAdded(c) \/ HandleExtendDeadline(c)
                                   \/ RetryAfterPasses(c) \/ DeadlinePasses(c)
            \/ \E a \in Agents : CircuitAges(a)
            \/ \E a \in Agents, result \in {"ok", "failed"} : RespawnEnds(a, result)
  <2>1. UNCHANGED <<tasks, fate>>
    BY <1>13 DEF Collect, DrainDone, TimerTick, Exited, vars, MemberAdded, CircuitAges,
                 RespawnEnds, HandleExtendDeadline, RetryAfterPasses, DeadlinePasses
  <2>2. SameEvents(queue, queue')
    BY <1>0, <1>13 DEF Collect, DrainDone, TimerTick, Exited, vars, MemberAdded, CircuitAges,
                 RespawnEnds, HandleExtendDeadline, RetryAfterPasses, DeadlinePasses,
                 ExtendDeadline, SameEvents, QueueState
  <2> QED
    BY <1>1, <2>1, <2>2
<1>14. /\ ~\E s \in steers : HandleSteerAck(s)
       /\ ~\E s \in steers, state \in Resolved \cup {"written"} : SteerStep(s, state)
  BY <1>0
<1> QED
  BY <1>3, <1>4, <1>5, <1>6, <1>7, <1>8, <1>9, <1>10, <1>11, <1>12, <1>13, <1>14
     DEF Next, LoopStep, OtherStep

\* No event has arrived at the start.
LEMMA InitLoss == Init => LossInv
BY DEF Init, LossInv

\* What the queue or a turn keeps is held.
LEMMA KeptHeld ==
    ASSUME NEW f, Kept(queue, tasks, f)
    PROVE  f \in Held
<1>1. (\E c \in Channels : f \in QueueItems(c)) \/ (\E a \in Agents : f \in TaskItems(a))
  BY DEF Kept, QueueItems, TaskItems, ChannelItems
<1>2. CASE \E c \in Channels : f \in QueueItems(c)
  <2>1. f \in UNION {QueueItems(c) : c \in Channels}
    BY <1>2
  <2> QED
    BY <2>1 DEF Held
<1>3. CASE \E a \in Agents : f \in TaskItems(a)
  <2>1. f \in UNION {TaskItems(a) : a \in Agents}
    BY <1>3
  <2> QED
    BY <2>1 DEF Held
<1> QED
  BY <1>1, <1>2, <1>3

\* No event disappears from a harness that queues what arrives during a turn and
\* switches no model: whatever is requeued, evicted, expired or drained, an event
\* without a recorded end is in a queue or in a turn.
THEOREM EventsAreNotLost ==
    Handling = "Queue" /\ "SwitchModel" \notin Controls /\ Spec => []NoSilentLoss
<1>1. LossInv => NoSilentLoss
  BY KeptHeld DEF LossInv, NoSilentLoss, Ids
<1> QED
  BY <1>1, InitLoss, NextLoss, PlainInvariant, PlaceInvariant, PoolInvariant, HarnessInvariant, PTL
     DEF Spec

=============================================================================
