----------------------------- MODULE EventQueueProofs -----------------------------
(***************************************************************************)
(* What the methods of the event queue preserve, for every set of channels *)
(* and every value of the caps.  QueueOK is the queue's own invariant; one  *)
(* lemma per method shows that the method keeps it.  AgentHarnessProofs     *)
(* lifts them to the main loop.                                            *)
(***************************************************************************)
EXTENDS EventQueue, SequenceTheorems, WellFoundedInduction, TLAPS

\* In flight and deadline go together.
DeadlinesMatch(q) == \A c \in Channels : c \in q.inFlight <=> q.deadlines[c] # "none"

\* The cap of every channel holds.
WithinCap(q) == \A c \in Channels : Len(q.queues[c]) <= MaxPending

\* The counter is bounded, and a running throttle belongs to a counted attempt.
ThrottleCounted(q) ==
    \A c \in Channels : /\ q.retryCounts[c] <= MaxRetries
                        /\ q.retryAfter[c] = "active" => q.retryCounts[c] > 0

QueueOK(q) ==
    /\ q \in QueueState
    /\ DeadlinesMatch(q)
    /\ WithinCap(q)
    /\ ThrottleCounted(q)

-----------------------------------------------------------------------------
(* Sequences *)

\* Least is the minimum of two numbers.
LEMMA LeastProperties ==
    ASSUME NEW a \in Int, NEW b \in Int
    PROVE  Least(a, b) \in {a, b} /\ Least(a, b) <= a /\ Least(a, b) <= b
BY DEF Least

\* A part of a sequence that stays inside it is a sequence of the same type.
LEMMA SubSeqInside ==
    ASSUME NEW S, NEW s \in Seq(S), NEW m \in Nat \ {0}, NEW n \in Int, n <= Len(s)
    PROVE  /\ SubSeq(s, m, n) \in Seq(S)
           /\ Len(SubSeq(s, m, n)) = IF m <= n THEN n - m + 1 ELSE 0
<1>1. \A i \in m..n : s[i] \in S
  BY LenProperties, ElementOfSeq
<1> QED
  BY <1>1, SubSeqProperties

\* Events put back at the front of a queue (push_front and the pop_back loop of
\* requeue) leave a queue of events within the cap.
LEMMA PushFrontType ==
    ASSUME NEW s \in Seq(Event), NEW evs \in Seq(Event)
    PROVE  PushFront(s, evs) \in Seq(Event) /\ Len(PushFront(s, evs)) <= MaxPending
<1> DEFINE t == evs \o s
           n == Least(MaxPending, Len(t))
<1>1. t \in Seq(Event) /\ Len(t) \in Nat
  BY ConcatProperties, LenProperties
<1>2. n \in Nat /\ n <= MaxPending /\ n <= Len(t)
  BY <1>1, LeastProperties, QueueConstants
<1>3. SubSeq(t, 1, n) \in Seq(Event)
      /\ Len(SubSeq(t, 1, n)) = IF 1 <= n THEN n - 1 + 1 ELSE 0
  BY <1>1, <1>2, SubSeqInside
<1>4. PushFront(s, evs) = SubSeq(t, 1, n)
  BY DEF PushFront
<1> HIDE DEF t, n
<1> QED
  BY <1>2, <1>3, <1>4, QueueConstants

\* Removing one position shortens the sequence by one.
LEMMA DropAtType ==
    ASSUME NEW S, NEW s \in Seq(S), NEW i \in DOMAIN s
    PROVE  DropAt(s, i) \in Seq(S) /\ Len(DropAt(s, i)) = Len(s) - 1
<1>1. i \in 1..Len(s) /\ Len(s) \in Nat
  BY LenProperties
<1> DEFINE u == SubSeq(s, 1, i - 1)
           v == SubSeq(s, i + 1, Len(s))
<1>2. u \in Seq(S) /\ Len(u) = i - 1
  BY <1>1, SubSeqInside
<1>3. v \in Seq(S) /\ Len(v) = Len(s) - i
  BY <1>1, SubSeqInside
<1>4. DropAt(s, i) = u \o v
  BY DEF DropAt
<1> HIDE DEF u, v
<1>5. u \o v \in Seq(S) /\ Len(u \o v) = Len(u) + Len(v)
  BY <1>2, <1>3, ConcatProperties
<1> QED
  BY <1>1, <1>2, <1>3, <1>4, <1>5

\* retain / remove by id never lengthens a queue.
LEMMA DropEventType ==
    ASSUME NEW S, NEW s \in Seq(S), NEW e
    PROVE  DropEvent(s, e) \in Seq(S) /\ Len(DropEvent(s, e)) <= Len(s)
<1>1. Len(s) \in Nat
  BY LenProperties
<1>2. CASE \E i \in DOMAIN s : s[i] = e
  <2> DEFINE k == CHOOSE i \in DOMAIN s : s[i] = e
  <2>1. k \in DOMAIN s
    BY <1>2
  <2>2. DropEvent(s, e) = DropAt(s, k)
    BY <1>2 DEF DropEvent
  <2> HIDE DEF k
  <2> QED
    BY <1>1, <2>1, <2>2, DropAtType
<1>3. CASE ~\E i \in DOMAIN s : s[i] = e
  BY <1>1, <1>3 DEF DropEvent
<1> QED
  BY <1>2, <1>3

\* Every non-empty set of natural numbers has a least element.
LEMMA LeastElement ==
    ASSUME NEW T, T \subseteq Nat, T # {}
    PROVE  \E m \in T : \A k \in T : m <= k
<1> DEFINE R == OpToRel(<, Nat)
<1>1. IsWellFoundedOn(R, Nat)
  BY NatLessThanWellFounded
<1>2. \A x, y \in Nat : x < y => <<x, y>> \in R
  BY DEF OpToRel
<1> HIDE DEF R
<1>3. PICK m \in T : \A k \in T : <<k, m>> \notin R
  BY <1>1, WFMin
<1>4. \A k \in T : ~(k < m)
  BY <1>2, <1>3
<1> QED
  BY <1>3, <1>4

\* The first scoped event of a sequence that has one is a position of it, and
\* the events before it are not scoped.
LEMMA FirstScopedType ==
    ASSUME NEW S, NEW s \in Seq(S), HasScoped(s)
    PROVE  /\ FirstScoped(s) \in DOMAIN s
           /\ s[FirstScoped(s)].scoped
           /\ \A j \in 1..(FirstScoped(s) - 1) : ~s[j].scoped
<1> DEFINE T == {i \in DOMAIN s : s[i].scoped}
<1>1. DOMAIN s = 1..Len(s) /\ Len(s) \in Nat
  BY LenProperties
<1>2. PICK m \in T : \A k \in T : m <= k
  <2>1. T \subseteq Nat
    BY <1>1
  <2>2. T # {}
    BY DEF HasScoped
  <2> QED
    BY <2>1, <2>2, LeastElement
<1>3. m \in DOMAIN s /\ s[m].scoped
  OBVIOUS
<1>4. \A j \in 1..(m - 1) : ~s[j].scoped
  <2> SUFFICES ASSUME NEW j \in 1..(m - 1), s[j].scoped PROVE FALSE
    OBVIOUS
  <2>1. j \in DOMAIN s /\ j < m
    BY <1>1, <1>3
  <2>2. j \in T
    BY <2>1
  <2> QED
    BY <1>1, <1>2, <1>3, <2>1, <2>2
<1> QED
  BY <1>3, <1>4 DEF FirstScoped

\* sort_by_key permutes: the sorted batch is a sequence of the same length.
LEMMA SortedType ==
    ASSUME NEW s \in Seq(Event), NEW t \in SortedByCreated(s)
    PROVE  t \in Seq(Event) /\ Len(t) = Len(s)
<1>1. DOMAIN s = 1..Len(s) /\ Len(s) \in Nat
  BY LenProperties
<1>2. PICK p \in [DOMAIN s -> DOMAIN s] : t = [i \in DOMAIN s |-> s[p[i]]]
  BY DEF SortedByCreated
<1>3. \A i \in 1..Len(s) : s[p[i]] \in Event
  BY <1>1, <1>2, ElementOfSeq
<1>4. t \in [1..Len(s) -> Event]
  BY <1>1, <1>2, <1>3
<1> QED
  BY <1>1, <1>4

-----------------------------------------------------------------------------
(* Methods *)

\* A queue is a sequence of events, whichever field it is.
LEMMA FieldTypes ==
    ASSUME NEW q \in QueueState, NEW c \in Channels
    PROVE  /\ q.queues[c] \in Seq(Event)
           /\ q.cancelled[c] \in Seq(Event)
           /\ q.withheld[c] \in Seq(Event)
           /\ q.cancelReasons[c] \in Reasons \cup {"none"}
           /\ q.deadlines[c] \in Clock
           /\ q.retryAfter[c] \in Clock
           /\ q.retryCounts[c] \in Nat
BY DEF QueueState

\* EventQueue::new
LEMMA EmptyQueueOK == QueueOK(EmptyQueue)
BY EmptySeq, QueueConstants
   DEF QueueOK, QueueState, EmptyQueue, DeadlinesMatch, WithinCap, ThrottleCounted, Clock

\* A queue whose channel c gets a new queue within the cap stays correct: the
\* methods that only move events need nothing else.
LEMMA SetQueueOK ==
    ASSUME NEW q, QueueOK(q), NEW c \in Channels, NEW s \in Seq(Event),
           Len(s) <= MaxPending
    PROVE  QueueOK([q EXCEPT !.queues[c] = s])
BY DEF QueueOK, QueueState, DeadlinesMatch, WithinCap, ThrottleCounted

\* The same for the side table of native steers.
LEMMA SetWithheldOK ==
    ASSUME NEW q, QueueOK(q), NEW c \in Channels, NEW s \in Seq(Event)
    PROVE  QueueOK([q EXCEPT !.withheld[c] = s])
BY DEF QueueOK, QueueState, DeadlinesMatch, WithinCap, ThrottleCounted

\* The same for the cancelled batch kept for a channel, with its reason.
LEMMA SetCancelledOK ==
    ASSUME NEW q, QueueOK(q), NEW c \in Channels, NEW s \in Seq(Event),
           NEW r \in Reasons \cup {"none"}
    PROVE  QueueOK([q EXCEPT !.cancelled[c] = s, !.cancelReasons[c] = r])
BY DEF QueueOK, QueueState, DeadlinesMatch, WithinCap, ThrottleCounted

\* A throttle and its counter change together: a running throttle needs a
\* counted attempt, and the counter stays within MAX_RETRIES.
LEMMA SetBackoffOK ==
    ASSUME NEW q, QueueOK(q), NEW c \in Channels, NEW k \in Clock,
           NEW n \in 0..MaxRetries, k = "active" => n > 0
    PROVE  QueueOK([q EXCEPT !.retryCounts[c] = n, !.retryAfter[c] = k])
<1> DEFINE r == [q EXCEPT !.retryCounts[c] = n, !.retryAfter[c] = k]
<1>1. n \in Nat
  BY QueueConstants
<1>2. r \in QueueState
  BY <1>1 DEF QueueOK, QueueState
<1>3. r.inFlight = q.inFlight /\ r.deadlines = q.deadlines /\ r.queues = q.queues
  BY DEF QueueOK, QueueState
<1>4. /\ r.retryAfter = [q.retryAfter EXCEPT ![c] = k]
      /\ r.retryCounts = [q.retryCounts EXCEPT ![c] = n]
  BY DEF QueueOK, QueueState
<1> HIDE DEF r
<1>5. DeadlinesMatch(r) /\ WithinCap(r)
  BY <1>3 DEF QueueOK, DeadlinesMatch, WithinCap
<1>6. ThrottleCounted(r)
  BY <1>4 DEF QueueOK, QueueState, ThrottleCounted
<1>7. QueueOK(r)
  BY <1>2, <1>5, <1>6 DEF QueueOK
<1> QED
  BY <1>7 DEF r

\* Clearing both, as mark_complete, drain_channel and a dead letter do.
LEMMA ClearBackoffOK ==
    ASSUME NEW q, QueueOK(q), NEW c \in Channels
    PROVE  QueueOK([q EXCEPT !.retryCounts[c] = 0, !.retryAfter[c] = "none"])
<1> DEFINE n == 0
           k == "none"
<1>1. n \in 0..MaxRetries /\ k \in Clock /\ k # "active"
  BY QueueConstants DEF Clock
<1> HIDE DEF n, k
<1>2. QueueOK([q EXCEPT !.retryCounts[c] = n, !.retryAfter[c] = k])
  BY <1>1, SetBackoffOK
<1> QED
  BY <1>2 DEF n, k

\* push drops the oldest event of a full queue before it appends.
LEMMA PushOK ==
    ASSUME NEW q, QueueOK(q), NEW e \in Event
    PROVE  QueueOK(Push(q, e))
<1> DEFINE s == q.queues[e.channel]
           kept == IF Len(s) >= MaxPending THEN Tail(s) ELSE s
<1>1. e.channel \in Channels
  BY DEF Event
<1>2. s \in Seq(Event) /\ Len(s) \in Nat /\ Len(s) <= MaxPending
  BY <1>1, FieldTypes, LenProperties DEF QueueOK, WithinCap
<1>3. kept \in Seq(Event) /\ Len(kept) \in Nat /\ Len(kept) < MaxPending
  <2>1. CASE Len(s) >= MaxPending
    <3>1. s # <<>>
      BY <1>2, <2>1, EmptySeq, QueueConstants
    <3> QED
      BY <1>2, <2>1, <3>1, HeadTailProperties, QueueConstants
  <2>2. CASE ~(Len(s) >= MaxPending)
    BY <1>2, <2>2, QueueConstants
  <2> QED
    BY <2>1, <2>2
<1> DEFINE new == Append(kept, e)
<1>4. Push(q, e) = [q EXCEPT !.queues[e.channel] = new]
  BY DEF Push
<1>5. new \in Seq(Event) /\ Len(new) <= MaxPending
  <2> HIDE DEF kept, s
  <2> QED
    BY <1>3, AppendProperties, QueueConstants
<1> HIDE DEF new
<1>6. QueueOK([q EXCEPT !.queues[e.channel] = new])
  BY <1>1, <1>5, SetQueueOK
<1> QED
  BY <1>4, <1>6

\* extend_in_flight_deadline: a late ack never gives a deadline to a channel
\* that is no longer in flight.
LEMMA ExtendDeadlineOK ==
    ASSUME NEW q, QueueOK(q), NEW c \in Channels
    PROVE  QueueOK(ExtendDeadline(q, c))
BY DEF ExtendDeadline, QueueOK, QueueState, DeadlinesMatch, WithinCap, ThrottleCounted,
       Clock

\* The expiry block releases the slot, the deadline and the withheld events of
\* the same channels.
LEMMA ExpireInFlightOK ==
    ASSUME NEW q, QueueOK(q)
    PROVE  QueueOK(ExpireInFlight(q))
<1> DEFINE qs == [c \in Channels |-> IF c \in Expired(q) /\ q.withheld[c] # <<>>
                                     THEN PushFront(q.queues[c], q.withheld[c])
                                     ELSE q.queues[c]]
<1>1. \A c \in Channels : qs[c] \in Seq(Event) /\ Len(qs[c]) <= MaxPending
  BY FieldTypes, PushFrontType DEF QueueOK, WithinCap
<1> DEFINE r == ExpireInFlight(q)
<1>2. qs \in [Channels -> Seq(Event)]
  BY <1>1
<1>3. /\ r.inFlight = q.inFlight \ Expired(q)
      /\ r.deadlines = [c \in Channels |-> IF c \in Expired(q) THEN "none"
                                           ELSE q.deadlines[c]]
      /\ r.queues = qs
      /\ r.retryAfter = q.retryAfter /\ r.retryCounts = q.retryCounts
  BY DEF ExpireInFlight, QueueOK, QueueState
<1>4. r \in QueueState
  <2>1. [c \in Channels |-> IF c \in Expired(q) THEN <<>> ELSE q.withheld[c]]
          \in [Channels -> Seq(Event)]
    BY FieldTypes, EmptySeq DEF QueueOK
  <2> HIDE DEF qs
  <2> QED
    BY <1>2, <2>1 DEF ExpireInFlight, QueueOK, QueueState, Clock, qs
<1> HIDE DEF qs, r
<1>5. DeadlinesMatch(r)
  BY <1>3 DEF QueueOK, QueueState, DeadlinesMatch, Expired
<1>6. WithinCap(r) /\ ThrottleCounted(r)
  BY <1>1, <1>3 DEF QueueOK, WithinCap, ThrottleCounted
<1>7. QueueOK(r)
  BY <1>4, <1>5, <1>6 DEF QueueOK
<1> QED
  BY <1>7 DEF r

\* flush_next installs the deadline with the in-flight entry.
LEMMA TakeFlightOK ==
    ASSUME NEW q, QueueOK(q), NEW c \in Channels
    PROVE  QueueOK(TakeFlight(q, c))
BY DEF TakeFlight, QueueOK, QueueState, DeadlinesMatch, WithinCap, ThrottleCounted, Clock

\* mark_complete
LEMMA MarkCompleteOK ==
    ASSUME NEW q, QueueOK(q), NEW c \in Channels
    PROVE  QueueOK(MarkComplete(q, c))
<1> DEFINE landed == [q EXCEPT !.inFlight = @ \ {c}, !.deadlines[c] = "none"]
<1>1. QueueOK(landed)
  BY DEF QueueOK, QueueState, DeadlinesMatch, WithinCap, ThrottleCounted, Clock
<1>2. QueueOK([landed EXCEPT !.retryCounts[c] = 0, !.retryAfter[c] = "none"])
  <2> HIDE DEF landed
  <2> QED
    BY <1>1, ClearBackoffOK
<1>3. MarkComplete(q, c) \in
        {landed, [landed EXCEPT !.retryCounts[c] = 0, !.retryAfter[c] = "none"]}
  BY DEF MarkComplete
<1> QED
  BY <1>1, <1>2, <1>3

\* A batch the queue hands out or takes back: events of one of its channels.
BatchOK(b) == b \in Batch /\ b.channel \in Channels

\* requeue counts the attempt together with the throttle, and dead-letters
\* before the counter passes MAX_RETRIES.
LEMMA RequeueOK ==
    ASSUME NEW q, QueueOK(q), NEW b, BatchOK(b)
    PROVE  QueueOK(Requeue(q, b))
<1>1. b.channel \in Channels /\ b.events \in Seq(Event)
  BY DEF BatchOK, Batch
<1>2. CASE Exhausted(q, b)
  BY <1>1, <1>2, ClearBackoffOK DEF Requeue
<1>3. CASE ~Exhausted(q, b)
  <2> DEFINE c == b.channel
             s == PushFront(q.queues[c], b.events)
             n == q.retryCounts[c] + 1
             counted == [q EXCEPT !.retryCounts[c] = n, !.retryAfter[c] = "active"]
  <2>1. s \in Seq(Event) /\ Len(s) <= MaxPending
    BY <1>1, FieldTypes, PushFrontType DEF QueueOK
  <2>2. n \in 0..MaxRetries /\ n > 0
    BY <1>1, <1>3, FieldTypes, QueueConstants DEF Exhausted, QueueOK
  <2>3. QueueOK(counted)
    <3> HIDE DEF n
    <3> QED
      BY <1>1, <2>2, SetBackoffOK DEF Clock
  <2>4. Requeue(q, b) = [counted EXCEPT !.queues[c] = s]
    BY <1>3, <1>1 DEF Requeue, QueueOK, QueueState
  <2> HIDE DEF counted, s
  <2> QED
    BY <1>1, <2>1, <2>3, <2>4, SetQueueOK
<1> QED
  BY <1>2, <1>3

\* requeue_preserve_timestamps puts a batch back within the cap.
LEMMA RequeuePreserveTimestampsOK ==
    ASSUME NEW q, QueueOK(q), NEW b, BatchOK(b)
    PROVE  QueueOK(RequeuePreserveTimestamps(q, b))
<1>1. b.channel \in Channels /\ b.events \in Seq(Event)
  BY DEF BatchOK, Batch
<1> QED
  BY <1>1, FieldTypes, PushFrontType, SetQueueOK DEF RequeuePreserveTimestamps, QueueOK

\* requeue_as_cancelled keeps the cut batch apart from the queue.
LEMMA RequeueAsCancelledOK ==
    ASSUME NEW q, QueueOK(q), NEW b, BatchOK(b), NEW r \in Reasons \cup {"none"}
    PROVE  QueueOK(RequeueAsCancelled(q, b, r))
<1>1. b.channel \in Channels /\ b.events \in Seq(Event) /\ b.cancelled \in Seq(Event)
  BY DEF BatchOK, Batch
<1>2. q.cancelled[b.channel] \o b.cancelled \o b.events \in Seq(Event)
  BY <1>1, FieldTypes, ConcatProperties DEF QueueOK
<1> QED
  BY <1>1, <1>2, SetCancelledOK DEF RequeueAsCancelled

\* drain_channel keeps the in-flight entry and its deadline.
LEMMA DrainChannelOK ==
    ASSUME NEW q, QueueOK(q), NEW c \in Channels
    PROVE  QueueOK(DrainChannel(q, c))
<1> DEFINE q1 == [q EXCEPT !.queues[c] = <<>>]
           q2 == [q1 EXCEPT !.retryCounts[c] = 0, !.retryAfter[c] = "none"]
           q3 == [q2 EXCEPT !.cancelled[c] = <<>>, !.cancelReasons[c] = "none"]
           q4 == [q3 EXCEPT !.withheld[c] = <<>>]
<1>1. QueueOK(q1)
  <2> DEFINE s == <<>>
  <2>1. s \in Seq(Event) /\ Len(s) <= MaxPending
    BY EmptySeq, QueueConstants
  <2> HIDE DEF s
  <2>2. QueueOK([q EXCEPT !.queues[c] = s])
    BY <2>1, SetQueueOK
  <2> QED
    BY <2>2 DEF s
<1>2. QueueOK(q2)
  <2> HIDE DEF q1
  <2> QED
    BY <1>1, ClearBackoffOK
<1>3. QueueOK(q3)
  <2> HIDE DEF q2
  <2> QED
    BY <1>2, EmptySeq, SetCancelledOK
<1>4. QueueOK(q4)
  <2> HIDE DEF q3
  <2> QED
    BY <1>3, EmptySeq, SetWithheldOK
<1>5. DrainChannel(q, c) = q4
  BY DEF DrainChannel, QueueOK, QueueState
<1> QED
  BY <1>4, <1>5

\* compact_expired_state resets no counter of a throttled channel.
LEMMA CompactExpiredStateOK ==
    ASSUME NEW q, QueueOK(q)
    PROVE  QueueOK(CompactExpiredState(q))
<1> DEFINE r == CompactExpiredState(q)
<1>1. r \in QueueState
  BY DEF CompactExpiredState, QueueOK, QueueState, Clock
<1>2. r.inFlight = q.inFlight /\ r.deadlines = q.deadlines /\ r.queues = q.queues
  BY DEF CompactExpiredState, QueueOK, QueueState
<1>3. \A c \in Channels :
         /\ r.retryCounts[c] \in {0, q.retryCounts[c]}
         /\ r.retryAfter[c] = "active" =>
               q.retryAfter[c] = "active" /\ r.retryCounts[c] = q.retryCounts[c]
  BY DEF CompactExpiredState, QueueOK, QueueState
<1> HIDE DEF r
<1>4. DeadlinesMatch(r) /\ WithinCap(r)
  BY <1>2 DEF QueueOK, DeadlinesMatch, WithinCap
<1>5. ThrottleCounted(r)
  BY <1>3, QueueConstants DEF QueueOK, ThrottleCounted
<1>6. QueueOK(r)
  BY <1>1, <1>4, <1>5 DEF QueueOK
<1> QED
  BY <1>6 DEF r

\* mark_native_steer_pending moves the event to the side table.
LEMMA MarkNativeSteerPendingOK ==
    ASSUME NEW q, QueueOK(q), NEW e \in Event
    PROVE  QueueOK(MarkNativeSteerPending(q, e))
<1>1. e.channel \in Channels
  BY DEF Event
<1> DEFINE c == e.channel
           s == DropEvent(q.queues[c], e)
           w == Append(q.withheld[c], e)
           q1 == [q EXCEPT !.queues[c] = s]
<1>2. s \in Seq(Event) /\ Len(s) <= MaxPending
  <2>1. q.queues[c] \in Seq(Event) /\ Len(q.queues[c]) <= MaxPending
    BY <1>1, FieldTypes DEF QueueOK, WithinCap
  <2>2. s \in Seq(Event) /\ Len(s) <= Len(q.queues[c])
    BY <2>1, DropEventType
  <2> HIDE DEF s
  <2> QED
    BY <2>1, <2>2, LenProperties, QueueConstants
<1>3. w \in Seq(Event)
  BY <1>1, FieldTypes, AppendProperties DEF QueueOK
<1>4. MarkNativeSteerPending(q, e) \in {q, [q1 EXCEPT !.withheld[c] = w]}
  BY <1>1 DEF MarkNativeSteerPending, QueueOK, QueueState
<1> HIDE DEF s, w
<1>5. QueueOK(q1)
  BY <1>1, <1>2, SetQueueOK
<1> HIDE DEF q1
<1> QED
  BY <1>1, <1>3, <1>4, <1>5, SetWithheldOK

\* release_native_steer moves it back, within the cap.
LEMMA ReleaseNativeSteerOK ==
    ASSUME NEW q, QueueOK(q), NEW e \in Event
    PROVE  QueueOK(ReleaseNativeSteer(q, e))
<1>1. e.channel \in Channels
  BY DEF Event
<1> DEFINE c == e.channel
           w == DropEvent(q.withheld[c], e)
           s == PushFront(q.queues[c], <<e>>)
           q1 == [q EXCEPT !.withheld[c] = w]
<1>2. w \in Seq(Event)
  BY <1>1, FieldTypes, DropEventType DEF QueueOK
<1>3. s \in Seq(Event) /\ Len(s) <= MaxPending
  <2>1. <<e>> \in Seq(Event)
    OBVIOUS
  <2> QED
    BY <1>1, <2>1, FieldTypes, PushFrontType DEF QueueOK
<1>4. ReleaseNativeSteer(q, e) \in {q, [q1 EXCEPT !.queues[c] = s]}
  BY <1>1 DEF ReleaseNativeSteer, QueueOK, QueueState
<1> HIDE DEF s, w
<1>5. QueueOK(q1)
  BY <1>1, <1>2, SetWithheldOK
<1> HIDE DEF q1
<1> QED
  BY <1>1, <1>3, <1>4, <1>5, SetQueueOK

\* remove_event forgets a delivered event wherever it waits.
LEMMA RemoveEventOK ==
    ASSUME NEW q, QueueOK(q), NEW e \in Event
    PROVE  QueueOK(RemoveEvent(q, e))
<1>1. e.channel \in Channels
  BY DEF Event
<1> DEFINE c == e.channel
           w == DropEvent(q.withheld[c], e)
           s == DropEvent(q.queues[c], e)
           q1 == [q EXCEPT !.withheld[c] = w]
<1>2. w \in Seq(Event)
  BY <1>1, FieldTypes, DropEventType DEF QueueOK
<1>3. s \in Seq(Event) /\ Len(s) <= MaxPending
  <2>1. q.queues[c] \in Seq(Event) /\ Len(q.queues[c]) <= MaxPending
    BY <1>1, FieldTypes DEF QueueOK, WithinCap
  <2>2. s \in Seq(Event) /\ Len(s) <= Len(q.queues[c])
    BY <2>1, DropEventType
  <2> HIDE DEF s
  <2> QED
    BY <2>1, <2>2, LenProperties, QueueConstants
<1>4. RemoveEvent(q, e) = [q1 EXCEPT !.queues[c] = s]
  BY <1>1 DEF RemoveEvent, QueueOK, QueueState
<1> HIDE DEF s, w
<1>5. QueueOK(q1)
  BY <1>1, <1>2, SetWithheldOK
<1> HIDE DEF q1
<1> QED
  BY <1>1, <1>3, <1>4, <1>5, SetQueueOK

-----------------------------------------------------------------------------
(* flush_next *)

\* What one outcome of flush_next promises its caller: nothing taken and nothing
\* changed, or a non-empty batch of a channel that was not in flight, which is
\* in flight from now on.
FlushOutcomeOK(q, out) ==
    \/ out.batch = NoBatch /\ out.queue = q
    \/ /\ BatchOK(out.batch)
       /\ out.batch.events # <<>>
       /\ out.batch.channel \notin q.inFlight
       /\ QueueOK(out.queue)
       /\ out.queue.inFlight = q.inFlight \cup {out.batch.channel}
       /\ out.queue.deadlines = [q.deadlines EXCEPT ![out.batch.channel] = "active"]

\* A batch is drained non-empty, and no further than the queue reaches.
LEMMA DrainCountType ==
    ASSUME NEW s \in Seq(Event), s # <<>>
    PROVE  DrainCount(s) \in 1..Len(s)
<1>1. Len(s) \in Nat \ {0}
  BY EmptySeq
<1>2. CASE ~HasScoped(s)
  BY <1>1, <1>2, LeastProperties, QueueConstants DEF DrainCount
<1>3. CASE HasScoped(s)
  <2>1. FirstScoped(s) \in 1..Len(s)
    BY <1>3, FirstScopedType, LenProperties
  <2>2. CASE FirstScoped(s) = 1
    BY <1>1, <1>3, <2>2 DEF DrainCount
  <2>3. CASE FirstScoped(s) # 1
    <3>1. DrainCount(s) = Least(MaxBatch, FirstScoped(s) - 1)
      BY <1>3, <2>3 DEF DrainCount
    <3> QED
      BY <1>1, <2>1, <2>3, <3>1, LeastProperties, QueueConstants
  <2> QED
    BY <2>2, <2>3
<1> QED
  BY <1>2, <1>3

\* Marking a channel in flight after any change that leaves the in-flight table
\* alone gives a proper outcome.
LEMMA TakeFlightOutcome ==
    ASSUME NEW q, QueueOK(q), NEW r, QueueOK(r),
           r.inFlight = q.inFlight, r.deadlines = q.deadlines,
           NEW b, BatchOK(b), b.events # <<>>, b.channel \notin q.inFlight
    PROVE  FlushOutcomeOK(q, [queue |-> TakeFlight(r, b.channel), batch |-> b])
<1>1. b.channel \in Channels
  BY DEF BatchOK
<1>2. QueueOK(TakeFlight(r, b.channel))
  BY <1>1, TakeFlightOK
<1>3. /\ TakeFlight(r, b.channel).inFlight = q.inFlight \cup {b.channel}
      /\ TakeFlight(r, b.channel).deadlines = [q.deadlines EXCEPT ![b.channel] = "active"]
  BY DEF TakeFlight, QueueOK, QueueState
<1> QED
  BY <1>2, <1>3 DEF FlushOutcomeOK

\* The scoped branch of flush_next.
LEMMA FlushScopedOK ==
    ASSUME NEW q, QueueOK(q), NEW c \in ScopedRecoverable(q)
    PROVE  FlushOutcomeOK(q, FlushScoped(q, c))
<1>1. c \in Channels /\ c \notin q.inFlight /\ HasScoped(q.cancelled[c])
  BY DEF ScopedRecoverable
<1> DEFINE s == q.cancelled[c]
           i == FirstScoped(s)
           rest == DropAt(s, i)
           reason == IF rest = <<>> THEN "none" ELSE q.cancelReasons[c]
           r == [q EXCEPT !.cancelled[c] = rest, !.cancelReasons[c] = reason]
           b == [channel |-> c, events |-> <<s[i]>>, cancelled |-> <<>>,
                 reason |-> q.cancelReasons[c]]
<1>2. s \in Seq(Event) /\ q.cancelReasons[c] \in Reasons \cup {"none"}
  BY <1>1, FieldTypes DEF QueueOK
<1>3. i \in DOMAIN s
  BY <1>1, <1>2, FirstScopedType
<1>4. rest \in Seq(Event) /\ s[i] \in Event
  BY <1>2, <1>3, DropAtType, LenProperties
<1>5. BatchOK(b) /\ b.events # <<>> /\ b.channel = c
  <2> HIDE DEF i, s
  <2>1. <<s[i]>> \in Seq(Event) /\ <<s[i]>> # <<>>
    BY <1>4
  <2> QED
    BY <1>1, <1>2, <2>1, EmptySeq DEF BatchOK, Batch
<1>6. FlushScoped(q, c) = [queue |-> TakeFlight(r, b.channel), batch |-> b]
  BY DEF FlushScoped
<1>7. r.inFlight = q.inFlight /\ r.deadlines = q.deadlines
  BY DEF QueueOK, QueueState
<1>8. QueueOK(r)
  <2>1. reason \in Reasons \cup {"none"}
    BY <1>2
  <2> HIDE DEF rest, reason
  <2> QED
    BY <1>1, <1>4, <2>1, SetCancelledOK
<1> HIDE DEF b, r
<1> QED
  BY <1>1, <1>5, <1>6, <1>7, <1>8, TakeFlightOutcome

\* The fallback branch of flush_next: a cancelled batch goes out again.
LEMMA FlushCancelledOK ==
    ASSUME NEW q, QueueOK(q), NEW c \in CancelledIdle(q)
    PROVE  FlushOutcomeOK(q, FlushCancelled(q, c))
<1>1. c \in Channels /\ c \notin q.inFlight /\ q.cancelled[c] # <<>>
  BY DEF CancelledIdle
<1> DEFINE none == <<>>
           r == [q EXCEPT !.cancelled[c] = none, !.cancelReasons[c] = "none"]
           b == [channel |-> c, events |-> q.cancelled[c], cancelled |-> <<>>,
                 reason |-> q.cancelReasons[c]]
<1>2. BatchOK(b) /\ b.events # <<>> /\ b.channel = c
  BY <1>1, FieldTypes, EmptySeq DEF QueueOK, BatchOK, Batch
<1>3. FlushCancelled(q, c) = [queue |-> TakeFlight(r, b.channel), batch |-> b]
  BY DEF FlushCancelled
<1>4. r.inFlight = q.inFlight /\ r.deadlines = q.deadlines
  BY DEF QueueOK, QueueState
<1>5. QueueOK(r)
  <2>1. none \in Seq(Event)
    BY EmptySeq
  <2> HIDE DEF none
  <2> QED
    BY <1>1, <2>1, SetCancelledOK
<1> HIDE DEF b, r
<1> QED
  BY <1>1, <1>2, <1>3, <1>4, <1>5, TakeFlightOutcome

\* The main branch of flush_next: a drained batch, sorted, merged with the
\* cancelled events unless it is a scoped request.
LEMMA FlushQueuedOK ==
    ASSUME NEW q, QueueOK(q), NEW c \in Candidates(q), NEW out \in FlushQueued(q, c)
    PROVE  FlushOutcomeOK(q, out)
<1>1. c \in Channels /\ c \notin q.inFlight /\ q.queues[c] # <<>>
  BY DEF Candidates
<1> DEFINE s == q.queues[c]
           n == DrainCount(s)
           taken == SubSeq(s, 1, n)
           rest == SubSeq(s, n + 1, Len(s))
           left == [q EXCEPT !.queues[c] = rest]
           none == <<>>
           merged == [left EXCEPT !.cancelled[c] = none, !.cancelReasons[c] = "none"]
<1>2. s \in Seq(Event) /\ Len(s) \in Nat /\ Len(s) <= MaxPending
  BY <1>1, FieldTypes, LenProperties DEF QueueOK, WithinCap
<1>3. n \in 1..Len(s)
  BY <1>1, <1>2, DrainCountType
<1>4. taken \in Seq(Event) /\ Len(taken) = n
  <2> HIDE DEF n, s
  <2> QED
    BY <1>2, <1>3, SubSeqInside
<1>5. rest \in Seq(Event) /\ Len(rest) <= MaxPending
  <2> HIDE DEF n, s
  <2>1. n + 1 \in Nat \ {0}
    BY <1>2, <1>3
  <2>2. rest \in Seq(Event)
        /\ Len(rest) = IF n + 1 <= Len(s) THEN Len(s) - (n + 1) + 1 ELSE 0
    BY <1>2, <2>1, SubSeqInside
  <2> QED
    BY <1>2, <1>3, <2>2, QueueConstants
<1>6. QueueOK(left) /\ left.inFlight = q.inFlight /\ left.deadlines = q.deadlines
  <2> HIDE DEF rest
  <2>1. QueueOK(left)
    BY <1>1, <1>5, SetQueueOK
  <2> QED
    BY <2>1 DEF QueueOK, QueueState
<1>7. QueueOK(merged) /\ merged.inFlight = q.inFlight /\ merged.deadlines = q.deadlines
  <2>1. none \in Seq(Event)
    BY EmptySeq
  <2> HIDE DEF left, none
  <2>2. QueueOK(merged)
    BY <1>1, <1>6, <2>1, SetCancelledOK
  <2> QED
    BY <1>6, <2>2 DEF QueueOK, QueueState
<1>8. \A evs \in SortedByCreated(taken) : evs \in Seq(Event) /\ evs # <<>>
  <2> SUFFICES ASSUME NEW evs \in SortedByCreated(taken)
               PROVE  evs \in Seq(Event) /\ evs # <<>>
    OBVIOUS
  <2> HIDE DEF taken, n, s
  <2>1. evs \in Seq(Event) /\ Len(evs) = n
    BY <1>4, SortedType
  <2> QED
    BY <1>2, <1>3, <2>1, EmptySeq
<1>9. CASE HasScoped(taken)
  <2>1. PICK evs \in SortedByCreated(taken) :
          out = [queue |-> TakeFlight(left, c),
                 batch |-> [channel |-> c, events |-> evs, cancelled |-> <<>>,
                            reason |-> "none"]]
    BY <1>9 DEF FlushQueued
  <2> DEFINE b == [channel |-> c, events |-> evs, cancelled |-> <<>>, reason |-> "none"]
  <2>2. BatchOK(b) /\ b.events # <<>> /\ b.channel = c
    <3> HIDE DEF taken
    <3> QED
      BY <1>1, <1>8, EmptySeq DEF BatchOK, Batch
  <2>3. out = [queue |-> TakeFlight(left, b.channel), batch |-> b]
    BY <2>1
  <2> HIDE DEF b, left
  <2> QED
    BY <1>1, <1>6, <2>2, <2>3, TakeFlightOutcome
<1>10. CASE ~HasScoped(taken)
  <2> DEFINE reason == IF q.cancelled[c] = <<>> THEN "none" ELSE q.cancelReasons[c]
  <2>1. PICK evs \in SortedByCreated(taken) :
          out = [queue |-> TakeFlight(merged, c),
                 batch |-> [channel |-> c, events |-> evs, cancelled |-> q.cancelled[c],
                            reason |-> reason]]
    BY <1>10 DEF FlushQueued
  <2> DEFINE b == [channel |-> c, events |-> evs, cancelled |-> q.cancelled[c],
                   reason |-> reason]
  <2>2. BatchOK(b) /\ b.events # <<>> /\ b.channel = c
    <3> HIDE DEF taken
    <3>1. reason \in Reasons \cup {"none"} /\ q.cancelled[c] \in Seq(Event)
      BY <1>1, FieldTypes DEF QueueOK
    <3> HIDE DEF reason
    <3> QED
      BY <1>1, <1>8, <3>1 DEF BatchOK, Batch
  <2>3. out = [queue |-> TakeFlight(merged, b.channel), batch |-> b]
    BY <2>1
  <2> HIDE DEF b, merged
  <2> QED
    BY <1>1, <1>7, <2>2, <2>3, TakeFlightOutcome
<1> QED
  BY <1>9, <1>10

\* flush_next keeps the queue correct, and never hands out a batch of a channel
\* that is still in flight once the expired ones are released.
THEOREM FlushNextOK ==
    ASSUME NEW q, QueueOK(q), NEW out \in FlushNext(q)
    PROVE  QueueOK(out.queue) /\ FlushOutcomeOK(ExpireInFlight(q), out)
<1> DEFINE x == ExpireInFlight(q)
<1>1. QueueOK(x)
  BY ExpireInFlightOK
<1>2. \/ \E c \in ScopedRecoverable(x) : out = FlushScoped(x, c)
      \/ \E c \in Candidates(x) : out \in FlushQueued(x, c)
      \/ \E c \in CancelledIdle(x) : out = FlushCancelled(x, c)
      \/ out = [queue |-> x, batch |-> NoBatch]
  BY DEF FlushNext, OldestHeads
<1> HIDE DEF x
<1>3. FlushOutcomeOK(x, out)
  <2>1. CASE \E c \in ScopedRecoverable(x) : out = FlushScoped(x, c)
    BY <1>1, <2>1, FlushScopedOK
  <2>2. CASE \E c \in Candidates(x) : out \in FlushQueued(x, c)
    BY <1>1, <2>2, FlushQueuedOK
  <2>3. CASE \E c \in CancelledIdle(x) : out = FlushCancelled(x, c)
    BY <1>1, <2>3, FlushCancelledOK
  <2>4. CASE out = [queue |-> x, batch |-> NoBatch]
    BY <2>4 DEF FlushOutcomeOK
  <2> QED
    BY <1>2, <2>1, <2>2, <2>3, <2>4
<1>4. QueueOK(out.queue)
  BY <1>1, <1>3 DEF FlushOutcomeOK
<1> QED
  BY <1>3, <1>4 DEF x

=============================================================================
