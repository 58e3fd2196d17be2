------------------------------- MODULE EventQueue -------------------------------
(***************************************************************************)
(* The per-channel event queue of the buzz-acp agent harness               *)
(* (crates/buzz-acp/src/queue.rs).  The queue is a plain object owned by    *)
(* the harness's main loop, so this module is a library: a value of type   *)
(* QueueState is the object, and every method is an operator from the      *)
(* object before the call to the object after it.  AgentHarness composes   *)
(* the calls into the steps of the main loop.                              *)
(*                                                                         *)
(* A map of the code that lacks a key is a function with an empty value:   *)
(* <<>> for a missing sequence, 0 for a missing counter, "none" for a      *)
(* missing instant or reason.  Instants are only ever compared with "now", *)
(* so an instant is the result of that comparison, which time changes      *)
(* from "active" to "passed" and never back.                               *)
(***************************************************************************)
EXTENDS Integers, Sequences, FiniteSets

CONSTANTS Channels,    \* the channels the agent is a member of
          MaxPending,  \* MAX_PENDING_PER_CHANNEL
          MaxBatch,    \* MAX_BATCH_EVENTS
          MaxRetries,  \* MAX_RETRIES
          DedupMode,   \* "Drop" or "Queue"
          Roots        \* thread roots an event can name, top level included

ASSUME QueueConstants ==
    /\ MaxPending \in Nat \ {0}
    /\ MaxBatch \in Nat \ {0}
    /\ MaxRetries \in Nat
    /\ DedupMode \in {"Drop", "Queue"}

\* "no channel": the source of a heartbeat turn and the channel of NoBatch.
NoChannel == "no channel"

ASSUME ChannelNames == NoChannel \notin Channels

-----------------------------------------------------------------------------
(* Values *)

\* An event: its arrival number (the order of received_at), its channel, the
\* timestamp its author gave it, whether it carries an agent_reply tag (a
\* scoped request), the thread it belongs to, and whether the owner wrote it.
Event == [id : Nat, channel : Channels, created : Nat, scoped : BOOLEAN,
          root : Roots, owner : BOOLEAN]

Reasons == {"Steer", "Interrupt"}

Batch == [channel : Channels \cup {NoChannel}, events : Seq(Event),
          cancelled : Seq(Event), reason : Reasons \cup {"none"}]

NoBatch == [channel |-> NoChannel, events |-> <<>>, cancelled |-> <<>>,
            reason |-> "none"]

Clock == {"none", "active", "passed"}

QueueState ==
    [queues : [Channels -> Seq(Event)],
     inFlight : SUBSET Channels,
     deadlines : [Channels -> Clock],
     retryAfter : [Channels -> Clock],
     retryCounts : [Channels -> Nat],
     cancelled : [Channels -> Seq(Event)],
     cancelReasons : [Channels -> Reasons \cup {"none"}],
     withheld : [Channels -> Seq(Event)]]

EmptyQueue ==
    [queues |-> [c \in Channels |-> <<>>],
     inFlight |-> {},
     deadlines |-> [c \in Channels |-> "none"],
     retryAfter |-> [c \in Channels |-> "none"],
     retryCounts |-> [c \in Channels |-> 0],
     cancelled |-> [c \in Channels |-> <<>>],
     cancelReasons |-> [c \in Channels |-> "none"],
     withheld |-> [c \in Channels |-> <<>>]]

-----------------------------------------------------------------------------
(* Sequences of events *)

Items(s) == {s[i] : i \in DOMAIN s}

BatchItems(b) == Items(b.events) \cup Items(b.cancelled)

HasScoped(s) == \E i \in DOMAIN s : s[i].scoped

\* Index of the first scoped event of a sequence that has one.
FirstScoped(s) ==
    CHOOSE i \in DOMAIN s : s[i].scoped /\ \A j \in 1..(i - 1) : ~s[j].scoped

DropAt(s, i) == SubSeq(s, 1, i - 1) \o SubSeq(s, i + 1, Len(s))

\* Arrival numbers are unique, so removing the first match removes them all.
DropEvent(s, e) ==
    IF \E i \in DOMAIN s : s[i] = e
    THEN DropAt(s, CHOOSE i \in DOMAIN s : s[i] = e)
    ELSE s

Least(a, b) == IF a < b THEN a ELSE b

\* Mutation of PushFront: the cap is not enforced.
PushFrontUncapped(s, evs) == evs \o s

\* Events put back at the front; the back is popped down to the cap.
PushFront(s, evs) ==
    LET t == evs \o s IN SubSeq(t, 1, Least(MaxPending, Len(t)))

\* What PushFront pops off the back.
Overflow(s, evs) ==
    LET t == evs \o s IN Items(SubSeq(t, MaxPending + 1, Len(t)))

\* p lists the positions of s by (created, position): sort_by_key is stable.
StablyOrders(p, s) ==
    /\ \A i, j \in DOMAIN s : p[i] = p[j] => i = j
    /\ \A i, j \in DOMAIN s :
          i < j => \/ s[p[i]].created < s[p[j]].created
                   \/ s[p[i]].created = s[p[j]].created /\ p[i] < p[j]

\* Mutation of SortedByCreated: delivery order is kept.
Unsorted(s) == {s}

\* The singleton of the sorted sequence.
SortedByCreated(s) ==
    {[i \in DOMAIN s |-> s[p[i]]] :
        p \in {p \in [DOMAIN s -> DOMAIN s] : StablyOrders(p, s)}}

-----------------------------------------------------------------------------
(* Methods *)

\* push: accepted unless Drop mode discards it.
Accepts(q, e) ==
    DedupMode = "Drop" /\ e.channel \in q.inFlight => e.scoped

Push(q, e) ==
    LET s == q.queues[e.channel]
        kept == IF Len(s) >= MaxPending THEN Tail(s) ELSE s
    IN  [q EXCEPT !.queues[e.channel] = Append(kept, e)]

\* What push drops from the front to make room.
PushEvicts(q, e) ==
    LET s == q.queues[e.channel]
    IN  IF Len(s) >= MaxPending THEN {Head(s)} ELSE {}

\* Mutation of ExtendDeadline: a late ack resurrects a deadline.
ExtendDeadlineAlways(q, c) == [q EXCEPT !.deadlines[c] = "active"]

ExtendDeadline(q, c) ==
    IF q.deadlines[c] = "none" THEN q
    ELSE [q EXCEPT !.deadlines[c] = "active"]

Expired(q) == {c \in Channels : q.deadlines[c] = "passed"}

\* Mutation of ExpireInFlight: recovered events stay in the side table.
ExpireKeepingWithheld(q) ==
    [q EXCEPT
        !.inFlight = @ \ Expired(q),
        !.deadlines = [c \in Channels |-> IF c \in Expired(q) THEN "none" ELSE @[c]],
        !.queues = [c \in Channels |->
                      IF c \in Expired(q) THEN PushFront(@[c], q.withheld[c]) ELSE @[c]]]

\* The expiry block of flush_next and has_flushable_work, with
\* recover_withheld_for_expired_channel for every expired channel.
ExpireInFlight(q) ==
    [q EXCEPT
        !.inFlight = @ \ Expired(q),
        !.deadlines = [c \in Channels |-> IF c \in Expired(q) THEN "none" ELSE @[c]],
        !.queues = [c \in Channels |->
                      IF c \in Expired(q) /\ q.withheld[c] # <<>>
                      THEN PushFront(@[c], q.withheld[c]) ELSE @[c]],
        !.withheld = [c \in Channels |-> IF c \in Expired(q) THEN <<>> ELSE @[c]]]

ExpiryEvicts(q) ==
    UNION {Overflow(q.queues[c], q.withheld[c]) :
              c \in {c \in Expired(q) : q.withheld[c] # <<>>}}

Unthrottled(q, c) == q.retryAfter[c] # "active"

ScopedRecoverable(q) ==
    {c \in Channels \ q.inFlight : Unthrottled(q, c) /\ HasScoped(q.cancelled[c])}

Candidates(q) ==
    {c \in Channels \ q.inFlight : Unthrottled(q, c) /\ q.queues[c] # <<>>}

OldestHeads(q) ==
    {c \in Candidates(q) :
        \A d \in Candidates(q) : Head(q.queues[c]).id <= Head(q.queues[d]).id}

CancelledIdle(q) == {c \in Channels \ q.inFlight : q.cancelled[c] # <<>>}

\* Marking a channel in flight always installs its deadline.
TakeFlight(q, c) ==
    [q EXCEPT !.inFlight = @ \cup {c}, !.deadlines[c] = "active"]

\* A recovered scoped request goes out alone.
FlushScoped(q, c) ==
    LET i == FirstScoped(q.cancelled[c])
        rest == DropAt(q.cancelled[c], i)
    IN  [queue |-> TakeFlight([q EXCEPT
                      !.cancelled[c] = rest,
                      !.cancelReasons[c] = IF rest = <<>> THEN "none" ELSE @], c),
         batch |-> [channel |-> c, events |-> <<q.cancelled[c][i]>>,
                    cancelled |-> <<>>, reason |-> q.cancelReasons[c]]]

\* Mutation of DrainCount: scoped requests are batched like any event.
DrainCountPlain(s) == Least(MaxBatch, Len(s))

DrainCount(s) ==
    CASE ~HasScoped(s) -> Least(MaxBatch, Len(s))
      [] HasScoped(s) /\ FirstScoped(s) = 1 -> 1
      [] OTHER -> Least(MaxBatch, FirstScoped(s) - 1)

\* A drained batch: sorted, and merged with the channel's cancelled events
\* unless it is a scoped request.
FlushQueued(q, c) ==
    LET n == DrainCount(q.queues[c])
        taken == SubSeq(q.queues[c], 1, n)
        left == [q EXCEPT !.queues[c] = SubSeq(@, n + 1, Len(@))]
    IN  IF HasScoped(taken)
        THEN {[queue |-> TakeFlight(left, c),
               batch |-> [channel |-> c, events |-> evs, cancelled |-> <<>>,
                          reason |-> "none"]] : evs \in SortedByCreated(taken)}
        ELSE {[queue |-> TakeFlight([left EXCEPT !.cancelled[c] = <<>>,
                                                 !.cancelReasons[c] = "none"], c),
               batch |-> [channel |-> c, events |-> evs,
                          cancelled |-> q.cancelled[c],
                          reason |-> IF q.cancelled[c] = <<>> THEN "none"
                                     ELSE q.cancelReasons[c]]] :
                  evs \in SortedByCreated(taken)}

\* Nothing queued is ready: a cancelled batch is dispatched again unchanged.
FlushCancelled(q, c) ==
    [queue |-> TakeFlight([q EXCEPT !.cancelled[c] = <<>>,
                                    !.cancelReasons[c] = "none"], c),
     batch |-> [channel |-> c, events |-> q.cancelled[c], cancelled |-> <<>>,
                reason |-> q.cancelReasons[c]]]

\* flush_next: the outcomes its map iteration orders allow.
FlushNext(q0) ==
    LET q == ExpireInFlight(q0)
    IN  CASE ScopedRecoverable(q) # {} ->
               {FlushScoped(q, c) : c \in ScopedRecoverable(q)}
          [] ScopedRecoverable(q) = {} /\ Candidates(q) # {} ->
               UNION {FlushQueued(q, c) : c \in OldestHeads(q)}
          [] ScopedRecoverable(q) = {} /\ Candidates(q) = {} /\ CancelledIdle(q) # {} ->
               {FlushCancelled(q, c) : c \in CancelledIdle(q)}
          [] OTHER -> {[queue |-> q, batch |-> NoBatch]}

\* has_flushable_work also expires: callers continue with ExpireInFlight(q).
HasFlushableWork(q0) ==
    LET q == ExpireInFlight(q0) IN Candidates(q) # {} \/ CancelledIdle(q) # {}

\* Mutation of MarkComplete: the counter is reset whatever the throttle.
MarkCompleteResets(q, c) ==
    [q EXCEPT !.inFlight = @ \ {c}, !.deadlines[c] = "none", !.retryCounts[c] = 0]

MarkComplete(q, c) ==
    LET landed == [q EXCEPT !.inFlight = @ \ {c}, !.deadlines[c] = "none"]
    IN  IF q.retryAfter[c] = "active" THEN landed
        ELSE [landed EXCEPT !.retryCounts[c] = 0, !.retryAfter[c] = "none"]

\* requeue dead-letters when the attempt it counts exceeds MAX_RETRIES.
Exhausted(q, b) == q.retryCounts[b.channel] + 1 > MaxRetries

\* Mutation of Requeue: the batch replaces what was queued meanwhile.
RequeueReplaces(q, b) ==
    IF Exhausted(q, b)
    THEN [q EXCEPT !.retryCounts[b.channel] = 0, !.retryAfter[b.channel] = "none"]
    ELSE [q EXCEPT !.retryCounts[b.channel] = @ + 1,
                   !.retryAfter[b.channel] = "active",
                   !.queues[b.channel] = b.events]

Requeue(q, b) ==
    IF Exhausted(q, b)
    THEN [q EXCEPT !.retryCounts[b.channel] = 0, !.retryAfter[b.channel] = "none"]
    ELSE [q EXCEPT !.retryCounts[b.channel] = @ + 1,
                   !.retryAfter[b.channel] = "active",
                   !.queues[b.channel] = PushFront(@, b.events)]

RequeuePreserveTimestamps(q, b) ==
    [q EXCEPT !.queues[b.channel] = PushFront(@, b.events)]

RequeueAsCancelled(q, b, reason) ==
    [q EXCEPT !.cancelled[b.channel] = @ \o b.cancelled \o b.events,
              !.cancelReasons[b.channel] = reason]

\* Mutation of DrainChannel: the turn in flight is forgotten too.
DrainChannelWhole(q, c) ==
    [q EXCEPT !.queues[c] = <<>>, !.retryAfter[c] = "none", !.retryCounts[c] = 0,
              !.cancelled[c] = <<>>, !.cancelReasons[c] = "none",
              !.withheld[c] = <<>>, !.inFlight = @ \ {c}, !.deadlines[c] = "none"]

DrainChannel(q, c) ==
    [q EXCEPT !.queues[c] = <<>>, !.retryAfter[c] = "none", !.retryCounts[c] = 0,
              !.cancelled[c] = <<>>, !.cancelReasons[c] = "none",
              !.withheld[c] = <<>>]

MarkNativeSteerPending(q, e) ==
    IF e \in Items(q.queues[e.channel])
    THEN [q EXCEPT !.queues[e.channel] = DropEvent(@, e),
                   !.withheld[e.channel] = Append(@, e)]
    ELSE q

\* Mutations of ReleaseNativeSteer: the side table keeps its entry; nothing
\* is released.
ReleaseCopies(q, e) ==
    IF e \in Items(q.withheld[e.channel])
    THEN [q EXCEPT !.queues[e.channel] = PushFront(@, <<e>>)] ELSE q

ReleaseForgotten(q, e) == q

ReleaseNativeSteer(q, e) ==
    IF e \in Items(q.withheld[e.channel])
    THEN [q EXCEPT !.withheld[e.channel] = DropEvent(@, e),
                   !.queues[e.channel] = PushFront(@, <<e>>)]
    ELSE q

ReleaseEvicts(q, e) ==
    IF e \in Items(q.withheld[e.channel])
    THEN Overflow(q.queues[e.channel], <<e>>) ELSE {}

\* Mutation of RemoveEvent: the side table is forgotten.
RemoveQueuedEvent(q, e) == [q EXCEPT !.queues[e.channel] = DropEvent(@, e)]

RemoveEvent(q, e) ==
    [q EXCEPT !.withheld[e.channel] = DropEvent(@, e),
              !.queues[e.channel] = DropEvent(@, e)]

\* compact_expired_state: passed throttles go, and the counters of channels
\* that are neither throttled, nor queued, nor in flight.
CompactExpiredState(q) ==
    [q EXCEPT
        !.retryAfter = [c \in Channels |-> IF @[c] = "passed" THEN "none" ELSE @[c]],
        !.retryCounts = [c \in Channels |->
            IF \/ q.retryAfter[c] = "active"
               \/ q.queues[c] # <<>>
               \/ c \in q.inFlight
            THEN @[c] ELSE 0]]

=============================================================================
