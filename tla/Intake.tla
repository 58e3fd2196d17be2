--------------------------------- MODULE Intake ---------------------------------
(***************************************************************************)
(* How work reaches an agent of the harness (crates/buzz-acp): the relay     *)
(* serves REQs and fans events out, the background task of relay.rs forwards *)
(* them into a bounded queue across lost sockets, back-pressure and rate     *)
(* limits, and the main loop of lib.rs follows its memberships, queues       *)
(* messages and wakes or puts to sleep a lazy agent pool.                   *)
(*                                                                         *)
(* The queue and the pool are reduced to what the intake sees: one agent,    *)
(* one batch in flight; EventQueue and AgentHarness model them in full.      *)
(* An iteration of the main loop is one action, with the wake at the top of  *)
(* the next iteration (Top) at its end.                                     *)
(***************************************************************************)
EXTENDS RelayClient, PoolLifecycle

CONSTANTS Capacity,   \* event_channel_capacity()
          Scenarios   \* bounds: the configuration and the faults of a behaviour

\* joined: the channels of Init; lazy: config.lazy_pool; ties: two changes of
\* a membership may fall into one second.  The rest is what is left of the
\* bounds: messages, membership changes, archivings, lost sockets, refused
\* REQs, events refused by the full queue, seconds, failed wakes, failed turns,
\* shutdowns.
Scenario == [joined : SUBSET Channels, lazy : BOOLEAN, ties : BOOLEAN, messages : Nat,
             changes : Nat, archives : Nat, losses : Nat, refusals : Nat, overflows : Nat,
             seconds : Nat, wakes : Nat, turns : Nat, stops : Nat]

ASSUME IntakeConstants == Capacity \in Nat \ {0} /\ Scenarios \subseteq Scenario

VARIABLES relay,      \* clock, stored events, memberships, live subscriptions; cut:
                      \* a socket was lost or a REQ refused
          wire,       \* frames from the relay on the current socket
          reqs,       \* frames to the relay on the current socket
          phase,      \* where run_background_task is
          todo,       \* what resubscribe_after_reconnect still has to send
          bg,         \* BgState
          cmds,       \* the command channel
          eventq,     \* the event channel; 0 is the None sentinel
          main,       \* what the main loop knows of its memberships
          work,       \* the event queue
          pool,       \* the lazy pool
          delivered,  \* the messages the main loop has taken
          process,    \* running, draining (after the loop) or stopped
          budget

vars == <<relay, wire, reqs, phase, todo, bg, cmds, eventq, main, work, pool,
          delivered, process, budget>>
relayVars == <<relay, wire, reqs>>
clientVars == <<phase, todo, bg>>
loopVars == <<main, work, pool, delivered>>

-----------------------------------------------------------------------------
(* Types *)

Event == [kind : {"message", "added", "removed"}, channel : Channels, at : Nat]
Ids == DOMAIN relay.log
Answers == {"none", "denied", "limited", "error"}
Frame == [sub : Subs, event : Nat, closed : Answers]
Command == [op : {"subscribe", "unsubscribe", "reconnect"}, channel : Subs, since : Nat]

EventFrame(s, i) == [sub |-> s, event |-> i, closed |-> "none"]
Closed(s, why) == [sub |-> s, event |-> 0, closed |-> why]

TypeOK ==
    /\ relay.clock \in Nat /\ relay.log \in Seq(Event)
    /\ relay.members \cup relay.archived \subseteq Channels /\ relay.live \subseteq Subs
    /\ wire \in Seq(Frame)
    /\ phase \in {"down", "resubscribing", "draining", "up"}
    /\ todo \in Seq(Subs)
    /\ bg.active \subseteq Channels /\ bg.active \subseteq DOMAIN bg.floor
    /\ bg.parked \subseteq Subs
    /\ \A s \in DOMAIN bg.lastSeen \cup DOMAIN bg.dropped : s \in Subs
    /\ cmds \in Seq(Command)
    /\ eventq \in Seq(Ids \cup {0}) /\ Len(eventq) <= Capacity
    /\ main.subscribed \subseteq Channels /\ main.removed \subseteq Channels
    /\ work.queued \cup work.inflight \subseteq Ids /\ work.throttled \subseteq Channels
    /\ pool \in Pool
    /\ process \in {"running", "draining", "stopped"}
    /\ budget \in Scenario

Init ==
    /\ budget \in Scenarios
    /\ relay = [clock |-> 0, log |-> <<>>, members |-> budget.joined,
                archived |-> {}, cut |-> FALSE, live |-> budget.joined \cup {"membership"}]
    /\ wire = <<>> /\ reqs = <<>>
    /\ phase = "up" /\ todo = <<>> /\ bg = Fresh(budget.joined)
    /\ cmds = <<>> /\ eventq = <<>>
    /\ main = [subscribed |-> budget.joined, newest |-> <<>>, seen |-> Unseen, removed |-> {}]
    /\ work = [queued |-> {}, throttled |-> {}, inflight |-> {}]
    /\ pool = IF budget.lazy THEN Asleep ELSE Started
    /\ delivered = <<>>
    /\ process = "running"

Spend(f) == budget[f] > 0 /\ budget' = [budget EXCEPT ![f] = @ - 1]

-----------------------------------------------------------------------------
(* The relay *)

SubOf(e) == IF e.kind = "message" THEN e.channel ELSE "membership"

\* Store an event and fan it out to the live subscription it matches, after
\* the frames `before`.
Store(e, members, live, before) ==
    /\ relay' = [relay EXCEPT !.log = Append(@, e), !.members = members, !.live = live,
                              !.archived = IF e.kind = "added" THEN @ \ {e.channel} ELSE @]
    /\ wire' = wire \o before \o
               (IF SubOf(e) \in live /\ (e.kind # "message" \/ e.channel \in members)
                THEN <<EventFrame(SubOf(e), Len(relay.log) + 1)>> ELSE <<>>)
    /\ UNCHANGED <<reqs, clientVars, cmds, eventq, loopVars, process>>

New(kind, c) == [kind |-> kind, channel |-> c, at |-> relay.clock]

\* Live subscriptions on a channel are closed, and the client is told.
Evicted(c) == IF c \in relay.live THEN <<Closed(c, "denied")>> ELSE <<>>

Publish(c) ==
    /\ Spend("messages")
    /\ Store(New("message", c), relay.members, relay.live, <<>>)

\* Two notifications of one second are replayed in the order of their ids,
\* which says nothing about the order of the changes.
FreshSecond(c) ==
    budget.ties \/ \A i \in Ids : relay.log[i].channel # c
                                  \/ relay.log[i].kind = "message"
                                  \/ relay.log[i].at < relay.clock

\* handle_put_user
AddMember(c) ==
    /\ c \notin relay.members \cup relay.archived /\ FreshSecond(c)
    /\ Spend("changes")
    /\ Store(New("added", c), relay.members \cup {c}, relay.live, <<>>)

\* handle_remove_user
RemoveMember(c) ==
    /\ c \in relay.members /\ FreshSecond(c)
    /\ Spend("changes")
    /\ Store(New("removed", c), relay.members \ {c}, relay.live \ {c}, Evicted(c))

\* The reaper archives an ephemeral channel.
Archive(c) ==
    /\ c \notin relay.archived
    /\ Spend("archives")
    /\ relay' = [relay EXCEPT !.archived = @ \cup {c}, !.live = @ \ {c}]
    /\ wire' = wire \o Evicted(c)
    /\ UNCHANGED <<reqs, clientVars, cmds, eventq, loopVars, process>>

\* handle_edit_metadata, archived = false: the members are told to subscribe.
Restore(c) ==
    /\ c \in relay.archived \cap relay.members /\ FreshSecond(c)
    /\ Spend("archives")
    /\ Store(New("added", c), relay.members, relay.live, <<>>)

Tick ==
    /\ Spend("seconds")
    /\ relay' = [relay EXCEPT !.clock = @ + 1]
    /\ UNCHANGED <<wire, reqs, clientVars, cmds, eventq, loopVars, process>>

Stored(s, since) == {i \in Ids : SubOf(relay.log[i]) = s /\ relay.log[i].at >= since}

\* Newest first; ties are broken by the ids, which are hashes.
Replays(s, since) ==
    {q \in SetToSeqs(Stored(s, since)) :
        \A j, k \in DOMAIN q : j < k => relay.log[q[j]].at >= relay.log[q[k]].at}

\* handle_req: the subscription is registered, and what is stored is replayed.
ServeReq ==
    /\ reqs # <<>> /\ ~Head(reqs).close
    /\ LET r == Head(reqs)
       IN  /\ r.sub \in Channels => r.sub \in relay.members
           /\ \E q \in Replays(r.sub, r.since) :
                 wire' = wire \o [j \in DOMAIN q |-> EventFrame(r.sub, q[j])]
           /\ relay' = [relay EXCEPT !.live = @ \cup {r.sub}]
    /\ reqs' = Tail(reqs)
    /\ UNCHANGED <<clientVars, cmds, eventq, loopVars, process, budget>>

\* A REQ answered with CLOSED; a subscription that was live stays so.
Reject(why) ==
    /\ reqs # <<>> /\ ~Head(reqs).close
    /\ wire' = Append(wire, Closed(Head(reqs).sub, why))
    /\ reqs' = Tail(reqs)
    /\ UNCHANGED <<clientVars, cmds, eventq, loopVars, process>>

DenyReq ==
    /\ Reject("denied")
    /\ Head(reqs).sub \in Channels \ relay.members
    /\ UNCHANGED <<relay, budget>>

\* The rate limit, or an error of the database.
RefuseReq(why) ==
    /\ Reject(why) /\ Spend("refusals")
    /\ relay' = [relay EXCEPT !.cut = TRUE]

ServeClose ==
    /\ reqs # <<>> /\ Head(reqs).close
    /\ relay' = [relay EXCEPT !.live = @ \ {Head(reqs).sub}]
    /\ reqs' = Tail(reqs)
    /\ UNCHANGED <<wire, clientVars, cmds, eventq, loopVars, process, budget>>

-----------------------------------------------------------------------------
(* The background task of the relay client *)

\* handle_ws_message on an event frame: a duplicate, room in the queue, or none.
ReceiveEvent ==
    /\ phase = "up" /\ ~bg.proactive
    /\ wire # <<>> /\ Head(wire).closed = "none"
    /\ LET f == Head(wire)
           at == relay.log[f.event].at
       IN  \/ /\ Knows(bg.seen, f.event)
              /\ UNCHANGED <<bg, eventq, budget>>
           \/ /\ ~Knows(bg.seen, f.event) /\ Len(eventq) < Capacity
              /\ eventq' = Append(eventq, f.event)
              /\ bg' = Forwarded(bg, f.sub, f.event, at)
              /\ UNCHANGED budget
           \/ /\ ~Knows(bg.seen, f.event) /\ Len(eventq) = Capacity
              /\ Spend("overflows")
              /\ bg' = Refused(bg, f.sub, f.event, at)
              /\ UNCHANGED eventq
    /\ wire' = Tail(wire)
    /\ UNCHANGED <<relay, reqs, phase, todo, cmds, loopVars, process>>

\* handle_ws_message on CLOSED: a denial drops the channel, a rate limit parks
\* the subscription, any other reason asks again at once.
ReceiveClosed ==
    /\ phase = "up" /\ ~bg.proactive
    /\ wire # <<>> /\ Head(wire).closed # "none"
    /\ LET s == Head(wire).sub
           why == Head(wire).closed
           again == why = "error" /\ (s \in Channels => s \in bg.active)
       IN  /\ bg' = CASE why = "denied"  -> Cleared(bg, s)
                      [] why = "limited" -> Limited(bg, s)
                      [] why = "error"   -> IF again THEN Replaying(bg, s) ELSE bg
           /\ reqs' = IF again THEN Append(reqs, Req(s, Since(bg, s))) ELSE reqs
    /\ wire' = Tail(wire)
    /\ UNCHANGED <<relay, phase, todo, cmds, eventq, loopVars, process, budget>>

\* resubscribe_after_reconnect starts: every channel, then the notifications.
Resubscription == {Append(q, "membership") : q \in SetToSeqs(bg.active)}

\* The top of the loop after an event was refused.
ProactiveResubscribe ==
    /\ phase = "up" /\ bg.proactive
    /\ phase' = "resubscribing" /\ todo' \in Resubscription
    /\ bg' = [bg EXCEPT !.proactive = FALSE]
    /\ UNCHANGED <<relayVars, cmds, eventq, loopVars, process, budget>>

\* One REQ of resubscribe_after_reconnect; the task sleeps between two of them
\* and reads neither the socket nor its commands.
Resubscribe ==
    /\ phase = "resubscribing" /\ todo # <<>>
    /\ LET s == Head(todo)
           sent == Replaying(bg, s)
       IN  \/ /\ bg.gated
              /\ bg' = [bg EXCEPT !.parked = @ \cup {s}]
              /\ UNCHANGED reqs
           \/ /\ ~bg.gated
              /\ bg' = IF s = "membership" THEN Unparked(sent, s) ELSE sent
              /\ reqs' = Append(reqs, Req(s, Since(bg, s)))
    /\ todo' = Tail(todo)
    /\ UNCHANGED <<relay, wire, phase, cmds, eventq, loopVars, process, budget>>

Resubscribed ==
    /\ phase = "resubscribing" /\ todo = <<>>
    /\ phase' = "draining"
    /\ UNCHANGED <<relayVars, todo, bg, cmds, eventq, loopVars, process, budget>>

\* execute_connected_command of what the main loop sends.
Execute(c) ==
    \/ /\ c.op = "subscribe" /\ bg.gated
       /\ bg' = [Intended(bg, c.channel, c.since) EXCEPT !.parked = @ \cup {c.channel}]
       /\ UNCHANGED reqs
    \/ /\ c.op = "subscribe" /\ ~bg.gated
       /\ LET b == Intended(bg, c.channel, c.since)
          IN  /\ bg' = Unparked(b, c.channel)
              /\ reqs' = Append(reqs, Req(c.channel, FirstSince(b, c.channel)))
    \/ /\ c.op = "unsubscribe"
       /\ bg' = Cleared(bg, c.channel)
       /\ reqs' = IF c.channel \in bg.active THEN Append(reqs, CloseFrame(c.channel)) ELSE reqs

\* drain_commands: a Reconnect sent before the socket was replaced is stale.
DrainCommand ==
    /\ phase = "draining"
    /\ \/ cmds # <<>> /\ Execute(Head(cmds)) /\ cmds' = Tail(cmds) /\ UNCHANGED phase
       \/ /\ cmds # <<>> /\ Head(cmds).op = "reconnect"
          /\ cmds' = Tail(cmds)
          /\ UNCHANGED <<phase, bg, reqs>>
       \/ cmds = <<>> /\ phase' = "up" /\ UNCHANGED <<bg, reqs, cmds>>
    /\ UNCHANGED <<relay, wire, todo, eventq, loopVars, process, budget>>

RunCommand ==
    /\ phase = "up" /\ ~bg.proactive /\ cmds # <<>>
    /\ Execute(Head(cmds))
    /\ cmds' = Tail(cmds)
    /\ UNCHANGED <<relay, wire, phase, todo, eventq, loopVars, process, budget>>

\* The socket and what is on it are gone.
Disconnected ==
    /\ phase' = "down" /\ todo' = <<>>
    /\ wire' = <<>> /\ reqs' = <<>>
    /\ relay' = [relay EXCEPT !.live = {}, !.cut = TRUE]

\* Mutation of LoseSocket: the sentinel is sent into a full queue.
LoseSocketUnbounded ==
    /\ phase # "down" /\ Spend("losses")
    /\ Disconnected
    /\ eventq' = Append(eventq, 0)
    /\ UNCHANGED <<bg, cmds, loopVars, process>>

\* The socket is lost; the main loop is told if its queue has room.
LoseSocket ==
    /\ phase # "down" /\ Spend("losses")
    /\ Disconnected
    /\ eventq' = IF Len(eventq) < Capacity THEN Append(eventq, 0) ELSE eventq
    /\ UNCHANGED <<bg, cmds, loopVars, process>>

\* A Reconnect of the main loop replaces a socket that may well be healthy.
ReconnectCommand ==
    /\ phase = "up" /\ ~bg.proactive /\ cmds # <<>> /\ Head(cmds).op = "reconnect"
    /\ Disconnected
    /\ cmds' = Tail(cmds)
    /\ UNCHANGED <<bg, eventq, loopVars, process, budget>>

\* apply_command_to_state during a backoff sleep.
DownCommand ==
    /\ phase = "down" /\ cmds # <<>>
    /\ LET c == Head(cmds)
       IN  bg' = CASE c.op = "subscribe"   -> Intended(bg, c.channel, c.since)
                   [] c.op = "unsubscribe" -> Cleared(bg, c.channel)
                   [] c.op = "reconnect"   -> bg
    /\ cmds' = Tail(cmds)
    /\ UNCHANGED <<relayVars, phase, todo, eventq, loopVars, process, budget>>

\* A fresh socket: the queues derived from the subscriptions are rebuilt.
Connect ==
    /\ phase = "down"
    /\ phase' = "resubscribing" /\ todo' \in Resubscription
    /\ bg' = [bg EXCEPT !.parked = @ \cap {"membership"}]
    /\ UNCHANGED <<relayVars, cmds, eventq, loopVars, process, budget>>

GateExpires ==
    /\ bg.gated
    /\ bg' = [bg EXCEPT !.gated = FALSE]
    /\ UNCHANGED <<relayVars, phase, todo, cmds, eventq, loopVars, process, budget>>

\* The paced drain at the top of the loop, the notifications first; a channel
\* without a filter is no longer wanted.
DrainParked(s) ==
    /\ phase = "up" /\ ~bg.proactive /\ ~bg.gated /\ s \in bg.parked
    /\ s \in Channels => "membership" \notin bg.parked
    /\ \/ /\ s \in Channels \ bg.active
          /\ bg' = Unparked(bg, s)
          /\ UNCHANGED reqs
       \/ /\ s \in bg.active \cup {"membership"}
          /\ bg' = Unparked(Replaying(bg, s), s)
          /\ reqs' = Append(reqs, Req(s, Since(bg, s)))
    /\ UNCHANGED <<relay, wire, phase, todo, cmds, eventq, loopVars, process, budget>>

-----------------------------------------------------------------------------
(* The event queue, as the intake sees it *)

ChannelOf(i) == relay.log[i].channel
Queued(w, c) == {i \in w.queued : ChannelOf(i) = c}

\* has_flushable_work and has_undispatched_work
FlushableWork(w) == {i \in w.queued : ChannelOf(i) \notin w.throttled}

\* Mutation of UndispatchedWork: a throttled batch does not count.
UndispatchedWorkNow(w) == FlushableWork(w)

UndispatchedWork(w) == w.queued

\* dispatch_pending: the oldest channel's batch goes to the idle agent.
Dispatch(w, p) ==
    IF p.ready /\ w.inflight = {} /\ FlushableWork(w) # {}
    THEN LET c == ChannelOf(Min(FlushableWork(w)))
         IN  [w EXCEPT !.queued = @ \ Queued(w, c), !.inflight = Queued(w, c)]
    ELSE w

\* The top of the next iteration: buffered work wakes a pool that is not ready.
Top(p, w) ==
    IF budget.lazy /\ ~p.ready /\ FlushableWork(w) # {} /\ WakeDue(p) THEN StartWake(p) ELSE p

-----------------------------------------------------------------------------
(* The main loop: the relay's events *)

Taking(kinds) ==
    /\ eventq # <<>> /\ Head(eventq) # 0 /\ relay.log[Head(eventq)].kind \in kinds
    /\ eventq' = Tail(eventq)

\* The background task lost its socket.
TakeSentinel ==
    /\ eventq # <<>> /\ Head(eventq) = 0
    /\ eventq' = Tail(eventq)
    /\ cmds' = Append(cmds, [op |-> "reconnect", channel |-> "membership", since |-> 0])
    /\ UNCHANGED <<relayVars, clientVars, loopVars, process, budget>>

TakeMessage ==
    /\ Taking({"message"})
    /\ LET i == Head(eventq)
           w == Dispatch([work EXCEPT !.queued = @ \cup {i}], pool)
       IN  /\ delivered' = Append(delivered, i)
           /\ work' = w
           /\ pool' = Top(pool, w)
    /\ UNCHANGED <<relayVars, clientVars, cmds, main, process, budget>>

\* Mutation of IsStale: there is no watermark.
IsStaleNever(i) == FALSE

\* A notification the relay has told before, or an older one than the newest
\* of its channel.
IsStale(i) ==
    LET e == relay.log[i]
    IN  e.channel \in DOMAIN main.newest /\ e.at < main.newest[e.channel]

SkipNotification ==
    /\ Taking({"added", "removed"})
    /\ Knows(main.seen, Head(eventq)) \/ IsStale(Head(eventq))
    /\ main' = IF Knows(main.seen, Head(eventq)) THEN main
               ELSE [main EXCEPT !.seen = Remember(@, Head(eventq))]
    /\ UNCHANGED <<relayVars, clientVars, cmds, work, pool, delivered, process, budget>>

Noted(i) ==
    [main EXCEPT !.seen = Remember(@, i),
                 !.newest = Put(@, ChannelOf(i), relay.log[i].at)]

Applies(kind) ==
    /\ Taking({kind})
    /\ ~Knows(main.seen, Head(eventq)) /\ ~IsStale(Head(eventq))

ApplyAdded ==
    /\ Applies("added")
    /\ LET i == Head(eventq)
           c == ChannelOf(i)
       IN  /\ main' = [Noted(i) EXCEPT !.removed = @ \ {c}, !.subscribed = @ \cup {c}]
           /\ cmds' = IF c \in main.subscribed THEN cmds
                      ELSE Append(cmds, [op |-> "subscribe", channel |-> c,
                                         since |-> relay.log[i].at])
    /\ UNCHANGED <<relayVars, clientVars, work, pool, delivered, process, budget>>

ApplyRemoved ==
    /\ Applies("removed")
    /\ LET i == Head(eventq)
           c == ChannelOf(i)
       IN  /\ main' = [Noted(i) EXCEPT !.removed = @ \cup {c}, !.subscribed = @ \ {c}]
           /\ cmds' = Append(cmds, [op |-> "unsubscribe", channel |-> c, since |-> 0])
           /\ work' = [work EXCEPT !.queued = @ \ Queued(work, c), !.throttled = @ \ {c}]
    /\ UNCHANGED <<relayVars, clientVars, pool, delivered, process, budget>>

-----------------------------------------------------------------------------
(* The main loop: turns, and the lazy pool *)

LoopStep == UNCHANGED <<relayVars, clientVars, cmds, eventq, main, delivered>>

TurnSucceeds ==
    /\ work.inflight # {}
    /\ work' = Dispatch([work EXCEPT !.inflight = {}], pool)
    /\ LoopStep /\ UNCHANGED <<pool, process, budget>>

\* The batch is requeued with a backoff, unless the agent left the channel.
TurnFails ==
    /\ work.inflight # {}
    /\ Spend("turns")
    /\ LET c == ChannelOf(Min(work.inflight))
           w == [work EXCEPT !.inflight = {}]
       IN  work' = IF c \in main.removed THEN Dispatch(w, pool)
                   ELSE Dispatch([w EXCEPT !.queued = @ \cup work.inflight,
                                           !.throttled = @ \cup {c}], pool)
    /\ LoopStep /\ UNCHANGED <<pool, process>>

\* A retry_after deadline passes.
BackoffExpires(c) ==
    /\ c \in work.throttled
    /\ work' = [work EXCEPT !.throttled = @ \ {c}]
    /\ LoopStep /\ UNCHANGED <<pool, process, budget>>

Maintenance ==
    /\ pool.ready
    /\ work' = Dispatch(work, pool) /\ work' # work
    /\ LoopStep /\ UNCHANGED <<pool, process, budget>>

\* retry_at passes; the sleep arm is armed only while work is waiting.
RetryDeadline ==
    /\ pool.life = "failed" /\ ~pool.due
    /\ pool' = [pool EXCEPT !.due = TRUE]
    /\ LoopStep /\ UNCHANGED <<work, process, budget>>

RetryFires ==
    /\ pool.life = "failed" /\ pool.due /\ FlushableWork(work) # {}
    /\ pool' = Top(pool, work)
    /\ LoopStep /\ UNCHANGED <<work, process, budget>>

\* initialize_agent_pool returns; at shutdown it may give up.
WakeReturns(ok) ==
    /\ pool.task = "running"
    /\ ok \/ process = "draining" \/ budget.wakes > 0
    /\ budget' = IF ok \/ process = "draining" THEN budget
                 ELSE [budget EXCEPT !.wakes = @ - 1]
    /\ pool' = WakeReturned(pool, ok)
    /\ LoopStep /\ UNCHANGED <<work, process>>

WakePanics ==
    /\ pool.task = "running"
    /\ Spend("wakes")
    /\ pool' = [pool EXCEPT !.task = "panicked"]
    /\ LoopStep /\ UNCHANGED <<work, process>>

\* The wake_rx arm.
TakeWakeResult ==
    /\ ~pool.ready /\ pool.results # <<>>
    /\ LET r == Head(pool.results)
           q == [pool EXCEPT !.results = Tail(@)]
           p == IF IsCurrent(pool, r) THEN CompleteWake(q, r) ELSE q
           w == Dispatch(work, p)
       IN  work' = w /\ pool' = Top(p, w)
    /\ LoopStep /\ UNCHANGED <<process, budget>>

\* The wake_tasks arm: a finished task is reaped, a panic is a failed attempt.
JoinWakeTask ==
    /\ pool.task \in {"finished", "panicked"}
    /\ LET p == [pool EXCEPT !.task = "none"]
       IN  pool' = Top(IF pool.task = "panicked" /\ pool.life = "waking"
                       THEN [p EXCEPT !.life = "failed", !.due = FALSE] ELSE p, work)
    /\ LoopStep /\ UNCHANGED <<work, process, budget>>

\* The idle reaper.
Sleep ==
    /\ budget.lazy /\ pool.ready
    /\ work.inflight = {} /\ UndispatchedWork(work) = {} /\ pool.task = "none"
    /\ pool' = Top(PutToSleep(pool), work)
    /\ LoopStep /\ UNCHANGED <<work, process, budget>>

\* The loop ends, and the wake tasks are drained.
StopLoop ==
    /\ Spend("stops")
    /\ process' = "draining"
    /\ LoopStep /\ UNCHANGED <<work, pool>>

\* A wake task that does not end within the grace period is aborted; the
\* agents it had started die with their clients.
AbortWake ==
    /\ process = "draining" /\ pool.task = "running"
    /\ pool' = [pool EXCEPT !.task = "none"]
    /\ LoopStep /\ UNCHANGED <<work, process, budget>>

Exit ==
    /\ process = "draining" /\ pool.task # "running"
    /\ process' = "stopped"
    /\ pool' = ShutDown(pool)
    /\ LoopStep /\ UNCHANGED <<work, budget>>

-----------------------------------------------------------------------------
(* The specification *)

RelayStep ==
    \/ \E c \in Channels : \/ Publish(c) \/ AddMember(c) \/ RemoveMember(c)
                           \/ Archive(c) \/ Restore(c)
    \/ Tick \/ ServeReq \/ DenyReq \/ ServeClose
    \/ \E why \in {"limited", "error"} : RefuseReq(why)

ClientStep ==
    \/ ReceiveEvent \/ ReceiveClosed \/ ProactiveResubscribe \/ Resubscribe
    \/ Resubscribed \/ DrainCommand \/ RunCommand \/ LoseSocket \/ ReconnectCommand
    \/ DownCommand \/ Connect \/ GateExpires
    \/ \E s \in Subs : DrainParked(s)

MainStep ==
    \/ TakeSentinel \/ TakeMessage \/ SkipNotification \/ ApplyAdded \/ ApplyRemoved
    \/ TurnSucceeds \/ TurnFails \/ Maintenance \/ RetryDeadline \/ RetryFires
    \/ WakePanics \/ TakeWakeResult \/ JoinWakeTask \/ Sleep \/ StopLoop
    \/ \E c \in Channels : BackoffExpires(c)

Next ==
    \/ process = "running" /\ (RelayStep \/ ClientStep \/ MainStep)
    \/ process # "stopped" /\ \E ok \in BOOLEAN : WakeReturns(ok)
    \/ AbortWake \/ Exit

Spec == Init /\ [][Next]_vars

\* The scheduler runs every task that can run: the arms of the main loop, the
\* timers, the wake task and the agent's turn, which have a timeout each.
FairSpec ==
    /\ Spec
    /\ WF_vars(process = "running" /\ (TurnSucceeds \/ TurnFails))
    /\ WF_vars(process = "running" /\ Maintenance)
    /\ WF_vars(process = "running" /\ RetryDeadline)
    /\ WF_vars(process = "running" /\ RetryFires)
    /\ WF_vars(process = "running" /\ (TakeWakeResult \/ JoinWakeTask))
    /\ WF_vars(process # "stopped" /\ \E ok \in BOOLEAN : WakeReturns(ok))
    /\ \A c \in Channels : WF_vars(process = "running" /\ BackoffExpires(c))

-----------------------------------------------------------------------------
(* Properties *)

\* Nothing is on its way between the relay, the client and the main loop.
Quiescent ==
    /\ phase = "up" /\ ~bg.proactive /\ bg.parked = {}
    /\ wire = <<>> /\ reqs = <<>> /\ cmds = <<>> /\ eventq = <<>>

\* The changes of a membership, and the newest of them.
Changes(c) == {i \in Ids : relay.log[i].kind # "message" /\ ChannelOf(i) = c}
Newest(c) == {i \in Changes(c) : \A j \in Changes(c) : j <= i}

\* The one inbox holds the notifications of all channels: once a socket was lost
\* or a REQ refused, those of another channel may have moved its last_seen past
\* what the next REQ asks for.
Overtaken(c) ==
    relay.cut /\ \E i \in Newest(c), t \in At(bg.lastSeen, "membership") :
                    relay.log[i].at < t - Skew

\* The membership notifications leave the harness subscribed to exactly the
\* channels it is a member of, however often they were replayed, dropped and
\* reordered on the way: the two dedup layers and the watermark of the main
\* loop keep the newest change and forget the older ones.  Only a change that
\* was overtaken is not followed.
SubscribedIffMember ==
    Quiescent => \A c \in Channels : (c \in main.subscribed <=> c \in relay.members)
                                     \/ Overtaken(c)

\* The messages a member must get: published since it was last added, on a
\* channel the client holds.  One it has let go of is asked for again only when
\* the main loop says so (RestoredListens).
Owed ==
    {i \in Ids : /\ relay.log[i].kind = "message"
                 /\ ChannelOf(i) \in relay.members \cap bg.active
                 /\ \A j \in Changes(ChannelOf(i)) : j < i}

Got == ToSet(delivered) \cup ToSet(eventq)

\* What every REQ of the client covers is never missed: a message within the
\* skew of the newest one the client has seen on its channel reaches the main
\* loop, across lost sockets, a full queue, refused REQs, and a channel left and
\* joined or archived and restored.
WindowComplete ==
    Quiescent => \A i \in Owed \ Got :
                    \E t \in At(bg.lastSeen, ChannelOf(i)) : relay.log[i].at < t - Skew

\* A channel of Init whose membership has never changed.
Settled(c) == c \in budget.joined \ relay.archived /\ Changes(c) = {}

\* A message the full queue refused is replayed: as long as no socket is lost
\* and no REQ refused, nothing is missed on a settled channel, however old the
\* refused message is.
OverflowRecovered ==
    (Quiescent /\ ~relay.cut) => \A i \in Owed \ Got : ~Settled(ChannelOf(i))

\* No message a member must get is missed.
NothingMissed == Quiescent => Owed \subseteq Got

\* A message the relay replays or the client gets twice reaches the main loop
\* once: the two generations of seen_ids never forget a recent id.
DeliveredOnce ==
    /\ IsInjective(delivered)
    /\ \A j, k \in DOMAIN eventq : eventq[j] = eventq[k] /\ eventq[j] # 0 => j = k
    /\ \A j \in DOMAIN delivered, k \in DOMAIN eventq : delivered[j] # eventq[k]

\* A member the relay told to subscribe listens again.
RestoredListens == Quiescent => relay.members \ relay.archived \subseteq relay.live

\* A pool that a wake task hands over is the one the lifecycle waits for: no
\* started pool is dropped as stale.
WakeNotStale == \A k \in DOMAIN pool.results : IsCurrent(pool, pool.results[k])

\* The pool never sleeps on work: not even on a batch in its backoff, which
\* neither wakes the pool nor is flushed by the maintenance of a sleeping one.
NeverSleepsOnWork ==
    (process = "running" /\ budget.lazy /\ ~pool.ready /\ pool.life = "listening")
        => work.queued = {} /\ work.inflight = {}

\* Every started pool is the harness's own, waits in wake_rx, or was shut
\* down; none is left when the harness has stopped.
NoPoolLeaks ==
    pool.alive = (IF pool.ready THEN 1 ELSE 0)
                 + Cardinality({k \in DOMAIN pool.results : pool.results[k].ok})

\* A queued message is dispatched, or its channel is left, whether the pool was
\* asleep, waking, failing to wake or backing off.
QueuedIsDispatched ==
    \A i \in 1..3 : (process = "running" /\ i \in work.queued)
                        ~> (process # "running" \/ i \notin work.queued)

=============================================================================
