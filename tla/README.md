# Verification of Buzz: harness, huddles, gateway and intake

TLA+ models of Buzz (the Colony repository), the TLC configurations that check
them and the TLAPS proofs about them. Paths below are relative to the
repository root. Four parts are modelled: the agent harness
(`crates/buzz-acp`, the process between the relay and a pool of agents), the
way work reaches that harness (relay subscriptions, relay client, lazy pool),
the relay's voice huddles that span pods over a fenced lease in Redis, and the
model gateway that spends Colony Credits.

## 1. The system

Buzz is a Nostr relay with channels, git hosting, workflows, voice and payments,
and agents that are members of its channels like people are.

| Component | State it keeps | Operations | What makes it hard | What makes it correct |
|---|---|---|---|---|
| **acp event queue** `buzz-acp/src/queue.rs` | per-channel queues, in-flight set with deadlines, throttles and counters, cancelled batches, events withheld for a steer | push, flush_next, mark_complete, requeue (three kinds), drain_channel, mark/release/remove of a steered event, compaction | expiry, caps, batches that come back in four ways | every event in one place, none lost, caps, backoff |
| **acp main loop** `buzz-acp/src/lib.rs` | the queue, the pool, crash history, memberships, heartbeat flag | select! arms for results, panics, steer acks, relay events, commands, timers, wakes; maintenance; dispatch | results, acks, removals and expiries in any order | one turn per channel, nothing wedged, exit only when dead |
| **acp pool and prompt tasks** `pool.rs`, `acp.rs` | agent slots, task map, control oneshots, steer channel | claim, return, run a turn, signal, steer | a turn ends in ten ways; a steer races the end of its turn | a slot is owned once, a batch goes back or is accounted for |
| **acp slot circuit** `lib.rs` | crash window, open_until, respawn flag | record_crash, can_refill, mark_spawn_failed | half-open probe, background respawn | a crashed slot comes back; no agent behind an open circuit |
| **acp lazy pool** `pool_lifecycle.rs` | lifecycle with attempt tokens, wake task, wake results | wake, retry, sleep, shut down | stale wake results; throttled work while asleep | no work stranded asleep, no pool leaked |
| **acp relay client** `relay.rs` | subscriptions, last-seen and dropped marks, seen ids, rate gate, parked REQs | receive, resubscribe, drain commands, reconnect | lost sockets, back-pressure, rate limits, newest-first replay | no gap, no duplicate, subscribed as the main loop wants |
| **relay subscriptions and memberships** `handlers/req.rs`, `side_effects.rs`, `subscription.rs` | live subscriptions, memberships, archived channels | REQ, CLOSE, fan-out, evict, notify | eviction against resubscription | a member hears its channels |
| **session directory** `tunnel/directory.rs` | one lease and one generation per session in Redis | acquire, renew, release, validate, expiry | late releases, dead owners | one owner per epoch, behind a fence |
| **huddles** `audio/` | rooms, owner registry, renewers, control streams, mirrors | join, admit, attach, drain, dial, register, tear down, archive | ownership lost or drained under admissions on two pods | identities unique, drains complete, loss reaches everyone |
| **gateway and credits** `gateway/mod.rs`, `buzz-db/src/credits.rs` | balance, ledger, settlement intents; admission entries with gate, slots, burn window | admit, hold, settle with retries, reconcile, resolve from an export | disconnects, lost acks, crashes, pruning, a concurrent resolver | charged once or recoverable, never overdrawn, limits exact |
| acp usage outbox `usage_outbox.rs` | files on disk | append, publish, delete | crash between the two | published at least once |
| relay ingest `handlers/ingest.rs` | the event store | validate, store, side effects | replaceable events, partial failures | accepted events stored once |
| interrupts, asks | open requests | raise, claim, resolve | two resolvers | resolved once |
| reliable tunnels `tunnel/reliable.rs` | sequence windows per epoch | send, ack, resume | loss and takeover | in order, once |
| git publish `api/git/cas_publish.rs` | object-store manifests | compare-and-swap publish | concurrent pushes | own specification in `docs/spec/` |
| workflow, deletion, push wake outbox | rows in Postgres | runs, approvals, erase steps, leases | crash between steps, two workers | each step once, or safely again |
| audit `buzz-audit` | hash chain | append | concurrent writers | one chain |
| pub/sub `buzz-pubsub` | Redis | publish, invalidate, limit | lost messages | caches expire |
| pairing, meter, media, search, auth, CLI, SDK, clients | little or none | I/O | | |

Interactions. The relay fans events out to the sockets of its subscribers; the
relay client of a harness forwards them through a bounded channel to the main
loop, and the loop sends it commands back over another. The loop pushes
messages to the queue, flushes batches and gives each to a prompt task with an
agent claimed from the pool. A task reports over `result_rx` or dies (seen by
`join_next`); a steer reports over its ack channel; a respawn over `respawn_rx`;
a wake over `wake_rx`. The loop is one task, so what it owns changes only in its
steps, but what it reads from those channels is arbitrarily late. Agents call
models through the gateway, which holds credits in Postgres, forwards the call
and settles it in a task of its own; an operator's resolver settles from the
provider's export what the relay could not. A voice client's WebSocket ends at
any pod; the pod that holds the session's lease owns the room, the others dial
it and keep a mirror.

`PROJECT.json` lists every component with its status, the map from definitions
to lines, and the hazards of the code at their lines.

## 2. Modules

| Module | Models |
|---|---|
| `EventQueue` | the `EventQueue` object: a state type and one operator per method |
| `SlotCircuit` | one slot's circuit breaker and respawn |
| `AgentHarness` | extends both: main loop, prompt tasks, steers, respawns, clocks |
| `EventQueueProofs`, `AgentHarnessProofs`, `PoolProofs`, `EventProofs`, `PromptProofs` | theorems about these three |
| `RelayClient` | `BgState` and its since computation, the two-generation dedup |
| `PoolLifecycle` | the lazy pool's lifecycle and the loop variables that go with it |
| `Intake` | extends both: relay, background task, and main loop as far as intake goes |
| `IntakeProofs` | theorems about these three |
| `SessionDirectory` | the Redis scripts as operators on a directory record |
| `FencedLease` | abstract specification: numbered epochs with one holder |
| `AudioRoom` | one `Room`: admission, index allocation, end |
| `Huddle` | extends `SessionDirectory` and `AudioRoom`: two pods and their clients |
| `HuddleProofs` | theorems about `Huddle`, the refinement of `FencedLease` included |
| `Credits` | rows and transactions of the ledger and the settlement intents |
| `Gateway` | extends `Credits`: admission, the proxied call, settlement, resolver, process |
| `GatewayProofs` | theorems about `Gateway` |
| `MCAgentHarness`, `MCIntake`, `MCHuddle`, `MCGateway` | instances for TLC |

**EventQueue.** A map that lacks a key is a function with an empty value. An
`Instant` is only compared with now, so it is `"none"`, `"active"` (ahead) or
`"passed"`; time moves active to passed at any moment. An event is its arrival
number (the order of `received_at`), channel, author's timestamp, whether it is
a scoped request (an `agent_reply` tag), thread and whether the owner wrote it.
Hash-map iteration order is a choice: `FlushNext` is the set of outcomes.
The eviction at a cap is explicit (`PushEvicts`, `Overflow`, `ReleaseEvicts`,
`ExpiryEvicts`) so that a dropped event is on record in the history.

**SlotCircuit.** `crashes` counts crash times inside the window; a clock lowers
it. `circuit` is `open_until` against now. `RecordCrash` includes its callers'
reaction: starting a respawn unless the circuit is open.

**AgentHarness.** `pc` says where the loop is: at its top (`top`), after
maintenance (`collect`), at the select (`select`), in the drain of join results
that follows a result (`drain`), or out (`exited`). `dispatching` says that
`dispatch_pending`'s loop runs; each turn of it is a step, so tasks interleave
with it. The select is biased: `AtSelect` lets no other arm run while a result
is waiting. One action is one arm. The variable `tasks` joins the task map with
the task itself: a result is read (`HandlePromptResult`) some time after the
task left it (`TaskFinishes`), and in between the task is still in the map, as
in the code. A task's control oneshot is taken by the first signal only. A
native steer is a record that goes from buffered to written to resolved, and
its ack is read later still. `fate` is a history variable: what became of each
event. Abstracted: sessions (any idle agent may be claimed), prompt text,
reactions, typing and presence (only that their timers wake the loop), metrics.

**Intake.** `relay` holds the stored events, the memberships and the live
subscriptions of one agent's connection; `wire` and `reqs` are the socket's two
directions and vanish with it; `phase` is where `run_background_task` is: reading
(`up`), sending the paced resubscription (`resubscribing`), draining the commands
of the meantime (`draining`) or without a socket (`down`). Replay is newest
first with ties in any order, as the relay's query returns it. `eventq` is the
bounded channel with its `None` sentinel, `cmds` the command channel. The queue
and the pool are reduced to what the intake sees: what is queued, throttled and
in flight. An iteration of the main loop is one action, which ends with the wake
that the top of the next iteration starts (`Top`).

**Huddle.** An action is what a task does between two awaits or between two
accesses to shared state. `directory` is Redis; `leases` keeps for every epoch
granted its renewer and its three cancellation tokens; `registry` and `manager`
are the per-pod maps; `rooms` are the objects some `Arc` still points to, so a
room that was removed from the map lives on in the handlers that hold it.
`attach_signals` is three actions (check, insert, re-check) and `drain_all`
starts, collects and drains entry by entry, since they race on two threads. A
remote client is a handler on its own pod (`conns`) and a control loop on the
owner (`streams`). Abstracted: media and its generation floor, roster
revisions, protocol versions.

**Gateway.** One account, as every limit is per account. A transaction is one
action with three outcomes: committed and heard, committed and not heard, rolled
back (`Outcomes`). `entries` are the admission entries that some `Arc` points to,
`current` the one in the map, so that a pruned entry may still be in use. A
client's disconnect drops the handler's future at any of its awaits
(`Disconnect`); a settlement runs in a tracked task that it does not stop. A
crash loses memory and keeps the database. The provider answers with or without
an id, with a cost, with tokens only, or with neither; its export knows the
bill. The resolver's transaction reads, debits and marks in three actions.

## 3. Runs

`MaxRetries`, caps and thresholds are 1 to 3: overflow, dead letters and open
circuits then happen within a few steps, and no property speaks of their values.
Every bound on what the outside may do is a named constant or a field of
`budget`: events, faults, commands, membership changes in `AgentHarness`; lost
sockets, refusals, overflows, seconds, failed wakes in `Intake`; expiries,
shutdowns, crashes, errors in `Huddle`; errors, disconnects, stops, resolver
passes, hours, payments in `Gateway`. `Scenarios` and `Budgets` are sets of such
bounds, so one run covers several combinations of faults.

| Run | Setting | Shows |
|---|---|---|
| `steer` | Steer mode, 2 channels, 2 threads, scoped and plain events, one command, one fault | `WithheldHasSteer`, `SteeredOnce`, `QueueCapped`, `ScopedAlone`, `SteerOwnConversation` |
| `retries` | Queue mode, 2 channels, timestamps out of order, 2 faults, 2 membership changes | `NoSilentLoss`, `BackoffCounted`, `OneTurnPerChannel`, `NewestLast` |
| `pool` | Steer mode, 2 agents, deadlines that pass under a running turn, heartbeats, 2 faults | `SlotOwnedOnce`, `LiveSlotClosed`, `HeartbeatExact`, `InFlightHasDeadline`, `OnePlace`, `ExitOnlyWhenDead` |
| `settle` | Steer mode, 2 events, 3 faults, fairness | `TypeOK`, `HeldLeaves`, `SlotsRecover` |
| `huddle` | 2 pods, 2 or 3 clients, a drain, a crash, an expiry, errors | `TypeOK`, `EntryNotSilent`, `DrainLeavesNothing`, `OneIdentity`, refinement `LeaseIsFenced` |
| `huddle_fair` | 2 clients, one kind of fault, fairness | `LossReachesPeers` |
| `gateway` | 2 or 3 calls, lost acks, lost replies, disconnects, a crash or shutdown, the resolver, a top-up | `TypeOK`, `ChargedOnce`, `NeverOverdrawn`, `BilledIsRecoverable`, `OneAuthority`, `BurnCounted`, `ResolvedIsFinal` |
| `intake` | 1 channel, event queue of 1, thirteen combinations of faults, fairness | `TypeOK`, `SubscribedIffMember`, `WindowComplete`, `OverflowRecovered`, `DeliveredOnce`, `WakeNotStale`, `NeverSleepsOnWork`, `NoPoolLeaks`, `QueuedIsDispatched` |
| `cancelled_lost` | Steer mode, 2 channels, no fault | violates `NoSilentLoss` |
| `double_charge` | an estimated settlement, then the export | violates `ChargedOnce` |
| `restored` | a channel archived and restored | violates `RestoredListens` |
| `missed` | two messages, one lost socket | violates `NothingMissed` |

Why the bounds are enough. Two channels and one agent make channels compete; two
agents make an expired turn and its successor run side by side; three events
give one that runs, one that steers and one that is queued. Two pods and three
clients give an owner with a second local client and a remote one, and an
expiry lets the other pod take over. Two calls and one error give a lost
acknowledgement on one while the other holds its credits; three calls exceed the
in-flight limit. In `intake` a queue of one event and a dedup generation of
three ids overflow and rotate with three messages, and a skew of one second
leaves a message outside the window after two. One channel is enough for the
messages because the client's state is per channel but for the rate gate and the
dedup set. The notifications of all channels share one inbox with one
`last_seen`, though, and with one channel none is ever overtaken by another: for
memberships that interact there, `MembershipsAreFollowed` (section 6) says for
every set of channels what the run says of one.

What the three properties of `Intake` leave out, each for a state the code does
reach. `SubscribedIffMember` excepts a change that was `Overtaken`: the inbox is
replayed newest first, and when the socket is lost after the notification of one
channel and before the older one of another, the next `since` is past the latter.
The messages `Owed` to a member are those on a channel the relay client still
holds: one that it has dropped on a denial or on a late removal is not asked for
again while the main loop takes it for subscribed, which `restored` shows.
`OverflowRecovered` is about a `Settled` channel, whose membership has never
changed: an event still on the wire between an Unsubscribe and a Subscribe
raises `last_seen`, and the first REQ of a Subscribe asks from there and ignores
the marker of an event the full queue refused (`relay.rs:1528`).
`WindowComplete` is about every channel the client holds.

Restrictions, and what they hide. `OneTurnPerChannel`, `SteeredOnce`,
`ScopedAlone` and `SteerOwnConversation` are checked without expiry: once a
deadline passes under a running turn the code starts a second one on purpose,
the first one's result then marks the second one's channel complete, an event
recovered from the side table may be prompted although its steer is
acknowledged later, and a late fallback can cancel a newer turn of the same
conversation. Two membership changes of one channel fall into different seconds
(`ties`), since the relay replays notifications of one second in the order of
their ids and the last state is then a matter of chance. In the passing
`gateway` scenarios a call costs no more than its hold, and the export agrees
with the response on the request id and the cost (see `double_charge`); the
resolver runs beside a live relay only for calls that carry no request id, or none
that the settlement debits under (`Nameless`).

Two of the gateway's properties have an exception which the code makes, not the
model. On any error of `send()` the relay closes the intent with no charge
(`gateway/mod.rs:1129-1142`), also when the provider has served and billed the
call and only its reply was lost before the response's head; the relay cannot
tell the cases apart, and `SendFails` takes both. A call closed that way is
`abandoned` (history, read by the properties alone). `BilledIsRecoverable`
excepts it: its bill is neither debited nor held, and no export recovers it.
`NeverOverdrawn` excepts a state in which an abandoned call was debited all the
same: a resolver beside the live relay reads the pending row, the relay gives
the hold up, another call reserves the balance, and the resolver's debit takes
it. Without the exceptions TLC finds both in the scenarios of `gateway.cfg` (the
start balance of one hold with a live resolver is there for the second). They
go against `mod.rs:18-21` ("an unparseable or failed successful call keeps a
durable settlement intent") and `migrations/0055_gateway_settlement_intents.sql:1-3`
("Durable attribution for every admitted hosted-gateway call"); the comment
that a failed call is not billed (`mod.rs:1919`) is about a non-success status.

Deadlock is not checked in `huddle`, `huddle_fair`, `gateway`, `intake` and
the violations of these systems: those systems come to rest when every client has left, every
call is settled or the harness has stopped. The harness runs check it.

### What the violations show

- **`cancelled_lost`**: a steer cuts a turn; its events are merged into the
  next batch as cancelled events; that batch finds no free agent and goes back
  with `requeue_preserve_timestamps`, which puts back `events` only. The
  cancelled events are gone without a record. `requeue` does the same after a
  failed turn.
- **`double_charge`**: a response with tokens and no cost is settled on an
  estimate, under the request id. The export has the exact bill. The resolver
  looks for a ledger row with that id and that cost, finds none, and debits the
  bill under the intent's own reference. The same happens when only one of
  response and export has an id.
- **`restored`**: archiving closes the agent's subscription with a denial, the
  relay client forgets the channel, the main loop does not; the notification
  sent to make the agent subscribe again is skipped as already subscribed. A
  removal that is lost to back-pressure and replayed after the re-add ends the
  same way.
- **`missed`**: the relay replays newest first and `last_seen` is the newest
  message forwarded. A socket lost in the middle of the replay, or replaced by
  a Reconnect command that was already under way, leaves the older messages of
  the outage before the next `since`. `WindowComplete` and `OverflowRecovered`
  say what the code does guarantee. The inbox loses the notification of one
  channel behind that of another in the same way (`Overtaken`).

### Observed while modelling, without a run

Harness: a batch whose backoff is over and that finds no agent has its retry
counter reset (`lib.rs:4210`), so it can fail more than `MAX_RETRIES + 1` times.
A batch that was cancelled twice goes out in the order of its cancellations, not
of its timestamps (`queue.rs:475`). With presence, typing, heartbeat and reapers
all off, nothing brings the loop back to its maintenance block, and a requeued
batch waits for the next event (`lib.rs:2688`). Asks do not wake a lazy pool
(`lib.rs:2877`).

Huddle: a joiner of the reuse arm can be admitted although the entry it checked
has gone, and then watches nothing (`handler.rs:571`). The last owner client
that is torn down by a drain archives the channel it is told to rejoin
(`handler.rs:733`). A handler that acquired the lease and is refused leaves it to
its TTL. The last remote client to leave does not end the room.

Gateway: when every attempt of a settlement commits and none is heard, the
reconciliation puts the hold back after the charge. A handler dropped while it
waits for the gate is counted as a gate user for ever, so its entry is never
pruned. A cost above the hold can overdraw the account. A billed call whose reply
is lost before its head is closed with no charge (section 3, the restrictions). There is no read timeout
on the upstream body, so nothing is claimed about a settlement eventually
starting.

## 4. Fairness

`AgentHarness!FairSpec` assumes weak fairness of the loop's own steps and of its
timer (if one is configured), of a turn's normal end and a respawn's, and of the
clocks (throttle, cooldown). A turn ends because the read loop bounds it by the
idle and hard timeouts; tokio runs every ready task. Results, panics and acks
have strong fairness: they are polled before any timer in a biased select, so
one that is repeatedly readable is read, although other arms disable it in
between. Maintenance has strong fairness because its interval elapses between
visits to the loop's top.

`Intake!FairSpec` assumes weak fairness of the turn's end, maintenance, the wake
task and its arms, and the two timers (backoff, wake retry); nothing of the
relay or the socket. `Huddle!FairSpec` assumes that the tasks of live pods
(handlers, control loops, renewers with their interval, drains) together keep
running; clients, shutdowns and faults are free. `Gateway` has no fairness: a
provider may never answer.

## 5. Refinement

`FencedLease` is what the huddle relies on: epochs are granted in order, at most
one is in force, and one ends only because its own holder gave it up or its TTL
ran out. `Huddle` implements it (`LeaseIsFenced`) with the lease record of Redis
as the holder, the granted leases as the epochs, and the epochs whose renewer
has stopped as those given up. That is the interesting half: a release sent for
an epoch that is over, or an attach that finds another entry and releases its
own extra lease, must map to a stutter or to the release of that very epoch.

## 6. Proofs

For every value of the constants, from the named assumptions of the modules:
`QueueConstants` (positive caps), `ChannelNames`, `ThresholdAssumption` and
`HarnessConstants` (the modes, and the validation rule that every mode but Queue
needs Queue dedup); `HuddleConstants` and `GatewayConstants` with what they
extend; `RelayClientConstants` (a finite set of channels, a positive dedup
generation) and `IntakeConstants`.

- **`EventQueueProofs`**. `QueueOK` says: the state type, in flight exactly with
  a deadline, every queue within its cap, every running throttle counted. One
  lemma per method shows that it keeps `QueueOK`; `FlushNextOK` says what
  `flush_next` may hand out.
- **`AgentHarnessProofs`**. `HarnessInv` adds the type of the rest and `TaskOK`:
  the batch of a task, and the batch its result carries back, belong to the
  task's channel, and a heartbeat has no control. Without it the step that
  requeues a batch could write to any queue. `HarnessInvariant` is proved with
  one lemma per action and yields `TypeCorrect`, `DeadlineSafety`, `CapSafety`
  and `BackoffSafety`.
- **`PoolProofs`**. `PoolInv` is a condition per slot: idle, checked out and
  respawning exclude each other, and an agent present or coming has a closed
  circuit; with it the heartbeat flag is exact. It yields `SlotSafety`,
  `CircuitSafety`, `HeartbeatSafety` and the action property `ExitSafety`.
  `TurnSafety` proves `OneTurnPerChannel` where `~Expiry`, from an invariant
  that no deadline has passed, so that only `mark_complete` frees a channel.
  The theorems of these three modules cover all modes, Drop and the interrupt
  modes included, which no run instantiates.
- **`EventProofs`**. `PlaceInv` says that no event is in two places of the queue
  and the turns together, that everything held arrived before `nextId` (so an
  arrival is new), and that a result carries back its own turn's events; one
  lemma per method of the queue says which events it moves. It yields
  `EventsInOnePlace`, in every mode. `SteerInv` adds that every steer is of
  an event of its own that has arrived, and that a channel withholds its own
  events only (`WithheldIsReleased`). `OnceInv` adds that an event a steer may
  still deliver is loose nowhere. It needs `~Expiry`: the expiry block puts a
  withheld event back into the queue while its steer is under way, and a late
  success would then deliver an event that is also prompted; `SteersDeliverOnce`
  says so in its hypothesis. `SteersStayInConversation` needs `MaxMemberships = 0`
  as well, for `drain_channel` discards a withheld event whose steer may still
  fall back and cancel a turn for it.
- **`PromptProofs`**. `ScopeInv` says of every turn that a scoped request is alone
  in it, and of every channel that a cancelled scoped request is the only one
  there, that its channel is not throttled and that it has no turn: without the
  last two, `flush_next` could pass over it and merge it into a batch.
  `ScopedRequestsAlone` needs `~Expiry`, for an expired turn lets a second one
  into its channel. The other two theorems have the hypothesis that the mode is
  Queue and no command switches the model. `PlainInv` is what follows: no steers,
  nothing withheld, nothing cancelled, and a turn ended by a signal discards its
  batch, so every prompt is a sorted drain of the queue
  (`PromptsEndWithNewest`). `LossInv` is then carried over every step by what it
  evicts (`EventsAreNotLost`), with deadlines that pass, failed turns, panics and
  removed channels. Outside the hypothesis the statement is false: the run
  `cancelled_lost` shows the cancelled part of a merged batch lost when the batch
  is put back.
- **`GatewayProofs`**. `Base` is `TypeOK` with `Authority` (every call under way
  points to the entry in the map, whose counts of permits and of gate users are
  exact: without the users, pruning could drop an entry a call is about to use)
  and `Resolving` (what the resolver holds in hand belongs to its call); it
  yields `GatewayTypes` and `AuthorityIsOne`. `Books` adds that a call which may
  still be sent, or is billed and was not abandoned after a failed `send()`,
  holds its Credits until it is debited, that an abandoned call is never
  settled, that the
  resolver works on billed calls only, and that a call which has not reserved has
  no intent: `BilledCallsAreRecoverable` and the action property
  `ResolvedStaysResolved`. `Burn` ties a settled call to its ledger row
  (`BurnIsCounted`). `Charges` says under which reference each kind of call was
  debited; references are unique, so two debits would be one row.
  `CallsAreChargedOnce` has a hypothesis, `Attributable`: every answer of the
  provider is of one of the three kinds whose export can be told to speak of a
  debit that was made. The scenarios of `gateway.cfg` satisfy it; the run
  `double_charge` is outside it and shows the double debit. `Solvent` says that
  the balance covers the holds of all calls that have no debit yet, as long as no
  abandoned call was charged (`Unclaimed`), which gives `AccountIsNeverOverdrawn`. A hold that a late settlement gives back to an
  intent after its debit is not among them: it counts against new calls and
  covers nothing. Its hypothesis adds `Affordable`, that a call costs no more than
  the hold it was admitted with, which `gateway.cfg` satisfies: a second debit or
  a larger one overdraws the account. The sum over all calls is a function
  given by its recursion (`SumsTo`), so the lemmas about it (one call changes, all shrink, one is removed)
  are inductions over finite sets of calls. They take the set of what is
  proved already as a parameter, not an operator, and go by the least
  cardinality outside it (`NatsInduction`, `CallsInduction`).
- **`HuddleProofs`**. `Shapes` are the types with what every program point
  implies; `Epochs` adds that the directory's generation is the number of grants
  and every fence anybody holds was minted (`Ledger`), that a handler alone holds
  the lease it has acquired and not yet published (`Holders`), and that an entry
  is an uncancelled epoch of its own pod (`Entries`). It yields `HuddleTypes` and
  `EntriesAreNotSilent`; a pigeonhole argument (`RoomLeft`) shows that the bound
  on room objects hides no behaviour. `Drains` says that an entry the snapshot of
  `drain_all` missed has a publisher still at its re-check
  (`DrainsLeaveNothing`). `LeaseIsFencedAlways` is the refinement of section 5,
  action by action. `Identities` says that a room object lives on one pod and
  that only an owner's own clients take an index of its room; with the rooms'
  allocator invariant in `Shapes` it yields `IdentityIsOne`.
- **`IntakeProofs`**. `PoolSound` bounds `wake_rx` to one result, of the attempt
  the lifecycle waits for, and accounts for every started pool:
  `WakesAreCurrent`, `PoolsDoNotLeak`. `Typed` needs, beyond `TypeOK`, that a
  frame names a stored event and only a channel is denied, that the inbox always
  has a high-water mark and every active channel a floor, and that what is left
  to resubscribe is still active; it carries `IntakeTypes`. `Awake` adds to
  `NeverSleepsOnWork` that a backoff always has a queued batch and that only a
  ready pool has one in flight: without the first, a message could be queued
  behind a backoff that wakes nobody (`SleepsOnlyWhenIdle`). `Once` says that
  what was taken or is queued is in one of the two generations of `seen_ids`, and
  that a rotation happens over an empty older generation as long as the relay has
  stored at most `2 * SeenLimit - 2` events: a refused event may leave the older
  generation one short, hence the 2. `WindowDeliversOnce` is `DeliveredOnce`
  within that window; beyond it the older generation is dropped by design, and a
  replay may deliver again.

  What is never missed rests on following an event through every place it can be
  in. `Carried` does so for a subscription that is `Steady` (the inbox, or a
  settled channel): each of its events has reached the main loop, is on the wire,
  is asked for by a REQ on its way, waits for a REQ that is certain to follow, is
  covered by a drop marker, or, once a socket was lost or a REQ refused, is older
  than `last_seen` by more than the skew. At rest only the first and the last are
  left (`OverflowsAreRecovered`). `Remembered` says that what the two dedup layers
  take for a duplicate has indeed been delivered or heeded. `Held` does the same
  for channels that are left, joined, archived and restored, for the messages
  since the last change only: a channel the client holds is live at the relay or
  will be asked for (`Attends`), from a floor that no current message is below
  (`Floored`), and each current message is delivered or covered (`Kept`). It yields
  `WindowsAreComplete`, with no hypothesis. `Joined` says that the relay's
  membership is that of the newest change and the main loop's that of the newest
  it has applied; with `Carried` for the inbox this is `MembershipsAreFollowed`,
  whose hypothesis is that the scenarios have no `ties`, as in all runs.

Every safety property of the passing runs, state and action properties, is
stated by a theorem. Only model-checked is liveness under fairness, which is out
of the prover's reach: `SlotsRecover`, `HeldLeaves`, `LossReachesPeers`,
`QueuedIsDispatched`. TLC checked the parts of the inductive invariants on small
instances before they were proved.

## 7. Plan

1. `PromptTask`: the session life cycle inside a turn that `AgentHarness`
   abstracts into an outcome.
2. The reliable tunnel over the session directory; the usage outbox; the push
   wake outbox, workflow runs and the audit chain, as far as their transactions
   give something to interleave.

## 8. Not modelled

`PROJECT.json` gives the reason for every component. In short: user interfaces,
formatting, pricing arithmetic, media and search are input and output; the
brokers are one transaction per request; git on an object store and tenant
isolation have specifications of their own in `docs/spec/`; the reliable tunnel,
the outboxes, workflows, deletion, pairing and the audit chain are planned.
Within the modelled parts: the Ask inbox, observer frames and publishing of the
relay client; media datagrams and
roster revisions of huddles; accounts, grants and the model catalogue of the
gateway.
