-------------------------------- MODULE Huddle --------------------------------
(***************************************************************************)
(* One huddle that spans relay pods (crates/buzz-relay/src/audio): the      *)
(* WebSocket handler of every client connection, the HuddleOwnerRegistry    *)
(* and the AudioRoomManager of every pod, the lease renewers, the control   *)
(* streams a pod serves for clients of other pods, and the session          *)
(* directory in Redis that arbitrates who owns the huddle.                  *)
(*                                                                         *)
(* The pods share nothing but Redis, the channel row and the streams.  One   *)
(* action is what a task does between two awaits, or between two accesses   *)
(* to state that another thread of its pod also touches.                    *)
(***************************************************************************)
EXTENDS AudioRoom, SessionDirectory

CONSTANTS MaxAttempts,  \* OWNER_READY_MAX_ATTEMPTS
          Placements,   \* to which pods the clients may connect
          Budgets       \* bounds: the faults a behaviour may have

\* What is left of the bounds: clients that may still connect, pods that may
\* be drained by SIGTERM, pods that may die, leases whose TTL may run out, and
\* failures of Redis, the database and the streams.
Budget == [clients : SUBSET Conns, shutdowns : SUBSET Pods, crashes : SUBSET Pods,
           expiries : Nat, errors : Nat]

ASSUME HuddleConstants ==
    /\ IsFiniteSet(Pods) /\ IsFiniteSet(Conns)
    /\ "none" \notin Pods
    /\ MaxAttempts \in Nat
    /\ Placements \subseteq [Conns -> Pods]
    /\ Budgets \subseteq Budget

VARIABLES directory,  \* the lease and the generation in Redis
          leases,     \* every lease granted: its renewer and its tokens
          registry,   \* HuddleOwnerRegistry: generation of a pod's entry, or 0
          drainer,    \* HuddleOwnerRegistry::drain_all of every pod
          rooms,      \* the Room objects that some Arc still points to
          manager,    \* AudioRoomManager: room of every pod, or 0
          conns,      \* handler task of every client
          streams,    \* serve_control_loop for the clients of other pods
          archived,   \* the channel's archived_at
          podOf,      \* the pod every client connects to
          dead,       \* pods that died
          budget      \* what is left of the bounds

vars == <<directory, leases, registry, drainer, rooms, manager, conns, streams,
          archived, podOf, dead, budget>>

-----------------------------------------------------------------------------
(* Types *)

\* Enough objects for every reference: one per pod, two per client.
RoomIds == 1..(Cardinality(Pods) + 2 * Cardinality(Conns))

\* The life of one granted lease.  The renewer is spawned when the handler
\* attaches the lease; lost, draining and cancel are CancellationTokens.
Granted == [pod : Pods, renewer : {"unborn", "running", "releasing", "ended"},
            lost : BOOLEAN, draining : BOOLEAN, cancel : BOOLEAN]

ConnPC == {"out", "lookup", "acquire", "ready", "validate", "room", "check",
           "admit", "dial", "registering", "attach", "insert", "recheck", "reuse",
           "active", "leaving", "archive", "cleanup", "release", "gone"}

\* fence is the ownership the join resolved to, watch the generation whose
\* tokens the client's teardown watcher selects on (0: no watcher).
Conn == [pc : ConnPC, fence : Lease \cup {NoLease}, acquired : BOOLEAN,
         attempts : Nat, watch : Nat, room : RoomIds \cup {0}]

NewConn == [pc |-> "out", fence |-> NoLease, acquired |-> FALSE, attempts |-> 0,
            watch |-> 0, room |-> 0]

\* index is the reply's peer_index, NoIndex before it; bye is the client's close.
Stream == [pc : {"none", "hello", "register", "validating", "admitting", "serving",
                 "closed"},
           fence : Lease \cup {NoLease}, watch : Nat, room : RoomIds \cup {0},
           index : Nat \cup {NoIndex}, bye : BOOLEAN]

NoStream == [pc |-> "none", fence |-> NoLease, watch |-> 0, room |-> 0,
             index |-> NoIndex, bye |-> FALSE]

\* The type invariant: every variable keeps its shape through every action.
TypeOK ==
    /\ directory \in Directory
    /\ leases \in Seq(Granted)
    /\ registry \in [Pods -> Nat]
    /\ drainer \in [Pods -> [pc : {"idle", "collect", "drain", "done"}, entry : Nat]]
    /\ rooms \in [RoomIds -> Room]
    /\ manager \in [Pods -> RoomIds \cup {0}]
    /\ conns \in [Conns -> Conn]
    /\ streams \in [Conns -> Stream]
    /\ archived \in BOOLEAN
    /\ podOf \in [Conns -> Pods]
    /\ dead \subseteq Pods
    /\ budget \in Budget

Init ==
    /\ directory = FreshDirectory
    /\ leases = << >>
    /\ registry = [p \in Pods |-> 0]
    /\ drainer = [p \in Pods |-> [pc |-> "idle", entry |-> 0]]
    /\ rooms = [i \in RoomIds |-> FreshRoom]
    /\ manager = [p \in Pods |-> 0]
    /\ conns = [c \in Conns |-> NewConn]
    /\ streams = [c \in Conns |-> NoStream]
    /\ archived = FALSE
    /\ podOf \in Placements
    /\ dead = {}
    /\ budget \in Budgets

-----------------------------------------------------------------------------
(* Helpers *)

IsDraining(p) == drainer[p].pc # "idle"

Fence(g) == [owner |-> leases[g].pod, generation |-> g]

\* Mutation of Fired: only an intended drain is watched.
FiredOnDrain(g) == g # 0 /\ leases[g].draining

\* The teardown signals of an epoch have fired.
Fired(g) == g # 0 /\ (leases[g].lost \/ leases[g].draining)

Remote(c) == conns[c].fence.owner # podOf[c]

\* Where a handler goes once it knows the owner: resolve_join's last two arms.
Route(c, l) == IF l.owner = podOf[c] THEN "ready" ELSE "validate"

Referenced(i) ==
    \/ \E p \in Pods : manager[p] = i
    \/ \E c \in Conns : conns[c].room = i \/ streams[c].room = i

\* The rooms after a step: an object no Arc points to any more is dropped.
Dropping(f) == rooms' = [i \in RoomIds |-> IF Referenced(i)' THEN f[i] ELSE FreshRoom]

\* The object AudioRoomManager::get_or_create answers at pod p.
RoomAt(p) ==
    IF manager[p] # 0 THEN manager[p]
    ELSE CHOOSE i \in RoomIds : ~Referenced(i) /\ \A j \in 1..(i - 1) : Referenced(j)

\* AudioRoomManager::cleanup_if_empty of pod p.
Empties(p) == manager[p] # 0 /\ IsEmpty(rooms[manager[p]])
CleanUp(p) == manager' = [manager EXCEPT ![p] = IF Empties(p) THEN 0 ELSE @]

Step(c, pc) == conns' = [conns EXCEPT ![c].pc = pc]

Exit == [NewConn EXCEPT !.pc = "gone"]
Finish(c) == conns' = [conns EXCEPT ![c] = Exit]

Error == budget.errors > 0 /\ budget' = [budget EXCEPT !.errors = @ - 1]

-----------------------------------------------------------------------------
(* resolve_join_owner_ready *)

\* The checks before the join: membership rejects an archived channel, a
\* draining pod rejects every client.
Connect(c) ==
    /\ conns[c].pc = "out"
    /\ c \in budget.clients /\ podOf[c] \notin dead
    /\ ~archived
    /\ Step(c, IF IsDraining(podOf[c]) THEN "gone" ELSE "lookup")
    /\ UNCHANGED <<directory, leases, registry, drainer, rooms, manager, streams,
                   archived, podOf, dead, budget>>

\* owner_of: a plain GET of the lease.
Lookup(c) ==
    /\ conns[c].pc = "lookup"
    /\ conns' = [conns EXCEPT ![c].fence = directory.lease,
                              ![c].pc = IF HasLease(directory)
                                        THEN Route(c, directory.lease) ELSE "acquire"]
    /\ UNCHANGED <<directory, leases, registry, drainer, rooms, manager, streams,
                   archived, podOf, dead, budget>>

\* acquire: the winner of the script keeps the lease Redis minted, the loser
\* goes on with the winner's.
AcquireLease(c) ==
    LET d == Acquired(directory, podOf[c])
        won == d # directory
    IN  /\ conns[c].pc = "acquire"
        /\ directory' = d
        /\ leases' = IF won THEN Append(leases, [pod |-> podOf[c], renewer |-> "unborn",
                                                 lost |-> FALSE, draining |-> FALSE,
                                                 cancel |-> FALSE])
                     ELSE leases
        /\ conns' = [conns EXCEPT ![c].fence = d.lease, ![c].acquired = won,
                                  ![c].pc = IF won THEN "room" ELSE Route(c, d.lease)]
        /\ UNCHANGED <<registry, drainer, rooms, manager, streams, archived, podOf, dead, budget>>

\* The script ran and its answer, or the serving-write guard around it, was
\* lost: the join is rejected and the lease stands until its TTL.
AcquireUnheard(c) ==
    /\ conns[c].pc = "acquire"
    /\ ~HasLease(directory)
    /\ directory' = Acquired(directory, podOf[c])
    /\ leases' = Append(leases, [pod |-> podOf[c], renewer |-> "ended", lost |-> FALSE,
                                 draining |-> FALSE, cancel |-> FALSE])
    /\ Finish(c)
    /\ Error
    /\ UNCHANGED <<registry, drainer, rooms, manager, streams, archived, podOf, dead>>

\* Redis cannot be reached at all.
ResolveFails(c) ==
    /\ conns[c].pc \in {"lookup", "acquire", "validate"}
    /\ Finish(c)
    /\ Error
    /\ UNCHANGED <<directory, leases, registry, drainer, rooms, manager, streams,
                   archived, podOf, dead>>

\* Redis names this pod: only a registry entry lets the client reuse it, or
\* the join is resolved again, a bounded number of times.
OwnerReady(c) ==
    LET n == conns[c].attempts + 1
    IN  /\ conns[c].pc = "ready"
        /\ conns' = IF registry[podOf[c]] # 0
                    THEN [conns EXCEPT ![c].pc = "room"]
                    ELSE IF n < MaxAttempts
                    THEN [conns EXCEPT ![c].pc = "lookup", ![c].attempts = n,
                                       ![c].fence = NoLease]
                    ELSE [conns EXCEPT ![c] = Exit]
        /\ UNCHANGED <<directory, leases, registry, drainer, rooms, manager, streams,
                       archived, podOf, dead, budget>>

\* Redis names another pod: the origin's hop of the fence.
ValidateOwner(c) ==
    /\ conns[c].pc = "validate"
    /\ conns' = IF Validates(directory, conns[c].fence)
                THEN [conns EXCEPT ![c].pc = "room"]
                ELSE [conns EXCEPT ![c] = Exit]
    /\ UNCHANGED <<directory, leases, registry, drainer, rooms, manager, streams,
                   archived, podOf, dead, budget>>

-----------------------------------------------------------------------------
(* Admission *)

GetRoom(c) ==
    LET i == RoomAt(podOf[c])
    IN  /\ conns[c].pc = "room"
        /\ manager' = [manager EXCEPT ![podOf[c]] = i]
        /\ conns' = [conns EXCEPT ![c].room = i, ![c].pc = "check"]
        /\ UNCHANGED <<directory, leases, registry, drainer, rooms, streams, archived, podOf,
                       dead, budget>>

\* The re-check of the channel row once the room is held.
CheckChannel(c) ==
    /\ conns[c].pc = "check"
    /\ IF archived THEN CleanUp(podOf[c]) /\ Finish(c)
       ELSE Step(c, IF Remote(c) THEN "dial" ELSE "admit") /\ UNCHANGED manager
    /\ UNCHANGED <<directory, leases, registry, drainer, streams, archived, podOf, dead, budget>>
    /\ Dropping(rooms)

\* The re-check fails closed.
CheckChannelFails(c) ==
    /\ conns[c].pc = "check"
    /\ CleanUp(podOf[c])
    /\ Finish(c)
    /\ Error
    /\ UNCHANGED <<directory, leases, registry, drainer, streams, archived, podOf, dead>>
    /\ Dropping(rooms)

\* A protocol version the relay does not speak, or one other than the room's,
\* or a room that is full or ended: the handler returns as it is, with a lease
\* it may hold left to its TTL.
Refused(c) ==
    /\ conns[c].pc \in {"admit", "dial"}
    /\ Finish(c)
    /\ UNCHANGED <<directory, leases, registry, drainer, manager, streams, archived, podOf,
                   dead, budget>>
    /\ Dropping(rooms)

\* add_peer on the owner's pod.
Admit(c) ==
    LET i == conns[c].room
    IN  /\ conns[c].pc = "admit"
        /\ CanAdd(rooms[i])
        /\ rooms' = [rooms EXCEPT ![i] = AddPeer(@, c)]
        /\ Step(c, IF conns[c].acquired THEN "attach" ELSE "reuse")
        /\ UNCHANGED <<directory, leases, registry, drainer, manager, streams, archived, podOf,
                       dead, budget>>

\* The steady-state owner peer takes the tokens of whatever entry there is.
ReuseSignals(c) ==
    /\ conns[c].pc = "reuse"
    /\ conns' = [conns EXCEPT ![c].watch = registry[podOf[c]], ![c].pc = "active"]
    /\ UNCHANGED <<directory, leases, registry, drainer, rooms, manager, streams,
                   archived, podOf, dead, budget>>

-----------------------------------------------------------------------------
(* HuddleOwnerRegistry *)

Entry(c) == registry[podOf[c]]
Own(c) == conns[c].fence.generation

\* attach_signals up to the insert: a draining pod and a pod with an entry
\* release the new lease through a throwaway renewer.
AttachCheck(c) ==
    /\ conns[c].pc = "attach"
    /\ IF IsDraining(podOf[c])
       THEN /\ leases' = [leases EXCEPT ![Own(c)].renewer = "releasing",
                                        ![Own(c)].draining = TRUE]
            /\ conns' = [conns EXCEPT ![c].watch = Own(c), ![c].pc = "active"]
       ELSE IF Entry(c) # 0
       THEN /\ leases' = [leases EXCEPT ![Own(c)].renewer = "releasing"]
            /\ conns' = [conns EXCEPT ![c].watch = Entry(c), ![c].pc = "active"]
       ELSE Step(c, "insert") /\ UNCHANGED leases
    /\ UNCHANGED <<directory, registry, drainer, rooms, manager, streams, archived, podOf,
                   dead, budget>>

\* attach_signals: the renewer starts and the entry is published.
AttachInsert(c) ==
    /\ conns[c].pc = "insert"
    /\ leases' = [leases EXCEPT ![Own(c)].renewer = "running"]
    /\ registry' = [registry EXCEPT ![podOf[c]] = Own(c)]
    /\ conns' = [conns EXCEPT ![c].watch = Own(c), ![c].pc = "recheck"]
    /\ UNCHANGED <<directory, drainer, rooms, manager, streams, archived, podOf, dead, budget>>

\* Mutation of AttachRecheck: the race with drain_all is left open.
AttachUnchecked(c) ==
    /\ conns[c].pc = "recheck"
    /\ Step(c, "active")
    /\ UNCHANGED <<directory, leases, registry, drainer, rooms, manager, streams,
                   archived, podOf, dead, budget>>

\* attach_signals after the insert: a drain that began meanwhile retracts
\* exactly this epoch.
AttachRecheck(c) ==
    /\ conns[c].pc = "recheck"
    /\ IF IsDraining(podOf[c])
       THEN /\ registry' = [registry EXCEPT ![podOf[c]] = IF @ = Own(c) THEN 0 ELSE @]
            /\ leases' = [leases EXCEPT ![Own(c)].draining = TRUE,
                                        ![Own(c)].cancel = TRUE]
       ELSE UNCHANGED <<registry, leases>>
    /\ Step(c, "active")
    /\ UNCHANGED <<directory, drainer, rooms, manager, streams, archived, podOf, dead, budget>>

\* drain_all: the flag first, then a snapshot of the entries, then each entry
\* fenced on the generation of the snapshot.
DrainStart(p) ==
    /\ p \in budget.shutdowns \ dead
    /\ drainer[p].pc = "idle"
    /\ drainer' = [drainer EXCEPT ![p].pc = "collect"]
    /\ UNCHANGED <<directory, leases, registry, rooms, manager, conns, streams, archived, podOf,
                   dead, budget>>

DrainCollect(p) ==
    /\ drainer[p].pc = "collect"
    /\ drainer' = [drainer EXCEPT ![p] = [pc |-> "drain", entry |-> registry[p]]]
    /\ UNCHANGED <<directory, leases, registry, rooms, manager, conns, streams, archived, podOf,
                   dead, budget>>

DrainRoom(p) ==
    LET g == drainer[p].entry
    IN  /\ drainer[p].pc = "drain"
        /\ drainer' = [drainer EXCEPT ![p].pc = "done"]
        /\ IF g # 0 /\ registry[p] = g
           THEN /\ registry' = [registry EXCEPT ![p] = 0]
                /\ leases' = [leases EXCEPT ![g].draining = TRUE, ![g].cancel = TRUE]
           ELSE UNCHANGED <<registry, leases>>
        /\ UNCHANGED <<directory, rooms, manager, conns, streams, archived, podOf, dead, budget>>

-----------------------------------------------------------------------------
(* spawn_huddle_renewer_with_interval, for the lease of generation g *)

\* A renewal that succeeds only moves the TTL and is not a step.
RenewFindsLoss(g) ==
    /\ leases[g].renewer = "running"
    /\ ~Holds(directory, Fence(g))
    /\ leases' = [leases EXCEPT ![g].renewer = "releasing", ![g].lost = TRUE]
    /\ UNCHANGED <<directory, registry, drainer, rooms, manager, conns, streams,
                   archived, podOf, dead, budget>>

\* Mutation of RenewFails: a failed renewal ends the loop without the signal.
RenewFailsSilently(g) ==
    /\ leases[g].renewer = "running"
    /\ leases' = [leases EXCEPT ![g].renewer = "releasing"]
    /\ Error
    /\ UNCHANGED <<directory, registry, drainer, rooms, manager, conns, streams,
                   archived, podOf, dead>>

\* A renewal error is owner-loss too.
RenewFails(g) ==
    /\ leases[g].renewer = "running"
    /\ leases' = [leases EXCEPT ![g].renewer = "releasing", ![g].lost = TRUE]
    /\ Error
    /\ UNCHANGED <<directory, registry, drainer, rooms, manager, conns, streams,
                   archived, podOf, dead>>

\* The caller's cancel ends the loop silently.
RenewerCancelled(g) ==
    /\ leases[g].renewer = "running"
    /\ leases[g].cancel
    /\ leases' = [leases EXCEPT ![g].renewer = "releasing"]
    /\ UNCHANGED <<directory, registry, drainer, rooms, manager, conns, streams,
                   archived, podOf, dead, budget>>

\* The release after the loop; NotOwner is owner-loss.
ReleaseLease(g) ==
    /\ leases[g].renewer = "releasing"
    /\ directory' = Released(directory, Fence(g))
    /\ leases' = [leases EXCEPT ![g].renewer = "ended",
                                ![g].lost = @ \/ ~Holds(directory, Fence(g))]
    /\ UNCHANGED <<registry, drainer, rooms, manager, conns, streams, archived, podOf, dead,
                   budget>>

\* The release fails: the lease is left to its TTL.
ReleaseFails(g) ==
    /\ leases[g].renewer = "releasing"
    /\ leases' = [leases EXCEPT ![g].renewer = "ended"]
    /\ Error
    /\ UNCHANGED <<directory, registry, drainer, rooms, manager, conns, streams,
                   archived, podOf, dead>>

-----------------------------------------------------------------------------
(* The control stream of a client whose huddle another pod owns *)

Owner(c) == streams[c].fence.owner

\* dial_remote_owner opens the stream and sends RegisterPeer.
Dial(c) ==
    /\ conns[c].pc = "dial"
    /\ streams' = [streams EXCEPT ![c] =
          [NoStream EXCEPT !.fence = conns[c].fence,
                           !.pc = IF conns[c].fence.owner \in dead THEN "closed"
                                  ELSE "hello"]]
    /\ Step(c, "registering")
    /\ UNCHANGED <<directory, leases, registry, drainer, rooms, manager, archived, podOf, dead,
                   budget>>

\* accept_inbound captures the tokens of the entry there is, if any.
AcceptInbound(c) ==
    /\ streams[c].pc = "hello"
    /\ streams' = [streams EXCEPT ![c].watch = registry[Owner(c)], ![c].pc = "register"]
    /\ UNCHANGED <<directory, leases, registry, drainer, rooms, manager, conns, archived, podOf,
                   dead, budget>>

\* RegisterPeer: a draining owner says goodbye, any other takes the room first.
RegisterPeer(c) ==
    LET i == RoomAt(Owner(c))
    IN  /\ streams[c].pc = "register"
        /\ IF IsDraining(Owner(c))
           THEN streams' = [streams EXCEPT ![c].pc = "closed"] /\ UNCHANGED manager
           ELSE /\ streams' = [streams EXCEPT ![c].room = i, ![c].pc = "validating"]
                /\ manager' = [manager EXCEPT ![Owner(c)] = i]
        /\ UNCHANGED <<directory, leases, registry, drainer, rooms, conns, archived, podOf, dead,
                       budget>>

Close(c) == [streams[c] EXCEPT !.pc = "closed", !.room = 0]

\* The owner's hop of the fence, before the room is changed.
ValidateRegister(c) ==
    /\ streams[c].pc = "validating"
    /\ streams' = IF Validates(directory, streams[c].fence)
                  THEN [streams EXCEPT ![c].pc = "admitting"]
                  ELSE [streams EXCEPT ![c] = Close(c)]
    /\ UNCHANGED <<directory, leases, registry, drainer, manager, conns, archived, podOf, dead,
                   budget>>
    /\ Dropping(rooms)

\* register_remote_peer admits the client and answers with its index.
AdmitRemote(c) ==
    LET i == streams[c].room
    IN  /\ streams[c].pc = "admitting"
        /\ CanAdd(rooms[i])
        /\ streams' = [streams EXCEPT ![c].pc = "serving",
                                      ![c].index = AllocIndex(rooms[i])]
        /\ rooms' = [rooms EXCEPT ![i] = AddPeer(@, c)]
        /\ UNCHANGED <<directory, leases, registry, drainer, manager, conns, archived, podOf,
                       dead, budget>>

\* register_remote_peer answers with an admission error.
RefuseRemote(c) ==
    /\ streams[c].pc = "admitting"
    /\ ~CanAdd(rooms[streams[c].room]) \/ rooms[streams[c].room].pinned
    /\ streams' = [streams EXCEPT ![c] = Close(c)]
    /\ UNCHANGED <<directory, leases, registry, drainer, manager, conns, archived, podOf, dead,
                   budget>>
    /\ Dropping(rooms)

\* The end of serve_control_loop: the peer leaves the room the manager holds
\* now, with no end check and no clean-up.
StopServing(c) ==
    /\ streams' = [streams EXCEPT ![c] = Close(c)]
    /\ UNCHANGED <<directory, leases, registry, drainer, manager, conns, archived, podOf, dead>>
    /\ Dropping([i \in RoomIds |-> IF i = manager[Owner(c)] THEN RemovePeer(rooms[i], c)
                                   ELSE rooms[i]])

\* Goodbye(Draining) or Goodbye(StaleGeneration).
OwnerSaysGoodbye(c) ==
    /\ streams[c].pc = "serving"
    /\ Fired(streams[c].watch)
    /\ StopServing(c)
    /\ UNCHANGED budget

\* UnregisterPeer and Goodbye(SessionEnded) of the client's pod.
Unregister(c) ==
    /\ streams[c].pc = "serving"
    /\ streams[c].bye
    /\ StopServing(c)
    /\ UNCHANGED budget

StreamBreaks(c) ==
    /\ streams[c].pc = "serving"
    /\ StopServing(c)
    /\ Error

Bye(c) == streams' = [streams EXCEPT ![c].bye = TRUE]

\* PeerRegistered arrives: add_peer_at_index on the client's own pod.
AdmitMirror(c) ==
    LET i == conns[c].room
        index == streams[c].index
    IN  /\ conns[c].pc = "registering"
        /\ index # NoIndex
        /\ CanAddAt(rooms[i], index)
        /\ rooms' = [rooms EXCEPT ![i] = AddPeerAt(@, c, index)]
        /\ Step(c, "active")
        /\ UNCHANGED <<directory, leases, registry, drainer, manager, streams, archived, podOf,
                       dead, budget>>

\* The mirror refuses the client: a clean close and nothing else.
RefuseMirror(c) ==
    /\ conns[c].pc = "registering"
    /\ streams[c].index # NoIndex
    /\ \/ ~CanAddAt(rooms[conns[c].room], streams[c].index)
       \/ rooms[conns[c].room].pinned
    /\ Bye(c)
    /\ Finish(c)
    /\ UNCHANGED <<directory, leases, registry, drainer, manager, archived, podOf, dead, budget>>
    /\ Dropping(rooms)

\* The owner rejected the client or closed the stream before its reply.
DialRejected(c) ==
    /\ conns[c].pc = "registering"
    /\ streams[c].pc = "closed" /\ streams[c].index = NoIndex
    /\ CleanUp(podOf[c])
    /\ Finish(c)
    /\ UNCHANGED <<directory, leases, registry, drainer, streams, archived, podOf, dead, budget>>
    /\ Dropping(rooms)

\* The stream fails under the dial while the owner goes on serving it.
DialFails(c) ==
    /\ conns[c].pc = "registering"
    /\ Bye(c)
    /\ CleanUp(podOf[c])
    /\ Finish(c)
    /\ Error
    /\ UNCHANGED <<directory, leases, registry, drainer, archived, podOf, dead>>
    /\ Dropping(rooms)

-----------------------------------------------------------------------------
(* Teardown of a client *)

ClientLeaves(c) ==
    /\ conns[c].pc = "active"
    /\ IF Remote(c) THEN Bye(c) ELSE UNCHANGED streams
    /\ Step(c, "leaving")
    /\ UNCHANGED <<directory, leases, registry, drainer, rooms, manager, archived, podOf, dead,
                   budget>>

\* owner_teardown_task: a fired token closes the local client for a rejoin.
OwnerTeardown(c) ==
    /\ conns[c].pc = "active"
    /\ Fired(conns[c].watch)
    /\ Step(c, "leaving")
    /\ UNCHANGED <<directory, leases, registry, drainer, rooms, manager, streams,
                   archived, podOf, dead, budget>>

\* teardown_remote_huddle: the owner's goodbye, or a closed stream.
RemoteTeardown(c) ==
    /\ conns[c].pc = "active"
    /\ Remote(c) /\ streams[c].pc = "closed"
    /\ Step(c, "leaving")
    /\ UNCHANGED <<directory, leases, registry, drainer, rooms, manager, streams,
                   archived, podOf, dead, budget>>

\* remove_peer_and_check_ended for a peer of the owner, remove_peer for a
\* mirror.
LeaveRoom(c) ==
    LET i == conns[c].room
        ends == ~Remote(c) /\ EndsWith(rooms[i], c)
    IN  /\ conns[c].pc = "leaving"
        /\ rooms' = [rooms EXCEPT ![i] = IF Remote(c) THEN RemovePeer(@, c)
                                         ELSE RemovePeerAndCheck(@, c)]
        /\ Step(c, IF ends THEN "archive" ELSE "cleanup")
        /\ UNCHANGED <<directory, leases, registry, drainer, manager, streams, archived, podOf,
                       dead, budget>>

\* archive_channel for the client that ended the room.
Archive(c) ==
    /\ conns[c].pc = "archive"
    /\ archived' = TRUE
    /\ Step(c, "cleanup")
    /\ UNCHANGED <<directory, leases, registry, drainer, rooms, manager, streams, podOf, dead,
                   budget>>

\* archive_channel fails: the room lives on and its lease is kept.
ArchiveFails(c) ==
    /\ conns[c].pc = "archive"
    /\ Finish(c)
    /\ Error
    /\ UNCHANGED <<directory, leases, registry, drainer, manager, streams, archived, podOf, dead>>
    /\ Dropping([rooms EXCEPT ![conns[c].room] = ClearEnded(@)])

\* cleanup_if_empty: whoever removes the room of an owner goes on to release.
CleanUpRoom(c) ==
    LET p == podOf[c]
    IN  /\ conns[c].pc = "cleanup"
        /\ CleanUp(p)
        /\ conns' = IF Empties(p) /\ ~Remote(c)
                    THEN [conns EXCEPT ![c].pc = "release", ![c].room = 0]
                    ELSE [conns EXCEPT ![c] = Exit]
        /\ UNCHANGED <<directory, leases, registry, drainer, streams, archived, podOf, dead,
                       budget>>
        /\ Dropping(rooms)

\* HuddleOwnerRegistry::release, fenced on the client's generation.
ReleaseOwner(c) ==
    /\ conns[c].pc = "release"
    /\ Finish(c)
    /\ IF Entry(c) = Own(c)
       THEN /\ registry' = [registry EXCEPT ![podOf[c]] = 0]
            /\ leases' = [leases EXCEPT ![Own(c)].cancel = TRUE]
       ELSE UNCHANGED <<registry, leases>>
    /\ UNCHANGED <<directory, drainer, rooms, manager, streams, archived, podOf, dead, budget>>

-----------------------------------------------------------------------------
(* Faults *)

\* The TTL of the live lease runs out: no renewal reached Redis in time.
LeaseExpires ==
    /\ HasLease(directory)
    /\ budget.expiries > 0
    /\ directory' = Expired(directory)
    /\ budget' = [budget EXCEPT !.expiries = @ - 1]
    /\ UNCHANGED <<leases, registry, drainer, rooms, manager, conns, streams, archived, podOf,
                   dead>>

\* A pod dies with its clients, renewers, rooms and streams.
PodDies(p) ==
    /\ p \in budget.crashes \ dead
    /\ dead' = dead \cup {p}
    /\ registry' = [registry EXCEPT ![p] = 0]
    /\ manager' = [manager EXCEPT ![p] = 0]
    /\ drainer' = [drainer EXCEPT ![p] = [pc |-> "done", entry |-> 0]]
    /\ leases' = [g \in DOMAIN leases |-> IF leases[g].pod = p
                                          THEN [leases[g] EXCEPT !.renewer = "ended"]
                                          ELSE leases[g]]
    /\ conns' = [c \in Conns |-> IF podOf[c] = p THEN Exit ELSE conns[c]]
    /\ streams' = [c \in Conns |->
          IF streams[c].pc # "none" /\ Owner(c) = p THEN Close(c)
          ELSE IF podOf[c] = p THEN [streams[c] EXCEPT !.bye = TRUE] ELSE streams[c]]
    /\ UNCHANGED <<directory, archived, podOf, budget>>
    /\ Dropping(rooms)

-----------------------------------------------------------------------------

\* What a handler, a stream and a renewer do on their own, once they can.
Handler(c) ==
    \/ Lookup(c) \/ AcquireLease(c) \/ OwnerReady(c) \/ ValidateOwner(c)
    \/ GetRoom(c) \/ CheckChannel(c) \/ Admit(c) \/ Refused(c) \/ ReuseSignals(c)
    \/ AttachCheck(c) \/ AttachInsert(c) \/ AttachRecheck(c)
    \/ Dial(c) \/ AdmitMirror(c) \/ RefuseMirror(c) \/ DialRejected(c)
    \/ OwnerTeardown(c) \/ RemoteTeardown(c)
    \/ LeaveRoom(c) \/ Archive(c) \/ CleanUpRoom(c) \/ ReleaseOwner(c)

ControlLoop(c) ==
    \/ AcceptInbound(c) \/ RegisterPeer(c) \/ ValidateRegister(c)
    \/ AdmitRemote(c) \/ RefuseRemote(c) \/ OwnerSaysGoodbye(c) \/ Unregister(c)

Renewer(g) == RenewFindsLoss(g) \/ RenewerCancelled(g) \/ ReleaseLease(g)

Drain(p) == DrainCollect(p) \/ DrainRoom(p)

Failure ==
    \/ \E c \in Conns : \/ AcquireUnheard(c) \/ ResolveFails(c) \/ CheckChannelFails(c)
                        \/ StreamBreaks(c) \/ DialFails(c) \/ ArchiveFails(c)
    \/ \E g \in DOMAIN leases : RenewFails(g) \/ ReleaseFails(g)
    \/ LeaseExpires
    \/ \E p \in Pods : PodDies(p)

Tasks ==
    \/ \E c \in Conns : Handler(c) \/ ControlLoop(c)
    \/ \E g \in DOMAIN leases : Renewer(g)
    \/ \E p \in Pods : Drain(p)

Next ==
    \/ Tasks
    \/ \E c \in Conns : Connect(c) \/ ClientLeaves(c)
    \/ \E p \in Pods : DrainStart(p)
    \/ Failure

Spec == Init /\ [][Next]_vars

\* Tokio keeps running a task that can go on, and a renewer's interval keeps
\* ticking.  No behaviour has infinitely many steps here, so it is enough that
\* the tasks together are weakly fair.  Clients, shutdowns and faults are not.
Fairness == WF_vars(Tasks)

FairSpec == Spec /\ Fairness

-----------------------------------------------------------------------------
(* The abstract lease *)

\* Epochs whose renewer has stopped, or never started and never will.
Quit == {g \in DOMAIN leases : leases[g].renewer \in {"releasing", "ended"}}

Abstract == INSTANCE FencedLease
            WITH Free <- NoLease, grants <- [g \in DOMAIN leases |-> leases[g].pod],
                 holder <- directory.lease, quit <- Quit, patience <- budget.expiries

\* The huddle implements FencedLease: through acquisitions, renewals that fail,
\* releases, drains and crashes, epochs are granted one at a time and in order,
\* and a pod's late release never ends an epoch other than its own.
LeaseIsFenced == Abstract!Spec

-----------------------------------------------------------------------------
(* Properties *)

\* HuddleOwnerRegistry: an entry whose renewer has stopped says so through its
\* lost token, so a client that reuses the entry is closed and never serves an
\* epoch nobody renews.
EntryNotSilent ==
    \A p \in Pods : registry[p] # 0 =>
        \/ leases[registry[p]].renewer = "running"
        \/ leases[registry[p]].lost

\* drain_all and attach_signals: once drain_all has returned, the pod has no
\* entry but one that its publisher is about to retract, whatever the order of
\* the flag, the snapshot and the insert.
DrainLeavesNothing ==
    \A p \in Pods : drainer[p].pc = "done" /\ registry[p] # 0 =>
        \E c \in Conns : podOf[c] = p /\ conns[c].pc = "recheck" /\ Own(c) = registry[p]

\* room.rs and handler.rs: a peer is one index, and the index is one peer, end to
\* end.  Across joins, leaves, mirrored indexes and changes of owner, no two
\* peers of a room share an index, the allocator offers none that is taken, and
\* a client of another pod has in its mirror the index the owner assigned.
OneIdentity ==
    /\ \A i \in RoomIds : IndexesDistinct(rooms[i])
    /\ \A c \in Conns : conns[c].pc = "active" /\ Remote(c) =>
          /\ c \in Peers(rooms[conns[c].room])
          /\ rooms[conns[c].room].peers[c] = streams[c].index

\* The pod itself gave the epoch up: a release on room-empty, or a drain.
GivenUp(g) == g \in DOMAIN leases /\ leases[g].cancel

\* The epoch is renewed by a pod that no longer holds it.
Stale(g) ==
    /\ g \in DOMAIN leases
    /\ leases[g].renewer = "running"
    /\ ~Holds(directory, Fence(g))

\* Renewer, watchers and control loops together: a lease that is lost closes
\* every client and every stream that watches its epoch, unless the pod itself
\* gave the epoch up.
LossReachesPeers ==
    \A c \in Conns :
        /\ (conns[c].pc = "active" /\ Stale(conns[c].watch))
              ~> (conns[c].pc # "active" \/ GivenUp(conns[c].watch))
        /\ (streams[c].pc = "serving" /\ Stale(streams[c].watch))
              ~> (streams[c].pc # "serving" \/ GivenUp(streams[c].watch))

=============================================================================
