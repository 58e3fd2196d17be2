------------------------------- MODULE AudioRoom -------------------------------
(***************************************************************************)
(* One Room of crates/buzz-relay/src/audio/room.rs: its peers with their    *)
(* indexes and the AdmissionGuard that allocates them.  Every method takes  *)
(* the guard's mutex for its whole body, so a method is an operator on the  *)
(* room.                                                                   *)
(*                                                                         *)
(* A peer is named by the connection it stands for.  The pinned protocol    *)
(* version is abstracted to whether there is one: a joiner of another       *)
(* version is then refused.  Frames and roster deltas are left out.         *)
(***************************************************************************)
EXTENDS Integers, FiniteSets, Sequences, SequencesExt

CONSTANTS Conns,         \* client connections
          MaxRoomPeers,  \* MAX_PEERS_PER_ROOM
          IndexSpace     \* the u8 next_fresh may not reach: 255

ASSUME RoomConstants == {MaxRoomPeers, IndexSpace} \subseteq Nat

NoIndex == -1

\* peers gives the index of every connection that is in the room.
Room == [peers : [Conns -> Nat \cup {NoIndex}], free : Seq(Nat),
         next_fresh : Nat, ended : BOOLEAN, pinned : BOOLEAN]

FreshRoom == [peers |-> [c \in Conns |-> NoIndex], free |-> << >>, next_fresh |-> 0,
              ended |-> FALSE, pinned |-> FALSE]

Peers(r) == {c \in Conns : r.peers[c] # NoIndex}
IsEmpty(r) == Peers(r) = {}
Indexes(r) == {r.peers[c] : c \in Peers(r)}

\* AdmissionGuard::alloc answers None.
Exhausted(r) == r.free = << >> /\ r.next_fresh = IndexSpace

\* AdmissionGuard::alloc: the most recently freed index, or a fresh one.
AllocIndex(r) == IF r.free # << >> THEN Last(r.free) ELSE r.next_fresh

\* add_peer can succeed; the version check is the caller's choice when pinned.
CanAdd(r) ==
    /\ ~r.ended
    /\ Cardinality(Peers(r)) < MaxRoomPeers
    /\ ~Exhausted(r)

\* add_peer, admitted.
AddPeer(r, c) ==
    [r EXCEPT !.peers[c] = AllocIndex(r),
              !.free = IF @ # << >> THEN Front(@) ELSE @,
              !.next_fresh = IF r.free # << >> THEN @ ELSE @ + 1,
              !.pinned = TRUE]

\* add_peer_at_index can succeed.
CanAddAt(r, i) ==
    /\ ~r.ended
    /\ Cardinality(Peers(r)) < MaxRoomPeers
    /\ i \notin Indexes(r)

\* Mutation of AddPeerAt: the ingress pod allocates an index of its own.
AddPeerAnywhere(r, c, i) == AddPeer(r, c)

\* free.retain of every other index: the list holds no index twice
\* (IndexesDistinct), so at most one position goes.
Retain(free, i) ==
    IF \E k \in DOMAIN free : free[k] = i
    THEN RemoveAt(free, CHOOSE k \in DOMAIN free : free[k] = i) ELSE free

\* add_peer_at_index, admitted: the owner's index is taken out of the free
\* list and the fresh counter is moved past it.
AddPeerAt(r, c, i) ==
    [r EXCEPT !.peers[c] = i,
              !.free = Retain(@, i),
              !.next_fresh = IF i >= @ THEN i + 1 ELSE @,
              !.pinned = TRUE]

\* Mutation of RemovePeer: an unknown peer gives an index back too.
RemovePeerUnknown(r, c) ==
    [r EXCEPT !.peers[c] = NoIndex, !.free = Append(@, r.peers[c])]

\* remove_peer: unknown peers are ignored, a known one gives its index back.
RemovePeer(r, c) ==
    IF c \notin Peers(r) THEN r
    ELSE [r EXCEPT !.peers[c] = NoIndex,
                   !.free = Append(@, r.peers[c])]

\* remove_peer_and_check_ended decides to end the room.
EndsWith(r, c) == c \in Peers(r) /\ Peers(r) \ {c} = {} /\ ~r.ended

\* remove_peer_and_check_ended.
RemovePeerAndCheck(r, c) ==
    LET left == RemovePeer(r, c)
    IN  IF EndsWith(r, c) THEN [left EXCEPT !.ended = TRUE] ELSE left

\* clear_ended: the archive failed and the room goes on.
ClearEnded(r) == [r EXCEPT !.ended = FALSE]

\* No two peers of a room share an index, and the allocator offers none that
\* is in use.
IndexesDistinct(r) ==
    /\ \A c, d \in Peers(r) : r.peers[c] = r.peers[d] => c = d
    /\ \A k \in DOMAIN r.free : r.free[k] \notin Indexes(r)
    /\ \A c \in Peers(r) : r.peers[c] < r.next_fresh
    /\ \A k \in DOMAIN r.free : r.free[k] < r.next_fresh
    /\ \A j, k \in DOMAIN r.free : r.free[j] = r.free[k] => j = k

=============================================================================
