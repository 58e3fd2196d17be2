------------------------------ MODULE RelayClient ------------------------------
(***************************************************************************)
(* BgState of the harness's relay client (crates/buzz-acp/src/relay.rs):    *)
(* what the background task remembers of every subscription across sockets, *)
(* and how it turns that into the `since` of a REQ.                         *)
(*                                                                         *)
(* A subscription is a channel or "membership", the notification inbox.     *)
(* Hash maps are functions on the keys they hold.  The Ask inbox, which is   *)
(* kept like the membership one, and observer frames are left out.           *)
(***************************************************************************)
EXTENDS Integers, Sequences, FiniteSets, SequencesExt, FiniteSetsExt

CONSTANTS Channels,
          Skew,       \* SINCE_SKEW_SECS
          SeenLimit   \* half of SEEN_ID_LIMIT: where a generation rotates

Subs == Channels \cup {"membership"}

ASSUME RelayClientConstants ==
    /\ Skew \in Nat /\ SeenLimit \in Nat \ {0}
    /\ IsFiniteSet(Channels) /\ "membership" \notin Channels

-----------------------------------------------------------------------------
(* Maps *)

Put(m, k, v) == [x \in DOMAIN m \cup {k} |-> IF x = k THEN v ELSE m[x]]
Without(m, k) == [x \in DOMAIN m \ {k} |-> m[x]]
At(m, k) == IF k \in DOMAIN m THEN {m[k]} ELSE {}
Raise(m, k, v) == Put(m, k, Max(At(m, k) \cup {v}))
Lower(m, k, v) == Put(m, k, Min(At(m, k) \cup {v}))

-----------------------------------------------------------------------------
(* TwoGenDedup *)

Unseen == [current |-> {}, previous |-> {}]
Knows(d, i) == i \in d.current \cup d.previous

\* Mutation of Remember: the rotation clears what was collected.
RememberAmnesiac(d, i) ==
    LET c == d.current \cup {i}
    IN  IF Cardinality(c) >= SeenLimit THEN Unseen ELSE [d EXCEPT !.current = c]

Remember(d, i) ==
    LET c == d.current \cup {i}
    IN  IF Cardinality(c) >= SeenLimit THEN [current |-> {}, previous |-> c]
                                       ELSE [d EXCEPT !.current = c]

Forget(d, i) == [current |-> d.current \ {i}, previous |-> d.previous \ {i}]

-----------------------------------------------------------------------------
(* BgState *)

\* active is active_subscriptions; dropped is channel_dropped_since and
\* membership_dropped_since; floor is subscribe_since; parked is
\* rate_limited_pending, resubscribe_retry and membership_resub_needed; gated
\* is an armed rate_limit_gate.
Fresh(chs) ==
    [active |-> chs, lastSeen |-> [s \in {"membership"} |-> 0], dropped |-> <<>>,
     floor |-> [c \in chs |-> 0], seen |-> Unseen, parked |-> {},
     gated |-> FALSE, proactive |-> FALSE]

\* Mutation of Since: the oldest dropped event does not count.
SinceLastSeen(b, s) == IF s \in DOMAIN b.lastSeen THEN b.lastSeen[s] ELSE b.floor[s]

\* channel_since, and its copies for the membership subscription.
Since(b, s) ==
    LET marks == At(b.lastSeen, s) \cup At(b.dropped, s)
    IN  IF marks # {} THEN Min(marks) ELSE b.floor[s]

\* send_subscribe and send_membership_subscribe: the REQ they write.
Req(s, since) ==
    [sub |-> s, close |-> FALSE, since |-> IF since > Skew THEN since - Skew ELSE 0]

CloseFrame(c) == [sub |-> c, close |-> TRUE, since |-> 0]

\* A replaying REQ was written: the drop tracker is reset.
Replaying(b, s) == [b EXCEPT !.dropped = Without(@, s)]

Unparked(b, s) == [b EXCEPT !.parked = @ \ {s}]

\* clear_channel_state, with the subscription.
Cleared(b, c) ==
    [b EXCEPT !.active = @ \ {c}, !.lastSeen = Without(@, c), !.dropped = Without(@, c),
              !.floor = Without(@, c), !.parked = @ \ {c}]

\* An event the main loop's queue takes.
Forwarded(b, s, i, at) ==
    [b EXCEPT !.seen = Remember(@, i), !.lastSeen = Raise(@, s, at)]

\* Mutation of Refused: the event stays in seen_ids.
RefusedButSeen(b, s, i, at) ==
    [b EXCEPT !.seen = Remember(@, i),
              !.lastSeen = IF s \in Channels THEN Raise(@, s, at) ELSE @,
              !.dropped = Lower(@, s, at), !.proactive = TRUE]

\* An event the full queue refuses.  record_event has raised last_seen of a
\* channel; that of the membership inbox is raised by a successful send only.
Refused(b, s, i, at) ==
    [b EXCEPT !.seen = Forget(Remember(@, i), i),
              !.lastSeen = IF s \in Channels THEN Raise(@, s, at) ELSE @,
              !.dropped = Lower(@, s, at), !.proactive = TRUE]

\* CLOSED rate-limited
Limited(b, s) == [b EXCEPT !.gated = TRUE, !.parked = @ \cup {s}]

\* apply_command_to_state of a Subscribe
Intended(b, c, since) ==
    [b EXCEPT !.active = @ \cup {c},
              !.floor = IF c \in DOMAIN @ THEN @ ELSE Put(@, c, since)]

\* `since` of a Subscribe executed on a live socket.
FirstSince(b, c) == IF c \in DOMAIN b.lastSeen THEN b.lastSeen[c] ELSE b.floor[c]

=============================================================================
