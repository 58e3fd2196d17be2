--------------------------- MODULE SessionDirectory ---------------------------
(***************************************************************************)
(* The Redis-backed owner directory of one mesh session                    *)
(* (crates/buzz-relay/src/tunnel/directory.rs): a lease key that expires    *)
(* and a generation key that never does.  Every operation is one Lua        *)
(* script, so it is atomic in Redis; the operators below are the scripts.   *)
(*                                                                         *)
(* The TTL of the lease is the Expire operator, PEXPIRE on renewal is not   *)
(* visible.  A lease is the owner|generation value the scripts compare; the *)
(* profile is fixed by the caller and is left out.                          *)
(***************************************************************************)
EXTENDS Integers

CONSTANT Pods  \* the relay processes, by RuntimeId

Generation == Nat \ {0}
Lease == [owner : Pods, generation : Generation]

\* The lease key does not exist.
NoLease == [owner |-> "none", generation |-> 0]

Directory == [lease : Lease \cup {NoLease}, generation : Nat]
FreshDirectory == [lease |-> NoLease, generation |-> 0]

HasLease(d) == d.lease # NoLease

\* ACQUIRE_SCRIPT: a live lease is returned as it is, and otherwise the
\* generation is incremented and written into a new lease in the same script.
Acquired(d, p) ==
    IF HasLease(d) THEN d
    ELSE LET g == d.generation + 1
         IN  [lease |-> [owner |-> p, generation |-> g], generation |-> g]

\* RENEW_SCRIPT answers "renewed", RELEASE_SCRIPT "released".
Holds(d, l) == d.lease = l

\* Mutation of Released: the owner is compared and the generation is not.
ReleasedByOwner(d, l) ==
    IF d.lease.owner = l.owner THEN [d EXCEPT !.lease = NoLease] ELSE d

\* RELEASE_SCRIPT deletes the key only for the exact owner and generation.
Released(d, l) == IF Holds(d, l) THEN [d EXCEPT !.lease = NoLease] ELSE d

\* The TTL runs out.
Expired(d) == [d EXCEPT !.lease = NoLease]

\* validate_fenced_header: stale against the counter, no lease, another
\* generation and another owner are the four ways to fail.
Validates(d, f) ==
    /\ f.generation >= d.generation
    /\ HasLease(d)
    /\ f.generation = d.lease.generation
    /\ f.owner = d.lease.owner

=============================================================================
