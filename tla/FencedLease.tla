------------------------------ MODULE FencedLease ------------------------------
(***************************************************************************)
(* What the session directory promises the huddle: ownership is granted in  *)
(* numbered epochs, one holder at a time, and an epoch ends only because    *)
(* its own holder gave it up or because its TTL ran out.  An epoch that is   *)
(* over never comes back, so whoever still acts on it is behind the fence.  *)
(***************************************************************************)
EXTENDS Integers, Sequences

CONSTANTS Pods, Free  \* Free: the holder when there is none

VARIABLES grants,   \* the pod of every epoch granted so far
          holder,   \* the epoch in force: its owner and its number, or Free
          quit,     \* epochs that nobody renews (any more)
          patience  \* TTLs that may still run out

vars == <<grants, holder, quit, patience>>

Init ==
    /\ grants = << >>
    /\ holder = Free
    /\ quit = {}
    /\ patience \in Nat

\* The next epoch, to a pod that may die before it renews it.
Grant(p) ==
    LET g == Len(grants) + 1
    IN  /\ holder = Free
        /\ grants' = Append(grants, p)
        /\ holder' = [owner |-> p, generation |-> g]
        /\ quit' \in {quit, quit \cup {g}}
        /\ UNCHANGED patience

\* Renewals of some epochs stop.
GiveUp ==
    /\ quit' \in SUBSET (1..Len(grants))
    /\ quit \subseteq quit'
    /\ UNCHANGED <<grants, holder, patience>>

\* The epoch in force is released, by its own holder only.
Release ==
    /\ holder # Free
    /\ holder.generation \in quit
    /\ holder' = Free
    /\ UNCHANGED <<grants, quit, patience>>

Expire ==
    /\ holder # Free
    /\ patience > 0
    /\ holder' = Free
    /\ patience' = patience - 1
    /\ UNCHANGED <<grants, quit>>

Next == (\E p \in Pods : Grant(p)) \/ GiveUp \/ Release \/ Expire

Spec == Init /\ [][Next]_vars

=============================================================================
