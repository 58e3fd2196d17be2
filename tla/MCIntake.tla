------------------------------- MODULE MCIntake -------------------------------
(***************************************************************************)
(* Instances of Intake for TLC: the configuration and the faults of a run.  *)
(***************************************************************************)
EXTENDS Intake

CONSTANT c1

Bounds(joined, messages, changes, losses, refusals, overflows, seconds) ==
    [joined |-> joined, lazy |-> FALSE, ties |-> FALSE, messages |-> messages,
     changes |-> changes, archives |-> 0, losses |-> losses, refusals |-> refusals,
     overflows |-> overflows, seconds |-> seconds, wakes |-> 0, turns |-> 0, stops |-> 0]

Lazy(messages, changes, wakes, turns, stops) ==
    [Bounds({c1}, messages, changes, 0, 0, 0, changes) EXCEPT
        !.lazy = TRUE, !.wakes = wakes, !.turns = turns, !.stops = stops]

Mixed ==
    {Bounds({c1}, 3, 0, 0, 0, 2, 2),  \* messages, a full queue
     Bounds({c1}, 3, 0, 0, 1, 1, 2),  \* and a refused REQ
     Bounds({c1}, 2, 0, 1, 1, 1, 2),  \* messages across a lost socket
     Bounds({c1}, 0, 3, 1, 1, 0, 3),  \* memberships across a lost socket
     Bounds({c1}, 0, 2, 2, 0, 1, 2),
     Bounds({c1}, 2, 2, 0, 1, 0, 2),  \* messages of a channel left and joined
     Bounds({}, 2, 1, 0, 1, 0, 1),
     Bounds({c1}, 2, 2, 0, 0, 1, 1),   \* and of one refused meanwhile
     Bounds({c1}, 1, 2, 1, 0, 0, 1),   \* or with the socket lost meanwhile
     [Bounds({c1}, 0, 0, 1, 0, 0, 1) EXCEPT !.archives = 2],
     [Bounds({c1}, 1, 1, 1, 0, 0, 1) EXCEPT !.archives = 2],
     Lazy(3, 0, 2, 1, 1), Lazy(2, 2, 1, 1, 0)}

\* Messages spread over more seconds than the skew covers.
Spread == {Bounds({c1}, 2, 0, 1, 0, 0, 2)}

\* A channel is archived and restored.
Archived == {[Bounds({c1}, 1, 0, 0, 0, 0, 1) EXCEPT !.archives = 2]}

=============================================================================
