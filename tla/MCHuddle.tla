------------------------------- MODULE MCHuddle -------------------------------
(***************************************************************************)
(* Instances of Huddle for TLC: two pods, with two clients of the first and *)
(* one of the second, and the faults each run allows.                       *)
(***************************************************************************)
EXTENDS Huddle

CONSTANTS a, b, c1, c2, c3

TwoAndOne == {c1 :> a @@ c2 :> a @@ c3 :> b}

Faults(clients, shutdowns, crashes, expiries, errors) ==
    [clients |-> clients, shutdowns |-> shutdowns, crashes |-> crashes,
     expiries |-> expiries, errors |-> errors]

TwoClients == {{c1, c2}, {c1, c3}}

\* Three clients with a failure or a crash, and two clients, of one pod or of
\* two, with two or three kinds of faults.
Mixed == {Faults({c1, c2, c3}, {}, {}, 0, 1), Faults({c1, c2, c3}, {}, {a}, 0, 0)}
    \cup UNION {{Faults(clients, {a}, {}, 1, 0), Faults(clients, {a}, {}, 0, 1),
                 Faults(clients, {}, {a}, 1, 1)} : clients \in TwoClients}

\* Two clients, of one pod or of two, and one kind of fault at a time.
Single == UNION {{Faults(clients, {a}, {}, 0, 0), Faults(clients, {}, {a}, 0, 0),
                  Faults(clients, {}, {}, 1, 0), Faults(clients, {}, {}, 0, 1)} :
                 clients \in TwoClients}

=============================================================================
