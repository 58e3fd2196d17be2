------------------------------- MODULE MCGateway -------------------------------
(***************************************************************************)
(* Instances of Gateway for TLC: two or three calls, what the provider      *)
(* answers and the faults of each run.                                      *)
(***************************************************************************)
EXTENDS Gateway

CONSTANTS m1, m2, m3, pay

Answer(ok, id, basis, bill, exportId) ==
    [ok |-> ok, id |-> id, basis |-> basis, bill |-> bill, exportId |-> exportId]

Faults(made, live, responses, start, errors, cancels, stops, resolves, hours, payments) ==
    [calls |-> made, live |-> live, responses |-> responses, start |-> start,
     errors |-> errors, cancels |-> cancels, stops |-> stops, resolves |-> resolves,
     hours |-> hours, payments |-> payments]

Rejected == Answer(FALSE, FALSE, "none", 0, FALSE)

\* The export names a request id exactly when the response did, and at the cost
\* the response stated.
Agreeing == {Answer(TRUE, TRUE, "observed", 2, TRUE), Answer(TRUE, TRUE, "none", 2, TRUE),
             Answer(TRUE, FALSE, "estimated", 2, FALSE)}

\* No request id, or none that the settlement debits under.
Nameless == {Answer(TRUE, FALSE, "observed", 2, FALSE), Answer(TRUE, TRUE, "none", 2, TRUE)}

\* The relay is stopped while the operator resolves, or runs on.
Mixed ==
    {Faults({m1, m2}, FALSE, Agreeing, 4, 3, 0, 1, 2, 0, 0),
     Faults({m1, m2}, FALSE, Agreeing, 4, 1, 1, 1, 1, 1, 0),
     Faults({m1, m2}, FALSE, {Rejected} \cup Agreeing, 2, 1, 1, 1, 0, 0, 2),
     Faults({m1, m2}, TRUE, Nameless, 4, 2, 0, 1, 2, 0, 0),
     Faults({m1, m2}, TRUE, Nameless, 2, 1, 0, 0, 1, 0, 0),
     Faults({m1, m2, m3}, FALSE, {Rejected, Answer(TRUE, TRUE, "observed", 2, TRUE)},
            6, 0, 1, 0, 0, 1, 0)}

\* The response states tokens and no cost, and the export the exact bill.
Estimated == {Faults({m1, m2}, FALSE, {Answer(TRUE, TRUE, "estimated", 2, TRUE)},
                     4, 0, 0, 1, 1, 0, 0)}

=============================================================================
