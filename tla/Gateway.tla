-------------------------------- MODULE Gateway --------------------------------
(***************************************************************************)
(* The relay's model gateway (crates/buzz-relay/src/gateway) for one         *)
(* account: admission through the account's gate, the upstream call, the     *)
(* settlement under the same gate, the permit and its release, the relay's   *)
(* crash, shutdown and restart, and the operator's export resolver           *)
(* (buzz-admin credits resolve-gateway), which is another process.           *)
(*                                                                         *)
(* One action is what a task does between two awaits.  A database write can  *)
(* be acknowledged, lost on its way back, or not happen at all.  The provider *)
(* is external: it serves a request or not, and exports what it served.      *)
(***************************************************************************)
EXTENDS Credits

CONSTANTS MaxInFlight,  \* max_in_flight of the account
          BurnCap,      \* hourly_burn_cap_nanousd of the account
          MaxSettles,   \* SETTLE_MAX_ATTEMPTS
          Estimate,     \* what the price book makes of a call's tokens
          Scenarios     \* bounds: the faults a behaviour may have

\* What a provider answers: whether the status is a success, whether the body
\* names the request id, on what basis the relay can price it, what the
\* provider bills, and whether its export names the request id.
Response == [ok : BOOLEAN, id : BOOLEAN, basis : {"observed", "estimated", "none"},
             bill : Nat, exportId : BOOLEAN]

Silent == [ok |-> FALSE, id |-> FALSE, basis |-> "none", bill |-> 0, exportId |-> FALSE,
           silent |-> TRUE]

\* The calls that are made; live: the operator may run the resolver while the
\* relay is up.  The rest is what is left of the bounds.
Scenario == [calls : SUBSET Calls, live : BOOLEAN, responses : SUBSET Response,
             start : Nat, errors : Nat, cancels : Nat, stops : Nat, resolves : Nat,
             hours : Nat, payments : Nat]

ASSUME GatewayConstants ==
    /\ MaxInFlight \in Nat /\ BurnCap \in Nat /\ MaxSettles \in Nat \ {0}
    /\ Estimate \in Nat
    /\ "nobody" \notin Calls
    /\ Scenarios \subseteq Scenario

VARIABLES book,      \* accounts.balance and credit_ledger
          intents,   \* gateway_settlement_intents
          provider,  \* what the provider served every call
          calls,     \* the handler, worker or release task of every call
          current,   \* the account's entry in AdmissionController.entries, or 0
          entries,   \* every AccountAdmissionEntry an Arc points to
          process,   \* the relay: up, closing or down
          resolver,  \* the export resolver
          hour,      \* ledger rows that left the burn window
          budget     \* what is left of the bounds

vars == <<book, intents, provider, calls, current, entries, process, resolver, hour, budget>>

-----------------------------------------------------------------------------
(* Types *)

EntryIds == 1..(Cardinality(Calls) + 1)

\* spend holds the ledger rows of the ring; gate is who holds the gate.
Runtime == [in_flight : Nat, spend : SUBSET Nat, gate_users : Nat,
            gate : Calls \cup {"nobody"}, touched : BOOLEAN]

NewRuntime == [in_flight |-> 0, spend |-> {}, gate_users |-> 0, gate |-> "nobody",
               touched |-> FALSE]

\* The states of a call that hold an AdmissionPermit, and those of its
\* relay-owned tasks, which a client's disconnect does not stop.
PermitPC == {"send", "abandon", "finish", "drop", "drain", "settle", "debit", "reconcile",
             "release"}
TaskPC == {"drop", "drain", "settle", "debit", "reconcile", "release"}
GatePC == {"reserve", "check", "refuse", "settle", "debit", "reconcile", "release"}

\* settled is the ledger row the settle was acknowledged with, or 0.  abandoned
\* is history, read by the properties alone: the relay closed the call's intent
\* with no charge because its send() failed.
Call == [pc : {"idle", "gate", "reserve", "check", "refuse", "done", "gone"} \cup PermitPC,
         entry : EntryIds \cup {0}, attempt : Nat, settled : Nat, abandoned : BOOLEAN]

NewCall == [pc |-> "idle", entry |-> 0, attempt |-> 0, settled |-> 0, abandoned |-> FALSE]

\* The type invariant: every variable keeps its shape through every action.
TypeOK ==
    /\ book \in Book
    /\ intents \in [Calls -> Intent]
    /\ provider \in [Calls -> Response \cup {Silent}]
    /\ calls \in [Calls -> Call]
    /\ current \in EntryIds \cup {0}
    /\ entries \in [EntryIds -> Runtime]
    /\ process \in {"up", "closing", "down"}
    /\ resolver \in [pc : {"idle", "next", "debit", "mark"}, rows : SUBSET Calls,
                     call : Calls \cup {"nobody"}, ref : Ref \cup {NoRef}]
    /\ hour \in Nat
    /\ budget \in Scenario

Idle == [pc |-> "idle", rows |-> {}, call |-> "nobody", ref |-> NoRef]

Init ==
    /\ budget \in Scenarios
    /\ book = [balance |-> budget.start, ledger |-> << >>]
    /\ intents = [c \in Calls |-> NoIntent]
    /\ provider = [c \in Calls |-> Silent]
    /\ calls = [c \in Calls |-> NewCall]
    /\ current = 0
    /\ entries = [e \in EntryIds |-> NewRuntime]
    /\ process = "up"
    /\ resolver = Idle
    /\ hour = 0

-----------------------------------------------------------------------------
(* Database writes and cached spend *)

\* A write is done, lost after it committed, or failed.
Outcomes == IF budget.errors > 0 THEN {"done", "lost", "failed"} ELSE {"done"}

Paying(o) == budget' = [budget EXCEPT !.errors = IF o = "done" THEN @ ELSE @ - 1]

Written(o, old, new) == IF o = "failed" THEN old ELSE new

Update(o, c, row) == intents' = [intents EXCEPT ![c] = Written(o, @, row)]

Billed(c) == provider[c].ok

Cost(i) == -book.ledger[i].delta

Recent == {i \in DOMAIN book.ledger : i > hour /\ Cost(i) > 0}

\* AccountRuntime::prune
Pruned(r) == [r EXCEPT !.spend = {i \in @ : i > hour}]

Spend(r) == MapThenSumSet(Cost, r.spend)

-----------------------------------------------------------------------------
(* AdmissionController::admit *)

\* Mutation of Evictable: the registered users of the gate are not looked at.
EvictableInUse(r) == r.in_flight = 0 /\ Pruned(r).spend = {} /\ r.touched

\* prune_idle_entries, for an entry that was last touched an hour ago.
Evictable(r) ==
    /\ r.gate_users = 0 /\ r.in_flight = 0
    /\ Pruned(r).spend = {}
    /\ r.touched

InUse(e) == e = current \/ \E c \in Calls : calls[c].entry = e

FreshEntry == CHOOSE e \in EntryIds : ~InUse(e) /\ \A f \in 1..(e - 1) : InUse(f)

\* entry_for_admission of an account whose entry stays in the map.
Register(c) ==
    /\ calls[c].pc = "idle" /\ c \in budget.calls
    /\ process = "up"
    /\ current # 0
    /\ entries' = [entries EXCEPT ![current] =
                      [Pruned(entries[current]) EXCEPT !.gate_users = @ + 1]]
    /\ calls' = [calls EXCEPT ![c].pc = "gate", ![c].entry = current]
    /\ UNCHANGED <<book, intents, provider, current, process, resolver, hour, budget>>

\* entry_for_admission that finds no entry, or has just pruned it.
RegisterFresh(c) ==
    /\ calls[c].pc = "idle" /\ c \in budget.calls
    /\ process = "up"
    /\ current # 0 => Evictable(entries[current])
    /\ current' = FreshEntry
    /\ entries' = [entries EXCEPT ![FreshEntry] = [NewRuntime EXCEPT !.gate_users = 1]]
    /\ calls' = [calls EXCEPT ![c].pc = "gate", ![c].entry = FreshEntry]
    /\ UNCHANGED <<book, intents, provider, process, resolver, hour, budget>>

\* Admission is closed, or the map is full of other accounts.
Refused(c) ==
    /\ calls[c].pc = "idle" /\ c \in budget.calls
    /\ process = "closing" \/ (process = "up" /\ current = 0)
    /\ calls' = [calls EXCEPT ![c].pc = "done"]
    /\ UNCHANGED <<book, intents, provider, current, entries, process, resolver, hour, budget>>

Gate(c) == entries[calls[c].entry].gate

Locked(r, c) == [r EXCEPT !.gate = c]

\* Mutation of Unlocked: the registration is counted down twice.
UnlockedTwice(r) == [r EXCEPT !.gate = "nobody", !.gate_users = @ - 2]

\* The end of with_registered_gate.
Unlocked(r) == [r EXCEPT !.gate = "nobody", !.gate_users = @ - 1]

LockGate(c) ==
    /\ calls[c].pc = "gate"
    /\ Gate(c) = "nobody"
    /\ entries' = [entries EXCEPT ![calls[c].entry] = Locked(@, c)]
    /\ calls' = [calls EXCEPT ![c].pc = "reserve"]
    /\ UNCHANGED <<book, intents, provider, current, process, resolver, hour, budget>>

Leave(c, r) ==
    /\ entries' = [entries EXCEPT ![calls[c].entry] = r]
    /\ calls' = [calls EXCEPT ![c].pc = "done", ![c].entry = 0]

\* create_gateway_settlement_intent commits the hold.
Reserve(c) ==
    /\ calls[c].pc = "reserve"
    /\ CanReserve(book, intents)
    /\ \E o \in Outcomes :
        /\ Paying(o)
        /\ Update(o, c, Admitted)
        /\ IF o = "done"
           THEN calls' = [calls EXCEPT ![c].pc = "check"] /\ UNCHANGED entries
           ELSE Leave(c, Unlocked(entries[calls[c].entry]))
    /\ UNCHANGED <<book, provider, current, process, resolver, hour>>

\* The account cannot cover the hold: rolled back.
Insufficient(c) ==
    /\ calls[c].pc = "reserve"
    /\ ~CanReserve(book, intents)
    /\ Leave(c, Unlocked(entries[calls[c].entry]))
    /\ UNCHANGED <<book, intents, provider, current, process, resolver, hour, budget>>

\* The limits held in memory: within them the permit is given and the gate
\* opened, otherwise the hold is to be closed first.
Check(c) ==
    LET r == [Pruned(entries[calls[c].entry]) EXCEPT !.touched = TRUE]
        within == r.in_flight < MaxInFlight /\ Spend(r) < BurnCap
    IN  /\ calls[c].pc = "check"
        /\ entries' = [entries EXCEPT ![calls[c].entry] =
                          IF within THEN [Unlocked(r) EXCEPT !.in_flight = @ + 1] ELSE r]
        /\ calls' = [calls EXCEPT ![c].pc = IF within THEN "send" ELSE "refuse"]
        /\ UNCHANGED <<book, intents, provider, current, process, resolver, hour, budget>>

CloseRefused(c) ==
    /\ calls[c].pc = "refuse"
    /\ \E o \in Outcomes : Paying(o) /\ Update(o, c, NoCharge(intents[c]))
    /\ Leave(c, Unlocked(entries[calls[c].entry]))
    /\ UNCHANGED <<book, provider, current, process, resolver, hour>>

-----------------------------------------------------------------------------
(* chat_completions *)

\* The provider serves the request it was sent.
Serve(c) ==
    /\ calls[c].pc = "send" /\ provider[c] = Silent
    /\ \E w \in budget.responses : provider' = [provider EXCEPT ![c] = w]
    /\ UNCHANGED <<book, intents, calls, current, entries, process, resolver, hour, budget>>

\* The response's head arrives: a tracked worker takes over from the handler.
Respond(c) ==
    /\ calls[c].pc = "send" /\ provider[c] # Silent
    /\ calls' = [calls EXCEPT ![c].pc = "drain"]
    /\ UNCHANGED <<book, intents, provider, current, entries, process, resolver, hour, budget>>

\* send() fails: the request was not served, or its reply was lost before the
\* response's head, when the provider may have served and billed it.  The relay
\* cannot tell one from the other.
SendFails(c) ==
    /\ calls[c].pc = "send"
    /\ calls' = [calls EXCEPT ![c].pc = "abandon"]
    /\ Paying("failed") /\ budget.errors > 0
    /\ UNCHANGED <<book, intents, provider, current, entries, process, resolver, hour>>

\* The intent of a failed request is closed with no charge, or stays pending.
Abandon(c) ==
    /\ calls[c].pc = "abandon"
    /\ \E o \in Outcomes : Paying(o) /\ Update(o, c, NoCharge(intents[c]))
    /\ calls' = [calls EXCEPT ![c].pc = "finish",
                              ![c].abandoned = intents'[c] # intents[c]]
    /\ UNCHANGED <<book, provider, current, entries, process, resolver, hour>>

\* A client's disconnect drops the handler's future at any of its awaits: a
\* registered gate user is never counted down, a transaction under way commits
\* or rolls back, and a permit is handed to a release task.
Disconnect(c) ==
    /\ budget.cancels > 0
    /\ budget' = [budget EXCEPT !.cancels = @ - 1]
    /\ \/ /\ calls[c].pc = "gate"
          /\ Leave(c, entries[calls[c].entry])
          /\ UNCHANGED intents
       \/ /\ calls[c].pc = "reserve"
          /\ \E row \in {intents[c]} \cup IF CanReserve(book, intents) THEN {Admitted} ELSE {} :
                 intents' = [intents EXCEPT ![c] = row]
          /\ Leave(c, Locked(entries[calls[c].entry], "nobody"))
       \/ /\ calls[c].pc = "refuse"
          /\ \E row \in {intents[c], NoCharge(intents[c])} :
                 intents' = [intents EXCEPT ![c] = row]
          /\ Leave(c, Locked(entries[calls[c].entry], "nobody"))
       \/ /\ calls[c].pc \in {"send", "abandon"}
          /\ calls' = [calls EXCEPT ![c].pc = "drop"]
          /\ UNCHANGED <<intents, entries>>
       \/ /\ calls[c].pc = "finish"
          /\ calls' = [calls EXCEPT ![c].pc = "drop"]
          /\ entries' = [entries EXCEPT ![calls[c].entry].gate_users = @ + 1]
          /\ UNCHANGED intents
    /\ UNCHANGED <<book, provider, current, process, resolver, hour>>

\* AdmissionPermit::finish(None), and the task its Drop spawns.
Finish(c) ==
    LET r == entries[calls[c].entry]
    IN  /\ calls[c].pc \in {"finish", "drop"}
        /\ Gate(c) = "nobody"
        /\ Leave(c, [r EXCEPT !.in_flight = @ - 1, !.touched = TRUE])
        /\ UNCHANGED <<book, intents, provider, current, process, resolver, hour, budget>>

-----------------------------------------------------------------------------
(* SettleTee: the settlement, under the gate *)

\* The body ended: finish_with takes the gate.
BeginSettle(c) ==
    /\ calls[c].pc = "drain"
    /\ Gate(c) = "nobody"
    /\ entries' = [entries EXCEPT ![calls[c].entry] =
                      [Locked(entries[calls[c].entry], c) EXCEPT !.gate_users = @ + 1]]
    /\ calls' = [calls EXCEPT ![c].pc = "settle"]
    /\ UNCHANGED <<book, intents, provider, current, process, resolver, hour, budget>>

\* settle_job closes the intent of a non-success response.
SettleFailure(c) ==
    /\ calls[c].pc = "settle" /\ ~provider[c].ok
    /\ \E o \in Outcomes : Paying(o) /\ Update(o, c, NoCharge(intents[c]))
    /\ calls' = [calls EXCEPT ![c].pc = "release"]
    /\ UNCHANGED <<book, provider, current, entries, process, resolver, hour>>

\* settle_with_retry after a failed attempt.
Retried(c) ==
    [calls EXCEPT ![c].attempt = @ + 1,
                  ![c].pc = IF calls[c].attempt + 1 = MaxSettles THEN "reconcile"
                            ELSE "settle"]

\* settle_one: the attribution is advanced before the ledger.
MarkCompleted(c) ==
    /\ calls[c].pc = "settle" /\ provider[c].ok
    /\ \E o \in Outcomes :
        /\ Paying(o)
        /\ Update(o, c, ProviderCompleted(intents[c]))
        /\ calls' = IF o # "done" THEN Retried(c)
                    ELSE [calls EXCEPT ![c].pc = IF provider[c].basis = "none" THEN "reconcile"
                                                 ELSE "debit"]
    /\ UNCHANGED <<book, provider, current, entries, process, resolver, hour>>

\* Mutation of JobRef: every attempt settles under a reference of its own.
JobRefPerAttempt(c) ==
    [kind |-> IF provider[c].id /\ calls[c].attempt = 0 THEN "request" ELSE "intent",
     of |-> c]

\* SettleJob.reference
JobRef(c) == [kind |-> IF provider[c].id THEN "request" ELSE "intent", of |-> c]

JobCost(c) == IF provider[c].basis = "observed" THEN provider[c].bill ELSE Estimate

\* settle_one: the ledger row, the balance and the hold in one transaction.
Debit(c) ==
    LET paid == ApplyEntry(book, [ref |-> JobRef(c), delta |-> -JobCost(c),
                                  rid |-> provider[c].id])
    IN  /\ calls[c].pc = "debit"
        /\ \E o \in Outcomes :
            /\ Paying(o)
            /\ book' = Written(o, book, paid)
            /\ Update(o, c, Debited(intents[c]))
            /\ calls' = IF o # "done" THEN Retried(c)
                        ELSE [calls EXCEPT ![c].pc = "release",
                                           ![c].settled = IndexOf(paid, JobRef(c))]
        /\ UNCHANGED <<provider, current, entries, process, resolver, hour>>

\* record_reconciliation_outcome
Reconcile(c) ==
    /\ calls[c].pc = "reconcile"
    /\ \E o \in Outcomes : Paying(o) /\ Update(o, c, Reconciliation(intents[c]))
    /\ calls' = [calls EXCEPT ![c].pc = "release"]
    /\ UNCHANGED <<book, provider, current, entries, process, resolver, hour>>

\* AccountRuntime::push_spend
Pushed(r, i) == [r EXCEPT !.spend = IF i # 0 /\ Cost(i) > 0 THEN @ \cup {i} ELSE @]

\* finish_with after the operation: the spend is cached, the slot released.
Release(c) ==
    LET r == Pushed(entries[calls[c].entry], calls[c].settled)
    IN  /\ calls[c].pc = "release"
        /\ entries' = [entries EXCEPT ![calls[c].entry] =
                          [Unlocked(r) EXCEPT !.in_flight = @ - 1, !.touched = TRUE]]
        /\ calls' = [calls EXCEPT ![c].pc = "done", ![c].entry = 0]
        /\ UNCHANGED <<book, intents, provider, current, process, resolver, hour, budget>>

-----------------------------------------------------------------------------
(* The relay process *)

Lost == [c \in Calls |-> IF calls[c].pc \in {"idle", "done", "gone"} THEN calls[c]
                         ELSE [NewCall EXCEPT !.pc = "gone",
                                              !.abandoned = calls[c].abandoned]]

Halt ==
    /\ process' = "down"
    /\ calls' = Lost
    /\ current' = 0
    /\ entries' = [e \in EntryIds |-> NewRuntime]
    /\ UNCHANGED <<book, intents, provider, resolver, hour>>

Crash ==
    /\ process # "down" /\ budget.stops > 0
    /\ budget' = [budget EXCEPT !.stops = @ - 1]
    /\ Halt

\* GatewayState::shutdown closes admission and waits for the tracked tasks.
Close ==
    /\ process = "up" /\ budget.stops > 0
    /\ budget' = [budget EXCEPT !.stops = @ - 1]
    /\ process' = "closing"
    /\ UNCHANGED <<book, intents, provider, calls, current, entries, resolver, hour>>

Exit ==
    /\ process = "closing"
    /\ \A c \in Calls : calls[c].pc \notin TaskPC
    /\ Halt
    /\ UNCHANGED budget

\* Mutation of Restart: the burn window starts empty.
RestartEmpty ==
    /\ process = "down"
    /\ process' = "up"
    /\ UNCHANGED <<book, intents, provider, calls, current, entries, resolver, hour, budget>>

\* AdmissionController::try_new rebuilds the burn window from the ledger.
Restart ==
    /\ process = "down"
    /\ process' = "up"
    /\ current' = IF Recent = {} THEN 0 ELSE 1
    /\ entries' = [e \in EntryIds |-> IF e = current'
                                      THEN [NewRuntime EXCEPT !.spend = Recent, !.touched = TRUE]
                                      ELSE NewRuntime]
    /\ UNCHANGED <<book, intents, provider, calls, resolver, hour, budget>>

\* The oldest ledger row in the burn window leaves it.
HourPasses ==
    /\ hour < Len(book.ledger) /\ budget.hours > 0
    /\ hour' = hour + 1
    /\ budget' = [budget EXCEPT !.hours = @ - 1]
    /\ UNCHANGED <<book, intents, provider, calls, current, entries, process, resolver>>

\* A payment's webhook credits the account, and may be delivered again.
Credit(p) ==
    /\ budget.payments > 0
    /\ budget' = [budget EXCEPT !.payments = @ - 1]
    /\ book' = ApplyEntry(book, [ref |-> [kind |-> "payment", of |-> p], delta |-> Amount,
                                 rid |-> FALSE])
    /\ UNCHANGED <<intents, provider, calls, current, entries, process, resolver, hour>>

-----------------------------------------------------------------------------
(* resolve_pending_gateway_settlements *)

Pending == {c \in Calls : intents[c].state \notin {"absent", "resolved"}}

\* The operator runs the resolver over an export of some of the billed calls.
ResolveStart ==
    /\ resolver.pc = "idle" /\ budget.resolves > 0
    /\ process = "down" \/ budget.live
    /\ \E rows \in SUBSET {c \in Pending : Billed(c)} :
        /\ rows # {}
        /\ resolver' = [Idle EXCEPT !.pc = "next", !.rows = rows]
    /\ budget' = [budget EXCEPT !.resolves = @ - 1]
    /\ UNCHANGED <<book, intents, provider, calls, current, entries, process, hour>>

\* The ledger rows that carry the exported request id and cost.
Correlated(c) ==
    {i \in Debits(book, c) : provider[c].exportId /\ book.ledger[i].rid
                             /\ Cost(i) = provider[c].bill}

CorrectionRef(c) ==
    IF intents[c].correction_ref # NoRef THEN intents[c].correction_ref
    ELSE [kind |-> IF provider[c].exportId THEN "correction" ELSE "intent", of |-> c]

After(c) == IF resolver.rows = {c} THEN Idle
            ELSE [Idle EXCEPT !.pc = "next", !.rows = resolver.rows \ {c}]

\* resolve_gateway_settlement_intent up to the debit: what it will write is
\* decided by what it reads here.
ResolveRead(c) ==
    /\ resolver.pc = "next" /\ c \in resolver.rows
    /\ resolver' =
        IF intents[c].state = "resolved" THEN After(c)
        ELSE IF Correlated(c) # {}
        THEN [resolver EXCEPT !.pc = "mark", !.call = c,
                              !.ref = book.ledger[CHOOSE i \in Correlated(c) : TRUE].ref]
        ELSE [resolver EXCEPT !.pc = "debit", !.call = c, !.ref = CorrectionRef(c)]
    /\ UNCHANGED <<book, intents, provider, calls, current, entries, process, hour, budget>>

\* A failed write ends the command.
ResolveDebit ==
    LET c == resolver.call
    IN  /\ resolver.pc = "debit"
        /\ \E o \in Outcomes :
            /\ Paying(o)
            /\ book' = Written(o, book, ApplyEntry(book,
                           [ref |-> resolver.ref, delta |-> -provider[c].bill,
                            rid |-> provider[c].exportId]))
            /\ Update(o, c, Debited(intents[c]))
            /\ resolver' = IF o = "done" THEN [resolver EXCEPT !.pc = "mark"] ELSE Idle
        /\ UNCHANGED <<provider, calls, current, entries, process, hour>>

ResolveMark ==
    LET c == resolver.call
    IN  /\ resolver.pc = "mark"
        /\ \E o \in Outcomes :
            /\ Paying(o)
            /\ Update(o, c, Resolved(intents[c], resolver.ref))
            /\ resolver' = IF o = "done" THEN After(c) ELSE Idle
        /\ UNCHANGED <<book, provider, calls, current, entries, process, hour>>

-----------------------------------------------------------------------------
Next ==
    \/ \E c \in Calls :
        \/ Register(c) \/ RegisterFresh(c) \/ Refused(c) \/ LockGate(c) \/ Reserve(c)
        \/ Insufficient(c) \/ Check(c) \/ CloseRefused(c)
        \/ Serve(c) \/ Respond(c) \/ SendFails(c) \/ Abandon(c) \/ Disconnect(c) \/ Finish(c)
        \/ BeginSettle(c) \/ SettleFailure(c) \/ MarkCompleted(c) \/ Debit(c) \/ Reconcile(c)
        \/ Release(c)
        \/ ResolveRead(c)
    \/ Crash \/ Close \/ Exit \/ Restart \/ HourPasses
    \/ \E p \in Purchases : Credit(p)
    \/ ResolveStart \/ ResolveDebit \/ ResolveMark

Spec == Init /\ [][Next]_vars

-----------------------------------------------------------------------------
(* Properties *)

\* A call is debited at most once, whatever is retried, lost, crashed,
\* restarted or resolved again from an export ("exactly-once").
ChargedOnce == \A c \in Calls : Cardinality(Debits(book, c)) <= 1

\* Calls that cost no more than their hold never overdraw the account: the
\* holds of calls under way, crashed or waiting for the export are enough for
\* every debit still to come.  The exception is a call whose hold the relay gave
\* up after its send() failed (mod.rs:1133) and which a resolver that had already
\* read its row charges all the same: that debit has no hold.
NeverOverdrawn ==
    (\A c \in Calls : calls[c].abandoned => Debits(book, c) = {}) => book.balance >= 0

\* A call the provider billed and nobody debited is still pending, with its
\* hold: an export can always recover it, whatever fails, crashes or is dropped
\* between the provider's bill and the debit.  The one exception is a call
\* whose send() failed and whose intent the relay then closed with no charge
\* (mod.rs:1133): if the provider had billed it, nothing recovers it.
BilledIsRecoverable ==
    \A c \in Calls : Billed(c) /\ ~calls[c].abandoned /\ Debits(book, c) = {} =>
        intents[c].state \in Held /\ intents[c].reserved > 0

\* The concurrency limit is exact.  Pruning never splits the account: every
\* admission and every permit uses the entry that is in the map, so that one
\* gate serialises them all; and its in-flight count is the number of permits
\* out, so that a slot is released exactly once on every path: settled, failed,
\* dropped or disconnected.
OneAuthority ==
    /\ \A c \in Calls : calls[c].entry # 0 => calls[c].entry = current
    /\ \A e \in EntryIds :
          entries[e].in_flight =
              Cardinality({c \in Calls : calls[c].entry = e /\ calls[c].pc \in PermitPC})

\* A settled debit that is still in the burn window is counted by the next
\* admission, also after the entry was pruned or the relay restarted.
BurnCounted ==
    \A c \in Calls :
        LET i == calls[c].settled
        IN  process # "down" /\ calls[c].pc = "done" /\ i > hour /\ Cost(i) > 0 =>
                current # 0 /\ i \in entries[current].spend

\* A resolved intent is final: a late settlement cannot reopen it.
ResolvedIsFinal ==
    [][\A c \in Calls : intents[c].state = "resolved" => intents'[c].state = "resolved"]_vars

=============================================================================
