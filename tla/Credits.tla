-------------------------------- MODULE Credits --------------------------------
(***************************************************************************)
(* Colony Credits of one account (crates/buzz-db/src/credits.rs and the      *)
(* compatibility trigger of migration 0066): the append-only ledger, whose   *)
(* (pubkey, ref) key makes every entry idempotent, the cached balance, and   *)
(* the settlement intents that hold Credits for model calls under way.       *)
(* Each operator is one transaction or one UPDATE.                           *)
(***************************************************************************)
EXTENDS Integers, Sequences, FiniteSets, FiniteSetsExt, SequencesExt

CONSTANTS Calls,      \* model calls; a call names its intent and its provider id
          Purchases,  \* payments that credit the account
          Amount,     \* nanoUSD of a payment
          Typical,    \* typical_call_cost_nanousd of the account
          Floor       \* ADMISSION_FLOOR_NANOUSD

ASSUME CreditsConstants ==
    /\ IsFiniteSet(Calls) /\ IsFiniteSet(Purchases)
    /\ Amount \in Nat /\ Typical \in Nat \ {0} /\ Floor \in Nat

\* The ledger references that can name a call or a payment: the provider's
\* request id, the intent's own reference, "gateway-intent:{id}", a webhook's.
Ref == [kind : {"request", "intent", "correction"}, of : Calls]
       \cup [kind : {"payment"}, of : Purchases]

NoRef == [kind |-> "none"]

\* rid tells whether the row carries the call's provider request id.
LedgerEntry == [ref : Ref, delta : Int, rid : BOOLEAN]

Book == [balance : Int, ledger : Seq(LedgerEntry)]

Intent == [state : {"absent", "admitted", "provider_completed", "debited",
                    "reconciliation", "resolved"},
           reserved : Nat, correction_ref : Ref \cup {NoRef}]

NoIntent == [state |-> "absent", reserved |-> 0, correction_ref |-> NoRef]

-----------------------------------------------------------------------------
(* The ledger *)

Recorded(book, ref) == \E i \in DOMAIN book.ledger : book.ledger[i].ref = ref

IndexOf(book, ref) == CHOOSE i \in DOMAIN book.ledger : book.ledger[i].ref = ref

\* apply_entry_tx: a replayed reference is a no-op.
ApplyEntry(book, e) ==
    IF Recorded(book, e.ref) THEN book
    ELSE [balance |-> book.balance + e.delta, ledger |-> Append(book.ledger, e)]

\* The debits of call c.
Debits(book, c) == {i \in DOMAIN book.ledger :
                       book.ledger[i].ref.kind # "payment" /\ book.ledger[i].ref.of = c}

-----------------------------------------------------------------------------
(* Settlement intents *)

Held == {"admitted", "provider_completed", "reconciliation"}

\* An intent row moved to a state, as the trigger rewrites it.
Moved(row, state) ==
    [row EXCEPT !.state = state,
                !.reserved = IF state \notin Held THEN 0 ELSE IF @ = 0 THEN Typical ELSE @]

\* What create_gateway_settlement_intent asks the account to hold.
Required == Max({Typical, Floor, 1})

Reserved(intents) == MapThenSumSet(LAMBDA c : intents[c].reserved, Calls)

\* Mutation of CanReserve: the other calls' holds are forgotten.
CanReserveAlone(book, intents) == book.balance >= Required

\* The balance covers the new hold on top of all the others.
CanReserve(book, intents) == book.balance - Reserved(intents) >= Required

\* create_gateway_settlement_intent for a fresh reference.
Admitted == [NoIntent EXCEPT !.state = "admitted", !.reserved = Required]

\* mark_gateway_provider_completed
ProviderCompleted(row) ==
    Moved(row, IF row.state \in {"debited", "resolved"} THEN row.state
               ELSE "provider_completed")

\* The intent's half of debit_gateway_intent_internal.
Debited(row) == Moved(row, IF row.state = "resolved" THEN row.state ELSE "debited")

\* resolve_gateway_intent_no_charge
NoCharge(row) == Moved(row, "resolved")

\* Mutation of Reconciliation: a resolved intent is taken back.
ReconciliationAlways(row) == Moved(row, "reconciliation")

\* Mutation of Reconciliation: a call without usage is closed.
ReconciliationCloses(row) == Moved(row, "resolved")

\* mark_gateway_intent_reconciliation
Reconciliation(row) ==
    Moved(row, IF row.state = "resolved" THEN row.state ELSE "reconciliation")

\* The last UPDATE of resolve_gateway_settlement_intent.
Resolved(row, ref) == [Moved(row, "resolved") EXCEPT !.correction_ref = ref]

=============================================================================
