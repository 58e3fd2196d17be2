----------------------------- MODULE GatewayProofs -----------------------------
(***************************************************************************)
(* What the model gateway guarantees for every set of calls and purchases,   *)
(* every limit, every price and every scenario of faults.                    *)
(***************************************************************************)
EXTENDS Gateway, FiniteSetTheorems, NaturalsInduction, WellFoundedInduction, TLAPS

USE CreditsConstants, GatewayConstants

-----------------------------------------------------------------------------
(* Operators *)

\* A hold is a positive amount.
LEMMA RequiredPositive == Required \in Nat /\ Required > 0
BY DEF Required, Max

\* A call nobody served is not billed.
LEMMA SilentIsUnbilled == Silent \notin Response /\ ~Silent.ok
BY DEF Silent, Response

\* An intent that is moved by any of the UPDATEs is an intent.
LEMMA MovedType ==
    ASSUME NEW row \in Intent, NEW state \in {"absent", "admitted", "provider_completed",
                                              "debited", "reconciliation", "resolved"}
    PROVE  Moved(row, state) \in Intent
BY DEF Moved, Intent

LEMMA IntentTypes ==
    ASSUME NEW row \in Intent
    PROVE  /\ Admitted \in Intent
           /\ ProviderCompleted(row) \in Intent /\ Debited(row) \in Intent
           /\ NoCharge(row) \in Intent /\ Reconciliation(row) \in Intent
           /\ \A ref \in Ref : Resolved(row, ref) \in Intent
<1>1. Admitted \in Intent
    BY RequiredPositive DEF Admitted, NoIntent, Intent
<1>2. row.state \in {"absent", "admitted", "provider_completed", "debited",
                     "reconciliation", "resolved"}
    BY DEF Intent
<1>3. /\ ProviderCompleted(row) \in Intent /\ Debited(row) \in Intent
      /\ NoCharge(row) \in Intent /\ Reconciliation(row) \in Intent
    BY <1>2, MovedType DEF ProviderCompleted, Debited, NoCharge, Reconciliation
<1>4. \A ref \in Ref : Resolved(row, ref) \in Intent
    <2>1. Moved(row, "resolved") \in Intent
        BY MovedType
    <2> QED BY <2>1 DEF Resolved, Intent
<1> QED BY <1>1, <1>3, <1>4

\* apply_entry_tx keeps the ledger a ledger, and records the reference.
LEMMA ApplyEntryType ==
    ASSUME NEW b \in Book, NEW e \in LedgerEntry
    PROVE  /\ ApplyEntry(b, e) \in Book
           /\ Recorded(ApplyEntry(b, e), e.ref)
           /\ DOMAIN b.ledger \subseteq DOMAIN ApplyEntry(b, e).ledger
           /\ \A i \in DOMAIN b.ledger : ApplyEntry(b, e).ledger[i] = b.ledger[i]
           /\ \A i \in DOMAIN ApplyEntry(b, e).ledger \ DOMAIN b.ledger :
                 ApplyEntry(b, e).ledger[i] = e
<1>1. CASE Recorded(b, e.ref)
    BY <1>1 DEF ApplyEntry
<1>2. CASE ~Recorded(b, e.ref)
    <2> DEFINE a == ApplyEntry(b, e)
    <2>1. a = [balance |-> b.balance + e.delta, ledger |-> Append(b.ledger, e)]
        BY <1>2 DEF ApplyEntry
    <2>2. b.balance + e.delta \in Int /\ Append(b.ledger, e) \in Seq(LedgerEntry)
        BY DEF Book, LedgerEntry
    <2>3. a \in Book
        BY <2>1, <2>2 DEF Book
    <2>4. b.ledger \in Seq(LedgerEntry)
        BY DEF Book
    <2>5. /\ DOMAIN a.ledger = DOMAIN b.ledger \cup {Len(b.ledger) + 1}
          /\ DOMAIN b.ledger = 1..Len(b.ledger)
          /\ a.ledger[Len(b.ledger) + 1] = e
          /\ \A i \in DOMAIN b.ledger : a.ledger[i] = b.ledger[i]
        BY <2>1, <2>4
    <2>6. Recorded(a, e.ref)
        BY <2>5 DEF Recorded
    <2> QED BY <2>3, <2>5, <2>6
<1> QED BY <1>1, <1>2

-----------------------------------------------------------------------------
(* Counting permits and users of the gate *)

\* The states of a call that has registered with the gate and is counted down
\* by its own step.
UserPC == {"gate", "reserve", "check", "refuse", "settle", "debit", "reconcile", "release"}

HasPermit(k, e) == k.entry = e /\ k.pc \in PermitPC
UsesGate(k, e) == k.entry = e /\ k.pc \in UserPC

Permits(cs, e) == {c \in Calls : HasPermit(cs[c], e)}
Users(cs, e) == {c \in Calls : UsesGate(cs[c], e)}

One(c, S) == IF c \in S THEN 1 ELSE 0
PermitOf(k, e) == IF HasPermit(k, e) THEN 1 ELSE 0
UseOf(k, e) == IF UsesGate(k, e) THEN 1 ELSE 0

\* How a set of calls changes when one of them joins or leaves it.
LEMMA CountStep ==
    ASSUME NEW S \in SUBSET Calls, NEW T \in SUBSET Calls, NEW c \in Calls,
           \A d \in Calls \ {c} : d \in S <=> d \in T
    PROVE  /\ Cardinality(S) \in Nat /\ Cardinality(T) \in Nat
           /\ Cardinality(T) = Cardinality(S) - One(c, S) + One(c, T)
           /\ c \in S => Cardinality(S) > 0
<1>1. IsFiniteSet(S) /\ IsFiniteSet(T)
    BY FS_Subset
<1>2. Cardinality(S) \in Nat /\ Cardinality(T) \in Nat
    BY <1>1, FS_CardinalityType
<1>3. S \ {c} = T \ {c}
    OBVIOUS
<1>4. ASSUME NEW U, IsFiniteSet(U), Cardinality(U) \in Nat
      PROVE  /\ c \in U => Cardinality(U \ {c}) = Cardinality(U) - 1
             /\ c \notin U => Cardinality(U \ {c}) = Cardinality(U)
             /\ Cardinality(U \ {c}) \in Nat
    BY <1>4, FS_RemoveElement, FS_CardinalityType
<1>5. /\ Cardinality(S \ {c}) = Cardinality(S) - One(c, S)
      /\ Cardinality(T \ {c}) = Cardinality(T) - One(c, T)
      /\ Cardinality(S \ {c}) \in Nat
    BY <1>1, <1>2, <1>4 DEF One
<1>6. One(c, S) \in {0, 1} /\ One(c, T) \in {0, 1} /\ (c \in S => One(c, S) = 1)
    BY DEF One
<1>7. Cardinality(S \ {c}) = Cardinality(T \ {c})
    BY <1>3
<1>8. Cardinality(T) = Cardinality(S) - One(c, S) + One(c, T)
    BY <1>2, <1>5, <1>6, <1>7
<1>9. c \in S => Cardinality(S) > 0
    BY <1>2, <1>5, <1>6
<1> QED BY <1>2, <1>8, <1>9

-----------------------------------------------------------------------------
(* The invariant of admission *)

Out == {"idle", "done", "gone"}

\* A call points to an entry exactly while it is under way, and then to the
\* entry in the map; a relay that is down has no call under way.
InMap ==
    \A c \in Calls : /\ calls[c].entry = 0 <=> calls[c].pc \in Out
                     /\ calls[c].entry # 0 => /\ calls[c].entry = current
                                              /\ process # "down"

\* Permits are counted exactly, and no registered user of a gate is missed: a
\* dropped future can only leave the count too high.
Counted ==
    \A e \in EntryIds : /\ entries[e].in_flight = Cardinality(Permits(calls, e))
                        /\ entries[e].gate_users >= Cardinality(Users(calls, e))

Authority == InMap /\ Counted

\* The count of an entry that a call uses is positive.
LEMMA CountsPositive ==
    ASSUME TypeOK, Authority, NEW c \in Calls, calls[c].pc \notin Out
    PROVE  /\ calls[c].entry = current /\ current \in EntryIds /\ process # "down"
           /\ calls[c] \in Call /\ entries[current] \in Runtime
           /\ calls[c].pc \in PermitPC => entries[current].in_flight - 1 \in Nat
           /\ calls[c].pc \in UserPC => entries[current].gate_users - 1 \in Nat
<1>1. /\ calls[c].entry = current /\ current \in EntryIds /\ process # "down"
      /\ calls[c] \in Call /\ entries[current] \in Runtime
    BY DEF Authority, InMap, TypeOK, Call
<1>2. /\ Permits(calls, current) \in SUBSET Calls
      /\ Users(calls, current) \in SUBSET Calls
      /\ HasPermit(calls[c], current) => c \in Permits(calls, current)
      /\ UsesGate(calls[c], current) => c \in Users(calls, current)
    BY DEF Permits, Users
<1>3. /\ HasPermit(calls[c], current) => Cardinality(Permits(calls, current)) > 0
      /\ UsesGate(calls[c], current) => Cardinality(Users(calls, current)) > 0
      /\ Cardinality(Permits(calls, current)) \in Nat
      /\ Cardinality(Users(calls, current)) \in Nat
    BY <1>2, CountStep
<1>4. entries[current].in_flight \in Nat /\ entries[current].gate_users \in Nat
    BY <1>1 DEF TypeOK, Runtime
<1>5. /\ entries[current].in_flight = Cardinality(Permits(calls, current))
      /\ entries[current].gate_users >= Cardinality(Users(calls, current))
    BY <1>1 DEF Authority, Counted
<1> QED BY <1>1, <1>3, <1>4, <1>5 DEF HasPermit, UsesGate

\* A step of one call that accounts for itself keeps the invariant.
LEMMA AuthorityStep ==
    ASSUME TypeOK, Authority, NEW c \in Calls,
           current \in EntryIds, current' = current, process' = process, process # "down",
           calls' \in [Calls -> Call], entries' \in [EntryIds -> Runtime],
           \A d \in Calls \ {c} : calls'[d] = calls[d],
           \A e \in EntryIds \ {current} : entries'[e] = entries[e],
           calls[c].entry \in {0, current}, calls'[c].entry \in {0, current},
           calls'[c].entry = 0 <=> calls'[c].pc \in Out,
           entries'[current].in_flight =
               entries[current].in_flight - PermitOf(calls[c], current)
                   + PermitOf(calls'[c], current),
           entries'[current].gate_users >=
               entries[current].gate_users - UseOf(calls[c], current)
                   + UseOf(calls'[c], current)
    PROVE  Authority'
<1>0. EntryIds' = EntryIds
    BY DEF EntryIds
<1>1. calls \in [Calls -> Call] /\ entries \in [EntryIds -> Runtime]
    BY DEF TypeOK
<1>3. InMap'
    <2> SUFFICES ASSUME NEW d \in Calls
                 PROVE  /\ calls'[d].entry = 0 <=> calls'[d].pc \in Out
                        /\ calls'[d].entry # 0 => calls'[d].entry = current /\ process # "down"
        BY DEF InMap
    <2>1. CASE d = c
        BY <2>1
    <2>2. CASE d # c
        BY <2>2 DEF Authority, InMap
    <2> QED BY <2>1, <2>2
<1>4. Counted'
    <2> SUFFICES ASSUME NEW e \in EntryIds
                 PROVE  /\ entries'[e].in_flight = Cardinality(Permits(calls', e))
                        /\ entries'[e].gate_users >= Cardinality(Users(calls', e))
        BY <1>0 DEF Counted, Permits, Users
    <2> DEFINE n == calls'[c]
               P == Permits(calls, e)
               Q == Permits(calls', e)
               U == Users(calls, e)
               V == Users(calls', e)
    <2>1. /\ P \in SUBSET Calls /\ Q \in SUBSET Calls
          /\ \A d \in Calls \ {c} : d \in P <=> d \in Q
          /\ One(c, P) = PermitOf(calls[c], e) /\ One(c, Q) = PermitOf(n, e)
        BY DEF Permits, One, PermitOf
    <2>2. /\ U \in SUBSET Calls /\ V \in SUBSET Calls
          /\ \A d \in Calls \ {c} : d \in U <=> d \in V
          /\ One(c, U) = UseOf(calls[c], e) /\ One(c, V) = UseOf(n, e)
        BY DEF Users, One, UseOf
    <2>3. /\ entries[e].in_flight = Cardinality(P)
          /\ entries[e].gate_users >= Cardinality(U)
        BY DEF Authority, Counted
    <2> HIDE DEF P, Q, U, V
    <2>4. /\ Cardinality(P) \in Nat /\ Cardinality(Q) \in Nat
          /\ Cardinality(Q) = Cardinality(P) - PermitOf(calls[c], e) + PermitOf(n, e)
        BY <2>1, CountStep
    <2>5. /\ Cardinality(U) \in Nat /\ Cardinality(V) \in Nat
          /\ Cardinality(V) = Cardinality(U) - UseOf(calls[c], e) + UseOf(n, e)
        BY <2>2, CountStep
    <2>6. /\ entries[e].in_flight \in Nat /\ entries[e].gate_users \in Nat
          /\ entries'[e].in_flight \in Nat /\ entries'[e].gate_users \in Nat
        BY <1>1 DEF Runtime
    <2>7. CASE e = current
        <3>1. /\ PermitOf(calls[c], e) \in Int /\ PermitOf(n, e) \in Int
              /\ UseOf(calls[c], e) \in Int /\ UseOf(n, e) \in Int
            BY DEF PermitOf, UseOf
        <3>2. entries'[e].in_flight = Cardinality(Q)
            BY <2>3, <2>4, <2>6, <2>7, <3>1
        <3>3. entries'[e].gate_users >= Cardinality(V)
            BY <2>3, <2>5, <2>6, <2>7, <3>1
        <3> QED BY <3>2, <3>3 DEF Q, V
    <2>8. CASE e # current
        <3>1. entries'[e] = entries[e]
            BY <2>8
        <3>2. e # 0
            BY DEF EntryIds
        <3>3. /\ PermitOf(calls[c], e) = 0 /\ PermitOf(n, e) = 0
              /\ UseOf(calls[c], e) = 0 /\ UseOf(n, e) = 0
            BY <2>8, <3>2 DEF PermitOf, UseOf, HasPermit, UsesGate
        <3> QED BY <2>3, <2>4, <2>5, <2>6, <3>1, <3>3 DEF Q, V
    <2> QED BY <2>7, <2>8
<1> QED BY <1>3, <1>4 DEF Authority

\* A write that is not acknowledged is paid for.
LEMMA PayingType ==
    ASSUME TypeOK, NEW o \in Outcomes, Paying(o)
    PROVE  budget' \in Scenario /\ budget'.calls = budget.calls /\ budget'.live = budget.live
           /\ budget'.responses = budget.responses
<1>1. o # "done" => budget.errors > 0
    BY DEF Outcomes
<1>2. budget \in Scenario
    BY DEF TypeOK
<1> QED BY <1>1, <1>2 DEF Paying, Scenario

\* What an UPDATE leaves in the table.
LEMMA UpdateType ==
    ASSUME TypeOK, NEW o, NEW c \in Calls, NEW row \in Intent, Update(o, c, row)
    PROVE  (intents \in [Calls -> Intent])'
BY DEF TypeOK, Update, Written

-----------------------------------------------------------------------------
(* Every step keeps the types and the invariant of admission *)

\* A step that leaves call c in state p at entry e, and adds f permits and u
\* users of the gate to the entry in the map.
CallMoves(c, p, e) ==
    /\ calls' \in [Calls -> Call]
    /\ calls'[c].pc = p /\ calls'[c].entry = e
    /\ \A d \in Calls \ {c} : calls'[d] = calls[d]

EntryMoves(f, u) ==
    /\ entries' \in [EntryIds -> Runtime]
    /\ entries'[current].in_flight = entries[current].in_flight + f
    /\ entries'[current].gate_users >= entries[current].gate_users + u
    /\ \A e \in EntryIds \ {current} : entries'[e] = entries[e]

In(x, S) == IF x \in S THEN 1 ELSE 0

\* A step of one call that accounts for itself keeps the invariant.
LEMMA Accounted ==
    ASSUME TypeOK, Authority, NEW c \in Calls, NEW p, NEW e \in {0, current},
           NEW f \in Int, NEW u \in Int,
           current \in EntryIds, current' = current, process' = process, process # "down",
           CallMoves(c, p, e), EntryMoves(f, u),
           e = 0 <=> p \in Out,
           f = In(p, PermitPC) - In(calls[c].pc, PermitPC),
           u = In(p, UserPC) - In(calls[c].pc, UserPC)
    PROVE  Authority'
<1>1. /\ calls[c].entry \in {0, current} /\ calls'[c].entry = e /\ calls'[c].pc = p
      /\ calls[c].entry = 0 <=> calls[c].pc \in Out
    BY DEF Authority, InMap, CallMoves
<1>2. current # 0 /\ Out \cap PermitPC = {} /\ Out \cap UserPC = {}
    BY DEF EntryIds, Out, PermitPC, UserPC
<1>3. /\ PermitOf(calls[c], current) = In(calls[c].pc, PermitPC)
      /\ UseOf(calls[c], current) = In(calls[c].pc, UserPC)
      /\ PermitOf(calls'[c], current) = In(p, PermitPC)
      /\ UseOf(calls'[c], current) = In(p, UserPC)
    BY <1>1, <1>2 DEF PermitOf, UseOf, HasPermit, UsesGate, In
<1>4. entries[current].in_flight \in Nat /\ entries[current].gate_users \in Nat
    BY DEF TypeOK, Runtime
<1>5. /\ In(p, PermitPC) \in Int /\ In(calls[c].pc, PermitPC) \in Int
      /\ In(p, UserPC) \in Int /\ In(calls[c].pc, UserPC) \in Int
    BY DEF In
<1>6. /\ entries'[current].in_flight =
             entries[current].in_flight - PermitOf(calls[c], current)
                 + PermitOf(calls'[c], current)
      /\ entries'[current].gate_users >=
             entries[current].gate_users - UseOf(calls[c], current)
                 + UseOf(calls'[c], current)
    <2>1. entries'[current].gate_users \in Nat
        BY DEF EntryMoves, Runtime
    <2> QED BY <1>3, <1>4, <1>5, <2>1 DEF EntryMoves
<1> QED BY <1>1, <1>6, AuthorityStep DEF CallMoves, EntryMoves

\* What is known of an entry whose spend was pruned.
LEMMA PrunedType ==
    ASSUME NEW r \in Runtime
    PROVE  /\ Pruned(r) \in Runtime /\ Pruned(r).in_flight = r.in_flight
           /\ Pruned(r).gate_users = r.gate_users /\ Pruned(r).gate = r.gate
           /\ Pruned(r).touched = r.touched
           /\ Pruned(r).spend = {i \in r.spend : i > hour}
<1>1. {i \in r.spend : i > hour} \in SUBSET Nat
    BY DEF Runtime
<1> QED BY <1>1 DEF Pruned, Runtime

\* The states of a call.
PCs == {"idle", "gate", "reserve", "check", "refuse", "done", "gone"} \cup PermitPC

\* The fields of a call and of an entry.
LEMMA Fields ==
    ASSUME TypeOK
    PROVE  /\ \A c \in Calls : /\ calls[c] \in Call /\ calls[c].pc \in PCs
                               /\ calls[c].entry \in EntryIds \cup {0}
                               /\ calls[c].attempt \in Nat /\ calls[c].settled \in Nat
                               /\ calls[c].abandoned \in BOOLEAN
           /\ \A e \in EntryIds : /\ entries[e] \in Runtime
                                  /\ entries[e].in_flight \in Nat
                                  /\ entries[e].gate_users \in Nat
                                  /\ entries[e].spend \in SUBSET Nat
BY DEF TypeOK, Call, Runtime, PCs

\* A step that changes nothing of the calls but the state of one.
PcTo(c, p) == calls' = [calls EXCEPT ![c].pc = p]

LEMMA PcToType ==
    ASSUME TypeOK, NEW c \in Calls, NEW p \in PCs, PcTo(c, p)
    PROVE  /\ calls' \in [Calls -> Call]
           /\ \A d \in Calls : /\ calls'[d].entry = calls[d].entry
                               /\ calls'[d].settled = calls[d].settled
                               /\ calls'[d].abandoned = calls[d].abandoned
                               /\ d # c => calls'[d] = calls[d]
           /\ calls'[c].pc = p
<1>1. calls \in [Calls -> Call]
    BY DEF TypeOK
<1>2. calls' = [calls EXCEPT ![c].pc = p]
    BY DEF PcTo
<1> QED BY <1>1, <1>2 DEF Call, PCs

LEMMA RegisterStep ==
    ASSUME TypeOK, Authority, NEW c \in Calls, Register(c)
    PROVE  TypeOK' /\ Authority'
<1>1. /\ current \in EntryIds /\ entries[current] \in Runtime
      /\ calls[c].entry = 0 /\ calls[c].pc = "idle" /\ current # 0
    BY DEF Register, TypeOK, Authority, InMap, Out
<1>2. CallMoves(c, "gate", current)
    BY <1>1 DEF Register, TypeOK, Call, CallMoves
<1>3. EntryMoves(0, 1)
    <2> DEFINE q == Pruned(entries[current])
    <2>1. /\ entries[current].in_flight \in Nat /\ entries[current].gate_users \in Nat
          /\ q \in Runtime /\ q.in_flight = entries[current].in_flight
          /\ q.gate_users = entries[current].gate_users
        BY <1>1, PrunedType DEF Runtime
    <2>2. entries' = [entries EXCEPT ![current] = [q EXCEPT !.gate_users = @ + 1]]
        BY DEF Register
    <2> HIDE DEF q
    <2> QED BY <1>1, <2>1, <2>2 DEF TypeOK, EntryMoves, Runtime
<1>4. process' = process /\ process # "down" /\ current' = current
    BY DEF Register
<1>5. /\ 0 = In("gate", PermitPC) - In(calls[c].pc, PermitPC)
      /\ 1 = In("gate", UserPC) - In(calls[c].pc, UserPC)
      /\ current = 0 <=> "gate" \in Out
    BY <1>1 DEF In, PermitPC, UserPC, Out
<1>6. Authority'
    BY <1>1, <1>2, <1>3, <1>4, <1>5, Accounted
<1> QED BY <1>2, <1>3, <1>6 DEF Register, TypeOK, CallMoves, EntryMoves

\* A step that moves calls within the classes that the counts tell apart.
LEMMA SameAccount ==
    ASSUME Authority, current' = current, process' = process, entries' = entries,
           \A c \in Calls : /\ calls'[c].entry = calls[c].entry
                            /\ calls'[c].pc \in Out <=> calls[c].pc \in Out
                            /\ calls'[c].pc \in PermitPC <=> calls[c].pc \in PermitPC
                            /\ calls'[c].pc \in UserPC <=> calls[c].pc \in UserPC
    PROVE  Authority'
<1>1. InMap'
    BY DEF Authority, InMap
<1>2. Counted'
    <2> SUFFICES ASSUME NEW e \in EntryIds
                 PROVE  /\ entries[e].in_flight = Cardinality(Permits(calls', e))
                        /\ entries[e].gate_users >= Cardinality(Users(calls', e))
        BY DEF Counted, Permits, Users, EntryIds
    <2>1. Permits(calls', e) = Permits(calls, e) /\ Users(calls', e) = Users(calls, e)
        BY DEF Permits, Users, HasPermit, UsesGate
    <2>2. /\ Cardinality(Permits(calls', e)) = Cardinality(Permits(calls, e))
          /\ Cardinality(Users(calls', e)) = Cardinality(Users(calls, e))
        BY <2>1
    <2> QED BY <2>2 DEF Authority, Counted
<1> QED BY <1>1, <1>2 DEF Authority

\* No call is under way and no permit is counted.
LEMMA Quiet ==
    ASSUME \A c \in Calls : calls'[c].pc \in Out /\ calls'[c].entry = 0,
           \A e \in EntryIds : entries'[e].in_flight = 0 /\ entries'[e].gate_users \in Nat
    PROVE  Authority'
<1>1. InMap'
    BY DEF InMap
<1>2. Counted'
    <2> SUFFICES ASSUME NEW e \in EntryIds
                 PROVE  /\ entries'[e].in_flight = Cardinality(Permits(calls', e))
                        /\ entries'[e].gate_users >= Cardinality(Users(calls', e))
        BY DEF Counted, Permits, Users, EntryIds
    <2>1. Permits(calls', e) = {} /\ Users(calls', e) = {}
        BY DEF Permits, Users, HasPermit, UsesGate, Out, PermitPC, UserPC
    <2>2. Cardinality(Permits(calls', e)) = 0 /\ Cardinality(Users(calls', e)) = 0
        BY <2>1, FS_EmptySet
    <2> QED BY <2>2
<1> QED BY <1>1, <1>2 DEF Authority

\* An entry that pruning may take has no call under way.
LEMMA EvictableIsUnused ==
    ASSUME TypeOK, Authority, current # 0 => Evictable(entries[current])
    PROVE  \A c \in Calls : calls[c].pc \in Out /\ calls[c].entry = 0
<1> SUFFICES ASSUME NEW c \in Calls, calls[c].pc \notin Out
             PROVE  FALSE
    BY DEF Authority, InMap
<1>1. /\ current \in EntryIds
      /\ calls[c].pc \in PermitPC => entries[current].in_flight - 1 \in Nat
      /\ calls[c].pc \in UserPC => entries[current].gate_users - 1 \in Nat
    BY CountsPositive
<1>2. calls[c].pc \in PermitPC \cup UserPC
    BY Fields DEF PCs, PermitPC, UserPC, Out
<1>3. current # 0
    BY <1>1 DEF EntryIds
<1>4. entries[current].in_flight = 0 /\ entries[current].gate_users = 0
    BY <1>3 DEF Evictable
<1> QED BY <1>1, <1>2, <1>4

\* There is always an entry for a new admission.
LEMMA FreshEntryExists ==
    ASSUME TypeOK, Authority, Calls # {}
    PROVE  FreshEntry \in EntryIds /\ FreshEntry # current
<1>1. /\ 1 \in EntryIds /\ 2 \in EntryIds
    <2>1. Cardinality(Calls) \in Nat /\ Cardinality(Calls) # 0
        BY FS_CardinalityType, FS_EmptySet
    <2> QED BY <2>1 DEF EntryIds
<1>2. \A e \in EntryIds : InUse(e) <=> e = current
    <2>1. \A e \in EntryIds : e # 0
        BY DEF EntryIds
    <2> QED BY <2>1 DEF InUse, Authority, InMap
<1>3. \E e \in EntryIds : ~InUse(e) /\ \A f \in 1..(e - 1) : InUse(f)
    <2>1. CASE current # 1
        BY <1>1, <1>2, <2>1
    <2>2. CASE current = 1
        <3>1. \A f \in 1..(2 - 1) : f = 1
            OBVIOUS
        <3> QED BY <1>1, <1>2, <2>2, <3>1
    <2> QED BY <2>1, <2>2
<1>4. FreshEntry \in EntryIds /\ ~InUse(FreshEntry)
    BY <1>3 DEF FreshEntry
<1> QED BY <1>2, <1>4

LEMMA RegisterFreshStep ==
    ASSUME TypeOK, Authority, NEW c \in Calls, RegisterFresh(c)
    PROVE  TypeOK' /\ Authority'
<1> DEFINE f == FreshEntry
<1>1. f \in EntryIds /\ f # current /\ f # 0
    BY FreshEntryExists DEF EntryIds
<1>2. \A d \in Calls : calls[d].pc \in Out /\ calls[d].entry = 0
    BY EvictableIsUnused DEF RegisterFresh
<1>3. /\ current' = f /\ process' = process /\ process = "up"
      /\ entries' = [entries EXCEPT ![f] = [NewRuntime EXCEPT !.gate_users = 1]]
      /\ calls' = [calls EXCEPT ![c].pc = "gate", ![c].entry = f]
    BY DEF RegisterFresh
<1> HIDE DEF f
<1>4. /\ calls' \in [Calls -> Call] /\ calls'[c].pc = "gate" /\ calls'[c].entry = f
      /\ \A d \in Calls \ {c} : calls'[d] = calls[d]
    <2>1. calls \in [Calls -> Call] /\ f \in EntryIds \cup {0}
        BY <1>1 DEF TypeOK
    <2> QED BY <1>3, <2>1 DEF Call
<1>5. [NewRuntime EXCEPT !.gate_users = 1] \in Runtime
    BY DEF NewRuntime, Runtime
<1>6. /\ entries' \in [EntryIds -> Runtime]
      /\ entries'[f].in_flight = 0 /\ entries'[f].gate_users = 1
      /\ \A e \in EntryIds \ {f} : entries'[e] = entries[e]
    BY <1>1, <1>3, <1>5 DEF TypeOK, NewRuntime
<1>7. InMap'
    BY <1>1, <1>2, <1>3, <1>4 DEF InMap, Out
<1>8. Counted'
    <2> SUFFICES ASSUME NEW e \in EntryIds
                 PROVE  /\ entries'[e].in_flight = Cardinality(Permits(calls', e))
                        /\ entries'[e].gate_users >= Cardinality(Users(calls', e))
        BY DEF Counted, Permits, Users, EntryIds
    <2>0. e # 0
        BY DEF EntryIds
    <2>1. Permits(calls', e) = {}
        BY <1>2, <1>4, <2>0 DEF Permits, HasPermit, PermitPC
    <2>2. Cardinality(Permits(calls', e)) = 0
        BY <2>1, FS_EmptySet
    <2>3. CASE e = f
        <3>1. Users(calls', e) = {c}
            BY <1>2, <1>4, <2>0, <2>3 DEF Users, UsesGate, UserPC
        <3>2. Cardinality(Users(calls', e)) = 1
            BY <3>1, FS_Singleton
        <3> QED BY <1>6, <2>2, <2>3, <3>2
    <2>4. CASE e # f
        <3>1. Users(calls', e) = {}
            BY <1>2, <1>4, <2>0, <2>4 DEF Users, UsesGate, UserPC
        <3>2. Cardinality(Users(calls', e)) = 0
            BY <3>1, FS_EmptySet
        <3>3. Permits(calls, e) = {}
            BY <1>2, <2>0 DEF Permits, HasPermit, PermitPC
        <3>4. Cardinality(Permits(calls, e)) = 0
            BY <3>3, FS_EmptySet
        <3>5. entries[e].in_flight = 0 /\ entries[e].gate_users \in Nat
            BY <3>4, Fields DEF Authority, Counted
        <3> QED BY <1>6, <2>2, <2>4, <3>2, <3>5
    <2> QED BY <2>3, <2>4
<1> QED BY <1>1, <1>3, <1>4, <1>6, <1>7, <1>8 DEF RegisterFresh, TypeOK, Authority

LEMMA RefusedStep ==
    ASSUME TypeOK, Authority, NEW c \in Calls, Refused(c)
    PROVE  TypeOK' /\ Authority'
<1>1. /\ calls' \in [Calls -> Call]
      /\ \A d \in Calls : /\ calls'[d].entry = calls[d].entry
                          /\ calls'[d].pc = IF d = c THEN "done" ELSE calls[d].pc
    BY DEF Refused, TypeOK, Call
<1>2. Authority'
    BY <1>1, SameAccount DEF Refused, Out, PermitPC, UserPC
<1> QED BY <1>1, <1>2 DEF Refused, TypeOK

LEMMA LockGateStep ==
    ASSUME TypeOK, Authority, NEW c \in Calls, LockGate(c)
    PROVE  TypeOK' /\ Authority'
<1>1. /\ current \in EntryIds /\ entries[current] \in Runtime /\ process # "down"
      /\ calls[c].entry = current /\ calls[c].pc = "gate"
    BY CountsPositive DEF LockGate, Out
<1>2. CallMoves(c, "reserve", current)
    BY <1>1 DEF LockGate, TypeOK, Call, CallMoves
<1>3. EntryMoves(0, 0)
    BY <1>1 DEF LockGate, Locked, TypeOK, Runtime, EntryMoves
<1>4. process' = process /\ current' = current
    BY DEF LockGate
<1>5. /\ 0 = In("reserve", PermitPC) - In(calls[c].pc, PermitPC)
      /\ 0 = In("reserve", UserPC) - In(calls[c].pc, UserPC)
      /\ current = 0 <=> "reserve" \in Out
    BY <1>1 DEF In, PermitPC, UserPC, Out, EntryIds
<1>6. Authority'
    BY <1>1, <1>2, <1>3, <1>4, <1>5, Accounted
<1> QED BY <1>2, <1>3, <1>6 DEF LockGate, TypeOK, CallMoves, EntryMoves

\* A call that leaves the entry in the map.
LEMMA LeaveStep ==
    ASSUME TypeOK, Authority, NEW c \in Calls, calls[c].pc \notin Out, NEW r \in Runtime,
           Leave(c, r), current' = current, process' = process,
           r.in_flight = entries[current].in_flight - In(calls[c].pc, PermitPC),
           r.gate_users >= entries[current].gate_users - In(calls[c].pc, UserPC)
    PROVE  /\ calls' \in [Calls -> Call] /\ entries' \in [EntryIds -> Runtime]
           /\ Authority'
           /\ calls'[c].pc = "done" /\ calls'[c].settled = calls[c].settled
           /\ \A d \in Calls \ {c} : calls'[d] = calls[d]
           /\ entries'[current] = r
<1>1. /\ current \in EntryIds /\ entries[current] \in Runtime /\ process # "down"
      /\ calls[c].entry = current
    BY CountsPositive
<1>2. CallMoves(c, "done", 0) /\ calls'[c].settled = calls[c].settled
    <2>1. calls \in [Calls -> Call]
        BY DEF TypeOK
    <2>2. calls' = [calls EXCEPT ![c].pc = "done", ![c].entry = 0]
        BY DEF Leave
    <2>3. calls' \in [Calls -> Call]
        BY <2>1, <2>2 DEF Call
    <2> QED BY <2>1, <2>2, <2>3 DEF Call, CallMoves
<1>3. /\ entries' \in [EntryIds -> Runtime] /\ entries'[current] = r
      /\ \A e \in EntryIds \ {current} : entries'[e] = entries[e]
    BY <1>1 DEF Leave, TypeOK
<1> DEFINE f == 0 - In(calls[c].pc, PermitPC)
           u == 0 - In(calls[c].pc, UserPC)
<1>4. In(calls[c].pc, PermitPC) \in Int /\ In(calls[c].pc, UserPC) \in Int
    BY DEF In
<1>5. EntryMoves(f, u)
    BY <1>1, <1>3, <1>4, Fields DEF EntryMoves
<1>6. /\ f = In("done", PermitPC) - In(calls[c].pc, PermitPC)
      /\ u = In("done", UserPC) - In(calls[c].pc, UserPC)
      /\ 0 = 0 <=> "done" \in Out
    BY DEF In, PermitPC, UserPC, Out
<1>7. f \in Int /\ u \in Int
    BY <1>4
<1> HIDE DEF f, u
<1>8. Authority'
    BY <1>1, <1>2, <1>5, <1>6, <1>7, Accounted
<1> QED BY <1>2, <1>3, <1>8 DEF CallMoves

\* The gate is opened and its user counted down.
LEMMA UnlockedType ==
    ASSUME NEW r \in Runtime, r.gate_users - 1 \in Nat
    PROVE  /\ Unlocked(r) \in Runtime /\ Unlocked(r).in_flight = r.in_flight
           /\ Unlocked(r).gate_users = r.gate_users - 1 /\ Unlocked(r).spend = r.spend
           /\ Unlocked(r).touched = r.touched
BY DEF Unlocked, Runtime

\* An admission that ends under the gate.
LEMMA LeaveUnlocked ==
    ASSUME TypeOK, Authority, NEW c \in Calls, calls[c].pc \in {"reserve", "refuse"},
           Leave(c, Unlocked(entries[calls[c].entry])),
           current' = current, process' = process
    PROVE  /\ calls' \in [Calls -> Call] /\ entries' \in [EntryIds -> Runtime]
           /\ Authority'
           /\ calls'[c].pc = "done" /\ calls'[c].settled = calls[c].settled
           /\ \A d \in Calls \ {c} : calls'[d] = calls[d]
           /\ current \in EntryIds /\ entries'[current].spend = entries[current].spend
<1>1. calls[c].pc \notin Out /\ calls[c].pc \in UserPC
    BY DEF Out, UserPC
<1>2. /\ calls[c].entry = current /\ entries[current] \in Runtime /\ current \in EntryIds
      /\ entries[current].gate_users - 1 \in Nat
    BY <1>1, CountsPositive
<1>3. In(calls[c].pc, PermitPC) = 0 /\ In(calls[c].pc, UserPC) = 1
    BY DEF In, PermitPC, UserPC
<1>4. /\ Unlocked(entries[current]) \in Runtime
      /\ Unlocked(entries[current]).in_flight = entries[current].in_flight - 0
      /\ Unlocked(entries[current]).gate_users >= entries[current].gate_users - 1
      /\ Unlocked(entries[current]).spend = entries[current].spend
    BY <1>2, UnlockedType, Fields
<1> QED BY <1>1, <1>2, <1>3, <1>4, LeaveStep

LEMMA ReserveStep ==
    ASSUME TypeOK, Authority, NEW c \in Calls, Reserve(c)
    PROVE  TypeOK' /\ Authority'
<1>1. PICK o \in Outcomes :
          /\ Paying(o) /\ Update(o, c, Admitted)
          /\ IF o = "done"
             THEN calls' = [calls EXCEPT ![c].pc = "check"] /\ UNCHANGED entries
             ELSE Leave(c, Unlocked(entries[calls[c].entry]))
    BY DEF Reserve
<1>2. budget' \in Scenario
    BY <1>1, PayingType
<1>3. intents' \in [Calls -> Intent]
    BY <1>1, UpdateType, IntentTypes DEF TypeOK
<1>4. calls' \in [Calls -> Call] /\ entries' \in [EntryIds -> Runtime] /\ Authority'
    <2>1. CASE o = "done"
        <3>0. PcTo(c, "check") /\ entries' = entries /\ "check" \in PCs
            BY <1>1, <2>1 DEF PcTo, PCs
        <3>1. /\ calls' \in [Calls -> Call] /\ entries' = entries
              /\ \A d \in Calls : /\ calls'[d].entry = calls[d].entry
                                  /\ calls'[d].pc = IF d = c THEN "check" ELSE calls[d].pc
            BY <3>0, PcToType
        <3>2. Authority'
            BY <3>1, SameAccount DEF Reserve, Out, PermitPC, UserPC
        <3> QED BY <3>1, <3>2 DEF TypeOK
    <2>2. CASE o # "done"
        BY <1>1, <2>2, LeaveUnlocked DEF Reserve
    <2> QED BY <2>1, <2>2
<1> QED BY <1>2, <1>3, <1>4 DEF Reserve, TypeOK

LEMMA InsufficientStep ==
    ASSUME TypeOK, Authority, NEW c \in Calls, Insufficient(c)
    PROVE  TypeOK' /\ Authority'
<1>1. calls' \in [Calls -> Call] /\ entries' \in [EntryIds -> Runtime] /\ Authority'
    BY LeaveUnlocked DEF Insufficient
<1> QED BY <1>1 DEF Insufficient, TypeOK

LEMMA CheckStep ==
    ASSUME TypeOK, Authority, NEW c \in Calls, Check(c)
    PROVE  TypeOK' /\ Authority'
<1> DEFINE q == Pruned(entries[calls[c].entry])
           r == [q EXCEPT !.touched = TRUE]
           within == r.in_flight < MaxInFlight /\ Spend(r) < BurnCap
           s == [Unlocked(r) EXCEPT !.in_flight = @ + 1]
<1>1. /\ calls[c].pc = "check"
      /\ entries' = [entries EXCEPT ![calls[c].entry] = IF within THEN s ELSE r]
      /\ calls' = [calls EXCEPT ![c].pc = IF within THEN "send" ELSE "refuse"]
      /\ UNCHANGED <<book, intents, provider, current, process, resolver, hour, budget>>
    BY DEF Check
<1>2. /\ calls[c].entry = current /\ current \in EntryIds /\ process # "down"
      /\ entries[current] \in Runtime /\ entries[current].gate_users - 1 \in Nat
    BY <1>1, CountsPositive DEF Out, UserPC
<1>3. /\ q \in Runtime /\ q.in_flight = entries[current].in_flight
      /\ q.gate_users = entries[current].gate_users
    BY <1>2, PrunedType
<1> HIDE DEF q
<1>4. /\ r \in Runtime /\ r.in_flight = entries[current].in_flight
      /\ r.gate_users = entries[current].gate_users
    BY <1>3 DEF Runtime
<1> HIDE DEF r, within
<1>5. /\ Unlocked(r) \in Runtime /\ Unlocked(r).in_flight = entries[current].in_flight
      /\ Unlocked(r).gate_users = entries[current].gate_users - 1
    BY <1>2, <1>4, UnlockedType
<1>6. /\ s \in Runtime /\ s.in_flight = entries[current].in_flight + 1
      /\ s.gate_users = entries[current].gate_users - 1
    BY <1>5 DEF Runtime
<1> HIDE DEF s
<1>7. CASE within
    <2>1. CallMoves(c, "send", current)
        BY <1>1, <1>2, <1>7 DEF TypeOK, Call, CallMoves, PermitPC
    <2>2. EntryMoves(1, -1)
        <3>1. entries' = [entries EXCEPT ![current] = s]
            BY <1>1, <1>2, <1>7
        <3>2. entries[current].in_flight \in Nat /\ entries[current].gate_users \in Nat
            BY <1>2, Fields
        <3> QED BY <1>2, <1>6, <3>1, <3>2 DEF TypeOK, EntryMoves
    <2>3. /\ 1 = In("send", PermitPC) - In(calls[c].pc, PermitPC)
          /\ -1 = In("send", UserPC) - In(calls[c].pc, UserPC)
          /\ current = 0 <=> "send" \in Out
        BY <1>1, <1>2 DEF In, PermitPC, UserPC, Out, EntryIds
    <2>4. Authority'
        BY <1>1, <1>2, <2>1, <2>2, <2>3, Accounted
    <2> QED BY <1>1, <2>1, <2>2, <2>4 DEF TypeOK, CallMoves, EntryMoves
<1>8. CASE ~within
    <2>1. CallMoves(c, "refuse", current)
        BY <1>1, <1>2, <1>8 DEF TypeOK, Call, CallMoves
    <2>2. EntryMoves(0, 0)
        <3>1. entries' = [entries EXCEPT ![current] = r]
            BY <1>1, <1>2, <1>8
        <3>2. entries[current].in_flight \in Nat /\ entries[current].gate_users \in Nat
            BY <1>2, Fields
        <3> QED BY <1>2, <1>4, <3>1, <3>2 DEF TypeOK, EntryMoves
    <2>3. /\ 0 = In("refuse", PermitPC) - In(calls[c].pc, PermitPC)
          /\ 0 = In("refuse", UserPC) - In(calls[c].pc, UserPC)
          /\ current = 0 <=> "refuse" \in Out
        BY <1>1, <1>2 DEF In, PermitPC, UserPC, Out, EntryIds
    <2>4. Authority'
        BY <1>1, <1>2, <2>1, <2>2, <2>3, Accounted
    <2> QED BY <1>1, <2>1, <2>2, <2>4 DEF TypeOK, CallMoves, EntryMoves
<1> QED BY <1>7, <1>8

LEMMA CloseRefusedStep ==
    ASSUME TypeOK, Authority, NEW c \in Calls, CloseRefused(c)
    PROVE  TypeOK' /\ Authority'
<1>1. PICK o \in Outcomes : Paying(o) /\ Update(o, c, NoCharge(intents[c]))
    BY DEF CloseRefused
<1>2. budget' \in Scenario
    BY <1>1, PayingType
<1>3. intents' \in [Calls -> Intent]
    BY <1>1, UpdateType, IntentTypes DEF TypeOK
<1>4. calls' \in [Calls -> Call] /\ entries' \in [EntryIds -> Runtime] /\ Authority'
    BY LeaveUnlocked DEF CloseRefused
<1> QED BY <1>2, <1>3, <1>4 DEF CloseRefused, TypeOK

LEMMA ServeStep ==
    ASSUME TypeOK, Authority, NEW c \in Calls, Serve(c)
    PROVE  TypeOK' /\ Authority'
<1>1. PICK w \in budget.responses : provider' = [provider EXCEPT ![c] = w]
    BY DEF Serve
<1>2. w \in Response
    BY <1>1 DEF TypeOK, Scenario
<1>3. Authority'
    BY SameAccount DEF Serve
<1> QED BY <1>1, <1>2, <1>3 DEF Serve, TypeOK

\* A step that moves a call within the class of its state.
LEMMA PcToAccount ==
    ASSUME TypeOK, Authority, NEW c \in Calls, NEW p \in PCs, PcTo(c, p),
           entries' = entries, current' = current, process' = process,
           p \in Out <=> calls[c].pc \in Out,
           p \in PermitPC <=> calls[c].pc \in PermitPC,
           p \in UserPC <=> calls[c].pc \in UserPC
    PROVE  Authority' /\ calls' \in [Calls -> Call]
<1>1. /\ calls' \in [Calls -> Call] /\ calls'[c].pc = p
      /\ \A d \in Calls : /\ calls'[d].entry = calls[d].entry
                          /\ d # c => calls'[d] = calls[d]
    BY PcToType
<1> QED BY <1>1, SameAccount

LEMMA RespondStep ==
    ASSUME TypeOK, Authority, NEW c \in Calls, Respond(c)
    PROVE  TypeOK' /\ Authority'
<1>1. PcTo(c, "drain") /\ calls[c].pc = "send"
    BY DEF Respond, PcTo
<1>2. Authority' /\ calls' \in [Calls -> Call]
    BY <1>1, PcToAccount DEF Respond, PCs, Out, PermitPC, UserPC
<1> QED BY <1>2 DEF Respond, TypeOK

LEMMA SendFailsStep ==
    ASSUME TypeOK, Authority, NEW c \in Calls, SendFails(c)
    PROVE  TypeOK' /\ Authority'
<1>1. PcTo(c, "abandon") /\ calls[c].pc = "send"
    BY DEF SendFails, PcTo
<1>2. Authority' /\ calls' \in [Calls -> Call]
    BY <1>1, PcToAccount DEF SendFails, PCs, Out, PermitPC, UserPC
<1>3. budget' \in Scenario
    BY PayingType DEF SendFails, Outcomes
<1> QED BY <1>2, <1>3 DEF SendFails, TypeOK

\* A failed request's call keeps its permit; whether its intent was closed is
\* remembered.
LEMMA AbandonCall ==
    ASSUME TypeOK, NEW c \in Calls, Abandon(c)
    PROVE  /\ calls' \in [Calls -> Call]
           /\ calls'[c].pc = "finish" /\ calls'[c].settled = calls[c].settled
           /\ calls'[c].abandoned <=> intents'[c] # intents[c]
           /\ \A d \in Calls : /\ calls'[d].entry = calls[d].entry
                               /\ d # c => calls'[d] = calls[d]
<1>1. calls \in [Calls -> Call]
    BY DEF TypeOK
<1> DEFINE b == intents'[c] # intents[c]
<1>2. calls' = [calls EXCEPT ![c].pc = "finish", ![c].abandoned = b]
    BY DEF Abandon
<1>3. b \in BOOLEAN
    OBVIOUS
<1> HIDE DEF b
<1>4. /\ calls' \in [Calls -> Call]
      /\ calls'[c].pc = "finish" /\ calls'[c].settled = calls[c].settled
      /\ calls'[c].abandoned = b
      /\ \A d \in Calls : calls'[d].entry = calls[d].entry /\ (d # c => calls'[d] = calls[d])
    BY <1>1, <1>2, <1>3 DEF Call, PermitPC
<1> QED BY <1>4 DEF b

LEMMA AbandonStep ==
    ASSUME TypeOK, Authority, NEW c \in Calls, Abandon(c)
    PROVE  TypeOK' /\ Authority'
<1>1. calls[c].pc = "abandon" /\ calls'[c].pc = "finish"
    BY AbandonCall DEF Abandon
<1>2. calls' \in [Calls -> Call]
    BY AbandonCall
<1>3. Authority'
    BY <1>1, AbandonCall, SameAccount DEF Abandon, Out, PermitPC, UserPC
<1>4. PICK o \in Outcomes : Paying(o) /\ Update(o, c, NoCharge(intents[c]))
    BY DEF Abandon
<1>5. budget' \in Scenario
    BY <1>4, PayingType
<1>6. intents' \in [Calls -> Intent]
    BY <1>4, UpdateType, IntentTypes DEF TypeOK
<1> QED BY <1>2, <1>3, <1>5, <1>6 DEF Abandon, TypeOK

\* A gate that is held or let go is the same otherwise.
LEMMA LockedType ==
    ASSUME NEW r \in Runtime, NEW h \in Calls \cup {"nobody"}
    PROVE  /\ Locked(r, h) \in Runtime /\ Locked(r, h).in_flight = r.in_flight
           /\ Locked(r, h).gate_users = r.gate_users /\ Locked(r, h).spend = r.spend
           /\ Locked(r, h).touched = r.touched
BY DEF Locked, Runtime

\* A future dropped at the gate leaves its registration behind.
LEMMA LeaveRegistered ==
    ASSUME TypeOK, Authority, NEW c \in Calls, calls[c].pc \in {"gate", "reserve", "refuse"},
           NEW r \in Runtime, r.in_flight = entries[current].in_flight,
           r.gate_users = entries[current].gate_users,
           Leave(c, r), current' = current, process' = process
    PROVE  /\ calls' \in [Calls -> Call] /\ entries' \in [EntryIds -> Runtime]
           /\ Authority'
           /\ calls'[c].pc = "done" /\ calls'[c].settled = calls[c].settled
           /\ \A d \in Calls \ {c} : calls'[d] = calls[d]
           /\ entries'[current] = r
<1>1. calls[c].pc \notin Out
    BY DEF Out
<1>2. current \in EntryIds
    BY <1>1, CountsPositive
<1>3. In(calls[c].pc, PermitPC) = 0 /\ In(calls[c].pc, UserPC) = 1
    BY DEF In, PermitPC, UserPC
<1>4. entries[current].in_flight \in Nat /\ entries[current].gate_users \in Nat
    BY <1>2, Fields
<1>5. /\ r.in_flight = entries[current].in_flight - In(calls[c].pc, PermitPC)
      /\ r.gate_users >= entries[current].gate_users - In(calls[c].pc, UserPC)
    BY <1>3, <1>4
<1> QED BY <1>1, <1>5, LeaveStep

LEMMA DisconnectStep ==
    ASSUME TypeOK, Authority, NEW c \in Calls, Disconnect(c)
    PROVE  TypeOK' /\ Authority'
<1>1. budget' \in Scenario
    BY DEF Disconnect, TypeOK, Scenario
<1>2. current' = current /\ process' = process
    BY DEF Disconnect
<1>3. intents[c] \in Intent /\ NoCharge(intents[c]) \in Intent /\ Admitted \in Intent
    BY IntentTypes DEF TypeOK
<1>4. calls[c].pc \notin Out =>
          /\ calls[c].entry = current /\ current \in EntryIds
          /\ entries[current] \in Runtime /\ process # "down"
    BY CountsPositive
<1>5. /\ calls' \in [Calls -> Call] /\ entries' \in [EntryIds -> Runtime]
      /\ intents' \in [Calls -> Intent] /\ Authority'
    <2>1. CASE calls[c].pc = "gate" /\ Leave(c, entries[calls[c].entry]) /\ UNCHANGED intents
        <3>1. calls[c].entry = current /\ entries[current] \in Runtime
            BY <1>4, <2>1 DEF Out
        <3>2. /\ calls' \in [Calls -> Call] /\ entries' \in [EntryIds -> Runtime]
              /\ Authority'
            BY <1>2, <2>1, <3>1, LeaveRegistered
        <3> QED BY <2>1, <3>2 DEF TypeOK
    <2>2. CASE /\ calls[c].pc \in {"reserve", "refuse"}
               /\ \E row \in {intents[c], Admitted, NoCharge(intents[c])} :
                     intents' = [intents EXCEPT ![c] = row]
               /\ Leave(c, Locked(entries[calls[c].entry], "nobody"))
        <3>1. calls[c].entry = current /\ entries[current] \in Runtime
            BY <1>4, <2>2 DEF Out
        <3> DEFINE r == Locked(entries[current], "nobody")
        <3>2. /\ r \in Runtime /\ r.in_flight = entries[current].in_flight
              /\ r.gate_users = entries[current].gate_users /\ Leave(c, r)
            BY <2>2, <3>1, LockedType
        <3> HIDE DEF r
        <3>3. /\ calls' \in [Calls -> Call] /\ entries' \in [EntryIds -> Runtime]
              /\ Authority'
            BY <1>2, <2>2, <3>2, LeaveRegistered
        <3>4. intents' \in [Calls -> Intent]
            BY <1>3, <2>2 DEF TypeOK
        <3> QED BY <3>3, <3>4
    <2>3. CASE /\ calls[c].pc \in {"send", "abandon"}
               /\ calls' = [calls EXCEPT ![c].pc = "drop"]
               /\ UNCHANGED <<intents, entries>>
        <3>1. PcTo(c, "drop")
            BY <2>3 DEF PcTo
        <3>2. Authority' /\ calls' \in [Calls -> Call]
            BY <1>2, <2>3, <3>1, PcToAccount DEF PCs, Out, PermitPC, UserPC
        <3> QED BY <2>3, <3>2 DEF TypeOK
    <2>4. CASE /\ calls[c].pc = "finish"
               /\ calls' = [calls EXCEPT ![c].pc = "drop"]
               /\ entries' = [entries EXCEPT ![calls[c].entry].gate_users = @ + 1]
               /\ UNCHANGED intents
        <3>1. /\ calls[c].entry = current /\ entries[current] \in Runtime
              /\ current \in EntryIds /\ process # "down"
            BY <1>4, <2>4 DEF Out
        <3>2. PcTo(c, "drop") /\ "drop" \in PCs
            BY <2>4 DEF PcTo, PCs, PermitPC
        <3>3. CallMoves(c, "drop", current)
            BY <3>1, <3>2, PcToType DEF CallMoves
        <3>4. EntryMoves(0, 0)
            <4>1. entries \in [EntryIds -> Runtime]
                BY DEF TypeOK
            <4> QED BY <2>4, <3>1, <4>1 DEF EntryMoves, Runtime
        <3>5. /\ 0 = In("drop", PermitPC) - In(calls[c].pc, PermitPC)
              /\ 0 = In("drop", UserPC) - In(calls[c].pc, UserPC)
              /\ current = 0 <=> "drop" \in Out
            BY <2>4, <3>1 DEF In, PermitPC, UserPC, Out, EntryIds
        <3>6. Authority'
            BY <1>2, <3>1, <3>3, <3>4, <3>5, Accounted
        <3> QED BY <2>4, <3>3, <3>4, <3>6 DEF TypeOK, CallMoves, EntryMoves
    <2> QED BY <2>1, <2>2, <2>3, <2>4 DEF Disconnect
<1> QED BY <1>1, <1>5 DEF Disconnect, TypeOK

LEMMA FinishStep ==
    ASSUME TypeOK, Authority, NEW c \in Calls, Finish(c)
    PROVE  TypeOK' /\ Authority'
<1> DEFINE r == [entries[current] EXCEPT !.in_flight = @ - 1, !.touched = TRUE]
<1>1. calls[c].pc \notin Out /\ calls[c].pc \in PermitPC
    BY DEF Finish, Out, PermitPC
<1>2. /\ calls[c].entry = current /\ current \in EntryIds /\ entries[current] \in Runtime
      /\ entries[current].in_flight - 1 \in Nat
    BY <1>1, CountsPositive
<1>3. /\ r \in Runtime /\ r.in_flight = entries[current].in_flight - 1
      /\ r.gate_users = entries[current].gate_users
    BY <1>2 DEF Runtime
<1>4. Leave(c, r) /\ current' = current /\ process' = process
    BY <1>2 DEF Finish
<1> HIDE DEF r
<1>5. In(calls[c].pc, PermitPC) = 1 /\ In(calls[c].pc, UserPC) = 0
    BY DEF Finish, In, PermitPC, UserPC
<1>6. entries[current].gate_users \in Nat /\ entries[current].in_flight \in Nat
    BY <1>2, Fields
<1>7. /\ r.in_flight = entries[current].in_flight - In(calls[c].pc, PermitPC)
      /\ r.gate_users >= entries[current].gate_users - In(calls[c].pc, UserPC)
    BY <1>3, <1>5, <1>6
<1>8. calls' \in [Calls -> Call] /\ entries' \in [EntryIds -> Runtime] /\ Authority'
    BY <1>1, <1>3, <1>4, <1>7, LeaveStep
<1> QED BY <1>8 DEF Finish, TypeOK

LEMMA BeginSettleStep ==
    ASSUME TypeOK, Authority, NEW c \in Calls, BeginSettle(c)
    PROVE  TypeOK' /\ Authority'
<1> DEFINE r == Locked(entries[current], c)
<1>1. /\ current \in EntryIds /\ entries[current] \in Runtime /\ process # "down"
      /\ calls[c].entry = current /\ calls[c].pc = "drain"
    BY CountsPositive DEF BeginSettle, Out
<1>2. PcTo(c, "settle") /\ "settle" \in PCs
    BY DEF BeginSettle, PcTo, PCs, PermitPC
<1>3. CallMoves(c, "settle", current)
    BY <1>1, <1>2, PcToType DEF CallMoves
<1>4. EntryMoves(0, 1)
    <2>1. /\ r \in Runtime /\ r.in_flight = entries[current].in_flight
          /\ r.gate_users = entries[current].gate_users
        BY <1>1, LockedType
    <2>2. entries' = [entries EXCEPT ![current] = [r EXCEPT !.gate_users = @ + 1]]
        BY <1>1 DEF BeginSettle
    <2>3. entries \in [EntryIds -> Runtime]
        BY DEF TypeOK
    <2> HIDE DEF r
    <2> QED BY <1>1, <2>1, <2>2, <2>3 DEF Runtime, EntryMoves
<1>5. process' = process /\ current' = current
    BY DEF BeginSettle
<1>6. /\ 0 = In("settle", PermitPC) - In(calls[c].pc, PermitPC)
      /\ 1 = In("settle", UserPC) - In(calls[c].pc, UserPC)
      /\ current = 0 <=> "settle" \in Out
    BY <1>1 DEF In, PermitPC, UserPC, Out, EntryIds
<1>7. Authority'
    BY <1>1, <1>3, <1>4, <1>5, <1>6, Accounted
<1> QED BY <1>3, <1>4, <1>7 DEF BeginSettle, TypeOK, CallMoves, EntryMoves

LEMMA SettleFailureStep ==
    ASSUME TypeOK, Authority, NEW c \in Calls, SettleFailure(c)
    PROVE  TypeOK' /\ Authority'
<1>1. PcTo(c, "release") /\ calls[c].pc = "settle"
    BY DEF SettleFailure, PcTo
<1>2. Authority' /\ calls' \in [Calls -> Call]
    BY <1>1, PcToAccount DEF SettleFailure, PCs, Out, PermitPC, UserPC
<1>3. PICK o \in Outcomes : Paying(o) /\ Update(o, c, NoCharge(intents[c]))
    BY DEF SettleFailure
<1>4. budget' \in Scenario
    BY <1>3, PayingType
<1>5. intents' \in [Calls -> Intent]
    BY <1>3, UpdateType, IntentTypes DEF TypeOK
<1> QED BY <1>2, <1>4, <1>5 DEF SettleFailure, TypeOK

LEMMA ReconcileStep ==
    ASSUME TypeOK, Authority, NEW c \in Calls, Reconcile(c)
    PROVE  TypeOK' /\ Authority'
<1>1. PcTo(c, "release") /\ calls[c].pc = "reconcile"
    BY DEF Reconcile, PcTo
<1>2. Authority' /\ calls' \in [Calls -> Call]
    BY <1>1, PcToAccount DEF Reconcile, PCs, Out, PermitPC, UserPC
<1>3. PICK o \in Outcomes : Paying(o) /\ Update(o, c, Reconciliation(intents[c]))
    BY DEF Reconcile
<1>4. budget' \in Scenario
    BY <1>3, PayingType
<1>5. intents' \in [Calls -> Intent]
    BY <1>3, UpdateType, IntentTypes DEF TypeOK
<1> QED BY <1>2, <1>4, <1>5 DEF Reconcile, TypeOK

\* A failed attempt is counted, and leads to another or to reconciliation.
LEMMA RetriedType ==
    ASSUME TypeOK, NEW c \in Calls, calls' = Retried(c)
    PROVE  /\ calls' \in [Calls -> Call]
           /\ calls'[c].pc \in {"settle", "reconcile"}
           /\ \A d \in Calls : /\ calls'[d].entry = calls[d].entry
                               /\ calls'[d].settled = calls[d].settled
                               /\ d # c => calls'[d] = calls[d]
<1>1. calls \in [Calls -> Call]
    BY DEF TypeOK
<1> DEFINE p == IF calls[c].attempt + 1 = MaxSettles THEN "reconcile" ELSE "settle"
<1>2. calls' = [calls EXCEPT ![c].attempt = @ + 1, ![c].pc = p]
    BY DEF Retried
<1>3. p \in {"settle", "reconcile"} /\ p \in PCs
    BY DEF PCs, PermitPC
<1> HIDE DEF p
<1>4. calls' \in [Calls -> Call]
    <2>1. calls[c].attempt + 1 \in Nat
        BY Fields
    <2>2. [calls[c] EXCEPT !.attempt = calls[c].attempt + 1, !.pc = p] \in Call
        BY <1>1, <1>3, <2>1 DEF Call, PCs
    <2> QED BY <1>1, <1>2, <2>2
<1> QED BY <1>1, <1>2, <1>3, <1>4 DEF Call

\* A settlement under way keeps its permit and its registration.
LEMMA SettlingAccount ==
    ASSUME TypeOK, Authority, NEW c \in Calls, calls[c].pc \in {"settle", "debit"},
           entries' = entries, current' = current, process' = process,
           calls'[c].pc \in {"settle", "debit", "reconcile", "release"},
           \A d \in Calls : calls'[d].entry = calls[d].entry /\ (d # c => calls'[d] = calls[d])
    PROVE  Authority'
BY SameAccount DEF Out, PermitPC, UserPC

LEMMA MarkCompletedStep ==
    ASSUME TypeOK, Authority, NEW c \in Calls, MarkCompleted(c)
    PROVE  TypeOK' /\ Authority'
<1>1. PICK o \in Outcomes :
          /\ Paying(o) /\ Update(o, c, ProviderCompleted(intents[c]))
          /\ calls' = IF o # "done" THEN Retried(c)
                      ELSE [calls EXCEPT ![c].pc = IF provider[c].basis = "none" THEN "reconcile"
                                                   ELSE "debit"]
    BY DEF MarkCompleted
<1>2. budget' \in Scenario
    BY <1>1, PayingType
<1>3. intents' \in [Calls -> Intent]
    BY <1>1, UpdateType, IntentTypes DEF TypeOK
<1> DEFINE p == IF provider[c].basis = "none" THEN "reconcile" ELSE "debit"
<1>4. calls' = Retried(c) \/ (PcTo(c, p) /\ p \in PCs /\ p \in {"reconcile", "debit"})
    BY <1>1 DEF PcTo, PCs, PermitPC
<1> HIDE DEF p
<1>5. /\ calls' \in [Calls -> Call]
      /\ calls'[c].pc \in {"settle", "debit", "reconcile", "release"}
      /\ \A d \in Calls : calls'[d].entry = calls[d].entry /\ (d # c => calls'[d] = calls[d])
    BY <1>4, RetriedType, PcToType
<1>6. Authority'
    BY <1>5, SettlingAccount DEF MarkCompleted
<1> QED BY <1>2, <1>3, <1>5, <1>6 DEF MarkCompleted, TypeOK

\* What the relay writes for a call is a ledger entry of that call.
LEMMA JobEntryType ==
    ASSUME TypeOK, NEW c \in Calls
    PROVE  /\ JobRef(c) \in Ref /\ JobRef(c).kind # "payment" /\ JobRef(c).of = c
           /\ provider[c].ok \in BOOLEAN /\ provider[c].id \in BOOLEAN
           /\ provider[c].exportId \in BOOLEAN /\ provider[c].bill \in Nat
           /\ [ref |-> JobRef(c), delta |-> -JobCost(c), rid |-> provider[c].id] \in LedgerEntry
<1>1. /\ provider[c].ok \in BOOLEAN /\ provider[c].id \in BOOLEAN
      /\ provider[c].exportId \in BOOLEAN /\ provider[c].bill \in Nat
    <2>1. provider[c] \in Response \/ provider[c] = Silent
        BY DEF TypeOK
    <2>2. CASE provider[c] = Silent
        BY <2>2 DEF Silent
    <2>3. CASE provider[c] \in Response
        BY <2>3 DEF Response
    <2> QED BY <2>1, <2>2, <2>3
<1>2. JobRef(c) \in Ref /\ JobRef(c).kind # "payment" /\ JobRef(c).of = c
    BY DEF JobRef, Ref
<1>3. JobCost(c) \in Int
    BY <1>1 DEF JobCost
<1>4. -JobCost(c) \in Int
    BY <1>3
<1> QED BY <1>1, <1>2, <1>4 DEF LedgerEntry

\* The row an acknowledged entry is found at.
LEMMA IndexOfType ==
    ASSUME NEW b \in Book, NEW ref, Recorded(b, ref)
    PROVE  /\ IndexOf(b, ref) \in DOMAIN b.ledger /\ IndexOf(b, ref) \in Nat
           /\ IndexOf(b, ref) > 0 /\ b.ledger[IndexOf(b, ref)].ref = ref
<1>1. IndexOf(b, ref) \in DOMAIN b.ledger /\ b.ledger[IndexOf(b, ref)].ref = ref
    BY DEF Recorded, IndexOf
<1>2. DOMAIN b.ledger = 1..Len(b.ledger) /\ Len(b.ledger) \in Nat
    BY DEF Book
<1> QED BY <1>1, <1>2

LEMMA DebitStep ==
    ASSUME TypeOK, Authority, NEW c \in Calls, Debit(c)
    PROVE  TypeOK' /\ Authority'
<1> DEFINE e == [ref |-> JobRef(c), delta |-> -JobCost(c), rid |-> provider[c].id]
           paid == ApplyEntry(book, e)
           i == IndexOf(paid, JobRef(c))
<1>1. PICK o \in Outcomes :
          /\ Paying(o) /\ book' = Written(o, book, paid)
          /\ Update(o, c, Debited(intents[c]))
          /\ calls' = IF o # "done" THEN Retried(c)
                      ELSE [calls EXCEPT ![c].pc = "release", ![c].settled = i]
    BY DEF Debit
<1>2. budget' \in Scenario
    BY <1>1, PayingType
<1>3. intents' \in [Calls -> Intent]
    BY <1>1, UpdateType, IntentTypes DEF TypeOK
<1>4. e \in LedgerEntry /\ e.ref = JobRef(c) /\ book \in Book
    BY JobEntryType DEF TypeOK
<1> HIDE DEF e
<1>5. paid \in Book /\ Recorded(paid, JobRef(c))
    BY <1>4, ApplyEntryType
<1>6. book' \in Book
    BY <1>1, <1>4, <1>5 DEF Written
<1> HIDE DEF paid
<1>7. i \in Nat
    BY <1>5, IndexOfType
<1> HIDE DEF i
<1>8. /\ calls' \in [Calls -> Call]
      /\ calls'[c].pc \in {"settle", "debit", "reconcile", "release"}
      /\ \A d \in Calls : calls'[d].entry = calls[d].entry /\ (d # c => calls'[d] = calls[d])
    <2>1. CASE o # "done"
        BY <1>1, <2>1, RetriedType
    <2>2. CASE o = "done"
        <3>1. calls \in [Calls -> Call] /\ "release" \in PCs
            BY DEF TypeOK, PCs, PermitPC
        <3>2. calls' = [calls EXCEPT ![c].pc = "release", ![c].settled = i]
            BY <1>1, <2>2
        <3>3. calls' \in [Calls -> Call]
            BY <1>7, <3>1, <3>2 DEF Call, PCs
        <3> QED BY <3>1, <3>2, <3>3 DEF Call
    <2> QED BY <2>1, <2>2
<1>9. Authority'
    BY <1>8, SettlingAccount DEF Debit
<1> QED BY <1>2, <1>3, <1>6, <1>8, <1>9 DEF Debit, TypeOK

\* A pushed row is one more row of the ring.
LEMMA PushedType ==
    ASSUME NEW r \in Runtime, NEW i \in Nat
    PROVE  /\ Pushed(r, i) \in Runtime /\ Pushed(r, i).in_flight = r.in_flight
           /\ Pushed(r, i).gate_users = r.gate_users
           /\ r.spend \subseteq Pushed(r, i).spend
           /\ Pushed(r, i).spend \subseteq r.spend \cup {i}
           /\ i # 0 /\ Cost(i) > 0 => i \in Pushed(r, i).spend
<1>1. r.spend \cup {i} \in SUBSET Nat
    BY DEF Runtime
<1> DEFINE n == IF i # 0 /\ Cost(i) > 0 THEN r.spend \cup {i} ELSE r.spend
<1>2. /\ n \in SUBSET Nat /\ r.spend \subseteq n /\ n \subseteq r.spend \cup {i}
      /\ i # 0 /\ Cost(i) > 0 => i \in n
    BY <1>1
<1>3. Pushed(r, i) = [r EXCEPT !.spend = n]
    BY DEF Pushed
<1> HIDE DEF n
<1> QED BY <1>2, <1>3 DEF Runtime

LEMMA ReleaseStep ==
    ASSUME TypeOK, Authority, NEW c \in Calls, Release(c)
    PROVE  TypeOK' /\ Authority'
<1> DEFINE r == Pushed(entries[current], calls[c].settled)
           q == Unlocked(r)
           s == [q EXCEPT !.in_flight = @ - 1, !.touched = TRUE]
<1>1. calls[c].pc = "release" /\ calls[c].pc \notin Out
    BY DEF Release, Out
<1>2. /\ calls[c].entry = current /\ current \in EntryIds /\ entries[current] \in Runtime
      /\ entries[current].in_flight - 1 \in Nat /\ entries[current].gate_users - 1 \in Nat
    BY <1>1, CountsPositive DEF PermitPC, UserPC
<1>3. /\ entries' = [entries EXCEPT ![calls[c].entry] = s]
      /\ calls' = [calls EXCEPT ![c].pc = "done", ![c].entry = 0]
      /\ current' = current /\ process' = process
    BY <1>2 DEF Release
<1>4. Leave(c, s)
    BY <1>3 DEF Leave
<1>5. /\ r \in Runtime /\ r.in_flight = entries[current].in_flight
      /\ r.gate_users = entries[current].gate_users
    BY <1>2, PushedType, Fields
<1> HIDE DEF r
<1>6. /\ q \in Runtime /\ q.in_flight = entries[current].in_flight
      /\ q.gate_users = entries[current].gate_users - 1
    BY <1>2, <1>5, UnlockedType
<1> HIDE DEF q
<1>7. /\ s \in Runtime /\ s.in_flight = entries[current].in_flight - 1
      /\ s.gate_users = entries[current].gate_users - 1
    BY <1>2, <1>6 DEF Runtime
<1> HIDE DEF s
<1>8. In(calls[c].pc, PermitPC) = 1 /\ In(calls[c].pc, UserPC) = 1
    BY <1>1 DEF In, PermitPC, UserPC
<1>9. /\ s.in_flight = entries[current].in_flight - In(calls[c].pc, PermitPC)
      /\ s.gate_users >= entries[current].gate_users - In(calls[c].pc, UserPC)
    BY <1>2, <1>7, <1>8
<1>10. calls' \in [Calls -> Call] /\ entries' \in [EntryIds -> Runtime] /\ Authority'
    BY <1>1, <1>3, <1>4, <1>7, <1>9, LeaveStep
<1> QED BY <1>10 DEF Release, TypeOK

LEMMA HaltStep ==
    ASSUME TypeOK, Authority, Halt, budget' \in Scenario
    PROVE  TypeOK' /\ Authority'
<1>1. calls' \in [Calls -> Call]
    <2>1. \A b \in BOOLEAN : [NewCall EXCEPT !.pc = "gone", !.abandoned = b] \in Call
        BY DEF NewCall, Call
    <2>2. \A c \in Calls : calls[c].abandoned \in BOOLEAN
        BY Fields
    <2> QED BY <2>1, <2>2 DEF Halt, Lost, TypeOK
<1>2. \A c \in Calls : calls'[c].pc \in Out /\ calls'[c].entry = 0
    BY DEF Halt, Lost, NewCall, Out, Authority, InMap
<1>3. NewRuntime \in Runtime /\ NewRuntime.in_flight = 0 /\ NewRuntime.gate_users = 0
    BY DEF NewRuntime, Runtime
<1>4. /\ entries' \in [EntryIds -> Runtime]
      /\ \A e \in EntryIds : entries'[e].in_flight = 0 /\ entries'[e].gate_users \in Nat
    BY <1>3 DEF Halt
<1>5. Authority'
    BY <1>2, <1>4, Quiet
<1> QED BY <1>1, <1>4, <1>5 DEF Halt, TypeOK

LEMMA RestartStep ==
    ASSUME TypeOK, Authority, Restart
    PROVE  TypeOK' /\ Authority'
<1>1. \A c \in Calls : calls'[c].pc \in Out /\ calls'[c].entry = 0
    BY DEF Restart, Authority, InMap
<1>2. Recent \in SUBSET Nat
    <2>1. DOMAIN book.ledger = 1..Len(book.ledger) /\ Len(book.ledger) \in Nat
        BY DEF TypeOK, Book
    <2> QED BY <2>1 DEF Recent
<1>3. /\ [NewRuntime EXCEPT !.spend = Recent, !.touched = TRUE] \in Runtime
      /\ NewRuntime \in Runtime
    BY <1>2 DEF NewRuntime, Runtime
<1>4. /\ entries' \in [EntryIds -> Runtime]
      /\ \A e \in EntryIds : entries'[e].in_flight = 0 /\ entries'[e].gate_users = 0
    BY <1>3 DEF Restart, NewRuntime
<1>5. Authority'
    BY <1>1, <1>4, Quiet
<1>6. 1 \in EntryIds
    <2>1. Cardinality(Calls) \in Nat
        BY FS_CardinalityType
    <2> QED BY <2>1 DEF EntryIds
<1>7. current' \in EntryIds \cup {0}
    BY <1>6 DEF Restart
<1> QED BY <1>4, <1>5, <1>7 DEF Restart, TypeOK

-----------------------------------------------------------------------------
(* The ledger and the resolver *)

\* The reference of a debit of call c.
DebitRef(ref, c) == ref \in Ref /\ ref.kind # "payment" /\ ref.of = c

\* What the resolver has decided to write is a debit of the call it is at; it
\* marks an intent resolved only when the call is debited.
Resolving ==
    /\ resolver.pc \in {"debit", "mark"} =>
          resolver.call \in Calls /\ DebitRef(resolver.ref, resolver.call)
    /\ resolver.pc = "mark" => Debits(book, resolver.call) # {}
    /\ \A c \in Calls : intents[c].correction_ref # NoRef =>
                            DebitRef(intents[c].correction_ref, c)

\* The only step of the ledger.
Applied(e) == book' = ApplyEntry(book, e)
LedgerMoves == book' = book \/ \E e \in LedgerEntry : Applied(e)

\* Debits are never lost or rewritten.
LEMMA DebitsGrow ==
    ASSUME TypeOK, LedgerMoves
    PROVE  /\ book' \in Book
           /\ DOMAIN book.ledger \subseteq DOMAIN book'.ledger
           /\ \A i \in DOMAIN book.ledger : book'.ledger[i] = book.ledger[i]
           /\ \A c : Debits(book, c) \subseteq Debits(book', c)
<1>1. book \in Book
    BY DEF TypeOK
<1>2. /\ book' \in Book
      /\ DOMAIN book.ledger \subseteq DOMAIN book'.ledger
      /\ \A i \in DOMAIN book.ledger : book'.ledger[i] = book.ledger[i]
    <2>1. CASE book' = book
        BY <1>1, <2>1
    <2>2. CASE \E e \in LedgerEntry : Applied(e)
        BY <1>1, <2>2, ApplyEntryType DEF Applied
    <2> QED BY <2>1, <2>2 DEF LedgerMoves
<1> QED BY <1>2 DEF Debits

\* A debit that is written is there.
LEMMA DebitRecorded ==
    ASSUME NEW b \in Book, NEW e \in LedgerEntry, NEW c, DebitRef(e.ref, c)
    PROVE  Debits(ApplyEntry(b, e), c) # {}
<1>1. Recorded(ApplyEntry(b, e), e.ref)
    BY ApplyEntryType
<1> QED BY <1>1 DEF Recorded, Debits, DebitRef

\* What the resolver writes for a call is a ledger entry of that call.
LEMMA CorrectionType ==
    ASSUME TypeOK, Resolving, NEW c \in Calls
    PROVE  DebitRef(CorrectionRef(c), c)
<1>1. CASE intents[c].correction_ref # NoRef
    BY <1>1 DEF CorrectionRef, Resolving
<1>2. CASE intents[c].correction_ref = NoRef
    BY <1>2 DEF CorrectionRef, DebitRef, Ref
<1> QED BY <1>1, <1>2

ResolverType == [pc : {"idle", "next", "debit", "mark"}, rows : SUBSET Calls,
                 call : Calls \cup {"nobody"}, ref : Ref \cup {NoRef}]

LEMMA AfterType ==
    ASSUME TypeOK, NEW c \in Calls
    PROVE  After(c) \in ResolverType /\ After(c).pc \in {"idle", "next"}
<1>1. resolver.rows \ {c} \in SUBSET Calls
    BY DEF TypeOK
<1> DEFINE n == resolver.rows \ {c}
<1>2. Idle \in ResolverType /\ Idle.pc = "idle"
    BY DEF Idle, ResolverType
<1> HIDE DEF n
<1>3. [Idle EXCEPT !.pc = "next", !.rows = n] \in ResolverType
    BY <1>1 DEF Idle, ResolverType, n
<1>4. [Idle EXCEPT !.pc = "next", !.rows = n].pc = "next"
    BY DEF Idle
<1> QED BY <1>2, <1>3, <1>4 DEF After, n

LEMMA ResolveStartStep ==
    ASSUME TypeOK, Authority, Resolving, ResolveStart
    PROVE  TypeOK' /\ Authority' /\ Resolving'
<1>1. PICK rows \in SUBSET {c \in Pending : Billed(c)} :
          resolver' = [Idle EXCEPT !.pc = "next", !.rows = rows]
    BY DEF ResolveStart
<1>2. rows \in SUBSET Calls
    BY DEF Pending
<1>3. resolver' \in ResolverType /\ resolver'.pc = "next"
    BY <1>1, <1>2 DEF Idle, ResolverType
<1>4. budget' \in Scenario
    BY DEF ResolveStart, TypeOK, Scenario
<1>5. Authority'
    BY SameAccount DEF ResolveStart
<1>6. Resolving'
    BY <1>3 DEF ResolveStart, Resolving
<1> QED BY <1>3, <1>4, <1>5, <1>6 DEF ResolveStart, TypeOK, ResolverType

LEMMA ResolveReadStep ==
    ASSUME TypeOK, Authority, Resolving, NEW c \in Calls, ResolveRead(c)
    PROVE  TypeOK' /\ Authority' /\ Resolving'
<1>1. UNCHANGED <<book, intents, provider, calls, current, entries, process, hour, budget>>
    BY DEF ResolveRead
<1>2. resolver \in ResolverType
    BY DEF TypeOK, ResolverType
<1>3. /\ resolver' \in ResolverType
      /\ resolver'.pc \in {"debit", "mark"} =>
            resolver'.call = c /\ DebitRef(resolver'.ref, c)
      /\ resolver'.pc = "mark" => Debits(book, c) # {}
    <2>1. CASE resolver' = After(c)
        BY <2>1, AfterType
    <2>2. CASE /\ Correlated(c) # {}
               /\ resolver' = [resolver EXCEPT !.pc = "mark", !.call = c,
                                   !.ref = book.ledger[CHOOSE i \in Correlated(c) : TRUE].ref]
        <3> DEFINE i == CHOOSE j \in Correlated(c) : TRUE
        <3>1. i \in Correlated(c)
            BY <2>2
        <3> HIDE DEF i
        <3>2. i \in Debits(book, c)
            BY <3>1 DEF Correlated
        <3>3. DebitRef(book.ledger[i].ref, c)
            <4>1. book.ledger \in Seq(LedgerEntry) /\ i \in DOMAIN book.ledger
                BY <3>2 DEF Debits, TypeOK, Book
            <4>2. book.ledger[i] \in LedgerEntry
                BY <4>1
            <4> QED BY <3>2, <4>2 DEF Debits, DebitRef, LedgerEntry
        <3>4. book.ledger[i].ref \in Ref \cup {NoRef}
            BY <3>3 DEF DebitRef
        <3>5. resolver' = [resolver EXCEPT !.pc = "mark", !.call = c, !.ref = book.ledger[i].ref]
            BY <2>2 DEF i
        <3>6. /\ resolver' \in ResolverType /\ resolver'.pc = "mark" /\ resolver'.call = c
              /\ resolver'.ref = book.ledger[i].ref
            BY <1>2, <3>4, <3>5 DEF ResolverType
        <3> QED BY <3>2, <3>3, <3>6
    <2>3. CASE resolver' = [resolver EXCEPT !.pc = "debit", !.call = c, !.ref = CorrectionRef(c)]
        <3>1. DebitRef(CorrectionRef(c), c)
            BY CorrectionType
        <3>2. CorrectionRef(c) \in Ref \cup {NoRef}
            BY <3>1 DEF DebitRef
        <3>3. /\ resolver' \in ResolverType /\ resolver'.pc = "debit" /\ resolver'.call = c
              /\ resolver'.ref = CorrectionRef(c)
            BY <1>2, <2>3, <3>2 DEF ResolverType
        <3> QED BY <3>1, <3>3
    <2> QED BY <2>1, <2>2, <2>3 DEF ResolveRead
<1>4. Authority'
    BY <1>1, SameAccount
<1>5. Resolving'
    BY <1>1, <1>3 DEF Resolving
<1> QED BY <1>1, <1>3, <1>4, <1>5 DEF TypeOK, ResolverType

\* Where an UPDATE may leave a row.
LEMMA UpdateAt ==
    ASSUME TypeOK, NEW o, NEW c \in Calls, NEW row \in Intent, Update(o, c, row)
    PROVE  /\ intents'[c] = IF o = "failed" THEN intents[c] ELSE row
           /\ \A d \in Calls \ {c} : intents'[d] = intents[d]
BY DEF TypeOK, Update, Written

LEMMA CorrectionRefKept ==
    ASSUME NEW row \in Intent
    PROVE  /\ ProviderCompleted(row).correction_ref = row.correction_ref
           /\ Debited(row).correction_ref = row.correction_ref
           /\ NoCharge(row).correction_ref = row.correction_ref
           /\ Reconciliation(row).correction_ref = row.correction_ref
           /\ Admitted.correction_ref = NoRef
           /\ \A ref : Resolved(row, ref).correction_ref = ref
BY DEF ProviderCompleted, Debited, NoCharge, Reconciliation, Admitted, Resolved, Moved, Intent,
       NoIntent

LEMMA ResolveDebitStep ==
    ASSUME TypeOK, Authority, Resolving, ResolveDebit
    PROVE  TypeOK' /\ Authority' /\ Resolving'
<1> DEFINE c == resolver.call
           e == [ref |-> resolver.ref, delta |-> -provider[c].bill, rid |-> provider[c].exportId]
<1>1. PICK o \in Outcomes :
          /\ Paying(o) /\ book' = Written(o, book, ApplyEntry(book, e))
          /\ Update(o, c, Debited(intents[c]))
          /\ resolver' = IF o = "done" THEN [resolver EXCEPT !.pc = "mark"] ELSE Idle
    BY DEF ResolveDebit
<1>2. c \in Calls /\ DebitRef(resolver.ref, c) /\ book \in Book
    BY DEF ResolveDebit, Resolving, TypeOK
<1>3. e \in LedgerEntry /\ e.ref = resolver.ref
    <2>1. provider[c].exportId \in BOOLEAN /\ provider[c].bill \in Nat
        BY <1>2, JobEntryType
    <2>2. -provider[c].bill \in Int /\ resolver.ref \in Ref
        BY <1>2, <2>1 DEF DebitRef
    <2> QED BY <2>1, <2>2 DEF LedgerEntry
<1>4. resolver \in ResolverType
    BY DEF TypeOK, ResolverType
<1> HIDE DEF c, e
<1>5. /\ LedgerMoves /\ book' \in Book
      /\ o = "done" => Debits(book', c) # {}
    <2>1. ApplyEntry(book, e) \in Book /\ Debits(ApplyEntry(book, e), c) # {}
        BY <1>2, <1>3, ApplyEntryType, DebitRecorded
    <2> QED BY <1>1, <1>2, <1>3, <2>1 DEF LedgerMoves, Applied, Written
<1>6. budget' \in Scenario
    BY <1>1, PayingType
<1>7. intents[c] \in Intent /\ Debited(intents[c]) \in Intent
    BY <1>2, IntentTypes DEF TypeOK
<1>8. intents' \in [Calls -> Intent]
    BY <1>1, <1>2, <1>7, UpdateType
<1>9. /\ resolver' \in ResolverType
      /\ resolver'.pc \in {"debit", "mark"} =>
            /\ resolver'.pc = "mark" /\ o = "done"
            /\ resolver'.call = c /\ resolver'.ref = resolver.ref
    BY <1>1, <1>4 DEF ResolverType, Idle, c
<1>10. \A d \in Calls : intents'[d].correction_ref = intents[d].correction_ref
    <2>1. Debited(intents[c]).correction_ref = intents[c].correction_ref
        BY <1>7, CorrectionRefKept
    <2>2. /\ intents'[c] \in {intents[c], Debited(intents[c])}
          /\ \A d \in Calls \ {c} : intents'[d] = intents[d]
        BY <1>1, <1>2, <1>7, UpdateAt
    <2> QED BY <2>1, <2>2
<1>11. Resolving'
    BY <1>2, <1>5, <1>9, <1>10 DEF Resolving
<1>12. Authority'
    BY SameAccount DEF ResolveDebit
<1> QED BY <1>5, <1>6, <1>8, <1>9, <1>11, <1>12 DEF ResolveDebit, TypeOK, ResolverType

LEMMA ResolveMarkStep ==
    ASSUME TypeOK, Authority, Resolving, ResolveMark
    PROVE  TypeOK' /\ Authority' /\ Resolving'
<1> DEFINE c == resolver.call
<1>1. PICK o \in Outcomes :
          /\ Paying(o) /\ Update(o, c, Resolved(intents[c], resolver.ref))
          /\ resolver' = IF o = "done" THEN After(c) ELSE Idle
    BY DEF ResolveMark
<1>2. c \in Calls /\ DebitRef(resolver.ref, c)
    BY DEF ResolveMark, Resolving
<1>3. /\ intents[c] \in Intent /\ Resolved(intents[c], resolver.ref) \in Intent
      /\ Resolved(intents[c], resolver.ref).correction_ref = resolver.ref
    BY <1>2, IntentTypes, CorrectionRefKept DEF TypeOK, DebitRef
<1> HIDE DEF c
<1>4. budget' \in Scenario
    BY <1>1, PayingType
<1>5. intents' \in [Calls -> Intent]
    BY <1>1, <1>2, <1>3, UpdateType
<1>6. resolver' \in ResolverType /\ resolver'.pc \in {"idle", "next"}
    <2>1. Idle \in ResolverType /\ Idle.pc = "idle"
        BY DEF Idle, ResolverType
    <2> QED BY <1>1, <1>2, <2>1, AfterType
<1>7. \A d \in Calls : intents'[d].correction_ref \in
                           {intents[d].correction_ref} \cup IF d = c THEN {resolver.ref} ELSE {}
    BY <1>1, <1>2, <1>3, UpdateAt
<1>8. Resolving'
    <2>1. \A d \in Calls : intents'[d].correction_ref # NoRef =>
                               DebitRef(intents'[d].correction_ref, d)
        BY <1>2, <1>7 DEF Resolving
    <2> QED BY <1>6, <2>1 DEF Resolving, DebitRef, Ref
<1>9. Authority'
    BY SameAccount DEF ResolveMark
<1> QED BY <1>4, <1>5, <1>6, <1>8, <1>9 DEF ResolveMark, TypeOK, ResolverType

-----------------------------------------------------------------------------
(* The first theorem: types, and one authority for the account *)

\* The steps of a call, of the relay, and of the resolver.
CallStep(c) ==
    \/ Register(c) \/ RegisterFresh(c) \/ Refused(c) \/ LockGate(c) \/ Reserve(c)
    \/ Insufficient(c) \/ Check(c) \/ CloseRefused(c)
    \/ Serve(c) \/ Respond(c) \/ SendFails(c) \/ Abandon(c) \/ Disconnect(c) \/ Finish(c)
    \/ BeginSettle(c) \/ SettleFailure(c) \/ MarkCompleted(c) \/ Debit(c) \/ Reconcile(c)
    \/ Release(c)

RelayStep ==
    Crash \/ Close \/ Exit \/ Restart \/ HourPasses \/ \E p \in Purchases : Credit(p)

ResolverStep ==
    ResolveStart \/ (\E c \in Calls : ResolveRead(c)) \/ ResolveDebit \/ ResolveMark

LEMMA NextSteps ==
    ASSUME Next
    PROVE  (\E c \in Calls : CallStep(c)) \/ RelayStep \/ ResolverStep
BY DEF Next, CallStep, RelayStep, ResolverStep

\* What a call's own steps may write to its intent.
RowMoves(c) ==
    /\ \A d \in Calls \ {c} : intents'[d] = intents[d]
    /\ \/ intents'[c] = intents[c]
       \/ calls[c].pc = "reserve" /\ intents'[c] = Admitted
       \/ calls[c].pc \in {"refuse", "abandon"} /\ intents'[c] = NoCharge(intents[c])
       \/ calls[c].pc = "settle" /\ ~Billed(c) /\ intents'[c] = NoCharge(intents[c])
       \/ calls[c].pc = "settle" /\ Billed(c) /\ intents'[c] = ProviderCompleted(intents[c])
       \/ /\ calls[c].pc = "debit" /\ intents'[c] = Debited(intents[c])
          /\ Debits(book', c) # {}
       \/ calls[c].pc = "reconcile" /\ intents'[c] = Reconciliation(intents[c])

LEMMA CallRows ==
    ASSUME TypeOK, NEW c \in Calls, CallStep(c)
    PROVE  RowMoves(c) /\ LedgerMoves /\ resolver' = resolver
<1>1. /\ intents[c] \in Intent /\ NoCharge(intents[c]) \in Intent /\ Admitted \in Intent
      /\ ProviderCompleted(intents[c]) \in Intent /\ Debited(intents[c]) \in Intent
      /\ Reconciliation(intents[c]) \in Intent
    BY IntentTypes DEF TypeOK
<1>2. ASSUME UNCHANGED <<book, intents, resolver>>
      PROVE  RowMoves(c) /\ LedgerMoves /\ resolver' = resolver
    BY <1>2 DEF RowMoves, LedgerMoves
<1>3. CASE \/ Register(c) \/ RegisterFresh(c) \/ Refused(c) \/ LockGate(c) \/ Insufficient(c)
           \/ Check(c) \/ Serve(c) \/ Respond(c) \/ SendFails(c) \/ Finish(c)
           \/ BeginSettle(c) \/ Release(c)
    <2>1. UNCHANGED <<book, intents, resolver>>
        BY <1>3 DEF Register, RegisterFresh, Refused, LockGate, Insufficient, Check, Serve,
                    Respond, SendFails, Finish, BeginSettle, Release
    <2> QED BY <1>2, <2>1
<1>4. CASE Reserve(c)
    <2>1. PICK o \in Outcomes : Update(o, c, Admitted)
        BY <1>4 DEF Reserve
    <2> QED BY <1>1, <1>4, <2>1, UpdateAt DEF Reserve, RowMoves, LedgerMoves
<1>5. CASE CloseRefused(c)
    <2>1. PICK o \in Outcomes : Update(o, c, NoCharge(intents[c]))
        BY <1>5 DEF CloseRefused
    <2> QED BY <1>1, <1>5, <2>1, UpdateAt DEF CloseRefused, RowMoves, LedgerMoves
<1>6. CASE Abandon(c)
    <2>1. PICK o \in Outcomes : Update(o, c, NoCharge(intents[c]))
        BY <1>6 DEF Abandon
    <2> QED BY <1>1, <1>6, <2>1, UpdateAt DEF Abandon, RowMoves, LedgerMoves
<1>7. CASE SettleFailure(c)
    <2>1. PICK o \in Outcomes : Update(o, c, NoCharge(intents[c]))
        BY <1>7 DEF SettleFailure
    <2> QED BY <1>1, <1>7, <2>1, UpdateAt DEF SettleFailure, RowMoves, LedgerMoves, Billed
<1>8. CASE MarkCompleted(c)
    <2>1. PICK o \in Outcomes : Update(o, c, ProviderCompleted(intents[c]))
        BY <1>8 DEF MarkCompleted
    <2> QED BY <1>1, <1>8, <2>1, UpdateAt DEF MarkCompleted, RowMoves, LedgerMoves, Billed
<1>9. CASE Reconcile(c)
    <2>1. PICK o \in Outcomes : Update(o, c, Reconciliation(intents[c]))
        BY <1>9 DEF Reconcile
    <2> QED BY <1>1, <1>9, <2>1, UpdateAt DEF Reconcile, RowMoves, LedgerMoves
<1>10. CASE Debit(c)
    <2> DEFINE e == [ref |-> JobRef(c), delta |-> -JobCost(c), rid |-> provider[c].id]
    <2>1. PICK o \in Outcomes : /\ book' = Written(o, book, ApplyEntry(book, e))
                                /\ Update(o, c, Debited(intents[c]))
        BY <1>10 DEF Debit
    <2>2. e \in LedgerEntry /\ DebitRef(e.ref, c) /\ book \in Book
        BY JobEntryType DEF TypeOK, DebitRef
    <2> HIDE DEF e
    <2>3. Debits(ApplyEntry(book, e), c) # {}
        BY <2>2, DebitRecorded
    <2>4. LedgerMoves /\ (o # "failed" => Debits(book', c) # {})
        BY <2>1, <2>2, <2>3 DEF Written, LedgerMoves, Applied
    <2> QED BY <1>1, <1>10, <2>1, <2>4, UpdateAt DEF Debit, RowMoves
<1>11. CASE Disconnect(c)
    <2>1. book' = book /\ resolver' = resolver
        BY <1>11 DEF Disconnect
    <2>2. intents' = intents \/ \E row \in Intent :
              /\ intents' = [intents EXCEPT ![c] = row]
              /\ \/ row = intents[c]
                 \/ calls[c].pc = "reserve" /\ row = Admitted
                 \/ calls[c].pc = "refuse" /\ row = NoCharge(intents[c])
        <3>1. CASE UNCHANGED intents
            BY <3>1
        <3>2. CASE /\ calls[c].pc = "reserve"
                   /\ \E row \in {intents[c], Admitted} : intents' = [intents EXCEPT ![c] = row]
            BY <1>1, <3>2
        <3>3. CASE /\ calls[c].pc = "refuse"
                   /\ \E row \in {intents[c], NoCharge(intents[c])} :
                          intents' = [intents EXCEPT ![c] = row]
            BY <1>1, <3>3
        <3> QED BY <1>11, <3>1, <3>2, <3>3 DEF Disconnect
    <2> QED BY <2>1, <2>2 DEF RowMoves, LedgerMoves, TypeOK
<1> QED BY <1>3, <1>4, <1>5, <1>6, <1>7, <1>8, <1>9, <1>10, <1>11 DEF CallStep

\* A call's own steps leave the resolver's decision valid.
LEMMA CallResolving ==
    ASSUME TypeOK, Resolving, NEW c \in Calls, CallStep(c)
    PROVE  Resolving'
<1>1. RowMoves(c) /\ LedgerMoves /\ resolver' = resolver
    BY CallRows
<1>2. \A d : Debits(book, d) \subseteq Debits(book', d)
    BY <1>1, DebitsGrow
<1>3. intents[c] \in Intent
    BY DEF TypeOK
<1>4. intents'[c].correction_ref \in {intents[c].correction_ref, NoRef}
    BY <1>1, <1>3, CorrectionRefKept DEF RowMoves
<1>5. \A d \in Calls : intents'[d].correction_ref \in {intents[d].correction_ref, NoRef}
    BY <1>1, <1>4 DEF RowMoves
<1> QED BY <1>1, <1>2, <1>5 DEF Resolving

LEMMA CallTypes ==
    ASSUME TypeOK, Authority, NEW c \in Calls, CallStep(c)
    PROVE  TypeOK' /\ Authority'
BY RegisterStep, RegisterFreshStep, RefusedStep, LockGateStep, ReserveStep, InsufficientStep,
   CheckStep, CloseRefusedStep, ServeStep, RespondStep, SendFailsStep, AbandonStep,
   DisconnectStep, FinishStep, BeginSettleStep, SettleFailureStep, MarkCompletedStep, DebitStep,
   ReconcileStep, ReleaseStep DEF CallStep

LEMMA RelayTypes ==
    ASSUME TypeOK, Authority, Resolving, RelayStep
    PROVE  /\ TypeOK' /\ Authority' /\ Resolving'
           /\ LedgerMoves /\ UNCHANGED <<intents, provider, resolver>>
<1>1. ASSUME UNCHANGED <<intents, resolver>>, LedgerMoves
      PROVE  Resolving'
    <2>1. \A d : Debits(book, d) \subseteq Debits(book', d)
        BY <1>1, DebitsGrow
    <2> QED BY <1>1, <2>1 DEF Resolving
<1>2. CASE Crash \/ Exit
    <2>1. budget' \in Scenario
        BY <1>2 DEF Crash, Exit, TypeOK, Scenario
    <2>2. Halt
        BY <1>2 DEF Crash, Exit
    <2>3. TypeOK' /\ Authority'
        BY <2>1, <2>2, HaltStep
    <2>4. UNCHANGED <<book, intents, provider, resolver>> /\ LedgerMoves
        BY <2>2 DEF Halt, LedgerMoves
    <2> QED BY <1>1, <2>3, <2>4
<1>3. CASE Close
    <2>1. budget' \in Scenario
        BY <1>3 DEF Close, TypeOK, Scenario
    <2>2. UNCHANGED <<book, intents, provider, resolver>> /\ LedgerMoves
        BY <1>3 DEF Close, LedgerMoves
    <2>3. InMap'
        BY <1>3 DEF Close, Authority, InMap
    <2>4. Counted'
        BY <1>3 DEF Close, Authority, Counted, Permits, Users, EntryIds
    <2>5. TypeOK'
        BY <1>3, <2>1 DEF Close, TypeOK
    <2> QED BY <1>1, <2>2, <2>3, <2>4, <2>5 DEF Authority
<1>4. CASE Restart
    <2>1. UNCHANGED <<book, intents, provider, resolver>> /\ LedgerMoves
        BY <1>4 DEF Restart, LedgerMoves
    <2> QED BY <1>1, <1>4, <2>1, RestartStep
<1>5. CASE HourPasses
    <2>1. budget' \in Scenario /\ hour' \in Nat
        <3>1. hour' \in Nat
            BY <1>5 DEF HourPasses, TypeOK
        <3>2. /\ budget \in Scenario /\ budget' = [budget EXCEPT !.hours = @ - 1]
              /\ budget.hours > 0
            BY <1>5 DEF HourPasses, TypeOK
        <3>3. budget' \in Scenario
            BY <3>2 DEF Scenario
        <3> QED BY <3>1, <3>3
    <2>2. UNCHANGED <<book, intents, provider, resolver>> /\ LedgerMoves
        BY <1>5 DEF HourPasses, LedgerMoves
    <2>3. Authority'
        BY <1>5, SameAccount DEF HourPasses
    <2>4. TypeOK'
        BY <1>5, <2>1 DEF HourPasses, TypeOK
    <2> QED BY <1>1, <2>2, <2>3, <2>4
<1>6. CASE \E p \in Purchases : Credit(p)
    <2>1. PICK p \in Purchases : Credit(p)
        BY <1>6
    <2> DEFINE e == [ref |-> [kind |-> "payment", of |-> p], delta |-> Amount, rid |-> FALSE]
    <2>2. e \in LedgerEntry
        BY DEF LedgerEntry, Ref
    <2>3. Applied(e)
        BY <2>1 DEF Credit, Applied
    <2>4. budget' \in Scenario
        BY <2>1 DEF Credit, TypeOK, Scenario
    <2> HIDE DEF e
    <2>5. LedgerMoves
        BY <2>2, <2>3 DEF LedgerMoves
    <2>6. book' \in Book
        BY <2>5, DebitsGrow
    <2>7. Authority'
        BY <2>1, SameAccount DEF Credit
    <2>8. TypeOK'
        BY <2>1, <2>4, <2>6 DEF Credit, TypeOK
    <2> QED BY <1>1, <2>1, <2>5, <2>7, <2>8 DEF Credit
<1> QED BY <1>2, <1>3, <1>4, <1>5, <1>6 DEF RelayStep

\* The invariant of admission, which every step keeps.
Base == TypeOK /\ Authority /\ Resolving

LEMMA BaseStep ==
    ASSUME Base, [Next]_vars
    PROVE  Base'
<1>1. CASE UNCHANGED vars
    <2>1. TypeOK'
        BY <1>1 DEF Base, vars, TypeOK
    <2>2. Authority'
        BY <1>1, SameAccount DEF Base, vars
    <2>3. Resolving'
        BY <1>1 DEF Base, vars, Resolving
    <2> QED BY <2>1, <2>2, <2>3 DEF Base
<1>2. CASE \E c \in Calls : CallStep(c)
    BY <1>2, CallTypes, CallResolving DEF Base
<1>3. CASE RelayStep
    BY <1>3, RelayTypes DEF Base
<1>4. CASE ResolverStep
    BY <1>4, ResolveStartStep, ResolveReadStep, ResolveDebitStep, ResolveMarkStep
       DEF Base, ResolverStep
<1> QED BY <1>1, <1>2, <1>3, <1>4, NextSteps

LEMMA BaseInit ==
    ASSUME Init
    PROVE  Base
<1>1. budget \in Scenario
    BY DEF Init
<1>2. /\ NoIntent \in Intent /\ NewCall \in Call /\ NewRuntime \in Runtime
      /\ << >> \in Seq(LedgerEntry)
    BY DEF NoIntent, Intent, NewCall, Call, NewRuntime, Runtime
<1>3. book \in Book
    <2>1. budget.start \in Int
        BY <1>1 DEF Scenario
    <2> QED BY <1>2, <2>1 DEF Init, Book
<1>4. resolver \in ResolverType /\ resolver.pc = "idle"
    BY DEF Init, Idle, ResolverType
<1>5. TypeOK
    BY <1>1, <1>2, <1>3, <1>4 DEF Init, TypeOK, ResolverType
<1>6. \A c \in Calls : calls[c].pc \in Out /\ calls[c].entry = 0
    BY DEF Init, NewCall, Out
<1>7. InMap
    BY <1>6 DEF InMap
<1>8. Counted
    <2> SUFFICES ASSUME NEW e \in EntryIds
                 PROVE  /\ entries[e].in_flight = Cardinality(Permits(calls, e))
                        /\ entries[e].gate_users >= Cardinality(Users(calls, e))
        BY DEF Counted
    <2>1. Permits(calls, e) = {} /\ Users(calls, e) = {}
        BY <1>6 DEF Permits, Users, HasPermit, UsesGate, Out, PermitPC, UserPC
    <2>2. Cardinality(Permits(calls, e)) = 0 /\ Cardinality(Users(calls, e)) = 0
        BY <2>1, FS_EmptySet
    <2> QED BY <2>2 DEF Init, NewRuntime
<1>9. Resolving
    BY <1>4 DEF Init, Resolving, NoIntent
<1> QED BY <1>5, <1>7, <1>8, <1>9 DEF Base, Authority

\* Every variable of the gateway keeps its type: no count goes below zero, no
\* call points to an entry that is not there, and every row the relay or the
\* resolver writes is a row of the ledger or of the table of intents.
THEOREM GatewayTypes == Spec => []TypeOK
<1>1. Init => Base
    BY BaseInit
<1>2. Base /\ [Next]_vars => Base'
    BY BaseStep
<1>3. Base => TypeOK
    BY DEF Base
<1> QED BY <1>1, <1>2, <1>3, PTL DEF Spec

\* AdmissionController's limit is exact: pruning never splits an account
\* whose calls are under way, and the in-flight count is the number of permits
\* out, for any number of calls and on every path.
THEOREM AuthorityIsOne == Spec => []OneAuthority
<1>1. Init => Base
    BY BaseInit
<1>2. Base /\ [Next]_vars => Base'
    BY BaseStep
<1>3. Base => OneAuthority
    BY DEF Base, Authority, InMap, Counted, Permits, HasPermit, OneAuthority
<1> QED BY <1>1, <1>2, <1>3, PTL DEF Spec

-----------------------------------------------------------------------------
(* A billed call is recoverable *)

\* The states of a call whose request has not been sent.
Early == {"idle", "gate", "reserve", "check", "refuse"}

\* The states of a call that was given up after its send() failed.
ClosedPC == {"finish", "drop", "done", "gone"}

\* A call that is billed and not given up, or may be sent, holds its Credits
\* until it is debited; one that was not sent is not billed, and one that was
\* given up is never settled.
RecoverableAt(c) ==
    /\ calls[c].pc \in Early => provider[c] = Silent
    /\ calls[c].abandoned => calls[c].pc \in ClosedPC
    /\ Debits(book, c) = {} /\ ((Billed(c) /\ ~calls[c].abandoned)
                                 \/ calls[c].pc \in {"check", "send"}) =>
          intents[c].state \in Held /\ intents[c].reserved > 0

Recoverable == \A c \in Calls : RecoverableAt(c)

\* A call that a step leaves alone, or loses with the process.
LEMMA RecoverableFrame ==
    ASSUME NEW c \in Calls, RecoverableAt(c), TypeOK, LedgerMoves,
           provider'[c] = provider[c], intents'[c] = intents[c],
           calls'[c].pc \in {calls[c].pc, "gone"}, calls'[c].abandoned = calls[c].abandoned
    PROVE  RecoverableAt(c)'
<1>1. Debits(book, c) \subseteq Debits(book', c)
    BY DebitsGrow
<1> QED BY <1>1 DEF RecoverableAt, Billed, Early, ClosedPC

\* How a call's steps move it.
PcMoves(c) ==
    /\ calls'[c].pc \in Early \ {"idle"} => calls[c].pc \in Early
    /\ calls'[c].pc # "idle" /\ calls'[c].pc # "gone"
    /\ calls'[c].pc \in {"gate", "reserve"} =>
          calls[c].pc \in {"idle", "gate"} /\ intents'[c] = intents[c]
    /\ calls'[c].pc = "check" => intents'[c] = Admitted \/ calls[c].pc = "check"
    /\ calls'[c].pc = "send" => calls[c].pc \in {"check", "send"}
    /\ calls'[c].pc \in {"check", "send", "abandon"} =>
          intents'[c] = intents[c] \/ intents'[c] = Admitted
    /\ calls[c].pc \in ClosedPC => calls'[c].pc \in ClosedPC
    /\ calls[c].abandoned => calls'[c].abandoned \/ calls[c].pc = "abandon"
    /\ calls'[c].abandoned => calls[c].abandoned \/ calls'[c].pc = "finish"
    /\ calls[c].pc = "abandon" => calls'[c].abandoned \/ intents'[c] = intents[c]
    /\ provider'[c] # provider[c] => calls[c].pc = "send" /\ calls'[c].pc = "send"
    /\ \A d \in Calls \ {c} : calls'[d] = calls[d] /\ provider'[d] = provider[d]

LEMMA LeavePc ==
    ASSUME TypeOK, NEW c \in Calls, NEW r, Leave(c, r)
    PROVE  /\ calls'[c].pc = "done" /\ calls'[c].settled = calls[c].settled
           /\ calls'[c].abandoned = calls[c].abandoned
           /\ \A d \in Calls \ {c} : calls'[d] = calls[d]
<1>1. calls' = [calls EXCEPT ![c].pc = "done", ![c].entry = 0]
    BY DEF Leave
<1>2. calls \in [Calls -> Call]
    BY DEF TypeOK
<1> QED BY <1>1, <1>2 DEF Call

LEMMA CallPcs ==
    ASSUME TypeOK, Authority, NEW c \in Calls, CallStep(c)
    PROVE  PcMoves(c)
<1>0. /\ calls \in [Calls -> Call] /\ provider \in [Calls -> Response \cup {Silent}]
      /\ intents \in [Calls -> Intent]
    BY DEF TypeOK
<1>1. CASE Register(c) \/ RegisterFresh(c)
    <2>1. PICK e : calls' = [calls EXCEPT ![c].pc = "gate", ![c].entry = e]
        BY <1>1 DEF Register, RegisterFresh
    <2>2. /\ calls'[c].pc = "gate" /\ calls'[c].abandoned = calls[c].abandoned
          /\ \A d \in Calls \ {c} : calls'[d] = calls[d]
        BY <1>0, <2>1 DEF Call
    <2>3. calls[c].pc = "idle" /\ provider' = provider /\ intents' = intents
        BY <1>1 DEF Register, RegisterFresh
    <2> QED BY <2>2, <2>3 DEF PcMoves, Early, ClosedPC
<1>2. CASE Refused(c) \/ LockGate(c) \/ Respond(c) \/ BeginSettle(c)
    <2>1. /\ \/ calls[c].pc = "idle" /\ PcTo(c, "done")
             \/ calls[c].pc = "gate" /\ PcTo(c, "reserve")
             \/ calls[c].pc = "send" /\ PcTo(c, "drain")
             \/ calls[c].pc = "drain" /\ PcTo(c, "settle")
          /\ provider' = provider /\ intents' = intents
        BY <1>2 DEF Refused, LockGate, Respond, BeginSettle, PcTo
    <2>2. /\ \/ calls[c].pc = "gate" /\ calls'[c].pc = "reserve"
             \/ calls'[c].pc \in {"done", "drain", "settle"}
          /\ calls'[c].abandoned = calls[c].abandoned
          /\ \A d \in Calls \ {c} : calls'[d] = calls[d]
        BY <2>1, PcToType DEF PCs, PermitPC
    <2>3. calls[c].pc = "idle" => calls'[c].pc = "done"
        BY <2>1, PcToType DEF PCs, PermitPC
    <2> QED BY <2>1, <2>2, <2>3 DEF PcMoves, Early, ClosedPC
<1>3. CASE Insufficient(c) \/ CloseRefused(c) \/ Finish(c) \/ Release(c)
    <2>1. (\E r : Leave(c, r)) /\ provider' = provider /\ calls[c].pc # "abandon"
        BY <1>3 DEF Insufficient, CloseRefused, Finish, Release, Leave
    <2> QED BY <2>1, LeavePc DEF PcMoves, Early, ClosedPC
<1>4. CASE SettleFailure(c) \/ Reconcile(c)
    <2>1. /\ PcTo(c, "release") /\ provider' = provider
          /\ calls[c].pc \in {"settle", "reconcile"}
        BY <1>4 DEF SettleFailure, Reconcile, PcTo
    <2>2. /\ calls'[c].pc = "release" /\ calls'[c].abandoned = calls[c].abandoned
          /\ \A d \in Calls \ {c} : calls'[d] = calls[d]
        BY <2>1, PcToType DEF PCs, PermitPC
    <2> QED BY <2>1, <2>2 DEF PcMoves, Early, ClosedPC
<1>12. CASE Abandon(c)
    <2>1. /\ calls[c].pc = "abandon" /\ calls'[c].pc = "finish"
          /\ calls'[c].abandoned <=> intents'[c] # intents[c]
          /\ \A d \in Calls \ {c} : calls'[d] = calls[d]
        BY <1>12, AbandonCall DEF Abandon
    <2>2. provider' = provider
        BY <1>12 DEF Abandon
    <2> QED BY <2>1, <2>2 DEF PcMoves, Early, ClosedPC
<1>5. CASE SendFails(c)
    <2>1. PcTo(c, "abandon") /\ "abandon" \in PCs
        BY <1>5 DEF SendFails, PcTo, PCs, PermitPC
    <2> QED BY <1>5, <2>1, PcToType DEF SendFails, PcMoves, Early, ClosedPC
<1>6. CASE Serve(c)
    BY <1>0, <1>6 DEF Serve, PcMoves, Early, ClosedPC
<1>7. CASE Reserve(c)
    <2>1. PICK o \in Outcomes :
            /\ Update(o, c, Admitted)
            /\ IF o = "done"
               THEN calls' = [calls EXCEPT ![c].pc = "check"] /\ UNCHANGED entries
               ELSE Leave(c, Unlocked(entries[calls[c].entry]))
        BY <1>7 DEF Reserve
    <2>2. o = "done" => intents'[c] = Admitted
        BY <1>0, <2>1 DEF Update, Written
    <2>3. /\ calls'[c].pc = IF o = "done" THEN "check" ELSE "done"
          /\ calls'[c].abandoned = calls[c].abandoned
          /\ \A d \in Calls \ {c} : calls'[d] = calls[d]
        <3>1. CASE o = "done"
            <4>1. PcTo(c, "check") /\ "check" \in PCs
                BY <2>1, <3>1 DEF PcTo, PCs
            <4> QED BY <3>1, <4>1, PcToType
        <3>2. CASE o # "done"
            BY <2>1, <3>2, LeavePc
        <3> QED BY <3>1, <3>2
    <2> QED BY <1>7, <2>2, <2>3 DEF Reserve, PcMoves, Early, ClosedPC
<1>8. CASE Check(c)
    <2>1. \E p \in {"send", "refuse"} : PcTo(c, p)
        BY <1>8 DEF Check, PcTo
    <2>2. /\ calls'[c].pc \in {"send", "refuse"} /\ calls'[c].abandoned = calls[c].abandoned
          /\ \A d \in Calls \ {c} : calls'[d] = calls[d]
        BY <2>1, PcToType DEF PCs, PermitPC
    <2> QED BY <1>8, <2>2 DEF Check, PcMoves, Early, ClosedPC
<1>9. CASE Disconnect(c)
    <2>1. \E p \in {"done", "drop"} : /\ calls'[c].pc = p
                                      /\ calls'[c].abandoned = calls[c].abandoned
                                      /\ \A d \in Calls \ {c} : calls'[d] = calls[d]
        <3>1. (\E r : Leave(c, r)) \/ PcTo(c, "drop")
            BY <1>9 DEF Disconnect, PcTo
        <3> QED BY <3>1, LeavePc, PcToType DEF PCs, PermitPC
    <2> QED BY <1>9, <2>1 DEF Disconnect, PcMoves, Early, ClosedPC
<1>10. CASE MarkCompleted(c)
    <2>1. /\ calls'[c].pc \in {"settle", "reconcile", "debit"}
          /\ calls'[c].abandoned = calls[c].abandoned
          /\ \A d \in Calls \ {c} : calls'[d] = calls[d]
        BY <1>0, <1>10 DEF MarkCompleted, Retried
    <2> QED BY <1>10, <2>1 DEF MarkCompleted, PcMoves, Early, ClosedPC
<1>11. CASE Debit(c)
    <2>1. /\ calls'[c].pc \in {"settle", "reconcile", "release"}
          /\ calls'[c].abandoned = calls[c].abandoned
          /\ \A d \in Calls \ {c} : calls'[d] = calls[d]
        BY <1>0, <1>11 DEF Debit, Retried
    <2> QED BY <1>11, <2>1 DEF Debit, PcMoves, Early, ClosedPC
<1> QED BY <1>1, <1>2, <1>3, <1>4, <1>5, <1>6, <1>7, <1>8, <1>9, <1>10, <1>11, <1>12
   DEF CallStep

\* Only a write that says so takes a hold away.
LEMMA HoldKept ==
    ASSUME NEW row \in Intent, row.state \in Held, row.reserved > 0
    PROVE  /\ ProviderCompleted(row).state \in Held /\ ProviderCompleted(row).reserved > 0
           /\ Reconciliation(row).state \in Held /\ Reconciliation(row).reserved > 0
BY DEF ProviderCompleted, Reconciliation, Moved, Intent, Held

LEMMA CallRecoverable ==
    ASSUME TypeOK, Authority, Recoverable, NEW c \in Calls, CallStep(c)
    PROVE  Recoverable'
<1>1. RowMoves(c) /\ LedgerMoves
    BY CallRows
<1>2. PcMoves(c)
    BY CallPcs
<1>3. \A d \in Calls \ {c} : RecoverableAt(d)'
    BY <1>1, <1>2, RecoverableFrame DEF RowMoves, PcMoves, Recoverable
<1>4. RecoverableAt(c)
    BY DEF Recoverable
<1>5. Debits(book, c) \subseteq Debits(book', c)
    BY <1>1, DebitsGrow
<1>6. Admitted.state \in Held /\ Admitted.reserved > 0
    BY RequiredPositive DEF Admitted, NoIntent, Held
<1>7. calls'[c].pc \in Early => provider'[c] = Silent
    BY <1>2, <1>4 DEF PcMoves, RecoverableAt, Early
<1>8. calls'[c].abandoned => calls'[c].pc \in ClosedPC
    BY <1>2, <1>4 DEF PcMoves, RecoverableAt, ClosedPC
<1>9. ASSUME Debits(book', c) = {},
             (Billed(c)' /\ ~calls'[c].abandoned) \/ calls'[c].pc \in {"check", "send"}
      PROVE  intents'[c].state \in Held /\ intents'[c].reserved > 0
    <2>1. Debits(book, c) = {}
        BY <1>5, <1>9
    <2>2. CASE intents'[c] = Admitted
        BY <1>6, <2>2
    <2>3. CASE intents'[c] # Admitted
        <3>1. (Billed(c) /\ ~calls[c].abandoned) \/ calls[c].pc \in {"check", "send"}
            BY <1>2, <1>4, <1>9, <2>3 DEF PcMoves, RecoverableAt, ClosedPC, Billed
        <3>2. intents[c] \in Intent /\ intents[c].state \in Held /\ intents[c].reserved > 0
            BY <1>4, <2>1, <3>1 DEF RecoverableAt, TypeOK
        <3>3. calls[c].pc # "refuse" /\ (calls[c].pc = "abandon" => intents'[c] = intents[c])
            BY <1>2, <1>4, <1>9, <3>1, SilentIsUnbilled DEF PcMoves, RecoverableAt, Early, Billed
        <3>4. \/ intents'[c] = intents[c]
              \/ intents'[c] = ProviderCompleted(intents[c])
              \/ intents'[c] = Reconciliation(intents[c])
            BY <1>1, <1>9, <2>3, <3>1, <3>3 DEF RowMoves
        <3> QED BY <3>2, <3>4, HoldKept
    <2> QED BY <2>2, <2>3
<1>10. RecoverableAt(c)'
    BY <1>7, <1>8, <1>9 DEF RecoverableAt
<1> QED BY <1>3, <1>10 DEF Recoverable

\* The relay's own steps move no call, except to lose it.
LEMMA RelayPcs ==
    ASSUME RelayStep
    PROVE  \A c \in Calls : /\ calls'[c].pc \in {calls[c].pc, "gone"}
                           /\ calls'[c].abandoned = calls[c].abandoned
BY DEF RelayStep, Crash, Close, Exit, Restart, HourPasses, Credit, Halt, Lost, NewCall

LEMMA RelayRecoverable ==
    ASSUME Base, Recoverable, RelayStep
    PROVE  Recoverable'
<1>1. LedgerMoves /\ UNCHANGED <<intents, provider>>
    BY RelayTypes DEF Base
<1>2. \A c \in Calls : /\ calls'[c].pc \in {calls[c].pc, "gone"}
                      /\ calls'[c].abandoned = calls[c].abandoned
    BY RelayPcs
<1> QED BY <1>1, <1>2, RecoverableFrame DEF Base, Recoverable

LEMMA ResolverRecoverable ==
    ASSUME Base, Recoverable, ResolverStep
    PROVE  Recoverable'
<1>1. UNCHANGED <<calls, provider>>
    BY DEF ResolverStep, ResolveStart, ResolveRead, ResolveDebit, ResolveMark
<1>2. CASE ResolveStart \/ \E c \in Calls : ResolveRead(c)
    <2>1. LedgerMoves /\ UNCHANGED intents
        BY <1>2 DEF ResolveStart, ResolveRead, LedgerMoves
    <2> QED BY <1>1, <2>1, RecoverableFrame DEF Base, Recoverable
<1>3. CASE ResolveDebit
    <2>0. PICK c \in Calls : c = resolver.call
        BY <1>3 DEF ResolveDebit, Base, Resolving
    <2> DEFINE e == [ref |-> resolver.ref, delta |-> -provider[c].bill,
                     rid |-> provider[c].exportId]
    <2>1. PICK o \in Outcomes : /\ book' = Written(o, book, ApplyEntry(book, e))
                                /\ Update(o, c, Debited(intents[c]))
        BY <1>3, <2>0 DEF ResolveDebit
    <2>2. c \in Calls /\ DebitRef(resolver.ref, c) /\ book \in Book
        BY <1>3, <2>0 DEF ResolveDebit, Base, Resolving, TypeOK
    <2>3. e \in LedgerEntry /\ e.ref = resolver.ref
        <3>1. provider[c].exportId \in BOOLEAN /\ provider[c].bill \in Nat
            BY <2>2, JobEntryType DEF Base
        <3>2. -provider[c].bill \in Int /\ resolver.ref \in Ref
            BY <2>2, <3>1 DEF DebitRef
        <3> QED BY <3>1, <3>2 DEF LedgerEntry
    <2> HIDE DEF e
    <2>4. Debits(ApplyEntry(book, e), c) # {}
        BY <2>2, <2>3, DebitRecorded
    <2>5. LedgerMoves /\ (o # "failed" => Debits(book', c) # {})
        BY <2>1, <2>3, <2>4 DEF Written, LedgerMoves, Applied
    <2>6. intents[c] \in Intent /\ Debited(intents[c]) \in Intent
        BY <2>2, IntentTypes DEF Base, TypeOK
    <2>7. /\ o = "failed" => intents'[c] = intents[c]
          /\ \A d \in Calls \ {c} : intents'[d] = intents[d]
        BY <2>1, <2>2, <2>6, UpdateAt DEF Base
    <2>8. \A d \in Calls \ {c} : RecoverableAt(d)'
        BY <1>1, <2>5, <2>7, RecoverableFrame DEF Base, Recoverable
    <2>9. RecoverableAt(c)'
        <3>1. CASE o = "failed"
            BY <1>1, <2>2, <2>5, <2>7, <3>1, RecoverableFrame DEF Base, Recoverable
        <3>2. CASE o # "failed"
            BY <1>1, <2>2, <2>5, <3>2 DEF Recoverable, RecoverableAt, Billed
        <3> QED BY <3>1, <3>2
    <2> QED BY <2>8, <2>9 DEF Recoverable
<1>4. CASE ResolveMark
    <2>0. PICK c \in Calls : c = resolver.call
        BY <1>4 DEF ResolveMark, Base, Resolving
    <2>1. PICK o \in Outcomes : Update(o, c, Resolved(intents[c], resolver.ref))
        BY <1>4, <2>0 DEF ResolveMark
    <2>2. c \in Calls /\ DebitRef(resolver.ref, c) /\ Debits(book, c) # {} /\ book' = book
        BY <1>4, <2>0 DEF ResolveMark, Base, Resolving
    <2>3. Resolved(intents[c], resolver.ref) \in Intent
        BY <2>2, IntentTypes DEF Base, TypeOK, DebitRef
    <2>4. \A d \in Calls \ {c} : intents'[d] = intents[d]
        BY <2>1, <2>2, <2>3, UpdateAt DEF Base
    <2>5. \A d \in Calls \ {c} : RecoverableAt(d)'
        BY <1>1, <2>2, <2>4, RecoverableFrame DEF Base, Recoverable, LedgerMoves
    <2>6. RecoverableAt(c)'
        BY <1>1, <2>2 DEF Recoverable, RecoverableAt, Billed
    <2> QED BY <2>5, <2>6 DEF Recoverable
<1> QED BY <1>2, <1>3, <1>4 DEF ResolverStep

-----------------------------------------------------------------------------
(* A resolved intent is final *)

\* The resolver works on billed calls only.
BilledRows ==
    /\ \A c \in resolver.rows : Billed(c)
    /\ resolver.pc \in {"debit", "mark"} => Billed(resolver.call)

\* A call that has not reserved yet has no intent; an intent that names a
\* correction is resolved.
FreshRows ==
    \A c \in Calls : /\ calls[c].pc \in {"idle", "gate", "reserve"} => intents[c] = NoIntent
                     /\ intents[c].correction_ref # NoRef => intents[c].state = "resolved"

\* What a step may never do to an intent.
FinalAt(c) == intents[c].state = "resolved" => intents'[c].state = "resolved"
Final == \A c \in Calls : FinalAt(c)

Books == Base /\ Recoverable /\ BilledRows /\ FreshRows

LEMMA BilledStays ==
    ASSUME TypeOK, Authority, NEW c \in Calls, CallStep(c)
    PROVE  \A d \in Calls : /\ Billed(d) => Billed(d)'
                            /\ Billed(d) => provider'[d] = provider[d]
                            /\ provider'[d] \in {provider[d]} \cup budget.responses
<1>1. PcMoves(c)
    BY CallPcs
<1>2. CASE provider' = provider
    BY <1>2 DEF Billed
<1>3. CASE Serve(c)
    BY <1>3, SilentIsUnbilled DEF Serve, Billed, TypeOK
<1>4. Serve(c) \/ provider' = provider
    BY DEF CallStep, Register, RegisterFresh, Refused, LockGate, Reserve, Insufficient, Check,
           CloseRefused, Respond, SendFails, Abandon, Disconnect, Finish, BeginSettle,
           SettleFailure, MarkCompleted, Debit, Reconcile, Release
<1> QED BY <1>2, <1>3, <1>4

\* The states of a row after each write.
LEMMA RowStates ==
    ASSUME NEW row \in Intent
    PROVE  /\ row.state = "resolved" =>
                 /\ ProviderCompleted(row).state = "resolved" /\ Debited(row).state = "resolved"
                 /\ Reconciliation(row).state = "resolved"
           /\ NoCharge(row).state = "resolved"
           /\ \A ref : Resolved(row, ref).state = "resolved"
BY DEF ProviderCompleted, Debited, NoCharge, Reconciliation, Resolved, Moved, Intent

LEMMA CallBooks ==
    ASSUME Books, NEW c \in Calls, CallStep(c)
    PROVE  BilledRows' /\ FreshRows' /\ Final
<1> USE DEF Books, Base
<1>1. RowMoves(c) /\ resolver' = resolver
    BY CallRows
<1>2. PcMoves(c)
    BY CallPcs
<1>3. BilledRows'
    <2>1. resolver.rows \subseteq Calls /\ (resolver.pc \in {"debit", "mark"} => resolver.call \in Calls)
        BY DEF TypeOK, Resolving
    <2> QED BY <1>1, <2>1, BilledStays DEF BilledRows
<1>4. intents[c] \in Intent
    BY DEF TypeOK
<1>5. /\ intents[c].state = "resolved" => intents'[c].state = "resolved"
      /\ intents'[c].correction_ref # NoRef => intents'[c].state = "resolved"
    <2>1. calls[c].pc = "reserve" => intents[c].state = "absent"
        BY DEF FreshRows, NoIntent
    <2>2. intents[c].correction_ref # NoRef => intents[c].state = "resolved"
        BY DEF FreshRows
    <2>3. CASE intents'[c] = Admitted /\ calls[c].pc = "reserve"
        BY <2>1, <2>3, <1>4, CorrectionRefKept
    <2>4. CASE intents'[c] = intents[c]
        BY <2>2, <2>4
    <2>5. CASE intents'[c] \in {NoCharge(intents[c]), ProviderCompleted(intents[c]),
                                Debited(intents[c]), Reconciliation(intents[c])}
        BY <1>4, <2>2, <2>5, CorrectionRefKept, RowStates
    <2> QED BY <1>1, <2>3, <2>4, <2>5 DEF RowMoves
<1>6. Final
    BY <1>1, <1>5 DEF RowMoves, Final, FinalAt
<1>7. FreshRows'
    <2>1. calls'[c].pc \in {"idle", "gate", "reserve"} => intents'[c] = NoIntent
        BY <1>2 DEF FreshRows, PcMoves
    <2> QED BY <1>1, <1>2, <1>5, <2>1 DEF FreshRows, RowMoves, PcMoves
<1> QED BY <1>3, <1>6, <1>7

LEMMA RelayBooks ==
    ASSUME Books, RelayStep
    PROVE  BilledRows' /\ FreshRows' /\ Final
<1>1. UNCHANGED <<intents, provider, resolver>>
    BY RelayTypes DEF Books, Base
<1>2. \A c \in Calls : calls'[c].pc \in {calls[c].pc, "gone"}
    BY RelayPcs
<1>3. BilledRows'
    BY <1>1 DEF Books, BilledRows, Billed
<1>4. FreshRows'
    BY <1>1, <1>2 DEF Books, FreshRows
<1>5. Final
    BY <1>1 DEF Final, FinalAt
<1> QED BY <1>3, <1>4, <1>5

\* What the resolver may do to the intent of a billed call.
ResolverMoves ==
    /\ UNCHANGED <<calls, provider, current, entries, process, hour>>
    /\ \A d \in Calls :
          \/ intents'[d] = intents[d]
          \/ /\ Billed(d)
             /\ \/ intents'[d] = Debited(intents[d])
                \/ \E ref \in Ref : intents'[d] = Resolved(intents[d], ref)

LEMMA ResolverRows ==
    ASSUME Base, BilledRows, ResolverStep
    PROVE  ResolverMoves /\ BilledRows'
<1> USE DEF Base
<1>1. UNCHANGED <<calls, provider, current, entries, process, hour>>
    BY DEF ResolverStep, ResolveStart, ResolveRead, ResolveDebit, ResolveMark
<1>2. Idle.rows = {} /\ Idle.pc = "idle"
    BY DEF Idle
<1>3. ASSUME NEW c \in Calls
      PROVE  After(c).rows \subseteq resolver.rows /\ After(c).pc \in {"idle", "next"}
    <2> DEFINE n == resolver.rows \ {c}
    <2>1. [Idle EXCEPT !.pc = "next", !.rows = n].rows = n
        BY DEF Idle
    <2>2. After(c).rows \in {{}, n}
        BY <1>2, <2>1 DEF After
    <2> QED BY <2>2, AfterType
<1>4. resolver \in ResolverType
    BY DEF TypeOK, ResolverType
<1>5. CASE ResolveStart
    <2>1. PICK rows \in SUBSET {c \in Pending : Billed(c)} :
              resolver' = [Idle EXCEPT !.pc = "next", !.rows = rows]
        BY <1>5 DEF ResolveStart
    <2>2. resolver'.rows = rows /\ resolver'.pc = "next"
        BY <2>1 DEF Idle
    <2>3. intents' = intents
        BY <1>5 DEF ResolveStart
    <2> QED BY <1>1, <2>2, <2>3 DEF BilledRows, ResolverMoves, Billed
<1>6. CASE \E c \in Calls : ResolveRead(c)
    <2>1. PICK c \in Calls : ResolveRead(c)
        BY <1>6
    <2>2. c \in resolver.rows /\ Billed(c) /\ intents' = intents
        BY <2>1 DEF ResolveRead, BilledRows
    <2>3. \/ resolver' = After(c)
          \/ \E pc, ref : resolver' = [resolver EXCEPT !.pc = pc, !.call = c, !.ref = ref]
        BY <2>1 DEF ResolveRead
    <2>4. /\ resolver'.rows \subseteq resolver.rows
          /\ resolver'.pc \in {"debit", "mark"} => resolver'.call = c
        <3>1. CASE resolver' = After(c)
            BY <1>3, <3>1
        <3>2. CASE \E pc, ref : resolver' = [resolver EXCEPT !.pc = pc, !.call = c, !.ref = ref]
            BY <1>4, <3>2 DEF ResolverType
        <3> QED BY <2>3, <3>1, <3>2
    <2> QED BY <1>1, <2>2, <2>4 DEF BilledRows, ResolverMoves, Billed
<1>7. CASE ResolveDebit
    <2>1. PICK c \in Calls : c = resolver.call
        BY <1>7 DEF ResolveDebit, Resolving
    <2>2. PICK o \in Outcomes :
              /\ Update(o, c, Debited(intents[c]))
              /\ resolver' = IF o = "done" THEN [resolver EXCEPT !.pc = "mark"] ELSE Idle
        BY <1>7, <2>1 DEF ResolveDebit
    <2>3. Billed(c)
        BY <1>7, <2>1 DEF ResolveDebit, BilledRows
    <2>4. intents[c] \in Intent /\ Debited(intents[c]) \in Intent
        BY IntentTypes DEF TypeOK
    <2>5. /\ intents'[c] \in {intents[c], Debited(intents[c])}
          /\ \A d \in Calls \ {c} : intents'[d] = intents[d]
        BY <2>2, <2>4, UpdateAt
    <2>6. /\ resolver'.rows \subseteq resolver.rows
          /\ resolver'.pc \in {"debit", "mark"} => resolver'.call = c
        BY <1>2, <1>4, <2>1, <2>2 DEF ResolverType
    <2> QED BY <1>1, <2>3, <2>5, <2>6 DEF BilledRows, ResolverMoves, Billed
<1>8. CASE ResolveMark
    <2>1. PICK c \in Calls : c = resolver.call /\ DebitRef(resolver.ref, c)
        BY <1>8 DEF ResolveMark, Resolving
    <2>2. PICK o \in Outcomes :
              /\ Update(o, c, Resolved(intents[c], resolver.ref))
              /\ resolver' = IF o = "done" THEN After(c) ELSE Idle
        BY <1>8, <2>1 DEF ResolveMark
    <2>3. Billed(c)
        BY <1>8, <2>1 DEF ResolveMark, BilledRows
    <2>4. resolver.ref \in Ref /\ Resolved(intents[c], resolver.ref) \in Intent
        BY <2>1, IntentTypes DEF TypeOK, DebitRef
    <2>5. /\ intents'[c] \in {intents[c], Resolved(intents[c], resolver.ref)}
          /\ \A d \in Calls \ {c} : intents'[d] = intents[d]
        BY <2>2, <2>4, UpdateAt
    <2>6. resolver'.rows \subseteq resolver.rows /\ resolver'.pc \in {"idle", "next"}
        BY <1>2, <1>3, <2>2
    <2> QED BY <1>1, <2>3, <2>4, <2>5, <2>6 DEF BilledRows, ResolverMoves, Billed
<1> QED BY <1>5, <1>6, <1>7, <1>8 DEF ResolverStep

LEMMA ResolverBooks ==
    ASSUME Books, ResolverStep
    PROVE  BilledRows' /\ FreshRows' /\ Final
<1> USE DEF Books
<1>1. ResolverMoves /\ BilledRows'
    BY ResolverRows
<1>2. \A d \in Calls : intents[d] \in Intent
    BY DEF Base, TypeOK
<1>3. \A d \in Calls : Billed(d) => calls[d].pc \notin {"idle", "gate", "reserve"}
    BY SilentIsUnbilled DEF Recoverable, RecoverableAt, Early, Billed
<1>4. ASSUME NEW d \in Calls
      PROVE  /\ intents[d].state = "resolved" => intents'[d].state = "resolved"
             /\ intents'[d].correction_ref # NoRef => intents'[d].state = "resolved"
             /\ calls'[d].pc \in {"idle", "gate", "reserve"} => intents'[d] = NoIntent
    <2>1. CASE intents'[d] = intents[d]
        BY <1>1, <2>1 DEF FreshRows, ResolverMoves
    <2>2. CASE Billed(d) /\ intents'[d] = Debited(intents[d])
        BY <1>1, <1>2, <1>3, <2>2, RowStates, CorrectionRefKept DEF FreshRows, ResolverMoves
    <2>3. CASE Billed(d) /\ \E ref \in Ref : intents'[d] = Resolved(intents[d], ref)
        BY <1>1, <1>2, <1>3, <2>3, RowStates DEF FreshRows, ResolverMoves
    <2> QED BY <1>1, <2>1, <2>2, <2>3 DEF ResolverMoves
<1> QED BY <1>1, <1>4 DEF FreshRows, Final, FinalAt

LEMMA BooksInit ==
    ASSUME Init
    PROVE  Books
<1>1. Base
    BY BaseInit
<1>2. Recoverable
    BY SilentIsUnbilled DEF Init, Recoverable, RecoverableAt, NewCall, Billed
<1>3. BilledRows /\ FreshRows
    BY DEF Init, BilledRows, FreshRows, Idle, NewCall, NoIntent
<1> QED BY <1>1, <1>2, <1>3 DEF Books

LEMMA BooksStep ==
    ASSUME Books, [Next]_vars
    PROVE  Books' /\ Final
<1>1. Base'
    BY BaseStep DEF Books
<1>2. CASE UNCHANGED vars
    <2>1. Recoverable'
        BY <1>2, RecoverableFrame DEF vars, Recoverable, Books, Base, LedgerMoves
    <2>2. BilledRows' /\ FreshRows' /\ Final
        BY <1>2 DEF vars, Books, BilledRows, FreshRows, Final, FinalAt, Billed
    <2> QED BY <1>1, <2>1, <2>2 DEF Books
<1>3. CASE Next
    <2>1. Recoverable'
        BY <1>3, NextSteps, CallRecoverable, RelayRecoverable, ResolverRecoverable DEF Books, Base
    <2>2. BilledRows' /\ FreshRows' /\ Final
        BY <1>3, NextSteps, CallBooks, RelayBooks, ResolverBooks
    <2> QED BY <1>1, <2>1, <2>2 DEF Books
<1> QED BY <1>2, <1>3

\* What the provider billed and the ledger does not show is still held: for any
\* interleaving of settlements, faults, crashes, restarts and resolver runs an
\* export can recover it, except when the relay has closed the call because its
\* send() failed (mod.rs:1133).
THEOREM BilledCallsAreRecoverable == Spec => []BilledIsRecoverable
<1>1. Init => Books
    BY BooksInit
<1>2. Books /\ [Next]_vars => Books'
    BY BooksStep
<1>3. Books => BilledIsRecoverable
    BY DEF Books, Recoverable, RecoverableAt, BilledIsRecoverable
<1> QED BY <1>1, <1>2, <1>3, PTL DEF Spec

\* No settlement, late, retried or replayed, and no resolver run takes a
\* resolved intent back: an admission never meets a row that is already there.
THEOREM ResolvedStaysResolved == Spec => ResolvedIsFinal
<1>1. Init => Books
    BY BooksInit
<1>2. Books /\ [Next]_vars => Books'
    BY BooksStep
<1>3. Books /\ [Next]_vars =>
        [\A c \in Calls : intents[c].state = "resolved" => intents'[c].state = "resolved"]_vars
    BY BooksStep DEF Final, FinalAt
<1> QED BY <1>1, <1>2, <1>3, PTL DEF Spec, ResolvedIsFinal

-----------------------------------------------------------------------------
(* The burn window *)

\* A call knows the ledger row it was settled with only while it releases its
\* permit and after.
SettledRows ==
    \A c \in Calls : /\ calls[c].settled \in DOMAIN book.ledger \cup {0}
                     /\ calls[c].settled # 0 => calls[c].pc \in {"release", "done"}

Burn == SettledRows /\ BurnCounted

\* A step that drops no row of the burn window from the entry in the map.
KeepsSpend ==
    /\ current' = current /\ process' = process /\ hour' = hour
    /\ current # 0 => \A i \in entries[current].spend :
                          i > hour => i \in entries'[current].spend

LEMMA ReleaseSpend ==
    ASSUME TypeOK, Authority, NEW c \in Calls, Release(c)
    PROVE  /\ current \in EntryIds /\ current # 0 /\ current' = current
           /\ entries[current].spend \subseteq entries'[current].spend
           /\ calls[c].settled # 0 /\ Cost(calls[c].settled) > 0 =>
                 calls[c].settled \in entries'[current].spend
<1> DEFINE r == Pushed(entries[current], calls[c].settled)
           q == Unlocked(r)
           n == [q EXCEPT !.in_flight = @ - 1, !.touched = TRUE]
<1>1. /\ calls[c].entry = current /\ current \in EntryIds /\ entries[current] \in Runtime
      /\ entries[current].gate_users - 1 \in Nat
    BY CountsPositive DEF Release, UserPC, Out
<1>2. /\ entries' = [entries EXCEPT ![current] = n] /\ entries \in [EntryIds -> Runtime]
      /\ current' = current
    BY <1>1 DEF Release, TypeOK
<1>3. /\ r \in Runtime /\ r.gate_users = entries[current].gate_users
      /\ entries[current].spend \subseteq r.spend
      /\ calls[c].settled # 0 /\ Cost(calls[c].settled) > 0 => calls[c].settled \in r.spend
    BY <1>1, PushedType, Fields
<1> HIDE DEF r
<1>4. q \in Runtime /\ q.spend = r.spend
    BY <1>1, <1>3, UnlockedType
<1> HIDE DEF q
<1>5. n.spend = r.spend
    BY <1>4 DEF Runtime
<1> HIDE DEF n
<1>6. entries'[current].spend = r.spend
    BY <1>1, <1>2, <1>5
<1>7. current # 0
    BY <1>1 DEF EntryIds
<1> QED BY <1>1, <1>2, <1>3, <1>6, <1>7

LEMMA CallSpend ==
    ASSUME TypeOK, Authority, NEW c \in Calls, CallStep(c), ~RegisterFresh(c)
    PROVE  KeepsSpend
<1>1. current' = current /\ process' = process /\ hour' = hour
    BY DEF CallStep, Register, Refused, LockGate, Reserve, Insufficient, Check, CloseRefused,
           Serve, Respond, SendFails, Abandon, Disconnect, Finish, BeginSettle,
           SettleFailure, MarkCompleted, Debit, Reconcile, Release
<1>2. CASE entries' = entries
    BY <1>1, <1>2 DEF KeepsSpend
<1>3. calls[c].pc \notin Out => /\ calls[c].entry = current /\ current \in EntryIds
                                /\ entries[current] \in Runtime
    BY CountsPositive
<1>4. entries \in [EntryIds -> Runtime]
    BY DEF TypeOK
<1>5. ASSUME current \in EntryIds, NEW r, entries' = [entries EXCEPT ![current] = r],
             \A i \in entries[current].spend : i > hour => i \in r.spend
      PROVE  KeepsSpend
    BY <1>1, <1>4, <1>5 DEF KeepsSpend
<1>6. CASE Register(c)
    <2> DEFINE q == Pruned(entries[current])
               r == [q EXCEPT !.gate_users = @ + 1]
    <2>1. current \in EntryIds /\ entries[current] \in Runtime
        BY <1>6 DEF Register, TypeOK
    <2>2. q \in Runtime /\ q.spend = {i \in entries[current].spend : i > hour}
        BY <2>1, PrunedType
    <2>3. entries' = [entries EXCEPT ![current] = r]
        BY <1>6 DEF Register
    <2> HIDE DEF q
    <2>4. r.spend = q.spend
        BY <2>2 DEF Runtime
    <2> HIDE DEF r
    <2> QED BY <1>5, <2>1, <2>2, <2>3, <2>4
<1>7. CASE LockGate(c)
    <2>1. calls[c].entry = current /\ current \in EntryIds /\ entries[current] \in Runtime
        BY <1>3, <1>7 DEF LockGate, Out
    <2>2. entries' = [entries EXCEPT ![current] = Locked(entries[current], c)]
        BY <1>7, <2>1 DEF LockGate
    <2>3. Locked(entries[current], c).spend = entries[current].spend
        BY <2>1, LockedType
    <2> QED BY <1>5, <2>1, <2>2, <2>3
<1>8. CASE /\ calls[c].pc \in {"reserve", "refuse"}
           /\ Leave(c, Unlocked(entries[calls[c].entry]))
    <2>1. current \in EntryIds /\ entries'[current].spend = entries[current].spend
        BY <1>1, <1>8, LeaveUnlocked
    <2> QED BY <1>1, <2>1 DEF KeepsSpend
<1>9. CASE Reserve(c) \/ Insufficient(c) \/ CloseRefused(c)
    <2>1. \/ entries' = entries
          \/ /\ calls[c].pc \in {"reserve", "refuse"}
             /\ Leave(c, Unlocked(entries[calls[c].entry]))
        BY <1>9 DEF Reserve, Insufficient, CloseRefused
    <2> QED BY <1>2, <1>8, <2>1
<1>10. CASE Check(c)
    <2> DEFINE q == Pruned(entries[current])
               r == [q EXCEPT !.touched = TRUE]
               u == [Unlocked(r) EXCEPT !.in_flight = @ + 1]
    <2>1. /\ calls[c].entry = current /\ current \in EntryIds /\ entries[current] \in Runtime
          /\ entries[current].gate_users - 1 \in Nat
        BY <1>10, CountsPositive DEF Check, Out, UserPC
    <2>2. PICK n \in {r, u} : entries' = [entries EXCEPT ![current] = n]
        BY <1>10, <2>1 DEF Check
    <2>3. /\ q \in Runtime /\ q.spend = {i \in entries[current].spend : i > hour}
          /\ q.gate_users = entries[current].gate_users
        BY <2>1, PrunedType
    <2> HIDE DEF q
    <2>4. r \in Runtime /\ r.spend = q.spend /\ r.gate_users - 1 \in Nat
        BY <2>1, <2>3 DEF Runtime
    <2> HIDE DEF r
    <2>5. Unlocked(r) \in Runtime /\ Unlocked(r).spend = q.spend
        BY <2>4, UnlockedType
    <2>6. u.spend = q.spend
        BY <2>5 DEF Runtime
    <2> HIDE DEF u
    <2> QED BY <1>5, <2>1, <2>2, <2>3, <2>4, <2>6
<1>11. CASE Disconnect(c)
    <2>1. calls[c].pc \notin Out
        BY <1>11 DEF Disconnect, Out
    <2>2. calls[c].entry = current /\ current \in EntryIds /\ entries[current] \in Runtime
        BY <1>3, <2>1
    <2>3. Locked(entries[current], "nobody").spend = entries[current].spend
        BY <2>2, LockedType
    <2>4. CASE entries' = [entries EXCEPT ![current] = entries[current]]
        BY <1>5, <2>2, <2>4
    <2>5. CASE entries' = [entries EXCEPT ![current] = Locked(entries[current], "nobody")]
        BY <1>5, <2>2, <2>3, <2>5
    <2>6. CASE entries' = [entries EXCEPT ![current].gate_users = @ + 1]
        <3> DEFINE r == [entries[current] EXCEPT !.gate_users = @ + 1]
        <3>1. entries' = [entries EXCEPT ![current] = r]
            BY <2>6
        <3>2. r.spend = entries[current].spend
            BY <2>2 DEF Runtime
        <3> HIDE DEF r
        <3> QED BY <1>5, <2>2, <3>1, <3>2
    <2> QED BY <1>2, <1>11, <2>2, <2>4, <2>5, <2>6 DEF Disconnect, Leave
<1>12. CASE Finish(c)
    <2> DEFINE r == [entries[current] EXCEPT !.in_flight = @ - 1, !.touched = TRUE]
    <2>1. calls[c].entry = current /\ current \in EntryIds /\ entries[current] \in Runtime
        BY <1>3, <1>12 DEF Finish, Out
    <2>2. entries' = [entries EXCEPT ![current] = r]
        BY <1>12, <2>1 DEF Finish, Leave
    <2>3. r.spend = entries[current].spend
        BY <2>1 DEF Runtime
    <2> HIDE DEF r
    <2> QED BY <1>5, <2>1, <2>2, <2>3
<1>13. CASE BeginSettle(c)
    <2> DEFINE q == Locked(entries[current], c)
               r == [q EXCEPT !.gate_users = @ + 1]
    <2>1. calls[c].entry = current /\ current \in EntryIds /\ entries[current] \in Runtime
        BY <1>3, <1>13 DEF BeginSettle, Out
    <2>2. q \in Runtime /\ q.spend = entries[current].spend
        BY <2>1, LockedType
    <2>3. entries' = [entries EXCEPT ![current] = r]
        BY <1>13, <2>1 DEF BeginSettle
    <2> HIDE DEF q
    <2>4. r.spend = q.spend
        BY <2>2 DEF Runtime
    <2> HIDE DEF r
    <2> QED BY <1>5, <2>1, <2>2, <2>3, <2>4
<1>14. CASE Release(c)
    <2>1. current \in EntryIds /\ entries[current].spend \subseteq entries'[current].spend
        BY <1>14, ReleaseSpend
    <2> QED BY <1>1, <2>1 DEF KeepsSpend
<1>15. CASE \/ Refused(c) \/ Serve(c) \/ Respond(c) \/ SendFails(c) \/ Abandon(c)
            \/ SettleFailure(c) \/ MarkCompleted(c) \/ Debit(c) \/ Reconcile(c)
    <2>1. entries' = entries
        BY <1>15 DEF Refused, Serve, Respond, SendFails, Abandon, SettleFailure, MarkCompleted,
                     Debit, Reconcile
    <2> QED BY <1>2, <2>1
<1> QED BY <1>6, <1>7, <1>9, <1>10, <1>11, <1>12, <1>13, <1>14, <1>15 DEF CallStep

\* How a call's steps move what it was settled with.
SettledMoves(c) ==
    /\ calls[c].pc \notin {"done", "gone"}
    /\ \/ calls'[c].settled = calls[c].settled
       \/ calls'[c].pc = "release" /\ calls'[c].settled \in DOMAIN book'.ledger
    /\ calls[c].pc = "release" => Release(c)
    /\ Release(c) => calls'[c].pc = "done" /\ calls'[c].settled = calls[c].settled

LEMMA CallSettled ==
    ASSUME TypeOK, Authority, NEW c \in Calls, CallStep(c)
    PROVE  SettledMoves(c)
<1>0. calls \in [Calls -> Call]
    BY DEF TypeOK
<1>1. calls[c].pc \notin {"done", "gone"} /\ (calls[c].pc = "release" => Release(c))
    BY DEF CallStep, Register, RegisterFresh, Refused, LockGate, Reserve, Insufficient, Check,
           CloseRefused, Serve, Respond, SendFails, Abandon, Disconnect, Finish, BeginSettle,
           SettleFailure, MarkCompleted, Debit, Reconcile, Release
<1>2. Release(c) => calls'[c].pc = "done" /\ calls'[c].settled = calls[c].settled
    <2>1. Release(c) => \E r : Leave(c, r)
        BY DEF Release, Leave
    <2> QED BY <2>1, LeavePc
<1>3. \/ calls'[c].settled = calls[c].settled
      \/ calls'[c].pc = "release" /\ calls'[c].settled \in DOMAIN book'.ledger
    <2>1. CASE \E r : Leave(c, r)
        BY <2>1, LeavePc
    <2>2. CASE \E p \in PCs : PcTo(c, p)
        BY <2>2, PcToType
    <2>3. CASE \E e : calls' = [calls EXCEPT ![c].pc = "gate", ![c].entry = e]
        BY <1>0, <2>3 DEF Call
    <2>4. CASE calls' = Retried(c)
        BY <2>4, RetriedType
    <2>5. CASE calls' = calls
        BY <2>5
    <2>6. CASE Register(c) \/ RegisterFresh(c)
        BY <2>3, <2>6 DEF Register, RegisterFresh
    <2>7. CASE Insufficient(c) \/ CloseRefused(c) \/ Finish(c) \/ Release(c)
        <3>1. \E r : Leave(c, r)
            BY <2>7 DEF Insufficient, CloseRefused, Finish, Release, Leave
        <3> QED BY <2>1, <3>1
    <2>8. CASE Reserve(c)
        <3>1. (\E r : Leave(c, r)) \/ PcTo(c, "check")
            BY <2>8 DEF Reserve, PcTo
        <3> QED BY <2>1, <2>2, <3>1 DEF PCs
    <2>9. CASE Disconnect(c)
        <3>1. (\E r : Leave(c, r)) \/ PcTo(c, "drop")
            BY <2>9 DEF Disconnect, PcTo
        <3> QED BY <2>1, <2>2, <3>1 DEF PCs, PermitPC
    <2>10. CASE Check(c)
        <3>1. PcTo(c, "send") \/ PcTo(c, "refuse")
            BY <2>10 DEF Check, PcTo
        <3> QED BY <2>2, <3>1 DEF PCs, PermitPC
    <2>11. CASE \/ Refused(c) \/ LockGate(c) \/ Respond(c) \/ SendFails(c)
                \/ BeginSettle(c) \/ SettleFailure(c) \/ Reconcile(c)
        <3>1. \E p \in {"done", "reserve", "drain", "abandon", "settle", "release"} : PcTo(c, p)
            BY <2>11 DEF Refused, LockGate, Respond, SendFails, BeginSettle, SettleFailure,
                         Reconcile, PcTo
        <3> QED BY <2>2, <3>1 DEF PCs, PermitPC
    <2>15. CASE Abandon(c)
        BY <2>15, AbandonCall
    <2>12. CASE Serve(c)
        BY <2>5, <2>12 DEF Serve
    <2>13. CASE MarkCompleted(c)
        <3>1. calls' = Retried(c) \/ PcTo(c, "reconcile") \/ PcTo(c, "debit")
            BY <2>13 DEF MarkCompleted, PcTo
        <3> QED BY <2>2, <2>4, <3>1 DEF PCs, PermitPC
    <2>14. CASE Debit(c)
        <3> DEFINE e == [ref |-> JobRef(c), delta |-> -JobCost(c), rid |-> provider[c].id]
                   paid == ApplyEntry(book, e)
                   i == IndexOf(paid, JobRef(c))
        <3>1. PICK o \in Outcomes :
                  /\ book' = Written(o, book, paid)
                  /\ calls' = IF o # "done" THEN Retried(c)
                              ELSE [calls EXCEPT ![c].pc = "release", ![c].settled = i]
            BY <2>14 DEF Debit
        <3>2. e \in LedgerEntry /\ e.ref = JobRef(c) /\ book \in Book
            BY JobEntryType DEF TypeOK
        <3> HIDE DEF e
        <3>3. paid \in Book /\ Recorded(paid, JobRef(c))
            BY <3>2, ApplyEntryType
        <3> HIDE DEF paid
        <3>4. i \in DOMAIN paid.ledger
            BY <3>3, IndexOfType
        <3> HIDE DEF i
        <3>5. CASE o = "done"
            <4>1. book' = paid
                BY <3>1, <3>5 DEF Written
            <4>2. calls' = [calls EXCEPT ![c].pc = "release", ![c].settled = i]
                BY <3>1, <3>5
            <4>3. calls'[c].pc = "release" /\ calls'[c].settled = i
                BY <1>0, <4>2 DEF Call
            <4> QED BY <3>4, <4>1, <4>3
        <3> QED BY <2>4, <3>1, <3>5
    <2> QED BY <2>6, <2>7, <2>8, <2>9, <2>10, <2>11, <2>12, <2>13, <2>14, <2>15
       DEF CallStep
<1> QED BY <1>1, <1>2, <1>3 DEF SettledMoves

\* A settled row costs what it cost.
LEMMA CostKept ==
    ASSUME TypeOK, LedgerMoves, NEW i \in DOMAIN book.ledger
    PROVE  i \in DOMAIN book'.ledger /\ Cost(i)' = Cost(i)
BY DebitsGrow DEF Cost

LEMMA CallBurn ==
    ASSUME Base, Burn, NEW c \in Calls, CallStep(c)
    PROVE  Burn'
<1> USE DEF Base
<1>1. /\ LedgerMoves /\ SettledMoves(c)
      /\ \A d \in Calls \ {c} : calls'[d] = calls[d]
    BY CallRows, CallSettled, CallPcs DEF PcMoves
<1>2. SettledRows'
    <2>1. DOMAIN book.ledger \subseteq DOMAIN book'.ledger
        BY <1>1, DebitsGrow
    <2>2. /\ calls'[c].settled \in DOMAIN book'.ledger \cup {0}
          /\ calls'[c].settled # 0 => calls'[c].pc \in {"release", "done"}
        BY <1>1, <2>1 DEF SettledMoves, Burn, SettledRows
    <2> QED BY <1>1, <2>1, <2>2 DEF Burn, SettledRows
<1>3. BurnCounted'
    <2> SUFFICES ASSUME NEW d \in Calls, NEW i, i = calls'[d].settled,
                        process' # "down", calls'[d].pc = "done", i > hour', Cost(i)' > 0
                 PROVE  current' # 0 /\ i \in entries'[current'].spend
        BY DEF BurnCounted
    <2>1. hour' = hour /\ process' = process /\ hour \in Nat
        BY DEF CallStep, Register, RegisterFresh, Refused, LockGate, Reserve, Insufficient, Check,
               CloseRefused, Serve, Respond, SendFails, Abandon, Disconnect, Finish, BeginSettle,
               SettleFailure, MarkCompleted, Debit, Reconcile, Release, TypeOK
    <2>2. i # 0
        BY <2>1
    <2>3. i = calls[d].settled
        BY <1>1 DEF SettledMoves
    <2>4. i \in DOMAIN book.ledger
        BY <2>2, <2>3 DEF Burn, SettledRows
    <2>5. Cost(i) > 0
        BY <1>1, <2>4, CostKept
    <2>6. CASE d = c
        <3>1. calls[c].pc = "release"
            BY <1>1, <2>2, <2>3, <2>6 DEF SettledMoves, Burn, SettledRows
        <3>2. Release(c)
            BY <1>1, <3>1 DEF SettledMoves
        <3> QED BY <2>2, <2>3, <2>5, <2>6, <3>2, ReleaseSpend
    <2>7. CASE d # c
        <3>1. current # 0 /\ i \in entries[current].spend /\ i > hour
            BY <1>1, <2>1, <2>3, <2>5, <2>7 DEF Burn, BurnCounted
        <3>2. CASE RegisterFresh(c)
            <4>1. Pruned(entries[current]).spend = {} /\ entries[current] \in Runtime
                BY <3>1, <3>2 DEF RegisterFresh, Evictable, TypeOK
            <4>2. {j \in entries[current].spend : j > hour} = {}
                BY <4>1, PrunedType
            <4> QED BY <3>1, <4>2
        <3>3. CASE ~RegisterFresh(c)
            BY <3>1, <3>3, CallSpend DEF KeepsSpend
        <3> QED BY <3>2, <3>3
    <2> QED BY <2>6, <2>7
<1> QED BY <1>2, <1>3 DEF Burn

\* A step that leaves the calls and the entry in the map alone.
LEMMA BurnFrame ==
    ASSUME Base, Burn, LedgerMoves, UNCHANGED <<calls, current, entries>>,
           process' = process \/ process # "down", hour' \in Nat, hour' >= hour
    PROVE  Burn'
<1> USE DEF Base
<1>1. SettledRows'
    BY DebitsGrow DEF Burn, SettledRows
<1>2. BurnCounted'
    <2> SUFFICES ASSUME NEW d \in Calls, NEW i, i = calls[d].settled,
                        process' # "down", calls[d].pc = "done", i > hour', Cost(i)' > 0
                 PROVE  current # 0 /\ i \in entries[current].spend
        BY DEF BurnCounted
    <2>1. hour \in Nat /\ i \in Nat
        BY Fields DEF TypeOK
    <2>2. i > hour /\ i # 0
        BY <2>1
    <2>3. i \in DOMAIN book.ledger
        BY <2>2 DEF Burn, SettledRows
    <2>4. Cost(i) > 0
        BY <2>3, CostKept
    <2>5. process # "down"
        OBVIOUS
    <2> QED BY <2>2, <2>4, <2>5 DEF Burn, BurnCounted
<1> QED BY <1>1, <1>2 DEF Burn

LEMMA RelayBurn ==
    ASSUME Base, Burn, RelayStep
    PROVE  Burn'
<1> USE DEF Base
<1>1. LedgerMoves /\ hour \in Nat
    BY RelayTypes DEF TypeOK
<1>2. CASE Crash \/ Exit
    <2>1. Halt
        BY <1>2 DEF Crash, Exit
    <2>2. process' = "down" /\ book' = book
        BY <2>1 DEF Halt
    <2>3. \A c \in Calls : \/ calls'[c] = calls[c]
                           \/ calls'[c].settled = 0
        BY <2>1 DEF Halt, Lost, NewCall
    <2>4. SettledRows'
        BY <2>2, <2>3 DEF Burn, SettledRows
    <2>5. BurnCounted'
        BY <2>2 DEF BurnCounted
    <2> QED BY <2>4, <2>5 DEF Burn
<1>3. CASE Restart
    <2>1. UNCHANGED <<book, calls, hour>>
        BY <1>3 DEF Restart
    <2>2. SettledRows'
        BY <2>1 DEF Burn, SettledRows
    <2>3. BurnCounted'
        <3> SUFFICES ASSUME NEW d \in Calls, NEW i, i = calls[d].settled,
                            calls[d].pc = "done", i > hour, Cost(i) > 0
                     PROVE  current' # 0 /\ i \in entries'[current'].spend
            BY <2>1 DEF BurnCounted, Cost
        <3>1. i \in Nat /\ i # 0
            BY <1>1, Fields
        <3>2. i \in Recent
            BY <3>1 DEF Burn, SettledRows, Recent
        <3>3. current' = 1
            BY <1>3, <3>2 DEF Restart
        <3>4. 1 \in EntryIds
            <4>1. Cardinality(Calls) \in Nat
                BY FS_CardinalityType
            <4> QED BY <4>1 DEF EntryIds
        <3>5. entries'[1] = [NewRuntime EXCEPT !.spend = Recent, !.touched = TRUE]
            BY <1>3, <3>3, <3>4 DEF Restart
        <3>6. entries'[1].spend = Recent
            BY <3>5 DEF NewRuntime
        <3> QED BY <3>2, <3>3, <3>6
    <2> QED BY <2>2, <2>3 DEF Burn
<1>4. CASE Close \/ HourPasses \/ \E p \in Purchases : Credit(p)
    <2>1. /\ UNCHANGED <<calls, current, entries>>
          /\ process' = process \/ process # "down"
          /\ hour' = hour \/ hour' = hour + 1
        BY <1>4 DEF Close, HourPasses, Credit
    <2>2. hour' \in Nat /\ hour' >= hour
        BY <1>1, <2>1
    <2> QED BY <1>1, <2>1, <2>2, BurnFrame
<1> QED BY <1>2, <1>3, <1>4 DEF RelayStep

LEMMA ResolverLedger ==
    ASSUME Base, ResolverStep
    PROVE  LedgerMoves
<1>1. CASE ResolveDebit
    <2>0. PICK c \in Calls : c = resolver.call /\ DebitRef(resolver.ref, c)
        BY <1>1 DEF ResolveDebit, Base, Resolving
    <2> DEFINE e == [ref |-> resolver.ref, delta |-> -provider[c].bill,
                     rid |-> provider[c].exportId]
    <2>1. PICK o \in Outcomes : book' = Written(o, book, ApplyEntry(book, e))
        BY <1>1, <2>0 DEF ResolveDebit
    <2>2. e \in LedgerEntry
        <3>1. provider[c].exportId \in BOOLEAN /\ provider[c].bill \in Nat
            BY <2>0, JobEntryType DEF Base
        <3>2. -provider[c].bill \in Int /\ resolver.ref \in Ref
            BY <2>0, <3>1 DEF DebitRef
        <3> QED BY <3>1, <3>2 DEF LedgerEntry
    <2> HIDE DEF e
    <2> QED BY <2>1, <2>2 DEF Written, LedgerMoves, Applied
<1>2. CASE ~ResolveDebit
    BY <1>2 DEF ResolverStep, ResolveStart, ResolveRead, ResolveMark, LedgerMoves
<1> QED BY <1>1, <1>2

LEMMA ResolverBurn ==
    ASSUME Base, BilledRows, Burn, ResolverStep
    PROVE  Burn'
<1>1. UNCHANGED <<calls, current, entries, process, hour>>
    BY ResolverRows DEF ResolverMoves
<1>2. LedgerMoves
    BY ResolverLedger
<1>3. hour' \in Nat /\ hour' >= hour
    BY <1>1 DEF Base, TypeOK
<1> QED BY <1>1, <1>2, <1>3, BurnFrame

\* A settled debit that is still in the burn window counts against the hourly
\* cap: push_spend, prune, prune_idle_entries and the reload of try_new never
\* lose it between them, whatever the limits and the number of calls.
THEOREM BurnIsCounted == Spec => []BurnCounted
<1>1. Init => Books /\ Burn
    <2>1. Init => Burn
        BY DEF Init, Burn, SettledRows, BurnCounted, NewCall
    <2> QED BY <2>1, BooksInit
<1>2. Books /\ Burn /\ [Next]_vars => (Books /\ Burn)'
    <2> SUFFICES ASSUME Books, Burn, [Next]_vars
                 PROVE  Burn'
        BY BooksStep
    <2>1. CASE UNCHANGED vars
        <3>1. hour' \in Nat /\ hour' >= hour /\ LedgerMoves
            BY <2>1 DEF vars, LedgerMoves, Books, Base, TypeOK
        <3> QED BY <2>1, <3>1, BurnFrame DEF vars, Books
    <2>2. CASE Next
        BY <2>2, NextSteps, CallBurn, RelayBurn, ResolverBurn DEF Books
    <2> QED BY <2>1, <2>2
<1>3. Books /\ Burn => BurnCounted
    BY DEF Burn
<1> QED BY <1>1, <1>2, <1>3, PTL DEF Spec

-----------------------------------------------------------------------------
(* A call is charged once *)

\* Three ways to tell that an export speaks of a debit that was made: neither
\* side knows a request id, and both debit under the intent's own reference;
\* the relay has no usage, and leaves the debit to the export; the relay is
\* down while the operator resolves, and debited the cost and the request id
\* that the export states.
ByIntent(w) == ~w.id /\ ~w.exportId
ByExport(w) == w.basis = "none"
ByRequest(w) == w.id /\ w.exportId /\ w.basis = "observed"

Attributable(s) ==
    \A w \in s.responses : w.ok => ByIntent(w) \/ ByExport(w) \/ (~s.live /\ ByRequest(w))

Over == {"done", "gone"}
Busy == {"debit", "mark"}

\* The kind of reference the resolver debits a call under.
ExportKind(c) == IF provider[c].exportId THEN "correction" ELSE "intent"

\* A ledger row that the export of call c would be recognised by.
Recognised(row, c) == row.rid /\ -row.delta = provider[c].bill

UniqueRefs ==
    \A i, j \in DOMAIN book.ledger : book.ledger[i].ref = book.ledger[j].ref => i = j

Kind(i) == book.ledger[i].ref.kind

ChargedAt(c) ==
    /\ Debits(book, c) # {} => Billed(c)
    /\ ByIntent(provider[c]) => \A i \in Debits(book, c) : Kind(i) = "intent"
    /\ ByExport(provider[c]) => \A i \in Debits(book, c) : Kind(i) = ExportKind(c)
    /\ ~budget.live /\ ByRequest(provider[c]) =>
          /\ \A i \in Debits(book, c) : Recognised(book.ledger[i], c)
          /\ calls[c].pc \notin Over => \A i \in Debits(book, c) : Kind(i) = "request"
          /\ \A i, j \in Debits(book, c) : Kind(i) = Kind(j)

\* What the resolver is about to debit is what was debited before, or nothing was.
ResolverCharges ==
    /\ resolver.pc = "debit" =>
          /\ resolver.ref.kind = ExportKind(resolver.call)
          /\ ~budget.live /\ ByRequest(provider[resolver.call]) =>
                Debits(book, resolver.call) = {}
    /\ ~budget.live => /\ \A c \in resolver.rows : calls[c].pc \in Over
                       /\ resolver.pc \in Busy => calls[resolver.call].pc \in Over

Charges ==
    /\ UniqueRefs
    /\ Attributable(budget)
    /\ \A c \in Calls : /\ provider[c] = Silent \/ provider[c] \in budget.responses
                        /\ calls[c].pc = "debit" => Billed(c) /\ provider[c].basis # "none"
                        /\ ChargedAt(c)
    /\ ResolverCharges

\* The rows of an entry that is applied.
LEMMA AppliedRows ==
    ASSUME TypeOK, UniqueRefs, NEW e \in LedgerEntry, Applied(e)
    PROVE  /\ UniqueRefs'
           /\ \A d : \A i \in Debits(book', d) :
                 \/ i \in Debits(book, d) /\ book'.ledger[i] = book.ledger[i]
                 \/ book'.ledger[i] = e /\ e.ref.kind # "payment" /\ e.ref.of = d
<1>1. book \in Book
    BY DEF TypeOK
<1>2. /\ DOMAIN book.ledger \subseteq DOMAIN book'.ledger
      /\ \A i \in DOMAIN book.ledger : book'.ledger[i] = book.ledger[i]
      /\ \A i \in DOMAIN book'.ledger \ DOMAIN book.ledger : book'.ledger[i] = e
    BY <1>1, ApplyEntryType DEF Applied
<1>3. UniqueRefs'
    <2>1. CASE Recorded(book, e.ref)
        BY <2>1 DEF Applied, ApplyEntry, UniqueRefs
    <2>2. CASE ~Recorded(book, e.ref)
        <3>1. book' = [balance |-> book.balance + e.delta, ledger |-> Append(book.ledger, e)]
            BY <2>2 DEF Applied, ApplyEntry
        <3>2. DOMAIN book'.ledger = DOMAIN book.ledger \cup {Len(book.ledger) + 1}
            BY <1>1, <3>1 DEF Book
        <3>3. \A i \in DOMAIN book.ledger : book.ledger[i].ref # e.ref
            BY <2>2 DEF Recorded
        <3>4. ASSUME NEW i \in DOMAIN book'.ledger, NEW j \in DOMAIN book'.ledger,
                     book'.ledger[i].ref = book'.ledger[j].ref
              PROVE  i = j
            BY <1>2, <3>2, <3>3, <3>4 DEF UniqueRefs
        <3> QED BY <3>4 DEF UniqueRefs
    <2> QED BY <2>1, <2>2
<1>4. \A d : \A i \in Debits(book', d) :
          \/ i \in Debits(book, d) /\ book'.ledger[i] = book.ledger[i]
          \/ book'.ledger[i] = e /\ e.ref.kind # "payment" /\ e.ref.of = d
    BY <1>2 DEF Debits
<1> QED BY <1>3, <1>4

\* A call whose debits a step leaves alone.
LEMMA ChargedFrame ==
    ASSUME NEW c \in Calls, ChargedAt(c),
           Debits(book', c) = Debits(book, c),
           \A i \in Debits(book, c) : book'.ledger[i] = book.ledger[i],
           budget'.live = budget.live,
           provider'[c] = provider[c] \/ (~Billed(c) /\ provider[c] = Silent),
           calls[c].pc \in Over => calls'[c].pc \in Over
    PROVE  ChargedAt(c)'
<1>1. CASE provider'[c] = provider[c]
    BY <1>1 DEF ChargedAt, Billed, ByIntent, ByExport, ByRequest, Kind, ExportKind, Recognised
<1>2. CASE ~Billed(c)
    <2>1. Debits(book', c) = {}
        BY <1>2 DEF ChargedAt
    <2> QED BY <2>1 DEF ChargedAt
<1> QED BY <1>1, <1>2

\* One kind of reference for all the debits of a call is one debit.
LEMMA OneKindOneDebit ==
    ASSUME TypeOK, UniqueRefs, NEW c \in Calls,
           \A i, j \in Debits(book, c) : Kind(i) = Kind(j)
    PROVE  Cardinality(Debits(book, c)) <= 1
<1>1. \A i \in Debits(book, c) : book.ledger[i].ref = [kind |-> Kind(i), of |-> c]
    <2> SUFFICES ASSUME NEW i \in Debits(book, c)
                 PROVE  book.ledger[i].ref = [kind |-> Kind(i), of |-> c]
        OBVIOUS
    <2>1. book.ledger \in Seq(LedgerEntry) /\ i \in DOMAIN book.ledger
        BY DEF TypeOK, Book, Debits
    <2>2. book.ledger[i] \in LedgerEntry
        BY <2>1
    <2>3. book.ledger[i].ref \in Ref /\ book.ledger[i].ref.of = c
        BY <2>2 DEF LedgerEntry, Debits
    <2> QED BY <2>3 DEF Ref, Kind
<1>2. \A i, j \in Debits(book, c) : i = j
    BY <1>1 DEF UniqueRefs, Debits
<1>3. CASE Debits(book, c) = {}
    BY <1>3, FS_EmptySet
<1>4. CASE Debits(book, c) # {}
    <2>1. PICK i : i \in Debits(book, c)
        BY <1>4
    <2>2. Debits(book, c) = {i}
        BY <1>2, <2>1
    <2>3. Cardinality({i}) = 1
        BY FS_Singleton
    <2>4. Cardinality(Debits(book, c)) = 1
        BY <2>2, <2>3
    <2> QED BY <2>4
<1> QED BY <1>3, <1>4

LEMMA ChargesImply ==
    ASSUME TypeOK, Charges
    PROVE  ChargedOnce
<1> SUFFICES ASSUME NEW c \in Calls
             PROVE  Cardinality(Debits(book, c)) <= 1
    BY DEF ChargedOnce
<1>1. ChargedAt(c) /\ UniqueRefs /\ Attributable(budget)
      /\ (provider[c] = Silent \/ provider[c] \in budget.responses)
    BY DEF Charges
<1>2. \A i, j \in Debits(book, c) : Kind(i) = Kind(j)
    <2>1. CASE ~Billed(c)
        BY <1>1, <2>1 DEF ChargedAt
    <2>2. CASE Billed(c)
        <3>1. \/ ByIntent(provider[c]) \/ ByExport(provider[c])
              \/ ~budget.live /\ ByRequest(provider[c])
            BY <1>1, <2>2, SilentIsUnbilled DEF Attributable, Billed
        <3> QED BY <1>1, <3>1 DEF ChargedAt
    <2> QED BY <2>1, <2>2
<1> QED BY <1>1, <1>2, OneKindOneDebit

\* What no step changes of the scenario.
LEMMA ScenarioKept ==
    ASSUME TypeOK, [Next]_vars
    PROVE  budget'.live = budget.live /\ budget'.responses = budget.responses
<1>1. budget \in Scenario
    BY DEF TypeOK
<1>2. ASSUME \E o : Paying(o)
      PROVE  budget'.live = budget.live /\ budget'.responses = budget.responses
    BY <1>1, <1>2 DEF Paying, Scenario
<1>3. CASE UNCHANGED vars
    BY <1>3 DEF vars
<1>4. CASE \E c \in Calls : CallStep(c)
    <2>1. PICK c \in Calls : CallStep(c)
        BY <1>4
    <2>2. \/ budget' = budget \/ (\E o : Paying(o))
          \/ budget' = [budget EXCEPT !.cancels = @ - 1]
        BY <2>1 DEF CallStep, Register, RegisterFresh, Refused, LockGate, Reserve, Insufficient,
               Check, CloseRefused, Serve, Respond, SendFails, Abandon, Disconnect, Finish,
               BeginSettle, SettleFailure, MarkCompleted, Debit, Reconcile, Release
    <2> QED BY <1>1, <1>2, <2>2 DEF Scenario
<1>5. CASE RelayStep
    <2>1. \/ budget' = budget \/ budget' = [budget EXCEPT !.stops = @ - 1]
          \/ budget' = [budget EXCEPT !.hours = @ - 1]
          \/ budget' = [budget EXCEPT !.payments = @ - 1]
        BY <1>5 DEF RelayStep, Crash, Close, Exit, Restart, HourPasses, Credit
    <2> QED BY <1>1, <2>1 DEF Scenario
<1>6. CASE ResolverStep
    <2>1. \/ budget' = budget \/ (\E o : Paying(o))
          \/ budget' = [budget EXCEPT !.resolves = @ - 1]
        BY <1>6 DEF ResolverStep, ResolveStart, ResolveRead, ResolveDebit, ResolveMark
    <2> QED BY <1>1, <1>2, <2>1 DEF Scenario
<1> QED BY <1>3, <1>4, <1>5, <1>6, NextSteps

\* The settlement of a call never adds a second debit.
LEMMA DebitCharged ==
    ASSUME Books, Charges, NEW c \in Calls, Debit(c), budget'.live = budget.live
    PROVE  UniqueRefs' /\ (\A d \in Calls : ChargedAt(d)')
           /\ (~budget.live => \A d : d # c => Debits(book', d) \subseteq Debits(book, d))
<1> USE DEF Books, Base
<1> DEFINE e == [ref |-> JobRef(c), delta |-> -JobCost(c), rid |-> provider[c].id]
<1>1. PICK o \in Outcomes : book' = Written(o, book, ApplyEntry(book, e))
    BY DEF Debit
<1>2. e \in LedgerEntry /\ e.ref = JobRef(c)
    BY JobEntryType
<1>3. calls[c].pc = "debit" /\ provider' = provider
    BY DEF Debit
<1>4. calls'[c].pc \notin Over /\ \A d \in Calls \ {c} : calls'[d] = calls[d]
    <2>1. CallStep(c)
        BY DEF CallStep
    <2>2. \A d \in Calls \ {c} : calls'[d] = calls[d]
        BY <2>1, CallPcs DEF PcMoves
    <2>3. calls'[c].pc \in {"settle", "reconcile", "release"}
        <3>1. calls \in [Calls -> Call]
            BY DEF TypeOK
        <3> QED BY <3>1 DEF Debit, Retried
    <2> QED BY <2>2, <2>3 DEF Over
<1>5. CASE book' = book
    <2>1. \A d \in Calls : calls[d].pc \in Over => calls'[d].pc \in Over
        BY <1>3, <1>4 DEF Over
    <2>2. \A d \in Calls : ChargedAt(d)'
        BY <1>3, <1>5, <2>1, ChargedFrame DEF Charges
    <2> QED BY <1>5, <2>2 DEF Charges, UniqueRefs
<1>6. CASE Applied(e)
    <2>1. /\ UniqueRefs'
          /\ \A d : \A i \in Debits(book', d) :
                 \/ i \in Debits(book, d) /\ book'.ledger[i] = book.ledger[i]
                 \/ book'.ledger[i] = e /\ e.ref.kind # "payment" /\ e.ref.of = d
        BY <1>2, <1>6, AppliedRows DEF Charges
    <2>2. LedgerMoves
        BY <1>2, <1>6 DEF LedgerMoves
    <2>3. e.ref.of = c /\ e.ref.kind = (IF provider[c].id THEN "request" ELSE "intent")
        BY <1>2 DEF JobRef
    <2>4. e.rid = provider[c].id /\ e.delta = -JobCost(c)
        OBVIOUS
    <2> HIDE DEF e
    <2>5. \A d : d # c => Debits(book', d) \subseteq Debits(book, d)
        BY <2>1, <2>3
    <2>6. \A d \in Calls \ {c} : ChargedAt(d)'
        <3> SUFFICES ASSUME NEW d \in Calls \ {c}
                     PROVE  ChargedAt(d)'
            OBVIOUS
        <3>1. Debits(book', d) = Debits(book, d)
            BY <2>2, <2>5, DebitsGrow
        <3>2. \A i \in Debits(book, d) : book'.ledger[i] = book.ledger[i]
            BY <2>2, DebitsGrow DEF Debits
        <3> QED BY <1>3, <1>4, <3>1, <3>2, ChargedFrame DEF Charges
    <2>7. ChargedAt(c)'
        <3>1. ChargedAt(c) /\ Billed(c) /\ provider[c].basis # "none"
            BY <1>3 DEF Charges
        <3>2. \/ ByIntent(provider[c])
              \/ ~budget.live /\ ByRequest(provider[c])
            BY <3>1, SilentIsUnbilled DEF Charges, Attributable, Billed, ByExport
        <3>3. CASE ByIntent(provider[c])
            <4>1. e.ref.kind = "intent"
                BY <2>3, <3>3 DEF ByIntent
            <4>2. \A i \in Debits(book', c) : Kind(i)' = "intent"
                BY <2>1, <3>1, <3>3, <4>1 DEF ChargedAt, Kind
            <4> QED BY <1>3, <3>1, <3>3, <4>2
                    DEF ChargedAt, Billed, ByIntent, ByExport, ByRequest
        <3>4. CASE ~budget.live /\ ByRequest(provider[c])
            <4>1. /\ e.ref.kind = "request" /\ e.rid /\ provider[c].bill \in Nat
                  /\ e.delta = -provider[c].bill
                BY <2>3, <2>4, <3>4, JobEntryType DEF ByRequest, JobCost
            <4>2. Recognised(e, c)
                BY <4>1 DEF Recognised
            <4>3. \A i \in Debits(book', c) :
                      Kind(i)' = "request" /\ Recognised(book'.ledger[i], c)
                <5>1. \A i \in Debits(book, c) :
                          Kind(i) = "request" /\ Recognised(book.ledger[i], c)
                    BY <1>3, <3>1, <3>4 DEF ChargedAt, Over
                <5> QED BY <2>1, <4>1, <4>2, <5>1 DEF Kind
            <4>4. \A i \in Debits(book', c) : /\ book'.ledger[i].rid
                                              /\ -book'.ledger[i].delta = provider'[c].bill
                BY <1>3, <4>3 DEF Recognised
            <4> HIDE DEF e
            <4>5. /\ \A i \in Debits(book', c) : Kind(i)' = "request"
                  /\ \A i, j \in Debits(book', c) : Kind(i)' = Kind(j)'
                BY <4>3
            <4>6. ~ByIntent(provider'[c]) /\ ~ByExport(provider'[c]) /\ Billed(c)'
                BY <1>3, <3>1, <3>4 DEF Billed, ByIntent, ByExport, ByRequest
            <4> QED BY <4>4, <4>5, <4>6 DEF ChargedAt, Recognised
        <3> QED BY <3>2, <3>3, <3>4
    <2> QED BY <2>1, <2>5, <2>6, <2>7
<1> QED BY <1>1, <1>5, <1>6 DEF Written, Applied

\* Only settle_one's attribution leads to its debit.
LEMMA CallDebits ==
    ASSUME TypeOK, Authority, NEW c \in Calls, CallStep(c), calls'[c].pc = "debit"
    PROVE  MarkCompleted(c) /\ provider[c].basis # "none"
<1>0. calls \in [Calls -> Call]
    BY DEF TypeOK
<1>1. CASE \E r : Leave(c, r)
    BY <1>1, LeavePc
<1>2. CASE \E p \in PCs \ {"debit"} : PcTo(c, p)
    BY <1>2, PcToType
<1>3. CASE Register(c) \/ RegisterFresh(c)
    <2>1. PICK e : calls' = [calls EXCEPT ![c].pc = "gate", ![c].entry = e]
        BY <1>3 DEF Register, RegisterFresh
    <2>2. calls'[c].pc = "gate"
        BY <1>0, <2>1 DEF Call
    <2> QED BY <2>2
<1>4. CASE Insufficient(c) \/ CloseRefused(c) \/ Finish(c) \/ Release(c)
    <2>1. \E r : Leave(c, r)
        BY <1>4 DEF Insufficient, CloseRefused, Finish, Release, Leave
    <2> QED BY <1>1, <2>1
<1>5. CASE Reserve(c) \/ Disconnect(c) \/ Check(c)
    <2>1. (\E r : Leave(c, r)) \/ \E p \in {"check", "drop", "send", "refuse"} : PcTo(c, p)
        BY <1>5 DEF Reserve, Disconnect, Check, PcTo
    <2> QED BY <1>1, <1>2, <2>1 DEF PCs, PermitPC
<1>10. CASE Abandon(c)
    BY <1>10, AbandonCall
<1>6. CASE \/ Refused(c) \/ LockGate(c) \/ Respond(c) \/ SendFails(c)
           \/ BeginSettle(c) \/ SettleFailure(c) \/ Reconcile(c)
    <2>1. \E p \in {"done", "reserve", "drain", "abandon", "settle", "release"} : PcTo(c, p)
        BY <1>6 DEF Refused, LockGate, Respond, SendFails, BeginSettle, SettleFailure, Reconcile,
                    PcTo
    <2> QED BY <1>2, <2>1 DEF PCs, PermitPC
<1>7. CASE Serve(c)
    BY <1>7 DEF Serve
<1>8. CASE MarkCompleted(c)
    <2>1. \/ calls' = Retried(c) \/ PcTo(c, "reconcile")
          \/ provider[c].basis # "none"
        BY <1>8 DEF MarkCompleted, PcTo
    <2>2. CASE calls' = Retried(c)
        BY <2>2, RetriedType
    <2> QED BY <1>2, <1>8, <2>1, <2>2 DEF PCs, PermitPC
<1>9. CASE Debit(c)
    <2>1. calls'[c].pc \in {"settle", "reconcile", "release"}
        BY <1>0, <1>9 DEF Debit, Retried
    <2> QED BY <2>1
<1> QED BY <1>3, <1>4, <1>5, <1>6, <1>7, <1>8, <1>9, <1>10 DEF CallStep

LEMMA CallCharges ==
    ASSUME Books, Charges, NEW c \in Calls, CallStep(c),
           budget'.live = budget.live, budget'.responses = budget.responses
    PROVE  Charges'
<1> USE DEF Books, Base
<1>1. /\ RowMoves(c) /\ LedgerMoves /\ resolver' = resolver /\ PcMoves(c) /\ SettledMoves(c)
    BY CallRows, CallPcs, CallSettled
<1>2. \A d \in Calls : /\ Billed(d) => provider'[d] = provider[d]
                       /\ provider'[d] \in {provider[d]} \cup budget.responses
    BY BilledStays
<1>3. \A d \in Calls : calls[d].pc \in Over => calls'[d].pc \in Over
    BY <1>1 DEF SettledMoves, PcMoves, Over
<1>4. Attributable(budget)'
    BY DEF Charges, Attributable
<1>5. \A d \in Calls : provider'[d] = Silent \/ provider'[d] \in budget'.responses
    BY <1>2 DEF Charges
<1>6. /\ UniqueRefs' /\ (\A d \in Calls : ChargedAt(d)')
      /\ ~budget.live => \A d : d # c => Debits(book', d) \subseteq Debits(book, d)
      /\ Debit(c) \/ book' = book
    <2>1. CASE Debit(c)
        BY <2>1, DebitCharged
    <2>2. CASE ~Debit(c)
        <3>1. book' = book
            BY <2>2 DEF CallStep, Register, RegisterFresh, Refused, LockGate, Reserve,
                   Insufficient, Check, CloseRefused, Serve, Respond, SendFails, Abandon,
                   Disconnect, Finish, BeginSettle, SettleFailure, MarkCompleted, Reconcile,
                   Release
        <3>2. \A d \in Calls : provider'[d] = provider[d] \/ (~Billed(d) /\ provider[d] = Silent)
            <4>1. Serve(c) \/ provider' = provider
                BY DEF CallStep, Register, RegisterFresh, Refused, LockGate, Reserve,
                   Insufficient, Check, CloseRefused, Respond, SendFails, Abandon, Disconnect,
                   Finish, BeginSettle, SettleFailure, MarkCompleted, Debit, Reconcile, Release
            <4> QED BY <4>1, SilentIsUnbilled DEF Serve, Billed, TypeOK
        <3>3. \A d \in Calls : ChargedAt(d)'
            BY <1>3, <3>1, <3>2, ChargedFrame DEF Charges
        <3> QED BY <3>1, <3>3 DEF Charges, UniqueRefs
    <2> QED BY <2>1, <2>2
<1>7. \A d \in Calls : calls'[d].pc = "debit" => Billed(d)' /\ provider'[d].basis # "none"
    <2>1. \A d \in Calls \ {c} : calls'[d].pc = "debit" =>
                                     Billed(d)' /\ provider'[d].basis # "none"
        BY <1>1, <1>2 DEF Charges, PcMoves, Billed
    <2>2. calls'[c].pc = "debit" => MarkCompleted(c) /\ provider[c].basis # "none"
        BY CallDebits
    <2>3. MarkCompleted(c) => Billed(c) /\ provider' = provider
        BY DEF MarkCompleted, Billed
    <2> QED BY <2>1, <2>2, <2>3 DEF Billed
<1>8. ResolverCharges'
    <2>1. resolver.rows \subseteq Calls /\ (resolver.pc \in Busy => resolver.call \in Calls)
        BY DEF TypeOK, Resolving, Busy
    <2>2. ResolverCharges /\ BilledRows
        BY DEF Charges
    <2>3. ASSUME resolver.pc = "debit"
          PROVE  /\ resolver.ref.kind = ExportKind(resolver.call)'
                 /\ ~budget.live /\ ByRequest(provider'[resolver.call]) =>
                        Debits(book', resolver.call) = {}
        <3> DEFINE d == resolver.call
        <3>1. d \in Calls /\ Billed(d) /\ provider'[d] = provider[d]
            BY <1>2, <2>1, <2>2, <2>3 DEF BilledRows, Busy
        <3>2. resolver.ref.kind = ExportKind(resolver.call)'
            BY <1>1, <2>2, <2>3, <3>1 DEF ResolverCharges, ExportKind
        <3>3. ASSUME ~budget.live, ByRequest(provider'[d])
              PROVE  Debits(book', d) = {}
            <4>1. calls[d].pc \in Over /\ Debits(book, d) = {}
                BY <2>2, <2>3, <3>1, <3>3 DEF ResolverCharges, Busy
            <4>2. d # c
                BY <1>1, <4>1 DEF SettledMoves, Over
            <4>3. Debits(book', d) \subseteq Debits(book, d)
                BY <1>6, <3>3, <4>2
            <4> QED BY <4>1, <4>3
        <3> QED BY <3>2, <3>3
    <2>4. ~budget.live => /\ \A d \in resolver.rows : calls'[d].pc \in Over
                          /\ resolver.pc \in Busy => calls'[resolver.call].pc \in Over
        BY <1>3, <2>1, <2>2 DEF ResolverCharges
    <2> QED BY <1>1, <2>3, <2>4 DEF ResolverCharges
<1> QED BY <1>4, <1>5, <1>6, <1>7, <1>8 DEF Charges

\* A step that touches neither the debits nor the resolver.
LEMMA ChargesFrame ==
    ASSUME Books, Charges, UniqueRefs',
           \A c : Debits(book', c) = Debits(book, c),
           \A c : \A i \in Debits(book, c) : book'.ledger[i] = book.ledger[i],
           budget'.live = budget.live, budget'.responses = budget.responses,
           provider' = provider, resolver' = resolver,
           \A c \in Calls : calls'[c].pc \in {calls[c].pc, "gone"}
    PROVE  Charges'
<1> USE DEF Books, Base
<1>1. \A c \in Calls : calls[c].pc \in Over => calls'[c].pc \in Over
    BY DEF Over
<1>2. \A c \in Calls : ChargedAt(c)'
    BY <1>1, ChargedFrame DEF Charges
<1>3. resolver.rows \subseteq Calls /\ (resolver.pc \in Busy => resolver.call \in Calls)
    BY DEF TypeOK, Resolving, Busy
<1>4. ResolverCharges'
    BY <1>1, <1>3 DEF Charges, ResolverCharges, ExportKind, ByRequest
<1>5. Attributable(budget)'
    BY DEF Charges, Attributable
<1> QED BY <1>2, <1>4, <1>5 DEF Charges, Billed

LEMMA RelayCharges ==
    ASSUME Books, Charges, RelayStep,
           budget'.live = budget.live, budget'.responses = budget.responses
    PROVE  Charges'
<1> USE DEF Books, Base
<1>1. LedgerMoves /\ UNCHANGED <<intents, provider, resolver>>
    BY RelayTypes
<1>2. \A c \in Calls : calls'[c].pc \in {calls[c].pc, "gone"}
    BY RelayPcs
<1>3. \A c : \A i \in Debits(book, c) : book'.ledger[i] = book.ledger[i]
    BY <1>1, DebitsGrow DEF Debits
<1>4. UniqueRefs' /\ \A c : Debits(book', c) = Debits(book, c)
    <2>1. CASE book' = book
        BY <2>1 DEF Charges, UniqueRefs
    <2>2. CASE \E p \in Purchases : Credit(p)
        <3>1. PICK p \in Purchases : Credit(p)
            BY <2>2
        <3> DEFINE e == [ref |-> [kind |-> "payment", of |-> p], delta |-> Amount, rid |-> FALSE]
        <3>2. e \in LedgerEntry /\ e.ref.kind = "payment"
            BY DEF LedgerEntry, Ref
        <3>3. Applied(e)
            BY <3>1 DEF Credit, Applied
        <3> HIDE DEF e
        <3>4. UniqueRefs' /\ \A c : Debits(book', c) \subseteq Debits(book, c)
            BY <3>2, <3>3, AppliedRows DEF Charges
        <3> QED BY <1>1, <3>4, DebitsGrow
    <2>3. book' = book \/ \E p \in Purchases : Credit(p)
        BY DEF RelayStep, Crash, Close, Exit, Restart, HourPasses, Halt
    <2> QED BY <2>1, <2>2, <2>3
<1> QED BY <1>1, <1>2, <1>3, <1>4, ChargesFrame

\* The resolver's steps that write no ledger row.
LEMMA ResolverChargesFrame ==
    ASSUME Charges, UNCHANGED <<book, provider, calls>>,
           budget'.live = budget.live, budget'.responses = budget.responses,
           ResolverCharges'
    PROVE  Charges'
<1>1. \A c \in Calls : ChargedAt(c)'
    BY ChargedFrame DEF Charges
<1>2. Attributable(budget)' /\ UniqueRefs'
    BY DEF Charges, Attributable, UniqueRefs
<1> QED BY <1>1, <1>2 DEF Charges, Billed

LEMMA ResolveStartCharges ==
    ASSUME Books, Charges, ResolveStart,
           budget'.live = budget.live, budget'.responses = budget.responses
    PROVE  Charges'
<1> USE DEF Books, Base
<1>1. PICK rows \in SUBSET {c \in Pending : Billed(c)} :
          resolver' = [Idle EXCEPT !.pc = "next", !.rows = rows]
    BY DEF ResolveStart
<1>2. resolver'.rows = rows /\ resolver'.pc = "next"
    BY <1>1 DEF Idle
<1>3. UNCHANGED <<book, provider, calls>>
    BY DEF ResolveStart
<1>4. ~budget.live => \A c \in rows : calls[c].pc \in Over
    <2> SUFFICES ASSUME ~budget.live, NEW c \in rows
                 PROVE  calls[c].pc \in Over
        OBVIOUS
    <2>1. process = "down"
        BY DEF ResolveStart
    <2>2. c \in Calls /\ Billed(c)
        BY DEF Pending
    <2>3. calls[c].pc \in Out
        BY <2>1, <2>2 DEF Authority, InMap
    <2>4. calls[c].pc # "idle"
        BY <2>2, SilentIsUnbilled DEF Recoverable, RecoverableAt, Early, Billed
    <2> QED BY <2>3, <2>4 DEF Out, Over
<1>5. ResolverCharges'
    BY <1>2, <1>3, <1>4 DEF ResolverCharges, Busy
<1> QED BY <1>3, <1>5, ResolverChargesFrame

LEMMA ResolveReadCharges ==
    ASSUME Books, Charges, NEW c \in Calls, ResolveRead(c),
           budget'.live = budget.live, budget'.responses = budget.responses
    PROVE  Charges'
<1> USE DEF Books, Base
<1>1. UNCHANGED <<book, provider, calls>> /\ c \in resolver.rows
    BY DEF ResolveRead
<1>2. resolver \in ResolverType
    BY DEF TypeOK, ResolverType
<1>3. ~budget.live => \A d \in resolver.rows : calls[d].pc \in Over
    BY DEF Charges, ResolverCharges
<1>4. CASE resolver' = After(c)
    <2>1. After(c).rows \subseteq resolver.rows /\ After(c).pc \in {"idle", "next"}
        <3> DEFINE n == resolver.rows \ {c}
        <3>1. [Idle EXCEPT !.pc = "next", !.rows = n].rows = n /\ Idle.rows = {}
            BY DEF Idle
        <3>2. After(c).rows \in {{}, n}
            BY <3>1 DEF After
        <3> QED BY <3>2, AfterType
    <2>2. ResolverCharges'
        BY <1>1, <1>3, <1>4, <2>1 DEF ResolverCharges, Busy
    <2> QED BY <1>1, <2>2, ResolverChargesFrame
<1>5. CASE \E ref : resolver' = [resolver EXCEPT !.pc = "mark", !.call = c, !.ref = ref]
    <2>1. resolver'.rows = resolver.rows /\ resolver'.pc = "mark" /\ resolver'.call = c
        BY <1>2, <1>5 DEF ResolverType
    <2>2. ResolverCharges'
        BY <1>1, <1>3, <2>1 DEF ResolverCharges
    <2> QED BY <1>1, <2>2, ResolverChargesFrame
<1>6. CASE /\ intents[c].state # "resolved" /\ Correlated(c) = {}
           /\ resolver' = [resolver EXCEPT !.pc = "debit", !.call = c, !.ref = CorrectionRef(c)]
    <2>1. /\ resolver'.rows = resolver.rows /\ resolver'.pc = "debit" /\ resolver'.call = c
          /\ resolver'.ref = CorrectionRef(c)
        BY <1>2, <1>6 DEF ResolverType
    <2>2. intents[c].correction_ref = NoRef
        BY <1>6 DEF FreshRows
    <2>3. CorrectionRef(c).kind = ExportKind(c)
        BY <2>2 DEF CorrectionRef, ExportKind
    <2>4. ASSUME ~budget.live, ByRequest(provider[c])
          PROVE  Debits(book, c) = {}
        <3>1. \A i \in Debits(book, c) : Recognised(book.ledger[i], c)
            BY <2>4 DEF Charges, ChargedAt
        <3>2. \A i \in Debits(book, c) : i \in Correlated(c)
            BY <2>4, <3>1 DEF Correlated, Recognised, Cost, ByRequest
        <3> QED BY <1>6, <3>2
    <2>5. ResolverCharges'
        BY <1>1, <1>3, <2>1, <2>3, <2>4 DEF ResolverCharges, ExportKind, ByRequest
    <2> QED BY <1>1, <2>5, ResolverChargesFrame
<1> QED BY <1>4, <1>5, <1>6 DEF ResolveRead

LEMMA ResolveMarkCharges ==
    ASSUME Books, Charges, ResolveMark,
           budget'.live = budget.live, budget'.responses = budget.responses
    PROVE  Charges'
<1> USE DEF Books, Base
<1>1. UNCHANGED <<book, provider, calls>> /\ resolver.call \in Calls
    BY DEF ResolveMark, Resolving
<1>2. resolver' = After(resolver.call) \/ resolver' = Idle
    BY DEF ResolveMark
<1>3. resolver'.rows \subseteq resolver.rows /\ resolver'.pc \in {"idle", "next"}
    <2> DEFINE n == resolver.rows \ {resolver.call}
    <2>1. /\ [Idle EXCEPT !.pc = "next", !.rows = n].rows = n
          /\ Idle.rows = {} /\ Idle.pc = "idle"
        BY DEF Idle
    <2>2. After(resolver.call).rows \in {{}, n}
        BY <2>1 DEF After
    <2> QED BY <1>1, <1>2, <2>1, <2>2, AfterType
<1>4. ~budget.live => \A d \in resolver.rows : calls[d].pc \in Over
    BY DEF Charges, ResolverCharges
<1>5. ResolverCharges'
    BY <1>1, <1>3, <1>4 DEF ResolverCharges, Busy
<1> QED BY <1>1, <1>5, ResolverChargesFrame

LEMMA ResolveDebitCharges ==
    ASSUME Books, Charges, ResolveDebit,
           budget'.live = budget.live, budget'.responses = budget.responses
    PROVE  Charges'
<1> USE DEF Books, Base
<1>0. PICK c \in Calls : c = resolver.call /\ DebitRef(resolver.ref, c) /\ Billed(c)
    BY DEF ResolveDebit, Resolving, BilledRows
<1> DEFINE e == [ref |-> resolver.ref, delta |-> -provider[c].bill,
                 rid |-> provider[c].exportId]
<1>1. PICK o \in Outcomes :
          /\ book' = Written(o, book, ApplyEntry(book, e))
          /\ resolver' = IF o = "done" THEN [resolver EXCEPT !.pc = "mark"] ELSE Idle
    BY <1>0 DEF ResolveDebit
<1>2. UNCHANGED <<provider, calls>> /\ resolver.pc = "debit"
    BY DEF ResolveDebit
<1>3. ResolverCharges'
    <2>1. resolver \in ResolverType
        BY DEF TypeOK, ResolverType
    <2>2. /\ resolver'.rows \subseteq resolver.rows /\ resolver'.pc # "debit"
          /\ resolver'.pc \in Busy => resolver'.call = resolver.call
        BY <1>1, <2>1 DEF ResolverType, Idle, Busy
    <2>3. ~budget.live => /\ \A d \in resolver.rows : calls[d].pc \in Over
                          /\ calls[resolver.call].pc \in Over
        BY <1>2 DEF Charges, ResolverCharges, Busy
    <2> QED BY <1>2, <2>2, <2>3 DEF ResolverCharges
<1>4. provider[c].exportId \in BOOLEAN /\ provider[c].bill \in Nat
    BY JobEntryType
<1>5. e \in LedgerEntry
    <2>1. -provider[c].bill \in Int /\ resolver.ref \in Ref
        BY <1>0, <1>4 DEF DebitRef
    <2> QED BY <1>4, <2>1 DEF LedgerEntry
<1>6. CASE book' = book
    BY <1>2, <1>3, <1>6, ResolverChargesFrame
<1>7. CASE Applied(e)
    <2>1. /\ UniqueRefs'
          /\ \A d : \A i \in Debits(book', d) :
                 \/ i \in Debits(book, d) /\ book'.ledger[i] = book.ledger[i]
                 \/ book'.ledger[i] = e /\ e.ref.kind # "payment" /\ e.ref.of = d
        BY <1>5, <1>7, AppliedRows DEF Charges
    <2>2. LedgerMoves
        BY <1>5, <1>7 DEF LedgerMoves
    <2>3. /\ e.ref.of = c /\ e.ref.kind = ExportKind(c)
          /\ e.rid = provider[c].exportId /\ -e.delta = provider[c].bill
        BY <1>0, <1>2, <1>4 DEF DebitRef, Charges, ResolverCharges
    <2> HIDE DEF e
    <2>4. \A d \in Calls \ {c} : ChargedAt(d)'
        <3> SUFFICES ASSUME NEW d \in Calls \ {c}
                     PROVE  ChargedAt(d)'
            OBVIOUS
        <3>1. Debits(book', d) = Debits(book, d)
            BY <2>1, <2>2, <2>3, DebitsGrow
        <3>2. \A i \in Debits(book, d) : book'.ledger[i] = book.ledger[i]
            BY <2>2, DebitsGrow DEF Debits
        <3> QED BY <1>2, <3>1, <3>2, ChargedFrame DEF Charges
    <2>5. ChargedAt(c)'
        <3>1. ChargedAt(c) /\ provider'[c] = provider[c]
            BY <1>2 DEF Charges
        <3>2. ByIntent(provider[c]) => \A i \in Debits(book', c) : Kind(i)' = "intent"
            BY <2>1, <2>3, <3>1 DEF ChargedAt, Kind, ByIntent, ExportKind
        <3>3. ByExport(provider[c]) => \A i \in Debits(book', c) : Kind(i)' = ExportKind(c)
            BY <2>1, <2>3, <3>1 DEF ChargedAt, Kind
        <3>4. ASSUME ~budget.live, ByRequest(provider[c])
              PROVE  /\ \A i \in Debits(book', c) : /\ book'.ledger[i] = e
                     /\ calls'[c].pc \in Over
            <4>1. Debits(book, c) = {} /\ calls[c].pc \in Over
                BY <1>0, <1>2, <3>4 DEF Charges, ResolverCharges, Busy
            <4> QED BY <1>2, <2>1, <4>1
        <3>5. ~budget.live /\ ByRequest(provider[c]) =>
                  /\ \A i \in Debits(book', c) : /\ book'.ledger[i].rid
                                                 /\ -book'.ledger[i].delta = provider[c].bill
                  /\ \A i, j \in Debits(book', c) : Kind(i)' = Kind(j)'
            BY <2>3, <3>4 DEF ByRequest, Kind
        <3>6. Billed(c)' /\ ExportKind(c)' = ExportKind(c)
            BY <1>0, <3>1 DEF Billed, ExportKind
        <3> QED BY <3>1, <3>2, <3>3, <3>4, <3>5, <3>6 DEF ChargedAt, Recognised
    <2>6. Attributable(budget)'
        BY DEF Charges, Attributable
    <2> QED BY <1>2, <1>3, <2>1, <2>4, <2>5, <2>6 DEF Charges, Billed
<1> QED BY <1>1, <1>6, <1>7 DEF Written, Applied

LEMMA ChargesInit ==
    ASSUME Init, \A s \in Scenarios : Attributable(s)
    PROVE  Books /\ Charges
<1>1. Books
    BY BooksInit
<1>2. \A c : Debits(book, c) = {}
    BY DEF Init, Debits
<1>3. UniqueRefs
    BY DEF Init, UniqueRefs
<1>4. Attributable(budget)
    BY DEF Init
<1>5. \A c \in Calls : /\ provider[c] = Silent /\ calls[c].pc = "idle" /\ ChargedAt(c)
    BY <1>2 DEF Init, NewCall, ChargedAt
<1>6. ResolverCharges
    BY DEF Init, Idle, ResolverCharges, Busy
<1> QED BY <1>1, <1>3, <1>4, <1>5, <1>6 DEF Charges

LEMMA ChargesStep ==
    ASSUME Books, Charges, [Next]_vars
    PROVE  Charges'
<1>1. budget'.live = budget.live /\ budget'.responses = budget.responses
    BY ScenarioKept DEF Books, Base
<1>2. CASE UNCHANGED vars
    <2>1. UniqueRefs'
        BY <1>2 DEF vars, Charges, UniqueRefs
    <2> QED BY <1>1, <1>2, <2>1, ChargesFrame DEF vars
<1>3. CASE Next
    BY <1>1, <1>3, NextSteps, CallCharges, RelayCharges, ResolveStartCharges,
       ResolveReadCharges, ResolveDebitCharges, ResolveMarkCharges DEF ResolverStep
<1> QED BY <1>2, <1>3

\* A call is debited once, whatever is retried, lost, crashed, restarted or
\* resolved again, as long as an export that speaks of a debit can be told to
\* do so: apply_entry_tx's key and the resolver's correlation are enough.  The
\* run double_charge shows what happens where the hypothesis fails.
THEOREM CallsAreChargedOnce ==
    ASSUME \A s \in Scenarios : Attributable(s)
    PROVE  Spec => []ChargedOnce
<1>1. Init => Books /\ Charges
    BY ChargesInit
<1>2. Books /\ Charges /\ [Next]_vars => (Books /\ Charges)'
    BY BooksStep, ChargesStep
<1>3. Books /\ Charges => ChargedOnce
    BY ChargesImply DEF Books, Base
<1> QED BY <1>1, <1>2, <1>3, PTL DEF Spec

-----------------------------------------------------------------------------
(* Sums over the calls *)

\* The element that a fold over a set takes first.
FirstOf(s) == CHOOSE x \in s : TRUE

\* f gives the sum of h over every set of calls.
SumsTo(h, f) ==
    \A s \in SUBSET Calls : f[s] = IF s = {} THEN 0 ELSE h[FirstOf(s)] + f[s \ {FirstOf(s)}]

SumOver(h) == (CHOOSE f \in [SUBSET Calls -> Nat] : SumsTo(h, f))[Calls]

LEMMA FirstOfSet ==
    ASSUME NEW s \in SUBSET Calls, s # {}
    PROVE  FirstOf(s) \in s
BY DEF FirstOf

\* A set of numbers with 0 and every successor holds all of them.
LEMMA NatsInduction ==
    ASSUME NEW good, 0 \in good, \A n \in Nat : n \in good => n + 1 \in good
    PROVE  \A n \in Nat : n \in good
<1> SUFFICES ASSUME \E n \in Nat : n \notin good
             PROVE  FALSE
    OBVIOUS
<1> DEFINE T == {n \in Nat : n \notin good}
           R == OpToRel(<, Nat)
<1>1. T \subseteq Nat /\ T # {}
    OBVIOUS
<1>2. \A x, y \in Nat : x < y => <<x, y>> \in R
    BY DEF OpToRel
<1>3. IsWellFoundedOn(R, Nat)
    BY NatLessThanWellFounded
<1>4. \A n \in Nat : n \in T <=> n \notin good
    OBVIOUS
<1> HIDE DEF R, T
<1>5. PICK n \in T : \A k \in T : <<k, n>> \notin R
    BY <1>1, <1>3, WFMin
<1>6. n \in Nat /\ n # 0 /\ n \notin good
    BY <1>1, <1>4, <1>5
<1>7. n - 1 \in Nat /\ n - 1 \notin good
    BY <1>6
<1>8. n - 1 \in T /\ <<n - 1, n>> \in R
    BY <1>2, <1>4, <1>6, <1>7
<1> QED BY <1>5, <1>8

\* The sets of calls are finite, and an element less has a cardinality less.
LEMMA CallSets ==
    /\ \A s \in SUBSET Calls : Cardinality(s) \in Nat /\ Cardinality(s) <= Cardinality(Calls)
    /\ \A s \in SUBSET Calls : s # {} =>
          /\ FirstOf(s) \in s /\ FirstOf(s) \in Calls /\ s \ {FirstOf(s)} \in SUBSET Calls
          /\ Cardinality(s) # 0
          /\ Cardinality(s \ {FirstOf(s)}) = Cardinality(s) - 1
    /\ \A s \in SUBSET Calls : Cardinality(s) = 0 => s = {}
<1>1. \A s \in SUBSET Calls : IsFiniteSet(s) /\ Cardinality(s) \in Nat
                              /\ Cardinality(s) <= Cardinality(Calls)
    BY CreditsConstants, FS_Subset, FS_CardinalityType
<1>2. ASSUME NEW s \in SUBSET Calls, s # {}
      PROVE  FirstOf(s) \in s
    BY <1>2 DEF FirstOf
<1>3. \A s \in SUBSET Calls : Cardinality(s) = 0 <=> s = {}
    BY <1>1, FS_EmptySet
<1>4. ASSUME NEW s \in SUBSET Calls, s # {}
      PROVE  Cardinality(s \ {FirstOf(s)}) = Cardinality(s) - 1
    BY <1>1, <1>2, <1>4, FS_RemoveElement
<1> QED BY <1>1, <1>2, <1>3, <1>4

\* Sets of calls are reached from the empty one, an element at a time.
LEMMA CallsInduction ==
    ASSUME NEW good, {} \in good,
           \A s \in SUBSET Calls : s # {} /\ s \ {FirstOf(s)} \in good => s \in good
    PROVE  \A s \in SUBSET Calls : s \in good
<1> DEFINE sizes == {n \in Nat : \A s \in SUBSET Calls : Cardinality(s) = n => s \in good}
<1>1. 0 \in sizes
    BY CallSets
<1>2. ASSUME NEW n \in Nat, n \in sizes
      PROVE  n + 1 \in sizes
    <2>1. ASSUME NEW s \in SUBSET Calls, Cardinality(s) = n + 1
          PROVE  s \in good
        <3>1. s # {}
            BY <2>1, FS_EmptySet
        <3>2. s \ {FirstOf(s)} \in SUBSET Calls /\ Cardinality(s \ {FirstOf(s)}) = n
            BY <2>1, <3>1, CallSets
        <3> QED BY <1>2, <3>1, <3>2
    <2> QED BY <2>1
<1> HIDE DEF sizes
<1>3. \A n \in Nat : n \in sizes
    BY <1>1, <1>2, NatsInduction
<1> QED BY <1>3, CallSets DEF sizes

\* The fold over a finite set is well defined.
LEMMA SumExists ==
    ASSUME NEW h \in [Calls -> Nat]
    PROVE  \E f \in [SUBSET Calls -> Nat] : SumsTo(h, f)
<1> DEFINE Eq(f, t) == f[t] = IF t = {} THEN 0 ELSE h[FirstOf(t)] + f[t \ {FirstOf(t)}]
           Upto(n, f) == \A t \in SUBSET Calls : Cardinality(t) <= n => Eq(f, t)
           good == {n \in Nat : \E f \in [SUBSET Calls -> Nat] : Upto(n, f)}
<1>1. 0 \in good
    <2> DEFINE f == [t \in SUBSET Calls |-> 0]
    <2>1. f \in [SUBSET Calls -> Nat]
        OBVIOUS
    <2>2. \A t \in SUBSET Calls : Cardinality(t) <= 0 => t = {}
        BY CallSets
    <2>3. Upto(0, f)
        BY <2>2
    <2> HIDE DEF f, Upto
    <2> QED BY <2>1, <2>3
<1>2. ASSUME NEW n \in Nat, n \in good
      PROVE  n + 1 \in good
    <2>1. PICK f \in [SUBSET Calls -> Nat] : Upto(n, f)
        BY <1>2
    <2> DEFINE g == [t \in SUBSET Calls |-> IF t = {} THEN 0 ELSE h[FirstOf(t)] + f[t \ {FirstOf(t)}]]
    <2>2. g \in [SUBSET Calls -> Nat]
        <3>1. ASSUME NEW t \in SUBSET Calls
              PROVE  (IF t = {} THEN 0 ELSE h[FirstOf(t)] + f[t \ {FirstOf(t)}]) \in Nat
            <4>1. CASE t = {}
                BY <4>1
            <4>2. CASE t # {}
                <5>1. FirstOf(t) \in Calls /\ t \ {FirstOf(t)} \in SUBSET Calls
                    BY <4>2, CallSets
                <5>2. h[FirstOf(t)] \in Nat /\ f[t \ {FirstOf(t)}] \in Nat
                    BY <5>1
                <5> QED BY <4>2, <5>2
            <4> QED BY <4>1, <4>2
        <3> QED BY <3>1
    <2>3. \A t \in SUBSET Calls : Cardinality(t) <= n => g[t] = f[t]
        BY <2>1
    <2>4. ASSUME NEW t \in SUBSET Calls, Cardinality(t) <= n + 1
          PROVE  Eq(g, t)
        <3>1. CASE t = {}
            BY <3>1
        <3>2. CASE t # {}
            <4>1. t \ {FirstOf(t)} \in SUBSET Calls /\ Cardinality(t \ {FirstOf(t)}) <= n
                BY <2>4, <3>2, CallSets
            <4>2. g[t \ {FirstOf(t)}] = f[t \ {FirstOf(t)}]
                BY <2>3, <4>1
            <4>3. g[t] = h[FirstOf(t)] + f[t \ {FirstOf(t)}]
                BY <3>2
            <4> QED BY <3>2, <4>2, <4>3
        <3> QED BY <3>1, <3>2
    <2>5. Upto(n + 1, g)
        BY <2>4
    <2> HIDE DEF g, Upto
    <2> QED BY <2>2, <2>5
<1> HIDE DEF good
<1>3. Cardinality(Calls) \in good
    BY <1>1, <1>2, NatsInduction, CallSets
<1>4. PICK f \in [SUBSET Calls -> Nat] : Upto(Cardinality(Calls), f)
    BY <1>3 DEF good
<1> QED BY <1>4, CallSets DEF SumsTo

LEMMA SumProperties ==
    ASSUME NEW h \in [Calls -> Nat]
    PROVE  \E f \in [SUBSET Calls -> Nat] : SumsTo(h, f) /\ SumOver(h) = f[Calls]
<1> DEFINE sum == CHOOSE f \in [SUBSET Calls -> Nat] : SumsTo(h, f)
<1>1. sum \in [SUBSET Calls -> Nat] /\ SumsTo(h, sum)
    BY SumExists
<1>2. SumOver(h) = sum[Calls]
    BY DEF SumOver
<1> HIDE DEF sum
<1> QED BY <1>1, <1>2

LEMMA SumNat ==
    ASSUME NEW h \in [Calls -> Nat]
    PROVE  SumOver(h) \in Nat
BY SumProperties

\* The sum of a greater function is greater, and that of an equal one equal.
LEMMA SumMonotone ==
    ASSUME NEW h \in [Calls -> Nat], NEW g \in [Calls -> Nat],
           \A c \in Calls : h[c] <= g[c]
    PROVE  SumOver(h) <= SumOver(g)
<1>1. PICK p \in [SUBSET Calls -> Nat] : SumsTo(h, p) /\ SumOver(h) = p[Calls]
    BY SumProperties
<1>2. PICK q \in [SUBSET Calls -> Nat] : SumsTo(g, q) /\ SumOver(g) = q[Calls]
    BY SumProperties
<1> DEFINE good == {s \in SUBSET Calls : p[s] <= q[s]}
<1>3. {} \in good
    <2>1. {} \in SUBSET Calls /\ p[{}] = 0 /\ q[{}] = 0
        BY <1>1, <1>2 DEF SumsTo
    <2> QED BY <2>1
<1>4. ASSUME NEW s \in SUBSET Calls, s # {}, s \ {FirstOf(s)} \in good
      PROVE  s \in good
    <2>1. FirstOf(s) \in Calls /\ s \ {FirstOf(s)} \in SUBSET Calls
        BY <1>4, CallSets
    <2>2. /\ p[s] = h[FirstOf(s)] + p[s \ {FirstOf(s)}]
          /\ q[s] = g[FirstOf(s)] + q[s \ {FirstOf(s)}]
        BY <1>1, <1>2, <1>4 DEF SumsTo
    <2>3. p[s \ {FirstOf(s)}] <= q[s \ {FirstOf(s)}]
        BY <1>4
    <2>4. p[s] <= q[s]
        BY <2>1, <2>2, <2>3
    <2> QED BY <2>4
<1> HIDE DEF good
<1>5. Calls \in good
    BY <1>3, <1>4, CallsInduction
<1> QED BY <1>1, <1>2, <1>5 DEF good

\* Changing one summand changes the sum by as much.
LEMMA SumChange ==
    ASSUME NEW h \in [Calls -> Nat], NEW g \in [Calls -> Nat], NEW c \in Calls,
           \A d \in Calls \ {c} : g[d] = h[d]
    PROVE  SumOver(g) - g[c] = SumOver(h) - h[c]
<1>1. PICK p \in [SUBSET Calls -> Nat] : SumsTo(h, p) /\ SumOver(h) = p[Calls]
    BY SumProperties
<1>2. PICK q \in [SUBSET Calls -> Nat] : SumsTo(g, q) /\ SumOver(g) = q[Calls]
    BY SumProperties
<1> DEFINE good == {s \in SUBSET Calls : IF c \in s THEN q[s] - g[c] = p[s] - h[c]
                                                    ELSE q[s] = p[s]}
<1>3. {} \in good
    BY <1>1, <1>2 DEF SumsTo
<1>4. ASSUME NEW s \in SUBSET Calls, s # {}, s \ {FirstOf(s)} \in good
      PROVE  s \in good
    <2> DEFINE x == FirstOf(s)
               t == s \ {x}
    <2>1. x \in Calls /\ x \in s /\ t \in SUBSET Calls
        BY <1>4, CallSets
    <2>2. p[s] = h[x] + p[t] /\ q[s] = g[x] + q[t]
        BY <1>1, <1>2, <1>4 DEF SumsTo
    <2>3. IF c \in t THEN q[t] - g[c] = p[t] - h[c] ELSE q[t] = p[t]
        BY <1>4
    <2>4. c \in t <=> (c \in s /\ c # x)
        OBVIOUS
    <2>5. /\ p[s] \in Nat /\ q[s] \in Nat /\ p[t] \in Nat /\ q[t] \in Nat
          /\ h[x] \in Nat /\ g[x] \in Nat /\ h[c] \in Nat /\ g[c] \in Nat
        BY <2>1
    <2>6. x # c => g[x] = h[x]
        BY <2>1
    <2> HIDE DEF x, t
    <2>7. CASE c = x
        <3>1. q[t] = p[t]
            BY <2>3, <2>4, <2>7
        <3>2. q[s] - g[c] = p[s] - h[c]
            BY <2>2, <2>5, <2>7, <3>1
        <3> QED BY <2>1, <2>7, <3>2
    <2>8. CASE c # x /\ c \in s
        <3>1. q[t] - g[c] = p[t] - h[c]
            BY <2>3, <2>4, <2>8
        <3>2. q[s] - g[c] = p[s] - h[c]
            BY <2>2, <2>5, <2>6, <2>8, <3>1
        <3> QED BY <2>8, <3>2
    <2>9. CASE c # x /\ c \notin s
        <3>1. q[t] = p[t]
            BY <2>3, <2>4, <2>9
        <3>2. q[s] = p[s]
            BY <2>2, <2>5, <2>6, <2>9, <3>1
        <3> QED BY <2>9, <3>2
    <2> QED BY <2>7, <2>8, <2>9
<1> HIDE DEF good
<1>5. Calls \in good
    BY <1>3, <1>4, CallsInduction
<1> QED BY <1>1, <1>2, <1>5 DEF good

\* Reserved, the fold of the model, is the sum of the holds.
LEMMA ReservedIsSum ==
    ASSUME NEW rows \in [Calls -> Intent]
    PROVE  Reserved(rows) = SumOver([c \in Calls |-> rows[c].reserved])
<1> DEFINE h == [c \in Calls |-> rows[c].reserved]
           Fold(f) == f = [s \in SUBSET Calls |->
                              IF s = {} THEN 0
                              ELSE rows[CHOOSE x \in s : TRUE].reserved
                                   + f[s \ {CHOOSE x \in s : TRUE}]]
           fold == CHOOSE f : Fold(f)
<1>1. Reserved(rows) = fold[Calls]
    BY Zenon DEF Reserved, MapThenSumSet, MapThenFoldSet
<1>2. h \in [Calls -> Nat]
    BY DEF Intent
<1>3. PICK p \in [SUBSET Calls -> Nat] : SumsTo(h, p) /\ SumOver(h) = p[Calls]
    BY <1>2, SumProperties
<1>4. Fold(p)
    <2>1. ASSUME NEW s \in SUBSET Calls
          PROVE  p[s] = IF s = {} THEN 0
                        ELSE rows[CHOOSE x \in s : TRUE].reserved
                             + p[s \ {CHOOSE x \in s : TRUE}]
        <3>1. s # {} => FirstOf(s) \in Calls
            BY CallSets
        <3>2. s # {} => h[FirstOf(s)] = rows[FirstOf(s)].reserved
            BY <3>1
        <3> QED BY <1>3, <3>2 DEF SumsTo, FirstOf
    <2> QED BY <2>1
<1>5. Fold(fold)
    <2> HIDE DEF Fold
    <2> QED BY <1>4
<1> HIDE DEF fold
<1>6. ASSUME NEW s \in SUBSET Calls
      PROVE  fold[s] = IF s = {} THEN 0 ELSE h[FirstOf(s)] + fold[s \ {FirstOf(s)}]
    <2>1. s # {} => FirstOf(s) \in Calls
        BY CallSets
    <2>2. s # {} => h[FirstOf(s)] = rows[FirstOf(s)].reserved
        BY <2>1
    <2>3. fold[s] = IF s = {} THEN 0
                    ELSE rows[CHOOSE x \in s : TRUE].reserved + fold[s \ {CHOOSE x \in s : TRUE}]
        BY <1>5
    <2> QED BY <2>2, <2>3 DEF FirstOf
<1> DEFINE good == {s \in SUBSET Calls : fold[s] = p[s]}
<1>7. {} \in good
    BY <1>3, <1>6 DEF SumsTo
<1>8. ASSUME NEW s \in SUBSET Calls, s # {}, s \ {FirstOf(s)} \in good
      PROVE  s \in good
    <2>1. fold[s \ {FirstOf(s)}] = p[s \ {FirstOf(s)}]
        BY <1>8
    <2>2. fold[s] = h[FirstOf(s)] + fold[s \ {FirstOf(s)}]
        BY <1>6, <1>8
    <2>3. p[s] = h[FirstOf(s)] + p[s \ {FirstOf(s)}]
        BY <1>3, <1>8 DEF SumsTo
    <2> QED BY <2>1, <2>2, <2>3
<1> HIDE DEF good
<1>9. Calls \in good
    BY <1>7, <1>8, CallsInduction
<1>10. fold[Calls] = p[Calls]
    BY <1>9 DEF good
<1> QED BY <1>1, <1>3, <1>10

-----------------------------------------------------------------------------
(* The account is never overdrawn *)

\* The calls of a scenario cost no more than the hold they are admitted with.
Affordable(s) ==
    \A w \in s.responses : w.ok => /\ w.bill <= Required
                                   /\ w.basis = "estimated" => Estimate <= Required

\* What is held for debits still to come.
Hold(c) == IF Debits(book, c) = {} THEN intents[c].reserved ELSE 0
Holds == [c \in Calls |-> Hold(c)]

\* No call that the relay gave up has been charged all the same.
Unclaimed == \A c \in Calls : calls[c].abandoned => Debits(book, c) = {}

\* The balance covers every debit still to come, unless one came for a call that
\* the relay had given up: nothing was held for it any more.  An intent that a late
\* settlement moves back to a held state after its debit is given a hold again,
\* which nothing checks: it counts against new calls and covers nothing.
Solvent ==
    /\ Affordable(budget)
    /\ Unclaimed => book.balance >= SumOver(Holds)
    /\ \A c \in Calls : /\ Hold(c) \in {0, Required}
                        /\ calls[c].pc = "reconcile" => Billed(c)

HoldTyped ==
    /\ Holds \in [Calls -> Nat] /\ SumOver(Holds) \in Nat /\ book.balance \in Int
    /\ \A c \in Calls : Holds[c] = Hold(c) /\ Hold(c) \in Nat

LEMMA HoldTypes == TypeOK => HoldTyped
<1> SUFFICES ASSUME TypeOK
             PROVE  HoldTyped
    OBVIOUS
<1>1. \A c \in Calls : intents[c] \in Intent
    BY DEF TypeOK
<1>2. \A c \in Calls : intents[c].reserved \in Nat
    BY <1>1 DEF Intent
<1>3. Holds \in [Calls -> Nat]
    BY <1>2 DEF Holds, Hold
<1>4. \A c \in Calls : Holds[c] = Hold(c) /\ Hold(c) \in Nat
    BY <1>2 DEF Holds, Hold
<1>5. SumOver(Holds) \in Nat
    BY <1>3, SumNat
<1> QED BY <1>3, <1>4, <1>5 DEF TypeOK, Book, HoldTyped

\* A step that debits nothing and holds nothing more.
LEMMA HoldsShrink ==
    ASSUME TypeOK, TypeOK', Unclaimed => book.balance >= SumOver(Holds),
           book'.balance >= book.balance, \A c \in Calls : Hold(c)' <= Hold(c)
    PROVE  Unclaimed => book'.balance >= SumOver(Holds')
<1>1. /\ Holds \in [Calls -> Nat] /\ SumOver(Holds) \in Nat /\ book.balance \in Int
      /\ \A c \in Calls : Holds[c] = Hold(c) /\ Hold(c) \in Nat
    BY HoldTypes DEF HoldTyped
<1>0. HoldTyped'
    BY HoldTypes, PTL
<1>2. /\ Holds' \in [Calls -> Nat] /\ SumOver(Holds') \in Nat /\ book'.balance \in Int
      /\ \A c \in Calls : Holds'[c] = Hold(c)' /\ Hold(c)' \in Nat
    BY <1>0 DEF HoldTyped
<1>3. \A c \in Calls : Holds'[c] <= Holds[c]
    BY <1>1, <1>2
<1>4. SumOver(Holds') <= SumOver(Holds)
    BY <1>1, <1>2, <1>3, SumMonotone
<1> QED BY <1>1, <1>2, <1>4

\* A step that debits one call, or admits one.
LEMMA HoldsChange ==
    ASSUME TypeOK, TypeOK', Unclaimed => book.balance >= SumOver(Holds), NEW c \in Calls,
           \A d \in Calls \ {c} : Hold(d)' = Hold(d),
           book'.balance - Hold(c)' >= book.balance - Hold(c)
    PROVE  Unclaimed => book'.balance >= SumOver(Holds')
<1>1. /\ Holds \in [Calls -> Nat] /\ SumOver(Holds) \in Nat /\ book.balance \in Int
      /\ \A d \in Calls : Holds[d] = Hold(d) /\ Hold(d) \in Nat
    BY HoldTypes DEF HoldTyped
<1>0. HoldTyped'
    BY HoldTypes, PTL
<1>2. /\ Holds' \in [Calls -> Nat] /\ SumOver(Holds') \in Nat /\ book'.balance \in Int
      /\ \A d \in Calls : Holds'[d] = Hold(d)' /\ Hold(d)' \in Nat
    BY <1>0 DEF HoldTyped
<1>3. \A d \in Calls \ {c} : Holds'[d] = Holds[d]
    BY <1>1, <1>2
<1>4. SumOver(Holds') - Holds'[c] = SumOver(Holds) - Holds[c]
    BY <1>1, <1>2, <1>3, SumChange
<1> QED BY <1>1, <1>2, <1>4

\* A call has one ledger row.
LEMMA OneDebit ==
    ASSUME TypeOK, Charges, NEW c \in Calls
    PROVE  \A i, j \in Debits(book, c) : i = j
<1> SUFFICES ASSUME NEW i \in Debits(book, c), NEW j \in Debits(book, c), i # j
             PROVE  FALSE
    OBVIOUS
<1>1. Cardinality(Debits(book, c)) <= 1
    BY ChargesImply DEF ChargedOnce
<1>2. IsFiniteSet(Debits(book, c))
    <2>1. DOMAIN book.ledger = 1..Len(book.ledger) /\ Len(book.ledger) \in Nat
        BY DEF TypeOK, Book
    <2>2. Debits(book, c) \subseteq 1..Len(book.ledger)
        BY <2>1 DEF Debits
    <2>3. IsFiniteSet(1..Len(book.ledger))
        BY <2>1, FS_Interval
    <2> QED BY <2>2, <2>3, FS_Subset
<1>3. Cardinality({i, j}) = 2
    <2>1. IsFiniteSet({j}) /\ Cardinality({j}) = 1
        BY FS_Singleton
    <2>2. {j} \cup {i} = {i, j} /\ i \notin {j}
        OBVIOUS
    <2>3. Cardinality({j} \cup {i}) = Cardinality({j}) + 1
        BY <2>1, <2>2, FS_AddElement
    <2> QED BY <2>1, <2>2, <2>3
<1>4. Cardinality({i, j}) <= Cardinality(Debits(book, c))
    BY <1>2, FS_Subset
<1>5. Cardinality(Debits(book, c)) \in Nat
    BY <1>2, FS_CardinalityType
<1> QED BY <1>1, <1>3, <1>4, <1>5

SingleDebits == \A c \in Calls : \A i, j \in Debits(book, c) : i = j

LEMMA OneDebitAlways == TypeOK /\ Charges => SingleDebits
BY OneDebit DEF SingleDebits

\* A debit that changes the balance is the call's first.
LEMMA FirstDebit ==
    ASSUME TypeOK, Charges, TypeOK', Charges', NEW c \in Calls,
           NEW e \in LedgerEntry, DebitRef(e.ref, c), Applied(e)
    PROVE  /\ Debits(book', c) # {}
           /\ \A d \in Calls \ {c} : Debits(book', d) = Debits(book, d)
           /\ \/ book' = book
              \/ Debits(book, c) = {} /\ book'.balance = book.balance + e.delta
<1>1. book \in Book /\ UniqueRefs
    BY DEF TypeOK, Charges
<1>2. Debits(book', c) # {}
    BY <1>1, DebitRecorded DEF Applied
<1>3. \A d : Debits(book, d) \subseteq Debits(book', d)
    BY DebitsGrow DEF LedgerMoves
<1>4. \A d : \A i \in Debits(book', d) : i \in Debits(book, d) \/ e.ref.of = d
    BY <1>1, AppliedRows
<1>5. \A d \in Calls \ {c} : Debits(book', d) = Debits(book, d)
    <2>1. e.ref.of = c
        BY DEF DebitRef
    <2>2. ASSUME NEW d \in Calls \ {c}
          PROVE  Debits(book', d) \subseteq Debits(book, d)
        BY <1>4, <2>1
    <2> QED BY <1>3, <2>2
<1>6. CASE Recorded(book, e.ref)
    BY <1>2, <1>5, <1>6 DEF Applied, ApplyEntry
<1>7. CASE ~Recorded(book, e.ref)
    <2>1. book' = [balance |-> book.balance + e.delta, ledger |-> Append(book.ledger, e)]
        BY <1>7 DEF Applied, ApplyEntry
    <2> DEFINE n == Len(book.ledger) + 1
    <2>2. n \in DOMAIN book'.ledger /\ book'.ledger[n] = e /\ n \notin DOMAIN book.ledger
        BY <1>1, <2>1 DEF Book
    <2>3. n \in Debits(book', c)
        BY <2>2 DEF Debits, DebitRef
    <2> HIDE DEF n
    <2>4. \A i, j \in Debits(book', c) : i = j
        <3>1. SingleDebits'
            BY OneDebitAlways, PTL
        <3> QED BY <3>1 DEF SingleDebits
    <2>5. Debits(book, c) = {}
        BY <1>3, <2>2, <2>3, <2>4 DEF Debits
    <2> QED BY <1>2, <1>5, <2>1, <2>5
<1> QED BY <1>6, <1>7

\* A hold is kept or given up by the writes of a settlement.
LEMMA RowHolds ==
    ASSUME NEW row \in Intent
    PROVE  /\ NoCharge(row).reserved = 0 /\ Debited(row).reserved = 0
           /\ row.state \in Held /\ row.reserved > 0 =>
                 /\ ProviderCompleted(row).reserved = row.reserved
                 /\ Reconciliation(row).reserved = row.reserved
           /\ \A ref : Resolved(row, ref).reserved = 0
BY DEF NoCharge, Debited, ProviderCompleted, Reconciliation, Resolved, Moved, Intent, Held

\* An admission is within the balance.
LEMMA AdmittedIsCovered ==
    ASSUME TypeOK, NEW c \in Calls, CallStep(c), calls[c].pc = "reserve",
           intents'[c] # intents[c]
    PROVE  CanReserve(book, intents) /\ book' = book
BY DEF CallStep, Register, RegisterFresh, Refused, LockGate, Reserve, Insufficient, Check,
       CloseRefused, Serve, Respond, SendFails, Abandon, Disconnect, Finish, BeginSettle,
       SettleFailure, MarkCompleted, Debit, Reconcile, Release, TypeOK

\* What a call costs is within its hold.
LEMMA CostIsHeld ==
    ASSUME Books, Charges, Solvent, NEW c \in Calls, Billed(c), ~calls[c].abandoned,
           Debits(book, c) = {}
    PROVE  /\ Hold(c) = Required /\ provider[c].bill <= Required
           /\ calls[c].pc = "debit" => JobCost(c) <= Required
<1>1. provider[c] \in budget.responses
    BY SilentIsUnbilled DEF Charges, Billed
<1>2. /\ provider[c].bill <= Required
      /\ provider[c].basis = "estimated" => Estimate <= Required
    BY <1>1 DEF Solvent, Affordable, Billed
<1>3. calls[c].pc = "debit" => provider[c].basis \in {"observed", "estimated"}
    <2>1. provider[c] \in Response
        BY <1>1 DEF Books, Base, TypeOK, Scenario
    <2> QED BY <2>1 DEF Charges, Response
<1>4. Hold(c) = Required
    <2>1. intents[c].reserved > 0 /\ Hold(c) = intents[c].reserved
        BY DEF Books, Recoverable, RecoverableAt, Hold
    <2>2. Hold(c) # 0
        BY <2>1
    <2> QED BY <2>2 DEF Solvent
<1> QED BY <1>2, <1>3, <1>4 DEF JobCost

\* A call that was given up stays given up, and a debit stays recorded.
LEMMA UnclaimedBefore ==
    ASSUME \A c \in Calls : Debits(book, c) \subseteq Debits(book', c),
           \A c \in Calls : calls[c].abandoned => calls'[c].abandoned
    PROVE  Unclaimed' => Unclaimed
BY DEF Unclaimed

\* A step that leaves the rest of the invariant alone.
LEMMA SolventFrame ==
    ASSUME Books, Charges, Solvent, TypeOK', [Next]_vars,
           Unclaimed' => Unclaimed,
           Unclaimed /\ Unclaimed' => book'.balance >= SumOver(Holds'),
           \A c \in Calls : Hold(c)' \in {0, Required},
           \A c \in Calls : calls'[c].pc = "reconcile" =>
               calls[c].pc = "reconcile" \/ Billed(c),
           \A c \in Calls : Billed(c) => Billed(c)'
    PROVE  Solvent'
<1>1. budget'.responses = budget.responses
    BY ScenarioKept DEF Books, Base
<1>2. Affordable(budget)'
    BY <1>1 DEF Solvent, Affordable
<1> QED BY <1>2 DEF Solvent

\* Only a billed call is settled.
LEMMA CallReconciles ==
    ASSUME TypeOK, Authority, NEW c \in Calls, CallStep(c), calls'[c].pc = "reconcile"
    PROVE  calls[c].pc = "reconcile" \/ calls[c].pc = "debit" \/ Billed(c)
<1>0. calls \in [Calls -> Call]
    BY DEF TypeOK
<1>1. CASE \E r : Leave(c, r)
    BY <1>1, LeavePc
<1>2. CASE \E p \in PCs \ {"reconcile"} : PcTo(c, p)
    BY <1>2, PcToType
<1>3. CASE Register(c) \/ RegisterFresh(c)
    <2>1. PICK e : calls' = [calls EXCEPT ![c].pc = "gate", ![c].entry = e]
        BY <1>3 DEF Register, RegisterFresh
    <2>2. calls'[c].pc = "gate"
        BY <1>0, <2>1 DEF Call
    <2> QED BY <2>2
<1>4. CASE Insufficient(c) \/ CloseRefused(c) \/ Finish(c) \/ Release(c)
    <2>1. \E r : Leave(c, r)
        BY <1>4 DEF Insufficient, CloseRefused, Finish, Release, Leave
    <2> QED BY <1>1, <2>1
<1>5. CASE Reserve(c) \/ Disconnect(c) \/ Check(c)
    <2>1. (\E r : Leave(c, r)) \/ \E p \in {"check", "drop", "send", "refuse"} : PcTo(c, p)
        BY <1>5 DEF Reserve, Disconnect, Check, PcTo
    <2> QED BY <1>1, <1>2, <2>1 DEF PCs, PermitPC
<1>10. CASE Abandon(c)
    BY <1>10, AbandonCall
<1>6. CASE \/ Refused(c) \/ LockGate(c) \/ Respond(c) \/ SendFails(c)
           \/ BeginSettle(c) \/ SettleFailure(c) \/ Reconcile(c)
    <2>1. \E p \in {"done", "reserve", "drain", "abandon", "settle", "release"} : PcTo(c, p)
        BY <1>6 DEF Refused, LockGate, Respond, SendFails, BeginSettle, SettleFailure, Reconcile,
                    PcTo
    <2> QED BY <1>2, <2>1 DEF PCs, PermitPC
<1>7. CASE Serve(c)
    BY <1>7 DEF Serve
<1>8. CASE MarkCompleted(c) \/ Debit(c)
    BY <1>8 DEF MarkCompleted, Debit, Billed
<1> QED BY <1>3, <1>4, <1>5, <1>6, <1>7, <1>8, <1>10 DEF CallStep

\* Hold(c) after a step, from what the step writes.
LEMMA HoldAfter ==
    ASSUME TypeOK, NEW c \in Calls, Debits(book, c) \subseteq Debits(book', c),
           Debits(book, c) = {} => intents'[c].reserved \in {0, intents[c].reserved}
    PROVE  Hold(c)' \in {0, Hold(c)}
BY DEF Hold

LEMMA SmallerHold ==
    ASSUME TypeOK, Solvent, NEW c \in Calls, Hold(c)' \in {0, Hold(c)}
    PROVE  Hold(c)' <= Hold(c) /\ Hold(c)' \in {0, Required}
<1>1. Hold(c) \in Nat
    BY HoldTypes DEF HoldTyped
<1> QED BY <1>1 DEF Solvent

LEMMA CallSolvent ==
    ASSUME Books, Charges, Solvent, TypeOK', Charges', NEW c \in Calls, CallStep(c), [Next]_vars
    PROVE  Solvent'
<1> USE DEF Books, Base
<1>1. RowMoves(c) /\ LedgerMoves /\ PcMoves(c)
    BY CallRows, CallPcs
<1>2. \A d \in Calls : Billed(d) => Billed(d)'
    BY BilledStays
<1>3. ASSUME NEW d \in Calls, calls'[d].pc = "reconcile"
      PROVE  calls[d].pc = "reconcile" \/ Billed(d)
    <2>1. CASE d # c
        BY <1>1, <1>3, <2>1 DEF PcMoves
    <2>2. CASE d = c
        BY <1>3, <2>2, CallReconciles DEF Charges
    <2> QED BY <2>1, <2>2
<1>4. \A d : Debits(book, d) \subseteq Debits(book', d)
    BY <1>1, DebitsGrow
<1>5. /\ intents[c] \in Intent /\ book.balance \in Int
      /\ Unclaimed => book.balance >= SumOver(Holds)
    BY DEF TypeOK, Solvent, Book
<1>9. calls[c].abandoned => calls[c].pc \in ClosedPC
    BY DEF Recoverable, RecoverableAt
<1>10. Unclaimed' => Unclaimed
    <2>1. calls[c].abandoned => calls'[c].abandoned
        BY <1>1, <1>9 DEF PcMoves, ClosedPC
    <2> QED BY <1>1, <1>4, <2>1, UnclaimedBefore DEF PcMoves
<1>6. SUFFICES /\ Unclaimed => book'.balance >= SumOver(Holds')
               /\ \A d \in Calls : Hold(d)' \in {0, Required}
    BY <1>2, <1>3, <1>10, SolventFrame
<1>7. CASE Debit(c)
    <2> DEFINE e == [ref |-> JobRef(c), delta |-> -JobCost(c), rid |-> provider[c].id]
    <2>1. PICK o \in Outcomes : /\ book' = Written(o, book, ApplyEntry(book, e))
                                /\ Update(o, c, Debited(intents[c]))
        BY <1>7 DEF Debit
    <2>2. e \in LedgerEntry /\ DebitRef(e.ref, c)
        BY JobEntryType DEF DebitRef
    <2>3. e.delta = -JobCost(c) /\ JobCost(c) \in Int
        <3>1. provider[c].bill \in Nat
            BY JobEntryType
        <3> QED BY <3>1 DEF JobCost
    <2> HIDE DEF e
    <2>4. Billed(c) /\ calls[c].pc = "debit" /\ ~calls[c].abandoned
        BY <1>7, <1>9 DEF Charges, Debit, ClosedPC
    <2>5. \A d \in Calls \ {c} : intents'[d] = intents[d]
        BY <1>1 DEF RowMoves
    <2>6. Debited(intents[c]) \in Intent /\ Debited(intents[c]).reserved = 0
        BY <1>5, IntentTypes, RowHolds
    <2>7. CASE o = "failed"
        <3>1. book' = book /\ intents'[c] = intents[c]
            BY <2>1, <2>6, <2>7, UpdateAt DEF Written
        <3>2. \A d \in Calls : Hold(d)' = Hold(d)
            BY <2>5, <3>1 DEF Hold
        <3>3. \A d \in Calls : Hold(d)' <= Hold(d) /\ Hold(d)' \in {0, Required}
            BY <3>2, SmallerHold
        <3> QED BY <1>5, <3>1, <3>3, HoldsShrink
    <2>8. CASE o # "failed"
        <3>1. Applied(e)
            BY <2>1, <2>8 DEF Written, Applied
        <3>2. /\ Debits(book', c) # {}
              /\ \A d \in Calls \ {c} : Debits(book', d) = Debits(book, d)
              /\ \/ book' = book
                 \/ Debits(book, c) = {} /\ book'.balance = book.balance + e.delta
            BY <2>2, <3>1, FirstDebit
        <3>3. Hold(c)' = 0 /\ \A d \in Calls \ {c} : Hold(d)' = Hold(d)
            BY <2>5, <3>2 DEF Hold
        <3>4. \A d \in Calls : Hold(d)' <= Hold(d) /\ Hold(d)' \in {0, Required}
            BY <3>3, SmallerHold
        <3>5. CASE book' = book
            BY <1>5, <3>4, <3>5, HoldsShrink
        <3>6. CASE Debits(book, c) = {} /\ book'.balance = book.balance + e.delta
            <4>1. Hold(c) = Required /\ JobCost(c) <= Required /\ Required \in Nat
                BY <2>4, <3>6, CostIsHeld, RequiredPositive
            <4>2. book'.balance - Hold(c)' >= book.balance - Hold(c)
                BY <1>5, <2>3, <3>3, <3>6, <4>1
            <4> QED BY <1>5, <3>3, <3>4, <4>2, HoldsChange
        <3> QED BY <3>2, <3>5, <3>6
    <2> QED BY <2>7, <2>8
<1>8. CASE ~Debit(c)
    <2>1. book' = book
        BY <1>8 DEF CallStep, Register, RegisterFresh, Refused, LockGate, Reserve,
               Insufficient, Check, CloseRefused, Serve, Respond, SendFails, Abandon,
               Disconnect, Finish, BeginSettle, SettleFailure, MarkCompleted, Reconcile,
               Release
    <2>2. \A d \in Calls \ {c} : Hold(d)' = Hold(d)
        BY <1>1, <2>1 DEF RowMoves, Hold
    <2>3. CASE intents'[c] = Admitted /\ calls[c].pc = "reserve" /\ intents'[c] # intents[c]
        <3>1. CanReserve(book, intents)
            BY <2>3, AdmittedIsCovered
        <3>2. book.balance - Reserved(intents) >= Required /\ Required \in Nat
            BY <3>1, RequiredPositive DEF CanReserve
        <3>3. Reserved(intents) = SumOver([d \in Calls |-> intents[d].reserved])
            BY ReservedIsSum DEF TypeOK
        <3> DEFINE h == [d \in Calls |-> intents[d].reserved]
        <3>4. h \in [Calls -> Nat]
            BY DEF TypeOK, Intent
        <3>5. SumOver(h) \in Nat /\ Reserved(intents) = SumOver(h)
            BY <3>3, <3>4, SumNat
        <3>6. Holds \in [Calls -> Nat] /\ SumOver(Holds) \in Nat
            BY HoldTypes DEF HoldTyped
        <3>7. \A d \in Calls : Holds[d] <= h[d]
            BY <3>4 DEF Holds, Hold
        <3> HIDE DEF h
        <3>8. SumOver(Holds) <= SumOver(h)
            BY <3>4, <3>6, <3>7, SumMonotone
        <3>9. Debits(book, c) = {} /\ intents[c] = NoIntent
            <4>1. ~Billed(c)
                BY <2>3, SilentIsUnbilled DEF Recoverable, RecoverableAt, Early, Billed
            <4> QED BY <2>3, <4>1 DEF FreshRows, Charges, ChargedAt
        <3>10. Hold(c) = 0 /\ Hold(c)' = Required
            BY <2>1, <2>3, <3>9 DEF Hold, NoIntent, Admitted
        <3>11. \A d \in Calls : Hold(d)' \in {0, Required}
            BY <2>2, <3>10 DEF Solvent
        <3>12. book'.balance >= SumOver(Holds')
            <4>1. HoldTyped /\ HoldTyped'
                BY HoldTypes, PTL
            <4>2. Holds \in [Calls -> Nat] /\ Holds' \in [Calls -> Nat]
                BY <4>1 DEF HoldTyped
            <4>3. Holds[c] = 0 /\ Holds'[c] = Required
                BY <3>10, <4>1 DEF HoldTyped
            <4>4. \A d \in Calls \ {c} : Holds'[d] = Holds[d]
                BY <2>2, <4>1 DEF HoldTyped
            <4>5. SumOver(Holds') - Holds'[c] = SumOver(Holds) - Holds[c]
                BY <4>2, <4>4, SumChange
            <4>6. SumOver(Holds') \in Nat
                BY <4>1 DEF HoldTyped
            <4> QED BY <1>5, <2>1, <3>2, <3>5, <3>6, <3>8, <4>3, <4>5, <4>6
        <3> QED BY <3>11, <3>12
    <2>4. CASE ~(intents'[c] = Admitted /\ calls[c].pc = "reserve" /\ intents'[c] # intents[c])
        <3>1. Debits(book, c) = {} => intents'[c].reserved \in {0, intents[c].reserved}
            <4>1. Billed(c) /\ calls[c].pc \in {"settle", "reconcile"} /\ Debits(book, c) = {} =>
                      intents[c].state \in Held /\ intents[c].reserved > 0
                BY <1>9 DEF Recoverable, RecoverableAt, ClosedPC
            <4>2. calls[c].pc = "reconcile" => Billed(c)
                BY DEF Solvent
            <4> QED BY <1>1, <1>5, <2>4, <4>1, <4>2, RowHolds DEF RowMoves
        <3>2. Hold(c)' \in {0, Hold(c)}
            BY <1>4, <3>1, HoldAfter
        <3>3. \A d \in Calls : Hold(d)' <= Hold(d) /\ Hold(d)' \in {0, Required}
            BY <2>2, <3>2, SmallerHold
        <3> QED BY <1>5, <2>1, <3>3, HoldsShrink
    <2> QED BY <2>3, <2>4
<1> QED BY <1>7, <1>8

LEMMA RelaySolvent ==
    ASSUME Books, Charges, Solvent, TypeOK', RelayStep, [Next]_vars
    PROVE  Solvent'
<1> USE DEF Books, Base
<1>1. LedgerMoves /\ UNCHANGED <<intents, provider, resolver>>
    BY RelayTypes
<1>2. \A c \in Calls : /\ calls'[c].pc \in {calls[c].pc, "gone"}
                      /\ calls'[c].abandoned = calls[c].abandoned
    BY RelayPcs
<1>3. /\ book \in Book /\ book.balance \in Int
      /\ Unclaimed => book.balance >= SumOver(Holds)
    BY DEF TypeOK, Book, Solvent
<1>4. book'.balance >= book.balance
    <2>1. CASE book' = book
        BY <1>3, <2>1
    <2>2. CASE \E p \in Purchases : Credit(p)
        <3>1. PICK p \in Purchases : Credit(p)
            BY <2>2
        <3> DEFINE e == [ref |-> [kind |-> "payment", of |-> p], delta |-> Amount, rid |-> FALSE]
        <3>2. book' = ApplyEntry(book, e) /\ e.delta = Amount
            BY <3>1 DEF Credit
        <3> HIDE DEF e
        <3> QED BY <1>3, <3>2 DEF ApplyEntry
    <2>3. book' = book \/ \E p \in Purchases : Credit(p)
        BY DEF RelayStep, Crash, Close, Exit, Restart, HourPasses, Halt
    <2> QED BY <2>1, <2>2, <2>3
<1>5. \A c \in Calls : Hold(c)' \in {0, Hold(c)}
    BY <1>1, DebitsGrow, HoldAfter
<1>6. \A c \in Calls : Hold(c)' <= Hold(c) /\ Hold(c)' \in {0, Required}
    BY <1>5, SmallerHold
<1>7. Unclaimed => book'.balance >= SumOver(Holds')
    BY <1>3, <1>4, <1>6, HoldsShrink
<1>8. Unclaimed' => Unclaimed
    BY <1>1, <1>2, DebitsGrow, UnclaimedBefore
<1> QED BY <1>1, <1>2, <1>6, <1>7, <1>8, SolventFrame DEF Billed

LEMMA ResolverSolvent ==
    ASSUME Books, Charges, Solvent, TypeOK', Charges', ResolverStep, [Next]_vars
    PROVE  Solvent'
<1> USE DEF Books, Base
<1>1. UNCHANGED <<calls, provider>>
    BY DEF ResolverStep, ResolveStart, ResolveRead, ResolveDebit, ResolveMark
<1>2. /\ book \in Book /\ book.balance \in Int
      /\ Unclaimed => book.balance >= SumOver(Holds)
    BY DEF TypeOK, Book, Solvent
<1>8. Unclaimed' => Unclaimed
    BY <1>1, ResolverLedger, DebitsGrow, UnclaimedBefore
<1>3. SUFFICES /\ Unclaimed /\ Unclaimed' => book'.balance >= SumOver(Holds')
               /\ \A d \in Calls : Hold(d)' \in {0, Required}
    BY <1>1, <1>8, SolventFrame DEF Billed
<1>4. ASSUME book' = book, \A d \in Calls : Hold(d)' \in {0, Hold(d)}
      PROVE  /\ Unclaimed => book'.balance >= SumOver(Holds')
             /\ \A d \in Calls : Hold(d)' \in {0, Required}
    <2>1. \A d \in Calls : Hold(d)' <= Hold(d) /\ Hold(d)' \in {0, Required}
        BY <1>4, SmallerHold
    <2> QED BY <1>2, <1>4, <2>1, HoldsShrink
<1>5. CASE ResolveStart \/ \E c \in Calls : ResolveRead(c)
    BY <1>4, <1>5 DEF ResolveStart, ResolveRead, Hold
<1>6. CASE ResolveMark
    <2>1. ResolverMoves /\ book' = book
        BY <1>6, ResolverRows DEF ResolveMark
    <2>2. ASSUME NEW d \in Calls
          PROVE  Hold(d)' \in {0, Hold(d)}
        <3>1. intents[d] \in Intent
            BY DEF TypeOK
        <3>2. intents'[d].reserved \in {0, intents[d].reserved}
            BY <2>1, <3>1, RowHolds DEF ResolverMoves
        <3> QED BY <2>1, <3>2, HoldAfter
    <2> QED BY <1>4, <2>1, <2>2
<1>7. CASE ResolveDebit
    <2>0. PICK c \in Calls : c = resolver.call /\ DebitRef(resolver.ref, c) /\ Billed(c)
        BY <1>7 DEF ResolveDebit, Resolving, BilledRows
    <2> DEFINE e == [ref |-> resolver.ref, delta |-> -provider[c].bill,
                     rid |-> provider[c].exportId]
    <2>1. PICK o \in Outcomes : /\ book' = Written(o, book, ApplyEntry(book, e))
                                /\ Update(o, c, Debited(intents[c]))
        BY <1>7, <2>0 DEF ResolveDebit
    <2>2. provider[c].exportId \in BOOLEAN /\ provider[c].bill \in Nat
        BY JobEntryType
    <2>3. e \in LedgerEntry /\ DebitRef(e.ref, c) /\ e.delta = -provider[c].bill
        <3>1. -provider[c].bill \in Int /\ resolver.ref \in Ref
            BY <2>0, <2>2 DEF DebitRef
        <3> QED BY <2>0, <2>2, <3>1 DEF LedgerEntry
    <2> HIDE DEF e
    <2>4. Debited(intents[c]) \in Intent
        BY IntentTypes DEF TypeOK
    <2>5. /\ o = "failed" => intents'[c] = intents[c]
          /\ \A d \in Calls \ {c} : intents'[d] = intents[d]
        BY <2>1, <2>4, UpdateAt
    <2>6. CASE o = "failed"
        <3>1. book' = book
            BY <2>1, <2>6 DEF Written
        <3>2. \A d \in Calls : Hold(d)' \in {0, Hold(d)}
            BY <2>5, <2>6, <3>1 DEF Hold
        <3> QED BY <1>4, <3>1, <3>2
    <2>7. CASE o # "failed"
        <3>1. Applied(e)
            BY <2>1, <2>7 DEF Written, Applied
        <3>2. /\ Debits(book', c) # {}
              /\ \A d \in Calls \ {c} : Debits(book', d) = Debits(book, d)
              /\ \/ book' = book
                 \/ Debits(book, c) = {} /\ book'.balance = book.balance + e.delta
            BY <2>3, <3>1, FirstDebit
        <3>3. Hold(c)' = 0 /\ \A d \in Calls \ {c} : Hold(d)' = Hold(d)
            BY <2>5, <3>2 DEF Hold
        <3>4. CASE book' = book
            BY <1>4, <3>3, <3>4
        <3>5. CASE Debits(book, c) = {} /\ book'.balance = book.balance + e.delta
            <4>1. \A d \in Calls : Hold(d)' \in {0, Required}
                BY <3>3 DEF Solvent
            <4>2. CASE calls[c].abandoned
                <5>1. ~Unclaimed'
                    BY <1>1, <2>0, <3>2, <4>2 DEF Unclaimed
                <5> QED BY <4>1, <5>1
            <4>3. CASE ~calls[c].abandoned
                <5>1. /\ Hold(c) = Required /\ provider[c].bill <= Required
                      /\ Required \in Nat
                    BY <2>0, <3>5, <4>3, CostIsHeld, RequiredPositive
                <5>2. book'.balance - Hold(c)' >= book.balance - Hold(c)
                    BY <1>2, <2>2, <2>3, <3>3, <3>5, <5>1
                <5> QED BY <1>2, <3>3, <4>1, <5>2, HoldsChange
            <4> QED BY <4>2, <4>3
        <3> QED BY <3>2, <3>4, <3>5
    <2> QED BY <2>6, <2>7
<1> QED BY <1>5, <1>6, <1>7 DEF ResolverStep

\* Calls that cost no more than their hold never overdraw the account: not
\* with any number of calls under way, lost writes, retried settlements, crashes
\* and resolver runs.  The exception is a resolver that charges a call which the
\* relay gave up after it was read.  Each call must be charged once (the hypothesis of
\* CallsAreChargedOnce) and cost at most what it was admitted with.
THEOREM AccountIsNeverOverdrawn ==
    ASSUME \A s \in Scenarios : Attributable(s) /\ Affordable(s)
    PROVE  Spec => []NeverOverdrawn
<1>1. Init => Books /\ Charges /\ Solvent
    <2> SUFFICES ASSUME Init
                 PROVE  Books /\ Charges /\ Solvent
        OBVIOUS
    <2>1. Books /\ Charges
        BY ChargesInit
    <2>2. \A c \in Calls : Hold(c) = 0 /\ calls[c].pc = "idle"
        BY DEF Init, Hold, NoIntent, NewCall
    <2>3. Affordable(budget)
        BY DEF Init
    <2>4. SumOver(Holds) = 0
        <3>1. Holds \in [Calls -> Nat] /\ \A c \in Calls : Holds[c] = 0
            BY <2>2 DEF Holds
        <3>2. PICK f \in [SUBSET Calls -> Nat] : SumsTo(Holds, f) /\ SumOver(Holds) = f[Calls]
            BY <3>1, SumProperties
        <3> DEFINE good == {s \in SUBSET Calls : f[s] = 0}
        <3>3. {} \in good
            BY <3>2 DEF SumsTo
        <3>4. ASSUME NEW s \in SUBSET Calls, s # {}, s \ {FirstOf(s)} \in good
              PROVE  s \in good
            <4>1. FirstOf(s) \in Calls
                BY <3>4, CallSets
            <4>2. f[s] = Holds[FirstOf(s)] + f[s \ {FirstOf(s)}] /\ f[s \ {FirstOf(s)}] = 0
                BY <3>2, <3>4 DEF SumsTo
            <4>3. f[s] = 0
                BY <3>1, <4>1, <4>2
            <4> QED BY <4>3
        <3> HIDE DEF good
        <3>5. Calls \in good
            BY <3>3, <3>4, CallsInduction
        <3> QED BY <3>2, <3>5 DEF good
    <2>5. book.balance >= 0
        BY DEF Init, Scenario
    <2> QED BY <2>1, <2>2, <2>3, <2>4, <2>5 DEF Solvent
<1>2. Books /\ Charges /\ Solvent /\ [Next]_vars => (Books /\ Charges /\ Solvent)'
    <2> SUFFICES ASSUME Books, Charges, Solvent, [Next]_vars
                 PROVE  (Books /\ Charges /\ Solvent)'
        OBVIOUS
    <2>1. Books' /\ Charges' /\ TypeOK'
        BY BooksStep, ChargesStep DEF Books, Base
    <2>2. CASE UNCHANGED vars
        <3>1. \A c \in Calls : Hold(c)' = Hold(c)
            BY <2>2 DEF vars, Hold
        <3>2. Holds' = Holds
            BY <3>1 DEF Holds
        <3> QED BY <2>1, <2>2, <3>1, <3>2 DEF vars, Solvent, Affordable, Billed, Unclaimed
    <2>3. CASE Next
        BY <2>1, <2>3, NextSteps, CallSolvent, RelaySolvent, ResolverSolvent
    <2> QED BY <2>1, <2>2, <2>3
<1>3. Books /\ Charges /\ Solvent => NeverOverdrawn
    <2> SUFFICES ASSUME Books, Charges, Solvent
                 PROVE  NeverOverdrawn
        OBVIOUS
    <2>1. SumOver(Holds) \in Nat /\ book.balance \in Int
        BY HoldTypes DEF HoldTyped, Books, Base
    <2> QED BY <2>1 DEF Solvent, NeverOverdrawn, Unclaimed
<1> QED BY <1>1, <1>2, <1>3, PTL DEF Spec

=============================================================================
