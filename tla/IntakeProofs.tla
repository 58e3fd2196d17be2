------------------------------ MODULE IntakeProofs ------------------------------
(***************************************************************************)
(* Proofs about Intake: the lazy pool is handed over once and never leaks,  *)
(* and it never sleeps on work; within the window of its two generations    *)
(* the client's dedup lets no message through twice; what the REQs of the   *)
(* client cover is never missed, nor is what a full queue refused; and the  *)
(* harness follows the changes of its memberships.                          *)
(***************************************************************************)
EXTENDS Intake, FiniteSetTheorems, SequenceTheorems, WellFoundedInduction, TLAPS

-----------------------------------------------------------------------------
(* The lazy pool                                                            *)

\* A wake has at most one result, of the attempt the lifecycle waits for, and
\* whatever started is the harness's own pool or that result.
PoolSound(p) ==
    /\ p \in Pool
    /\ p.task \in {"running", "panicked"} => p.results = <<>>
    /\ p.task = "running" => p.life = "waking"
    /\ p.life # "waking" => p.results = <<>>
    /\ p.life = "waking" => ~p.ready
    /\ p.results # <<>> => Len(p.results) = 1 /\ p.results[1].attempt = p.attempt
    /\ p.alive = Taken(p) + Untaken(p)

LEMMA NoResults == <<>> \in Results
BY EmptySeq DEF Results

\* What is in wake_rx, by its length.
LEMMA ResultsCount ==
    ASSUME NEW p \in Pool
    PROVE  /\ p.results = <<>> => Untaken(p) = 0
           /\ Len(p.results) = 1 => Untaken(p) = IF p.results[1].ok THEN 1 ELSE 0
<1> DEFINE S == {k \in DOMAIN p.results : p.results[k].ok}
<1>1. p.results \in Seq(Result)
    BY DEF Pool, Results
<1>2. CASE p.results = <<>>
    <2>1. S = {}
        BY <1>2
    <2> QED BY <1>2, <2>1, FS_EmptySet DEF Untaken
<1>3. CASE Len(p.results) = 1
    <2>1. DOMAIN p.results = {1}
        BY <1>1, <1>3
    <2>2. p.results # <<>>
        BY <1>3
    <2>3. CASE p.results[1].ok
        <3>1. S = {1}
            BY <2>1, <2>3
        <3>2. Cardinality(S) = 1
            BY <3>1, FS_Singleton
        <3> QED BY <2>2, <2>3, <3>2 DEF Untaken
    <2>4. CASE ~p.results[1].ok
        <3>1. S = {}
            BY <2>1, <2>4
        <3>2. Cardinality(S) = 0
            BY <3>1, FS_EmptySet
        <3> QED BY <2>2, <2>4, <3>2 DEF Untaken
    <2> QED BY <2>3, <2>4
<1> QED BY <1>2, <1>3

\* start_wake_if_due never starts a second task, nor one for a pool at work.
LEMMA StartWakeSound ==
    ASSUME NEW p, PoolSound(p), WakeDue(p), ~p.ready
    PROVE  PoolSound(StartWake(p)) /\ StartWake(p).life = "waking" /\ ~StartWake(p).ready
<1> DEFINE n == StartWake(p)
<1>1. p \in Pool /\ p.results = <<>> /\ p.life # "waking" /\ p.alive = Taken(p) + Untaken(p)
    BY DEF PoolSound, WakeDue
<1>2. /\ n \in Pool /\ n.life = "waking" /\ n.task = "running" /\ n.results = <<>> /\ ~n.ready
      /\ n.alive = p.alive
    <2> DEFINE a == IF p.life = "listening" THEN 1 ELSE p.attempt + 1
    <2>1. p \in Pool /\ a \in Nat
        BY <1>1 DEF Pool
    <2>3. n = [p EXCEPT !.life = "waking", !.due = FALSE, !.task = "running", !.attempt = a]
        BY DEF StartWake
    <2> HIDE DEF n, a
    <2>2. /\ n \in Pool /\ n.life = "waking" /\ n.task = "running" /\ n.results = p.results
          /\ n.ready = p.ready /\ n.alive = p.alive
        BY ONLY <2>1, <2>3 DEF Pool
    <2> QED BY <1>1, <2>2
<1> HIDE DEF n
<1>3. Untaken(n) = 0 /\ Untaken(p) = 0 /\ Taken(n) = 0 /\ Taken(p) = 0
    BY <1>1, <1>2, ResultsCount DEF Taken
<1> QED BY <1>1, <1>2, <1>3 DEF PoolSound, n

LEMMA TopSound ==
    ASSUME NEW p, PoolSound(p), NEW w
    PROVE  PoolSound(Top(p, w))
BY StartWakeSound DEF Top

LEMMA WakeReturnedSound ==
    ASSUME NEW p, PoolSound(p), p.task = "running", NEW ok \in BOOLEAN
    PROVE  PoolSound(WakeReturned(p, ok))
<1> DEFINE n == WakeReturned(p, ok)
           r == [attempt |-> p.attempt, ok |-> ok]
<1>1. /\ p \in Pool /\ p.results = <<>> /\ p.life = "waking" /\ ~p.ready
      /\ p.alive = Taken(p) + Untaken(p)
    BY DEF PoolSound
<1>2. r \in Result /\ r.ok = ok /\ r.attempt = p.attempt
    BY <1>1 DEF Pool, Result
<1> HIDE DEF r
<1>3. Append(p.results, r) = <<r>>
    BY <1>1, <1>2
<1>4. <<r>> \in Results /\ Len(<<r>>) = 1 /\ <<r>>[1] = r
    BY <1>2 DEF Results
<1>5. p.alive = 0
    BY <1>1, ResultsCount DEF Taken
<1>6. n = [p EXCEPT !.task = "finished", !.results = <<r>>,
                    !.alive = IF ok THEN p.alive + 1 ELSE p.alive]
    BY <1>3 DEF WakeReturned, r
<1>7. /\ n \in Pool /\ n.results = <<r>> /\ n.task = "finished" /\ n.life = "waking"
      /\ n.attempt = p.attempt /\ ~n.ready /\ n.alive = IF ok THEN 1 ELSE 0
    <2> DEFINE rs == <<r>>
               k == IF ok THEN p.alive + 1 ELSE p.alive
    <2>1. p \in Pool /\ rs \in Results /\ n = [p EXCEPT !.task = "finished", !.results = rs,
                                                      !.alive = k]
        BY <1>1, <1>4, <1>6
    <2>2. k \in Nat /\ k = IF ok THEN 1 ELSE 0
        BY <1>5
    <2> HIDE DEF rs, n, k
    <2>3. /\ n \in Pool /\ n.results = rs /\ n.task = "finished" /\ n.life = p.life
          /\ n.attempt = p.attempt /\ n.ready = p.ready /\ n.alive = k
        BY ONLY <2>1, <2>2, k \in Nat DEF Pool
    <2> QED BY <1>1, <2>2, <2>3 DEF rs
<1> HIDE DEF n
<1>8. Untaken(n) = IF ok THEN 1 ELSE 0
    BY <1>2, <1>4, <1>7, ResultsCount
<1> QED BY <1>2, <1>4, <1>7, <1>8 DEF PoolSound, Taken, n

\* The wake_rx arm.
LEMMA CompleteWakeSound ==
    ASSUME NEW p, PoolSound(p), p.results # <<>>,
           NEW q, q = [p EXCEPT !.results = Tail(p.results)]
    PROVE  /\ IsCurrent(p, Head(p.results))
           /\ PoolSound(CompleteWake(q, Head(p.results)))
           /\ LET n == CompleteWake(q, Head(p.results)) IN n.ready \/ n.life = "failed"
<1> DEFINE r == Head(p.results)
           n == CompleteWake(q, r)
<1>1. /\ p \in Pool /\ Len(p.results) = 1 /\ p.results[1].attempt = p.attempt
      /\ p.life = "waking" /\ ~p.ready /\ p.alive = Taken(p) + Untaken(p)
      /\ p.task \in {"none", "finished"} /\ p.results \in Results
    BY DEF PoolSound, Pool
<1>2. r = p.results[1] /\ Tail(p.results) = <<>> /\ r \in Result
    <2>0. p.results \in Seq(Result)
        BY <1>1 DEF Results
    <2>1. r = p.results[1] /\ r \in Result
        BY <1>1, <2>0
    <2>2. Tail(p.results) \in Seq(Result) /\ Len(Tail(p.results)) = 0
        BY <1>1, <2>0
    <2>3. Tail(p.results) = <<>>
        BY <2>2, EmptySeq
    <2> QED BY <2>1, <2>3
<1>3. p.alive = IF r.ok THEN 1 ELSE 0
    BY <1>1, <1>2, ResultsCount DEF Taken
<1>4. /\ q \in Pool /\ q.results = <<>> /\ q.alive = p.alive /\ q.ready = p.ready
      /\ q.task = p.task
    <2> DEFINE t == Tail(p.results)
    <2>1. p \in Pool /\ t \in Results /\ q = [p EXCEPT !.results = t]
        BY <1>1, <1>2, NoResults
    <2> HIDE DEF t
    <2>2. /\ q \in Pool /\ q.results = t /\ q.alive = p.alive /\ q.ready = p.ready
          /\ q.task = p.task
        BY ONLY <2>1 DEF Pool
    <2> QED BY <1>2, <2>2 DEF t
<1>5. IsCurrent(p, r)
    BY <1>1, <1>2 DEF IsCurrent
<1> HIDE DEF r
<1>6. /\ n \in Pool /\ n.results = <<>> /\ n.alive = p.alive /\ n.task = p.task
      /\ n.ready <=> r.ok
      /\ ~r.ok => n.life = "failed"
      /\ n.life # "waking"
    <2>1. CASE r.ok
        BY <1>4, <2>1 DEF CompleteWake, Pool
    <2>2. CASE ~r.ok
        BY <1>1, <1>4, <2>2 DEF CompleteWake, Pool
    <2> QED BY <2>1, <2>2
<1> HIDE DEF n
<1>7. Untaken(n) = 0
    BY <1>6, ResultsCount
<1> QED BY <1>1, <1>3, <1>5, <1>6, <1>7 DEF PoolSound, Taken, n, r

\* A panic of the wake task is a failed attempt.
LEMMA JoinSound ==
    ASSUME NEW p, PoolSound(p), p.task \in {"finished", "panicked"},
           NEW n, n = [p EXCEPT !.task = "none"],
           NEW f, f = [n EXCEPT !.life = "failed", !.due = FALSE]
    PROVE  PoolSound(n) /\ (p.task = "panicked" => PoolSound(f))
<1>1. /\ n \in Pool /\ n.task = "none" /\ n.life = p.life /\ n.results = p.results
      /\ n.ready = p.ready /\ n.attempt = p.attempt /\ n.alive = p.alive
    BY DEF PoolSound, Pool
<1>2. PoolSound(n)
    BY <1>1 DEF PoolSound, Taken, Untaken
<1>3. /\ f \in Pool /\ f.task = "none" /\ f.life = "failed" /\ f.results = n.results
      /\ f.ready = n.ready /\ f.attempt = n.attempt /\ f.alive = n.alive
    BY <1>1 DEF Pool
<1>4. p.task = "panicked" => PoolSound(f)
    BY <1>1, <1>2, <1>3 DEF PoolSound, Taken, Untaken
<1> QED BY <1>2, <1>4

LEMMA SleepSound ==
    ASSUME NEW p, PoolSound(p), p.ready, p.task = "none"
    PROVE  PoolSound(PutToSleep(p)) /\ ~PutToSleep(p).ready
<1> DEFINE n == PutToSleep(p)
<1>1. p \in Pool /\ p.results = <<>> /\ p.alive = Taken(p) + Untaken(p)
    BY DEF PoolSound, Pool
<1>2. p.alive = 1
    BY <1>1, ResultsCount DEF Taken
<1>3. /\ n \in Pool /\ n.task = "none" /\ n.life = "listening" /\ n.results = <<>> /\ ~n.ready
      /\ n.alive = 0
    <2> DEFINE k == p.alive - 1
               t == p.task
               rs == p.results
    <2>1. t = "none" /\ rs \in Results /\ k \in Nat /\ k = 0
        BY <1>1, <1>2 DEF Pool
    <2>2. n = [Asleep EXCEPT !.task = t, !.results = rs, !.alive = k]
        BY DEF PutToSleep
    <2> HIDE DEF n, k, t, rs
    <2>3. /\ n \in Pool /\ n.task = t /\ n.life = "listening" /\ n.results = rs
          /\ n.ready = FALSE /\ n.alive = k
        BY ONLY <2>1, <2>2 DEF Asleep, Pool
    <2> QED BY <1>1, <2>1, <2>3 DEF rs
<1> HIDE DEF n
<1>4. Untaken(n) = 0
    BY <1>3, ResultsCount
<1> QED BY <1>3, <1>4 DEF PoolSound, Taken, n

LEMMA ShutDownSound ==
    ASSUME NEW p, PoolSound(p)
    PROVE  PoolSound(ShutDown(p))
<1> DEFINE n == ShutDown(p)
<1>1. p \in Pool /\ p.alive = Taken(p) + Untaken(p)
    BY DEF PoolSound
<1>2. Untaken(p) \in Nat /\ Taken(p) \in Nat
    <2>1. p.results # <<>> => Len(p.results) = 1
        BY DEF PoolSound
    <2> QED BY <1>1, <2>1, ResultsCount DEF Taken
<1>3. p.alive - Untaken(p) - Taken(p) = 0
    BY <1>1, <1>2
<1>4. n = [p EXCEPT !.results = <<>>, !.ready = FALSE, !.task = "none", !.alive = 0]
    BY <1>3 DEF ShutDown
<1>5. /\ n \in Pool /\ n.task = "none" /\ n.results = <<>> /\ ~n.ready /\ n.alive = 0
    <2> DEFINE e == <<>>
    <2>1. p \in Pool /\ e \in Results
          /\ n = [p EXCEPT !.results = e, !.ready = FALSE, !.task = "none", !.alive = 0]
        BY <1>1, <1>4, NoResults
    <2> HIDE DEF e, n
    <2>2. n \in Pool /\ n.task = "none" /\ n.results = e /\ n.ready = FALSE /\ n.alive = 0
        BY ONLY <2>1 DEF Pool
    <2> QED BY <2>2 DEF e
<1> HIDE DEF n
<1>6. Untaken(n) = 0
    BY <1>5, ResultsCount
<1> QED BY <1>5, <1>6 DEF PoolSound, Taken, n

\* A change of due or of a task that sent nothing.
LEMMA PoolEdits ==
    ASSUME NEW p, PoolSound(p)
    PROVE  /\ PoolSound([p EXCEPT !.due = TRUE])
           /\ p.task = "running" => /\ PoolSound([p EXCEPT !.task = "panicked"])
                                    /\ PoolSound([p EXCEPT !.task = "none"])
<1>1. ASSUME NEW n, n = [p EXCEPT !.due = TRUE] PROVE PoolSound(n)
    <2>1. /\ n \in Pool /\ n.task = p.task /\ n.life = p.life /\ n.results = p.results
          /\ n.ready = p.ready /\ n.attempt = p.attempt /\ n.alive = p.alive
        BY <1>1 DEF PoolSound, Pool
    <2> QED BY <2>1 DEF PoolSound, Taken, Untaken
<1>2. ASSUME NEW t \in {"panicked", "none"}, NEW n, n = [p EXCEPT !.task = t],
             p.task = "running"
      PROVE  PoolSound(n)
    <2>1. /\ n \in Pool /\ n.task = t /\ n.life = p.life /\ n.results = p.results
          /\ n.ready = p.ready /\ n.attempt = p.attempt /\ n.alive = p.alive
        BY <1>2 DEF PoolSound, Pool
    <2> QED BY <1>2, <2>1 DEF PoolSound, Taken, Untaken
<1> QED BY <1>1, <1>2

-----------------------------------------------------------------------------
(* The steps, by what they touch                                            *)

\* What the relay and the background task do leaves the main loop alone.
LEMMA OutsideLoop ==
    ASSUME RelayStep \/ ClientStep
    PROVE  UNCHANGED <<main, work, pool, delivered, process>>
<1>1. ASSUME RelayStep PROVE UNCHANGED <<loopVars, process>>
    BY <1>1 DEF RelayStep, Publish, AddMember, RemoveMember, Archive, Restore, Store, Tick,
                ServeReq, DenyReq, ServeClose, RefuseReq, Reject
<1>2. ASSUME ClientStep PROVE UNCHANGED <<loopVars, process>>
    BY <1>2 DEF ClientStep, ReceiveEvent, ReceiveClosed, ProactiveResubscribe, Resubscribe,
                Resubscribed, DrainCommand, RunCommand, LoseSocket, ReconnectCommand,
                DownCommand, Connect, GateExpires, DrainParked
<1> QED BY <1>1, <1>2 DEF loopVars

\* The arms of the main loop that leave the pool alone.
LEMMA PoolLeftAlone ==
    ASSUME \/ TakeSentinel \/ SkipNotification \/ ApplyAdded \/ ApplyRemoved
           \/ TurnSucceeds \/ TurnFails \/ Maintenance \/ StopLoop
           \/ \E c \in Channels : BackoffExpires(c)
    PROVE  UNCHANGED pool
BY DEF TakeSentinel, SkipNotification, ApplyAdded, ApplyRemoved, TurnSucceeds, TurnFails,
       Maintenance, StopLoop, BackoffExpires, loopVars

LEMMA PoolSoundStep == PoolSound(pool) /\ [Next]_vars => PoolSound(pool)'
<1> SUFFICES ASSUME PoolSound(pool), [Next]_vars PROVE PoolSound(pool')
    BY DEF PoolSound, Taken, Untaken
<1>1. CASE UNCHANGED pool
    BY <1>1
<1>2. CASE UNCHANGED vars
    BY <1>1, <1>2 DEF vars
<1>3. CASE TakeMessage \/ RetryFires
    BY <1>3, TopSound DEF TakeMessage, RetryFires
<1>4. CASE RetryDeadline
    BY <1>4, PoolEdits DEF RetryDeadline
<1>5. CASE WakePanics \/ AbortWake
    BY <1>5, PoolEdits DEF WakePanics, AbortWake
<1>6. CASE TakeWakeResult
    <2> DEFINE r == Head(pool.results)
               q == [pool EXCEPT !.results = Tail(pool.results)]
               p == CompleteWake(q, r)
    <2>1. IsCurrent(pool, r) /\ PoolSound(p)
        BY <1>6, CompleteWakeSound DEF TakeWakeResult
    <2>2. pool' = Top(p, Dispatch(work, p))
        BY <1>6, <2>1 DEF TakeWakeResult
    <2> HIDE DEF p
    <2> QED BY <2>1, <2>2, TopSound
<1>7. CASE JoinWakeTask
    <2> DEFINE n == [pool EXCEPT !.task = "none"]
               f == [n EXCEPT !.life = "failed", !.due = FALSE]
               p == IF pool.task = "panicked" /\ pool.life = "waking" THEN f ELSE n
    <2>1. PoolSound(n) /\ (pool.task = "panicked" => PoolSound(f))
        BY <1>7, JoinSound DEF JoinWakeTask
    <2>2. PoolSound(p)
        BY <2>1
    <2>3. pool' = Top(p, work)
        BY <1>7 DEF JoinWakeTask
    <2> HIDE DEF p
    <2> QED BY <2>2, <2>3, TopSound
<1>8. CASE Sleep
    <2>1. PoolSound(PutToSleep(pool))
        BY <1>8, SleepSound DEF Sleep
    <2> QED BY <1>8, <2>1, TopSound DEF Sleep
<1>9. ASSUME NEW ok \in BOOLEAN, WakeReturns(ok) PROVE PoolSound(pool')
    BY <1>9, WakeReturnedSound DEF WakeReturns
<1>10. CASE Exit
    BY <1>10, ShutDownSound DEF Exit
<1>11. CASE RelayStep \/ ClientStep
    BY <1>1, <1>11, OutsideLoop
<1>12. CASE \/ TakeSentinel \/ SkipNotification \/ ApplyAdded \/ ApplyRemoved
            \/ TurnSucceeds \/ TurnFails \/ Maintenance \/ StopLoop
            \/ \E c \in Channels : BackoffExpires(c)
    BY <1>1, <1>12, PoolLeftAlone
<1> QED BY <1>2, <1>3, <1>4, <1>5, <1>6, <1>7, <1>8, <1>9, <1>10, <1>11, <1>12
        DEF Next, MainStep

LEMMA PoolSoundInit == Init => PoolSound(pool)
<1> SUFFICES ASSUME Init PROVE PoolSound(pool)
    OBVIOUS
<1>1. pool \in {Asleep, Started}
    BY DEF Init
<1> DEFINE e == <<>>
<1>2. e \in Results
    BY NoResults
<1>3. /\ pool.life = "listening" /\ pool.task = "none" /\ pool.results = e
      /\ pool.alive = (IF pool.ready THEN 1 ELSE 0) /\ pool \in Pool
    <2>1. Asleep = [life |-> "listening", attempt |-> 0, due |-> FALSE, ready |-> FALSE,
                    task |-> "none", results |-> e, alive |-> 0]
        BY DEF Asleep
    <2> HIDE DEF e
    <2>2. /\ Asleep \in Pool /\ Asleep.life = "listening" /\ Asleep.task = "none"
          /\ Asleep.results = e /\ Asleep.alive = 0 /\ Asleep.ready = FALSE
        BY ONLY <1>2, <2>1 DEF Pool
    <2>3. CASE pool = Asleep
        BY <2>2, <2>3
    <2>4. CASE pool = Started
        <3>1. pool = [Asleep EXCEPT !.ready = TRUE, !.alive = 1]
            BY <2>4 DEF Started
        <3>2. /\ pool \in Pool /\ pool.life = Asleep.life /\ pool.task = Asleep.task
              /\ pool.results = Asleep.results /\ pool.alive = 1 /\ pool.ready = TRUE
            BY ONLY <2>2, <3>1 DEF Pool
        <3> QED BY <2>2, <3>2
    <2> QED BY <1>1, <2>3, <2>4
<1>4. Untaken(pool) = 0
    BY <1>3, ResultsCount
<1> QED BY <1>3, <1>4 DEF PoolSound, Taken

LEMMA PoolSoundAlways == Spec => []PoolSound(pool)
BY PoolSoundInit, PoolSoundStep, PTL DEF Spec

\* lib.rs and pool_lifecycle.rs: the result a wake task sends is always the one
\* the lifecycle waits for, so the attempt check of complete_wake never throws a
\* started pool away, for every number of wakes, failures, panics and sleeps.
THEOREM WakesAreCurrent == Spec => []WakeNotStale
<1>1. PoolSound(pool) => WakeNotStale
    <2> SUFFICES ASSUME PoolSound(pool), NEW k \in DOMAIN pool.results
                 PROVE  IsCurrent(pool, pool.results[k])
        BY DEF WakeNotStale
    <2>1. pool.results \in Seq(Result)
        BY DEF PoolSound, Pool, Results
    <2>2. pool.results # <<>>
        OBVIOUS
    <2>3. /\ Len(pool.results) = 1 /\ pool.results[1].attempt = pool.attempt
          /\ pool.life = "waking"
        BY <2>2 DEF PoolSound
    <2>4. k = 1
        BY <2>1, <2>3
    <2> QED BY <2>3, <2>4 DEF IsCurrent
<1> QED BY <1>1, PoolSoundAlways, PTL

\* Every pool a wake task started is the harness's own, waits in wake_rx, or was
\* shut down: a failed wake, a panic, an aborted wake, a sleep and the drain at
\* shutdown leave none behind.
THEOREM PoolsDoNotLeak == Spec => []NoPoolLeaks
<1>1. PoolSound(pool) => NoPoolLeaks
    BY DEF PoolSound, NoPoolLeaks, Taken, Untaken
<1> QED BY <1>1, PoolSoundAlways, PTL

-----------------------------------------------------------------------------
(* BgState                                                                  *)

Maps == UNION {[S -> Nat] : S \in SUBSET Subs}
Dedup == [current : SUBSET Nat, previous : SUBSET Nat]
Bg == [active : SUBSET Channels, lastSeen : Maps, dropped : Maps, floor : Maps, seen : Dedup,
       parked : SUBSET Subs, gated : BOOLEAN, proactive : BOOLEAN]

\* Every active channel has a floor and the inbox a high-water mark, so channel_since
\* has an answer for whatever is subscribed.
BgSound(b) == b \in Bg /\ b.active \subseteq DOMAIN b.floor /\ "membership" \in DOMAIN b.lastSeen

LEMMA MapsAre ==
    ASSUME NEW m
    PROVE  m \in Maps <=> DOMAIN m \subseteq Subs /\ m \in [DOMAIN m -> Nat]
BY DEF Maps

LEMMA PutMaps ==
    ASSUME NEW m \in Maps, NEW k \in Subs, NEW v \in Nat
    PROVE  Put(m, k, v) \in Maps /\ DOMAIN Put(m, k, v) = DOMAIN m \cup {k}
<1> DEFINE f == Put(m, k, v)
<1>1. DOMAIN m \subseteq Subs /\ m \in [DOMAIN m -> Nat]
    BY MapsAre
<1>2. DOMAIN f = DOMAIN m \cup {k} /\ f \in [DOMAIN m \cup {k} -> Nat]
    BY <1>1 DEF Put
<1> HIDE DEF f
<1>3. f \in Maps
    BY <1>1, <1>2, MapsAre
<1> QED BY <1>2, <1>3 DEF f

LEMMA WithoutMaps ==
    ASSUME NEW m \in Maps, NEW k
    PROVE  Without(m, k) \in Maps /\ DOMAIN Without(m, k) = DOMAIN m \ {k}
<1> DEFINE f == Without(m, k)
<1>1. DOMAIN m \subseteq Subs /\ m \in [DOMAIN m -> Nat]
    BY MapsAre
<1>2. DOMAIN f = DOMAIN m \ {k} /\ f \in [DOMAIN m \ {k} -> Nat]
    BY <1>1 DEF Without
<1> HIDE DEF f
<1>3. f \in Maps
    BY <1>1, <1>2, MapsAre
<1> QED BY <1>2, <1>3 DEF f

LEMMA AtNat ==
    ASSUME NEW m \in Maps, NEW k
    PROVE  At(m, k) \subseteq Nat /\ (At(m, k) = {} \/ \E a \in Nat : At(m, k) = {a})
           /\ (k \in DOMAIN m => At(m, k) # {})
<1>1. m \in [DOMAIN m -> Nat]
    BY MapsAre
<1>2. CASE k \in DOMAIN m
    <2>1. m[k] \in Nat /\ At(m, k) = {m[k]}
        BY <1>1, <1>2 DEF At
    <2> QED BY <2>1
<1>3. CASE k \notin DOMAIN m
    BY <1>3 DEF At
<1> QED BY <1>2, <1>3

\* The extremes of two marks.
LEMMA ExtremesOfTwo ==
    ASSUME NEW a \in Nat, NEW v \in Nat
    PROVE  Max({a} \cup {v}) \in Nat /\ Min({a} \cup {v}) \in Nat
           /\ Max({} \cup {v}) \in Nat /\ Min({} \cup {v}) \in Nat
<1>1. \E x \in {a} \cup {v} : \A y \in {a} \cup {v} : x >= y
    OBVIOUS
<1>2. \E x \in {a} \cup {v} : \A y \in {a} \cup {v} : x =< y
    OBVIOUS
<1>3. Max({a} \cup {v}) \in {a} \cup {v}
    BY <1>1 DEF Max
<1>4. Min({a} \cup {v}) \in {a} \cup {v}
    BY <1>2 DEF Min
<1>5. Max({} \cup {v}) \in {} \cup {v}
    BY DEF Max
<1>6. Min({} \cup {v}) \in {} \cup {v}
    BY DEF Min
<1> QED BY <1>3, <1>4, <1>5, <1>6

LEMMA MarksMaps ==
    ASSUME NEW m \in Maps, NEW k \in Subs, NEW v \in Nat
    PROVE  /\ Raise(m, k, v) \in Maps /\ DOMAIN Raise(m, k, v) = DOMAIN m \cup {k}
           /\ Lower(m, k, v) \in Maps /\ DOMAIN Lower(m, k, v) = DOMAIN m \cup {k}
<1>1. Max(At(m, k) \cup {v}) \in Nat /\ Min(At(m, k) \cup {v}) \in Nat
    <2>1. CASE At(m, k) = {}
        BY <2>1, ExtremesOfTwo
    <2>2. CASE \E a \in Nat : At(m, k) = {a}
        BY <2>2, ExtremesOfTwo
    <2> QED BY <2>1, <2>2, AtNat
<1> QED BY <1>1, PutMaps DEF Raise, Lower

\* channel_since and its copies answer for every subscription.
LEMMA SinceNat ==
    ASSUME NEW b, BgSound(b), NEW s \in b.active \cup {"membership"}
    PROVE  Since(b, s) \in Nat
<1>1. /\ b.lastSeen \in Maps /\ b.dropped \in Maps /\ b.floor \in Maps
      /\ b.active \subseteq DOMAIN b.floor /\ "membership" \in DOMAIN b.lastSeen
    BY DEF BgSound, Bg
<1> DEFINE A == At(b.lastSeen, s)
           D == At(b.dropped, s)
<1>2. A \subseteq Nat /\ D \subseteq Nat /\ (s \in DOMAIN b.lastSeen => A # {})
    BY <1>1, AtNat
<1>3. (A = {} \/ \E a \in Nat : A = {a}) /\ (D = {} \/ \E d \in Nat : D = {d})
    BY <1>1, AtNat
<1>4. CASE A \cup D = {}
    <2>1. s \in DOMAIN b.floor
        BY <1>1, <1>2, <1>4
    <2>2. b.floor \in [DOMAIN b.floor -> Nat]
        BY <1>1, MapsAre
    <2>3. Since(b, s) = b.floor[s]
        BY <1>4 DEF Since
    <2> QED BY <2>1, <2>2, <2>3
<1>5. CASE A \cup D # {}
    <2>1. Since(b, s) = Min(A \cup D)
        BY <1>5 DEF Since
    <2> HIDE DEF A, D
    <2>2. CASE D = {}
        <3>1. PICK a \in Nat : A = {a}
            BY <1>3, <1>5, <2>2
        <3>2. A \cup D = {} \cup {a}
            BY <2>2, <3>1
        <3> QED BY <2>1, <3>2, ExtremesOfTwo
    <2>3. CASE A = {}
        <3>1. PICK d \in Nat : D = {d}
            BY <1>3, <1>5, <2>3
        <3>2. A \cup D = {} \cup {d}
            BY <2>3, <3>1
        <3> QED BY <2>1, <3>2, ExtremesOfTwo
    <2>4. CASE A # {} /\ D # {}
        <3>1. PICK a \in Nat : A = {a}
            BY <1>3, <2>4
        <3>2. PICK d \in Nat : D = {d}
            BY <1>3, <2>4
        <3> QED BY <2>1, <3>1, <3>2, ExtremesOfTwo
    <2> QED BY <2>2, <2>3, <2>4
<1> QED BY <1>4, <1>5

LEMMA DedupTypes ==
    ASSUME NEW d \in Dedup, NEW i \in Nat
    PROVE  Remember(d, i) \in Dedup /\ Forget(d, i) \in Dedup
BY DEF Remember, Forget, Dedup

\* The operations of BgState keep it sound.
LEMMA ForwardedSound ==
    ASSUME NEW b, BgSound(b), NEW s \in Subs, NEW i \in Nat, NEW at \in Nat
    PROVE  BgSound(Forwarded(b, s, i, at))
<1> DEFINE n == Forwarded(b, s, i, at)
           d == Remember(b.seen, i)
           l == Raise(b.lastSeen, s, at)
<1>1. /\ b \in Bg /\ b.active \subseteq DOMAIN b.floor /\ "membership" \in DOMAIN b.lastSeen
      /\ b.seen \in Dedup /\ b.lastSeen \in Maps
    BY DEF BgSound, Bg
<1>2. d \in Dedup /\ l \in Maps /\ DOMAIN b.lastSeen \subseteq DOMAIN l
    <2>1. d \in Dedup
        BY <1>1, DedupTypes
    <2>2. l \in Maps /\ DOMAIN l = DOMAIN b.lastSeen \cup {s}
        BY <1>1, MarksMaps
    <2> HIDE DEF l
    <2> QED BY <2>1, <2>2
<1>3. n = [b EXCEPT !.seen = d, !.lastSeen = l]
    BY DEF Forwarded
<1> HIDE DEF n, d, l
<1>4. n \in Bg /\ n.active = b.active /\ n.floor = b.floor /\ n.lastSeen = l
    BY ONLY <1>1, <1>2, <1>3 DEF Bg
<1> QED BY <1>1, <1>2, <1>4 DEF BgSound, n

LEMMA RefusedSound ==
    ASSUME NEW b, BgSound(b), NEW s \in Subs, NEW i \in Nat, NEW at \in Nat
    PROVE  BgSound(Refused(b, s, i, at))
<1> DEFINE n == Refused(b, s, i, at)
           d == Forget(Remember(b.seen, i), i)
           l == IF s \in Channels THEN Raise(b.lastSeen, s, at) ELSE b.lastSeen
           o == Lower(b.dropped, s, at)
<1>1. /\ b \in Bg /\ b.active \subseteq DOMAIN b.floor /\ "membership" \in DOMAIN b.lastSeen
      /\ b.seen \in Dedup /\ b.lastSeen \in Maps /\ b.dropped \in Maps
    BY DEF BgSound, Bg
<1>2. d \in Dedup /\ l \in Maps /\ DOMAIN b.lastSeen \subseteq DOMAIN l /\ o \in Maps
    <2>1. d \in Dedup
        <3>1. Remember(b.seen, i) \in Dedup
            BY <1>1, DedupTypes
        <3> QED BY <3>1, DedupTypes
    <2>2. /\ Raise(b.lastSeen, s, at) \in Maps /\ o \in Maps
          /\ DOMAIN Raise(b.lastSeen, s, at) = DOMAIN b.lastSeen \cup {s}
        BY <1>1, MarksMaps
    <2> QED BY <1>1, <2>1, <2>2
<1>3. n = [b EXCEPT !.seen = d, !.lastSeen = l, !.dropped = o, !.proactive = TRUE]
    BY DEF Refused
<1> HIDE DEF n, d, l, o
<1>4. n \in Bg /\ n.active = b.active /\ n.floor = b.floor /\ n.lastSeen = l
    BY ONLY <1>1, <1>2, <1>3 DEF Bg
<1> QED BY <1>1, <1>2, <1>4 DEF BgSound, n

LEMMA ClearedSound ==
    ASSUME NEW b, BgSound(b), NEW c \in Channels
    PROVE  BgSound(Cleared(b, c))
<1> DEFINE n == Cleared(b, c)
           l == Without(b.lastSeen, c)
           o == Without(b.dropped, c)
           f == Without(b.floor, c)
<1>1. /\ b \in Bg /\ b.active \subseteq DOMAIN b.floor /\ "membership" \in DOMAIN b.lastSeen
      /\ b.lastSeen \in Maps /\ b.dropped \in Maps /\ b.floor \in Maps
    BY DEF BgSound, Bg
<1>2. /\ l \in Maps /\ DOMAIN l = DOMAIN b.lastSeen \ {c} /\ o \in Maps
      /\ f \in Maps /\ DOMAIN f = DOMAIN b.floor \ {c}
    BY <1>1, WithoutMaps
<1>3. n = [b EXCEPT !.active = @ \ {c}, !.lastSeen = l, !.dropped = o, !.floor = f,
                    !.parked = @ \ {c}]
    BY DEF Cleared
<1> HIDE DEF n, l, o, f
<1>4. n \in Bg /\ n.active = b.active \ {c} /\ n.floor = f /\ n.lastSeen = l
    BY ONLY <1>1, <1>2, <1>3 DEF Bg
<1> QED BY <1>1, <1>2, <1>4, RelayClientConstants DEF BgSound, n

LEMMA IntendedSound ==
    ASSUME NEW b, BgSound(b), NEW c \in Channels, NEW since \in Nat
    PROVE  /\ BgSound(Intended(b, c, since)) /\ c \in Intended(b, c, since).active
           /\ FirstSince(Intended(b, c, since), c) \in Nat
<1> DEFINE n == Intended(b, c, since)
           f == IF c \in DOMAIN b.floor THEN b.floor ELSE Put(b.floor, c, since)
<1>1. /\ b \in Bg /\ b.active \subseteq DOMAIN b.floor /\ "membership" \in DOMAIN b.lastSeen
      /\ b.floor \in Maps /\ c \in Subs /\ b.lastSeen \in Maps
    BY DEF BgSound, Bg, Subs
<1>2. f \in Maps /\ DOMAIN f = DOMAIN b.floor \cup {c}
    BY <1>1, PutMaps
<1>3. n = [b EXCEPT !.active = @ \cup {c}, !.floor = f]
    BY DEF Intended
<1> HIDE DEF n, f
<1>4. n \in Bg /\ n.active = b.active \cup {c} /\ n.floor = f /\ n.lastSeen = b.lastSeen
    BY ONLY <1>1, <1>2, <1>3, c \in Channels DEF Bg
<1>5. FirstSince(n, c) \in Nat
    <2>1. n.lastSeen \in [DOMAIN n.lastSeen -> Nat] /\ n.floor \in [DOMAIN n.floor -> Nat]
        BY <1>1, <1>2, <1>4, MapsAre
    <2> QED BY <1>2, <1>4, <2>1 DEF FirstSince
<1> QED BY <1>1, <1>2, <1>4, <1>5 DEF BgSound, n

LEMMA ReplayingSound ==
    ASSUME NEW b, BgSound(b), NEW s
    PROVE  BgSound(Replaying(b, s)) /\ Replaying(b, s).active = b.active
<1> DEFINE n == Replaying(b, s)
           o == Without(b.dropped, s)
<1>1. /\ b \in Bg /\ b.active \subseteq DOMAIN b.floor /\ "membership" \in DOMAIN b.lastSeen
      /\ b.dropped \in Maps
    BY DEF BgSound, Bg
<1>2. o \in Maps
    BY <1>1, WithoutMaps
<1>3. n = [b EXCEPT !.dropped = o]
    BY DEF Replaying
<1> HIDE DEF n, o
<1>4. n \in Bg /\ n.active = b.active /\ n.floor = b.floor /\ n.lastSeen = b.lastSeen
    BY ONLY <1>1, <1>2, <1>3 DEF Bg
<1> QED BY <1>1, <1>4 DEF BgSound, n

\* What leaves the marks and the subscriptions alone.
LEMMA FlagsSound ==
    ASSUME NEW b, BgSound(b), NEW n \in Bg,
           n.active = b.active, n.floor = b.floor, n.lastSeen = b.lastSeen
    PROVE  BgSound(n)
BY DEF BgSound

LEMMA FlagOpsSound ==
    ASSUME NEW b, BgSound(b), NEW s \in Subs
    PROVE  /\ BgSound(Limited(b, s)) /\ Limited(b, s).active = b.active
           /\ BgSound(Unparked(b, s)) /\ Unparked(b, s).active = b.active
           /\ BgSound([b EXCEPT !.parked = @ \cup {s}])
           /\ [b EXCEPT !.parked = @ \cup {s}].active = b.active
           /\ BgSound([b EXCEPT !.proactive = FALSE])
           /\ [b EXCEPT !.proactive = FALSE].active = b.active
           /\ BgSound([b EXCEPT !.gated = FALSE])
           /\ [b EXCEPT !.gated = FALSE].active = b.active
           /\ BgSound([b EXCEPT !.parked = @ \cap {"membership"}])
           /\ [b EXCEPT !.parked = @ \cap {"membership"}].active = b.active
<1>1. b \in Bg /\ "membership" \in Subs
    BY DEF BgSound, Subs
<1>2. ASSUME NEW n, n \in {Limited(b, s), Unparked(b, s), [b EXCEPT !.parked = @ \cup {s}],
                           [b EXCEPT !.proactive = FALSE], [b EXCEPT !.gated = FALSE],
                           [b EXCEPT !.parked = @ \cap {"membership"}]}
      PROVE  BgSound(n) /\ n.active = b.active
    <2>1. /\ n \in Bg /\ n.active = b.active /\ n.floor = b.floor
          /\ n.lastSeen = b.lastSeen
        <3>1. CASE n = Limited(b, s)
            BY ONLY <1>1, <3>1, s \in Subs DEF Limited, Bg
        <3>2. CASE n = Unparked(b, s)
            BY ONLY <1>1, <3>2, s \in Subs DEF Unparked, Bg
        <3>3. CASE n = [b EXCEPT !.parked = @ \cup {s}]
            BY ONLY <1>1, <3>3, s \in Subs DEF Bg
        <3>4. CASE n = [b EXCEPT !.proactive = FALSE]
            BY ONLY <1>1, <3>4, s \in Subs DEF Bg
        <3>5. CASE n = [b EXCEPT !.gated = FALSE]
            BY ONLY <1>1, <3>5, s \in Subs DEF Bg
        <3>6. CASE n = [b EXCEPT !.parked = @ \cap {"membership"}]
            BY ONLY <1>1, <3>6, s \in Subs DEF Bg
        <3> QED BY <1>2, <3>1, <3>2, <3>3, <3>4, <3>5, <3>6
    <2> QED BY <2>1, FlagsSound
<1> QED BY <1>2

-----------------------------------------------------------------------------
(* Types                                                                    *)

Logs == Seq(Event)
Relay == [clock : Nat, log : Logs, members : SUBSET Channels, archived : SUBSET Channels,
          cut : BOOLEAN, live : SUBSET Subs]

\* A frame names a stored event, and only a channel is denied.
Frames(n) == {f \in Frame : /\ f.closed = "none" => f.event \in 1..n
                            /\ f.closed = "denied" => f.sub \in Channels}
Wires(n) == Seq(Frames(n))

Request == [sub : Subs, close : BOOLEAN, since : Nat]
Requests == Seq(Request)
Todos(a) == Seq(a \cup {"membership"})
Order == {c \in Command : c.op # "reconnect" => c.channel \in Channels}
Orders == Seq(Order)
Queues(n) == Seq(0..n)
Takes(n) == Seq(1..n)
Main == [subscribed : SUBSET Channels, newest : Maps, seen : Dedup, removed : SUBSET Channels]
Work(n) == [queued : SUBSET (1..n), throttled : SUBSET Channels, inflight : SUBSET (1..n)]

LogEnd == Len(relay.log)

RelayTyped == relay \in Relay /\ wire \in Wires(LogEnd) /\ reqs \in Requests

ClientTyped ==
    /\ BgSound(bg)
    /\ phase \in {"down", "resubscribing", "draining", "up"}
    /\ todo \in Todos(bg.active) /\ (todo # <<>> => phase = "resubscribing")
    /\ cmds \in Orders

LoopTyped ==
    /\ eventq \in Queues(LogEnd) /\ Len(eventq) <= Capacity
    /\ main \in Main /\ work \in Work(LogEnd) /\ delivered \in Takes(LogEnd)
    /\ process \in {"running", "draining", "stopped"}

Typed == RelayTyped /\ ClientTyped /\ LoopTyped /\ budget \in Scenario

\* The relay only appends to its log.
Grown(r, q) ==
    /\ q \in Relay /\ Len(r.log) <= Len(q.log)
    /\ \A i \in 1..Len(r.log) : q.log[i] = r.log[i]

LEMMA LogLen == ASSUME NEW r \in Relay PROVE Len(r.log) \in Nat /\ DOMAIN r.log = 1..Len(r.log)
BY DEF Relay, Logs

LEMMA LogEvent ==
    ASSUME NEW r \in Relay, NEW i \in 1..Len(r.log)
    PROVE  r.log[i] \in Event
<1>1. r.log \in Seq(Event)
    BY DEF Relay, Logs
<1> QED BY <1>1

LEMMA SeqMono ==
    ASSUME NEW S, NEW T, S \subseteq T, NEW s \in Seq(S)
    PROVE  s \in Seq(T)
OBVIOUS

LEMMA WiresMono ==
    ASSUME NEW m \in Nat, NEW n \in Nat, m <= n, NEW w \in Wires(m)
    PROVE  w \in Wires(n)
<1>1. Frames(m) \subseteq Frames(n)
    BY DEF Frames
<1> QED BY <1>1, SeqMono DEF Wires

LEMMA FrameTypes ==
    ASSUME NEW n \in Nat, NEW s \in Subs
    PROVE  /\ \A i \in 1..n : EventFrame(s, i) \in Frames(n)
           /\ \A why \in {"limited", "error"} : Closed(s, why) \in Frames(n)
           /\ s \in Channels => Closed(s, "denied") \in Frames(n)
BY DEF EventFrame, Closed, Frames, Frame, Answers

LEMMA AppendWire ==
    ASSUME NEW n \in Nat, NEW w \in Wires(n), NEW f \in Frames(n)
    PROVE  Append(w, f) \in Wires(n)
BY DEF Wires

LEMMA ConcatWire ==
    ASSUME NEW n \in Nat, NEW v \in Wires(n), NEW w \in Wires(n)
    PROVE  v \o w \in Wires(n)
BY DEF Wires

LEMMA ShortWires ==
    ASSUME NEW n \in Nat
    PROVE  <<>> \in Wires(n) /\ \A f \in Frames(n) : <<f>> \in Wires(n)
BY DEF Wires

LEMMA EvictedWire ==
    ASSUME relay \in Relay, NEW c \in Channels
    PROVE  Evicted(c) \in Wires(LogEnd)
<1>1. c \in Subs /\ LogEnd \in Nat
    BY LogLen DEF Subs, LogEnd
<1>2. Closed(c, "denied") \in Frames(LogEnd)
    BY <1>1, FrameTypes
<1> QED BY <1>1, <1>2, ShortWires DEF Evicted

\* An update that keeps the log keeps the relay's history.
LEMMA RelayEdit ==
    ASSUME NEW r \in Relay, NEW q \in Relay, q.log = r.log
    PROVE  Grown(r, q)
BY LogLen DEF Grown

LEMMA StoreTypes ==
    ASSUME RelayTyped, NEW e \in Event, NEW members \in SUBSET Channels,
           NEW live \in SUBSET Subs, NEW before \in Wires(LogEnd),
           Store(e, members, live, before)
    PROVE  Grown(relay, relay') /\ wire' \in Wires(Len(relay'.log))
<1> DEFINE n == Len(relay.log)
           l == Append(relay.log, e)
           a == IF e.kind = "added" THEN relay.archived \ {e.channel} ELSE relay.archived
<1>1. /\ relay \in Relay /\ wire \in Wires(n) /\ before \in Wires(n) /\ n \in Nat
      /\ relay.log \in Seq(Event) /\ relay.archived \in SUBSET Channels
    BY LogLen DEF RelayTyped, LogEnd, Relay, Logs
<1>2. /\ l \in Logs /\ Len(l) = n + 1 /\ \A i \in 1..n : l[i] = relay.log[i]
    BY <1>1 DEF Logs
<1>3. a \in SUBSET Channels
    BY <1>1
<1>4. relay' = [relay EXCEPT !.log = l, !.members = members, !.live = live, !.archived = a]
    BY DEF Store
<1> HIDE DEF n, l, a
<1>5. relay' \in Relay /\ relay'.log = l
    BY ONLY <1>1, <1>2, <1>3, <1>4, members \in SUBSET Channels, live \in SUBSET Subs DEF Relay
<1>6. Grown(relay, relay')
    BY <1>1, <1>2, <1>5 DEF Grown, n
<1> DEFINE s == IF e.kind = "message" THEN e.channel ELSE "membership"
           f == EventFrame(s, n + 1)
<1>7. f \in Frames(n + 1)
    <2>1. s \in Subs /\ n + 1 \in Nat /\ n + 1 \in 1..(n + 1)
        BY <1>1 DEF Event, Subs
    <2> QED BY <2>1, FrameTypes
<1>8. wire' \in {(wire \o before) \o <<f>>, (wire \o before) \o <<>>}
    BY DEF Store, SubOf, n
<1> HIDE DEF f
<1>9. n + 1 \in Nat /\ wire \o before \in Wires(n + 1)
    <2>1. n + 1 \in Nat /\ n <= n + 1
        BY <1>1
    <2>2. wire \o before \in Wires(n)
        BY <1>1, ConcatWire
    <2> QED BY <1>1, <2>1, <2>2, WiresMono
<1>10. <<f>> \in Wires(n + 1) /\ <<>> \in Wires(n + 1)
    BY <1>7, <1>9, ShortWires
<1>11. wire' \in Wires(n + 1)
    BY <1>8, <1>9, <1>10, ConcatWire
<1> QED BY <1>2, <1>5, <1>6, <1>11

LEMMA SpendTypes ==
    ASSUME budget \in Scenario,
           \/ Spend("messages") \/ Spend("changes") \/ Spend("archives") \/ Spend("losses")
           \/ Spend("refusals") \/ Spend("overflows") \/ Spend("seconds") \/ Spend("wakes")
           \/ Spend("turns") \/ Spend("stops")
    PROVE  budget' \in Scenario /\ budget'.lazy = budget.lazy
BY DEF Spend, Scenario

LEMMA OrderingsTypes ==
    ASSUME NEW S, IsFiniteSet(S), NEW q \in SetToSeqs(S)
    PROVE  q \in Seq(S)
<1>1. Cardinality(S) \in Nat
    BY FS_CardinalityType
<1>2. q \in [1..Cardinality(S) -> S]
    BY DEF SetToSeqs
<1> QED BY <1>1, <1>2

LEMMA RequestHead ==
    ASSUME reqs \in Requests, reqs # <<>>
    PROVE  Head(reqs) \in Request /\ Tail(reqs) \in Requests /\ Head(reqs).sub \in Subs
<1>1. Head(reqs) \in Request /\ Tail(reqs) \in Requests
    BY DEF Requests
<1> QED BY <1>1 DEF Request

LEMMA ServeReqTypes ==
    ASSUME RelayTyped, ServeReq
    PROVE  Grown(relay, relay') /\ wire' \in Wires(Len(relay'.log)) /\ reqs' \in Requests
<1> DEFINE r == Head(reqs)
           n == Len(relay.log)
           S == Stored(r.sub, r.since)
           l == relay.live \cup {r.sub}
<1>1. relay \in Relay /\ wire \in Wires(n) /\ n \in Nat /\ DOMAIN relay.log = 1..n
    BY LogLen DEF RelayTyped, LogEnd
<1>2. r.sub \in Subs /\ Tail(reqs) \in Requests
    BY RequestHead DEF RelayTyped, ServeReq
<1>3. relay' = [relay EXCEPT !.live = l]
    BY DEF ServeReq
<1>4. l \in SUBSET Subs
    BY <1>1, <1>2 DEF Relay
<1> HIDE DEF l
<1>5. relay' \in Relay /\ relay'.log = relay.log
    BY ONLY <1>1, <1>3, <1>4 DEF Relay
<1>6. S \subseteq 1..n
    BY <1>1 DEF Stored, Ids
<1>7. IsFiniteSet(S)
    <2>1. IsFiniteSet(1..n)
        BY <1>1, FS_Interval
    <2> QED BY <1>6, <2>1, FS_Subset
<1> HIDE DEF S
<1>8. PICK q \in SetToSeqs(S) : wire' = wire \o [j \in DOMAIN q |-> EventFrame(r.sub, q[j])]
    BY DEF ServeReq, Replays, S
<1>9. q \in Seq(S)
    BY <1>7, OrderingsTypes
<1> DEFINE fs == [j \in DOMAIN q |-> EventFrame(r.sub, q[j])]
<1>10. fs \in Wires(n)
    <2>1. \A j \in DOMAIN q : EventFrame(r.sub, q[j]) \in Frames(n)
        <3>1. \A i \in 1..n : EventFrame(r.sub, i) \in Frames(n)
            BY <1>1, <1>2, FrameTypes
        <3>2. \A j \in DOMAIN q : q[j] \in 1..n
            <4>1. \A j \in DOMAIN q : q[j] \in S
                BY ONLY <1>9
            <4> QED BY ONLY <1>6, <4>1
        <3> QED BY <3>1, <3>2
    <2>2. DOMAIN q = 1..Len(q) /\ Len(q) \in Nat
        BY <1>9
    <2>3. fs \in [1..Len(q) -> Frames(n)]
        BY <2>1, <2>2
    <2> QED BY <2>2, <2>3 DEF Wires
<1> HIDE DEF fs
<1>11. wire' \in Wires(n)
    BY <1>1, <1>8, <1>10, ConcatWire DEF fs
<1>12. Grown(relay, relay')
    BY <1>1, <1>5, RelayEdit
<1> QED BY <1>2, <1>5, <1>11, <1>12 DEF ServeReq

LEMMA RelayStepTypes ==
    ASSUME RelayTyped, budget \in Scenario, RelayStep
    PROVE  /\ Grown(relay, relay') /\ wire' \in Wires(Len(relay'.log)) /\ reqs' \in Requests
           /\ budget' \in Scenario /\ budget'.lazy = budget.lazy
           /\ UNCHANGED <<clientVars, cmds, eventq, loopVars, process>>
<1> DEFINE n == Len(relay.log)
<1>1. /\ relay \in Relay /\ wire \in Wires(n) /\ reqs \in Requests /\ n \in Nat /\ n = LogEnd
      /\ <<>> \in Wires(LogEnd)
    BY LogLen, ShortWires DEF RelayTyped, LogEnd
<1>2. UNCHANGED <<clientVars, cmds, eventq, loopVars, process>>
    BY DEF RelayStep, Publish, AddMember, RemoveMember, Archive, Restore, Store, Tick,
           ServeReq, DenyReq, ServeClose, RefuseReq, Reject
<1>3. budget' \in Scenario /\ budget'.lazy = budget.lazy
    <2>1. CASE UNCHANGED budget
        BY <2>1
    <2>2. CASE Spend("messages") \/ Spend("changes") \/ Spend("archives")
               \/ Spend("refusals") \/ Spend("seconds")
        BY <2>2, SpendTypes
    <2> QED BY <2>1, <2>2 DEF RelayStep, Publish, AddMember, RemoveMember, Archive, Restore,
                  Tick, ServeReq, DenyReq, ServeClose, RefuseReq
<1>4. Grown(relay, relay') /\ wire' \in Wires(Len(relay'.log)) /\ reqs' \in Requests
    <2>1. ASSUME NEW e \in Event, NEW members \in SUBSET Channels, NEW live \in SUBSET Subs,
                 NEW before \in Wires(LogEnd), Store(e, members, live, before)
          PROVE  Grown(relay, relay') /\ wire' \in Wires(Len(relay'.log)) /\ reqs' \in Requests
        BY <1>1, <2>1, StoreTypes DEF Store
    <2>2. relay.members \in SUBSET Channels /\ relay.live \in SUBSET Subs /\ relay.clock \in Nat
        BY <1>1 DEF Relay
    <2>3. ASSUME NEW q \in Relay, q.log = relay.log PROVE Grown(relay, q) /\ Len(q.log) = n
        BY <1>1, <2>3, RelayEdit
    <2>4. ASSUME NEW c \in Channels, Publish(c) \/ AddMember(c) \/ RemoveMember(c) \/ Restore(c)
          PROVE  Grown(relay, relay') /\ wire' \in Wires(Len(relay'.log)) /\ reqs' \in Requests
        <3>1. \A k \in {"message", "added", "removed"} : New(k, c) \in Event
            BY <2>2 DEF New, Event
        <3>2. Evicted(c) \in Wires(LogEnd)
            BY <1>1, EvictedWire
        <3>3. /\ relay.members \cup {c} \in SUBSET Channels
              /\ relay.members \ {c} \in SUBSET Channels /\ relay.live \ {c} \in SUBSET Subs
            BY <2>2
        <3> QED BY <1>1, <2>1, <2>2, <2>4, <3>1, <3>2, <3>3
                DEF Publish, AddMember, RemoveMember, Restore
    <2>5. ASSUME NEW c \in Channels, Archive(c)
          PROVE  Grown(relay, relay') /\ wire' \in Wires(Len(relay'.log)) /\ reqs' \in Requests
        <3>1. relay' \in Relay /\ relay'.log = relay.log
            BY <1>1, <2>5 DEF Archive, Relay
        <3>2. wire' = wire \o Evicted(c) /\ Evicted(c) \in Wires(n) /\ reqs' = reqs
            BY <1>1, <2>5, EvictedWire DEF Archive
        <3>3. wire' \in Wires(n)
            BY <1>1, <3>2, ConcatWire
        <3> QED BY <1>1, <2>3, <3>1, <3>2, <3>3
    <2>6. CASE Tick
        <3>1. relay' \in Relay /\ relay'.log = relay.log
            BY <1>1, <2>6 DEF Tick, Relay
        <3> QED BY <1>1, <2>3, <2>6, <3>1 DEF Tick
    <2>7. CASE ServeReq
        BY <2>7, ServeReqTypes
    <2>8. ASSUME NEW why \in {"denied", "limited", "error"}, Reject(why),
                 why = "denied" => Head(reqs).sub \in Channels
          PROVE  wire' \in Wires(n) /\ reqs' \in Requests
        <3>1. Head(reqs).sub \in Subs /\ Tail(reqs) \in Requests
            BY <1>1, <2>8, RequestHead DEF Reject
        <3>2. Closed(Head(reqs).sub, why) \in Frames(n)
            BY <1>1, <2>8, <3>1, FrameTypes
        <3>3. wire' = Append(wire, Closed(Head(reqs).sub, why)) /\ reqs' = Tail(reqs)
            BY <2>8 DEF Reject
        <3> QED BY <1>1, <3>1, <3>2, <3>3, AppendWire
    <2>9. CASE DenyReq
        <3>1. relay' = relay /\ wire' \in Wires(n) /\ reqs' \in Requests
            BY <2>8, <2>9 DEF DenyReq
        <3> QED BY <1>1, <2>3, <3>1
    <2>10. ASSUME NEW why \in {"limited", "error"}, RefuseReq(why)
           PROVE  Grown(relay, relay') /\ wire' \in Wires(Len(relay'.log)) /\ reqs' \in Requests
        <3>1. wire' \in Wires(n) /\ reqs' \in Requests
            BY <2>8, <2>10 DEF RefuseReq
        <3>2. relay' \in Relay /\ relay'.log = relay.log
            BY <1>1, <2>10 DEF RefuseReq, Relay
        <3> QED BY <1>1, <2>3, <3>1, <3>2
    <2>11. CASE ServeClose
        <3>1. relay' \in Relay /\ relay'.log = relay.log
            BY <1>1, <2>11 DEF ServeClose, Relay
        <3>2. reqs' \in Requests /\ wire' = wire
            BY <1>1, <2>11, RequestHead DEF ServeClose
        <3> QED BY <1>1, <2>3, <3>1, <3>2
    <2> QED BY <2>4, <2>5, <2>6, <2>7, <2>9, <2>10, <2>11 DEF RelayStep
<1> QED BY <1>2, <1>3, <1>4

\* What a step of the background task leaves behind.
SocketKept == Grown(relay, relay') /\ wire' \in Wires(Len(relay'.log)) /\ reqs' \in Requests
ClientKept ==
    /\ BgSound(bg')
    /\ phase' \in {"down", "resubscribing", "draining", "up"}
    /\ todo' \in Todos(bg'.active) /\ (todo' # <<>> => phase' = "resubscribing")
    /\ cmds' \in Orders
QueueKept ==
    /\ eventq' \in Queues(LogEnd) /\ Len(eventq') <= Capacity
    /\ budget' \in Scenario /\ budget'.lazy = budget.lazy

LEMMA NothingToDo == \A a : <<>> \in Todos(a)
BY DEF Todos

LEMMA SameRelay ==
    ASSUME RelayTyped, relay' = relay
    PROVE  Grown(relay, relay') /\ Wires(Len(relay'.log)) = Wires(LogEnd)
BY RelayEdit DEF RelayTyped, LogEnd

LEMMA WireHead ==
    ASSUME RelayTyped, wire # <<>>
    PROVE  /\ Head(wire) \in Frames(LogEnd) /\ Tail(wire) \in Wires(LogEnd)
           /\ Head(wire).sub \in Subs /\ Head(wire).closed \in Answers
           /\ Head(wire).closed = "none" => Head(wire).event \in 1..LogEnd
           /\ Head(wire).closed = "denied" => Head(wire).sub \in Channels
<1>1. Head(wire) \in Frames(LogEnd) /\ Tail(wire) \in Wires(LogEnd)
    BY DEF RelayTyped, Wires
<1> QED BY <1>1 DEF Frames, Frame

LEMMA OrderHead ==
    ASSUME cmds \in Orders, cmds # <<>>
    PROVE  /\ Head(cmds) \in Order /\ Tail(cmds) \in Orders /\ Head(cmds).since \in Nat
           /\ Head(cmds).op \in {"subscribe", "unsubscribe", "reconnect"}
           /\ Head(cmds).op # "reconnect" => Head(cmds).channel \in Channels
<1>1. Head(cmds) \in Order /\ Tail(cmds) \in Orders
    BY DEF Orders
<1> QED BY <1>1 DEF Order, Command

LEMMA ReqTypes ==
    ASSUME NEW s \in Subs, NEW since \in Nat
    PROVE  Req(s, since) \in Request /\ CloseFrame(s) \in Request
<1>1. (IF since > Skew THEN since - Skew ELSE 0) \in Nat
    BY RelayClientConstants
<1> QED BY <1>1 DEF Req, CloseFrame, Request

LEMMA AppendReq ==
    ASSUME reqs \in Requests, NEW r \in Request
    PROVE  Append(reqs, r) \in Requests
BY DEF Requests

LEMMA ReceiveEventTypes ==
    ASSUME Typed, ReceiveEvent
    PROVE  SocketKept /\ ClientKept /\ QueueKept
<1> DEFINE f == Head(wire)
           at == relay.log[f.event].at
<1>1. /\ RelayTyped /\ ClientTyped /\ LoopTyped /\ budget \in Scenario /\ wire # <<>>
      /\ relay \in Relay /\ reqs \in Requests /\ LogEnd \in Nat /\ LogEnd = Len(relay.log)
    BY LogLen DEF Typed, RelayTyped, ReceiveEvent, LogEnd
<1>2. f.sub \in Subs /\ f.event \in 1..LogEnd /\ f.event \in Nat /\ Tail(wire) \in Wires(LogEnd)
    BY <1>1, WireHead DEF ReceiveEvent
<1>3. at \in Nat
    <2>1. relay.log[f.event] \in Event
        BY <1>1, <1>2, LogEvent
    <2> QED BY <2>1 DEF Event
<1>4. SocketKept
    BY <1>1, <1>2, SameRelay DEF ReceiveEvent, SocketKept
<1>5. todo = <<>> /\ todo' = todo /\ phase' = phase /\ cmds' = cmds
    BY <1>1 DEF ReceiveEvent, ClientTyped
<1> HIDE DEF f, at
<1>6. \/ bg' = bg \/ bg' = Forwarded(bg, f.sub, f.event, at)
      \/ bg' = Refused(bg, f.sub, f.event, at)
    BY DEF ReceiveEvent, f, at
<1>7. BgSound(bg')
    BY <1>1, <1>2, <1>3, <1>6, ForwardedSound, RefusedSound DEF ClientTyped
<1>8. ClientKept
    BY <1>1, <1>5, <1>7, NothingToDo DEF ClientKept, ClientTyped
<1>9. QueueKept
    <2>1. CASE UNCHANGED eventq
        <3>1. UNCHANGED budget \/ Spend("overflows")
            BY DEF ReceiveEvent
        <3> QED BY <1>1, <2>1, <3>1, SpendTypes DEF QueueKept, LoopTyped
    <2>2. CASE eventq' = Append(eventq, f.event) /\ Len(eventq) < Capacity /\ UNCHANGED budget
        <3>1. eventq \in Seq(0..LogEnd) /\ f.event \in 0..LogEnd
            BY <1>1, <1>2 DEF LoopTyped, Queues
        <3>2. eventq' \in Seq(0..LogEnd) /\ Len(eventq') = Len(eventq) + 1 /\ Len(eventq) \in Nat
            BY <2>2, <3>1
        <3> QED BY <1>1, <2>2, <3>2, IntakeConstants DEF QueueKept, Queues
    <2> QED BY <2>1, <2>2 DEF ReceiveEvent, f
<1> QED BY <1>4, <1>8, <1>9

LEMMA ReceiveClosedTypes ==
    ASSUME Typed, ReceiveClosed
    PROVE  SocketKept /\ ClientKept /\ QueueKept
<1> DEFINE s == Head(wire).sub
           why == Head(wire).closed
           again == why = "error" /\ (s \in Channels => s \in bg.active)
<1>1. /\ RelayTyped /\ ClientTyped /\ LoopTyped /\ budget \in Scenario /\ wire # <<>>
      /\ reqs \in Requests /\ BgSound(bg) /\ why # "none"
    BY DEF Typed, RelayTyped, ClientTyped, ReceiveClosed
<1>2. /\ s \in Subs /\ why \in {"denied", "limited", "error"} /\ Tail(wire) \in Wires(LogEnd)
      /\ why = "denied" => s \in Channels
    BY <1>1, WireHead DEF Answers
<1>3. /\ bg' = (CASE why = "denied"  -> Cleared(bg, s)
                  [] why = "limited" -> Limited(bg, s)
                  [] why = "error"   -> IF again THEN Replaying(bg, s) ELSE bg)
      /\ reqs' = IF again THEN Append(reqs, Req(s, Since(bg, s))) ELSE reqs
    BY DEF ReceiveClosed
<1> HIDE DEF s, why
<1>4. BgSound(bg')
    BY <1>1, <1>2, <1>3, ClearedSound, FlagOpsSound, ReplayingSound
<1>5. reqs' \in Requests
    <2>1. CASE again
        <3>1. s \in bg.active \cup {"membership"}
            BY <1>2, <2>1 DEF Subs
        <3>2. Since(bg, s) \in Nat
            BY <1>1, <3>1, SinceNat
        <3> QED BY <1>1, <1>2, <1>3, <2>1, <3>2, ReqTypes, AppendReq
    <2> QED BY <1>1, <1>3, <2>1
<1>6. SocketKept
    BY <1>1, <1>2, <1>5, SameRelay DEF ReceiveClosed, SocketKept
<1>7. ClientKept
    BY <1>1, <1>4, NothingToDo DEF ReceiveClosed, ClientKept, ClientTyped
<1>8. QueueKept
    BY <1>1 DEF ReceiveClosed, QueueKept, LoopTyped
<1> QED BY <1>6, <1>7, <1>8

LEMMA ResubscriptionTypes ==
    ASSUME NEW b, BgSound(b), NEW q \in {Append(o, "membership") : o \in SetToSeqs(b.active)}
    PROVE  q \in Todos(b.active)
<1>1. b.active \subseteq Channels
    BY DEF BgSound, Bg
<1>2. IsFiniteSet(b.active)
    BY <1>1, RelayClientConstants, FS_Subset
<1>3. PICK o \in SetToSeqs(b.active) : q = Append(o, "membership")
    OBVIOUS
<1>4. o \in Seq(b.active)
    BY <1>2, OrderingsTypes
<1>5. o \in Seq(b.active \cup {"membership"})
    BY <1>4, SeqMono
<1> QED BY <1>3, <1>5 DEF Todos

\* The starts of resubscribe_after_reconnect.
LEMMA StartResubscribeTypes ==
    ASSUME Typed, ProactiveResubscribe \/ Connect
    PROVE  SocketKept /\ ClientKept /\ QueueKept
<1>1. /\ RelayTyped /\ ClientTyped /\ LoopTyped /\ budget \in Scenario
      /\ BgSound(bg)
    BY DEF Typed, ClientTyped
<1>2. SocketKept /\ QueueKept
    BY <1>1, SameRelay DEF ProactiveResubscribe, Connect, SocketKept, QueueKept, LoopTyped,
                           RelayTyped, relayVars
<1>3. BgSound(bg') /\ bg'.active = bg.active
    <2>1. "membership" \in Subs
        BY DEF Subs
    <2> QED BY <1>1, <2>1, FlagOpsSound DEF ProactiveResubscribe, Connect
<1>4. todo' \in Todos(bg.active)
    BY <1>1, ResubscriptionTypes DEF ProactiveResubscribe, Connect, Resubscription
<1> QED BY <1>1, <1>2, <1>3, <1>4 DEF ProactiveResubscribe, Connect, ClientKept, ClientTyped

LEMMA ResubscribeTypes ==
    ASSUME Typed, Resubscribe
    PROVE  SocketKept /\ ClientKept /\ QueueKept
<1> DEFINE s == Head(todo)
           sent == Replaying(bg, s)
<1>1. /\ RelayTyped /\ ClientTyped /\ LoopTyped /\ budget \in Scenario
      /\ BgSound(bg) /\ reqs \in Requests /\ wire \in Wires(LogEnd) /\ todo \in Todos(bg.active)
      /\ todo # <<>> /\ bg.active \subseteq Channels
    BY DEF Typed, ClientTyped, RelayTyped, Resubscribe, BgSound, Bg
<1>2. s \in bg.active \cup {"membership"} /\ Tail(todo) \in Todos(bg.active)
    BY <1>1 DEF Todos
<1>3. s \in Subs
    BY <1>1, <1>2 DEF Subs
<1>4. \/ bg' = [bg EXCEPT !.parked = @ \cup {s}] /\ reqs' = reqs
      \/ bg' \in {Unparked(sent, s), sent} /\ reqs' = Append(reqs, Req(s, Since(bg, s)))
    BY DEF Resubscribe
<1> HIDE DEF s
<1>5. BgSound(sent) /\ sent.active = bg.active
    BY <1>1, ReplayingSound
<1> HIDE DEF sent
<1>6. BgSound(bg') /\ bg'.active = bg.active
    <2>1. CASE bg' = [bg EXCEPT !.parked = @ \cup {s}]
        BY <1>1, <1>3, <2>1, FlagOpsSound
    <2>2. CASE bg' = sent
        BY <1>5, <2>2
    <2>3. CASE bg' = Unparked(sent, s)
        BY <1>3, <1>5, <2>3, FlagOpsSound
    <2> QED BY <1>4, <2>1, <2>2, <2>3
<1>7. reqs' \in Requests
    <2>1. Since(bg, s) \in Nat
        BY <1>1, <1>2, SinceNat
    <2>2. Req(s, Since(bg, s)) \in Request
        BY <1>3, <2>1, ReqTypes
    <2> QED BY <1>1, <1>4, <2>2, AppendReq
<1>8. SocketKept /\ QueueKept
    BY <1>1, <1>7, SameRelay DEF Resubscribe, SocketKept, QueueKept, LoopTyped
<1>9. ClientKept
    BY <1>1, <1>2, <1>6 DEF Resubscribe, ClientKept, ClientTyped
<1> QED BY <1>8, <1>9

LEMMA ExecuteTypes ==
    ASSUME BgSound(bg), reqs \in Requests, NEW c \in Order, Execute(c)
    PROVE  BgSound(bg') /\ reqs' \in Requests
<1> DEFINE b == Intended(bg, c.channel, c.since)
<1>1. c.since \in Nat /\ (c.op # "reconnect" => c.channel \in Channels)
    BY DEF Order, Command
<1>2. c.op \in {"subscribe", "unsubscribe"} /\ c.channel \in Channels /\ c.channel \in Subs
    BY <1>1 DEF Execute, Subs
<1>3. BgSound(b) /\ FirstSince(b, c.channel) \in Nat
    BY <1>1, <1>2, IntendedSound
<1>4. /\ \/ bg' = [b EXCEPT !.parked = @ \cup {c.channel}]
         \/ bg' = Unparked(b, c.channel)
         \/ bg' = Cleared(bg, c.channel)
      /\ reqs' \in {reqs, Append(reqs, Req(c.channel, FirstSince(b, c.channel))),
                    Append(reqs, CloseFrame(c.channel))}
    BY DEF Execute
<1> HIDE DEF b
<1>5. BgSound(bg')
    <2>1. CASE bg' = [b EXCEPT !.parked = @ \cup {c.channel}]
        BY <1>2, <1>3, <2>1, FlagOpsSound
    <2>2. CASE bg' = Unparked(b, c.channel)
        BY <1>2, <1>3, <2>2, FlagOpsSound
    <2>3. CASE bg' = Cleared(bg, c.channel)
        BY <1>2, <2>3, ClearedSound
    <2> QED BY <1>4, <2>1, <2>2, <2>3
<1>6. /\ Req(c.channel, FirstSince(b, c.channel)) \in Request
      /\ CloseFrame(c.channel) \in Request
    BY <1>2, <1>3, ReqTypes
<1> QED BY <1>4, <1>5, <1>6, AppendReq

LEMMA CommandTypes ==
    ASSUME Typed, DrainCommand \/ RunCommand
    PROVE  SocketKept /\ ClientKept /\ QueueKept
<1>1. /\ RelayTyped /\ ClientTyped /\ LoopTyped /\ budget \in Scenario
      /\ BgSound(bg) /\ reqs \in Requests /\ wire \in Wires(LogEnd) /\ cmds \in Orders
    BY DEF Typed, ClientTyped, RelayTyped
<1>2. todo = <<>> /\ todo' = todo /\ phase' \in {"up", phase}
    BY <1>1 DEF DrainCommand, RunCommand, ClientTyped
<1>3. BgSound(bg') /\ reqs' \in Requests /\ cmds' \in Orders
    <2>1. CASE UNCHANGED <<bg, reqs>> /\ (cmds = <<>> => cmds' = cmds)
               /\ (cmds # <<>> => cmds' = Tail(cmds))
        BY <1>1, <2>1, OrderHead
    <2>2. CASE cmds # <<>> /\ Execute(Head(cmds)) /\ cmds' = Tail(cmds)
        BY <1>1, <2>2, OrderHead, ExecuteTypes
    <2> QED BY <2>1, <2>2 DEF DrainCommand, RunCommand
<1>4. SocketKept /\ QueueKept
    BY <1>1, <1>3, SameRelay DEF DrainCommand, RunCommand, SocketKept, QueueKept, LoopTyped
<1>5. ClientKept
    BY <1>1, <1>2, <1>3, NothingToDo DEF ClientKept, ClientTyped
<1> QED BY <1>4, <1>5

LEMMA DisconnectedTypes ==
    ASSUME Typed, Disconnected
    PROVE  SocketKept
<1>1. relay \in Relay
    BY DEF Typed, RelayTyped
<1>2. relay' \in Relay /\ relay'.log = relay.log
    BY <1>1 DEF Disconnected, Relay
<1>3. Grown(relay, relay') /\ Len(relay'.log) \in Nat
    BY <1>1, <1>2, RelayEdit, LogLen
<1>4. <<>> \in Requests
    BY DEF Requests
<1> QED BY <1>3, <1>4, ShortWires DEF SocketKept, Disconnected

LEMMA LostSocketTypes ==
    ASSUME Typed, LoseSocket \/ ReconnectCommand
    PROVE  SocketKept /\ ClientKept /\ QueueKept
<1>1. /\ RelayTyped /\ ClientTyped /\ LoopTyped /\ budget \in Scenario
      /\ BgSound(bg) /\ cmds \in Orders /\ LogEnd \in Nat
    BY LogLen DEF Typed, ClientTyped, RelayTyped, LogEnd
<1>2. SocketKept
    BY DisconnectedTypes DEF LoseSocket, ReconnectCommand
<1>3. ClientKept
    BY <1>1, NothingToDo, OrderHead DEF LoseSocket, ReconnectCommand, Disconnected, ClientKept
<1>4. CASE LoseSocket
    <2>1. eventq \in Seq(0..LogEnd) /\ 0 \in 0..LogEnd
        BY <1>1 DEF LoopTyped, Queues
    <2>2. /\ Append(eventq, 0) \in Seq(0..LogEnd) /\ Len(Append(eventq, 0)) = Len(eventq) + 1
          /\ Len(eventq) \in Nat
        BY <2>1
    <2>3. eventq' \in Queues(LogEnd) /\ Len(eventq') <= Capacity
        <3>1. eventq' = IF Len(eventq) < Capacity THEN Append(eventq, 0) ELSE eventq
            BY <1>4 DEF LoseSocket
        <3>2. Len(eventq) <= Capacity
            BY <1>1 DEF LoopTyped
        <3>3. CASE Len(eventq) < Capacity
            BY <2>2, <3>1, <3>3, IntakeConstants DEF Queues
        <3>4. CASE ~(Len(eventq) < Capacity)
            BY <2>1, <3>1, <3>2, <3>4 DEF Queues
        <3> QED BY <3>3, <3>4
    <2> QED BY <1>1, <1>2, <1>3, <1>4, <2>3, SpendTypes DEF LoseSocket, QueueKept
<1>5. CASE ReconnectCommand
    BY <1>1, <1>2, <1>3, <1>5 DEF ReconnectCommand, QueueKept, LoopTyped
<1> QED BY <1>4, <1>5

LEMMA ClientStepTypes ==
    ASSUME Typed, ClientStep
    PROVE  SocketKept /\ ClientKept /\ QueueKept
<1>1. /\ RelayTyped /\ ClientTyped /\ LoopTyped /\ budget \in Scenario
      /\ BgSound(bg) /\ reqs \in Requests /\ wire \in Wires(LogEnd) /\ cmds \in Orders
      /\ "membership" \in Subs
    BY DEF Typed, ClientTyped, RelayTyped, Subs
<1>2. CASE Resubscribed
    BY <1>1, <1>2, SameRelay, NothingToDo
       DEF Resubscribed, SocketKept, QueueKept, ClientKept, LoopTyped, ClientTyped, relayVars
<1>3. CASE DownCommand
    <2> DEFINE c == Head(cmds)
    <2>1. /\ c.since \in Nat /\ c.op \in {"subscribe", "unsubscribe", "reconnect"}
          /\ (c.op # "reconnect" => c.channel \in Channels) /\ Tail(cmds) \in Orders
        BY <1>1, <1>3, OrderHead DEF DownCommand
    <2>2. bg' \in {Intended(bg, c.channel, c.since), Cleared(bg, c.channel), bg}
          /\ (c.op = "reconnect" => bg' = bg)
        BY <1>3, <2>1 DEF DownCommand
    <2> HIDE DEF c
    <2>3. BgSound(bg')
        BY <1>1, <2>1, <2>2, IntendedSound, ClearedSound
    <2>4. todo' = <<>> /\ phase' = "down" /\ cmds' \in Orders
        BY <1>1, <1>3, <2>1 DEF DownCommand, ClientTyped, c
    <2>5. SocketKept /\ QueueKept
        BY <1>1, <1>3, SameRelay DEF DownCommand, SocketKept, QueueKept, LoopTyped, relayVars
    <2> QED BY <2>3, <2>4, <2>5, NothingToDo DEF ClientKept
<1>4. CASE GateExpires
    <2>1. BgSound(bg') /\ bg'.active = bg.active
        BY <1>1, <1>4, FlagOpsSound DEF GateExpires
    <2>2. SocketKept /\ QueueKept
        BY <1>1, <1>4, SameRelay DEF GateExpires, SocketKept, QueueKept, LoopTyped, relayVars
    <2> QED BY <1>1, <1>4, <2>1, <2>2 DEF GateExpires, ClientKept, ClientTyped
<1>5. ASSUME NEW s \in Subs, DrainParked(s) PROVE SocketKept /\ ClientKept /\ QueueKept
    <2>1. BgSound(Replaying(bg, s))
        BY <1>1, ReplayingSound
    <2>2. BgSound(bg')
        BY <1>1, <1>5, <2>1, FlagOpsSound DEF DrainParked
    <2>3. reqs' \in Requests
        <3>1. CASE s \in bg.active \cup {"membership"}
            <4>1. Req(s, Since(bg, s)) \in Request
                BY <1>1, <3>1, SinceNat, ReqTypes
            <4> QED BY <1>1, <1>5, <4>1, AppendReq DEF DrainParked
        <3> QED BY <1>1, <1>5, <3>1 DEF DrainParked
    <2>4. todo' = <<>> /\ phase' = "up" /\ cmds' = cmds
        BY <1>1, <1>5 DEF DrainParked, ClientTyped
    <2>5. SocketKept /\ QueueKept
        BY <1>1, <1>5, <2>3, SameRelay DEF DrainParked, SocketKept, QueueKept, LoopTyped
    <2> QED BY <1>1, <2>2, <2>4, <2>5, NothingToDo DEF ClientKept
<1> QED BY <1>2, <1>3, <1>4, <1>5, ReceiveEventTypes, ReceiveClosedTypes, ResubscribeTypes,
           StartResubscribeTypes, CommandTypes, LostSocketTypes DEF ClientStep

\* The least member of a nonempty set of numbers is one of them.
LEMMA MinMember ==
    ASSUME NEW T, T \subseteq Nat, T # {}
    PROVE  Min(T) \in T
<1> DEFINE R == OpToRel(<, Nat)
<1>1. IsWellFoundedOn(R, Nat)
    BY NatLessThanWellFounded
<1>2. \A x, y \in Nat : x < y => <<x, y>> \in R
    BY DEF OpToRel
<1> HIDE DEF R
<1>3. PICK i \in T : \A j \in T : <<j, i>> \notin R
    BY <1>1, WFMin
<1>4. \A j \in T : ~(j < i)
    BY <1>2, <1>3
<1>5. \A j \in T : i =< j
    BY <1>3, <1>4
<1> QED BY <1>5 DEF Min

LEMMA DispatchTypes ==
    ASSUME NEW n \in Nat, NEW w \in Work(n), NEW p
    PROVE  Dispatch(w, p) \in Work(n) /\ Dispatch(w, p).throttled = w.throttled
<1>1. ASSUME NEW c
      PROVE  LET v == [w EXCEPT !.queued = @ \ Queued(w, c), !.inflight = Queued(w, c)]
             IN  v \in Work(n) /\ v.throttled = w.throttled
    <2>1. Queued(w, c) \in SUBSET (1..n)
        BY DEF Queued, Work
    <2> QED BY <2>1 DEF Work
<1> QED BY <1>1 DEF Dispatch

LEMMA EventHead ==
    ASSUME NEW n \in Nat, eventq \in Queues(n), Len(eventq) <= Capacity, eventq # <<>>
    PROVE  /\ Head(eventq) \in 0..n /\ Tail(eventq) \in Queues(n)
           /\ Len(Tail(eventq)) <= Capacity
BY IntakeConstants DEF Queues

LEMMA LoopStepTypes ==
    ASSUME Typed, MainStep \/ (\E ok \in BOOLEAN : WakeReturns(ok)) \/ AbortWake \/ Exit
    PROVE  /\ UNCHANGED <<relayVars, clientVars>> /\ cmds' \in Orders
           /\ eventq' \in Queues(LogEnd) /\ Len(eventq') <= Capacity
           /\ main' \in Main /\ work' \in Work(LogEnd) /\ delivered' \in Takes(LogEnd)
           /\ process' \in {"running", "draining", "stopped"}
           /\ budget' \in Scenario /\ budget'.lazy = budget.lazy
<1> DEFINE n == LogEnd
           i == Head(eventq)
<1>1. /\ relay \in Relay /\ n \in Nat /\ n = Len(relay.log) /\ cmds \in Orders
      /\ eventq \in Queues(n) /\ Len(eventq) <= Capacity
      /\ main \in Main /\ work \in Work(n) /\ delivered \in Takes(n)
      /\ process \in {"running", "draining", "stopped"} /\ budget \in Scenario
    BY LogLen DEF Typed, RelayTyped, ClientTyped, LoopTyped, LogEnd
<1>2. /\ UNCHANGED <<relayVars, clientVars>>
      /\ process' \in {"running", "draining", "stopped"}
    BY <1>1 DEF MainStep, TakeSentinel, TakeMessage, SkipNotification, ApplyAdded,
       ApplyRemoved, TurnSucceeds, TurnFails, Maintenance, RetryDeadline, RetryFires,
       WakePanics, TakeWakeResult, JoinWakeTask, Sleep, StopLoop, BackoffExpires, WakeReturns,
       AbortWake, Exit, LoopStep
<1>3. budget' \in Scenario /\ budget'.lazy = budget.lazy
    <2>1. CASE UNCHANGED budget
        BY <1>1, <2>1
    <2>2. CASE Spend("turns") \/ Spend("wakes") \/ Spend("stops")
        BY <1>1, <2>2, SpendTypes
    <2>3. ASSUME NEW ok \in BOOLEAN, WakeReturns(ok)
          PROVE  UNCHANGED budget \/ Spend("wakes")
        BY <2>3 DEF WakeReturns, Spend
    <2> QED BY <2>1, <2>2, <2>3 DEF MainStep, TakeSentinel, TakeMessage, SkipNotification,
           ApplyAdded, ApplyRemoved, TurnSucceeds, TurnFails, Maintenance, RetryDeadline,
           RetryFires, WakePanics, TakeWakeResult, JoinWakeTask, Sleep, StopLoop,
           BackoffExpires, AbortWake, Exit
<1> DEFINE Rest == cmds' = cmds /\ eventq' = eventq /\ main' = main /\ delivered' = delivered
<1> DEFINE Goal == /\ cmds' \in Orders /\ eventq' \in Queues(n) /\ Len(eventq') <= Capacity
                   /\ main' \in Main /\ work' \in Work(n) /\ delivered' \in Takes(n)
<1> SUFFICES Goal
    BY <1>2, <1>3
<1>4. ASSUME Rest, work' \in Work(n) PROVE Goal
    BY <1>1, <1>4
<1>5. CASE \/ RetryDeadline \/ RetryFires \/ WakePanics \/ JoinWakeTask \/ Sleep \/ StopLoop
           \/ (\E ok \in BOOLEAN : WakeReturns(ok)) \/ AbortWake \/ Exit
    <2>1. Rest /\ work' = work
        BY <1>5 DEF RetryDeadline, RetryFires, WakePanics, JoinWakeTask, Sleep, StopLoop,
           WakeReturns, AbortWake, Exit, LoopStep
    <2> QED BY <1>1, <1>4, <2>1
<1>6. CASE \/ TurnSucceeds \/ TurnFails \/ Maintenance \/ TakeWakeResult
           \/ \E c \in Channels : BackoffExpires(c)
    <2>1. Rest
        BY <1>6 DEF TurnSucceeds, TurnFails, Maintenance, TakeWakeResult, BackoffExpires,
                    LoopStep
    <2>2. work' \in Work(n)
        <3>1. \A w \in Work(n) : \A p : Dispatch(w, p) \in Work(n)
            BY <1>1, DispatchTypes
        <3>2. CASE TurnSucceeds
            <4> DEFINE w == [work EXCEPT !.inflight = {}]
            <4>1. w \in Work(n)
                BY <1>1 DEF Work
            <4>2. work' = Dispatch(w, pool)
                BY <3>2 DEF TurnSucceeds
            <4> HIDE DEF w
            <4> QED BY <3>1, <4>1, <4>2
        <3>3. CASE TurnFails
            <4> DEFINE c == ChannelOf(Min(work.inflight))
                       w == [work EXCEPT !.inflight = {}]
                       v == [w EXCEPT !.queued = @ \cup work.inflight,
                                      !.throttled = @ \cup {c}]
            <4>1. w \in Work(n)
                BY <1>1 DEF Work
            <4>2. c \in Channels
                <5>1. Min(work.inflight) \in 1..n
                    <6>1. work.inflight \subseteq 1..n /\ work.inflight # {}
                        BY <1>1, <3>3 DEF TurnFails, Work
                    <6> QED BY <1>1, <6>1, MinMember
                <5>2. relay.log[Min(work.inflight)] \in Event
                    BY <1>1, <5>1, LogEvent
                <5> QED BY <5>2 DEF ChannelOf, Event
            <4> HIDE DEF c
            <4>3. v \in Work(n)
                BY <1>1, <4>2 DEF Work
            <4>4. work' \in {Dispatch(w, pool), Dispatch(v, pool)}
                BY <3>3 DEF TurnFails, c
            <4> HIDE DEF w, v
            <4> QED BY <3>1, <4>1, <4>3, <4>4
        <3>4. CASE Maintenance
            BY <1>1, <3>1, <3>4 DEF Maintenance
        <3>5. CASE TakeWakeResult
            BY <1>1, <3>1, <3>5 DEF TakeWakeResult
        <3>6. ASSUME NEW c \in Channels, BackoffExpires(c) PROVE work' \in Work(n)
            BY <1>1, <3>6 DEF BackoffExpires, Work
        <3> QED BY <1>6, <3>2, <3>3, <3>4, <3>5, <3>6
    <2> QED BY <1>4, <2>1, <2>2
<1>7. CASE TakeSentinel
    <2>1. /\ eventq' = Tail(eventq) /\ eventq # <<>> /\ main' = main /\ work' = work
          /\ delivered' = delivered
          /\ cmds' = Append(cmds, [op |-> "reconnect", channel |-> "membership", since |-> 0])
        BY <1>7 DEF TakeSentinel, loopVars
    <2>2. [op |-> "reconnect", channel |-> "membership", since |-> 0] \in Order
        BY DEF Order, Command, Subs
    <2>3. cmds' \in Orders
        BY <1>1, <2>1, <2>2 DEF Orders
    <2> QED BY <1>1, <2>1, <2>3, EventHead
<1>8. ASSUME NEW K \in SUBSET {"message", "added", "removed"}, Taking(K)
      PROVE  /\ i \in 1..n /\ eventq' \in Queues(n) /\ Len(eventq') <= Capacity
             /\ ChannelOf(i) \in Channels /\ relay.log[i].at \in Nat
    <2>1. i \in 0..n /\ eventq' \in Queues(n) /\ Len(eventq') <= Capacity
        BY <1>1, <1>8, EventHead DEF Taking
    <2>2. i \in 1..n
        BY <1>1, <1>8, <2>1 DEF Taking
    <2>3. relay.log[i] \in Event
        BY <1>1, <2>2, LogEvent
    <2> QED BY <2>1, <2>2, <2>3 DEF Event, ChannelOf
<1>9. CASE TakeMessage
    <2> DEFINE v == [work EXCEPT !.queued = @ \cup {i}]
    <2>1. i \in 1..n /\ eventq' \in Queues(n) /\ Len(eventq') <= Capacity
        BY <1>8, <1>9 DEF TakeMessage
    <2>2. v \in Work(n)
        BY <1>1, <2>1 DEF Work
    <2>3. work' = Dispatch(v, pool) /\ delivered' = Append(delivered, i)
        BY <1>9 DEF TakeMessage
    <2> HIDE DEF v
    <2>4. work' \in Work(n)
        BY <1>1, <2>2, <2>3, DispatchTypes
    <2>5. delivered' \in Takes(n)
        BY <1>1, <2>1, <2>3 DEF Takes
    <2> QED BY <1>1, <1>9, <2>1, <2>4, <2>5 DEF TakeMessage
<1>10. CASE SkipNotification
    <2>1. i \in 1..n /\ eventq' \in Queues(n) /\ Len(eventq') <= Capacity
        BY <1>8, <1>10 DEF SkipNotification
    <2>2. main' \in Main
        <3>1. main.seen \in Dedup /\ i \in Nat
            BY <1>1, <2>1 DEF Main
        <3>2. Remember(main.seen, i) \in Dedup
            BY <3>1, DedupTypes
        <3> DEFINE d == Remember(main.seen, i)
        <3>3. main' \in {main, [main EXCEPT !.seen = d]}
            BY <1>10 DEF SkipNotification
        <3> HIDE DEF d
        <3> QED BY <1>1, <3>2, <3>3 DEF Main, d
    <2> QED BY <1>1, <1>10, <2>1, <2>2 DEF SkipNotification
<1>11. ASSUME NEW K \in SUBSET {"message", "added", "removed"}, Taking(K),
              NEW rm \in SUBSET Channels, NEW su \in SUBSET Channels,
              NEW m, m = [Noted(i) EXCEPT !.removed = rm, !.subscribed = su]
       PROVE  m \in Main
    <2> DEFINE d == Remember(main.seen, i)
               w == Put(main.newest, ChannelOf(i), relay.log[i].at)
    <2>1. i \in 1..n /\ ChannelOf(i) \in Channels /\ relay.log[i].at \in Nat
        BY <1>8, <1>11
    <2>2. main.seen \in Dedup /\ i \in Nat /\ main.newest \in Maps /\ ChannelOf(i) \in Subs
        BY <1>1, <2>1 DEF Main, Subs
    <2>3. d \in Dedup
        BY <2>2, DedupTypes
    <2>4. w \in Maps
        BY <2>1, <2>2, PutMaps
    <2>5. Noted(i) = [main EXCEPT !.seen = d, !.newest = w]
        BY DEF Noted
    <2> HIDE DEF d, w, i
    <2>6. Noted(i) \in Main
        BY ONLY <1>1, <2>3, <2>4, <2>5 DEF Main
    <2> QED BY <1>11, <2>6 DEF Main
<1>12. main.removed \in SUBSET Channels /\ main.subscribed \in SUBSET Channels
       /\ \A j : Noted(j).removed = main.removed /\ Noted(j).subscribed = main.subscribed
    BY <1>1 DEF Main, Noted
<1>13. CASE ApplyAdded
    <2> DEFINE c == ChannelOf(i)
               o == [op |-> "subscribe", channel |-> c, since |-> relay.log[i].at]
    <2>1. Taking({"added"})
        BY <1>13 DEF ApplyAdded, Applies
    <2>2. /\ i \in 1..n /\ eventq' \in Queues(n) /\ Len(eventq') <= Capacity
          /\ c \in Channels /\ relay.log[i].at \in Nat
        BY <1>8, <2>1
    <2>3. /\ main' = [Noted(i) EXCEPT !.removed = main.removed \ {c},
                                      !.subscribed = main.subscribed \cup {c}]
          /\ cmds' \in {cmds, Append(cmds, o)}
        BY <1>12, <1>13 DEF ApplyAdded
    <2>4. o \in Order
        BY <2>2 DEF Order, Command, Subs
    <2> HIDE DEF c, o
    <2>5. main' \in Main
        BY <1>11, <1>12, <2>1, <2>2, <2>3
    <2>6. cmds' \in Orders
        BY <1>1, <2>3, <2>4 DEF Orders
    <2> QED BY <1>1, <1>13, <2>2, <2>5, <2>6 DEF ApplyAdded
<1>14. CASE ApplyRemoved
    <2> DEFINE c == ChannelOf(i)
               o == [op |-> "unsubscribe", channel |-> c, since |-> 0]
    <2>1. Taking({"removed"})
        BY <1>14 DEF ApplyRemoved, Applies
    <2>2. /\ i \in 1..n /\ eventq' \in Queues(n) /\ Len(eventq') <= Capacity
          /\ c \in Channels
        BY <1>8, <2>1
    <2>3. /\ main' = [Noted(i) EXCEPT !.removed = main.removed \cup {c},
                                      !.subscribed = main.subscribed \ {c}]
          /\ cmds' = Append(cmds, o)
          /\ work' = [work EXCEPT !.queued = @ \ Queued(work, c), !.throttled = @ \ {c}]
        BY <1>12, <1>14 DEF ApplyRemoved
    <2>4. o \in Order
        BY <2>2 DEF Order, Command, Subs
    <2> HIDE DEF c, o
    <2>5. main' \in Main
        BY <1>11, <1>12, <2>1, <2>2, <2>3
    <2>6. cmds' \in Orders
        BY <1>1, <2>3, <2>4 DEF Orders
    <2>7. work' \in Work(n)
        BY <1>1, <2>3 DEF Work
    <2> QED BY <1>1, <1>14, <2>2, <2>5, <2>6, <2>7 DEF ApplyRemoved
<1> QED BY <1>5, <1>6, <1>7, <1>9, <1>10, <1>13, <1>14 DEF MainStep

\* What refers to the log survives its growth.
LEMMA LoopMono ==
    ASSUME NEW m \in Nat, NEW n \in Nat, m <= n
    PROVE  /\ \A q \in Queues(m) : q \in Queues(n)
           /\ \A d \in Takes(m) : d \in Takes(n)
           /\ \A w \in Work(m) : w \in Work(n)
<1>1. 0..m \subseteq 0..n /\ 1..m \subseteq 1..n
    OBVIOUS
<1>2. \A q \in Queues(m) : q \in Queues(n)
    BY <1>1, SeqMono DEF Queues
<1>3. \A d \in Takes(m) : d \in Takes(n)
    BY <1>1, SeqMono DEF Takes
<1>4. \A w \in Work(m) : w \in Work(n)
    BY <1>1 DEF Work
<1> QED BY <1>2, <1>3, <1>4

\* A step extends the log, and keeps every part of the state typed.
LEMMA TypedStep ==
    ASSUME Typed, [Next]_vars
    PROVE  Typed' /\ Grown(relay, relay') /\ budget'.lazy = budget.lazy
<1>1. /\ RelayTyped /\ ClientTyped /\ LoopTyped /\ budget \in Scenario
      /\ relay \in Relay /\ LogEnd \in Nat /\ LogEnd = Len(relay.log)
    BY LogLen DEF Typed, RelayTyped, LogEnd
<1>2. ASSUME SocketKept, ClientKept, eventq' \in Queues(LogEnd), Len(eventq') <= Capacity,
             main' \in Main, work' \in Work(LogEnd), delivered' \in Takes(LogEnd),
             process' \in {"running", "draining", "stopped"},
             budget' \in Scenario, budget'.lazy = budget.lazy
      PROVE  Typed' /\ Grown(relay, relay') /\ budget'.lazy = budget.lazy
    <2>1. /\ Grown(relay, relay') /\ relay' \in Relay /\ LogEnd <= LogEnd' /\ LogEnd' \in Nat
          /\ LogEnd' = Len(relay'.log)
        BY <1>1, <1>2, LogLen DEF SocketKept, Grown, LogEnd
    <2>2. RelayTyped'
        BY <1>2, <2>1 DEF RelayTyped, SocketKept
    <2>3. ClientTyped'
        BY <1>2 DEF ClientKept, ClientTyped, BgSound
    <2>4. LoopTyped'
        BY <1>1, <1>2, <2>1, LoopMono DEF LoopTyped
    <2> QED BY <1>2, <2>1, <2>2, <2>3, <2>4 DEF Typed
<1>3. ASSUME UNCHANGED <<relay, wire, reqs>> PROVE SocketKept
    BY <1>1, <1>3, SameRelay DEF SocketKept, RelayTyped
<1>4. ASSUME UNCHANGED <<phase, todo, bg>>, cmds' \in Orders PROVE ClientKept
    BY <1>1, <1>4 DEF ClientKept, ClientTyped
<1>5. CASE UNCHANGED vars
    BY <1>1, <1>2, <1>3, <1>4, <1>5 DEF vars, LoopTyped, ClientTyped
<1>6. CASE RelayStep
    BY <1>1, <1>2, <1>4, <1>6, RelayStepTypes
       DEF SocketKept, clientVars, loopVars, LoopTyped, ClientTyped
<1>7. CASE ClientStep
    <2>1. SocketKept /\ ClientKept /\ QueueKept
        BY <1>7, ClientStepTypes
    <2> QED BY <1>1, <1>2, <1>7, <2>1, OutsideLoop DEF QueueKept, LoopTyped
<1>8. CASE MainStep \/ (\E ok \in BOOLEAN : WakeReturns(ok)) \/ AbortWake \/ Exit
    <2>1. /\ UNCHANGED <<relayVars, clientVars>> /\ cmds' \in Orders
          /\ eventq' \in Queues(LogEnd) /\ Len(eventq') <= Capacity
          /\ main' \in Main /\ work' \in Work(LogEnd) /\ delivered' \in Takes(LogEnd)
          /\ process' \in {"running", "draining", "stopped"}
          /\ budget' \in Scenario /\ budget'.lazy = budget.lazy
        BY <1>8, LoopStepTypes
    <2>2. SocketKept /\ ClientKept
        BY <1>3, <1>4, <2>1 DEF relayVars, clientVars
    <2> QED BY <1>2, <2>1, <2>2
<1> QED BY <1>5, <1>6, <1>7, <1>8 DEF Next

LEMMA EmptyMap == <<>> \in Maps /\ DOMAIN <<>> = {}
<1>1. DOMAIN <<>> = {} /\ <<>> \in [DOMAIN <<>> -> Nat]
    OBVIOUS
<1> QED BY <1>1, MapsAre

LEMMA FreshSound ==
    ASSUME NEW J \in SUBSET Channels
    PROVE  BgSound(Fresh(J)) /\ Fresh(J).active = J
<1> DEFINE b == Fresh(J)
           l == [s \in {"membership"} |-> 0]
           f == [c \in J |-> 0]
           e == <<>>
<1>1. l \in Maps /\ f \in Maps /\ DOMAIN f = J /\ "membership" \in DOMAIN l
    BY MapsAre DEF Subs
<1>2. e \in Maps /\ Unseen \in Dedup
    BY EmptyMap DEF Unseen, Dedup
<1>3. b = [active |-> J, lastSeen |-> l, dropped |-> e, floor |-> f, seen |-> Unseen,
           parked |-> {}, gated |-> FALSE, proactive |-> FALSE]
    BY DEF Fresh
<1> HIDE DEF b, l, f, e
<1>4. b \in Bg /\ b.active = J /\ b.floor = f /\ b.lastSeen = l
    BY ONLY <1>1, <1>2, <1>3, J \in SUBSET Channels DEF Bg
<1> QED BY <1>1, <1>4 DEF BgSound, b

LEMMA TypedInit == Init => Typed
<1> SUFFICES ASSUME Init PROVE Typed
    OBVIOUS
<1> DEFINE J == budget.joined
           e == <<>>
<1>1. budget \in Scenario /\ J \in SUBSET Channels /\ J \cup {"membership"} \in SUBSET Subs
    BY IntakeConstants DEF Init, Scenario, Subs
<1>2. relay = [clock |-> 0, log |-> e, members |-> J, archived |-> {}, cut |-> FALSE,
               live |-> J \cup {"membership"}]
    BY DEF Init
<1>3. /\ e \in Logs /\ e \in Wires(0) /\ e \in Requests /\ e \in Todos(J) /\ e \in Orders
      /\ e \in Queues(0) /\ Len(e) = 0 /\ e \in Takes(0) /\ e \in Maps
    <2>1. \A S : <<>> \in Seq(S)
        OBVIOUS
    <2> QED BY <2>1, EmptyMap DEF Logs, Wires, Requests, Todos, Orders, Queues, Takes
<1>4. wire = e /\ reqs = e /\ todo = e /\ cmds = e /\ eventq = e /\ delivered = e
    BY DEF Init
<1>5. main = [subscribed |-> J, newest |-> e, seen |-> Unseen, removed |-> {}]
    BY DEF Init
<1> HIDE DEF e, J
<1>6. relay \in Relay /\ relay.log = e
    BY ONLY <1>1, <1>2, <1>3 DEF Relay
<1>7. LogEnd = 0
    BY <1>3, <1>6 DEF LogEnd
<1>8. RelayTyped
    BY <1>3, <1>4, <1>6, <1>7 DEF RelayTyped
<1>9. ClientTyped
    <2>1. BgSound(bg) /\ bg.active = J
        BY <1>1, FreshSound DEF Init, J
    <2>2. phase = "up" /\ todo = <<>>
        BY DEF Init
    <2> QED BY <1>3, <1>4, <2>1, <2>2 DEF ClientTyped
<1>10. main \in Main
    <2>1. Unseen \in Dedup
        BY DEF Unseen, Dedup
    <2> QED BY ONLY <1>1, <1>3, <1>5, <2>1 DEF Main
<1>11. work \in Work(0)
    BY DEF Init, Work
<1>12. LoopTyped
    BY <1>3, <1>4, <1>7, <1>10, <1>11, IntakeConstants DEF Init, LoopTyped
<1> QED BY <1>1, <1>8, <1>9, <1>12 DEF Typed

LEMMA TypedAlways == Spec => []Typed
<1>1. Typed /\ [Next]_vars => Typed'
    BY TypedStep
<1> QED BY <1>1, TypedInit, PTL DEF Spec

\* Intake.tla, TypeOK: every queue, map and set of the relay, the background task
\* and the main loop keeps its type; what is in flight names a stored event; every
\* active channel has a subscribe_since, and the event channel stays within
\* event_channel_capacity() for every number of events.
THEOREM IntakeTypes == Spec => []TypeOK
<1>1. Typed /\ PoolSound(pool) => TypeOK
    <2> SUFFICES ASSUME Typed, PoolSound(pool) PROVE TypeOK
        OBVIOUS
    <2>1. RelayTyped /\ ClientTyped /\ LoopTyped /\ budget \in Scenario /\ pool \in Pool
        BY DEF Typed, PoolSound
    <2>2. /\ relay.clock \in Nat /\ relay.log \in Seq(Event) /\ relay.members \subseteq Channels
          /\ relay.archived \subseteq Channels /\ relay.live \subseteq Subs
          /\ Ids = 1..LogEnd /\ LogEnd \in Nat
        <3>1. relay \in Relay
            BY <2>1 DEF RelayTyped
        <3> QED BY <3>1, LogLen DEF Relay, Logs, Ids, LogEnd
    <2>3. wire \in Seq(Frame)
        <3>1. Frames(LogEnd) \subseteq Frame
            BY DEF Frames
        <3> QED BY <2>1, <3>1, SeqMono DEF RelayTyped, Wires
    <2>4. /\ bg.active \subseteq Channels /\ bg.active \subseteq DOMAIN bg.floor
          /\ bg.parked \subseteq Subs
          /\ \A s \in DOMAIN bg.lastSeen \cup DOMAIN bg.dropped : s \in Subs
        <3>1. /\ bg \in Bg /\ bg.active \subseteq DOMAIN bg.floor
              /\ bg.lastSeen \in Maps /\ bg.dropped \in Maps
            BY <2>1 DEF ClientTyped, BgSound, Bg
        <3>2. DOMAIN bg.lastSeen \subseteq Subs /\ DOMAIN bg.dropped \subseteq Subs
            BY <3>1, MapsAre
        <3> QED BY <3>1, <3>2 DEF Bg
    <2>5. todo \in Seq(Subs)
        <3>1. bg.active \cup {"membership"} \subseteq Subs
            BY <2>4 DEF Subs
        <3> QED BY <2>1, <3>1, SeqMono DEF ClientTyped, Todos
    <2>6. cmds \in Seq(Command)
        <3>1. Order \subseteq Command
            BY DEF Order
        <3> QED BY <2>1, <3>1, SeqMono DEF ClientTyped, Orders
    <2>7. eventq \in Seq(Ids \cup {0}) /\ Len(eventq) <= Capacity
        <3>1. Ids \cup {0} = 0..LogEnd
            BY <2>2
        <3> QED BY <2>1, <3>1 DEF LoopTyped, Queues
    <2>8. /\ main.subscribed \subseteq Channels /\ main.removed \subseteq Channels
          /\ work.queued \cup work.inflight \subseteq Ids /\ work.throttled \subseteq Channels
        BY <2>1, <2>2 DEF LoopTyped, Main, Work
    <2> QED BY <2>1, <2>2, <2>3, <2>4, <2>5, <2>6, <2>7, <2>8
            DEF TypeOK, ClientTyped, LoopTyped
<1> QED BY <1>1, TypedAlways, PoolSoundAlways, PTL

-----------------------------------------------------------------------------
(* The pool never sleeps on work                                            *)

\* A backoff holds a batch back: its channel has something queued.
Backed(log, w) == \A c \in w.throttled : \E i \in w.queued : log[i].channel = c

\* Only a pool that is ready has a batch in flight.
Awake ==
    /\ Backed(relay.log, work)
    /\ NeverSleepsOnWork
    /\ (process # "stopped" /\ ~pool.ready) => work.inflight = {}

LEMMA TopWakes ==
    ASSUME NEW p, PoolSound(p), NEW w
    PROVE  /\ p.ready => Top(p, w) = p
           /\ ~p.ready => ~Top(p, w).ready /\ Top(p, w).life \in {p.life, "waking"}
           /\ (~p.ready /\ p.life = "listening" /\ budget.lazy /\ FlushableWork(w) # {})
                 => Top(p, w).life = "waking"
<1>1. CASE budget.lazy /\ ~p.ready /\ FlushableWork(w) # {} /\ WakeDue(p)
    <2>1. Top(p, w) = StartWake(p)
        BY <1>1 DEF Top
    <2>2. StartWake(p).life = "waking" /\ ~StartWake(p).ready
        BY <1>1, StartWakeSound
    <2> QED BY <1>1, <2>1, <2>2
<1>2. CASE ~(budget.lazy /\ ~p.ready /\ FlushableWork(w) # {} /\ WakeDue(p))
    <2>1. Top(p, w) = p
        BY <1>2 DEF Top
    <2>2. p.life = "listening" => WakeDue(p)
        BY DEF WakeDue
    <2> QED BY <1>2, <2>1, <2>2
<1> QED BY <1>1, <1>2

LEMMA DispatchBacked ==
    ASSUME NEW n \in Nat, NEW w \in Work(n), Backed(relay.log, w), NEW p
    PROVE  Backed(relay.log, Dispatch(w, p)) /\ (~p.ready => Dispatch(w, p) = w)
<1>1. CASE ~(p.ready /\ w.inflight = {} /\ FlushableWork(w) # {})
    BY <1>1 DEF Dispatch
<1>2. CASE p.ready /\ w.inflight = {} /\ FlushableWork(w) # {}
    <2> DEFINE c == ChannelOf(Min(FlushableWork(w)))
               v == [w EXCEPT !.queued = @ \ Queued(w, c), !.inflight = Queued(w, c)]
    <2>1. Dispatch(w, p) = v
        BY <1>2 DEF Dispatch
    <2>2. c \notin w.throttled
        <3>1. FlushableWork(w) \subseteq Nat
            BY DEF FlushableWork, Work
        <3>2. Min(FlushableWork(w)) \in FlushableWork(w)
            BY <1>2, <3>1, MinMember
        <3> QED BY <3>2 DEF FlushableWork
    <2> HIDE DEF c
    <2>3. v.throttled = w.throttled /\ v.queued = w.queued \ Queued(w, c)
        BY DEF Work
    <2> HIDE DEF v
    <2>4. Backed(relay.log, v)
        <3> SUFFICES ASSUME NEW d \in v.throttled
                     PROVE  \E i \in v.queued : relay.log[i].channel = d
            BY DEF Backed
        <3>1. PICK i \in w.queued : relay.log[i].channel = d
            BY <2>3 DEF Backed
        <3>2. i \notin Queued(w, c)
            BY <2>2, <2>3, <3>1 DEF Queued, ChannelOf
        <3> QED BY <2>3, <3>1, <3>2
    <2> QED BY <1>2, <2>1, <2>4
<1> QED BY <1>1, <1>2

LEMMA AwakeStep ==
    ASSUME Typed, PoolSound(pool), Awake, [Next]_vars
    PROVE  Awake'
<1> DEFINE n == LogEnd
           log == relay.log
           i == Head(eventq)
           A == Backed(relay'.log, work')
           B == (process' = "running" /\ budget.lazy /\ ~pool'.ready /\ pool'.life = "listening")
                   => work'.queued = {} /\ work'.inflight = {}
           C == (process' # "stopped" /\ ~pool'.ready) => work'.inflight = {}
<1>1. /\ relay \in Relay /\ n \in Nat /\ n = Len(log) /\ work \in Work(n)
      /\ eventq \in Queues(n) /\ Len(eventq) <= Capacity
    BY LogLen DEF Typed, RelayTyped, LoopTyped, LogEnd
<1>2. Grown(relay, relay') /\ budget'.lazy = budget.lazy
    BY TypedStep
<1>3. /\ Backed(log, work)
      /\ (process = "running" /\ budget.lazy /\ ~pool.ready /\ pool.life = "listening")
            => work.queued = {} /\ work.inflight = {}
      /\ (process # "stopped" /\ ~pool.ready) => work.inflight = {}
    BY DEF Awake, NeverSleepsOnWork
<1>4. SUFFICES A /\ B /\ C
    BY <1>2 DEF Awake, NeverSleepsOnWork, Backed
<1>5. ASSUME work' = work PROVE A
    <2> SUFFICES ASSUME NEW c \in work.throttled
                 PROVE  \E j \in work.queued : relay'.log[j].channel = c
        BY <1>5 DEF Backed
    <2>1. PICK j \in work.queued : log[j].channel = c
        BY <1>3 DEF Backed
    <2>2. j \in 1..Len(log)
        BY <1>1 DEF Work
    <2> QED BY <1>2, <2>1, <2>2 DEF Grown
<1>6. ASSUME UNCHANGED <<work, pool>>, process' = process \/ process' = "draining",
             process # "stopped" \/ process' = process
      PROVE  A /\ B /\ C
    BY <1>3, <1>5, <1>6
<1>7. CASE UNCHANGED vars \/ RelayStep \/ ClientStep
    <2>1. UNCHANGED <<work, pool, process>>
        BY <1>7, OutsideLoop DEF vars
    <2> QED BY <1>6, <2>1
<1>8. CASE process = "running" /\ (TakeSentinel \/ SkipNotification \/ ApplyAdded \/ StopLoop)
    <2>1. UNCHANGED <<work, pool>> /\ process' \in {process, "draining"}
        BY <1>8 DEF TakeSentinel, SkipNotification, ApplyAdded, StopLoop, loopVars
    <2> QED BY <1>6, <1>8, <2>1
<1>9. CASE process = "running" /\ TakeMessage
    <2> DEFINE v == [work EXCEPT !.queued = @ \cup {i}]
               w == Dispatch(v, pool)
    <2>1. work' = w /\ pool' = Top(pool, w) /\ process' = process /\ relay' = relay
        BY <1>9 DEF TakeMessage, relayVars
    <2>2. i \in 1..n
        BY <1>1, <1>9, EventHead DEF TakeMessage, Taking
    <2>3. /\ v \in Work(n) /\ v.throttled = work.throttled /\ v.queued = work.queued \cup {i}
          /\ v.inflight = work.inflight
        BY <1>1, <2>2 DEF Work
    <2> HIDE DEF v
    <2>4. Backed(log, v)
        BY <1>3, <2>3 DEF Backed
    <2>5. Backed(log, w) /\ (~pool.ready => w = v)
        BY <1>1, <2>3, <2>4, DispatchBacked
    <2> HIDE DEF w
    <2>6. CASE pool.ready
        BY <2>1, <2>5, <2>6, TopWakes
    <2>7. CASE ~pool.ready
        <3>1. ~pool'.ready /\ pool'.life \in {pool.life, "waking"}
            BY <2>1, <2>7, TopWakes
        <3>2. CASE budget.lazy /\ pool.life = "listening"
            <4>1. work.queued = {} /\ work.throttled = {}
                BY <1>3, <1>9, <2>7, <3>2 DEF Backed
            <4>2. i \in FlushableWork(w)
                BY <2>3, <2>5, <2>7, <4>1 DEF FlushableWork
            <4>3. pool'.life = "waking"
                BY <2>1, <2>7, <3>2, <4>2, TopWakes
            <4> QED BY <1>3, <1>9, <2>1, <2>3, <2>5, <2>7, <4>3
        <3>3. CASE ~(budget.lazy /\ pool.life = "listening")
            BY <1>3, <1>9, <2>1, <2>3, <2>5, <2>7, <3>1, <3>3
        <3> QED BY <3>2, <3>3
    <2> QED BY <2>6, <2>7
<1>10. CASE process = "running" /\ ApplyRemoved
    <2> DEFINE c == ChannelOf(i)
    <2>1. /\ work' = [work EXCEPT !.queued = @ \ Queued(work, c), !.throttled = @ \ {c}]
          /\ pool' = pool /\ process' = process /\ relay' = relay
        BY <1>10 DEF ApplyRemoved, relayVars
    <2> HIDE DEF c
    <2>2. /\ work'.queued = work.queued \ Queued(work, c)
          /\ work'.throttled = work.throttled \ {c} /\ work'.inflight = work.inflight
        BY <1>1, <2>1 DEF Work
    <2>3. A
        <3> SUFFICES ASSUME NEW d \in work.throttled, d # c
                     PROVE  \E j \in work'.queued : log[j].channel = d
            BY <2>1, <2>2 DEF Backed
        <3>1. PICK j \in work.queued : log[j].channel = d
            BY <1>3 DEF Backed
        <3> QED BY <2>2, <3>1 DEF Queued, ChannelOf
    <2> QED BY <1>3, <2>1, <2>2, <2>3
<1>11. CASE process = "running" /\ (TurnSucceeds \/ TurnFails)
    <2> DEFINE w == [work EXCEPT !.inflight = {}]
               c == ChannelOf(Min(work.inflight))
               v == [w EXCEPT !.queued = @ \cup work.inflight, !.throttled = @ \cup {c}]
    <2>1. /\ work.inflight # {} /\ pool' = pool /\ relay' = relay
          /\ work' \in {Dispatch(w, pool), Dispatch(v, pool)}
        BY <1>11 DEF TurnSucceeds, TurnFails, LoopStep, relayVars
    <2>2. pool.ready
        BY <1>3, <1>11, <2>1
    <2>3. Min(work.inflight) \in work.inflight /\ Min(work.inflight) \in 1..n
        <3>1. work.inflight \subseteq Nat /\ work.inflight \subseteq 1..n
            BY <1>1 DEF Work
        <3> QED BY <2>1, <3>1, MinMember
    <2>4. c \in Channels
        BY <1>1, <2>3, LogEvent DEF ChannelOf, Event
    <2>5. /\ w \in Work(n) /\ w.queued = work.queued /\ w.throttled = work.throttled
        BY <1>1 DEF Work
    <2> HIDE DEF w
    <2>6. /\ v \in Work(n) /\ v.queued = work.queued \cup work.inflight
          /\ v.throttled = work.throttled \cup {c}
        <3> HIDE DEF c
        <3> QED BY <1>1, <2>4, <2>5 DEF Work
    <2> HIDE DEF v
    <2>7. Backed(log, w) /\ Backed(log, v)
        <3>1. Backed(log, w)
            BY <1>3, <2>5 DEF Backed
        <3>2. ASSUME NEW d \in v.throttled PROVE \E j \in v.queued : log[j].channel = d
            <4>1. CASE d = c
                BY <2>3, <2>6, <4>1 DEF ChannelOf
            <4>2. CASE d # c
                BY <1>3, <2>6, <4>2 DEF Backed
            <4> QED BY <4>1, <4>2
        <3> QED BY <3>1, <3>2 DEF Backed
    <2>8. A
        BY <1>1, <2>1, <2>5, <2>6, <2>7, DispatchBacked
    <2> QED BY <2>1, <2>2, <2>8
<1>12. ASSUME NEW c \in Channels, process = "running" /\ BackoffExpires(c)
       PROVE  A /\ B /\ C
    <2>1. /\ work' = [work EXCEPT !.throttled = @ \ {c}] /\ pool' = pool /\ relay' = relay
          /\ process' = process
        BY <1>12 DEF BackoffExpires, LoopStep, relayVars
    <2>2. /\ work'.queued = work.queued /\ work'.throttled = work.throttled \ {c}
          /\ work'.inflight = work.inflight
        BY <1>1, <2>1 DEF Work
    <2> QED BY <1>3, <2>1, <2>2 DEF Backed
<1>13. CASE process = "running" /\ Maintenance
    <2>1. work' = Dispatch(work, pool) /\ pool' = pool /\ relay' = relay /\ pool.ready
        BY <1>13 DEF Maintenance, LoopStep, relayVars
    <2> QED BY <1>1, <1>3, <2>1, DispatchBacked
<1>14. ASSUME work' = work, process' = process, pool'.ready = pool.ready,
              pool'.life \in {pool.life, "waking", "failed"}
       PROVE  A /\ B /\ C
    BY <1>3, <1>5, <1>14
<1>15. CASE process = "running" /\ (RetryDeadline \/ RetryFires \/ WakePanics)
    <2>1. work' = work /\ process' = process
        BY <1>15 DEF RetryDeadline, RetryFires, WakePanics
    <2>2. pool'.ready = pool.ready /\ pool'.life \in {pool.life, "waking"}
        <3>1. CASE RetryDeadline
            BY <3>1 DEF RetryDeadline, PoolSound, Pool
        <3>2. CASE RetryFires
            <4>1. pool' = Top(pool, work) /\ pool' \in Pool /\ pool \in Pool
                BY <3>2, TopSound DEF RetryFires, PoolSound
            <4>2. pool'.ready \in BOOLEAN /\ pool.ready \in BOOLEAN
                BY <4>1 DEF Pool
            <4> QED BY <4>1, <4>2, TopWakes
        <3>3. CASE WakePanics
            BY <3>3 DEF WakePanics, PoolSound, Pool
        <3> QED BY <1>15, <3>1, <3>2, <3>3
    <2> QED BY <1>14, <2>1, <2>2
<1>16. ASSUME NEW ok \in BOOLEAN, WakeReturns(ok) \/ AbortWake PROVE A /\ B /\ C
    <2>1. work' = work /\ process' = process
        BY <1>16 DEF WakeReturns, AbortWake
    <2>2. pool'.ready = pool.ready /\ pool'.life = pool.life
        BY <1>16 DEF WakeReturns, WakeReturned, AbortWake, PoolSound, Pool
    <2> QED BY <1>14, <2>1, <2>2
<1>17. CASE process = "running" /\ TakeWakeResult
    <2> DEFINE r == Head(pool.results)
               q == [pool EXCEPT !.results = Tail(pool.results)]
               p == CompleteWake(q, r)
               w == Dispatch(work, p)
    <2>1. IsCurrent(pool, r) /\ PoolSound(p) /\ (p.ready \/ p.life = "failed")
        BY <1>17, CompleteWakeSound DEF TakeWakeResult
    <2>2. pool' = Top(p, w) /\ work' = w /\ process' = process /\ ~pool.ready /\ relay' = relay
        BY <1>17, <2>1 DEF TakeWakeResult, LoopStep, relayVars
    <2> HIDE DEF p
    <2>3. Backed(log, w) /\ (~p.ready => w = work)
        BY <1>1, <1>3, DispatchBacked
    <2> HIDE DEF w
    <2>4. CASE p.ready
        BY <2>1, <2>2, <2>3, <2>4, TopWakes
    <2>5. CASE ~p.ready
        <3>1. ~pool'.ready /\ pool'.life \in {"failed", "waking"}
            BY <2>1, <2>2, <2>5, TopWakes
        <3> QED BY <1>3, <1>17, <2>2, <2>3, <2>5, <3>1
    <2> QED BY <2>4, <2>5
<1>18. CASE process = "running" /\ JoinWakeTask
    <2> DEFINE m == [pool EXCEPT !.task = "none"]
               f == [m EXCEPT !.life = "failed", !.due = FALSE]
               p == IF pool.task = "panicked" /\ pool.life = "waking" THEN f ELSE m
    <2>1. PoolSound(m) /\ (pool.task = "panicked" => PoolSound(f))
        BY <1>18, JoinSound DEF JoinWakeTask
    <2>2. PoolSound(p) /\ p.ready = pool.ready /\ p.life \in {pool.life, "failed"}
        BY <2>1 DEF PoolSound, Pool
    <2>3. pool' = Top(p, work) /\ work' = work /\ process' = process
        BY <1>18 DEF JoinWakeTask
    <2> HIDE DEF p
    <2>4. pool'.ready = pool.ready /\ pool'.life \in {pool.life, "waking", "failed"}
        <3>1. pool.ready \in BOOLEAN /\ pool' \in Pool
            BY <2>2, <2>3, TopSound DEF PoolSound, Pool
        <3>2. pool'.ready \in BOOLEAN
            BY <3>1 DEF Pool
        <3> QED BY <2>2, <2>3, <3>1, <3>2, TopWakes
    <2> QED BY <1>14, <2>3, <2>4
<1>19. CASE process = "running" /\ Sleep
    <2>1. work' = work /\ work.inflight = {} /\ work.queued = {}
        BY <1>19 DEF Sleep, UndispatchedWork
    <2> QED BY <1>5, <2>1
<1>20. CASE Exit
    <2>1. work' = work /\ process' = "stopped"
        BY <1>20 DEF Exit
    <2> QED BY <1>5, <2>1
<1>21. CASE AbortWake
    BY <1>16, <1>21
<1> QED BY <1>7, <1>8, <1>9, <1>10, <1>11, <1>12, <1>13, <1>15, <1>16, <1>17, <1>18, <1>19,
           <1>20, <1>21 DEF Next, MainStep

LEMMA AwakeInit == Init => Awake
<1> SUFFICES ASSUME Init PROVE Awake
    OBVIOUS
<1>1. work.queued = {} /\ work.throttled = {} /\ work.inflight = {}
    BY DEF Init
<1> QED BY <1>1 DEF Awake, Backed, NeverSleepsOnWork

\* lib.rs, the idle reaper and start_wake_if_due: a lazy pool that is neither ready
\* nor waking nor waiting for a retry has nothing queued or in flight, a batch in its
\* backoff included, for every order of messages, turns, backoffs, wakes and sleeps.
THEOREM SleepsOnlyWhenIdle == Spec => []NeverSleepsOnWork
<1>1. Init => Typed /\ PoolSound(pool) /\ Awake
    BY TypedInit, PoolSoundInit, AwakeInit
<1>2. Typed /\ PoolSound(pool) /\ Awake /\ [Next]_vars => (Typed /\ PoolSound(pool) /\ Awake)'
    <2>1. Typed /\ [Next]_vars => Typed'
        BY TypedStep
    <2>2. PoolSound(pool) /\ [Next]_vars => PoolSound(pool)'
        BY PoolSoundStep
    <2>3. Typed /\ PoolSound(pool) /\ Awake /\ [Next]_vars => Awake'
        BY AwakeStep
    <2> QED BY <2>1, <2>2, <2>3
<1>3. Awake => NeverSleepsOnWork
    BY DEF Awake
<1> QED BY <1>1, <1>2, <1>3, PTL DEF Spec

-----------------------------------------------------------------------------
(* The dedup window                                                         *)

\* The relay has stored no more events than two generations can tell apart.
WithinWindow == LogEnd <= 2 * SeenLimit - 2

\* The generations of a client of a relay with n events: a rotation keeps the ids
\* of a full one, but for an id the full queue refused.
Generations(n, d) ==
    /\ d.current \subseteq 1..n /\ d.previous \subseteq 1..n
    /\ d.current \cap d.previous = {}
    /\ Cardinality(d.current) < SeenLimit
    /\ d.previous = {} \/ Cardinality(d.previous) >= SeenLimit - 1

\* While the window holds, no rotation throws an id away.
LEMMA NothingForgotten ==
    ASSUME NEW n \in Nat, n <= 2 * SeenLimit - 2, NEW d \in Dedup, Generations(n, d),
           NEW i \in 1..n, ~Knows(d, i)
    PROVE  /\ Generations(n, Remember(d, i))
           /\ \A k : Knows(Remember(d, i), k) <=> Knows(d, k) \/ k = i
           /\ Generations(n, Forget(Remember(d, i), i))
           /\ \A k : Knows(Forget(Remember(d, i), i), k) <=> Knows(d, k)
<1> DEFINE c == d.current \cup {i}
           p == d.previous
           r == Remember(d, i)
           f == Forget(r, i)
<1>1. /\ c \subseteq 1..n /\ p \subseteq 1..n /\ c \cap p = {} /\ i \notin d.current
      /\ i \notin p /\ d.current \subseteq 1..n
    BY DEF Generations, Knows
<1>2. /\ IsFiniteSet(1..n) /\ Cardinality(1..n) = n
    BY FS_Interval
<1>3. /\ IsFiniteSet(c) /\ IsFiniteSet(p) /\ IsFiniteSet(d.current)
      /\ Cardinality(c) \in Nat /\ Cardinality(p) \in Nat /\ Cardinality(d.current) \in Nat
    <2>1. IsFiniteSet(c) /\ IsFiniteSet(p) /\ IsFiniteSet(d.current)
        BY <1>1, <1>2, FS_Subset
    <2> QED BY <2>1, FS_CardinalityType
<1>4. Cardinality(c) = Cardinality(d.current) + 1
    BY <1>1, <1>3, FS_AddElement
<1>5. SeenLimit \in Nat /\ Cardinality(d.current) < SeenLimit
      /\ (p = {} \/ Cardinality(p) >= SeenLimit - 1)
    BY RelayClientConstants DEF Generations
<1>6. Cardinality(c) + Cardinality(p) <= n
    <2>1. Cardinality(c \cap p) = 0
        BY <1>1, FS_EmptySet
    <2>2. Cardinality(c \cup p) = Cardinality(c) + Cardinality(p)
        <3> HIDE DEF c, p
        <3>1. Cardinality(c \cup p) = Cardinality(c) + Cardinality(p) - Cardinality(c \cap p)
            BY <1>3, FS_Union
        <3> QED BY <1>3, <2>1, <3>1
    <2>3. Cardinality(c \cup p) <= Cardinality(1..n)
        <3>1. c \cup p \in SUBSET (1..n)
            BY <1>1
        <3> QED BY <1>2, <3>1, FS_Subset
    <2> QED BY <1>2, <2>2, <2>3
<1>7. CASE Cardinality(c) >= SeenLimit
    <2>1. p = {}
        BY <1>3, <1>5, <1>6, <1>7
    <2>2. r.current = {} /\ r.previous = c
        BY <1>7 DEF Remember
    <2>3. f.current = {} /\ f.previous = d.current
        BY <1>1, <2>2 DEF Forget
    <2> HIDE DEF c, r, f, p
    <2>4. Cardinality({}) = 0
        BY FS_EmptySet
    <2>5. Generations(n, r)
        BY <1>1, <1>3, <1>5, <1>7, <2>2, <2>4, RelayClientConstants DEF Generations
    <2>6. Generations(n, f)
        BY <1>1, <1>3, <1>4, <1>5, <1>7, <2>3, <2>4, RelayClientConstants DEF Generations
    <2>7. \A k : Knows(r, k) <=> Knows(d, k) \/ k = i
        BY <2>1, <2>2 DEF Knows, c, p
    <2>8. \A k : Knows(f, k) <=> Knows(d, k)
        BY <2>1, <2>3 DEF Knows, p
    <2> QED BY <2>5, <2>6, <2>7, <2>8 DEF r, f
<1>8. CASE ~(Cardinality(c) >= SeenLimit)
    <2>1. r.current = c /\ r.previous = p
        BY <1>8 DEF Remember, Dedup
    <2>2. f.current = d.current /\ f.previous = p
        BY <1>1, <2>1 DEF Forget
    <2> HIDE DEF r, f, p
    <2>3. Generations(n, r)
        <3> HIDE DEF c
        <3> QED BY <1>1, <1>3, <1>5, <1>8, <2>1 DEF Generations
    <2>4. Generations(n, f)
        BY <2>2 DEF Generations, p
    <2>5. \A k : Knows(r, k) <=> Knows(d, k) \/ k = i
        BY <2>1 DEF Knows, p
    <2>6. \A k : Knows(f, k) <=> Knows(d, k)
        BY <2>2 DEF Knows, p
    <2> QED BY <2>3, <2>4, <2>5, <2>6 DEF r, f
<1> QED BY <1>7, <1>8

\* What the main loop has taken or will take is in seen_ids, and is there once.
Once ==
    /\ Generations(LogEnd, bg.seen)
    /\ \A j \in DOMAIN delivered : Knows(bg.seen, delivered[j])
    /\ \A j \in DOMAIN eventq : eventq[j] # 0 => Knows(bg.seen, eventq[j])
    /\ DeliveredOnce

\* Only an event the client receives changes seen_ids.
LEMMA SeenKept ==
    ASSUME Typed, ClientStep, ~ReceiveEvent
    PROVE  bg'.seen = bg.seen /\ (eventq' = eventq \/ eventq' = Append(eventq, 0))
<1>1. BgSound(bg) /\ bg \in Bg
    BY DEF Typed, ClientTyped, BgSound
<1>2. eventq' = eventq \/ eventq' = Append(eventq, 0)
    BY DEF ClientStep, ReceiveClosed, ProactiveResubscribe, Resubscribe, Resubscribed,
           DrainCommand, RunCommand, LoseSocket, ReconnectCommand, DownCommand, Connect,
           GateExpires, DrainParked
<1> SUFFICES bg'.seen = bg.seen
    BY <1>2
<1>3. \A b \in Bg : \A s : /\ Replaying(b, s).seen = b.seen /\ Cleared(b, s).seen = b.seen
                           /\ Limited(b, s).seen = b.seen /\ Unparked(b, s).seen = b.seen
                           /\ \A t : Intended(b, s, t).seen = b.seen
    BY DEF Replaying, Cleared, Limited, Unparked, Intended, Bg
<1>4. \A s : Replaying(bg, s) \in Bg
    BY <1>1, ReplayingSound DEF BgSound
<1>5. CASE ReceiveClosed
    <2>1. wire # <<>> /\ Head(wire).closed \in {"denied", "limited", "error"}
        BY <1>5, WireHead DEF ReceiveClosed, Typed, Answers
    <2> QED BY <1>1, <1>3, <1>5, <2>1 DEF ReceiveClosed
<1>6. CASE ProactiveResubscribe \/ Connect \/ GateExpires
    BY <1>1, <1>6 DEF ProactiveResubscribe, Connect, GateExpires, Bg
<1>7. CASE Resubscribe
    <2> DEFINE s == Head(todo)
    <2>1. \/ bg' = [bg EXCEPT !.parked = @ \cup {s}]
          \/ bg' \in {Unparked(Replaying(bg, s), s), Replaying(bg, s)}
        BY <1>7 DEF Resubscribe
    <2> HIDE DEF s
    <2>2. CASE bg' = [bg EXCEPT !.parked = @ \cup {s}]
        BY <1>1, <2>2 DEF Bg
    <2> QED BY <1>1, <1>3, <1>4, <2>1, <2>2
<1>8. ASSUME NEW c \in Order, Execute(c) PROVE bg'.seen = bg.seen
    <2> DEFINE b == Intended(bg, c.channel, c.since)
    <2>1. c.op \in {"subscribe", "unsubscribe"} /\ c.channel \in Channels /\ c.since \in Nat
        BY <1>8 DEF Execute, Order, Command
    <2>2. b \in Bg /\ b.seen = bg.seen
        <3>1. BgSound(b)
            BY <1>1, <2>1, IntendedSound
        <3> QED BY <1>1, <1>3, <3>1 DEF BgSound
    <2>3. \/ bg' = [b EXCEPT !.parked = @ \cup {c.channel}]
          \/ bg' = Unparked(b, c.channel) \/ bg' = Cleared(bg, c.channel)
        BY <1>8 DEF Execute
    <2> HIDE DEF b
    <2>4. CASE bg' = [b EXCEPT !.parked = @ \cup {c.channel}]
        BY <2>2, <2>4 DEF Bg
    <2> QED BY <1>1, <1>3, <2>2, <2>3, <2>4
<1>9. CASE DrainCommand \/ RunCommand
    <2>1. bg' = bg \/ (cmds # <<>> /\ Execute(Head(cmds)))
        BY <1>9 DEF DrainCommand, RunCommand
    <2>2. cmds # <<>> => Head(cmds) \in Order
        BY OrderHead DEF Typed, ClientTyped
    <2> QED BY <1>8, <2>1, <2>2
<1>10. CASE DownCommand
    <2>1. cmds # <<>> /\ Head(cmds).op \in {"subscribe", "unsubscribe", "reconnect"}
        BY <1>10, OrderHead DEF DownCommand, Typed, ClientTyped
    <2>2. \/ bg' = bg \/ bg' = Cleared(bg, Head(cmds).channel)
          \/ bg' = Intended(bg, Head(cmds).channel, Head(cmds).since)
        BY <1>10, <2>1 DEF DownCommand
    <2> QED BY <1>1, <1>3, <2>2
<1>11. ASSUME NEW s \in Subs, DrainParked(s) PROVE bg'.seen = bg.seen
    <2>1. bg' \in {Unparked(bg, s), Unparked(Replaying(bg, s), s)}
        BY <1>11 DEF DrainParked
    <2> QED BY <1>1, <1>3, <1>4, <2>1
<1>12. CASE Resubscribed \/ LoseSocket \/ ReconnectCommand
    BY <1>12 DEF Resubscribed, LoseSocket, ReconnectCommand
<1> QED BY <1>2, <1>5, <1>6, <1>7, <1>9, <1>10, <1>11, <1>12 DEF ClientStep

\* DeliveredOnce and what is known, along a step that adds x to the queue.
LEMMA EnqueueOnce ==
    ASSUME Typed, Once, NEW x, NEW d, x = 0 \/ ~Knows(bg.seen, x),
           \A k : Knows(bg.seen, k) => Knows(d, k), x # 0 => Knows(d, x),
           delivered' = delivered, eventq' = Append(eventq, x)
    PROVE  /\ DeliveredOnce'
           /\ \A j \in DOMAIN delivered' : Knows(d, delivered'[j])
           /\ \A j \in DOMAIN eventq' : eventq'[j] # 0 => Knows(d, eventq'[j])
<1> DEFINE m == Len(eventq)
<1>1. eventq \in Seq(0..LogEnd)
    BY DEF Typed, LoopTyped, Queues
<1>2. /\ m \in Nat /\ DOMAIN eventq = 1..m /\ DOMAIN eventq' = 1..(m + 1)
      /\ eventq'[m + 1] = x /\ \A j \in 1..m : eventq'[j] = eventq[j]
    BY <1>1
<1>3. /\ \A j \in 1..m : eventq[j] # 0 => Knows(bg.seen, eventq[j])
      /\ \A j \in DOMAIN delivered : Knows(bg.seen, delivered[j]) /\ delivered[j] # 0
    <2>1. delivered \in Seq(1..LogEnd) /\ LogEnd \in Nat
        BY LogLen DEF Typed, LoopTyped, RelayTyped, Takes, LogEnd
    <2>2. \A j \in DOMAIN delivered : delivered[j] # 0
        BY <2>1
    <2> QED BY <1>2, <2>2 DEF Once
<1>4. /\ IsInjective(delivered)
      /\ \A j, k \in 1..m : eventq[j] = eventq[k] /\ eventq[j] # 0 => j = k
      /\ \A j \in DOMAIN delivered, k \in 1..m : delivered[j] # eventq[k]
    BY <1>2 DEF Once, DeliveredOnce
<1> HIDE DEF m
<1>5. \A j, k \in 1..(m + 1) : eventq'[j] = eventq'[k] /\ eventq'[j] # 0 => j = k
    <2> SUFFICES ASSUME NEW j \in 1..(m + 1), NEW k \in 1..(m + 1),
                        eventq'[j] = eventq'[k], eventq'[j] # 0
                 PROVE  j = k
        OBVIOUS
    <2>1. CASE j \in 1..m /\ k \in 1..m
        BY <1>2, <1>4, <2>1
    <2>2. CASE j \in 1..m /\ k = m + 1
        BY <1>2, <1>3, <2>2
    <2>3. CASE j = m + 1 /\ k \in 1..m
        BY <1>2, <1>3, <2>3
    <2> QED BY <1>2, <2>1, <2>2, <2>3
<1>6. \A j \in DOMAIN delivered, k \in 1..(m + 1) : delivered[j] # eventq'[k]
    <2> SUFFICES ASSUME NEW j \in DOMAIN delivered, NEW k \in 1..(m + 1)
                 PROVE  delivered[j] # eventq'[k]
        OBVIOUS
    <2>1. CASE k \in 1..m
        BY <1>2, <1>4, <2>1
    <2>2. CASE k = m + 1
        BY <1>2, <1>3, <2>2
    <2> QED BY <1>2, <2>1, <2>2
<1>7. \A j \in 1..(m + 1) : eventq'[j] # 0 => Knows(d, eventq'[j])
    <2> SUFFICES ASSUME NEW j \in 1..(m + 1), eventq'[j] # 0 PROVE Knows(d, eventq'[j])
        OBVIOUS
    <2>1. CASE j \in 1..m
        BY <1>2, <1>3, <2>1
    <2>2. CASE j = m + 1
        BY <1>2, <2>2
    <2> QED BY <1>2, <2>1, <2>2
<1>8. DeliveredOnce'
    BY <1>2, <1>4, <1>5, <1>6 DEF DeliveredOnce, IsInjective
<1> QED BY <1>2, <1>3, <1>7, <1>8

\* The same along a step that takes the head of the queue.
LEMMA DequeueOnce ==
    ASSUME Typed, Once, eventq # <<>>, eventq' = Tail(eventq), bg'.seen = bg.seen,
           \/ delivered' = delivered
           \/ delivered' = Append(delivered, Head(eventq)) /\ Head(eventq) # 0
    PROVE  /\ DeliveredOnce'
           /\ \A j \in DOMAIN delivered' : Knows(bg.seen, delivered'[j])
           /\ \A j \in DOMAIN eventq' : eventq'[j] # 0 => Knows(bg.seen, eventq'[j])
<1> DEFINE m == Len(eventq)
           h == Head(eventq)
           l == Len(delivered)
<1>1. eventq \in Seq(0..LogEnd) /\ delivered \in Seq(1..LogEnd)
    BY DEF Typed, LoopTyped, Queues, Takes
<1>2. /\ m \in Nat /\ m >= 1 /\ DOMAIN eventq = 1..m /\ DOMAIN eventq' = 1..(m - 1)
      /\ h = eventq[1] /\ \A j \in 1..(m - 1) : eventq'[j] = eventq[j + 1]
    BY <1>1
<1>3. l \in Nat /\ DOMAIN delivered = 1..l
    BY <1>1
<1>4. \/ delivered' = delivered
      \/ /\ DOMAIN delivered' = 1..(l + 1) /\ delivered'[l + 1] = h /\ h # 0
         /\ \A j \in 1..l : delivered'[j] = delivered[j]
    <2>1. h \in 0..LogEnd /\ delivered \in Seq(0..LogEnd)
        <3>1. 1..LogEnd \subseteq 0..LogEnd
            OBVIOUS
        <3>2. delivered \in Seq(0..LogEnd)
            BY <1>1, <3>1, SeqMono
        <3>3. 1 \in 1..m
            BY <1>2
        <3>4. eventq[1] \in 0..LogEnd
            BY <1>1, <3>3, ElementOfSeq
        <3> QED BY <1>2, <3>2, <3>4
    <2>2. /\ DOMAIN Append(delivered, h) = 1..(l + 1) /\ Append(delivered, h)[l + 1] = h
          /\ \A j \in 1..l : Append(delivered, h)[j] = delivered[j]
        BY <2>1
    <2> QED BY <2>2
<1>5. /\ \A j \in 1..m : eventq[j] # 0 => Knows(bg.seen, eventq[j])
      /\ \A j \in 1..l : Knows(bg.seen, delivered[j])
    BY <1>2, <1>3 DEF Once
<1>6. /\ \A j, k \in 1..l : delivered[j] = delivered[k] => j = k
      /\ \A j, k \in 1..m : eventq[j] = eventq[k] /\ eventq[j] # 0 => j = k
      /\ \A j \in 1..l, k \in 1..m : delivered[j] # eventq[k]
    BY <1>2, <1>3 DEF Once, DeliveredOnce, IsInjective
<1> HIDE DEF m, l, h
<1>7. \A j \in 1..(m - 1) : eventq'[j] # 0 => Knows(bg.seen, eventq'[j])
    BY <1>2, <1>5
<1>8. \A j, k \in 1..(m - 1) : eventq'[j] = eventq'[k] /\ eventq'[j] # 0 => j = k
    <2> SUFFICES ASSUME NEW j \in 1..(m - 1), NEW k \in 1..(m - 1),
                        eventq'[j] = eventq'[k], eventq'[j] # 0
                 PROVE  j = k
        OBVIOUS
    <2>1. j + 1 \in 1..m /\ k + 1 \in 1..m
        BY <1>2
    <2>2. j + 1 = k + 1
        BY <1>2, <1>6, <2>1
    <2> QED BY <2>2
<1>9. CASE delivered' = delivered
    <2>1. \A j \in 1..l, k \in 1..(m - 1) : delivered[j] # eventq'[k]
        BY <1>2, <1>6
    <2>2. DeliveredOnce'
        BY <1>2, <1>3, <1>6, <1>8, <1>9, <2>1 DEF DeliveredOnce, IsInjective
    <2> QED BY <1>2, <1>3, <1>5, <1>7, <1>9, <2>2
<1>10. CASE /\ DOMAIN delivered' = 1..(l + 1) /\ delivered'[l + 1] = h /\ h # 0
            /\ \A j \in 1..l : delivered'[j] = delivered[j]
    <2>1. \A j \in 1..l : delivered[j] # h
        BY <1>2, <1>6
    <2>2. \A j, k \in 1..(l + 1) : delivered'[j] = delivered'[k] => j = k
        <3> SUFFICES ASSUME NEW j \in 1..(l + 1), NEW k \in 1..(l + 1),
                            delivered'[j] = delivered'[k]
                     PROVE  j = k
            OBVIOUS
        <3>1. j \in 1..l \/ j = l + 1
            BY <1>3
        <3>2. k \in 1..l \/ k = l + 1
            BY <1>3
        <3> QED BY <1>6, <1>10, <2>1, <3>1, <3>2
    <2>3. \A j \in 1..(l + 1), k \in 1..(m - 1) : delivered'[j] # eventq'[k]
        <3> SUFFICES ASSUME NEW j \in 1..(l + 1), NEW k \in 1..(m - 1)
                     PROVE  delivered'[j] # eventq'[k]
            OBVIOUS
        <3>1. k + 1 \in 1..m /\ 1 \in 1..m /\ k + 1 # 1 /\ eventq'[k] = eventq[k + 1]
            BY <1>2
        <3>2. CASE j \in 1..l
            BY <1>6, <1>10, <3>1, <3>2
        <3>3. CASE j = l + 1
            <4>1. delivered'[j] = eventq[1] /\ eventq[1] # 0
                BY <1>2, <1>10, <3>3
            <4>2. eventq[1] # eventq[k + 1]
                BY <1>6, <3>1, <4>1
            <4>3. eventq'[k] = eventq[k + 1]
                BY <3>1
            <4> QED BY ONLY <4>1, <4>2, <4>3, Zenon
        <3>4. j \in 1..l \/ j = l + 1
            BY ONLY <1>3, j \in 1..(l + 1)
        <3> QED BY ONLY <3>2, <3>3, <3>4
    <2>4. \A j \in 1..(l + 1) : Knows(bg.seen, delivered'[j])
        <3> SUFFICES ASSUME NEW j \in 1..(l + 1) PROVE Knows(bg.seen, delivered'[j])
            OBVIOUS
        <3>1. CASE j \in 1..l
            BY <1>5, <1>10, <3>1
        <3>2. CASE j = l + 1
            <4>1. Knows(bg.seen, eventq[1])
                BY <1>2, <1>5, <1>10
            <4> QED BY <1>2, <1>10, <3>2, <4>1
        <3> QED BY <1>3, <3>1, <3>2
    <2>5. DeliveredOnce'
        BY <1>2, <1>8, <1>10, <2>2, <2>3 DEF DeliveredOnce, IsInjective
    <2> QED BY <1>2, <1>7, <1>10, <2>4, <2>5
<1> QED BY <1>4, <1>9, <1>10

LEMMA OnceStep ==
    ASSUME Typed, WithinWindow => Once, [Next]_vars, WithinWindow'
    PROVE  Once'
<1>1. /\ relay \in Relay /\ LogEnd \in Nat /\ LogEnd' \in Nat /\ LogEnd <= LogEnd'
      /\ bg.seen \in Dedup /\ BgSound(bg) /\ LogEnd = Len(relay.log)
    <2>1. Grown(relay, relay') /\ relay \in Relay /\ relay' \in Relay
        BY TypedStep DEF Typed, RelayTyped, Grown
    <2>2. LogEnd = Len(relay.log) /\ LogEnd' = Len(relay'.log)
        BY DEF LogEnd
    <2> QED BY <2>1, <2>2, LogLen DEF Grown, Typed, ClientTyped, BgSound, Bg
<1>2. Once /\ WithinWindow
    <2>1. WithinWindow
        BY <1>1, RelayClientConstants DEF WithinWindow
    <2> QED BY <2>1
<1>3. ASSUME NEW d, Generations(LogEnd, d) PROVE Generations(LogEnd', d)
    BY <1>1, <1>3 DEF Generations
<1>4. ASSUME UNCHANGED <<eventq, delivered>>, bg'.seen = bg.seen PROVE Once'
    BY <1>2, <1>3, <1>4 DEF Once, DeliveredOnce, Knows
<1>5. ASSUME Generations(LogEnd, bg'.seen), DeliveredOnce',
             \A j \in DOMAIN delivered' : Knows(bg'.seen, delivered'[j]),
             \A j \in DOMAIN eventq' : eventq'[j] # 0 => Knows(bg'.seen, eventq'[j])
      PROVE  Once'
    BY <1>3, <1>5 DEF Once, Knows
<1>6. CASE UNCHANGED vars \/ RelayStep
    <2>1. UNCHANGED <<eventq, delivered, bg>>
        BY <1>6, RelayStepTypes DEF vars, Typed, clientVars, loopVars
    <2> QED BY <1>4, <2>1
<1>7. CASE ReceiveEvent
    <2> DEFINE i == Head(wire).event
               s == Head(wire).sub
               at == relay.log[i].at
    <2>1. i \in 1..LogEnd /\ i # 0
        BY <1>1, <1>7, WireHead DEF ReceiveEvent, Typed
    <2>2. delivered' = delivered
        BY <1>7 DEF ReceiveEvent, loopVars
    <2> HIDE DEF i, s, at
    <2>3. CASE UNCHANGED <<bg, eventq>>
        BY <1>4, <2>2, <2>3
    <2>4. CASE ~Knows(bg.seen, i) /\ eventq' = Append(eventq, i) /\ bg' = Forwarded(bg, s, i, at)
        <3>1. bg'.seen = Remember(bg.seen, i)
            BY <1>1, <2>4 DEF Forwarded, BgSound, Bg
        <3>2. /\ Generations(LogEnd, bg'.seen)
              /\ \A k : Knows(bg'.seen, k) <=> Knows(bg.seen, k) \/ k = i
            BY <1>1, <1>2, <2>1, <2>4, <3>1, NothingForgotten DEF Once, WithinWindow
        <3> DEFINE d == bg'.seen
        <3> HIDE DEF d
        <3>3. /\ DeliveredOnce'
              /\ \A j \in DOMAIN delivered' : Knows(d, delivered'[j])
              /\ \A j \in DOMAIN eventq' : eventq'[j] # 0 => Knows(d, eventq'[j])
            BY <1>2, <2>1, <2>2, <2>4, <3>2, EnqueueOnce DEF d
        <3> QED BY <1>5, <3>2, <3>3 DEF d
    <2>5. CASE ~Knows(bg.seen, i) /\ eventq' = eventq /\ bg' = Refused(bg, s, i, at)
        <3>1. bg'.seen = Forget(Remember(bg.seen, i), i)
            BY <1>1, <2>5 DEF Refused, BgSound, Bg
        <3>2. /\ Generations(LogEnd, bg'.seen)
              /\ \A k : Knows(bg'.seen, k) <=> Knows(bg.seen, k)
            BY <1>1, <1>2, <2>1, <2>5, <3>1, NothingForgotten DEF Once, WithinWindow
        <3>3. DeliveredOnce'
            BY <1>2, <2>2, <2>5 DEF Once, DeliveredOnce
        <3>4. /\ \A j \in DOMAIN delivered' : Knows(bg'.seen, delivered'[j])
              /\ \A j \in DOMAIN eventq' : eventq'[j] # 0 => Knows(bg'.seen, eventq'[j])
            BY <1>2, <2>2, <2>5, <3>2 DEF Once
        <3> QED BY <1>5, <3>2, <3>3, <3>4
    <2> QED BY <1>7, <2>3, <2>4, <2>5 DEF ReceiveEvent, i, s, at
<1>8. CASE ClientStep /\ ~ReceiveEvent
    <2>1. /\ bg'.seen = bg.seen /\ (eventq' = eventq \/ eventq' = Append(eventq, 0))
          /\ delivered' = delivered
        BY <1>8, SeenKept, OutsideLoop
    <2>2. CASE eventq' = eventq
        BY <1>4, <2>1, <2>2
    <2>3. CASE eventq' = Append(eventq, 0)
        <3> DEFINE d == bg.seen
        <3>1. /\ DeliveredOnce'
              /\ \A j \in DOMAIN delivered' : Knows(d, delivered'[j])
              /\ \A j \in DOMAIN eventq' : eventq'[j] # 0 => Knows(d, eventq'[j])
            BY <1>2, <2>1, <2>3, EnqueueOnce
        <3> QED BY <1>2, <1>5, <2>1, <3>1 DEF Once
    <2> QED BY <2>1, <2>2, <2>3
<1>9. CASE TakeSentinel \/ TakeMessage \/ SkipNotification \/ ApplyAdded \/ ApplyRemoved
    <2>1. /\ eventq # <<>> /\ eventq' = Tail(eventq) /\ bg'.seen = bg.seen
          /\ \/ delivered' = delivered
             \/ delivered' = Append(delivered, Head(eventq)) /\ Head(eventq) # 0
        BY <1>9 DEF TakeSentinel, TakeMessage, SkipNotification, ApplyAdded, ApplyRemoved,
                    Applies, Taking, clientVars, loopVars
    <2> DEFINE d == bg.seen
    <2>2. /\ DeliveredOnce'
          /\ \A j \in DOMAIN delivered' : Knows(d, delivered'[j])
          /\ \A j \in DOMAIN eventq' : eventq'[j] # 0 => Knows(d, eventq'[j])
        BY <1>2, <2>1, DequeueOnce
    <2> QED BY <1>2, <1>5, <2>1, <2>2 DEF Once
<1>10. CASE \/ TurnSucceeds \/ TurnFails \/ Maintenance \/ RetryDeadline \/ RetryFires
            \/ WakePanics \/ TakeWakeResult \/ JoinWakeTask \/ Sleep \/ StopLoop
            \/ (\E c \in Channels : BackoffExpires(c))
            \/ (\E ok \in BOOLEAN : WakeReturns(ok)) \/ AbortWake \/ Exit
    <2>1. UNCHANGED <<eventq, delivered, bg>>
        BY <1>10 DEF TurnSucceeds, TurnFails, Maintenance, RetryDeadline, RetryFires,
           WakePanics, TakeWakeResult, JoinWakeTask, Sleep, StopLoop, BackoffExpires,
           WakeReturns, AbortWake, Exit, LoopStep, clientVars
    <2> QED BY <1>4, <2>1
<1> QED BY <1>6, <1>7, <1>8, <1>9, <1>10 DEF Next, MainStep

LEMMA OnceInit == Init => Once
<1> SUFFICES ASSUME Init PROVE Once
    OBVIOUS
<1>1. bg.seen = Unseen /\ eventq = <<>> /\ delivered = <<>>
    BY DEF Init, Fresh
<1>2. Cardinality({}) = 0
    BY FS_EmptySet
<1>3. Generations(LogEnd, bg.seen)
    BY <1>1, <1>2, RelayClientConstants DEF Generations, Unseen
<1> QED BY <1>1, <1>3 DEF Once, DeliveredOnce, IsInjective

\* relay.rs, TwoGenDedup: as long as the relay has stored no more events than two
\* generations of seen_ids tell apart, no message reaches the main loop twice,
\* however often sockets are lost, REQs replayed and events refused by the full
\* queue and forgotten again.
THEOREM WindowDeliversOnce == Spec => [](WithinWindow => DeliveredOnce)
<1>1. Init => Typed /\ (WithinWindow => Once)
    BY TypedInit, OnceInit
<1>2. Typed /\ (WithinWindow => Once) /\ [Next]_vars => (Typed /\ (WithinWindow => Once))'
    <2>1. Typed /\ [Next]_vars => Typed'
        BY TypedStep
    <2>2. Typed /\ (WithinWindow => Once) /\ [Next]_vars /\ WithinWindow' => Once'
        BY OnceStep
    <2> QED BY <2>1, <2>2
<1>3. (WithinWindow => Once) => (WithinWindow => DeliveredOnce)
    BY DEF Once
<1> QED BY <1>1, <1>2, <1>3, PTL DEF Spec

-----------------------------------------------------------------------------
(* What the marks of BgState cover                                          *)

LEMMA SinceBounds ==
    ASSUME NEW b, BgSound(b), NEW s \in b.active \cup {"membership"},
           DOMAIN b.dropped \subseteq DOMAIN b.lastSeen
    PROVE  /\ s \in DOMAIN b.lastSeen => b.lastSeen[s] \in Nat /\ Since(b, s) <= b.lastSeen[s]
           /\ s \in DOMAIN b.dropped => b.dropped[s] \in Nat /\ Since(b, s) <= b.dropped[s]
           /\ s \notin DOMAIN b.lastSeen => Since(b, s) = b.floor[s]
<1>1. b.lastSeen \in Maps /\ b.dropped \in Maps
    BY DEF BgSound, Bg
<1>2. b.lastSeen \in [DOMAIN b.lastSeen -> Nat] /\ b.dropped \in [DOMAIN b.dropped -> Nat]
    BY <1>1, MapsAre
<1> DEFINE a == b.lastSeen[s]
           d == b.dropped[s]
<1>3. CASE s \notin DOMAIN b.lastSeen
    BY <1>3 DEF Since, At
<1>4. CASE s \in DOMAIN b.lastSeen /\ s \notin DOMAIN b.dropped
    <2>1. Since(b, s) = Min({a}) /\ a \in Nat
        BY <1>2, <1>4 DEF Since, At
    <2>2. Min({a}) = a
        BY <2>1 DEF Min
    <2> QED BY <1>4, <2>1, <2>2
<1>5. CASE s \in DOMAIN b.lastSeen /\ s \in DOMAIN b.dropped
    <2>1. Since(b, s) = Min({a} \cup {d}) /\ a \in Nat /\ d \in Nat
        BY <1>2, <1>5 DEF Since, At
    <2> HIDE DEF a, d
    <2>2. \E x \in {a} \cup {d} : \A y \in {a} \cup {d} : x =< y
        BY <2>1
    <2>3. Min({a} \cup {d}) \in {a} \cup {d} /\ \A y \in {a} \cup {d} : Min({a} \cup {d}) =< y
        BY <2>2 DEF Min
    <2> QED BY <1>5, <2>1, <2>3 DEF a, d
<1> QED BY <1>3, <1>4, <1>5

\* A REQ covers what is within the skew of the newest event the client has
\* seen, and whatever the full queue has refused.
LEMMA ReqCovers ==
    ASSUME NEW b, BgSound(b), NEW s \in b.active \cup {"membership"},
           DOMAIN b.dropped \subseteq DOMAIN b.lastSeen,
           NEW t \in Nat, s \notin DOMAIN b.lastSeen => b.floor[s] <= t
    PROVE  /\ \/ Req(s, Since(b, s)).since <= t
              \/ s \in DOMAIN b.lastSeen /\ t + Skew < b.lastSeen[s]
           /\ s \in DOMAIN b.dropped /\ b.dropped[s] <= t => Req(s, Since(b, s)).since <= t
           /\ Req(s, Since(b, s)).sub = s /\ ~Req(s, Since(b, s)).close
<1>1. Since(b, s) \in Nat /\ Skew \in Nat
    BY SinceNat, RelayClientConstants
<1>2. /\ Req(s, Since(b, s)).since = IF Since(b, s) > Skew THEN Since(b, s) - Skew ELSE 0
      /\ Req(s, Since(b, s)).sub = s /\ ~Req(s, Since(b, s)).close
    BY DEF Req
<1>3. /\ s \in DOMAIN b.lastSeen => b.lastSeen[s] \in Nat /\ Since(b, s) <= b.lastSeen[s]
      /\ s \in DOMAIN b.dropped => b.dropped[s] \in Nat /\ Since(b, s) <= b.dropped[s]
      /\ s \notin DOMAIN b.lastSeen => Since(b, s) = b.floor[s]
    BY SinceBounds
<1> DEFINE n == Since(b, s)
           q == Req(s, n).since
           l == b.lastSeen[s]
           d == b.dropped[s]
<1> HIDE DEF n, q, l, d
<1>4. q = IF n > Skew THEN n - Skew ELSE 0
    BY <1>2 DEF n, q
<1>5. n \in Nat
    BY <1>1 DEF n
<1>6. q <= t \/ (s \in DOMAIN b.lastSeen /\ t + Skew < l)
    <2>1. CASE s \in DOMAIN b.lastSeen
        <3>1. l \in Nat /\ n <= l
            BY <1>3, <2>1 DEF n, l
        <3> QED BY <1>1, <1>4, <1>5, <2>1, <3>1
    <2>2. CASE s \notin DOMAIN b.lastSeen
        <3>1. n <= t
            BY <1>3, <2>2 DEF n
        <3> QED BY <1>1, <1>4, <1>5, <3>1
    <2> QED BY <2>1, <2>2
<1>7. s \in DOMAIN b.dropped /\ d <= t => q <= t
    <2> SUFFICES ASSUME s \in DOMAIN b.dropped, d <= t PROVE q <= t
        OBVIOUS
    <2>1. d \in Nat /\ n <= d
        BY <1>3 DEF n, d
    <2> QED BY <1>1, <1>4, <1>5, <2>1
<1> QED BY <1>2, <1>6, <1>7 DEF n, q, l, d

\* A mark moves one way, and to a time that is told.
LEMMA MarksMove ==
    ASSUME NEW m \in Maps, NEW k \in Subs, NEW v \in Nat
    PROVE  /\ \A x \in DOMAIN m \ {k} : Raise(m, k, v)[x] = m[x] /\ Lower(m, k, v)[x] = m[x]
           /\ \A x \in DOMAIN m : m[x] \in Nat
           /\ k \in DOMAIN m => Raise(m, k, v)[k] >= m[k] /\ Lower(m, k, v)[k] <= m[k]
           /\ Raise(m, k, v)[k] = v \/ (k \in DOMAIN m /\ Raise(m, k, v)[k] = m[k])
           /\ Lower(m, k, v)[k] <= v
<1>1. m \in [DOMAIN m -> Nat]
    BY MapsAre
<1> DEFINE r == Max(At(m, k) \cup {v})
           l == Min(At(m, k) \cup {v})
<1>2. /\ \A x \in DOMAIN m \ {k} : Put(m, k, r)[x] = m[x] /\ Put(m, k, l)[x] = m[x]
      /\ Put(m, k, r)[k] = r /\ Put(m, k, l)[k] = l
    BY DEF Put
<1>3. CASE k \in DOMAIN m
    <2> DEFINE a == m[k]
    <2>1. a \in Nat /\ r = Max({a} \cup {v}) /\ l = Min({a} \cup {v})
        BY <1>1, <1>3 DEF At
    <2> HIDE DEF a
    <2>2. \E x \in {a} \cup {v} : \A y \in {a} \cup {v} : x =< y
        BY <2>1
    <2>3. Min({a} \cup {v}) \in {a} \cup {v} /\ \A y \in {a} \cup {v} : Min({a} \cup {v}) =< y
        BY <2>2 DEF Min
    <2>4. \E x \in {a} \cup {v} : \A y \in {a} \cup {v} : x >= y
        BY <2>1
    <2>5. Max({a} \cup {v}) \in {a} \cup {v} /\ \A y \in {a} \cup {v} : Max({a} \cup {v}) >= y
        BY <2>4 DEF Max
    <2> HIDE DEF r, l
    <2>6. (r = v \/ r = a) /\ r >= a /\ l <= a /\ l <= v
        BY <2>1, <2>3, <2>5
    <2> QED BY <1>1, <1>2, <1>3, <2>6 DEF Raise, Lower, a, r, l
<1>4. CASE k \notin DOMAIN m
    <2>1. r = Max({v}) /\ l = Min({v})
        BY <1>4 DEF At
    <2>2. Max({v}) = v /\ Min({v}) = v
        BY DEF Max, Min
    <2> QED BY <1>1, <1>2, <1>4, <2>1, <2>2 DEF Raise, Lower
<1> QED BY <1>3, <1>4

-----------------------------------------------------------------------------
(* What a queue holds                                                       *)

LEMMA HeldAppend ==
    ASSUME NEW S, NEW q \in Seq(S), NEW x \in S
    PROVE  ToSet(Append(q, x)) = ToSet(q) \cup {x}
<1> DEFINE p == Append(q, x)
           n == Len(q)
<1>1. /\ n \in Nat /\ DOMAIN q = 1..n /\ DOMAIN p = 1..(n + 1) /\ p[n + 1] = x
      /\ \A j \in 1..n : p[j] = q[j]
    OBVIOUS
<1> HIDE DEF p, n
<1>2. 1..(n + 1) = (1..n) \cup {n + 1}
    BY <1>1
<1>3. ToSet(p) = {p[j] : j \in (1..n) \cup {n + 1}} /\ ToSet(q) = {q[j] : j \in 1..n}
    BY <1>1, <1>2 DEF ToSet
<1> QED BY <1>1, <1>3 DEF p

LEMMA HeldConcat ==
    ASSUME NEW S, NEW q \in Seq(S), NEW r \in Seq(S)
    PROVE  ToSet(q \o r) = ToSet(q) \cup ToSet(r)
<1> DEFINE p == q \o r
           n == Len(q)
           m == Len(r)
<1>1. /\ n \in Nat /\ m \in Nat /\ DOMAIN q = 1..n /\ DOMAIN r = 1..m /\ DOMAIN p = 1..(n + m)
      /\ \A j \in 1..n : p[j] = q[j]
      /\ \A j \in 1..m : p[n + j] = r[j]
    BY ConcatProperties, LenProperties
<1> HIDE DEF p, n, m
<1>2. ASSUME NEW x \in ToSet(p) PROVE x \in ToSet(q) \cup ToSet(r)
    <2>1. PICK j \in 1..(n + m) : x = p[j]
        BY <1>1 DEF ToSet
    <2>2. CASE j <= n
        BY <1>1, <2>1, <2>2 DEF ToSet
    <2>3. CASE j > n
        <3>1. j - n \in 1..m /\ j = n + (j - n)
            BY <1>1, <2>3
        <3> QED BY <1>1, <2>1, <3>1 DEF ToSet
    <2> QED BY <1>1, <2>2, <2>3
<1>3. ASSUME NEW x \in ToSet(q) PROVE x \in ToSet(p)
    <2>1. PICK j \in 1..n : x = q[j]
        BY <1>1, <1>3 DEF ToSet
    <2>2. j \in 1..(n + m)
        BY <1>1
    <2> QED BY <1>1, <2>1, <2>2 DEF ToSet
<1>4. ASSUME NEW x \in ToSet(r) PROVE x \in ToSet(p)
    <2>1. PICK j \in 1..m : x = r[j]
        BY <1>1, <1>4 DEF ToSet
    <2>2. n + j \in 1..(n + m)
        BY <1>1
    <2> QED BY <1>1, <2>1, <2>2 DEF ToSet
<1> QED BY <1>2, <1>3, <1>4 DEF p

LEMMA HeldTail ==
    ASSUME NEW S, NEW q \in Seq(S), q # <<>>
    PROVE  ToSet(q) = {Head(q)} \cup ToSet(Tail(q)) /\ Head(q) \in ToSet(q)
<1> DEFINE p == Tail(q)
           n == Len(q)
<1>1. /\ n \in Nat /\ n >= 1 /\ DOMAIN q = 1..n /\ DOMAIN p = 1..(n - 1) /\ Head(q) = q[1]
      /\ \A j \in 1..(n - 1) : p[j] = q[j + 1]
    OBVIOUS
<1> HIDE DEF p, n
<1>2. ASSUME NEW x \in ToSet(p) PROVE x \in ToSet(q)
    <2>1. PICK j \in 1..(n - 1) : x = p[j]
        BY <1>1, <1>2 DEF ToSet
    <2>2. j + 1 \in 1..n
        BY <1>1
    <2> QED BY <1>1, <2>1, <2>2 DEF ToSet
<1>3. ASSUME NEW x \in ToSet(q), x # Head(q) PROVE x \in ToSet(p)
    <2>1. PICK j \in 1..n : x = q[j]
        BY <1>1, <1>3 DEF ToSet
    <2>2. j - 1 \in 1..(n - 1) /\ (j - 1) + 1 = j
        BY <1>1, <1>3, <2>1
    <2> QED BY <1>1, <2>1, <2>2 DEF ToSet
<1>4. Head(q) \in ToSet(q)
    BY <1>1 DEF ToSet
<1> QED BY <1>2, <1>3, <1>4 DEF p

LEMMA HeldNothing == ToSet(<<>>) = {}
BY DEF ToSet

LEMMA HeldIn ==
    ASSUME NEW S, NEW q \in Seq(S)
    PROVE  ToSet(q) \subseteq S
BY DEF ToSet

\* An ordering of a finite set holds all of it.
LEMMA OrderingsHold ==
    ASSUME NEW S, IsFiniteSet(S), NEW q \in SetToSeqs(S)
    PROVE  ToSet(q) = S
<1> DEFINE D == 1..Cardinality(S)
<1>1. Cardinality(S) \in Nat
    BY FS_CardinalityType
<1>2. q \in [D -> S] /\ \A i, j \in D : i # j => q[i] # q[j]
    BY DEF SetToSeqs
<1>3. IsFiniteSet(D) /\ Cardinality(D) = Cardinality(S)
    BY <1>1, FS_Interval
<1>4. q \in Injection(D, S)
    BY <1>2 DEF Injection, IsInjective
<1> HIDE DEF D
<1>5. q \in Surjection(D, S)
    BY <1>3, <1>4, FS_Injection
<1> QED BY <1>2, <1>5 DEF Surjection, ToSet

\* resubscribe_after_reconnect asks for every channel and for the notifications.
LEMMA ResubscriptionHolds ==
    ASSUME BgSound(bg), NEW q \in Resubscription
    PROVE  ToSet(q) = bg.active \cup {"membership"}
<1>1. IsFiniteSet(bg.active)
    <2>1. bg.active \subseteq Channels
        BY DEF BgSound, Bg
    <2> QED BY <2>1, RelayClientConstants, FS_Subset
<1>2. PICK o \in SetToSeqs(bg.active) : q = Append(o, "membership")
    BY DEF Resubscription
<1>3. ToSet(o) = bg.active /\ o \in Seq(bg.active \cup {"membership"})
    <2>1. o \in Seq(bg.active)
        BY <1>1, OrderingsTypes
    <2> QED BY <1>1, <2>1, OrderingsHold, SeqMono
<1>4. "membership" \in bg.active \cup {"membership"}
    OBVIOUS
<1>5. ToSet(Append(o, "membership")) = ToSet(o) \cup {"membership"}
    BY <1>3, <1>4, HeldAppend
<1> QED BY <1>2, <1>3, <1>5

-----------------------------------------------------------------------------
(* Where an event is on its way                                             *)

Time(i) == relay.log[i].at
Sub(i) == SubOf(relay.log[i])
Change(i) == relay.log[i].kind # "message"

\* A subscription that nothing but a lost socket, a refused REQ or a full queue
\* interrupts: the inbox, and a channel whose membership never changed.
Steady(s) ==
    \/ s = "membership"
    \/ /\ s \in budget.joined /\ s \notin relay.archived
       /\ \A i \in Ids : ChannelOf(i) = s => ~Change(i)

\* The main loop has applied a notification of the channel that is as new.
Heeded(i) == ChannelOf(i) \in DOMAIN main.newest /\ main.newest[ChannelOf(i)] >= Time(i)

Reached(i) ==
    i \in ToSet(eventq) \/ (IF Change(i) THEN Heeded(i) ELSE i \in ToSet(delivered))
OnWire(i) == \E f \in ToSet(wire) : f.closed = "none" /\ f.event = i
Asked(s, t) == \E r \in ToSet(reqs) : r.sub = s /\ ~r.close /\ r.since <= t

\* A REQ that replays the subscription is certain to follow.
Pending(s) ==
    \/ phase = "down" \/ (phase = "resubscribing" /\ s \in ToSet(todo))
    \/ s \in bg.parked \/ bg.proactive
Bounced(s) == \E f \in ToSet(wire) : f.sub = s /\ f.closed \in {"limited", "error"}
Lost(s) == Pending(s) \/ Bounced(s)

\* The newest event of the subscription is more than the skew ahead.
Passed(s, t) == s \in DOMAIN bg.lastSeen /\ t + Skew < bg.lastSeen[s]

\* The full queue refused an event that is no newer, and a REQ will replay it.
Noticed(s, t) ==
    /\ s \in DOMAIN bg.dropped /\ bg.dropped[s] <= t
    /\ bg.proactive \/ (phase = "resubscribing" /\ s \in ToSet(todo))

\* As long as no socket is lost and no REQ refused, only a refused event is out
\* of sight; after that one may be, until the next REQ, or for good.
Missing(s, t) == (relay.cut /\ (Lost(s) \/ Passed(s, t))) \/ Noticed(s, t)

\* Nothing is newer than the clock, and a refused event has raised last_seen.
Clocked ==
    /\ \A i \in Ids : Time(i) <= relay.clock
    /\ \A s \in DOMAIN bg.lastSeen : bg.lastSeen[s] <= relay.clock
    /\ DOMAIN bg.dropped \subseteq DOMAIN bg.lastSeen

\* Nothing in flight ends a steady subscription.
Framed ==
    /\ \A f \in ToSet(wire) : /\ f.closed = "none" => f.sub = Sub(f.event)
                              /\ f.closed = "denied" => ~Steady(f.sub)
    /\ \A r \in ToSet(reqs) : r.close => ~Steady(r.sub)
    /\ \A c \in ToSet(cmds) : c.op # "reconnect" => ~Steady(c.channel)

Rooted ==
    \A c \in Channels : Steady(c) => c \in bg.active /\ c \in relay.members /\ bg.floor[c] = 0

Uncut ==
    relay.cut \/ /\ phase # "down" /\ bg.parked = {} /\ ~bg.gated
                 /\ \A f \in ToSet(wire) : f.closed \notin {"limited", "error"}

\* The relay sends what is new on a steady subscription, or will when it is asked.
Listens ==
    \A s \in Subs : Steady(s) =>
        s \in relay.live \/ (relay.cut /\ (Asked(s, relay.clock) \/ Lost(s)))

\* An event of a steady subscription has reached the main loop or is on its way.
Flows ==
    \A i \in Ids : Steady(Sub(i)) =>
        Reached(i) \/ OnWire(i) \/ Asked(Sub(i), Time(i)) \/ Missing(Sub(i), Time(i))

\* What the client takes for a duplicate has reached the main loop, and what the
\* main loop takes for one it has heeded.
Remembered ==
    /\ \A i : Knows(bg.seen, i) => i \in Ids /\ Reached(i)
    /\ \A i : Knows(main.seen, i) => i \in Ids /\ Heeded(i)

Carried == Clocked /\ Framed /\ Rooted /\ Uncut /\ Listens /\ Flows

\* A step forgets no event, and makes no subscription steady.
LogKept ==
    /\ \A i \in Ids : /\ i \in Ids' /\ Time(i)' = Time(i) /\ Sub(i)' = Sub(i)
                      /\ Change(i)' = Change(i) /\ ChannelOf(i)' = ChannelOf(i)
    /\ \A s : Steady(s)' => Steady(s)

LEMMA SpendKeeps ==
    ASSUME budget \in Scenario,
           \/ Spend("messages") \/ Spend("changes") \/ Spend("archives") \/ Spend("losses")
           \/ Spend("refusals") \/ Spend("overflows") \/ Spend("seconds") \/ Spend("wakes")
           \/ Spend("turns") \/ Spend("stops")
    PROVE  budget'.joined = budget.joined /\ budget'.ties = budget.ties
BY DEF Spend, Scenario

\* The faults are spent, the configuration stays.
LEMMA ConfigurationKept ==
    ASSUME budget \in Scenario, [Next]_vars
    PROVE  budget'.joined = budget.joined /\ budget'.ties = budget.ties
<1>1. CASE UNCHANGED budget
    BY <1>1
<1>2. CASE UNCHANGED vars
    BY <1>1, <1>2 DEF vars
<1>3. CASE \/ Spend("messages") \/ Spend("changes") \/ Spend("archives") \/ Spend("losses")
           \/ Spend("refusals") \/ Spend("overflows") \/ Spend("seconds") \/ Spend("wakes")
           \/ Spend("turns") \/ Spend("stops")
    BY <1>3, SpendKeeps
<1>4. CASE RelayStep
    BY <1>1, <1>3, <1>4 DEF RelayStep, Publish, AddMember, RemoveMember, Archive, Restore, Tick,
       ServeReq, DenyReq, ServeClose, RefuseReq
<1>5. CASE ClientStep
    BY <1>1, <1>3, <1>5 DEF ClientStep, ReceiveEvent, ReceiveClosed, ProactiveResubscribe,
       Resubscribe, Resubscribed, DrainCommand, RunCommand, LoseSocket, ReconnectCommand,
       DownCommand, Connect, GateExpires, DrainParked
<1>6. CASE MainStep \/ (\E ok \in BOOLEAN : WakeReturns(ok)) \/ AbortWake \/ Exit
    <2>1. ASSUME NEW ok \in BOOLEAN, WakeReturns(ok)
          PROVE  UNCHANGED budget \/ Spend("wakes")
        BY <2>1 DEF WakeReturns, Spend
    <2> QED BY <1>1, <1>3, <1>6, <2>1 DEF MainStep, TakeSentinel, TakeMessage,
           SkipNotification, ApplyAdded, ApplyRemoved, TurnSucceeds, TurnFails, Maintenance,
           RetryDeadline, RetryFires, WakePanics, TakeWakeResult, JoinWakeTask, Sleep, StopLoop,
           BackoffExpires, AbortWake, Exit
<1> QED BY <1>2, <1>4, <1>5, <1>6 DEF Next

\* What an event stored by the relay leaves behind.
LEMMA StoreShape ==
    ASSUME RelayTyped, NEW e \in Event, NEW members \in SUBSET Channels,
           NEW live \in SUBSET Subs, NEW before \in Wires(LogEnd),
           Store(e, members, live, before)
    PROVE  /\ Ids' = Ids \cup {LogEnd + 1} /\ LogEnd + 1 \notin Ids
           /\ relay'.log[LogEnd + 1] = e /\ \A i \in Ids : relay'.log[i] = relay.log[i]
           /\ relay'.clock = relay.clock /\ relay'.cut = relay.cut
           /\ relay'.members = members /\ relay'.live = live
           /\ relay'.archived = IF e.kind = "added" THEN relay.archived \ {e.channel}
                                                    ELSE relay.archived
           /\ ToSet(wire) \cup ToSet(before) \subseteq ToSet(wire')
           /\ \A f \in ToSet(wire') : f \in ToSet(wire) \cup ToSet(before)
                                      \/ f = EventFrame(SubOf(e), LogEnd + 1)
           /\ SubOf(e) \in live /\ (e.kind # "message" \/ e.channel \in members)
                => EventFrame(SubOf(e), LogEnd + 1) \in ToSet(wire')
<1> DEFINE n == LogEnd
           l == Append(relay.log, e)
           a == IF e.kind = "added" THEN relay.archived \ {e.channel} ELSE relay.archived
           f == EventFrame(SubOf(e), n + 1)
           cond == SubOf(e) \in live /\ (e.kind # "message" \/ e.channel \in members)
<1>1. /\ relay \in Relay /\ wire \in Wires(n) /\ before \in Wires(n) /\ n \in Nat
      /\ relay.log \in Seq(Event) /\ relay.archived \in SUBSET Channels /\ Ids = 1..n
    BY LogLen DEF RelayTyped, LogEnd, Relay, Logs, Ids
<1>2. /\ l \in Logs /\ DOMAIN l = (1..n) \cup {n + 1} /\ l[n + 1] = e
      /\ \A i \in 1..n : l[i] = relay.log[i]
    BY <1>1 DEF Logs, LogEnd
<1>3. a \in SUBSET Channels
    BY <1>1
<1>4. relay' = [relay EXCEPT !.log = l, !.members = members, !.live = live, !.archived = a]
    BY DEF Store
<1> HIDE DEF n, l, a
<1>5. /\ relay'.log = l /\ relay'.clock = relay.clock /\ relay'.cut = relay.cut
      /\ relay'.members = members /\ relay'.live = live /\ relay'.archived = a
    BY ONLY <1>1, <1>2, <1>3, <1>4, members \in SUBSET Channels, live \in SUBSET Subs DEF Relay
<1>6. n + 1 \notin 1..n /\ n + 1 \in Nat /\ n <= n + 1
    BY <1>1
<1>7. wire \o before \in Wires(n + 1) /\ ToSet(wire \o before) = ToSet(wire) \cup ToSet(before)
    <2>1. wire \o before \in Wires(n)
        BY <1>1, ConcatWire
    <2> QED BY <1>1, <1>6, <2>1, WiresMono, HeldConcat DEF Wires
<1>8. f \in Frames(n + 1)
    <2>1. SubOf(e) \in Subs /\ n + 1 \in 1..(n + 1)
        BY <1>1 DEF Event, Subs, SubOf
    <2> QED BY <1>6, <2>1, FrameTypes
<1>9. wire' = (wire \o before) \o (IF cond THEN <<f>> ELSE <<>>)
    BY DEF Store, n, LogEnd
<1> HIDE DEF f, cond
<1>10. <<f>> \in Wires(n + 1) /\ <<>> \in Wires(n + 1) /\ ToSet(<<f>>) = {f}
    <2>1. <<f>> \in Wires(n + 1) /\ <<>> \in Wires(n + 1)
        BY <1>6, <1>8, ShortWires
    <2>2. DOMAIN <<f>> = {1} /\ <<f>>[1] = f
        OBVIOUS
    <2> QED BY <2>1, <2>2 DEF ToSet
<1>11. ToSet(wire') = ToSet(wire) \cup ToSet(before) \cup (IF cond THEN {f} ELSE {})
    <2> DEFINE w == wire \o before
    <2>1. w \in Seq(Frames(n + 1)) /\ <<f>> \in Seq(Frames(n + 1)) /\ <<>> \in Seq(Frames(n + 1))
        BY <1>7, <1>10 DEF Wires
    <2>2. ToSet(w) = ToSet(wire) \cup ToSet(before)
        BY <1>7
    <2>3. wire' = w \o (IF cond THEN <<f>> ELSE <<>>)
        BY <1>9
    <2> HIDE DEF w
    <2>4. ASSUME NEW S, NEW v \in Seq(S), w \in Seq(S)
          PROVE  ToSet(w \o v) = ToSet(w) \cup ToSet(v)
        BY <2>4, HeldConcat
    <2>5. ToSet(w \o <<f>>) = ToSet(w) \cup {f}
        BY <1>10, <2>1, <2>4
    <2>6. ToSet(w \o <<>>) = ToSet(w) \cup {}
        BY <2>1, <2>4, HeldNothing
    <2> QED BY <2>2, <2>3, <2>5, <2>6
<1>12. Ids' = Ids \cup {n + 1} /\ n + 1 \notin Ids
    BY <1>1, <1>2, <1>5, <1>6 DEF Ids
<1> QED BY <1>1, <1>2, <1>5, <1>11, <1>12 DEF n, a, f, cond

\* What the relay stores: a message, or a change of a membership that closes at
\* most the channel's own subscription.
Storing(e, members, live, before) ==
    /\ Store(e, members, live, before)
    /\ e.at = relay.clock
    /\ e.kind = "message" => members = relay.members /\ live = relay.live /\ before = <<>>
    /\ relay.members \ {e.channel} \subseteq members
    /\ members \subseteq relay.members \cup {e.channel}
    /\ relay.live \ {e.channel} \subseteq live
    /\ ToSet(before) \subseteq {Closed(e.channel, "denied")}
    /\ e.channel \in relay.live \ live => Closed(e.channel, "denied") \in ToSet(before)
    /\ e.kind = "added" => e.channel \in members
    /\ e.kind = "removed" => e.channel \notin members
    /\ e.kind # "message" => FreshSecond(e.channel)

LEMMA EvictedHolds ==
    ASSUME NEW c
    PROVE  ToSet(Evicted(c)) = IF c \in relay.live THEN {Closed(c, "denied")} ELSE {}
<1>1. CASE c \in relay.live
    <2> DEFINE f == Closed(c, "denied")
    <2>1. Evicted(c) = <<f>>
        BY <1>1 DEF Evicted
    <2> HIDE DEF f
    <2>2. DOMAIN <<f>> = {1} /\ <<f>>[1] = f
        OBVIOUS
    <2> QED BY <1>1, <2>1, <2>2 DEF ToSet, f
<1>2. CASE c \notin relay.live
    BY <1>2, HeldNothing DEF Evicted
<1> QED BY <1>1, <1>2

LEMMA StoringSteps ==
    ASSUME Typed, NEW c \in Channels,
           Publish(c) \/ AddMember(c) \/ RemoveMember(c) \/ Restore(c)
    PROVE  \E e \in Event, members \in SUBSET Channels, live \in SUBSET Subs,
              before \in Wires(LogEnd) : Storing(e, members, live, before)
<1>1. /\ RelayTyped /\ relay \in Relay /\ LogEnd \in Nat /\ <<>> \in Wires(LogEnd)
      /\ relay.members \in SUBSET Channels /\ relay.live \in SUBSET Subs /\ relay.clock \in Nat
    BY LogLen, ShortWires DEF Typed, RelayTyped, LogEnd, Relay
<1>2. ASSUME NEW e \in Event, NEW members \in SUBSET Channels, NEW live \in SUBSET Subs,
             NEW before \in Wires(LogEnd), Storing(e, members, live, before)
      PROVE  \E x \in Event, m \in SUBSET Channels, l \in SUBSET Subs, b \in Wires(LogEnd) :
                Storing(x, m, l, b)
    BY <1>2
<1>3. ASSUME NEW k \in {"message", "added", "removed"}
      PROVE  /\ New(k, c) \in Event /\ New(k, c).kind = k /\ New(k, c).channel = c
             /\ New(k, c).at = relay.clock
    BY <1>1 DEF New, Event
<1>4. ToSet(<<>>) \subseteq {Closed(c, "denied")}
    BY HeldNothing
<1>5. /\ Evicted(c) \in Wires(LogEnd) /\ ToSet(Evicted(c)) \subseteq {Closed(c, "denied")}
      /\ c \in relay.live => Closed(c, "denied") \in ToSet(Evicted(c))
    BY <1>1, EvictedWire, EvictedHolds
<1>6. CASE Publish(c)
    <2> DEFINE e == New("message", c)
               b == <<>>
    <2>1. Store(e, relay.members, relay.live, b)
        BY <1>6 DEF Publish
    <2>2. e \in Event /\ e.kind = "message" /\ e.channel = c /\ e.at = relay.clock
        BY <1>3
    <2> HIDE DEF e
    <2>3. Storing(e, relay.members, relay.live, b)
        BY <1>1, <1>4, <2>1, <2>2 DEF Storing
    <2> HIDE DEF b
    <2> QED BY <1>1, <1>2, <2>2, <2>3 DEF b
<1>7. CASE AddMember(c)
    <2> DEFINE e == New("added", c)
               b == <<>>
               m == relay.members \cup {c}
    <2>1. Store(e, m, relay.live, b) /\ FreshSecond(c)
        BY <1>7 DEF AddMember
    <2>2. e \in Event /\ e.kind = "added" /\ e.channel = c /\ e.at = relay.clock
        BY <1>3
    <2> HIDE DEF e
    <2>3. Storing(e, m, relay.live, b) /\ m \in SUBSET Channels
        BY <1>1, <1>4, <2>1, <2>2 DEF Storing
    <2> HIDE DEF b, m
    <2> QED BY <1>1, <1>2, <2>2, <2>3 DEF b
<1>8. CASE RemoveMember(c)
    <2> DEFINE e == New("removed", c)
               b == Evicted(c)
               m == relay.members \ {c}
               l == relay.live \ {c}
    <2>1. Store(e, m, l, b) /\ FreshSecond(c)
        BY <1>8 DEF RemoveMember
    <2>2. e \in Event /\ e.kind = "removed" /\ e.channel = c /\ e.at = relay.clock
        BY <1>3
    <2> HIDE DEF e, b
    <2>3. Storing(e, m, l, b) /\ m \in SUBSET Channels /\ l \in SUBSET Subs
        BY <1>1, <1>5, <2>1, <2>2 DEF Storing, b
    <2> HIDE DEF m, l
    <2> QED BY <1>2, <1>5, <2>2, <2>3 DEF b
<1>9. CASE Restore(c)
    <2> DEFINE e == New("added", c)
               b == <<>>
    <2>1. Store(e, relay.members, relay.live, b) /\ FreshSecond(c) /\ c \in relay.members
        BY <1>9 DEF Restore
    <2>2. e \in Event /\ e.kind = "added" /\ e.channel = c /\ e.at = relay.clock
        BY <1>3
    <2> HIDE DEF e
    <2>3. Storing(e, relay.members, relay.live, b)
        BY <1>1, <1>4, <2>1, <2>2 DEF Storing
    <2> HIDE DEF b
    <2> QED BY <1>1, <1>2, <2>2, <2>3 DEF b
<1> QED BY <1>6, <1>7, <1>8, <1>9

\* Every other step leaves the log and the memberships alone.
Unstored ==
    /\ relay'.log = relay.log /\ relay'.members = relay.members
    /\ relay.archived \subseteq relay'.archived
    /\ relay'.clock \in Nat /\ relay.clock <= relay'.clock

LEMMA LogSteps ==
    ASSUME Typed, [Next]_vars
    PROVE  \/ Unstored
           \/ \E e \in Event, members \in SUBSET Channels, live \in SUBSET Subs,
                 before \in Wires(LogEnd) : Storing(e, members, live, before)
<1>1. relay \in Relay /\ relay.clock \in Nat
    BY DEF Typed, RelayTyped, Relay
<1>2. CASE UNCHANGED relay
    BY <1>1, <1>2 DEF Unstored
<1>3. CASE UNCHANGED vars
    BY <1>2, <1>3 DEF vars
<1>4. CASE RelayStep
    <2>1. ASSUME NEW c \in Channels, Archive(c) PROVE Unstored
        BY <1>1, <2>1 DEF Archive, Unstored, Relay
    <2>2. CASE Tick
        BY <1>1, <2>2 DEF Tick, Unstored, Relay
    <2>3. CASE ServeReq
        BY <1>1, <2>3 DEF ServeReq, Unstored, Relay
    <2>4. CASE ServeClose
        BY <1>1, <2>4 DEF ServeClose, Unstored, Relay
    <2>5. ASSUME NEW why, RefuseReq(why) PROVE Unstored
        BY <1>1, <2>5 DEF RefuseReq, Unstored, Relay
    <2>6. CASE DenyReq
        BY <1>2, <2>6 DEF DenyReq
    <2> QED BY <1>4, <2>1, <2>2, <2>3, <2>4, <2>5, <2>6, StoringSteps DEF RelayStep
<1>5. CASE ClientStep
    <2>1. ASSUME Disconnected PROVE Unstored
        BY <1>1, <2>1 DEF Disconnected, Unstored, Relay
    <2>2. UNCHANGED relay \/ Disconnected
        BY <1>5 DEF ClientStep, ReceiveEvent, ReceiveClosed, ProactiveResubscribe,
           Resubscribe, Resubscribed, DrainCommand, RunCommand, LoseSocket, ReconnectCommand,
           DownCommand, Connect, GateExpires, DrainParked, relayVars
    <2> QED BY <1>2, <2>1, <2>2
<1>6. CASE MainStep \/ (\E ok \in BOOLEAN : WakeReturns(ok)) \/ AbortWake \/ Exit
    BY <1>2, <1>6, LoopStepTypes DEF relayVars
<1> QED BY <1>3, <1>4, <1>5, <1>6 DEF Next

LEMMA LogKeptStep ==
    ASSUME Typed, [Next]_vars
    PROVE  LogKept
<1>1. Grown(relay, relay') /\ relay \in Relay /\ relay' \in Relay
    BY TypedStep DEF Typed, RelayTyped, Grown
<1>2. \A i \in Ids : i \in Ids' /\ relay'.log[i] = relay.log[i]
    BY <1>1, LogLen DEF Grown, Ids
<1>3. \A i \in Ids : /\ i \in Ids' /\ Time(i)' = Time(i) /\ Sub(i)' = Sub(i)
                     /\ Change(i)' = Change(i) /\ ChannelOf(i)' = ChannelOf(i)
    BY <1>2 DEF Time, Sub, Change, ChannelOf
<1>4. budget'.joined = budget.joined
    BY ConfigurationKept DEF Typed
<1>5. \A s : s \in relay.archived => s \in relay'.archived
                                      \/ \E i \in Ids' : ChannelOf(i)' = s /\ Change(i)'
    <2>1. CASE Unstored
        BY <2>1 DEF Unstored
    <2>2. ASSUME NEW e \in Event, NEW members \in SUBSET Channels, NEW live \in SUBSET Subs,
                 NEW before \in Wires(LogEnd), Storing(e, members, live, before)
          PROVE  \A s : s \in relay.archived => s \in relay'.archived
                                      \/ \E i \in Ids' : ChannelOf(i)' = s /\ Change(i)'
        <3>1. /\ LogEnd + 1 \in Ids' /\ relay'.log[LogEnd + 1] = e
              /\ relay'.archived = IF e.kind = "added" THEN relay.archived \ {e.channel}
                                                       ELSE relay.archived
            BY <2>2, StoreShape DEF Storing, Typed
        <3>2. PICK n \in Ids' : relay'.log[n] = e
            BY <3>1
        <3>3. e.kind = "added" => ChannelOf(n)' = e.channel /\ Change(n)'
            BY <3>2 DEF ChannelOf, Change
        <3> QED BY <3>1, <3>2, <3>3
    <2> QED BY <2>1, <2>2, LogSteps
<1>6. ASSUME NEW s, Steady(s)' PROVE Steady(s)
    <2>1. CASE s = "membership"
        BY <2>1 DEF Steady
    <2>2. CASE s # "membership"
        <3>1. /\ s \in budget.joined /\ s \notin relay'.archived
              /\ \A i \in Ids' : ChannelOf(i)' = s => ~Change(i)'
            BY <1>4, <1>6, <2>2 DEF Steady
        <3>2. s \notin relay.archived
            BY <1>5, <3>1
        <3>3. \A i \in Ids : ChannelOf(i) = s => ~Change(i)
            BY <1>3, <3>1
        <3> QED BY <3>1, <3>2, <3>3 DEF Steady
    <2> QED BY <2>1, <2>2
<1> QED BY <1>3, <1>6 DEF LogKept

\* A generation learns the id it is given, and no other.
LEMMA LearnsOne ==
    ASSUME NEW d \in Dedup, NEW i
    PROVE  \A k : /\ Knows(Remember(d, i), k) => Knows(d, k) \/ k = i
                  /\ Knows(Forget(Remember(d, i), i), k) => Knows(d, k)
<1> DEFINE c == d.current \cup {i}
<1>1. CASE Cardinality(c) >= SeenLimit
    BY <1>1 DEF Remember, Forget, Knows, Dedup
<1>2. CASE ~(Cardinality(c) >= SeenLimit)
    BY <1>2 DEF Remember, Forget, Knows, Dedup
<1> QED BY <1>1, <1>2

\* The fields of BgState that an operation leaves alone.
SameMarks(b, a) ==
    b.lastSeen = a.lastSeen /\ b.dropped = a.dropped /\ b.floor = a.floor /\ b.active = a.active
SameFlags(b, a) == b.parked = a.parked /\ b.gated = a.gated /\ b.proactive = a.proactive

LEMMA ForwardedFields ==
    ASSUME NEW b, BgSound(b), NEW s, NEW i, NEW at, NEW a, a = Forwarded(b, s, i, at)
    PROVE  /\ a.active = b.active /\ a.dropped = b.dropped /\ a.floor = b.floor /\ SameFlags(a, b)
           /\ a.lastSeen = Raise(b.lastSeen, s, at) /\ a.seen = Remember(b.seen, i)
<1> DEFINE l == Raise(b.lastSeen, s, at)
           d == Remember(b.seen, i)
<1>1. b \in Bg
    BY DEF BgSound
<1>2. a = [b EXCEPT !.seen = d, !.lastSeen = l]
    BY DEF Forwarded
<1> HIDE DEF l, d
<1> QED BY ONLY <1>1, <1>2 DEF Bg, SameFlags, l, d

\* What the client forwards stays in the queue, and what the main loop takes it
\* delivers or heeds.
LEMMA ReachedStep ==
    ASSUME Typed, Remembered, LogKept, [Next]_vars
    PROVE  /\ \A i \in Ids : (Reached(i) => Reached(i)') /\ (Heeded(i) => Heeded(i)')
           /\ Remembered'
<1>0. /\ eventq \in Seq(0..LogEnd) /\ delivered \in Seq(1..LogEnd) /\ LogEnd \in Nat
      /\ Ids = 1..LogEnd /\ BgSound(bg) /\ bg.seen \in Dedup /\ main \in Main
      /\ relay \in Relay
    BY LogLen DEF Typed, RelayTyped, ClientTyped, LoopTyped, Queues, Takes, LogEnd, Ids,
                  BgSound, Bg
<1> DEFINE Goal == /\ \A i \in Ids : (Reached(i) => Reached(i)') /\ (Heeded(i) => Heeded(i)')
                   /\ Remembered'
<1>1. ASSUME ToSet(eventq) \subseteq ToSet(eventq'), UNCHANGED <<main, delivered>>
      PROVE  \A i \in Ids : (Reached(i) => Reached(i)') /\ (Heeded(i) => Heeded(i)')
    <2> SUFFICES ASSUME NEW i \in Ids
                 PROVE  (Reached(i) => Reached(i)') /\ (Heeded(i) => Heeded(i)')
        OBVIOUS
    <2>1. Time(i)' = Time(i) /\ Change(i)' = Change(i) /\ ChannelOf(i)' = ChannelOf(i)
        BY DEF LogKept
    <2>2. Heeded(i)' <=> Heeded(i)
        BY <1>1, <2>1 DEF Heeded
    <2> QED BY <1>1, <2>1, <2>2 DEF Reached
<1>2. ASSUME ToSet(eventq) \subseteq ToSet(eventq'), UNCHANGED <<main, delivered>>,
             bg'.seen = bg.seen
      PROVE  Goal
    <2>1. \A i \in Ids : i \in Ids'
        BY DEF LogKept
    <2>2. Remembered'
        BY <1>1, <1>2, <2>1 DEF Remembered, Knows
    <2> QED BY <1>1, <1>2, <2>2
<1>3. CASE UNCHANGED <<eventq, main, delivered, bg>>
    BY <1>2, <1>3
<1>4. CASE UNCHANGED vars \/ RelayStep
    <2>1. UNCHANGED <<eventq, delivered, bg, main>>
        BY <1>4, RelayStepTypes DEF vars, Typed, clientVars, loopVars
    <2> QED BY <1>3, <2>1
<1>5. CASE ReceiveEvent
    <2>1. PICK e, s, at : e = Head(wire).event /\ s = Head(wire).sub /\ at = relay.log[e].at
        OBVIOUS
    <2>2. e \in 0..LogEnd /\ e \in Ids
        BY <1>0, <1>5, <2>1, WireHead DEF ReceiveEvent, Typed
    <2>3. UNCHANGED <<main, delivered, relay>>
        BY <1>5 DEF ReceiveEvent, loopVars
    <2>4. CASE UNCHANGED <<bg, eventq>>
        BY <1>3, <2>3, <2>4
    <2>5. CASE eventq' = Append(eventq, e) /\ bg' = Forwarded(bg, s, e, at)
        <3>1. ToSet(eventq') = ToSet(eventq) \cup {e}
            BY <1>0, <2>2, <2>5, HeldAppend
        <3>2. bg'.seen = Remember(bg.seen, e)
            BY <1>0, <2>5, ForwardedFields
        <3>3. \A i : Knows(bg'.seen, i) => Knows(bg.seen, i) \/ i = e
            BY <1>0, <3>2, LearnsOne
        <3>4. \A i \in Ids : (Reached(i) => Reached(i)') /\ (Heeded(i) => Heeded(i)')
            BY <1>1, <2>3, <3>1
        <3>5. Reached(e)' /\ Ids' = Ids
            BY <2>3, <3>1 DEF Reached, Ids
        <3>6. Remembered'
            BY <2>2, <2>3, <3>3, <3>4, <3>5 DEF Remembered
        <3> QED BY <3>4, <3>6
    <2>6. CASE eventq' = eventq /\ bg' = Refused(bg, s, e, at)
        <3>1. bg'.seen = Forget(Remember(bg.seen, e), e)
            BY <1>0, <2>6 DEF Refused, BgSound, Bg
        <3>2. \A i : Knows(bg'.seen, i) => Knows(bg.seen, i)
            BY <1>0, <3>1, LearnsOne
        <3>3. \A i \in Ids : (Reached(i) => Reached(i)') /\ (Heeded(i) => Heeded(i)')
            BY <1>1, <2>3, <2>6
        <3>4. Ids' = Ids
            BY <2>3 DEF Ids
        <3>5. Remembered'
            BY <2>3, <3>2, <3>3, <3>4 DEF Remembered
        <3> QED BY <3>3, <3>5
    <2> QED BY <1>5, <2>1, <2>4, <2>5, <2>6 DEF ReceiveEvent
<1>6. CASE ClientStep /\ ~ReceiveEvent
    <2>1. /\ bg'.seen = bg.seen /\ (eventq' = eventq \/ eventq' = Append(eventq, 0))
          /\ UNCHANGED <<main, delivered>>
        BY <1>6, SeenKept, OutsideLoop
    <2>2. ToSet(eventq) \subseteq ToSet(eventq')
        <3>1. 0 \in 0..LogEnd
            BY <1>0
        <3>2. ToSet(Append(eventq, 0)) = ToSet(eventq) \cup {0}
            BY <1>0, <3>1, HeldAppend
        <3> QED BY <2>1, <3>2
    <2> QED BY <1>2, <2>1, <2>2
<1>7. CASE \/ TurnSucceeds \/ TurnFails \/ Maintenance \/ RetryDeadline \/ RetryFires
            \/ WakePanics \/ TakeWakeResult \/ JoinWakeTask \/ Sleep \/ StopLoop
            \/ (\E c \in Channels : BackoffExpires(c))
            \/ (\E ok \in BOOLEAN : WakeReturns(ok)) \/ AbortWake \/ Exit
    <2>1. UNCHANGED <<eventq, delivered, bg, main>>
        BY <1>7 DEF TurnSucceeds, TurnFails, Maintenance, RetryDeadline, RetryFires,
           WakePanics, TakeWakeResult, JoinWakeTask, Sleep, StopLoop, BackoffExpires,
           WakeReturns, AbortWake, Exit, LoopStep, clientVars
    <2> QED BY <1>3, <2>1
<1>8. CASE TakeSentinel \/ TakeMessage \/ SkipNotification \/ ApplyAdded \/ ApplyRemoved
    <2>1. eventq # <<>> /\ eventq' = Tail(eventq) /\ UNCHANGED <<relay, bg>>
        BY <1>8 DEF TakeSentinel, TakeMessage, SkipNotification, ApplyAdded, ApplyRemoved,
                    Applies, Taking, clientVars, relayVars
    <2>2. PICK h \in 0..LogEnd : h = Head(eventq)
        BY <1>0, <2>1
    <2>3. ToSet(eventq) = {h} \cup ToSet(eventq')
        BY <1>0, <2>1, <2>2, HeldTail
    <2>4. Ids' = Ids
        BY <2>1 DEF Ids
    \* It is enough that the head has reached, and that the watermarks rise.
    <2>5. ASSUME \A i \in Ids : Heeded(i) => Heeded(i)', ToSet(delivered) \subseteq ToSet(delivered'),
                 h # 0 => (IF Change(h) THEN Heeded(h)' ELSE h \in ToSet(delivered')),
                 \A i : Knows(main'.seen, i) => Knows(main.seen, i) \/ (i \in Ids /\ Heeded(i)')
          PROVE  Goal
        <3>1. ASSUME NEW i \in Ids, Reached(i) PROVE Reached(i)'
            <4>1. Change(i)' = Change(i) /\ i # 0
                BY <1>0 DEF LogKept
            <4>2. CASE i = h
                BY <2>5, <4>1, <4>2 DEF Reached
            <4>3. CASE i # h
                BY <2>3, <2>5, <3>1, <4>1, <4>3 DEF Reached
            <4> QED BY <4>2, <4>3
        <3>2. Remembered'
            BY <2>1, <2>4, <2>5, <3>1 DEF Remembered
        <3> QED BY <2>5, <3>1, <3>2
    <2>6. CASE TakeSentinel
        <3>1. h = 0 /\ UNCHANGED <<main, delivered>>
            BY <1>8, <2>2, <2>6 DEF TakeSentinel, loopVars
        <3>2. \A i \in Ids : Heeded(i) => Heeded(i)'
            BY <2>1, <3>1 DEF Heeded, Time, ChannelOf
        <3> QED BY <2>5, <3>1, <3>2
    <2>7. CASE TakeMessage
        <3>1. h # 0 /\ ~Change(h) /\ main' = main /\ delivered' = Append(delivered, h)
            BY <2>2, <2>7 DEF TakeMessage, Taking, Change
        <3>2. h \in 1..LogEnd
            BY <1>0, <3>1
        <3>3. ToSet(delivered') = ToSet(delivered) \cup {h}
            BY <1>0, <3>1, <3>2, HeldAppend
        <3>4. \A i \in Ids : Heeded(i) => Heeded(i)'
            BY <2>1, <3>1 DEF Heeded, Time, ChannelOf
        <3> QED BY <2>5, <3>1, <3>3, <3>4
    <2>8. CASE SkipNotification
        <3>1. /\ h # 0 /\ Change(h) /\ delivered' = delivered
              /\ Knows(main.seen, h) \/ IsStale(h)
              /\ main' = main \/ main' = [main EXCEPT !.seen = Remember(@, h)]
            BY <2>2, <2>8 DEF SkipNotification, Taking, Change
        <3>2. h \in Ids /\ relay.log[h] \in Event
            BY <1>0, <3>1, LogEvent DEF LogEnd
        <3>3. Heeded(h)
            <4>1. CASE IsStale(h)
                <5>1. ChannelOf(h) \in DOMAIN main.newest /\ Time(h) < main.newest[ChannelOf(h)]
                    BY <4>1 DEF IsStale, Time, ChannelOf
                <5>2. Time(h) \in Nat /\ main.newest[ChannelOf(h)] \in Nat
                    <6>1. main.newest \in [DOMAIN main.newest -> Nat]
                        BY <1>0, MapsAre DEF Main
                    <6> QED BY <3>2, <5>1, <6>1 DEF Event, Time
                <5> QED BY <5>1, <5>2 DEF Heeded
            <4> QED BY <3>1, <4>1 DEF Remembered
        <3>4. main'.newest = main.newest /\ main'.seen \in {main.seen, Remember(main.seen, h)}
            BY <1>0, <3>1 DEF Main
        <3>5. \A i \in Ids : Heeded(i) => Heeded(i)'
            BY <2>1, <3>4 DEF Heeded, Time, ChannelOf
        <3>6. \A i : Knows(main'.seen, i) => Knows(main.seen, i) \/ i = h
            BY <1>0, <3>4, LearnsOne DEF Main
        <3> QED BY <2>5, <3>1, <3>2, <3>3, <3>5, <3>6
    <2>9. CASE ApplyAdded \/ ApplyRemoved
        <3>1. /\ h # 0 /\ Change(h) /\ delivered' = delivered /\ ~IsStale(h)
            BY <2>2, <2>9 DEF ApplyAdded, ApplyRemoved, Applies, Taking, Change
        <3>2. h \in Ids /\ relay.log[h] \in Event
            BY <1>0, <3>1, LogEvent DEF LogEnd
        <3> DEFINE c == ChannelOf(h)
                   t == Time(h)
                   p == Put(main.newest, c, t)
                   d == Remember(main.seen, h)
        <3>3. main'.newest = p /\ main'.seen = d
            <4>1. c = ChannelOf(h) /\ t = relay.log[h].at
                BY DEF Time
            <4> HIDE DEF c, t
            <4>2. \E R, S : main' = [[main EXCEPT !.seen = d, !.newest = p]
                                        EXCEPT !.removed = R, !.subscribed = S]
                BY <2>2, <2>9, <4>1 DEF ApplyAdded, ApplyRemoved, Noted
            <4> HIDE DEF d, p
            <4> QED BY <1>0, <4>2 DEF Main
        <3>4. t \in Nat /\ c \in Subs /\ main.newest \in [DOMAIN main.newest -> Nat]
            BY <1>0, <3>2, MapsAre DEF Main, Event, Time, ChannelOf, Subs
        <3>5. /\ DOMAIN p = DOMAIN main.newest \cup {c} /\ p[c] = t
              /\ \A x \in DOMAIN main.newest \ {c} : p[x] = main.newest[x]
            BY DEF Put
        <3>6. c \in DOMAIN main.newest => main.newest[c] <= t
            BY <3>1, <3>4 DEF IsStale, Time, ChannelOf
        <3> HIDE DEF c, t, p, d
        <3>7. ASSUME NEW i \in Ids, Heeded(i) PROVE Heeded(i)'
            <4>1. Time(i)' = Time(i) /\ ChannelOf(i)' = ChannelOf(i)
                BY DEF LogKept
            <4>2. Time(i) \in Nat
                BY <1>0, LogEvent DEF Event, Time, LogEnd
            <4>3. /\ ChannelOf(i) \in DOMAIN main.newest
                  /\ main.newest[ChannelOf(i)] >= Time(i)
                BY <3>7 DEF Heeded
            <4>4. CASE ChannelOf(i) = c
                <5>1. p[ChannelOf(i)] >= Time(i)
                    BY <3>4, <3>5, <3>6, <4>2, <4>3, <4>4
                <5> QED BY <3>3, <3>5, <4>1, <4>3, <5>1 DEF Heeded
            <4>5. CASE ChannelOf(i) # c
                BY <3>3, <3>5, <4>1, <4>3, <4>5 DEF Heeded
            <4> QED BY <4>4, <4>5
        <3>8. Heeded(h)'
            <4>1. Time(h)' = t /\ ChannelOf(h)' = c
                BY <3>2 DEF LogKept, c, t
            <4> QED BY <3>3, <3>4, <3>5, <4>1 DEF Heeded
        <3>9. \A i : Knows(main'.seen, i) => Knows(main.seen, i) \/ i = h
            BY <1>0, <3>3, LearnsOne DEF Main, d
        <3> QED BY <2>5, <3>1, <3>2, <3>7, <3>8, <3>9
    <2> QED BY <1>8, <2>6, <2>7, <2>8, <2>9
<1> QED BY <1>4, <1>5, <1>6, <1>7, <1>8 DEF Next, MainStep

-----------------------------------------------------------------------------
(* Every step carries the events on                                         *)

\* What has reached the main loop stays there.
ReachedKept == \A i \in Ids : Reached(i) => Reached(i)'

\* Neither the relay nor the background task moves.
LEMMA UnmovedCarries ==
    ASSUME Carried, LogKept, ReachedKept, UNCHANGED <<relay, wire, reqs, phase, todo, bg>>,
           \A c \in ToSet(cmds') : c \in ToSet(cmds) \/ c.op = "reconnect" \/ ~Steady(c.channel)
    PROVE  Carried'
<1>1. Ids' = Ids /\ \A s : Steady(s)' => Steady(s)
    BY DEF Ids, LogKept
<1>2. \A i \in Ids : Time(i)' = Time(i) /\ Sub(i)' = Sub(i)
    BY DEF LogKept
<1>3. Clocked'
    BY <1>1, <1>2 DEF Carried, Clocked
<1>4. Framed'
    <2>1. \A f \in ToSet(wire') : f.closed = "none" => f.sub = Sub(f.event)'
        BY DEF Carried, Framed, Sub
    <2>2. \A f \in ToSet(wire') : f.closed = "denied" => ~Steady(f.sub)'
        BY <1>1 DEF Carried, Framed
    <2>3. \A r \in ToSet(reqs') : r.close => ~Steady(r.sub)'
        BY <1>1 DEF Carried, Framed
    <2>4. \A c \in ToSet(cmds') : c.op # "reconnect" => ~Steady(c.channel)'
        BY <1>1 DEF Carried, Framed
    <2> QED BY <2>1, <2>2, <2>3, <2>4 DEF Framed
<1>5. Rooted' /\ Uncut'
    BY <1>1 DEF Carried, Rooted, Uncut
<1>6. \A s, t : /\ Asked(s, t)' = Asked(s, t) /\ Lost(s)' = Lost(s)
                /\ Missing(s, t)' = Missing(s, t)
    BY DEF Asked, Lost, Pending, Bounced, Missing, Passed, Noticed
<1>7. Listens'
    BY <1>1, <1>6 DEF Carried, Listens
<1>8. Flows'
    <2> SUFFICES ASSUME NEW i \in Ids, Steady(Sub(i))'
                 PROVE  \/ Reached(i)' \/ OnWire(i)' \/ Asked(Sub(i), Time(i))'
                        \/ Missing(Sub(i), Time(i))'
        BY <1>1 DEF Flows
    <2>1. Steady(Sub(i))
        BY <1>1, <1>2
    <2>2. OnWire(i)' = OnWire(i)
        BY DEF OnWire
    <2>3. Reached(i) \/ OnWire(i) \/ Asked(Sub(i), Time(i)) \/ Missing(Sub(i), Time(i))
        BY <2>1 DEF Carried, Flows
    <2>4. Asked(Sub(i), Time(i)) => Asked(Sub(i), Time(i))'
        BY <1>2 DEF Asked
    <2>5. Missing(Sub(i), Time(i)) => Missing(Sub(i), Time(i))'
        BY <1>2 DEF Missing, Lost, Pending, Bounced, Passed, Noticed
    <2> QED BY <2>2, <2>3, <2>4, <2>5 DEF ReachedKept
<1> QED BY <1>3, <1>4, <1>5, <1>7, <1>8 DEF Carried

\* The background task moves: it takes frames off the socket and commands off
\* their channel, sends REQs, and changes BgState.
LEMMA ClientCarries ==
    ASSUME Typed, Carried, LogKept, ReachedKept, relay' = relay,
           ToSet(wire') \subseteq ToSet(wire), ToSet(cmds') \subseteq ToSet(cmds),
           ToSet(reqs) \subseteq ToSet(reqs'),
           \A r \in ToSet(reqs') : r \in ToSet(reqs) \/ ~r.close \/ ~Steady(r.sub),
           \A s \in DOMAIN bg'.lastSeen : bg'.lastSeen[s] <= relay.clock,
           DOMAIN bg'.dropped \subseteq DOMAIN bg'.lastSeen,
           \A c \in Channels : Steady(c) => c \in bg'.active /\ bg'.floor[c] = bg.floor[c],
           relay.cut \/ (phase' # "down" /\ bg'.parked = {} /\ ~bg'.gated),
           \A s \in Subs : Steady(s) /\ relay.cut /\ Lost(s)
                             => Lost(s)' \/ Asked(s, relay.clock)',
           \A i \in Ids : Steady(Sub(i)) /\ OnWire(i)
                            => Reached(i)' \/ OnWire(i)' \/ Missing(Sub(i), Time(i))',
           \A s \in Subs : \A t \in Nat : Steady(s) /\ Missing(s, t)
                                            => Asked(s, t)' \/ Missing(s, t)'
    PROVE  Carried'
<1>1. Ids' = Ids /\ \A s : Steady(s)' => Steady(s)
    BY DEF Ids, LogKept
<1>2. \A i \in Ids : Time(i)' = Time(i) /\ Sub(i)' = Sub(i)
    BY DEF LogKept
<1>3. Clocked'
    BY <1>1, <1>2 DEF Carried, Clocked
<1>4. Framed'
    <2>1. \A f \in ToSet(wire') : f.closed = "none" => f.sub = Sub(f.event)'
        BY DEF Carried, Framed, Sub
    <2>2. \A f \in ToSet(wire') : f.closed = "denied" => ~Steady(f.sub)'
        BY <1>1 DEF Carried, Framed
    <2>3. \A r \in ToSet(reqs') : r.close => ~Steady(r.sub)'
        BY <1>1 DEF Carried, Framed
    <2>4. \A c \in ToSet(cmds') : c.op # "reconnect" => ~Steady(c.channel)'
        BY <1>1 DEF Carried, Framed
    <2> QED BY <2>1, <2>2, <2>3, <2>4 DEF Framed
<1>5. Rooted'
    BY <1>1 DEF Carried, Rooted
<1>6. Uncut'
    BY DEF Carried, Uncut
<1>7. \A s, t : Asked(s, t) => Asked(s, t)'
    BY DEF Asked
<1>8. Listens'
    <2> SUFFICES ASSUME NEW s \in Subs, Steady(s)'
                 PROVE  s \in relay'.live \/ (relay'.cut /\ (Asked(s, relay.clock)' \/ Lost(s)'))
        BY DEF Listens
    <2>1. Steady(s)
        BY <1>1
    <2>2. s \in relay.live \/ (relay.cut /\ (Asked(s, relay.clock) \/ Lost(s)))
        BY <2>1 DEF Carried, Listens
    <2>3. Asked(s, relay.clock) => Asked(s, relay.clock)'
        BY DEF Asked
    <2> QED BY <2>1, <2>2, <2>3
<1>9. Flows'
    <2> SUFFICES ASSUME NEW i \in Ids, Steady(Sub(i))'
                 PROVE  \/ Reached(i)' \/ OnWire(i)' \/ Asked(Sub(i), Time(i))'
                        \/ Missing(Sub(i), Time(i))'
        BY <1>1 DEF Flows
    <2>1. Steady(Sub(i))
        BY <1>1, <1>2
    <2>2. PICK s, t : s = Sub(i) /\ t = Time(i)
        OBVIOUS
    <2>3. s \in Subs /\ t \in Nat
        <3>1. relay.log[i] \in Event
            BY LogLen, LogEvent DEF Typed, RelayTyped, Ids
        <3> QED BY <2>2, <3>1 DEF Sub, SubOf, Subs, Event, Time
    <2>4. /\ Asked(Sub(i), Time(i))' <=> Asked(s, t)'
          /\ Missing(Sub(i), Time(i))' <=> Missing(s, t)'
        <3>1. Sub(i)' = s /\ Time(i)' = t
            BY <1>2, <2>2
        <3> QED BY <3>1 DEF Asked, Missing, Lost, Pending, Bounced, Passed, Noticed
    <2>5. Reached(i) \/ OnWire(i) \/ Asked(s, t) \/ Missing(s, t)
        BY <2>1, <2>2 DEF Carried, Flows
    <2>6. CASE Reached(i)
        BY <2>6 DEF ReachedKept
    <2>7. CASE OnWire(i)
        BY <2>1, <2>7
    <2>8. CASE Asked(s, t)
        BY <1>7, <2>4, <2>8
    <2>9. CASE Missing(s, t)
        BY <2>1, <2>2, <2>3, <2>4, <2>9
    <2> QED BY <2>5, <2>6, <2>7, <2>8, <2>9
<1> QED BY <1>3, <1>4, <1>5, <1>6, <1>8, <1>9 DEF Carried

\* A REQ of a steady subscription asks for all that is missing, or for what is new.
LEMMA SentCarries ==
    ASSUME Typed, Carried, relay' = relay, NEW s \in Subs, Steady(s),
           Req(s, Since(bg, s)) \in ToSet(reqs'), bg'.lastSeen = bg.lastSeen
    PROVE  /\ Asked(s, relay.clock)'
           /\ \A t \in Nat : Missing(s, t) => Asked(s, t)' \/ Missing(s, t)'
<1>1. /\ BgSound(bg) /\ relay.clock \in Nat /\ Clocked /\ Skew \in Nat
    BY RelayClientConstants DEF Typed, RelayTyped, ClientTyped, Relay, Carried
<1>2. s \in bg.active \cup {"membership"}
    BY DEF Carried, Rooted, Subs
<1>3. s \notin DOMAIN bg.lastSeen => bg.floor[s] = 0
    BY <1>1 DEF Carried, Rooted, Subs, BgSound
<1>4. DOMAIN bg.dropped \subseteq DOMAIN bg.lastSeen
    BY <1>1 DEF Clocked
<1>5. PICK r : r = Req(s, Since(bg, s))
    OBVIOUS
<1>6. ASSUME NEW t \in Nat
      PROVE  /\ r.since <= t \/ Passed(s, t)
             /\ s \in DOMAIN bg.dropped /\ bg.dropped[s] <= t => r.since <= t
             /\ r.sub = s /\ ~r.close
    BY <1>1, <1>2, <1>3, <1>4, <1>5, ReqCovers DEF Passed
<1>7. r \in ToSet(reqs')
    BY <1>5
<1>8. ASSUME NEW t \in Nat, r.since <= t PROVE Asked(s, t)'
    BY <1>6, <1>7, <1>8 DEF Asked
<1>9. Asked(s, relay.clock)'
    <2>1. ~Passed(s, relay.clock)
        <3> SUFFICES ASSUME s \in DOMAIN bg.lastSeen PROVE ~(relay.clock + Skew < bg.lastSeen[s])
            BY DEF Passed
        <3>1. bg.lastSeen[s] <= relay.clock
            BY <1>1 DEF Clocked
        <3>2. bg.lastSeen[s] \in Nat
            <4>1. bg.lastSeen \in [DOMAIN bg.lastSeen -> Nat]
                BY <1>1, MapsAre DEF BgSound, Bg
            <4> QED BY <4>1
        <3> QED BY <1>1, <3>1, <3>2
    <2>2. PICK t \in Nat : t = relay.clock
        BY <1>1
    <2>3. Asked(s, t)'
        BY <1>6, <1>8, <2>1, <2>2
    <2> QED BY <2>2, <2>3 DEF Asked
<1>10. ASSUME NEW t \in Nat, Missing(s, t) PROVE Asked(s, t)' \/ Missing(s, t)'
    <2>1. CASE r.since <= t
        BY <1>8, <2>1
    <2>2. CASE ~(r.since <= t)
        <3>1. Passed(s, t) /\ ~Noticed(s, t)
            BY <1>6, <2>2 DEF Noticed
        <3>2. relay.cut
            BY <1>10, <3>1 DEF Missing
        <3>3. Passed(s, t)'
            BY <3>1 DEF Passed
        <3> QED BY <3>2, <3>3 DEF Missing
    <2> QED BY <2>1, <2>2
<1> QED BY <1>9, <1>10

\* Taking a frame off the socket.
LEMMA FrameTaken ==
    ASSUME Typed, wire # <<>>, wire' = Tail(wire)
    PROVE  /\ ToSet(wire) = {Head(wire)} \cup ToSet(wire')
           /\ Head(wire) \in ToSet(wire) /\ ToSet(wire') \subseteq ToSet(wire)
<1>1. wire \in Seq(Frames(LogEnd))
    BY DEF Typed, RelayTyped, Wires
<1>2. ToSet(wire) = {Head(wire)} \cup ToSet(Tail(wire)) /\ Head(wire) \in ToSet(wire)
    BY <1>1, HeldTail
<1> QED BY <1>2

LEMMA ReceiveEventCarries ==
    ASSUME Typed, Carried, Remembered, LogKept, ReachedKept, ReceiveEvent
    PROVE  Carried'
<1>1. PICK f, e, s, at : f = Head(wire) /\ e = f.event /\ s = f.sub /\ at = Time(e)
    OBVIOUS
<1>2. /\ phase = "up" /\ ~bg.proactive /\ wire # <<>> /\ f.closed = "none"
      /\ wire' = Tail(wire) /\ UNCHANGED <<relay, reqs, phase, todo, cmds, main, delivered>>
      /\ \/ Knows(bg.seen, e) /\ UNCHANGED <<bg, eventq>>
         \/ eventq' = Append(eventq, e) /\ bg' = Forwarded(bg, s, e, at)
         \/ eventq' = eventq /\ bg' = Refused(bg, s, e, at)
    BY <1>1 DEF ReceiveEvent, loopVars, Time
<1>3. /\ BgSound(bg) /\ bg.lastSeen \in Maps /\ bg.dropped \in Maps /\ Ids = 1..LogEnd
      /\ LogEnd \in Nat /\ eventq \in Seq(0..LogEnd) /\ relay \in Relay /\ Skew \in Nat
      /\ relay.clock \in Nat
    BY LogLen, RelayClientConstants
       DEF Typed, RelayTyped, ClientTyped, LoopTyped, BgSound, Bg, Ids, LogEnd, Queues, Relay
<1>4. ToSet(wire) = {f} \cup ToSet(wire') /\ f \in ToSet(wire)
    BY <1>1, <1>2, FrameTaken
<1>5. e \in Ids /\ s \in Subs /\ s = Sub(e)
    <2>1. e \in Ids /\ s \in Subs
        BY <1>1, <1>2, <1>3, WireHead DEF Typed
    <2> QED BY <1>1, <1>2, <1>4, <2>1 DEF Carried, Framed
<1>6. at \in Nat /\ at <= relay.clock
    <2>1. relay.log[e] \in Event
        BY <1>3, <1>5, LogEvent DEF LogEnd
    <2> QED BY <1>1, <1>5, <2>1 DEF Event, Time, Carried, Clocked
<1>7. \A x : Bounced(x) <=> Bounced(x)'
    BY <1>2, <1>4 DEF Bounced
<1>8. \A i \in Ids : OnWire(i) => OnWire(i)' \/ i = e
    BY <1>1, <1>4 DEF OnWire
<1>9. \A t : \A x : ~Noticed(x, t)
    BY <1>2 DEF Noticed
<1>10. /\ \A c \in Channels : Steady(c) => c \in bg.active
       /\ relay.cut \/ (phase # "down" /\ bg.parked = {} /\ ~bg.gated)
       /\ \A x \in DOMAIN bg.lastSeen : bg.lastSeen[x] <= relay.clock
       /\ DOMAIN bg.dropped \subseteq DOMAIN bg.lastSeen
    BY DEF Carried, Rooted, Uncut, Clocked
<1>11. PICK l \in Maps, d \in Maps : l = bg.lastSeen /\ d = bg.dropped
    BY <1>3
<1>12. /\ DOMAIN Raise(l, s, at) = DOMAIN l \cup {s} /\ DOMAIN Lower(d, s, at) = DOMAIN d \cup {s}
       /\ Raise(l, s, at) \in Maps
    BY <1>5, <1>6, MarksMaps
<1>13. /\ \A x \in DOMAIN l \ {s} : Raise(l, s, at)[x] = l[x]
       /\ \A x \in DOMAIN l : l[x] \in Nat
       /\ s \in DOMAIN l => Raise(l, s, at)[s] >= l[s]
       /\ Raise(l, s, at)[s] = at \/ (s \in DOMAIN l /\ Raise(l, s, at)[s] = l[s])
       /\ Lower(d, s, at)[s] <= at
    BY <1>5, <1>6, MarksMove
<1>14. /\ \A x \in DOMAIN l : Raise(l, s, at)[x] >= l[x] /\ l[x] \in Nat
       /\ \A x \in DOMAIN Raise(l, s, at) :
             Raise(l, s, at)[x] <= relay.clock /\ Raise(l, s, at)[x] \in Nat
    BY <1>6, <1>10, <1>11, <1>12, <1>13
<1>15. CASE Knows(bg.seen, e) /\ UNCHANGED <<bg, eventq>>
    <2>1. Reached(e)'
        BY <1>5, <1>15 DEF Remembered, ReachedKept
    <2>2. \A x : Lost(x) => Lost(x)'
        BY <1>2, <1>7, <1>15 DEF Lost, Pending
    <2>3. \A x, t : Missing(x, t) => Missing(x, t)'
        BY <1>2, <1>9, <1>15, <2>2 DEF Missing, Passed
    <2> QED BY <1>2, <1>4, <1>8, <1>10, <1>15, <2>1, <2>2, <2>3, ClientCarries
<1>16. CASE eventq' = Append(eventq, e) /\ bg' = Forwarded(bg, s, e, at)
    <2>1. Reached(e)'
        <3>1. e \in 0..LogEnd
            BY <1>3, <1>5
        <3>2. e \in ToSet(eventq')
            BY <1>3, <1>16, <3>1, HeldAppend
        <3> QED BY <3>2 DEF Reached
    <2>2. /\ bg'.active = bg.active /\ bg'.dropped = bg.dropped /\ bg'.floor = bg.floor
          /\ SameFlags(bg', bg) /\ bg'.lastSeen = Raise(bg.lastSeen, s, at)
        BY <1>3, <1>16, ForwardedFields
    <2>3. /\ DOMAIN bg'.lastSeen = DOMAIN bg.lastSeen \cup {s}
          /\ \A x \in DOMAIN bg.lastSeen : bg'.lastSeen[x] >= bg.lastSeen[x]
          /\ \A x \in DOMAIN bg'.lastSeen : bg'.lastSeen[x] <= relay.clock /\ bg'.lastSeen[x] \in Nat
          /\ \A x \in DOMAIN bg.lastSeen : bg.lastSeen[x] \in Nat
        BY <1>11, <1>12, <1>14, <2>2
    <2>4. \A x : Lost(x) => Lost(x)'
        BY <1>2, <1>7, <2>2 DEF Lost, Pending, SameFlags
    <2>5. \A x : \A t \in Nat : Missing(x, t) => Missing(x, t)'
        <3>1. \A x : \A t \in Nat : Passed(x, t) => Passed(x, t)'
            BY <1>3, <2>3 DEF Passed
        <3> QED BY <1>2, <1>9, <2>4, <3>1 DEF Missing
    <2>6. /\ \A c \in Channels : Steady(c) => c \in bg'.active /\ bg'.floor[c] = bg.floor[c]
          /\ relay.cut \/ (phase' # "down" /\ bg'.parked = {} /\ ~bg'.gated)
          /\ DOMAIN bg'.dropped \subseteq DOMAIN bg'.lastSeen
        BY <1>2, <1>10, <2>2, <2>3 DEF SameFlags
    <2> QED BY <1>2, <1>4, <1>8, <2>1, <2>3, <2>4, <2>5, <2>6, ClientCarries
<1>17. CASE eventq' = eventq /\ bg' = Refused(bg, s, e, at)
    <2>1. /\ bg'.active = bg.active /\ bg'.floor = bg.floor /\ bg'.parked = bg.parked
          /\ bg'.gated = bg.gated /\ bg'.proactive = TRUE
        BY <1>3, <1>17 DEF Refused, BgSound, Bg
    <2>2. bg'.dropped = Lower(bg.dropped, s, at)
        BY <1>3, <1>17 DEF Refused, BgSound, Bg
    <2>3. bg'.lastSeen = Raise(bg.lastSeen, s, at)
          \/ (s \notin Channels /\ bg'.lastSeen = bg.lastSeen)
        BY <1>3, <1>17 DEF Refused, BgSound, Bg
    <2>4. DOMAIN bg'.dropped = DOMAIN bg.dropped \cup {s} /\ bg'.dropped[s] <= at
        BY <1>11, <1>12, <1>13, <2>2
    <2>5. DOMAIN bg'.lastSeen = DOMAIN bg.lastSeen \cup {s}
        <3>1. CASE bg'.lastSeen = Raise(bg.lastSeen, s, at)
            BY <1>11, <1>12, <3>1
        <3>2. CASE s \notin Channels /\ bg'.lastSeen = bg.lastSeen
            BY <1>3, <1>5, <3>2 DEF Subs, BgSound
        <3> QED BY <2>3, <3>1, <3>2
    <2>6. \A x \in DOMAIN bg'.lastSeen : bg'.lastSeen[x] <= relay.clock
        BY <1>10, <1>11, <1>14, <2>3
    <2>7. \A x : Lost(x)'
        BY <2>1 DEF Lost, Pending
    <2>8. Missing(Sub(e), Time(e))'
        <3>1. Sub(e)' = s /\ Time(e)' = at
            BY <1>1, <1>5 DEF LogKept
        <3> QED BY <2>1, <2>4, <3>1 DEF Missing, Noticed
    <2>9. \A x, t : Missing(x, t) => Missing(x, t)'
        BY <1>2, <1>9, <2>7 DEF Missing
    <2>10. /\ \A c \in Channels : Steady(c) => c \in bg'.active /\ bg'.floor[c] = bg.floor[c]
           /\ relay.cut \/ (phase' # "down" /\ bg'.parked = {} /\ ~bg'.gated)
           /\ DOMAIN bg'.dropped \subseteq DOMAIN bg'.lastSeen
        BY <1>2, <1>10, <2>1, <2>4, <2>5
    <2> QED BY <1>2, <1>4, <1>8, <2>6, <2>7, <2>8, <2>9, <2>10, ClientCarries
<1> QED BY <1>2, <1>15, <1>16, <1>17

\* The background task leaves all but one subscription alone.
Untouched(b, a, s) ==
    /\ s \in DOMAIN a.lastSeen <=> s \in DOMAIN b.lastSeen
    /\ s \in DOMAIN b.lastSeen => a.lastSeen[s] = b.lastSeen[s]
    /\ s \in DOMAIN a.dropped <=> s \in DOMAIN b.dropped
    /\ s \in DOMAIN b.dropped => a.dropped[s] = b.dropped[s]
    /\ s \in a.parked <=> s \in b.parked
    /\ s \in b.active => s \in a.active /\ a.floor[s] = b.floor[s]

OnlyTouches(b, a, c) ==
    /\ \A s \in Subs \ {c} : Untouched(b, a, s)
    /\ a.proactive = b.proactive /\ a.gated = b.gated /\ a.parked \subseteq b.parked \cup {c}
    /\ \A s \in DOMAIN a.lastSeen : s \in DOMAIN b.lastSeen /\ a.lastSeen[s] = b.lastSeen[s]
    /\ DOMAIN b.dropped \subseteq DOMAIN b.lastSeen => DOMAIN a.dropped \subseteq DOMAIN a.lastSeen

LEMMA WithoutIs ==
    ASSUME NEW m, NEW k
    PROVE  /\ DOMAIN Without(m, k) = DOMAIN m \ {k}
           /\ \A x \in DOMAIN m \ {k} : Without(m, k)[x] = m[x]
BY DEF Without

LEMMA ClearedTouches ==
    ASSUME NEW b, BgSound(b), NEW c, NEW a, a = Cleared(b, c)
    PROVE  OnlyTouches(b, a, c) /\ a.parked = b.parked \ {c}
<1> DEFINE l == Without(b.lastSeen, c)
           o == Without(b.dropped, c)
           f == Without(b.floor, c)
<1>1. b \in Bg /\ b.active \subseteq DOMAIN b.floor
    BY DEF BgSound
<1>2. a = [b EXCEPT !.active = @ \ {c}, !.lastSeen = l, !.dropped = o, !.floor = f,
                    !.parked = @ \ {c}]
    BY DEF Cleared
<1>3. /\ DOMAIN l = DOMAIN b.lastSeen \ {c} /\ \A x \in DOMAIN b.lastSeen \ {c} : l[x] = b.lastSeen[x]
      /\ DOMAIN o = DOMAIN b.dropped \ {c} /\ \A x \in DOMAIN b.dropped \ {c} : o[x] = b.dropped[x]
      /\ DOMAIN f = DOMAIN b.floor \ {c} /\ \A x \in DOMAIN b.floor \ {c} : f[x] = b.floor[x]
    BY WithoutIs
<1> HIDE DEF l, o, f
<1>4. /\ a.active = b.active \ {c} /\ a.lastSeen = l /\ a.dropped = o /\ a.floor = f
      /\ a.parked = b.parked \ {c} /\ a.gated = b.gated /\ a.proactive = b.proactive
    BY ONLY <1>1, <1>2 DEF Bg
<1> QED BY <1>1, <1>3, <1>4 DEF OnlyTouches, Untouched

LEMMA IntendedTouches ==
    ASSUME NEW b, BgSound(b), NEW c, NEW t, NEW a, a = Intended(b, c, t)
    PROVE  OnlyTouches(b, a, c) /\ a.parked = b.parked
<1> DEFINE f == IF c \in DOMAIN b.floor THEN b.floor ELSE Put(b.floor, c, t)
<1>1. b \in Bg /\ b.active \subseteq DOMAIN b.floor
    BY DEF BgSound
<1>2. a = [b EXCEPT !.active = @ \cup {c}, !.floor = f]
    BY DEF Intended
<1>3. \A x \in DOMAIN b.floor \ {c} : f[x] = b.floor[x]
    BY DEF Put
<1> HIDE DEF f
<1>4. /\ a.active = b.active \cup {c} /\ a.lastSeen = b.lastSeen /\ a.dropped = b.dropped
      /\ a.floor = f /\ a.parked = b.parked /\ a.gated = b.gated /\ a.proactive = b.proactive
    BY ONLY <1>1, <1>2 DEF Bg
<1> QED BY <1>1, <1>3, <1>4 DEF OnlyTouches, Untouched

LEMMA ReplayingTouches ==
    ASSUME NEW b, BgSound(b), NEW c, NEW a, a = Replaying(b, c)
    PROVE  OnlyTouches(b, a, c) /\ a.parked = b.parked /\ a.lastSeen = b.lastSeen
           /\ a.active = b.active /\ a.floor = b.floor
<1> DEFINE o == Without(b.dropped, c)
<1>1. b \in Bg /\ b.active \subseteq DOMAIN b.floor
    BY DEF BgSound
<1>2. a = [b EXCEPT !.dropped = o]
    BY DEF Replaying
<1>3. DOMAIN o = DOMAIN b.dropped \ {c} /\ \A x \in DOMAIN b.dropped \ {c} : o[x] = b.dropped[x]
    BY WithoutIs
<1> HIDE DEF o
<1>4. /\ a.active = b.active /\ a.lastSeen = b.lastSeen /\ a.dropped = o
      /\ a.floor = b.floor /\ a.parked = b.parked /\ a.gated = b.gated /\ a.proactive = b.proactive
    BY ONLY <1>1, <1>2 DEF Bg
<1> QED BY <1>1, <1>3, <1>4 DEF OnlyTouches, Untouched

\* Parking a subscription, or taking it out.
LEMMA ParkingTouches ==
    ASSUME NEW b, NEW d, d \in Bg, NEW c, OnlyTouches(b, d, c),
           NEW a, a = Unparked(d, c) \/ a = [d EXCEPT !.parked = @ \cup {c}]
    PROVE  /\ OnlyTouches(b, a, c) /\ a.lastSeen = d.lastSeen /\ a.active = d.active
           /\ a.floor = d.floor
<1>1. /\ a.active = d.active /\ a.lastSeen = d.lastSeen /\ a.dropped = d.dropped
      /\ a.floor = d.floor /\ a.gated = d.gated /\ a.proactive = d.proactive
      /\ a = Unparked(d, c) => a.parked = d.parked \ {c}
      /\ a = [d EXCEPT !.parked = @ \cup {c}] => a.parked = d.parked \cup {c}
    BY DEF Unparked, Bg
<1>2. a.parked = d.parked \ {c} \/ a.parked = d.parked \cup {c}
    BY <1>1
<1>3. OnlyTouches(b, a, c)
    BY <1>1, <1>2 DEF OnlyTouches, Untouched
<1> QED BY <1>1, <1>3

\* What happens to a subscription that is not steady disturbs no other.
LEMMA ElsewhereCarries ==
    ASSUME Typed, Carried, LogKept, ReachedKept, relay' = relay, NEW c \in Channels, ~Steady(c),
           OnlyTouches(bg, bg', c), todo' = todo, phase' \in {phase, "up"},
           phase' = phase \/ phase = "draining",
           ToSet(wire') \subseteq ToSet(wire), ToSet(cmds') \subseteq ToSet(cmds),
           \A f \in ToSet(wire) : f \in ToSet(wire') \/ f.closed = "denied",
           ToSet(reqs) \subseteq ToSet(reqs'),
           \A r \in ToSet(reqs') : r \in ToSet(reqs) \/ r.sub = c,
           relay.cut \/ bg'.parked = {}
    PROVE  Carried'
<1>1. \A s \in Subs : Steady(s) => s # c /\ Untouched(bg, bg', s)
    BY DEF OnlyTouches
<1>2. \A s \in Subs : Steady(s) /\ Lost(s) => Lost(s)'
    <2> SUFFICES ASSUME NEW s \in Subs, Steady(s), Lost(s) PROVE Lost(s)'
        OBVIOUS
    <2>1. Bounced(s) => Bounced(s)'
        BY DEF Bounced
    <2>2. Pending(s) => Pending(s)'
        BY <1>1 DEF Pending, Untouched, OnlyTouches
    <2> QED BY <2>1, <2>2 DEF Lost
<1>3. \A s \in Subs : \A t \in Nat : Steady(s) /\ Missing(s, t) => Missing(s, t)'
    <2> SUFFICES ASSUME NEW s \in Subs, NEW t \in Nat, Steady(s), Missing(s, t)
                 PROVE  Missing(s, t)'
        OBVIOUS
    <2>1. Passed(s, t) => Passed(s, t)'
        BY <1>1 DEF Passed, Untouched
    <2>2. Noticed(s, t) => Noticed(s, t)'
        BY <1>1 DEF Noticed, Untouched, OnlyTouches
    <2> QED BY <1>2, <2>1, <2>2 DEF Missing
<1>4. \A i \in Ids : OnWire(i) => OnWire(i)'
    BY DEF OnWire
<1>5. /\ \A s \in DOMAIN bg'.lastSeen : bg'.lastSeen[s] <= relay.clock
      /\ DOMAIN bg'.dropped \subseteq DOMAIN bg'.lastSeen
    BY DEF Carried, Clocked, OnlyTouches
<1>6. \A k \in Channels : Steady(k) => k \in bg'.active /\ bg'.floor[k] = bg.floor[k]
    BY <1>1 DEF Carried, Rooted, Untouched, Subs
<1>7. relay.cut \/ (phase' # "down" /\ bg'.parked = {} /\ ~bg'.gated)
    BY DEF Carried, Uncut, OnlyTouches
<1> QED BY <1>2, <1>3, <1>4, <1>5, <1>6, <1>7, ClientCarries

\* A REQ that replays a subscription.
LEMMA ReplayCarries ==
    ASSUME Typed, Carried, LogKept, ReachedKept, relay' = relay, NEW s \in Subs,
           OnlyTouches(bg, bg', s), bg'.lastSeen = bg.lastSeen, bg'.active = bg.active,
           bg'.floor = bg.floor, phase' = phase,
           ToSet(todo) \subseteq ToSet(todo') \cup {s},
           ToSet(wire') \subseteq ToSet(wire), cmds' = cmds,
           \A f \in ToSet(wire) : f \in ToSet(wire') \/ (f.sub = s /\ f.closed # "none"),
           ToSet(reqs') = ToSet(reqs) \cup {Req(s, Since(bg, s))},
           relay.cut \/ bg'.parked = {}
    PROVE  Carried'
<1>1. \A x \in Subs \ {s} : Untouched(bg, bg', x)
    BY DEF OnlyTouches
<1>2. Steady(s) => /\ Asked(s, relay.clock)'
                   /\ \A t \in Nat : Missing(s, t) => Asked(s, t)' \/ Missing(s, t)'
    BY SentCarries
<1>3. \A x \in Subs : Steady(x) /\ Lost(x) => Lost(x)' \/ Asked(x, relay.clock)'
    <2> SUFFICES ASSUME NEW x \in Subs, x # s, Lost(x) PROVE Lost(x)'
        BY <1>2
    <2>1. Bounced(x) => Bounced(x)'
        BY DEF Bounced
    <2>2. Pending(x) => Pending(x)'
        BY <1>1 DEF Pending, Untouched, OnlyTouches
    <2> QED BY <2>1, <2>2 DEF Lost
<1>4. \A x \in Subs : \A t \in Nat : Steady(x) /\ Missing(x, t) => Asked(x, t)' \/ Missing(x, t)'
    <2> SUFFICES ASSUME NEW x \in Subs, NEW t \in Nat, x # s, Steady(x), Missing(x, t)
                 PROVE  Missing(x, t)'
        BY <1>2
    <2>1. Passed(x, t) => Passed(x, t)'
        BY DEF Passed
    <2>2. Noticed(x, t) => Noticed(x, t)'
        BY <1>1 DEF Noticed, Untouched, OnlyTouches
    <2>3. Lost(x) => Lost(x)'
        <3>1. Bounced(x) => Bounced(x)'
            BY DEF Bounced
        <3>2. Pending(x) => Pending(x)'
            BY <1>1 DEF Pending, Untouched, OnlyTouches
        <3> QED BY <3>1, <3>2 DEF Lost
    <2> QED BY <2>1, <2>2, <2>3 DEF Missing
<1>5. \A i \in Ids : OnWire(i) => OnWire(i)'
    BY DEF OnWire
<1>6. /\ \A x \in DOMAIN bg'.lastSeen : bg'.lastSeen[x] <= relay.clock
      /\ DOMAIN bg'.dropped \subseteq DOMAIN bg'.lastSeen
    BY DEF Carried, Clocked, OnlyTouches
<1>7. \A k \in Channels : Steady(k) => k \in bg'.active /\ bg'.floor[k] = bg.floor[k]
    BY DEF Carried, Rooted
<1>8. relay.cut \/ (phase' # "down" /\ bg'.parked = {} /\ ~bg'.gated)
    BY DEF Carried, Uncut, OnlyTouches
<1>9. ToSet(reqs) \subseteq ToSet(reqs') /\ \A r \in ToSet(reqs') : r \in ToSet(reqs) \/ ~r.close
    BY DEF Req
<1> QED BY <1>3, <1>4, <1>5, <1>6, <1>7, <1>8, <1>9, ClientCarries

LEMMA SentReq ==
    ASSUME Typed, NEW r \in Request, reqs' = Append(reqs, r)
    PROVE  ToSet(reqs') = ToSet(reqs) \cup {r}
BY HeldAppend DEF Typed, RelayTyped, Requests

LEMMA CommandTaken ==
    ASSUME Typed, cmds # <<>>, cmds' = Tail(cmds)
    PROVE  ToSet(cmds') \subseteq ToSet(cmds) /\ Head(cmds) \in ToSet(cmds)
<1>1. cmds \in Seq(Order)
    BY DEF Typed, ClientTyped, Orders
<1>2. ToSet(cmds) = {Head(cmds)} \cup ToSet(Tail(cmds)) /\ Head(cmds) \in ToSet(cmds)
    BY <1>1, HeldTail
<1> QED BY <1>2

LEMMA ReceiveClosedCarries ==
    ASSUME Typed, Carried, LogKept, ReachedKept, ReceiveClosed
    PROVE  Carried'
<1>1. PICK f, s : f = Head(wire) /\ s = f.sub
    OBVIOUS
<1>2. /\ phase = "up" /\ ~bg.proactive /\ wire # <<>> /\ f.closed # "none" /\ wire' = Tail(wire)
      /\ UNCHANGED <<relay, phase, todo, cmds, eventq>>
    BY <1>1 DEF ReceiveClosed
<1>3. /\ s \in Subs /\ f.closed \in {"denied", "limited", "error"}
      /\ f.closed = "denied" => s \in Channels
    BY <1>1, <1>2, WireHead DEF Answers, Typed
<1>4. ToSet(wire) = {f} \cup ToSet(wire') /\ f \in ToSet(wire)
    BY <1>1, <1>2, FrameTaken
<1>5. BgSound(bg) /\ bg \in Bg
    BY DEF Typed, ClientTyped, BgSound
<1>6. CASE f.closed = "denied"
    <2>1. bg' = Cleared(bg, s) /\ reqs' = reqs
        BY <1>1, <1>6 DEF ReceiveClosed
    <2>2. OnlyTouches(bg, bg', s) /\ bg'.parked = bg.parked \ {s}
        BY <1>5, <2>1, ClearedTouches
    <2>3. ~Steady(s)
        BY <1>1, <1>4, <1>6 DEF Carried, Framed
    <2>4. relay.cut \/ bg'.parked = {}
        BY <2>2 DEF Carried, Uncut
    <2> QED BY <1>2, <1>3, <1>4, <1>6, <2>1, <2>2, <2>3, <2>4, ElsewhereCarries
<1>7. CASE f.closed \in {"limited", "error"}
    <2>1. relay.cut
        BY <1>4, <1>7 DEF Carried, Uncut
    <2>2. CASE f.closed = "error" /\ (s \in Channels => s \in bg.active)
        <3>1. bg' = Replaying(bg, s) /\ reqs' = Append(reqs, Req(s, Since(bg, s)))
            BY <1>1, <2>2 DEF ReceiveClosed
        <3>2. /\ OnlyTouches(bg, bg', s) /\ bg'.lastSeen = bg.lastSeen
              /\ bg'.active = bg.active /\ bg'.floor = bg.floor
            BY <1>5, <3>1, ReplayingTouches
        <3>3. ToSet(reqs') = ToSet(reqs) \cup {Req(s, Since(bg, s))}
            <4>1. s \in bg.active \cup {"membership"}
                BY <1>3, <2>2 DEF Subs
            <4>2. Req(s, Since(bg, s)) \in Request
                BY <1>3, <1>5, <4>1, SinceNat, ReqTypes
            <4> QED BY <3>1, <4>2, SentReq
        <3> QED BY <1>1, <1>2, <1>3, <1>4, <2>1, <3>2, <3>3, ReplayCarries
    <2>3. CASE f.closed = "limited" \/ ~(s \in Channels => s \in bg.active)
        <3>1. reqs' = reqs /\ bg' = IF f.closed = "limited" THEN Limited(bg, s) ELSE bg
            BY <1>1, <1>7, <2>3 DEF ReceiveClosed
        <3>2. /\ bg'.lastSeen = bg.lastSeen /\ bg'.dropped = bg.dropped /\ bg'.active = bg.active
              /\ bg'.floor = bg.floor /\ bg'.proactive = bg.proactive
              /\ bg.parked \subseteq bg'.parked /\ (f.closed = "limited" => s \in bg'.parked)
            BY <1>5, <3>1 DEF Limited, Bg
        <3>3. Steady(s) => s \in bg'.parked
            BY <1>3, <1>7, <2>3, <3>2 DEF Carried, Rooted
        <3>4. \A x : Steady(x) /\ Lost(x) => Lost(x)'
            <4> SUFFICES ASSUME NEW x, Steady(x), Lost(x) PROVE Lost(x)'
                OBVIOUS
            <4>1. Bounced(x) => Bounced(x)' \/ x = s
                BY <1>1, <1>4 DEF Bounced
            <4>2. Pending(x) => Pending(x)'
                BY <1>2, <3>2 DEF Pending
            <4> QED BY <3>3, <4>1, <4>2 DEF Lost, Pending
        <3>5. \A x, t : Steady(x) /\ Missing(x, t) => Missing(x, t)'
            <4>1. \A x, t : (Passed(x, t) => Passed(x, t)') /\ ~Noticed(x, t)
                BY <1>2, <3>2 DEF Passed, Noticed
            <4> QED BY <1>2, <3>4, <4>1 DEF Missing
        <3>6. \A i \in Ids : OnWire(i) => OnWire(i)'
            BY <1>2, <1>4 DEF OnWire
        <3>7. /\ \A x \in DOMAIN bg'.lastSeen : bg'.lastSeen[x] <= relay.clock
              /\ DOMAIN bg'.dropped \subseteq DOMAIN bg'.lastSeen
              /\ \A k \in Channels : Steady(k) => k \in bg'.active /\ bg'.floor[k] = bg.floor[k]
            BY <3>2 DEF Carried, Clocked, Rooted
        <3> QED BY <1>2, <1>4, <2>1, <3>1, <3>4, <3>5, <3>6, <3>7, ClientCarries
    <2> QED BY <1>7, <2>2, <2>3
<1> QED BY <1>3, <1>6, <1>7

\* resubscribe_after_reconnect starts.
LEMMA StartCarries ==
    ASSUME Typed, Carried, LogKept, ReachedKept, ProactiveResubscribe \/ Connect
    PROVE  Carried'
<1>1. /\ phase' = "resubscribing" /\ todo' \in Resubscription
      /\ UNCHANGED <<relay, wire, reqs, cmds, eventq>>
      /\ (phase = "up" /\ bg.proactive /\ bg' = [bg EXCEPT !.proactive = FALSE])
         \/ (phase = "down" /\ bg' = [bg EXCEPT !.parked = @ \cap {"membership"}])
    BY DEF ProactiveResubscribe, Connect, relayVars
<1>2. BgSound(bg) /\ bg \in Bg
    BY DEF Typed, ClientTyped, BgSound
<1>3. ToSet(todo') = bg.active \cup {"membership"}
    BY <1>1, <1>2, ResubscriptionHolds
<1>4. /\ bg'.lastSeen = bg.lastSeen /\ bg'.dropped = bg.dropped /\ bg'.active = bg.active
      /\ bg'.floor = bg.floor /\ bg'.gated = bg.gated
      /\ bg'.parked \subseteq bg.parked
    BY <1>1, <1>2 DEF Bg
<1>5. \A s \in Subs : Steady(s) => s \in ToSet(todo')
    BY <1>3 DEF Carried, Rooted, Subs
<1>6. \A s \in Subs : Steady(s) => Lost(s)'
    BY <1>1, <1>5 DEF Lost, Pending
<1>7. \A s \in Subs : \A t \in Nat : Steady(s) /\ Missing(s, t) => Missing(s, t)'
    <2> SUFFICES ASSUME NEW s \in Subs, NEW t \in Nat, Steady(s), Missing(s, t)
                 PROVE  Missing(s, t)'
        OBVIOUS
    <2>1. Noticed(s, t) => Noticed(s, t)'
        BY <1>1, <1>4, <1>5 DEF Noticed
    <2> QED BY <1>1, <1>6, <2>1 DEF Missing
<1>8. \A i \in Ids : OnWire(i) => OnWire(i)'
    BY <1>1 DEF OnWire
<1>9. /\ \A x \in DOMAIN bg'.lastSeen : bg'.lastSeen[x] <= relay.clock
      /\ DOMAIN bg'.dropped \subseteq DOMAIN bg'.lastSeen
      /\ \A k \in Channels : Steady(k) => k \in bg'.active /\ bg'.floor[k] = bg.floor[k]
      /\ relay.cut \/ (phase' # "down" /\ bg'.parked = {} /\ ~bg'.gated)
    BY <1>1, <1>4 DEF Carried, Clocked, Rooted, Uncut
<1> QED BY <1>1, <1>6, <1>7, <1>8, <1>9, ClientCarries

LEMMA ResubscribeCarries ==
    ASSUME Typed, Carried, LogKept, ReachedKept, Resubscribe
    PROVE  Carried'
<1>1. PICK s : s = Head(todo)
    OBVIOUS
<1>2. /\ phase = "resubscribing" /\ todo # <<>> /\ todo' = Tail(todo)
      /\ UNCHANGED <<relay, wire, phase, cmds>>
    BY DEF Resubscribe
<1>3. /\ BgSound(bg) /\ bg \in Bg /\ todo \in Seq(bg.active \cup {"membership"})
      /\ bg.active \subseteq Channels
    BY DEF Typed, ClientTyped, BgSound, Todos, Bg
<1>4. s \in bg.active \cup {"membership"} /\ s \in Subs
    BY <1>1, <1>2, <1>3 DEF Subs
<1>5. ToSet(todo) = {s} \cup ToSet(todo')
    BY <1>1, <1>2, <1>3, HeldTail
<1>6. CASE bg.gated /\ bg' = [bg EXCEPT !.parked = @ \cup {s}] /\ reqs' = reqs
    <2>1. /\ bg'.lastSeen = bg.lastSeen /\ bg'.dropped = bg.dropped /\ bg'.active = bg.active
          /\ bg'.floor = bg.floor /\ bg'.gated = bg.gated /\ bg'.proactive = bg.proactive
          /\ bg'.parked = bg.parked \cup {s}
        BY <1>3, <1>6 DEF Bg
    <2>2. relay.cut
        BY <1>6 DEF Carried, Uncut
    <2>3. \A x : Lost(x) => Lost(x)'
        <3> SUFFICES ASSUME NEW x, Lost(x) PROVE Lost(x)'
            OBVIOUS
        <3>1. Pending(x) => Pending(x)'
            BY <1>2, <1>5, <2>1 DEF Pending
        <3>2. Bounced(x) => Bounced(x)'
            BY <1>2 DEF Bounced
        <3> QED BY <3>1, <3>2 DEF Lost
    <2>4. \A x, t : Missing(x, t) => Missing(x, t)'
        <3>1. \A x, t : (Passed(x, t) => Passed(x, t)') /\ (Noticed(x, t) => Lost(x))
            BY <2>1 DEF Passed, Noticed, Lost, Pending
        <3> QED BY <1>2, <2>2, <2>3, <3>1 DEF Missing
    <2>5. \A i \in Ids : OnWire(i) => OnWire(i)'
        BY <1>2 DEF OnWire
    <2>6. /\ \A x \in DOMAIN bg'.lastSeen : bg'.lastSeen[x] <= relay.clock
          /\ DOMAIN bg'.dropped \subseteq DOMAIN bg'.lastSeen
          /\ \A k \in Channels : Steady(k) => k \in bg'.active /\ bg'.floor[k] = bg.floor[k]
        BY <2>1 DEF Carried, Clocked, Rooted
    <2> QED BY <1>2, <1>6, <2>2, <2>3, <2>4, <2>5, <2>6, ClientCarries
<1>7. CASE /\ bg' \in {Unparked(Replaying(bg, s), s), Replaying(bg, s)}
           /\ reqs' = Append(reqs, Req(s, Since(bg, s)))
    <2>1. PICK d : d = Replaying(bg, s)
        OBVIOUS
    <2>2. /\ OnlyTouches(bg, d, s) /\ d.parked = bg.parked /\ d.lastSeen = bg.lastSeen
          /\ d.active = bg.active /\ d.floor = bg.floor /\ d \in Bg
        BY <1>3, <2>1, ReplayingTouches, ReplayingSound DEF BgSound
    <2>3. /\ OnlyTouches(bg, bg', s) /\ bg'.lastSeen = bg.lastSeen /\ bg'.active = bg.active
          /\ bg'.floor = bg.floor /\ bg'.parked \subseteq bg.parked
        <3>1. CASE bg' = d
            BY <2>2, <3>1
        <3>2. CASE bg' = Unparked(d, s)
            <4>1. /\ OnlyTouches(bg, bg', s) /\ bg'.lastSeen = d.lastSeen
                  /\ bg'.active = d.active /\ bg'.floor = d.floor
                BY <2>2, <3>2, ParkingTouches
            <4>2. bg'.parked = d.parked \ {s}
                BY <2>2, <3>2 DEF Unparked, Bg
            <4> QED BY <2>2, <4>1, <4>2
        <3> QED BY <1>7, <2>1, <3>1, <3>2
    <2>4. ToSet(reqs') = ToSet(reqs) \cup {Req(s, Since(bg, s))}
        <3>1. Req(s, Since(bg, s)) \in Request
            BY <1>3, <1>4, SinceNat, ReqTypes
        <3> QED BY <1>7, <3>1, SentReq
    <2>5. relay.cut \/ bg'.parked = {}
        BY <2>3 DEF Carried, Uncut
    <2> QED BY <1>2, <1>4, <1>5, <2>3, <2>4, <2>5, ReplayCarries
<1> QED BY <1>1, <1>6, <1>7 DEF Resubscribe

LEMMA DrainParkedCarries ==
    ASSUME Typed, Carried, LogKept, ReachedKept, NEW s \in Subs, DrainParked(s)
    PROVE  Carried'
<1>1. /\ phase = "up" /\ ~bg.proactive /\ s \in bg.parked
      /\ UNCHANGED <<relay, wire, phase, todo, cmds>>
    BY DEF DrainParked
<1>2. BgSound(bg) /\ bg \in Bg
    BY DEF Typed, ClientTyped, BgSound
<1>3. relay.cut
    BY <1>1 DEF Carried, Uncut
<1>4. CASE s \in Channels \ bg.active /\ bg' = Unparked(bg, s) /\ reqs' = reqs
    <2>1. ~Steady(s)
        BY <1>4 DEF Carried, Rooted
    <2>2. OnlyTouches(bg, bg, s)
        BY DEF OnlyTouches, Untouched
    <2>3. OnlyTouches(bg, bg', s)
        BY <1>2, <1>4, <2>2, ParkingTouches
    <2> QED BY <1>1, <1>3, <1>4, <2>1, <2>3, ElsewhereCarries
<1>5. CASE /\ s \in bg.active \cup {"membership"}
           /\ bg' = Unparked(Replaying(bg, s), s)
           /\ reqs' = Append(reqs, Req(s, Since(bg, s)))
    <2>1. PICK d : d = Replaying(bg, s)
        OBVIOUS
    <2>2. /\ OnlyTouches(bg, d, s) /\ d.lastSeen = bg.lastSeen
          /\ d.active = bg.active /\ d.floor = bg.floor /\ d \in Bg
        BY <1>2, <2>1, ReplayingTouches, ReplayingSound DEF BgSound
    <2>3. bg' = Unparked(d, s)
        BY <1>5, <2>1
    <2>4. /\ OnlyTouches(bg, bg', s) /\ bg'.lastSeen = d.lastSeen /\ bg'.active = d.active
          /\ bg'.floor = d.floor
        BY <2>2, <2>3, ParkingTouches
    <2>5. ToSet(reqs') = ToSet(reqs) \cup {Req(s, Since(bg, s))}
        <3>1. Req(s, Since(bg, s)) \in Request
            BY <1>2, <1>5, SinceNat, ReqTypes
        <3> QED BY <1>5, <3>1, SentReq
    <2> QED BY <1>1, <1>3, <2>2, <2>4, <2>5, ReplayCarries
<1> QED BY <1>4, <1>5 DEF DrainParked

\* A command of the main loop is about a channel whose membership has changed.
LEMMA CommandCarries ==
    ASSUME Typed, Carried, LogKept, ReachedKept, DrainCommand \/ RunCommand \/ DownCommand
    PROVE  Carried'
<1>1. /\ UNCHANGED <<relay, wire, todo>> /\ phase' \in {phase, "up"}
      /\ phase' = phase \/ phase = "draining"
    BY DEF DrainCommand, RunCommand, DownCommand, relayVars
<1>2. BgSound(bg) /\ bg \in Bg /\ cmds \in Orders
    BY DEF Typed, ClientTyped, BgSound
<1>3. CASE bg' = bg /\ reqs' = reqs /\ (cmds' = cmds \/ (cmds # <<>> /\ cmds' = Tail(cmds)))
    <2>1. ToSet(cmds') \subseteq ToSet(cmds)
        BY <1>3, CommandTaken
    <2>2. \A x : Lost(x) => Lost(x)'
        BY <1>1, <1>3 DEF Lost, Pending, Bounced
    <2>3. \A x, t : Missing(x, t) => Missing(x, t)'
        BY <1>1, <1>3, <2>2 DEF Missing, Passed, Noticed
    <2>4. \A i \in Ids : OnWire(i) => OnWire(i)'
        BY <1>1 DEF OnWire
    <2>5. /\ \A x \in DOMAIN bg'.lastSeen : bg'.lastSeen[x] <= relay.clock
          /\ DOMAIN bg'.dropped \subseteq DOMAIN bg'.lastSeen
          /\ \A k \in Channels : Steady(k) => k \in bg'.active /\ bg'.floor[k] = bg.floor[k]
          /\ relay.cut \/ (phase' # "down" /\ bg'.parked = {} /\ ~bg'.gated)
        BY <1>1, <1>3 DEF Carried, Clocked, Rooted, Uncut
    <2> QED BY <1>1, <1>3, <2>1, <2>2, <2>3, <2>4, <2>5, ClientCarries
<1>4. ASSUME cmds # <<>>, cmds' = Tail(cmds), NEW o, o = Head(cmds), o.op # "reconnect",
             NEW c, c = o.channel, OnlyTouches(bg, bg', c), relay.cut \/ bg'.parked = {},
             \/ reqs' = reqs
             \/ \E t : reqs' = Append(reqs, Req(c, t)) /\ Req(c, t) \in Request
             \/ reqs' = Append(reqs, CloseFrame(c))
      PROVE  Carried'
    <2>1. ToSet(cmds') \subseteq ToSet(cmds) /\ o \in ToSet(cmds)
        BY <1>4, CommandTaken
    <2>2. c \in Channels /\ ~Steady(c)
        BY <1>2, <1>4, <2>1, OrderHead DEF Carried, Framed
    <2>3. /\ ToSet(reqs) \subseteq ToSet(reqs')
          /\ \A r \in ToSet(reqs') : r \in ToSet(reqs) \/ r.sub = c
        <3>1. CASE reqs' = reqs
            BY <3>1
        <3>2. ASSUME NEW r \in Request, reqs' = Append(reqs, r), r.sub = c
              PROVE  /\ ToSet(reqs) \subseteq ToSet(reqs')
                     /\ \A x \in ToSet(reqs') : x \in ToSet(reqs) \/ x.sub = c
            <4>1. ToSet(reqs') = ToSet(reqs) \cup {r}
                BY <3>2, SentReq
            <4> QED BY <3>2, <4>1
        <3>3. ASSUME NEW t, reqs' = Append(reqs, Req(c, t)), Req(c, t) \in Request
              PROVE  /\ ToSet(reqs) \subseteq ToSet(reqs')
                     /\ \A x \in ToSet(reqs') : x \in ToSet(reqs) \/ x.sub = c
            <4>1. Req(c, t).sub = c
                BY DEF Req
            <4> QED BY <3>2, <3>3, <4>1
        <3>4. CASE reqs' = Append(reqs, CloseFrame(c))
            <4>1. CloseFrame(c).sub = c /\ CloseFrame(c) \in Request
                BY <2>2 DEF CloseFrame, Request, Subs
            <4> QED BY <3>2, <3>4, <4>1
        <3> QED BY <1>4, <3>1, <3>3, <3>4
    <2> QED BY <1>1, <1>4, <2>1, <2>2, <2>3, ElsewhereCarries
<1>5. relay.cut \/ (bg.parked = {} /\ ~bg.gated)
    BY DEF Carried, Uncut
<1>6. CASE cmds # <<>> /\ cmds' = Tail(cmds) /\ Execute(Head(cmds))
    <2>1. PICK o, c : o = Head(cmds) /\ c = o.channel
        OBVIOUS
    <2>2. /\ o.since \in Nat /\ o.op \in {"subscribe", "unsubscribe"} /\ c \in Channels
          /\ o \in Order
        BY <1>2, <1>6, <2>1, OrderHead DEF Execute
    <2>3. CASE o.op = "unsubscribe"
        <3>1. bg' = Cleared(bg, c) /\ reqs' \in {reqs, Append(reqs, CloseFrame(c))}
            BY <1>6, <2>1, <2>3 DEF Execute
        <3>2. OnlyTouches(bg, bg', c) /\ bg'.parked = bg.parked \ {c}
            BY <1>2, <3>1, ClearedTouches
        <3>3. relay.cut \/ bg'.parked = {}
            BY <1>5, <3>2
        <3> QED BY <1>4, <1>6, <2>1, <2>3, <3>1, <3>2, <3>3
    <2>4. CASE o.op = "subscribe"
        <3>1. PICK d : d = Intended(bg, c, o.since)
            OBVIOUS
        <3>2. OnlyTouches(bg, d, c) /\ d.parked = bg.parked
            BY <1>2, <3>1, IntendedTouches
        <3>3. d \in Bg /\ FirstSince(d, c) \in Nat
            BY <1>2, <2>2, <3>1, IntendedSound DEF BgSound
        <3>4. \/ bg.gated /\ bg' = [d EXCEPT !.parked = @ \cup {c}] /\ reqs' = reqs
              \/ bg' = Unparked(d, c) /\ reqs' = Append(reqs, Req(c, FirstSince(d, c)))
            BY <1>6, <2>1, <2>4, <3>1 DEF Execute
        <3>5. OnlyTouches(bg, bg', c)
            BY <3>2, <3>3, <3>4, ParkingTouches
        <3>6. relay.cut \/ bg'.parked = {}
            <4>1. bg' = Unparked(d, c) => bg'.parked = d.parked \ {c}
                BY <3>3 DEF Unparked, Bg
            <4> QED BY <1>5, <3>2, <3>4, <4>1
        <3>7. Req(c, FirstSince(d, c)) \in Request
            BY <2>2, <3>3, ReqTypes DEF Subs
        <3> QED BY <1>4, <1>6, <2>1, <2>4, <3>4, <3>5, <3>6, <3>7
    <2> QED BY <2>2, <2>3, <2>4
<1>7. CASE DownCommand
    <2>1. PICK o, c : o = Head(cmds) /\ c = o.channel
        OBVIOUS
    <2>2. /\ cmds # <<>> /\ cmds' = Tail(cmds) /\ reqs' = reqs /\ phase = "down"
          /\ o.op \in {"subscribe", "unsubscribe", "reconnect"}
        BY <1>2, <1>7, <2>1, OrderHead DEF DownCommand, relayVars
    <2>3. relay.cut
        BY <2>2 DEF Carried, Uncut
    <2>4. CASE o.op = "reconnect"
        BY <1>3, <1>7, <2>1, <2>2, <2>4 DEF DownCommand
    <2>5. CASE o.op = "unsubscribe"
        <3>1. bg' = Cleared(bg, c)
            BY <1>7, <2>1, <2>5 DEF DownCommand
        <3>2. OnlyTouches(bg, bg', c)
            BY <1>2, <3>1, ClearedTouches
        <3> QED BY <1>4, <2>1, <2>2, <2>3, <2>5, <3>2
    <2>6. CASE o.op = "subscribe"
        <3>1. bg' = Intended(bg, c, o.since)
            BY <1>7, <2>1, <2>6 DEF DownCommand
        <3>2. OnlyTouches(bg, bg', c)
            BY <1>2, <3>1, IntendedTouches
        <3> QED BY <1>4, <2>1, <2>2, <2>3, <2>6, <3>2
    <2> QED BY <2>2, <2>4, <2>5, <2>6
<1> QED BY <1>3, <1>6, <1>7 DEF DrainCommand, RunCommand

\* The task waits for nothing, or a gate opens.
LEMMA PauseCarries ==
    ASSUME Typed, Carried, LogKept, ReachedKept, Resubscribed \/ GateExpires
    PROVE  Carried'
<1>1. /\ UNCHANGED <<relay, wire, reqs, todo, cmds, eventq>>
      /\ phase' = phase \/ (todo = <<>> /\ phase = "resubscribing" /\ phase' = "draining")
      /\ bg' = bg \/ bg' = [bg EXCEPT !.gated = FALSE]
    BY DEF Resubscribed, GateExpires, relayVars
<1>2. bg \in Bg
    BY DEF Typed, ClientTyped, BgSound
<1>3. /\ bg'.lastSeen = bg.lastSeen /\ bg'.dropped = bg.dropped /\ bg'.active = bg.active
      /\ bg'.floor = bg.floor /\ bg'.parked = bg.parked /\ bg'.proactive = bg.proactive
      /\ bg'.gated => bg.gated
    BY <1>1, <1>2 DEF Bg
<1>4. todo = <<>> => ToSet(todo) = {}
    BY HeldNothing
<1>5. \A x : Lost(x) => Lost(x)'
    BY <1>1, <1>3, <1>4 DEF Lost, Pending, Bounced
<1>6. \A x, t : Missing(x, t) => Missing(x, t)'
    BY <1>1, <1>3, <1>4, <1>5 DEF Missing, Passed, Noticed
<1>7. \A i \in Ids : OnWire(i) => OnWire(i)'
    BY <1>1 DEF OnWire
<1>8. /\ \A x \in DOMAIN bg'.lastSeen : bg'.lastSeen[x] <= relay.clock
      /\ DOMAIN bg'.dropped \subseteq DOMAIN bg'.lastSeen
      /\ \A k \in Channels : Steady(k) => k \in bg'.active /\ bg'.floor[k] = bg.floor[k]
      /\ relay.cut \/ (phase' # "down" /\ bg'.parked = {} /\ ~bg'.gated)
    BY <1>1, <1>3 DEF Carried, Clocked, Rooted, Uncut
<1> QED BY <1>1, <1>5, <1>6, <1>7, <1>8, ClientCarries

\* The socket is lost: a REQ for every subscription follows.
LEMMA LostSocketCarries ==
    ASSUME Typed, Carried, LogKept, ReachedKept, LoseSocket \/ ReconnectCommand
    PROVE  Carried'
<1>1. /\ phase' = "down" /\ wire' = <<>> /\ reqs' = <<>>
      /\ relay' = [relay EXCEPT !.live = {}, !.cut = TRUE] /\ bg' = bg
      /\ cmds' = cmds \/ (cmds # <<>> /\ cmds' = Tail(cmds))
    BY DEF LoseSocket, ReconnectCommand, Disconnected
<1>2. relay \in Relay
    BY DEF Typed, RelayTyped
<1>3. /\ relay'.cut /\ relay'.log = relay.log /\ relay'.clock = relay.clock
      /\ relay'.members = relay.members
    BY <1>1, <1>2 DEF Relay
<1>4. Ids' = Ids /\ \A s : Steady(s)' => Steady(s)
    BY <1>3 DEF Ids, LogKept
<1>5. \A i \in Ids : Time(i)' = Time(i) /\ Sub(i)' = Sub(i)
    BY DEF LogKept
<1>6. ToSet(wire') = {} /\ ToSet(reqs') = {} /\ ToSet(cmds') \subseteq ToSet(cmds)
    BY <1>1, HeldNothing, CommandTaken
<1>7. Clocked'
    BY <1>1, <1>3, <1>4, <1>5 DEF Carried, Clocked
<1>8. Framed'
    <2>1. \A c \in ToSet(cmds') : c.op # "reconnect" => ~Steady(c.channel)'
        BY <1>4, <1>6 DEF Carried, Framed
    <2> QED BY <1>6, <2>1 DEF Framed
<1>9. Rooted' /\ Uncut'
    BY <1>1, <1>3, <1>4 DEF Carried, Rooted, Uncut
<1>10. \A s : Lost(s)'
    BY <1>1 DEF Lost, Pending
<1>11. Listens'
    BY <1>3, <1>10 DEF Listens
<1>12. Flows'
    BY <1>3, <1>10 DEF Flows, Missing
<1> QED BY <1>7, <1>8, <1>9, <1>11, <1>12 DEF Carried

\* The relay moves: it stores events, answers REQs and closes subscriptions.
LEMMA RelayCarries ==
    ASSUME Typed, Carried, LogKept, ReachedKept, UNCHANGED <<phase, todo, bg, cmds>>,
           relay'.clock \in Nat, relay.clock <= relay'.clock, relay.cut => relay'.cut,
           \A i \in Ids' : i \in Ids \/ Time(i)' = relay'.clock,
           ToSet(wire) \subseteq ToSet(wire'), ToSet(reqs') \subseteq ToSet(reqs),
           \A f \in ToSet(wire') : f \in ToSet(wire)
              \/ /\ f.closed = "none" => f.sub = Sub(f.event)'
                 /\ f.closed = "denied" => ~Steady(f.sub)'
                 /\ f.closed \in {"limited", "error"} => relay'.cut,
           \A c \in Channels : Steady(c)' => c \in relay'.members,
           \A s \in Subs : Steady(s)' =>
              /\ s \in relay.live => s \in relay'.live
              /\ Asked(s, relay.clock) => \/ s \in relay'.live \/ Asked(s, relay.clock)'
                                          \/ (relay'.cut /\ Lost(s)'),
           \A i \in Ids : Steady(Sub(i))' /\ Asked(Sub(i), Time(i)) =>
              OnWire(i)' \/ Asked(Sub(i), Time(i))' \/ Missing(Sub(i), Time(i))',
           \A i \in Ids' : Steady(Sub(i))' =>
              i \in Ids \/ OnWire(i)' \/ Asked(Sub(i), Time(i))' \/ Missing(Sub(i), Time(i))'
    PROVE  Carried'
<1>1. \A s : Steady(s)' => Steady(s)
    BY DEF LogKept
<1>2. \A i \in Ids : Time(i)' = Time(i) /\ Sub(i)' = Sub(i) /\ i \in Ids'
    BY DEF LogKept
<1>3. /\ relay.clock \in Nat /\ BgSound(bg) /\ bg.lastSeen \in [DOMAIN bg.lastSeen -> Nat]
      /\ \A i \in Ids : Time(i) \in Nat
    <2>1. relay.clock \in Nat /\ BgSound(bg)
        BY DEF Typed, RelayTyped, ClientTyped, Relay
    <2>2. \A i \in Ids : Time(i) \in Nat
        BY LogLen, LogEvent DEF Typed, RelayTyped, Ids, Time, Event
    <2> QED BY <2>1, <2>2, MapsAre DEF BgSound, Bg
<1>4. Clocked'
    <2>1. \A i \in Ids' : Time(i)' <= relay'.clock
        BY <1>2, <1>3 DEF Carried, Clocked
    <2>2. PICK l, k, n : l = bg.lastSeen /\ k = relay.clock /\ n = relay'.clock
        OBVIOUS
    <2>3. \A s \in DOMAIN l : l[s] <= k /\ l[s] \in Nat
        BY <1>3, <2>2 DEF Carried, Clocked
    <2>4. k <= n /\ k \in Nat /\ n \in Nat
        BY <1>3, <2>2
    <2>5. \A s \in DOMAIN l : l[s] <= n
        BY <2>3, <2>4
    <2>6. bg' = bg /\ DOMAIN bg.dropped \subseteq DOMAIN bg.lastSeen
        BY DEF Carried, Clocked
    <2> QED BY <2>1, <2>2, <2>5, <2>6 DEF Clocked
<1>5. Framed'
    <2>1. \A f \in ToSet(wire) : f.closed = "none" => f.sub = Sub(f.event)'
        <3> SUFFICES ASSUME NEW f \in ToSet(wire), f.closed = "none" PROVE f.sub = Sub(f.event)'
            OBVIOUS
        <3>1. f \in Frames(LogEnd)
            BY HeldIn DEF Typed, RelayTyped, Wires
        <3>2. f.event \in Ids
            BY <3>1, LogLen DEF Frames, Ids, LogEnd, Typed, RelayTyped
        <3>3. f.sub = Sub(f.event)
            BY DEF Carried, Framed
        <3> QED BY <1>2, <3>2, <3>3
    <2>2. \A f \in ToSet(wire') : /\ f.closed = "none" => f.sub = Sub(f.event)'
                                  /\ f.closed = "denied" => ~Steady(f.sub)'
        BY <1>1, <2>1 DEF Carried, Framed
    <2>3. \A r \in ToSet(reqs') : r.close => ~Steady(r.sub)'
        BY <1>1 DEF Carried, Framed
    <2>4. \A c \in ToSet(cmds') : c.op # "reconnect" => ~Steady(c.channel)'
        BY <1>1 DEF Carried, Framed
    <2> QED BY <2>2, <2>3, <2>4 DEF Framed
<1>6. Rooted'
    BY <1>1 DEF Carried, Rooted
<1>7. Uncut'
    BY DEF Carried, Uncut
<1>8. \A s : Lost(s) => Lost(s)'
    BY DEF Lost, Pending, Bounced
<1>9. \A s, t : Missing(s, t) => Missing(s, t)'
    BY <1>8 DEF Missing, Passed, Noticed
<1>10. Listens'
    <2> SUFFICES ASSUME NEW s \in Subs, Steady(s)'
                 PROVE  s \in relay'.live \/ (relay'.cut /\ (Asked(s, relay.clock)' \/ Lost(s)'))
        BY DEF Listens
    <2>1. s \in relay.live \/ (relay.cut /\ (Asked(s, relay.clock) \/ Lost(s)))
        BY <1>1 DEF Carried, Listens
    <2> QED BY <1>8, <2>1
<1>11. Flows'
    <2> SUFFICES ASSUME NEW i \in Ids', Steady(Sub(i))', i \in Ids
                 PROVE  \/ Reached(i)' \/ OnWire(i)' \/ Asked(Sub(i), Time(i))'
                        \/ Missing(Sub(i), Time(i))'
        BY DEF Flows
    <2>1. Steady(Sub(i))
        BY <1>1, <1>2
    <2>2. Reached(i) \/ OnWire(i) \/ Asked(Sub(i), Time(i)) \/ Missing(Sub(i), Time(i))
        BY <2>1 DEF Carried, Flows
    <2>3. OnWire(i) => OnWire(i)'
        BY DEF OnWire
    <2>4. Missing(Sub(i), Time(i)) => Missing(Sub(i), Time(i))'
        <3>1. PICK s, t : s = Sub(i) /\ t = Time(i)
            OBVIOUS
        <3>2. Sub(i)' = s /\ Time(i)' = t
            BY <1>2, <3>1
        <3>3. Missing(Sub(i), Time(i))' <=> Missing(s, t)'
            BY <3>2 DEF Missing, Lost, Pending, Bounced, Passed, Noticed
        <3> QED BY <1>9, <3>1, <3>3
    <2> QED BY <2>2, <2>3, <2>4 DEF ReachedKept
<1> QED BY <1>4, <1>5, <1>6, <1>7, <1>10, <1>11 DEF Carried

\* An event is stored: it is on the wire, or a REQ that asks for it follows.
LEMMA StoringCarries ==
    ASSUME Typed, Carried, LogKept, ReachedKept, NEW e \in Event, NEW members \in SUBSET Channels,
           NEW live \in SUBSET Subs, NEW before \in Wires(LogEnd),
           Storing(e, members, live, before)
    PROVE  Carried'
<1>1. PICK n : n = LogEnd + 1
    OBVIOUS
<1>2. /\ Ids' = Ids \cup {n} /\ n \notin Ids /\ relay'.log[n] = e
      /\ relay'.clock = relay.clock /\ relay'.cut = relay.cut
      /\ relay'.members = members /\ relay'.live = live
      /\ ToSet(wire) \subseteq ToSet(wire')
      /\ \A f \in ToSet(wire') : f \in ToSet(wire) \cup ToSet(before)
                                 \/ f = EventFrame(SubOf(e), n)
      /\ SubOf(e) \in live /\ (e.kind # "message" \/ e.channel \in members)
           => EventFrame(SubOf(e), n) \in ToSet(wire')
    BY <1>1, StoreShape DEF Storing, Typed
<1>3. UNCHANGED <<phase, todo, bg, cmds, reqs>>
    BY DEF Storing, Store, clientVars
<1>4. /\ Time(n)' = relay.clock /\ Sub(n)' = SubOf(e) /\ ChannelOf(n)' = e.channel
      /\ Change(n)' <=> e.kind # "message"
    BY <1>2 DEF Time, Sub, ChannelOf, Change, Storing
<1>5. e.channel \in Channels /\ e.channel # "membership" /\ relay.clock \in Nat
    BY RelayClientConstants DEF Event, Typed, RelayTyped, Relay
<1>6. e.kind # "message" => ~Steady(e.channel)'
    <2> SUFFICES ASSUME e.kind # "message", Steady(e.channel)' PROVE FALSE
        OBVIOUS
    <2>1. \A i \in Ids' : ChannelOf(i)' = e.channel => ~Change(i)'
        BY <1>5 DEF Steady
    <2> QED BY <1>2, <1>4, <2>1
<1>7. \A f \in ToSet(wire') : f \in ToSet(wire)
              \/ /\ f.closed = "none" => f.sub = Sub(f.event)'
                 /\ f.closed = "denied" => ~Steady(f.sub)'
                 /\ f.closed \in {"limited", "error"} => relay'.cut
    <2> SUFFICES ASSUME NEW f \in ToSet(wire'), f \notin ToSet(wire)
                 PROVE  /\ f.closed = "none" => f.sub = Sub(f.event)'
                        /\ f.closed = "denied" => ~Steady(f.sub)'
                        /\ f.closed \in {"limited", "error"} => relay'.cut
        OBVIOUS
    <2>1. CASE f \in ToSet(before)
        <3>1. f = Closed(e.channel, "denied") /\ e.kind # "message"
            BY <2>1, HeldNothing DEF Storing
        <3>2. f.sub = e.channel /\ f.closed = "denied"
            BY <3>1 DEF Closed
        <3> QED BY <1>6, <3>1, <3>2
    <2>2. CASE f = EventFrame(SubOf(e), n)
        <3>1. f.sub = SubOf(e) /\ f.closed = "none" /\ f.event = n
            BY <2>2 DEF EventFrame
        <3> QED BY <1>4, <3>1
    <2> QED BY <1>2, <2>1, <2>2
<1>8. \A s : Steady(s)' => Steady(s) /\ (s # e.channel \/ e.kind = "message")
    BY <1>6 DEF LogKept
<1>9. \A c \in Channels : Steady(c)' => c \in relay'.members
    <2> SUFFICES ASSUME NEW c \in Channels, Steady(c)' PROVE c \in members
        BY <1>2
    <2>1. c \in relay.members /\ (c # e.channel \/ e.kind = "message")
        BY <1>8 DEF Carried, Rooted
    <2> QED BY <2>1 DEF Storing
<1>10. \A s \in Subs : Steady(s)' /\ s \in relay.live => s \in relay'.live
    <2> SUFFICES ASSUME NEW s \in Subs, Steady(s)', s \in relay.live PROVE s \in live
        BY <1>2
    <2>1. s # e.channel \/ e.kind = "message"
        BY <1>8
    <2> QED BY <2>1 DEF Storing
<1>11. \A s, t : Asked(s, t) => Asked(s, t)'
    BY <1>3 DEF Asked
<1>12. \A s : Asked(s, relay.clock) => Asked(s, relay.clock)'
    BY <1>2, <1>3 DEF Asked
<1>13. \A i \in Ids : Asked(Sub(i), Time(i)) => Asked(Sub(i), Time(i))'
    BY <1>3 DEF Asked, LogKept
<1>14. ASSUME Steady(Sub(n))'
       PROVE  OnWire(n)' \/ Asked(Sub(n), Time(n))' \/ Missing(Sub(n), Time(n))'
    <2>1. PICK s, t : s = SubOf(e) /\ t = relay.clock
        OBVIOUS
    <2>2. s \in Subs /\ Steady(s)' /\ Steady(s) /\ Sub(n)' = s /\ Time(n)' = t
        <3>1. Sub(n)' = s /\ s \in Subs
            BY <1>4, <2>1 DEF SubOf, Subs, Event
        <3>2. Steady(s)'
            BY <1>14, <3>1 DEF Steady
        <3> QED BY <1>4, <1>8, <2>1, <3>1, <3>2
    <2>3. CASE s \in live
        <3>1. e.kind = "message" => e.channel \in members
            BY <1>2, <1>5, <1>9, <2>1, <2>2 DEF SubOf
        <3>2. EventFrame(SubOf(e), n) \in ToSet(wire')
            BY <1>2, <2>1, <2>3, <3>1
        <3>3. OnWire(n)'
            BY <3>2 DEF OnWire, EventFrame
        <3> QED BY <3>3
    <2>4. CASE s \notin live
        <3>1. s \notin relay.live
            BY <1>2, <1>10, <2>2, <2>4
        <3>2. relay.cut /\ (Asked(s, relay.clock) \/ Lost(s))
            BY <2>2, <3>1 DEF Carried, Listens
        <3>3. Asked(s, relay.clock) => Asked(Sub(n), Time(n))'
            BY <1>3, <2>1, <2>2 DEF Asked
        <3>4. Lost(s) => Lost(s)'
            BY <1>2, <1>3 DEF Lost, Pending, Bounced
        <3>5. Lost(s)' => Lost(Sub(n))'
            BY <2>2 DEF Lost, Pending, Bounced
        <3> QED BY <1>2, <3>2, <3>3, <3>4, <3>5 DEF Missing
    <2> QED BY <2>3, <2>4
<1>15. \A i \in Ids' : i \in Ids \/ Time(i)' = relay'.clock
    BY <1>2, <1>4
<1>16. \A i \in Ids' : Steady(Sub(i))' =>
          i \in Ids \/ OnWire(i)' \/ Asked(Sub(i), Time(i))' \/ Missing(Sub(i), Time(i))'
    BY <1>2, <1>14
<1>17. /\ relay'.clock \in Nat /\ relay.clock <= relay'.clock /\ (relay.cut => relay'.cut)
       /\ ToSet(reqs') \subseteq ToSet(reqs)
    BY <1>2, <1>3, <1>5
<1> QED BY <1>2, <1>3, <1>7, <1>9, <1>10, <1>12, <1>13, <1>15, <1>16, <1>17, RelayCarries

\* A frame is appended to the wire.
LEMMA SentFrame ==
    ASSUME NEW w, NEW n \in Nat, w \in Wires(n), NEW f \in Frames(n)
    PROVE  ToSet(Append(w, f)) = ToSet(w) \cup {f}
BY HeldAppend DEF Wires

\* A channel is archived, and its subscription closed.
LEMMA ArchiveCarries ==
    ASSUME Typed, Carried, LogKept, ReachedKept, NEW c \in Channels, Archive(c)
    PROVE  Carried'
<1>1. /\ relay' = [relay EXCEPT !.archived = @ \cup {c}, !.live = @ \ {c}]
      /\ wire' = wire \o Evicted(c) /\ UNCHANGED <<phase, todo, bg, cmds, reqs>>
    BY DEF Archive, clientVars
<1>2. relay \in Relay /\ LogEnd \in Nat
    BY LogLen DEF Typed, RelayTyped, LogEnd
<1>3. /\ relay'.log = relay.log /\ relay'.members = relay.members /\ relay'.clock = relay.clock
      /\ relay'.cut = relay.cut /\ relay'.live = relay.live \ {c} /\ c \in relay'.archived
      /\ relay.clock \in Nat
    BY <1>1, <1>2 DEF Relay
<1>4. ~Steady(c)'
    BY <1>3, RelayClientConstants DEF Steady
<1>5. ToSet(wire') = ToSet(wire) \cup ToSet(Evicted(c))
    <2>1. Evicted(c) \in Wires(LogEnd) /\ wire \in Wires(LogEnd)
        BY <1>2, EvictedWire DEF Typed, RelayTyped
    <2> QED BY <1>1, <2>1, HeldConcat DEF Wires
<1>6. \A f \in ToSet(wire') : f \in ToSet(wire)
              \/ /\ f.closed = "none" => f.sub = Sub(f.event)'
                 /\ f.closed = "denied" => ~Steady(f.sub)'
                 /\ f.closed \in {"limited", "error"} => relay'.cut
    BY <1>4, <1>5, EvictedHolds DEF Closed
<1>7. Ids' = Ids /\ \A s : Steady(s)' => Steady(s) /\ s # c
    BY <1>3, <1>4 DEF Ids, LogKept
<1>8. \A k \in Channels : Steady(k)' => k \in relay'.members
    BY <1>3, <1>7 DEF Carried, Rooted
<1>9. \A s \in Subs : Steady(s)' /\ s \in relay.live => s \in relay'.live
    BY <1>3, <1>7
<1>10. \A s : Asked(s, relay.clock) => Asked(s, relay.clock)'
    BY <1>1, <1>3 DEF Asked
<1>11. \A i \in Ids : Asked(Sub(i), Time(i)) => Asked(Sub(i), Time(i))'
    BY <1>1 DEF Asked, LogKept
<1> QED BY <1>1, <1>3, <1>5, <1>6, <1>7, <1>8, <1>9, <1>10, <1>11, RelayCarries

LEMMA TickCarries ==
    ASSUME Typed, Carried, LogKept, ReachedKept, Tick
    PROVE  Carried'
<1>1. /\ relay' = [relay EXCEPT !.clock = @ + 1]
      /\ UNCHANGED <<wire, phase, todo, bg, cmds, reqs>>
    BY DEF Tick, clientVars
<1>2. relay \in Relay
    BY DEF Typed, RelayTyped
<1>3. /\ relay'.log = relay.log /\ relay'.members = relay.members
      /\ relay'.clock = relay.clock + 1 /\ relay.clock \in Nat
      /\ relay'.cut = relay.cut /\ relay'.live = relay.live
    BY <1>1, <1>2 DEF Relay
<1>4. relay'.clock \in Nat /\ relay.clock <= relay'.clock
    BY <1>3
<1>5. Ids' = Ids /\ \A s : Steady(s)' => Steady(s)
    BY <1>3 DEF Ids, LogKept
<1>6. \A k \in Channels : Steady(k)' => k \in relay'.members
    BY <1>3, <1>5 DEF Carried, Rooted
<1>7. \A s : Asked(s, relay.clock) => Asked(s, relay.clock)'
    <2> SUFFICES ASSUME NEW s, Asked(s, relay.clock) PROVE Asked(s, relay.clock)'
        OBVIOUS
    <2>1. PICK r \in ToSet(reqs) : r.sub = s /\ ~r.close /\ r.since <= relay.clock
        BY DEF Asked
    <2>2. r \in Request
        BY HeldIn DEF Typed, RelayTyped, Requests
    <2>3. r.since <= relay'.clock
        BY <1>3, <1>4, <2>1, <2>2 DEF Request
    <2> QED BY <1>1, <2>1, <2>3 DEF Asked
<1>8. \A i \in Ids : Asked(Sub(i), Time(i)) => Asked(Sub(i), Time(i))'
    BY <1>1 DEF Asked, LogKept
<1> QED BY <1>1, <1>3, <1>4, <1>5, <1>6, <1>7, <1>8, RelayCarries

\* The relay takes a frame off the socket: a REQ is replayed, or refused.
LEMMA AnswerCarries ==
    ASSUME Typed, Carried, LogKept, ReachedKept, UNCHANGED <<phase, todo, bg, cmds>>,
           reqs # <<>>, reqs' = Tail(reqs), NEW r, r = Head(reqs),
           relay'.log = relay.log, relay'.members = relay.members, relay'.clock = relay.clock,
           relay.cut => relay'.cut, ToSet(wire) \subseteq ToSet(wire'),
           \A f \in ToSet(wire') : f \in ToSet(wire)
              \/ /\ f.closed = "none" => f.sub = Sub(f.event)'
                 /\ f.closed = "denied" => ~Steady(f.sub)'
                 /\ f.closed \in {"limited", "error"} => relay'.cut,
           \A s \in Subs : Steady(s)' /\ s \in relay.live => s \in relay'.live,
           Steady(r.sub)' /\ ~r.close =>
              \/ relay'.cut /\ Bounced(r.sub)'
              \/ /\ r.sub \in relay'.live
                 /\ \A i \in Ids : Sub(i) = r.sub /\ r.since <= Time(i) => OnWire(i)'
    PROVE  Carried'
<1>1. ToSet(reqs) = {r} \cup ToSet(reqs') /\ r \in ToSet(reqs)
    BY HeldTail DEF Typed, RelayTyped, Requests
<1>2. Ids' = Ids /\ \A s : Steady(s)' => Steady(s)
    BY DEF Ids, LogKept
<1>3. \A i \in Ids : Time(i)' = Time(i) /\ Sub(i)' = Sub(i)
    BY DEF LogKept
<1>4. relay.clock \in Nat
    BY DEF Typed, RelayTyped, Relay
<1>5. \A c \in Channels : Steady(c)' => c \in relay'.members
    BY <1>2 DEF Carried, Rooted
<1>6. ASSUME NEW s, NEW t, Asked(s, t)
      PROVE  Asked(s, t)' \/ (s = r.sub /\ ~r.close /\ r.since <= t)
    BY <1>1, <1>6 DEF Asked
<1>7. ASSUME NEW s \in Subs, Steady(s)', Asked(s, relay.clock)
      PROVE  s \in relay'.live \/ Asked(s, relay.clock)' \/ (relay'.cut /\ Lost(s)')
    <2>1. PICK t : t = relay.clock
        OBVIOUS
    <2>2. Asked(s, t)' \/ (s = r.sub /\ ~r.close /\ r.since <= t)
        BY <1>6, <1>7, <2>1
    <2>3. Asked(s, t)' => Asked(s, relay.clock)'
        BY <2>1 DEF Asked
    <2> QED BY <1>7, <2>2, <2>3 DEF Lost
<1>8. ASSUME NEW i \in Ids, Steady(Sub(i))', Asked(Sub(i), Time(i))
      PROVE  OnWire(i)' \/ Asked(Sub(i), Time(i))' \/ Missing(Sub(i), Time(i))'
    <2>1. PICK s, t : s = Sub(i) /\ t = Time(i)
        OBVIOUS
    <2>2. Asked(s, t)' \/ (s = r.sub /\ ~r.close /\ r.since <= t)
        BY <1>6, <1>8, <2>1
    <2>3. Sub(i)' = s /\ Time(i)' = t
        BY <1>3, <2>1
    <2>4. Asked(s, t)' => Asked(Sub(i), Time(i))'
        BY <2>3 DEF Asked
    <2>5. relay'.cut /\ Bounced(s)' => Missing(Sub(i), Time(i))'
        BY <2>3 DEF Missing, Lost, Bounced
    <2>6. Steady(s)'
        BY <1>8, <2>3 DEF Steady
    <2> QED BY <2>1, <2>2, <2>4, <2>5, <2>6
<1> QED BY <1>1, <1>2, <1>4, <1>5, <1>7, <1>8, RelayCarries

\* A REQ that is served puts all that it asks for on the wire.
LEMMA ReplayHolds ==
    ASSUME RelayTyped, ServeReq, NEW r, r = Head(reqs)
    PROVE  /\ ToSet(wire') = ToSet(wire) \cup {EventFrame(r.sub, i) : i \in Stored(r.sub, r.since)}
           /\ Stored(r.sub, r.since) \subseteq 1..LogEnd
<1> DEFINE n == Len(relay.log)
           S == Stored(r.sub, r.since)
<1>1. relay \in Relay /\ wire \in Wires(n) /\ n \in Nat /\ DOMAIN relay.log = 1..n
    BY LogLen DEF RelayTyped, LogEnd
<1>2. r.sub \in Subs
    BY RequestHead DEF RelayTyped, ServeReq
<1>3. S \subseteq 1..n
    BY <1>1 DEF Stored, Ids
<1>4. IsFiniteSet(S)
    <2>1. IsFiniteSet(1..n)
        BY <1>1, FS_Interval
    <2> QED BY <1>3, <2>1, FS_Subset
<1> HIDE DEF S
<1>5. PICK q \in SetToSeqs(S) : wire' = wire \o [j \in DOMAIN q |-> EventFrame(r.sub, q[j])]
    BY DEF ServeReq, Replays, S
<1>6. q \in Seq(S) /\ ToSet(q) = S
    BY <1>4, OrderingsTypes, OrderingsHold
<1> DEFINE fs == [j \in DOMAIN q |-> EventFrame(r.sub, q[j])]
<1>7. fs \in Wires(n)
    <2>1. \A j \in DOMAIN q : EventFrame(r.sub, q[j]) \in Frames(n)
        <3>1. \A i \in 1..n : EventFrame(r.sub, i) \in Frames(n)
            BY <1>1, <1>2, FrameTypes
        <3>2. \A j \in DOMAIN q : q[j] \in 1..n
            <4>1. \A j \in DOMAIN q : q[j] \in S
                BY ONLY <1>6
            <4> QED BY ONLY <1>3, <4>1
        <3> QED BY <3>1, <3>2
    <2>2. DOMAIN q = 1..Len(q) /\ Len(q) \in Nat
        BY <1>6
    <2>3. fs \in [1..Len(q) -> Frames(n)]
        BY <2>1, <2>2
    <2> QED BY <2>2, <2>3 DEF Wires
<1>8. ToSet(fs) = {EventFrame(r.sub, i) : i \in S}
    <2>1. ToSet(fs) = {EventFrame(r.sub, q[j]) : j \in DOMAIN q}
        BY DEF ToSet
    <2>2. S = {q[j] : j \in DOMAIN q}
        BY <1>6 DEF ToSet
    <2> QED BY <2>1, <2>2
<1> HIDE DEF fs
<1>9. ToSet(wire \o fs) = ToSet(wire) \cup ToSet(fs)
    BY <1>1, <1>7, HeldConcat DEF Wires
<1> QED BY <1>3, <1>5, <1>8, <1>9 DEF fs, S, LogEnd

LEMMA ServeReqCarries ==
    ASSUME Typed, Carried, LogKept, ReachedKept, ServeReq
    PROVE  Carried'
<1>1. PICK r : r = Head(reqs)
    OBVIOUS
<1>2. /\ relay' = [relay EXCEPT !.live = @ \cup {r.sub}] /\ ~r.close /\ reqs # <<>>
      /\ UNCHANGED <<phase, todo, bg, cmds>> /\ reqs' = Tail(reqs)
    BY <1>1 DEF ServeReq, clientVars
<1>3. relay \in Relay /\ RelayTyped
    BY DEF Typed, RelayTyped
<1>4. /\ relay'.log = relay.log /\ relay'.members = relay.members /\ relay'.clock = relay.clock
      /\ relay'.cut = relay.cut /\ relay'.live = relay.live \cup {r.sub}
    BY <1>2, <1>3 DEF Relay
<1>5. ToSet(wire') = ToSet(wire) \cup {EventFrame(r.sub, i) : i \in Stored(r.sub, r.since)}
    BY <1>1, <1>3, ReplayHolds
<1>6. \A i : /\ EventFrame(r.sub, i).closed = "none" /\ EventFrame(r.sub, i).event = i
             /\ EventFrame(r.sub, i).sub = r.sub
    BY DEF EventFrame
<1>7. \A i \in Ids : Sub(i)' = Sub(i)
    BY DEF LogKept
<1>8. \A i \in Stored(r.sub, r.since) : i \in Ids /\ Sub(i) = r.sub
    BY DEF Stored, Sub
<1>9. \A f \in ToSet(wire') : f \in ToSet(wire)
         \/ /\ f.closed = "none" => f.sub = Sub(f.event)'
            /\ f.closed = "denied" => ~Steady(f.sub)'
            /\ f.closed \in {"limited", "error"} => relay'.cut
    <2> SUFFICES ASSUME NEW i \in Stored(r.sub, r.since), NEW f, f = EventFrame(r.sub, i)
                 PROVE  f.sub = Sub(f.event)' /\ f.closed = "none"
        BY <1>5
    <2> QED BY <1>6, <1>7, <1>8
<1>10. ASSUME NEW i \in Ids, Sub(i) = r.sub, r.since <= Time(i) PROVE OnWire(i)'
    <2>1. i \in Stored(r.sub, r.since)
        <3>1. relay.log[i].at \in Nat /\ r.since \in Nat
            <4>1. relay.log[i] \in Event /\ r \in Request
                BY <1>1, <1>2, <1>3, LogLen, LogEvent, RequestHead DEF RelayTyped, Ids
            <4> QED BY <4>1 DEF Event, Request
        <3> QED BY <1>10, <3>1 DEF Stored, Sub, Time
    <2>2. EventFrame(r.sub, i) \in ToSet(wire')
        BY <1>5, <2>1
    <2> QED BY <1>6, <2>2 DEF OnWire
<1> QED BY <1>1, <1>2, <1>4, <1>5, <1>9, <1>10, AnswerCarries

LEMMA RejectCarries ==
    ASSUME Typed, Carried, LogKept, ReachedKept,
           DenyReq \/ RefuseReq("limited") \/ RefuseReq("error")
    PROVE  Carried'
<1>1. PICK r, why : /\ r = Head(reqs) /\ Reject(why) /\ why \in {"denied", "limited", "error"}
                    /\ (why = "denied" /\ DenyReq) \/ (why # "denied" /\ RefuseReq(why))
    BY DEF DenyReq, RefuseReq
<1>2. PICK f : f = Closed(r.sub, why)
    OBVIOUS
<1>3. f.sub = r.sub /\ f.closed = why
    BY <1>2 DEF Closed
<1>4. /\ reqs # <<>> /\ UNCHANGED <<phase, todo, bg, cmds>> /\ reqs' = Tail(reqs)
      /\ wire' = Append(wire, f)
    BY <1>1, <1>2 DEF Reject, clientVars
<1>5. relay \in Relay /\ RelayTyped /\ LogEnd \in Nat
    BY LogLen DEF Typed, RelayTyped, LogEnd
<1>6. /\ relay'.log = relay.log /\ relay'.members = relay.members /\ relay'.clock = relay.clock
      /\ relay'.live = relay.live
      /\ relay.cut => relay'.cut
      /\ why # "denied" => relay'.cut
    BY <1>1, <1>5 DEF Relay, DenyReq, RefuseReq
<1>7. why = "denied" => r.sub \in Channels \ relay.members
    BY <1>1 DEF DenyReq
<1>8. why = "denied" => ~Steady(r.sub)'
    BY <1>7 DEF Carried, Rooted, LogKept
<1>9. ToSet(wire') = ToSet(wire) \cup {f}
    <2>1. f \in Frames(LogEnd)
        BY <1>1, <1>2, <1>4, <1>5, <1>7, RequestHead, FrameTypes DEF RelayTyped
    <2> QED BY <1>4, <1>5, <2>1, SentFrame DEF RelayTyped
<1>10. \A x \in ToSet(wire') : x \in ToSet(wire)
         \/ /\ x.closed = "none" => x.sub = Sub(x.event)'
            /\ x.closed = "denied" => ~Steady(x.sub)'
            /\ x.closed \in {"limited", "error"} => relay'.cut
    BY <1>1, <1>3, <1>6, <1>8, <1>9
<1>11. Steady(r.sub)' => relay'.cut /\ Bounced(r.sub)'
    <2>1. why # "denied" => Bounced(r.sub)'
        BY <1>1, <1>3, <1>9 DEF Bounced
    <2> QED BY <1>6, <1>8, <2>1
<1> QED BY <1>1, <1>4, <1>6, <1>9, <1>10, <1>11, AnswerCarries

LEMMA ServeCloseCarries ==
    ASSUME Typed, Carried, LogKept, ReachedKept, ServeClose
    PROVE  Carried'
<1>1. PICK r : r = Head(reqs)
    OBVIOUS
<1>2. /\ relay' = [relay EXCEPT !.live = @ \ {r.sub}] /\ r.close /\ reqs # <<>>
      /\ UNCHANGED <<wire, phase, todo, bg, cmds>> /\ reqs' = Tail(reqs)
    BY <1>1 DEF ServeClose, clientVars
<1>3. relay \in Relay
    BY DEF Typed, RelayTyped
<1>4. /\ relay'.log = relay.log /\ relay'.members = relay.members /\ relay'.clock = relay.clock
      /\ relay'.cut = relay.cut /\ relay'.live = relay.live \ {r.sub}
    BY <1>2, <1>3 DEF Relay
<1>5. r \in ToSet(reqs)
    BY <1>1, <1>2, HeldTail DEF Typed, RelayTyped, Requests
<1>6. ~Steady(r.sub)'
    BY <1>2, <1>5 DEF Carried, Framed, LogKept
<1>7. \A s \in Subs : Steady(s)' /\ s \in relay.live => s \in relay'.live
    BY <1>4, <1>6
<1> QED BY <1>1, <1>2, <1>4, <1>7, AnswerCarries

\* The main loop asks for channels whose membership has changed.
LEMMA LoopCarries ==
    ASSUME Typed, Carried, LogKept, ReachedKept,
           MainStep \/ (\E ok \in BOOLEAN : WakeReturns(ok)) \/ AbortWake \/ Exit
    PROVE  Carried'
<1>1. UNCHANGED <<relay, wire, reqs, phase, todo, bg>>
    BY LoopStepTypes DEF relayVars, clientVars
<1>2. /\ eventq \in Seq(0..LogEnd) /\ cmds \in Seq(Order) /\ LogEnd \in Nat
      /\ Ids = 1..LogEnd /\ relay \in Relay
    BY LogLen DEF Typed, RelayTyped, ClientTyped, LoopTyped, Queues, Orders, LogEnd, Ids
<1>3. ASSUME NEW o, o \in Order, cmds' = Append(cmds, o),
             o.op = "reconnect" \/ ~Steady(o.channel)
      PROVE  \A c \in ToSet(cmds') : c \in ToSet(cmds) \/ c.op = "reconnect" \/ ~Steady(c.channel)
    <2>1. ToSet(cmds') = ToSet(cmds) \cup {o}
        BY <1>2, <1>3, HeldAppend
    <2> QED BY <1>3, <2>1
<1>4. CASE cmds' = cmds
    BY <1>1, <1>4, UnmovedCarries
<1>5. CASE TakeSentinel
    <2>1. PICK o : o = [op |-> "reconnect", channel |-> "membership", since |-> 0]
        OBVIOUS
    <2>2. cmds' = Append(cmds, o) /\ o \in Order /\ o.op = "reconnect"
        BY <1>5, <2>1 DEF TakeSentinel, Order, Command, Subs
    <2> QED BY <1>1, <1>3, <2>2, UnmovedCarries
<1>6. CASE ApplyAdded \/ ApplyRemoved
    <2>1. eventq # <<>> /\ Head(eventq) # 0 /\ relay.log[Head(eventq)].kind # "message"
        BY <1>6 DEF ApplyAdded, ApplyRemoved, Applies, Taking
    <2>2. PICK h : h = Head(eventq)
        OBVIOUS
    <2>3. h \in Ids /\ Change(h)
        BY <1>2, <2>1, <2>2 DEF Change
    <2>4. relay.log[h] \in Event
        BY <1>2, <2>3, LogEvent DEF LogEnd
    <2>5. PICK c, t : c = ChannelOf(h) /\ t = relay.log[h].at
        OBVIOUS
    <2>6. c \in Channels /\ c # "membership" /\ t \in Nat
        BY <2>4, <2>5, RelayClientConstants DEF ChannelOf, Event
    <2>7. ~Steady(c)
        BY <2>3, <2>5, <2>6 DEF Steady
    <2>8. \/ cmds' = cmds
          \/ cmds' = Append(cmds, [op |-> "subscribe", channel |-> c, since |-> t])
          \/ cmds' = Append(cmds, [op |-> "unsubscribe", channel |-> c, since |-> 0])
        BY <1>6, <2>2, <2>5 DEF ApplyAdded, ApplyRemoved
    <2>9. ASSUME NEW op \in {"subscribe", "unsubscribe"}, NEW x \in Nat,
                 cmds' = Append(cmds, [op |-> op, channel |-> c, since |-> x])
          PROVE  Carried'
        <3>1. PICK o : o = [op |-> op, channel |-> c, since |-> x]
            OBVIOUS
        <3>2. o \in Order /\ o.channel = c /\ cmds' = Append(cmds, o)
            BY <2>6, <2>9, <3>1 DEF Order, Command, Subs
        <3> QED BY <1>1, <1>3, <2>7, <3>2, UnmovedCarries
    <2> QED BY <1>4, <2>6, <2>8, <2>9
<1> QED BY <1>4, <1>5, <1>6 DEF MainStep, TakeMessage, SkipNotification, TurnSucceeds,
       TurnFails, Maintenance, RetryDeadline, RetryFires, WakePanics, TakeWakeResult,
       JoinWakeTask, Sleep, StopLoop, BackoffExpires, WakeReturns, AbortWake, Exit, LoopStep

LEMMA RelayStepCarries ==
    ASSUME Typed, Carried, LogKept, ReachedKept, RelayStep
    PROVE  Carried'
<1>1. ASSUME NEW c \in Channels, Publish(c) \/ AddMember(c) \/ RemoveMember(c) \/ Restore(c)
      PROVE  Carried'
    BY <1>1, StoringSteps, StoringCarries
<1>2. RefuseReq("limited") \/ RefuseReq("error") \/ DenyReq => Carried'
    BY RejectCarries
<1> QED BY <1>1, <1>2, ArchiveCarries, TickCarries, ServeReqCarries, ServeCloseCarries
        DEF RelayStep

LEMMA ClientStepCarries ==
    ASSUME Typed, Carried, LogKept, ReachedKept, Remembered, ClientStep
    PROVE  Carried'
BY ReceiveEventCarries, ReceiveClosedCarries, StartCarries, ResubscribeCarries, PauseCarries,
   CommandCarries, LostSocketCarries, DrainParkedCarries DEF ClientStep

LEMMA CarriedStep ==
    ASSUME Typed, Carried, Remembered, [Next]_vars
    PROVE  Carried' /\ Remembered'
<1>1. LogKept
    BY LogKeptStep
<1>2. ReachedKept /\ Remembered'
    BY <1>1, ReachedStep DEF ReachedKept
<1>3. CASE UNCHANGED vars
    BY <1>1, <1>2, <1>3, UnmovedCarries DEF vars
<1>4. CASE RelayStep
    BY <1>1, <1>2, <1>4, RelayStepCarries
<1>5. CASE ClientStep
    BY <1>1, <1>2, <1>5, ClientStepCarries
<1>6. CASE MainStep \/ (\E ok \in BOOLEAN : WakeReturns(ok)) \/ AbortWake \/ Exit
    BY <1>1, <1>2, <1>6, LoopCarries
<1> QED BY <1>2, <1>3, <1>4, <1>5, <1>6 DEF Next

LEMMA CarriedInit == Init => Carried /\ Remembered
<1> SUFFICES ASSUME Init PROVE Carried /\ Remembered
    OBVIOUS
<1> DEFINE J == budget.joined
           e == <<>>
<1>1. budget \in Scenario /\ J \in SUBSET Channels
    BY IntakeConstants DEF Init, Scenario
<1>2. /\ relay = [clock |-> 0, log |-> e, members |-> J, archived |-> {}, cut |-> FALSE,
                  live |-> J \cup {"membership"}]
      /\ wire = e /\ reqs = e /\ todo = e /\ cmds = e /\ phase = "up"
      /\ main = [subscribed |-> J, newest |-> e, seen |-> Unseen, removed |-> {}]
    BY DEF Init
<1>3. bg = [active |-> J, lastSeen |-> [s \in {"membership"} |-> 0], dropped |-> e,
            floor |-> [c \in J |-> 0], seen |-> Unseen, parked |-> {},
            gated |-> FALSE, proactive |-> FALSE]
    BY DEF Init, Fresh
<1>4. DOMAIN e = {} /\ ToSet(e) = {}
    BY HeldNothing
<1> HIDE DEF e, J
<1>5. /\ relay.clock = 0 /\ relay.log = e /\ relay.members = J /\ relay.cut = FALSE
      /\ relay.live = J \cup {"membership"} /\ Ids = {}
      /\ main.seen = Unseen
    BY ONLY <1>2, <1>4 DEF Ids
<1>6. PICK l, f : l = [s \in {"membership"} |-> 0] /\ f = [c \in J |-> 0]
    OBVIOUS
<1>7. /\ bg.lastSeen = l /\ bg.dropped = e /\ bg.active = J /\ bg.floor = f
      /\ bg.parked = {} /\ bg.gated = FALSE /\ bg.proactive = FALSE /\ bg.seen = Unseen
    BY <1>3, <1>6
<1>8. Clocked
    BY <1>4, <1>5, <1>6, <1>7 DEF Clocked
<1>9. Framed /\ Uncut /\ Flows
    BY <1>2, <1>4, <1>5, <1>7 DEF Framed, Uncut, Flows
<1>10. \A s : Steady(s) => s \in J \cup {"membership"}
    BY DEF Steady, J
<1>11. Listens
    BY <1>5, <1>10 DEF Listens
<1>12. Rooted
    <2>1. \A c \in J : f[c] = 0
        BY <1>6
    <2> QED BY <1>5, <1>7, <1>10, <2>1, RelayClientConstants DEF Rooted
<1>13. Remembered
    BY <1>5, <1>7 DEF Remembered, Knows, Unseen
<1> QED BY <1>8, <1>9, <1>11, <1>12, <1>13 DEF Carried

LEMMA CarriedAlways == Spec => [](Typed /\ Carried /\ Remembered)
<1>1. Init => Typed /\ Carried /\ Remembered
    BY TypedInit, CarriedInit
<1>2. Typed /\ Carried /\ Remembered /\ [Next]_vars => (Typed /\ Carried /\ Remembered)'
    BY TypedStep, CarriedStep
<1> QED BY <1>1, <1>2, PTL DEF Spec

-----------------------------------------------------------------------------
(* Channels left and joined                                                 *)

\* The client does not hold the channel, or is about to let go of it.
Dropping(c) ==
    \/ c \notin bg.active
    \/ \E f \in ToSet(wire) : f.sub = c /\ f.closed = "denied"
    \/ \E o \in ToSet(cmds) : o.op = "unsubscribe" /\ o.channel = c

\* A message published since the last change of its channel.
Current(i) ==
    /\ ~Change(i) /\ ChannelOf(i) \in relay.members
    /\ \A j \in Changes(ChannelOf(i)) : j < i

\* A REQ replays what is published at t, or will, or the client has passed it.
Covered(c, t) == Asked(c, t) \/ (relay.cut /\ Lost(c)) \/ Passed(c, t) \/ Noticed(c, t)

\* No CLOSE is on its way to the relay, or a REQ follows it.
Unclosed(c) == \A r \in ToSet(reqs) : r.sub = c => ~r.close
Renewed(c) ==
    \E k \in DOMAIN reqs : /\ reqs[k].sub = c /\ ~reqs[k].close /\ reqs[k].since <= relay.clock
                           /\ \A j \in DOMAIN reqs : j > k /\ reqs[j].sub = c => ~reqs[j].close

\* No current message of the channel is older than x.
Early(c, x) ==
    x <= relay.clock /\ \A i \in Ids : Current(i) /\ ChannelOf(i) = c => x <= Time(i)

Sorted == \A i, j \in Ids : i < j => Time(i) <= Time(j)
Floored ==
    /\ \A c \in DOMAIN bg.floor : Early(c, bg.floor[c])
    /\ \A o \in ToSet(cmds) : o.op = "subscribe" => Early(o.channel, o.since)

\* The relay sends what is new on a channel the client holds, or will when it is
\* asked.
Attended(c) == (c \in relay.live /\ Unclosed(c)) \/ Renewed(c) \/ (relay.cut /\ Lost(c))
Attends == \A c \in Channels : ~Dropping(c) => Attended(c)

\* A current message of such a channel has reached the main loop or is covered.
Kept ==
    \A i \in Ids : Current(i) /\ ~Dropping(ChannelOf(i)) =>
        Reached(i) \/ OnWire(i) \/ Covered(ChannelOf(i), Time(i))

Held == Sorted /\ Floored /\ Attends /\ Kept

\* An event is stored at the end of the log, at the time of the clock.
LEMMA StoredLast ==
    ASSUME Typed, LogKept, [Next]_vars
    PROVE  /\ \A i \in Ids' : i \in Ids \/ (Time(i)' = relay'.clock /\ \A j \in Ids : j < i)
           /\ \A i \in Ids : Current(i)' => Current(i)
           /\ relay'.clock \in Nat /\ relay.clock <= relay'.clock
<1>1. relay \in Relay /\ LogEnd \in Nat /\ Ids = 1..LogEnd /\ relay.clock \in Nat
    BY LogLen DEF Typed, RelayTyped, LogEnd, Ids, Relay
<1>2. \A c : Changes(c) \subseteq Changes(c)'
    <2> SUFFICES ASSUME NEW c, NEW j \in Changes(c) PROVE j \in Changes(c)'
        OBVIOUS
    <2>1. j \in Ids /\ Change(j) /\ ChannelOf(j) = c
        BY DEF Changes, Change
    <2>2. j \in Ids' /\ Change(j)' /\ ChannelOf(j)' = c
        BY <2>1 DEF LogKept
    <2> QED BY <2>2 DEF Changes, Change
<1>3. CASE Unstored
    <2>1. Ids' = Ids
        BY <1>3 DEF Unstored, Ids
    <2>2. ASSUME NEW i \in Ids, Current(i)' PROVE Current(i)
        <3>1. PICK c : c = ChannelOf(i)
            OBVIOUS
        <3>2. ChannelOf(i)' = c /\ Change(i)' = Change(i)
            BY <3>1 DEF LogKept
        <3>3. ~Change(i) /\ c \in relay'.members /\ \A j \in Changes(c)' : j < i
            BY <2>2, <3>2 DEF Current, Changes
        <3>4. c \in relay.members
            BY <1>3, <3>3 DEF Unstored
        <3> QED BY <1>2, <3>1, <3>3, <3>4 DEF Current
    <2> QED BY <1>3, <2>1, <2>2 DEF Unstored
<1>4. ASSUME NEW e \in Event, NEW members \in SUBSET Channels, NEW live \in SUBSET Subs,
             NEW before \in Wires(LogEnd), Storing(e, members, live, before)
      PROVE  /\ \A i \in Ids' : i \in Ids \/ (Time(i)' = relay'.clock /\ \A j \in Ids : j < i)
             /\ \A i \in Ids : Current(i)' => Current(i)
             /\ relay'.clock \in Nat /\ relay.clock <= relay'.clock
    <2>1. PICK n : n = LogEnd + 1
        OBVIOUS
    <2>2. /\ Ids' = Ids \cup {n} /\ n \notin Ids /\ relay'.log[n] = e
          /\ relay'.clock = relay.clock /\ relay'.members = members
        BY <1>4, <2>1, StoreShape DEF Storing, Typed
    <2>3. Time(n)' = relay'.clock /\ \A j \in Ids : j < n
        BY <1>1, <1>4, <2>1, <2>2 DEF Time, Storing
    <2>4. e.kind # "message" => n \in Changes(e.channel)'
        BY <2>2 DEF Changes, ChannelOf
    <2>5. ASSUME NEW i \in Ids, Current(i)' PROVE Current(i)
        <3>1. PICK c : c = ChannelOf(i)
            OBVIOUS
        <3>2. ChannelOf(i)' = c /\ Change(i)' = Change(i)
            BY <3>1 DEF LogKept
        <3>3. ~Change(i) /\ c \in members /\ \A j \in Changes(c)' : j < i
            BY <2>2, <2>5, <3>2 DEF Current, Changes
        <3>4. c # e.channel \/ e.kind = "message"
            <4>1. ~(n < i)
                BY <1>1, <2>1
            <4> QED BY <2>4, <3>3, <4>1
        <3>5. c \in relay.members
            BY <1>4, <3>3, <3>4 DEF Storing
        <3> QED BY <1>2, <3>1, <3>3, <3>5 DEF Current
    <2> QED BY <1>1, <2>2, <2>3, <2>5
<1> QED BY <1>3, <1>4, LogSteps

LEMMA StoredTimes ==
    ASSUME Typed
    PROVE  /\ relay.clock \in Nat /\ Ids \subseteq Nat
           /\ \A i \in Ids : Time(i) \in Nat /\ ChannelOf(i) \in Channels
<1>1. relay \in Relay /\ relay.clock \in Nat /\ Ids = 1..LogEnd /\ LogEnd \in Nat
    BY LogLen DEF Typed, RelayTyped, LogEnd, Ids, Relay
<1>2. \A i \in Ids : relay.log[i] \in Event
    BY <1>1, LogEvent DEF LogEnd
<1> QED BY <1>1, <1>2 DEF Event, Time, ChannelOf

\* What was early stays so, and the log stays in the order of its times.
EarlyKept == \A c : \A x \in Nat : Early(c, x) => Early(c, x)'

LEMMA EarlyStep ==
    ASSUME Typed, Carried, LogKept, [Next]_vars
    PROVE  EarlyKept /\ (Sorted => Sorted')
<1>1. /\ \A i \in Ids' : i \in Ids \/ (Time(i)' = relay'.clock /\ \A j \in Ids : j < i)
      /\ \A i \in Ids : Current(i)' => Current(i)
      /\ relay'.clock \in Nat /\ relay.clock <= relay'.clock
    BY StoredLast
<1>2. \A i \in Ids : Time(i)' = Time(i) /\ ChannelOf(i)' = ChannelOf(i) /\ i \in Ids'
    BY DEF LogKept
<1>3. relay.clock \in Nat /\ Ids \subseteq Nat /\ \A i \in Ids : Time(i) \in Nat
    BY StoredTimes
<1>4. ASSUME NEW c, NEW x \in Nat, Early(c, x) PROVE Early(c, x)'
    <2>1. x <= relay.clock
        BY <1>4 DEF Early
    <2>2. x <= relay'.clock
        BY <1>1, <1>3, <2>1
    <2>3. ASSUME NEW i \in Ids', Current(i)', ChannelOf(i)' = c PROVE x <= Time(i)'
        <3>1. CASE i \in Ids
            BY <1>1, <1>2, <1>4, <2>3, <3>1 DEF Early
        <3>2. CASE i \notin Ids
            BY <1>1, <2>2, <3>2
        <3> QED BY <3>1, <3>2
    <2> QED BY <2>2, <2>3 DEF Early
<1>5. ASSUME Sorted PROVE Sorted'
    <2> SUFFICES ASSUME NEW i \in Ids', NEW j \in Ids', i < j PROVE Time(i)' <= Time(j)'
        BY DEF Sorted
    <2>1. CASE i \in Ids /\ j \in Ids
        BY <1>2, <1>5, <2>1 DEF Sorted
    <2>2. CASE i \in Ids /\ j \notin Ids
        <3>1. Time(i) <= relay.clock
            BY <2>2 DEF Carried, Clocked
        <3> QED BY <1>1, <1>2, <1>3, <2>2, <3>1
    <2>3. CASE i \notin Ids /\ j \notin Ids
        BY <1>1, <2>3
    <2>4. CASE i \notin Ids /\ j \in Ids
        <3>1. j < i
            BY <1>1, <2>4
        <3>2. j \in Nat /\ i \in Nat
            <4>1. relay' \in Relay
                BY TypedStep DEF Typed, RelayTyped
            <4>2. i \in Nat
                BY <4>1, LogLen DEF Ids
            <4> QED BY <1>3, <2>4, <4>2
        <3> QED BY <3>1, <3>2
    <2> QED BY <2>1, <2>2, <2>3, <2>4
<1> QED BY <1>4, <1>5 DEF EarlyKept

\* The relay moves: channels the client holds stay attended, and what it has
\* asked for is replayed.
LEMMA RelayHolds ==
    ASSUME Typed, Carried, Held, LogKept, ReachedKept, [Next]_vars,
           UNCHANGED <<phase, todo, bg, cmds>>,
           relay.cut => relay'.cut, ToSet(wire) \subseteq ToSet(wire'),
           \A c \in Channels : ~Dropping(c)' /\ Attended(c) => Attended(c)',
           \A i \in Ids : Current(i) /\ ~Dropping(ChannelOf(i))' /\ Asked(ChannelOf(i), Time(i))
                            => OnWire(i)' \/ Covered(ChannelOf(i), Time(i))',
           \A i \in Ids' : i \in Ids \/ (Current(i)' /\ ~Dropping(ChannelOf(i))'
                                            => OnWire(i)' \/ Covered(ChannelOf(i), Time(i))')
    PROVE  Held'
<1>1. EarlyKept /\ Sorted'
    BY EarlyStep DEF Held
<1>2. \A i \in Ids : Current(i)' => Current(i)
    BY StoredLast
<1>3. \A i \in Ids : Time(i)' = Time(i) /\ ChannelOf(i)' = ChannelOf(i)
    BY DEF LogKept
<1>4. Floored'
    <2>1. /\ bg.floor \in [DOMAIN bg.floor -> Nat]
          /\ \A o \in ToSet(cmds) : o.since \in Nat
        <3>1. cmds \in Seq(Order)
            BY DEF Typed, ClientTyped, Orders
        <3> QED BY <3>1, HeldIn, MapsAre DEF Typed, ClientTyped, BgSound, Bg, Order, Command
    <2>2. PICK f, d : f = bg.floor /\ d = cmds
        OBVIOUS
    <2>3. bg'.floor = f /\ cmds' = d
        BY <2>2
    <2>4. \A c \in DOMAIN f : Early(c, f[c])'
        BY <1>1, <2>1, <2>2 DEF Held, Floored, EarlyKept
    <2>5. \A o \in ToSet(d) : o.op = "subscribe" => Early(o.channel, o.since)'
        BY <1>1, <2>1, <2>2 DEF Held, Floored, EarlyKept
    <2>6. (\A c \in DOMAIN bg.floor : Early(c, bg.floor[c]))'
        BY <2>3, <2>4 DEF Early
    <2> QED BY <2>3, <2>5, <2>6 DEF Floored
<1>5. \A c : ~Dropping(c)' => ~Dropping(c)
    BY DEF Dropping
<1>6. Attends'
    BY <1>5 DEF Held, Attends
<1>7. \A c : Lost(c) => Lost(c)'
    BY DEF Lost, Pending, Bounced
<1>8. ASSUME NEW i \in Ids, Current(i)', ~Dropping(ChannelOf(i))'
      PROVE  Reached(i)' \/ OnWire(i)' \/ Covered(ChannelOf(i), Time(i))'
    <2>1. PICK c, t : c = ChannelOf(i) /\ t = Time(i)
        OBVIOUS
    <2>2. ChannelOf(i)' = c /\ Time(i)' = t
        BY <1>3, <2>1
    <2>3. ~Dropping(c)'
        BY <1>8, <2>2 DEF Dropping
    <2>4. Reached(i) \/ OnWire(i) \/ Covered(c, t)
        BY <1>2, <1>5, <1>8, <2>1, <2>3 DEF Held, Kept
    <2>5. OnWire(i) => OnWire(i)'
        BY DEF OnWire
    <2>6. Covered(c, t)' => Covered(ChannelOf(i), Time(i))'
        BY <2>2 DEF Covered, Asked, Lost, Pending, Bounced, Passed, Noticed
    <2>7. Asked(c, t) => OnWire(i)' \/ Covered(ChannelOf(i), Time(i))'
        BY <1>2, <1>8, <2>1
    <2>8. (relay.cut /\ Lost(c)) \/ Passed(c, t) \/ Noticed(c, t) => Covered(c, t)'
        BY <1>7 DEF Covered, Passed, Noticed
    <2> QED BY <2>4, <2>5, <2>6, <2>7, <2>8 DEF ReachedKept, Covered
<1>9. Kept'
    BY <1>8 DEF Kept
<1> QED BY <1>1, <1>4, <1>6, <1>9 DEF Held

LEMMA StoringHolds ==
    ASSUME Typed, Carried, Held, LogKept, ReachedKept, [Next]_vars,
           NEW e \in Event, NEW members \in SUBSET Channels,
           NEW live \in SUBSET Subs, NEW before \in Wires(LogEnd),
           Storing(e, members, live, before)
    PROVE  Held'
<1>1. PICK n : n = LogEnd + 1
    OBVIOUS
<1>2. /\ Ids' = Ids \cup {n} /\ n \notin Ids /\ relay'.log[n] = e
      /\ relay'.clock = relay.clock /\ relay'.cut = relay.cut
      /\ relay'.members = members /\ relay'.live = live
      /\ ToSet(wire) \cup ToSet(before) \subseteq ToSet(wire')
      /\ SubOf(e) \in live /\ (e.kind # "message" \/ e.channel \in members)
           => EventFrame(SubOf(e), n) \in ToSet(wire')
    BY <1>1, StoreShape DEF Storing, Typed
<1>3. UNCHANGED <<phase, todo, bg, cmds, reqs>>
    BY DEF Storing, Store, clientVars
<1>4. /\ Time(n)' = relay.clock /\ ChannelOf(n)' = e.channel
      /\ Change(n)' <=> e.kind # "message"
    BY <1>2 DEF Time, ChannelOf, Change, Storing
<1>5. e.channel \in Channels
    BY DEF Event
<1>6. \A c : Lost(c) => Lost(c)'
    BY <1>2, <1>3 DEF Lost, Pending, Bounced
<1>7. \A c : ~Dropping(c)' => ~Dropping(c)
    BY <1>2, <1>3 DEF Dropping
<1>8. \A c : /\ Unclosed(c) => Unclosed(c)'
             /\ Renewed(c) => Renewed(c)'
    BY <1>2, <1>3 DEF Unclosed, Renewed
<1>9. ASSUME NEW c \in Channels, ~Dropping(c)', c \in relay.live PROVE c \in live
    <2> SUFFICES ASSUME c \notin live PROVE FALSE
        OBVIOUS
    <2>1. c = e.channel
        BY <1>9 DEF Storing
    <2>2. Closed(c, "denied") \in ToSet(wire')
        BY <1>2, <1>9, <2>1 DEF Storing
    <2>3. Dropping(c)'
        BY <2>2 DEF Dropping, Closed
    <2> QED BY <1>9, <2>3
<1>10. \A c \in Channels : ~Dropping(c)' /\ Attended(c) => Attended(c)'
    BY <1>2, <1>6, <1>8, <1>9 DEF Attended
<1>11. \A i \in Ids : Asked(ChannelOf(i), Time(i)) => Covered(ChannelOf(i), Time(i))'
    BY <1>3 DEF Asked, Covered, LogKept
<1>12. ASSUME Current(n)', ~Dropping(ChannelOf(n))'
       PROVE  OnWire(n)' \/ Covered(ChannelOf(n), Time(n))'
    <2>1. PICK c, t : c = e.channel /\ t = relay.clock
        OBVIOUS
    <2>2. ChannelOf(n)' = c /\ Time(n)' = t /\ ~Change(n)' /\ c \in members
        BY <1>2, <1>4, <1>12, <2>1 DEF Current
    <2>3. ~Dropping(c)'
        BY <1>12, <2>2 DEF Dropping
    <2>4. Attended(c)
        BY <1>5, <1>7, <2>1, <2>3 DEF Held, Attends
    <2>5. CASE c \in relay.live
        <3>1. c \in live /\ SubOf(e) = c
            BY <1>4, <1>5, <1>9, <2>1, <2>2, <2>3, <2>5 DEF SubOf
        <3>2. EventFrame(c, n) \in ToSet(wire')
            BY <1>2, <2>1, <2>2, <3>1
        <3> QED BY <3>2 DEF OnWire, EventFrame
    <2>6. CASE Renewed(c)
        <3>1. Asked(c, t)
            BY <2>1, <2>6 DEF Renewed, Asked, ToSet
        <3>2. Asked(c, t)'
            BY <1>3, <3>1 DEF Asked
        <3> QED BY <2>2, <3>2 DEF Covered, Asked
    <2>7. CASE relay.cut /\ Lost(c)
        <3>1. relay'.cut /\ Lost(c)'
            BY <1>2, <1>6, <2>7
        <3> QED BY <2>2, <3>1 DEF Covered, Lost, Pending, Bounced
    <2> QED BY <2>4, <2>5, <2>6, <2>7 DEF Attended
<1> QED BY <1>2, <1>3, <1>10, <1>11, <1>12, RelayHolds

LEMMA ArchiveHolds ==
    ASSUME Typed, Carried, Held, LogKept, ReachedKept, [Next]_vars, NEW c \in Channels, Archive(c)
    PROVE  Held'
<1>1. /\ relay' = [relay EXCEPT !.archived = @ \cup {c}, !.live = @ \ {c}]
      /\ wire' = wire \o Evicted(c) /\ UNCHANGED <<phase, todo, bg, cmds, reqs>>
    BY DEF Archive, clientVars
<1>2. relay \in Relay /\ LogEnd \in Nat
    BY LogLen DEF Typed, RelayTyped, LogEnd
<1>3. /\ relay'.log = relay.log /\ relay'.clock = relay.clock /\ relay'.cut = relay.cut
      /\ relay'.live = relay.live \ {c}
    BY <1>1, <1>2 DEF Relay
<1>4. ToSet(wire') = ToSet(wire) \cup ToSet(Evicted(c))
    <2>1. Evicted(c) \in Wires(LogEnd) /\ wire \in Wires(LogEnd)
        BY <1>2, EvictedWire DEF Typed, RelayTyped
    <2> QED BY <1>1, <2>1, HeldConcat DEF Wires
<1>5. ASSUME c \in relay.live PROVE Dropping(c)'
    <2>1. Closed(c, "denied") \in ToSet(wire')
        BY <1>4, <1>5, EvictedHolds
    <2> QED BY <2>1 DEF Dropping, Closed
<1>6. Ids' = Ids /\ \A k : Lost(k) => Lost(k)'
    BY <1>1, <1>3, <1>4 DEF Ids, Lost, Pending, Bounced
<1>7. \A k : /\ Unclosed(k) => Unclosed(k)'
             /\ Renewed(k) => Renewed(k)'
    BY <1>1, <1>3 DEF Unclosed, Renewed
<1>8. \A k \in Channels : ~Dropping(k)' /\ Attended(k) => Attended(k)'
    BY <1>3, <1>5, <1>6, <1>7 DEF Attended
<1>9. \A i \in Ids : Asked(ChannelOf(i), Time(i)) => Covered(ChannelOf(i), Time(i))'
    BY <1>1 DEF Asked, Covered, LogKept
<1> QED BY <1>1, <1>3, <1>4, <1>6, <1>8, <1>9, RelayHolds

LEMMA TickHolds ==
    ASSUME Typed, Carried, Held, LogKept, ReachedKept, [Next]_vars, Tick
    PROVE  Held'
<1>1. /\ relay' = [relay EXCEPT !.clock = @ + 1]
      /\ UNCHANGED <<wire, phase, todo, bg, cmds, reqs>>
    BY DEF Tick, clientVars
<1>2. relay \in Relay /\ reqs \in Seq(Request)
    BY DEF Typed, RelayTyped, Requests
<1>3. /\ relay'.log = relay.log /\ relay'.clock = relay.clock + 1 /\ relay.clock \in Nat
      /\ relay'.cut = relay.cut /\ relay'.live = relay.live
    BY <1>1, <1>2 DEF Relay
<1>4. Ids' = Ids /\ \A k : Lost(k) => Lost(k)'
    BY <1>1, <1>3 DEF Ids, Lost, Pending, Bounced
<1>5. \A k : Unclosed(k) => Unclosed(k)'
    BY <1>1 DEF Unclosed
<1>6. ASSUME NEW k, Renewed(k) PROVE Renewed(k)'
    <2>1. PICK m \in DOMAIN reqs :
             /\ reqs[m].sub = k /\ ~reqs[m].close /\ reqs[m].since <= relay.clock
             /\ \A j \in DOMAIN reqs : j > m /\ reqs[j].sub = k => ~reqs[j].close
        BY <1>6 DEF Renewed
    <2>2. reqs[m].since \in Nat
        <3>1. reqs[m] \in Request
            BY <1>2
        <3> QED BY <3>1 DEF Request
    <2>3. reqs[m].since <= relay'.clock
        BY <1>3, <2>1, <2>2
    <2> QED BY <1>1, <2>1, <2>3 DEF Renewed
<1>7. \A k \in Channels : Attended(k) => Attended(k)'
    BY <1>3, <1>4, <1>5, <1>6 DEF Attended
<1>8. \A i \in Ids : Asked(ChannelOf(i), Time(i)) => Covered(ChannelOf(i), Time(i))'
    BY <1>1 DEF Asked, Covered, LogKept
<1> QED BY <1>1, <1>3, <1>4, <1>7, <1>8, RelayHolds

\* The relay takes a frame off the socket.
LEMMA AnswerHolds ==
    ASSUME Typed, Carried, Held, LogKept, ReachedKept, [Next]_vars,
           UNCHANGED <<phase, todo, bg, cmds>>,
           reqs # <<>>, reqs' = Tail(reqs), NEW r, r = Head(reqs),
           relay'.log = relay.log, relay'.clock = relay.clock,
           relay.cut => relay'.cut, ToSet(wire) \subseteq ToSet(wire'),
           \A s \in relay.live : s \in relay'.live \/ (s = r.sub /\ r.close),
           r.close \/ Dropping(r.sub)' \/ (relay'.cut /\ Bounced(r.sub)')
              \/ /\ r.sub \in relay'.live
                 /\ \A i \in Ids : Sub(i) = r.sub /\ r.since <= Time(i) => OnWire(i)'
    PROVE  Held'
<1> DEFINE n == Len(reqs)
<1>1. /\ n \in Nat /\ n >= 1 /\ DOMAIN reqs = 1..n /\ DOMAIN reqs' = 1..(n - 1) /\ r = reqs[1]
      /\ \A j \in 1..(n - 1) : reqs'[j] = reqs[j + 1]
    BY DEF Typed, RelayTyped, Requests
<1> HIDE DEF n
<1>2. ToSet(reqs) = {r} \cup ToSet(reqs')
    BY HeldTail DEF Typed, RelayTyped, Requests
<1>3. \A c : Lost(c) => Lost(c)'
    BY DEF Lost, Pending, Bounced
<1>4. \A c : Unclosed(c) => Unclosed(c)' /\ (c = r.sub => ~r.close)
    BY <1>2 DEF Unclosed
<1>5. ASSUME NEW c, Renewed(c)
      PROVE  Renewed(c)' \/ (c = r.sub /\ ~r.close /\ Unclosed(c)')
    <2>1. PICK k \in 1..n :
             /\ reqs[k].sub = c /\ ~reqs[k].close /\ reqs[k].since <= relay.clock
             /\ \A j \in 1..n : j > k /\ reqs[j].sub = c => ~reqs[j].close
        BY <1>1, <1>5 DEF Renewed
    <2>2. CASE k = 1
        <3>1. \A j \in 1..(n - 1) : j + 1 \in 1..n /\ j + 1 > 1
            BY <1>1
        <3>2. \A j \in 1..(n - 1) : reqs'[j].sub = c => ~reqs'[j].close
            BY <1>1, <2>1, <2>2, <3>1
        <3>3. \A x \in ToSet(reqs') : x.sub = c => ~x.close
            BY <1>1, <3>2 DEF ToSet
        <3> QED BY <1>1, <2>1, <2>2, <3>3 DEF Unclosed
    <2>3. CASE k # 1
        <3>1. k - 1 \in 1..(n - 1) /\ (k - 1) + 1 = k
            BY <1>1, <2>3
        <3>2. reqs'[k - 1] = reqs[k]
            BY <1>1, <3>1
        <3>3. ASSUME NEW j \in 1..(n - 1), j > k - 1, reqs'[j].sub = c PROVE ~reqs'[j].close
            <4>1. j + 1 \in 1..n /\ j + 1 > k /\ reqs'[j] = reqs[j + 1]
                BY <1>1, <3>3
            <4> QED BY <2>1, <3>3, <4>1
        <3>4. PICK m \in 1..(n - 1) : m = k - 1
            BY <3>1
        <3>5. Renewed(c)'
            BY <1>1, <2>1, <3>2, <3>3, <3>4 DEF Renewed
        <3> QED BY <3>5
    <2> QED BY <2>2, <2>3
<1>6. ASSUME NEW c \in Channels, ~Dropping(c)', Attended(c) PROVE Attended(c)'
    <2>1. CASE c \in relay.live /\ Unclosed(c)
        BY <1>4, <2>1 DEF Attended
    <2>2. CASE relay.cut /\ Lost(c)
        BY <1>3, <2>2 DEF Attended
    <2>3. CASE Renewed(c)
        <3>1. CASE Renewed(c)'
            BY <3>1 DEF Attended
        <3>2. CASE c = r.sub /\ ~r.close /\ Unclosed(c)'
            BY <1>6, <3>2 DEF Attended, Lost
        <3> QED BY <1>5, <2>3, <3>1, <3>2
    <2> QED BY <1>6, <2>1, <2>2, <2>3 DEF Attended
<1>7. ASSUME NEW i \in Ids, Current(i), ~Dropping(ChannelOf(i))', Asked(ChannelOf(i), Time(i))
      PROVE  OnWire(i)' \/ Covered(ChannelOf(i), Time(i))'
    <2>1. PICK c, t : c = ChannelOf(i) /\ t = Time(i)
        OBVIOUS
    <2>2. ChannelOf(i)' = c /\ Time(i)' = t /\ Sub(i) = c
        BY <1>7, <2>1 DEF LogKept, Current, Change, Sub, SubOf, ChannelOf
    <2>3. ~Dropping(c)'
        BY <1>7, <2>2 DEF Dropping
    <2>4. Asked(c, t)' \/ (c = r.sub /\ ~r.close /\ r.since <= t)
        BY <1>2, <1>7, <2>1 DEF Asked
    <2>5. Asked(c, t)' \/ (relay'.cut /\ Bounced(c)') => Covered(ChannelOf(i), Time(i))'
        BY <2>2 DEF Covered, Asked, Lost, Bounced
    <2> QED BY <2>1, <2>2, <2>3, <2>4, <2>5
<1>8. Ids' = Ids
    BY DEF Ids
<1> QED BY <1>6, <1>7, <1>8, RelayHolds

LEMMA ServeReqHolds ==
    ASSUME Typed, Carried, Held, LogKept, ReachedKept, [Next]_vars, ServeReq
    PROVE  Held'
<1>1. PICK r : r = Head(reqs)
    OBVIOUS
<1>2. /\ relay' = [relay EXCEPT !.live = @ \cup {r.sub}] /\ ~r.close /\ reqs # <<>>
      /\ UNCHANGED <<phase, todo, bg, cmds>> /\ reqs' = Tail(reqs)
    BY <1>1 DEF ServeReq, clientVars
<1>3. relay \in Relay /\ RelayTyped
    BY DEF Typed, RelayTyped
<1>4. /\ relay'.log = relay.log /\ relay'.clock = relay.clock
      /\ relay'.cut = relay.cut /\ relay'.live = relay.live \cup {r.sub}
    BY <1>2, <1>3 DEF Relay
<1>5. ToSet(wire') = ToSet(wire) \cup {EventFrame(r.sub, i) : i \in Stored(r.sub, r.since)}
    BY <1>1, <1>3, ReplayHolds
<1>6. ASSUME NEW i \in Ids, Sub(i) = r.sub, r.since <= Time(i) PROVE OnWire(i)'
    <2>1. i \in Stored(r.sub, r.since)
        <3>1. relay.log[i].at \in Nat /\ r.since \in Nat
            <4>1. relay.log[i] \in Event /\ r \in Request
                BY <1>1, <1>2, <1>3, LogLen, LogEvent, RequestHead DEF RelayTyped, Ids
            <4> QED BY <4>1 DEF Event, Request
        <3> QED BY <1>6, <3>1 DEF Stored, Sub, Time
    <2>2. EventFrame(r.sub, i) \in ToSet(wire')
        BY <1>5, <2>1
    <2> QED BY <2>2 DEF OnWire, EventFrame
<1> QED BY <1>1, <1>2, <1>4, <1>5, <1>6, AnswerHolds

LEMMA RejectHolds ==
    ASSUME Typed, Carried, Held, LogKept, ReachedKept, [Next]_vars,
           DenyReq \/ RefuseReq("limited") \/ RefuseReq("error")
    PROVE  Held'
<1>1. PICK r, why : /\ r = Head(reqs) /\ Reject(why) /\ why \in {"denied", "limited", "error"}
                    /\ (why = "denied" /\ DenyReq) \/ (why # "denied" /\ RefuseReq(why))
    BY DEF DenyReq, RefuseReq
<1>2. PICK f : f = Closed(r.sub, why)
    OBVIOUS
<1>3. f.sub = r.sub /\ f.closed = why
    BY <1>2 DEF Closed
<1>4. /\ reqs # <<>> /\ UNCHANGED <<phase, todo, bg, cmds>> /\ reqs' = Tail(reqs)
      /\ wire' = Append(wire, f)
    BY <1>1, <1>2 DEF Reject, clientVars
<1>5. relay \in Relay /\ RelayTyped /\ LogEnd \in Nat
    BY LogLen DEF Typed, RelayTyped, LogEnd
<1>6. /\ relay'.log = relay.log /\ relay'.clock = relay.clock /\ relay'.live = relay.live
      /\ relay.cut => relay'.cut
      /\ why # "denied" => relay'.cut
    BY <1>1, <1>5 DEF Relay, DenyReq, RefuseReq
<1>7. why = "denied" => r.sub \in Channels
    BY <1>1 DEF DenyReq
<1>8. ToSet(wire') = ToSet(wire) \cup {f}
    <2>1. f \in Frames(LogEnd)
        BY <1>1, <1>2, <1>4, <1>5, <1>7, RequestHead, FrameTypes DEF RelayTyped
    <2> QED BY <1>4, <1>5, <2>1, SentFrame DEF RelayTyped
<1>9. CASE why = "denied"
    <2>1. Dropping(r.sub)'
        BY <1>3, <1>8, <1>9 DEF Dropping
    <2> QED BY <1>1, <1>4, <1>6, <1>8, <2>1, AnswerHolds
<1>10. CASE why # "denied"
    <2>1. Bounced(r.sub)' /\ relay'.cut
        BY <1>1, <1>3, <1>6, <1>8, <1>10 DEF Bounced
    <2> QED BY <1>1, <1>4, <1>6, <1>8, <2>1, AnswerHolds
<1> QED BY <1>9, <1>10

LEMMA ServeCloseHolds ==
    ASSUME Typed, Carried, Held, LogKept, ReachedKept, [Next]_vars, ServeClose
    PROVE  Held'
<1>1. PICK r : r = Head(reqs)
    OBVIOUS
<1>2. /\ relay' = [relay EXCEPT !.live = @ \ {r.sub}] /\ r.close /\ reqs # <<>>
      /\ UNCHANGED <<wire, phase, todo, bg, cmds>> /\ reqs' = Tail(reqs)
    BY <1>1 DEF ServeClose, clientVars
<1>3. relay \in Relay
    BY DEF Typed, RelayTyped
<1>4. /\ relay'.log = relay.log /\ relay'.clock = relay.clock
      /\ relay'.cut = relay.cut /\ relay'.live = relay.live \ {r.sub}
    BY <1>2, <1>3 DEF Relay
<1> QED BY <1>1, <1>2, <1>4, AnswerHolds

LEMMA RelayStepHolds ==
    ASSUME Typed, Carried, Held, LogKept, ReachedKept, [Next]_vars, RelayStep
    PROVE  Held'
<1>1. ASSUME NEW c \in Channels, Publish(c) \/ AddMember(c) \/ RemoveMember(c) \/ Restore(c)
      PROVE  Held'
    BY <1>1, StoringSteps, StoringHolds
<1>2. RefuseReq("limited") \/ RefuseReq("error") \/ DenyReq => Held'
    BY RejectHolds
<1> QED BY <1>1, <1>2, ArchiveHolds, TickHolds, ServeReqHolds, ServeCloseHolds
        DEF RelayStep

\* The background task moves: a channel it holds after the step was held and
\* cared for before, or is asked for again.
Within(c, t) == \E i \in Ids : Current(i) /\ ChannelOf(i) = c /\ Time(i) = t

LEMMA ClientHolds ==
    ASSUME Typed, Carried, Held, LogKept, ReachedKept, [Next]_vars,
           relay'.log = relay.log, relay'.clock = relay.clock,
           ToSet(cmds') \subseteq ToSet(cmds),
           \A c \in DOMAIN bg'.floor : Early(c, bg'.floor[c]),
           \A c \in Channels : ~Dropping(c)' /\ (Dropping(c) \/ Attended(c)) => Attended(c)',
           \A c \in Channels : \A t \in Nat :
                ~Dropping(c)' /\ Within(c, t) /\ (Dropping(c) \/ Covered(c, t)) => Covered(c, t)',
           \A i \in Ids : Current(i) /\ ~Dropping(ChannelOf(i))' /\ OnWire(i)
                => Reached(i)' \/ OnWire(i)' \/ Covered(ChannelOf(i), Time(i))'
    PROVE  Held'
<1>1. EarlyKept /\ Sorted'
    BY EarlyStep DEF Held
<1>2. \A i \in Ids : Current(i)' => Current(i)
    BY StoredLast
<1>3. \A i \in Ids : Time(i)' = Time(i) /\ ChannelOf(i)' = ChannelOf(i)
    BY DEF LogKept
<1>4. Floored'
    <2>1. bg'.floor \in [DOMAIN bg'.floor -> Nat]
        <3>1. bg'.floor \in Maps
            BY TypedStep DEF Typed, ClientTyped, BgSound, Bg
        <3> QED BY <3>1, MapsAre
    <2>2. \A o \in ToSet(cmds) : o.since \in Nat
        <3>1. cmds \in Seq(Order)
            BY DEF Typed, ClientTyped, Orders
        <3>2. ToSet(cmds) \subseteq Order
            BY <3>1, HeldIn
        <3> QED BY <3>2 DEF Order, Command
    <2>3. \A c \in DOMAIN bg'.floor : Early(c, bg.floor[c])' 
        <3> SUFFICES ASSUME NEW c \in DOMAIN bg'.floor PROVE Early(c, bg.floor[c])'
            OBVIOUS
        <3>1. PICK x \in Nat : x = bg'.floor[c]
            BY <2>1
        <3>2. Early(c, x)'
            BY <1>1, <3>1 DEF EarlyKept
        <3> QED BY <3>1, <3>2 DEF Early
    <2>4. \A o \in ToSet(cmds') : o.op = "subscribe" => Early(o.channel, o.since)'
        BY <1>1, <2>2 DEF Held, Floored, EarlyKept
    <2> QED BY <2>3, <2>4 DEF Floored
<1>5. Attends'
    BY DEF Held, Attends
<1>6. ASSUME NEW i \in Ids, Current(i)', ~Dropping(ChannelOf(i))'
      PROVE  Reached(i)' \/ OnWire(i)' \/ Covered(ChannelOf(i), Time(i))'
    <2>1. PICK c, t : c = ChannelOf(i) /\ t = Time(i)
        OBVIOUS
    <2>2. ChannelOf(i)' = c /\ Time(i)' = t /\ c \in Channels /\ t \in Nat
        BY <1>3, <2>1, StoredTimes
    <2>3. ~Dropping(c)'
        BY <1>6, <2>2 DEF Dropping
    <2>4. Dropping(c) \/ Reached(i) \/ OnWire(i) \/ Covered(c, t)
        BY <1>2, <1>6, <2>1 DEF Held, Kept
    <2>5. Within(c, t) /\ Current(i)
        BY <1>2, <1>6, <2>1 DEF Within
    <2>6. Covered(c, t)' => Covered(ChannelOf(i), Time(i))'
        BY <2>2 DEF Covered, Asked, Lost, Pending, Bounced, Passed, Noticed
    <2>7. CASE Dropping(c) \/ Covered(c, t)
        BY <2>2, <2>3, <2>5, <2>6, <2>7
    <2>8. CASE Reached(i)
        BY <2>8 DEF ReachedKept
    <2>9. CASE OnWire(i)
        BY <1>6, <2>5, <2>9
    <2> QED BY <2>4, <2>7, <2>8, <2>9
<1>7. Ids' = Ids
    BY DEF Ids
<1>8. Kept'
    BY <1>6, <1>7 DEF Kept
<1> QED BY <1>1, <1>4, <1>5, <1>8 DEF Held

\* What is early or late, and what REQs ask for, is natural.
LEMMA FloorsEarly ==
    ASSUME Typed, Held
    PROVE  /\ \A c \in DOMAIN bg.floor : Early(c, bg.floor[c]) /\ bg.floor[c] \in Nat
           /\ \A o \in ToSet(cmds) : o.op = "subscribe" => Early(o.channel, o.since)
<1>1. bg.floor \in [DOMAIN bg.floor -> Nat]
    BY MapsAre DEF Typed, ClientTyped, BgSound, Bg
<1> QED BY <1>1 DEF Held, Floored

\* A channel the step does not touch is cared for as before.
LEMMA OthersHeld ==
    ASSUME relay' = relay, NEW c, Untouched(bg, bg', c), c \in bg'.active => c \in bg.active,
           bg'.proactive = bg.proactive,
           phase' = phase \/ (phase = "draining" /\ phase' = "up"),
           c \in ToSet(todo) => c \in ToSet(todo'),
           ToSet(wire') \subseteq ToSet(wire),
           \A f \in ToSet(wire) : f \in ToSet(wire') \/ f.sub # c \/ f.closed = "none",
           \A o \in ToSet(cmds) : o \in ToSet(cmds') \/ o.op # "unsubscribe" \/ o.channel # c,
           reqs \in Seq(Request),
           reqs' = reqs \/ \E r \in Request : reqs' = Append(reqs, r) /\ (r.sub # c \/ ~r.close)
    PROVE  /\ ~Dropping(c)' => ~Dropping(c)
           /\ Attended(c) => Attended(c)'
           /\ \A t : Covered(c, t) => Covered(c, t)'
<1>1. ~Dropping(c)' => ~Dropping(c)
    BY DEF Dropping, Untouched
<1>2. Lost(c) => Lost(c)'
    <2>1. Bounced(c) => Bounced(c)'
        BY DEF Bounced
    <2>2. Pending(c) => Pending(c)'
        BY DEF Pending, Untouched
    <2> QED BY <2>1, <2>2 DEF Lost
<1>3. /\ Unclosed(c) => Unclosed(c)'
      /\ Renewed(c) => Renewed(c)'
      /\ \A t : Asked(c, t) => Asked(c, t)'
    <2>1. CASE reqs' = reqs
        BY <2>1 DEF Unclosed, Renewed, Asked
    <2>2. CASE \E r \in Request : reqs' = Append(reqs, r) /\ (r.sub # c \/ ~r.close)
        <3>1. PICK r \in Request : reqs' = Append(reqs, r) /\ (r.sub # c \/ ~r.close)
            BY <2>2
        <3>2. ToSet(reqs') = ToSet(reqs) \cup {r}
            BY <3>1, HeldAppend
        <3>3. PICK n : n = Len(reqs)
            OBVIOUS
        <3>4. /\ n \in Nat /\ DOMAIN reqs = 1..n /\ DOMAIN reqs' = 1..(n + 1)
              /\ reqs'[n + 1] = r /\ \A j \in 1..n : reqs'[j] = reqs[j]
            BY <3>1, <3>3
        <3>5. ASSUME Renewed(c) PROVE Renewed(c)'
            <4>1. PICK k \in 1..n :
                     /\ reqs[k].sub = c /\ ~reqs[k].close /\ reqs[k].since <= relay.clock
                     /\ \A j \in 1..n : j > k /\ reqs[j].sub = c => ~reqs[j].close
                BY <3>4, <3>5 DEF Renewed
            <4>2. k \in DOMAIN reqs' /\ reqs'[k] = reqs[k]
                BY <3>4
            <4>3. \A j \in DOMAIN reqs' : j > k /\ reqs'[j].sub = c => ~reqs'[j].close
                BY <3>1, <3>4, <4>1
            <4> QED BY <4>1, <4>2, <4>3 DEF Renewed
        <3> QED BY <3>1, <3>2, <3>5 DEF Unclosed, Asked
    <2> QED BY <2>1, <2>2
<1>4. \A t : /\ Passed(c, t) => Passed(c, t)'
             /\ Noticed(c, t) => Noticed(c, t)'
    BY DEF Passed, Noticed, Untouched
<1> QED BY <1>1, <1>2, <1>3, <1>4 DEF Attended, Covered

\* A REQ for a channel asks for all that is current on it, or the client has
\* passed it.
LEMMA AskHolds ==
    ASSUME Typed, Carried, relay' = relay, NEW s \in Channels, NEW n \in Nat,
           reqs' = Append(reqs, Req(s, n)), bg'.lastSeen = bg.lastSeen,
           s \in DOMAIN bg.lastSeen => n <= bg.lastSeen[s],
           s \notin DOMAIN bg.lastSeen => Early(s, n)
    PROVE  /\ Attended(s)'
           /\ \A t \in Nat : Within(s, t) => Covered(s, t)'
<1>1. PICK r : r = Req(s, n)
    OBVIOUS
<1>2. r.sub = s /\ ~r.close /\ r.since = (IF n > Skew THEN n - Skew ELSE 0) /\ Skew \in Nat
    BY <1>1, RelayClientConstants DEF Req
<1>3. r \in Request
    BY <1>1, ReqTypes DEF Subs
<1>4. relay.clock \in Nat
    BY StoredTimes
<1>5. s \in DOMAIN bg.lastSeen => bg.lastSeen[s] \in Nat /\ bg.lastSeen[s] <= relay.clock
    <2>1. bg.lastSeen \in [DOMAIN bg.lastSeen -> Nat]
        BY MapsAre DEF Typed, ClientTyped, BgSound, Bg
    <2> QED BY <2>1 DEF Carried, Clocked
<1>6. n <= relay.clock
    <2>1. CASE s \in DOMAIN bg.lastSeen
        <3>1. PICK l \in Nat : l = bg.lastSeen[s]
            BY <1>5, <2>1
        <3> QED BY <1>4, <1>5, <2>1, <3>1
    <2>2. CASE s \notin DOMAIN bg.lastSeen
        BY <2>2 DEF Early
    <2> QED BY <2>1, <2>2
<1>7. r.since <= relay.clock
    BY <1>2, <1>4, <1>6
<1>8. ToSet(reqs') = ToSet(reqs) \cup {r}
    BY <1>1, <1>3, SentReq
<1>9. Renewed(s)'
    <2>1. reqs \in Seq(Request)
        BY DEF Typed, RelayTyped, Requests
    <2>2. PICK k : k = Len(reqs) + 1
        OBVIOUS
    <2>3. k \in DOMAIN reqs' /\ reqs'[k] = r /\ \A j \in DOMAIN reqs' : ~(j > k)
        BY <1>1, <2>1, <2>2
    <2> QED BY <1>2, <1>7, <2>3 DEF Renewed
<1>10. ASSUME NEW t \in Nat, Within(s, t) PROVE Covered(s, t)'
    <2>1. r.since <= t => Asked(s, t)'
        BY <1>2, <1>8 DEF Asked
    <2>2. CASE s \in DOMAIN bg.lastSeen
        <3>1. PICK l \in Nat : l = bg.lastSeen[s]
            BY <1>5, <2>2
        <3>2. r.since <= t \/ t + Skew < l
            BY <1>2, <2>2, <3>1
        <3>3. t + Skew < l => Passed(s, t)'
            BY <2>2, <3>1 DEF Passed
        <3> QED BY <2>1, <3>2, <3>3 DEF Covered
    <2>3. CASE s \notin DOMAIN bg.lastSeen
        <3>1. n <= t
            BY <1>10, <2>3 DEF Early, Within
        <3>2. r.since <= t
            BY <1>2, <3>1
        <3> QED BY <2>1, <3>2 DEF Covered
    <2> QED BY <2>2, <2>3
<1> QED BY <1>9, <1>10 DEF Attended

LEMMA ReceiveEventHolds ==
    ASSUME Typed, Carried, Remembered, Held, LogKept, ReachedKept, [Next]_vars, ReceiveEvent
    PROVE  Held'
<1>1. PICK f, e, s, at : f = Head(wire) /\ e = f.event /\ s = f.sub /\ at = Time(e)
    OBVIOUS
<1>2. /\ phase = "up" /\ ~bg.proactive /\ wire # <<>> /\ f.closed = "none"
      /\ wire' = Tail(wire) /\ UNCHANGED <<relay, reqs, phase, todo, cmds, main, delivered>>
      /\ \/ Knows(bg.seen, e) /\ UNCHANGED <<bg, eventq>>
         \/ eventq' = Append(eventq, e) /\ bg' = Forwarded(bg, s, e, at)
         \/ eventq' = eventq /\ bg' = Refused(bg, s, e, at)
    BY <1>1 DEF ReceiveEvent, loopVars, Time
<1>3. /\ BgSound(bg) /\ bg.lastSeen \in Maps /\ bg.dropped \in Maps /\ Ids = 1..LogEnd
      /\ LogEnd \in Nat /\ eventq \in Seq(0..LogEnd) /\ relay \in Relay /\ Skew \in Nat
    BY LogLen, RelayClientConstants
       DEF Typed, RelayTyped, ClientTyped, LoopTyped, BgSound, Bg, Ids, LogEnd, Queues
<1>4. ToSet(wire) = {f} \cup ToSet(wire') /\ f \in ToSet(wire)
    BY <1>1, <1>2, FrameTaken
<1>5. e \in Ids /\ s \in Subs /\ s = Sub(e)
    <2>1. e \in Ids /\ s \in Subs
        BY <1>1, <1>2, <1>3, WireHead DEF Typed
    <2> QED BY <1>1, <1>2, <1>4, <2>1 DEF Carried, Framed
<1>6. at \in Nat
    BY <1>1, <1>5, StoredTimes
<1>7. \A x : Bounced(x) <=> Bounced(x)'
    BY <1>2, <1>4 DEF Bounced
<1>8. \A i \in Ids : OnWire(i) => OnWire(i)' \/ i = e
    BY <1>1, <1>4 DEF OnWire
<1>9. \A t : \A x : ~Noticed(x, t)
    BY <1>2 DEF Noticed
<1>10. \A x \in DOMAIN bg.floor : Early(x, bg.floor[x])
    BY FloorsEarly
<1>11. PICK l \in Maps, d \in Maps : l = bg.lastSeen /\ d = bg.dropped
    BY <1>3
<1>12. /\ DOMAIN Raise(l, s, at) = DOMAIN l \cup {s} /\ DOMAIN Lower(d, s, at) = DOMAIN d \cup {s}
       /\ Raise(l, s, at) \in Maps
    BY <1>5, <1>6, MarksMaps
<1>13. /\ \A x \in DOMAIN l \ {s} : Raise(l, s, at)[x] = l[x]
       /\ \A x \in DOMAIN l : l[x] \in Nat
       /\ s \in DOMAIN l => Raise(l, s, at)[s] >= l[s]
       /\ Lower(d, s, at)[s] <= at
    BY <1>5, <1>6, MarksMove
<1>14. /\ \A x \in DOMAIN l : Raise(l, s, at)[x] >= l[x] /\ l[x] \in Nat
       /\ \A x \in DOMAIN Raise(l, s, at) : Raise(l, s, at)[x] \in Nat
    <2>1. Raise(l, s, at) \in [DOMAIN Raise(l, s, at) -> Nat]
        BY <1>12, MapsAre
    <2> QED BY <1>13, <2>1
<1>15. ASSUME bg'.active = bg.active, bg'.floor = bg.floor, bg.parked = bg'.parked,
              bg'.lastSeen = Raise(bg.lastSeen, s, at) \/ bg'.lastSeen = bg.lastSeen,
              Current(e) => Reached(e)' \/ Covered(ChannelOf(e), Time(e))'
       PROVE  Held'
    <2>1. \A c : Dropping(c)' <=> Dropping(c)
        BY <1>2, <1>4, <1>15 DEF Dropping
    <2>2. \A c : Lost(c) => Lost(c)'
        BY <1>2, <1>7, <1>15 DEF Lost, Pending
    <2>3. \A c : Attended(c) => Attended(c)'
        BY <1>2, <2>2 DEF Attended, Unclosed, Renewed
    <2>4. \A c : \A t \in Nat : Passed(c, t) => Passed(c, t)'
        <3>1. CASE bg'.lastSeen = bg.lastSeen
            BY <3>1 DEF Passed
        <3>2. CASE bg'.lastSeen = Raise(bg.lastSeen, s, at)
            <4> SUFFICES ASSUME NEW c, NEW t \in Nat, c \in DOMAIN l, t + Skew < l[c]
                         PROVE  c \in DOMAIN bg'.lastSeen /\ t + Skew < bg'.lastSeen[c]
                BY <1>11 DEF Passed
            <4>1. bg'.lastSeen = Raise(l, s, at) /\ c \in DOMAIN Raise(l, s, at)
                BY <1>11, <1>12, <3>2
            <4>2. PICK a \in Nat, b \in Nat : a = l[c] /\ b = Raise(l, s, at)[c] /\ b >= a
                BY <1>14, <4>1
            <4> QED BY <1>3, <4>1, <4>2
        <3> QED BY <1>15, <3>1, <3>2
    <2>5. \A c : \A t \in Nat : Covered(c, t) => Covered(c, t)'
        BY <1>2, <1>9, <2>2, <2>4 DEF Covered, Asked
    <2>6. \A c \in DOMAIN bg'.floor : Early(c, bg'.floor[c])
        BY <1>10, <1>15
    <2> QED BY <1>2, <1>8, <1>15, <2>1, <2>3, <2>5, <2>6, ClientHolds
<1>16. CASE Knows(bg.seen, e) /\ UNCHANGED <<bg, eventq>>
    <2>1. Reached(e)'
        BY <1>5, <1>16 DEF Remembered, ReachedKept
    <2> QED BY <1>15, <1>16, <2>1
<1>17. CASE eventq' = Append(eventq, e) /\ bg' = Forwarded(bg, s, e, at)
    <2>1. Reached(e)'
        <3>1. e \in 0..LogEnd
            BY <1>3, <1>5
        <3>2. e \in ToSet(eventq')
            BY <1>3, <1>17, <3>1, HeldAppend
        <3> QED BY <3>2 DEF Reached
    <2>2. /\ bg'.active = bg.active /\ bg'.floor = bg.floor
          /\ SameFlags(bg', bg) /\ bg'.lastSeen = Raise(bg.lastSeen, s, at)
        BY <1>3, <1>17, ForwardedFields
    <2> QED BY <1>15, <2>1, <2>2 DEF SameFlags
<1>18. CASE eventq' = eventq /\ bg' = Refused(bg, s, e, at)
    <2>1. /\ bg'.active = bg.active /\ bg'.floor = bg.floor /\ bg'.parked = bg.parked
          /\ bg'.proactive = TRUE
        BY <1>3, <1>18 DEF Refused, BgSound, Bg
    <2>2. bg'.dropped = Lower(bg.dropped, s, at)
        BY <1>3, <1>18 DEF Refused, BgSound, Bg
    <2>3. bg'.lastSeen = Raise(bg.lastSeen, s, at) \/ bg'.lastSeen = bg.lastSeen
        BY <1>3, <1>18 DEF Refused, BgSound, Bg
    <2>4. s \in DOMAIN bg'.dropped /\ bg'.dropped[s] <= at
        BY <1>11, <1>12, <1>13, <2>2
    <2>5. ASSUME Current(e) PROVE Covered(ChannelOf(e), Time(e))'
        <3>1. ChannelOf(e)' = s /\ Time(e)' = at
            BY <1>1, <1>5, <2>5 DEF LogKept, Current, Change, Sub, SubOf, ChannelOf
        <3> QED BY <2>1, <2>4, <3>1 DEF Covered, Noticed
    <2> QED BY <1>15, <2>1, <2>3, <2>5
<1> QED BY <1>2, <1>16, <1>17, <1>18

\* A channel that is let go, or asked for again, leaves the others alone.
LEMMA TouchHolds ==
    ASSUME Typed, Carried, Held, LogKept, ReachedKept, [Next]_vars, relay' = relay,
           NEW s, OnlyTouches(bg, bg', s), bg'.active \subseteq bg.active \cup {s},
           phase' = phase \/ (phase = "draining" /\ phase' = "up"),
           ToSet(todo) \subseteq ToSet(todo') \cup {s},
           ToSet(wire') \subseteq ToSet(wire),
           \A f \in ToSet(wire) : f \in ToSet(wire') \/ (f.sub = s /\ f.closed # "none"),
           ToSet(cmds') \subseteq ToSet(cmds),
           \A o \in ToSet(cmds) : o \in ToSet(cmds') \/ o.op # "unsubscribe" \/ o.channel = s,
           reqs' = reqs \/ \E r \in Request : reqs' = Append(reqs, r) /\ (r.sub = s \/ ~r.close),
           \A c \in DOMAIN bg'.floor : Early(c, bg'.floor[c]),
           s \in Channels => \/ Dropping(s)'
                             \/ /\ Attended(s)'
                                /\ \A t \in Nat : Within(s, t) => Covered(s, t)'
    PROVE  Held'
<1>1. ASSUME NEW c \in Channels, c # s
      PROVE  /\ ~Dropping(c)' => ~Dropping(c)
             /\ Attended(c) => Attended(c)'
             /\ \A t : Covered(c, t) => Covered(c, t)'
    <2>1. Untouched(bg, bg', c) /\ bg'.proactive = bg.proactive
        BY <1>1 DEF OnlyTouches, Subs
    <2>2. reqs \in Seq(Request)
        BY DEF Typed, RelayTyped, Requests
    <2>3. reqs' = reqs \/ \E r \in Request : reqs' = Append(reqs, r) /\ (r.sub # c \/ ~r.close)
        BY <1>1
    <2> QED BY <1>1, <2>1, <2>2, <2>3, OthersHeld
<1>2. \A c \in Channels : ~Dropping(c)' /\ (Dropping(c) \/ Attended(c)) => Attended(c)'
    BY <1>1
<1>3. \A c \in Channels : \A t \in Nat :
         ~Dropping(c)' /\ Within(c, t) /\ (Dropping(c) \/ Covered(c, t)) => Covered(c, t)'
    BY <1>1
<1>4. \A i \in Ids : OnWire(i) => OnWire(i)'
    BY DEF OnWire
<1> QED BY <1>2, <1>3, <1>4, ClientHolds

\* Letting go of a channel, and taking it up.
LEMMA ClearedFloor ==
    ASSUME NEW b, BgSound(b), NEW c, NEW a, a = Cleared(b, c)
    PROVE  /\ a.active = b.active \ {c}
           /\ \A x \in DOMAIN a.floor : x \in DOMAIN b.floor /\ a.floor[x] = b.floor[x]
<1> DEFINE l == Without(b.lastSeen, c)
           o == Without(b.dropped, c)
           f == Without(b.floor, c)
<1>1. b \in Bg
    BY DEF BgSound
<1>2. a = [b EXCEPT !.active = @ \ {c}, !.lastSeen = l, !.dropped = o, !.floor = f,
                    !.parked = @ \ {c}]
    BY DEF Cleared
<1>3. DOMAIN f = DOMAIN b.floor \ {c} /\ \A x \in DOMAIN b.floor \ {c} : f[x] = b.floor[x]
    BY WithoutIs
<1> HIDE DEF l, o, f
<1>4. a.active = b.active \ {c} /\ a.floor = f
    BY ONLY <1>1, <1>2 DEF Bg
<1> QED BY <1>3, <1>4

LEMMA IntendedFloor ==
    ASSUME NEW b, BgSound(b), NEW c, NEW t, NEW a, a = Intended(b, c, t)
    PROVE  /\ a.active = b.active \cup {c} /\ a.lastSeen = b.lastSeen
           /\ DOMAIN a.floor = DOMAIN b.floor \cup {c}
           /\ \A x \in DOMAIN b.floor : a.floor[x] = b.floor[x]
           /\ c \in DOMAIN b.floor \/ a.floor[c] = t
<1> DEFINE f == IF c \in DOMAIN b.floor THEN b.floor ELSE Put(b.floor, c, t)
<1>1. b \in Bg
    BY DEF BgSound
<1>2. a = [b EXCEPT !.active = @ \cup {c}, !.floor = f]
    BY DEF Intended
<1>3. /\ DOMAIN f = DOMAIN b.floor \cup {c}
      /\ \A x \in DOMAIN b.floor : f[x] = b.floor[x]
      /\ c \in DOMAIN b.floor \/ f[c] = t
    BY DEF Put
<1> HIDE DEF f
<1>4. a.active = b.active \cup {c} /\ a.lastSeen = b.lastSeen /\ a.floor = f
    BY ONLY <1>1, <1>2 DEF Bg
<1> QED BY <1>3, <1>4

\* `since` of a REQ that asks again is early enough.
LEMMA SinceAsks ==
    ASSUME Typed, Carried, Held, NEW s \in Channels \cap bg.active
    PROVE  /\ Since(bg, s) \in Nat
           /\ s \in DOMAIN bg.lastSeen => Since(bg, s) <= bg.lastSeen[s]
           /\ s \notin DOMAIN bg.lastSeen => Early(s, Since(bg, s))
<1>1. BgSound(bg) /\ DOMAIN bg.dropped \subseteq DOMAIN bg.lastSeen
      /\ s \in bg.active \cup {"membership"} /\ s \in DOMAIN bg.floor
    BY DEF Typed, ClientTyped, Carried, Clocked, BgSound
<1>2. /\ s \in DOMAIN bg.lastSeen => Since(bg, s) <= bg.lastSeen[s]
      /\ s \notin DOMAIN bg.lastSeen => Since(bg, s) = bg.floor[s]
    BY <1>1, SinceBounds
<1>3. Early(s, bg.floor[s])
    BY <1>1, FloorsEarly
<1>4. Since(bg, s) \in Nat
    BY <1>1, SinceNat
<1>5. ASSUME s \notin DOMAIN bg.lastSeen PROVE Early(s, Since(bg, s))
    BY <1>2, <1>3, <1>5
<1> QED BY <1>2, <1>4, <1>5

\* A subscription is replayed.
LEMMA ReplayHeld ==
    ASSUME Typed, Carried, Held, LogKept, ReachedKept, [Next]_vars, relay' = relay,
           NEW s \in bg.active \cup {"membership"}, OnlyTouches(bg, bg', s),
           bg'.lastSeen = bg.lastSeen, bg'.active = bg.active, bg'.floor = bg.floor,
           phase' = phase, ToSet(todo) \subseteq ToSet(todo') \cup {s},
           ToSet(wire') \subseteq ToSet(wire), cmds' = cmds,
           \A f \in ToSet(wire) : f \in ToSet(wire') \/ (f.sub = s /\ f.closed # "none"),
           reqs' = Append(reqs, Req(s, Since(bg, s)))
    PROVE  Held'
<1>1. BgSound(bg) /\ bg.active \subseteq Channels
    BY DEF Typed, ClientTyped, BgSound, Bg
<1>2. Req(s, Since(bg, s)) \in Request /\ ~Req(s, Since(bg, s)).close
    <2>1. Since(bg, s) \in Nat /\ s \in Subs
        BY <1>1, SinceNat DEF Subs
    <2> QED BY <2>1, ReqTypes DEF Req
<1>3. \A c \in DOMAIN bg'.floor : Early(c, bg'.floor[c])
    BY FloorsEarly
<1>4. ASSUME s \in Channels PROVE Attended(s)' /\ \A t \in Nat : Within(s, t) => Covered(s, t)'
    <2>1. s \in Channels \cap bg.active
        BY <1>4, RelayClientConstants
    <2>2. PICK n \in Nat : n = Since(bg, s)
        BY <2>1, SinceAsks
    <2>3. /\ s \in DOMAIN bg.lastSeen => n <= bg.lastSeen[s]
          /\ s \notin DOMAIN bg.lastSeen => Early(s, n)
        BY <2>1, <2>2, SinceAsks
    <2> QED BY <1>4, <2>2, <2>3, AskHolds
<1>5. PICK r \in Request : reqs' = Append(reqs, r) /\ ~r.close
    BY <1>2
<1> QED BY <1>3, <1>4, <1>5, TouchHolds

LEMMA ReceiveClosedHolds ==
    ASSUME Typed, Carried, Held, LogKept, ReachedKept, [Next]_vars, ReceiveClosed
    PROVE  Held'
<1>1. PICK f, s : f = Head(wire) /\ s = f.sub
    OBVIOUS
<1>2. /\ phase = "up" /\ ~bg.proactive /\ wire # <<>> /\ f.closed # "none" /\ wire' = Tail(wire)
      /\ UNCHANGED <<relay, phase, todo, cmds, eventq>>
    BY <1>1 DEF ReceiveClosed
<1>3. s \in Subs /\ f.closed \in {"denied", "limited", "error"}
    BY <1>1, <1>2, WireHead DEF Answers, Typed
<1>4. /\ ToSet(wire) = {f} \cup ToSet(wire') /\ f \in ToSet(wire)
      /\ \A x \in ToSet(wire) : x \in ToSet(wire') \/ (x.sub = s /\ x.closed # "none")
    BY <1>1, <1>2, FrameTaken
<1>5. BgSound(bg) /\ bg \in Bg
    BY DEF Typed, ClientTyped, BgSound
<1>6. \A c \in DOMAIN bg.floor : Early(c, bg.floor[c])
    BY FloorsEarly
<1>7. CASE f.closed = "denied"
    <2>1. bg' = Cleared(bg, s) /\ reqs' = reqs
        BY <1>1, <1>7 DEF ReceiveClosed
    <2>2. OnlyTouches(bg, bg', s) /\ bg'.active = bg.active \ {s}
          /\ \A x \in DOMAIN bg'.floor : x \in DOMAIN bg.floor /\ bg'.floor[x] = bg.floor[x]
        BY <1>5, <2>1, ClearedTouches, ClearedFloor
    <2>3. Dropping(s)'
        BY <2>2 DEF Dropping
    <2> QED BY <1>2, <1>4, <1>6, <2>1, <2>2, <2>3, TouchHolds
<1>8. CASE f.closed = "error" /\ (s \in Channels => s \in bg.active)
    <2>1. bg' = Replaying(bg, s) /\ reqs' = Append(reqs, Req(s, Since(bg, s)))
        BY <1>1, <1>8 DEF ReceiveClosed
    <2>2. /\ OnlyTouches(bg, bg', s) /\ bg'.lastSeen = bg.lastSeen
          /\ bg'.active = bg.active /\ bg'.floor = bg.floor
        BY <1>5, <2>1, ReplayingTouches
    <2>3. s \in bg.active \cup {"membership"}
        BY <1>3, <1>8 DEF Subs
    <2> QED BY <1>2, <1>4, <2>1, <2>2, <2>3, ReplayHeld
<1>9. CASE f.closed = "error" /\ ~(s \in Channels => s \in bg.active)
    <2>1. bg' = bg /\ reqs' = reqs
        BY <1>1, <1>9 DEF ReceiveClosed
    <2>2. OnlyTouches(bg, bg', s)
        BY <2>1 DEF OnlyTouches, Untouched
    <2>3. Dropping(s)'
        BY <1>9, <2>1 DEF Dropping
    <2> QED BY <1>2, <1>4, <1>6, <2>1, <2>2, <2>3, TouchHolds
<1>10. CASE f.closed = "limited"
    <2>1. bg' = Limited(bg, s) /\ reqs' = reqs /\ relay.cut
        BY <1>1, <1>4, <1>10 DEF ReceiveClosed, Carried, Uncut
    <2>2. /\ bg'.lastSeen = bg.lastSeen /\ bg'.dropped = bg.dropped /\ bg'.active = bg.active
          /\ bg'.floor = bg.floor /\ bg'.proactive = bg.proactive
          /\ bg'.parked = bg.parked \cup {s}
        BY <1>5, <2>1 DEF Limited, Bg
    <2>3. \A c : ~Dropping(c)' => ~Dropping(c)
        BY <1>2, <1>4, <1>10, <2>2 DEF Dropping
    <2>4. \A c : Lost(c) => Lost(c)'
        <3> SUFFICES ASSUME NEW c, Lost(c) PROVE Lost(c)'
            OBVIOUS
        <3>1. Bounced(c) => Bounced(c)' \/ c = s
            BY <1>1, <1>4 DEF Bounced
        <3>2. Pending(c) => Pending(c)'
            BY <1>2, <2>2 DEF Pending
        <3>3. c = s => Pending(c)'
            BY <2>2 DEF Pending
        <3> QED BY <3>1, <3>2, <3>3 DEF Lost
    <2>5. \A c : Attended(c) => Attended(c)'
        BY <1>2, <2>1, <2>4 DEF Attended, Unclosed, Renewed
    <2>6. \A c, t : Covered(c, t) => Covered(c, t)'
        BY <1>2, <2>1, <2>2, <2>4 DEF Covered, Asked, Passed, Noticed
    <2>7. \A i \in Ids : OnWire(i) => OnWire(i)'
        BY <1>2, <1>4 DEF OnWire
    <2> QED BY <1>2, <1>6, <2>2, <2>3, <2>5, <2>6, <2>7, ClientHolds
<1> QED BY <1>3, <1>7, <1>8, <1>9, <1>10

LEMMA StartHolds ==
    ASSUME Typed, Carried, Held, LogKept, ReachedKept, [Next]_vars, ProactiveResubscribe \/ Connect
    PROVE  Held'
<1>1. /\ phase' = "resubscribing" /\ todo' \in Resubscription
      /\ UNCHANGED <<relay, wire, reqs, cmds, eventq>>
      /\ (phase = "up" /\ bg.proactive /\ bg' = [bg EXCEPT !.proactive = FALSE])
         \/ (phase = "down" /\ bg' = [bg EXCEPT !.parked = @ \cap {"membership"}])
    BY DEF ProactiveResubscribe, Connect, relayVars
<1>2. BgSound(bg) /\ bg \in Bg
    BY DEF Typed, ClientTyped, BgSound
<1>3. ToSet(todo') = bg.active \cup {"membership"}
    BY <1>1, <1>2, ResubscriptionHolds
<1>4. /\ bg'.lastSeen = bg.lastSeen /\ bg'.dropped = bg.dropped /\ bg'.active = bg.active
      /\ bg'.floor = bg.floor
    BY <1>1, <1>2 DEF Bg
<1>5. \A c : ~Dropping(c)' => ~Dropping(c) /\ c \in ToSet(todo')
    BY <1>1, <1>3, <1>4 DEF Dropping
<1>6. \A c : ~Dropping(c)' => Lost(c)'
    BY <1>1, <1>5 DEF Lost, Pending
<1>7. \A c : ~Dropping(c)' /\ Attended(c) => Attended(c)'
    BY <1>1, <1>6 DEF Attended, Unclosed, Renewed
<1>8. \A c, t : ~Dropping(c)' /\ Covered(c, t) => Covered(c, t)'
    BY <1>1, <1>4, <1>5, <1>6 DEF Covered, Asked, Passed, Noticed
<1>9. \A i \in Ids : OnWire(i) => OnWire(i)'
    BY <1>1 DEF OnWire
<1>10. \A c \in DOMAIN bg'.floor : Early(c, bg'.floor[c])
    BY <1>4, FloorsEarly
<1> QED BY <1>1, <1>5, <1>7, <1>8, <1>9, <1>10, ClientHolds

LEMMA ResubscribeHolds ==
    ASSUME Typed, Carried, Held, LogKept, ReachedKept, [Next]_vars, Resubscribe
    PROVE  Held'
<1>1. PICK s : s = Head(todo)
    OBVIOUS
<1>2. /\ phase = "resubscribing" /\ todo # <<>> /\ todo' = Tail(todo)
      /\ UNCHANGED <<relay, wire, phase, cmds>>
    BY DEF Resubscribe
<1>3. /\ BgSound(bg) /\ bg \in Bg /\ todo \in Seq(bg.active \cup {"membership"})
      /\ bg.active \subseteq Channels
    BY DEF Typed, ClientTyped, BgSound, Todos, Bg
<1>4. s \in bg.active \cup {"membership"} /\ s \in Subs
    BY <1>1, <1>2, <1>3 DEF Subs
<1>5. ToSet(todo) = {s} \cup ToSet(todo')
    BY <1>1, <1>2, <1>3, HeldTail
<1>6. CASE bg.gated /\ bg' = [bg EXCEPT !.parked = @ \cup {s}] /\ reqs' = reqs
    <2>1. /\ bg'.lastSeen = bg.lastSeen /\ bg'.dropped = bg.dropped /\ bg'.active = bg.active
          /\ bg'.floor = bg.floor /\ bg'.proactive = bg.proactive
          /\ bg'.parked = bg.parked \cup {s}
        BY <1>3, <1>6 DEF Bg
    <2>2. relay.cut
        BY <1>6 DEF Carried, Uncut
    <2>3. \A x : Lost(x) => Lost(x)'
        <3> SUFFICES ASSUME NEW x, Lost(x) PROVE Lost(x)'
            OBVIOUS
        <3>1. Pending(x) => Pending(x)'
            BY <1>2, <1>5, <2>1 DEF Pending
        <3>2. Bounced(x) => Bounced(x)'
            BY <1>2 DEF Bounced
        <3> QED BY <3>1, <3>2 DEF Lost
    <2>4. \A c : ~Dropping(c)' => ~Dropping(c)
        BY <1>2, <2>1 DEF Dropping
    <2>5. \A c : Attended(c) => Attended(c)'
        BY <1>2, <1>6, <2>3 DEF Attended, Unclosed, Renewed
    <2>6. \A c, t : Covered(c, t) => Covered(c, t)'
        <3>1. \A x, t : (Passed(x, t) => Passed(x, t)') /\ (Noticed(x, t) => Lost(x))
            BY <2>1 DEF Passed, Noticed, Lost, Pending
        <3>2. \A x, t : Asked(x, t) => Asked(x, t)'
            BY <1>6 DEF Asked
        <3> QED BY <1>2, <2>2, <2>3, <3>1, <3>2 DEF Covered
    <2>7. \A i \in Ids : OnWire(i) => OnWire(i)'
        BY <1>2 DEF OnWire
    <2>8. \A c \in DOMAIN bg'.floor : Early(c, bg'.floor[c])
        BY <2>1, FloorsEarly
    <2> QED BY <1>2, <2>4, <2>5, <2>6, <2>7, <2>8, ClientHolds
<1>7. CASE /\ bg' \in {Unparked(Replaying(bg, s), s), Replaying(bg, s)}
           /\ reqs' = Append(reqs, Req(s, Since(bg, s)))
    <2>1. PICK d : d = Replaying(bg, s)
        OBVIOUS
    <2>2. /\ OnlyTouches(bg, d, s) /\ d.lastSeen = bg.lastSeen
          /\ d.active = bg.active /\ d.floor = bg.floor /\ d \in Bg
        BY <1>3, <2>1, ReplayingTouches, ReplayingSound DEF BgSound
    <2>3. /\ OnlyTouches(bg, bg', s) /\ bg'.lastSeen = bg.lastSeen /\ bg'.active = bg.active
          /\ bg'.floor = bg.floor
        <3>1. CASE bg' = d
            BY <2>2, <3>1
        <3>2. CASE bg' = Unparked(d, s)
            <4>1. /\ OnlyTouches(bg, bg', s) /\ bg'.lastSeen = d.lastSeen
                  /\ bg'.active = d.active /\ bg'.floor = d.floor
                BY <2>2, <3>2, ParkingTouches
            <4> QED BY <2>2, <4>1
        <3> QED BY <1>7, <2>1, <3>1, <3>2
    <2> QED BY <1>2, <1>4, <1>5, <1>7, <2>3, ReplayHeld
<1> QED BY <1>1, <1>6, <1>7 DEF Resubscribe

LEMMA DrainParkedHolds ==
    ASSUME Typed, Carried, Held, LogKept, ReachedKept, [Next]_vars, NEW s \in Subs, DrainParked(s)
    PROVE  Held'
<1>1. UNCHANGED <<relay, wire, phase, todo, cmds>>
    BY DEF DrainParked
<1>2. BgSound(bg) /\ bg \in Bg
    BY DEF Typed, ClientTyped, BgSound
<1>3. CASE s \in Channels \ bg.active /\ bg' = Unparked(bg, s) /\ reqs' = reqs
    <2>1. OnlyTouches(bg, bg, s)
        BY DEF OnlyTouches, Untouched
    <2>2. OnlyTouches(bg, bg', s) /\ bg'.active = bg.active /\ bg'.floor = bg.floor
        BY <1>2, <1>3, <2>1, ParkingTouches
    <2>3. Dropping(s)'
        BY <1>3, <2>2 DEF Dropping
    <2>4. \A c \in DOMAIN bg'.floor : Early(c, bg'.floor[c])
        BY <2>2, FloorsEarly
    <2> QED BY <1>1, <1>3, <2>2, <2>3, <2>4, TouchHolds
<1>4. CASE /\ s \in bg.active \cup {"membership"}
           /\ bg' = Unparked(Replaying(bg, s), s)
           /\ reqs' = Append(reqs, Req(s, Since(bg, s)))
    <2>1. PICK d : d = Replaying(bg, s)
        OBVIOUS
    <2>2. /\ OnlyTouches(bg, d, s) /\ d.lastSeen = bg.lastSeen
          /\ d.active = bg.active /\ d.floor = bg.floor /\ d \in Bg
        BY <1>2, <2>1, ReplayingTouches, ReplayingSound DEF BgSound
    <2>3. bg' = Unparked(d, s)
        BY <1>4, <2>1
    <2>4. /\ OnlyTouches(bg, bg', s) /\ bg'.lastSeen = d.lastSeen /\ bg'.active = d.active
          /\ bg'.floor = d.floor
        BY <2>2, <2>3, ParkingTouches
    <2> QED BY <1>1, <1>4, <2>2, <2>4, ReplayHeld
<1> QED BY <1>3, <1>4 DEF DrainParked

\* The task waits for nothing, or a gate opens.
LEMMA PauseHolds ==
    ASSUME Typed, Carried, Held, LogKept, ReachedKept, [Next]_vars, Resubscribed \/ GateExpires
    PROVE  Held'
<1>1. /\ UNCHANGED <<relay, wire, reqs, todo, cmds, eventq>>
      /\ phase' = phase \/ (todo = <<>> /\ phase = "resubscribing" /\ phase' = "draining")
      /\ bg' = bg \/ bg' = [bg EXCEPT !.gated = FALSE]
    BY DEF Resubscribed, GateExpires, relayVars
<1>2. bg \in Bg
    BY DEF Typed, ClientTyped, BgSound
<1>3. /\ bg'.lastSeen = bg.lastSeen /\ bg'.dropped = bg.dropped /\ bg'.active = bg.active
      /\ bg'.floor = bg.floor /\ bg'.parked = bg.parked /\ bg'.proactive = bg.proactive
    BY <1>1, <1>2 DEF Bg
<1>4. todo = <<>> => ToSet(todo) = {}
    BY HeldNothing
<1>5. \A x : Lost(x) => Lost(x)'
    BY <1>1, <1>3, <1>4 DEF Lost, Pending, Bounced
<1>6. \A c : /\ ~Dropping(c)' => ~Dropping(c)
             /\ Attended(c) => Attended(c)'
    BY <1>1, <1>3, <1>5 DEF Dropping, Attended, Unclosed, Renewed
<1>7. \A c, t : Covered(c, t) => Covered(c, t)'
    BY <1>1, <1>3, <1>4, <1>5 DEF Covered, Asked, Passed, Noticed
<1>8. \A i \in Ids : OnWire(i) => OnWire(i)'
    BY <1>1 DEF OnWire
<1>9. \A c \in DOMAIN bg'.floor : Early(c, bg'.floor[c])
    BY <1>3, FloorsEarly
<1> QED BY <1>1, <1>6, <1>7, <1>8, <1>9, ClientHolds

LEMMA LostSocketHolds ==
    ASSUME Typed, Carried, Held, LogKept, ReachedKept, [Next]_vars, LoseSocket \/ ReconnectCommand
    PROVE  Held'
<1>1. /\ phase' = "down" /\ wire' = <<>> /\ reqs' = <<>>
      /\ relay' = [relay EXCEPT !.live = {}, !.cut = TRUE] /\ bg' = bg
      /\ cmds' = cmds \/ (cmds # <<>> /\ cmds' = Tail(cmds))
    BY DEF LoseSocket, ReconnectCommand, Disconnected
<1>2. relay \in Relay
    BY DEF Typed, RelayTyped
<1>3. relay'.cut /\ relay'.log = relay.log /\ relay'.clock = relay.clock
    BY <1>1, <1>2 DEF Relay
<1>4. ToSet(cmds') \subseteq ToSet(cmds)
    BY <1>1, CommandTaken
<1>5. \A c : Lost(c)'
    BY <1>1 DEF Lost, Pending
<1>6. \A c : Attended(c)' /\ \A t : Covered(c, t)'
    BY <1>3, <1>5 DEF Attended, Covered
<1>7. \A i : Covered(ChannelOf(i), Time(i))'
    BY <1>3, <1>5 DEF Covered
<1>8. \A c \in DOMAIN bg'.floor : Early(c, bg'.floor[c])
    BY <1>1, FloorsEarly
<1> QED BY <1>3, <1>4, <1>6, <1>7, <1>8, ClientHolds

\* A command is executed, or applied while there is no socket.
LEMMA CommandHolds ==
    ASSUME Typed, Carried, Held, LogKept, ReachedKept, [Next]_vars,
           DrainCommand \/ RunCommand \/ DownCommand
    PROVE  Held'
<1>1. /\ UNCHANGED <<relay, wire, todo>>
      /\ phase' = phase \/ (phase = "draining" /\ phase' = "up")
    BY DEF DrainCommand, RunCommand, DownCommand, relayVars
<1>2. BgSound(bg) /\ bg \in Bg /\ cmds \in Orders /\ cmds \in Seq(Order)
    BY DEF Typed, ClientTyped, BgSound, Orders
<1>3. ASSUME cmds # <<>>, cmds' = Tail(cmds)
      PROVE  ToSet(cmds) = {Head(cmds)} \cup ToSet(cmds') /\ Head(cmds) \in ToSet(cmds)
    BY <1>2, <1>3, HeldTail
<1>4. ASSUME bg' = bg, reqs' = reqs, ToSet(cmds') \subseteq ToSet(cmds),
             \A o \in ToSet(cmds) : o \in ToSet(cmds') \/ o.op # "unsubscribe"
      PROVE  Held'
    <2>1. PICK s : s = "membership" /\ s \notin Channels
        BY RelayClientConstants
    <2>2. OnlyTouches(bg, bg', s)
        BY <1>4 DEF OnlyTouches, Untouched
    <2>3. \A c \in DOMAIN bg'.floor : Early(c, bg'.floor[c])
        BY <1>4, FloorsEarly
    <2> QED BY <1>1, <1>4, <2>1, <2>2, <2>3, TouchHolds
<1>5. ASSUME cmds # <<>>, cmds' = Tail(cmds), NEW o, o = Head(cmds), NEW c, c = o.channel,
             OnlyTouches(bg, bg', c), bg'.active \subseteq bg.active \cup {c},
             reqs' = reqs \/ \E r \in Request : reqs' = Append(reqs, r) /\ r.sub = c,
             \A x \in DOMAIN bg'.floor : Early(x, bg'.floor[x]),
             \/ Dropping(c)'
             \/ /\ Attended(c)'
                /\ \A t \in Nat : Within(c, t) => Covered(c, t)'
      PROVE  Held'
    <2>1. /\ ToSet(cmds') \subseteq ToSet(cmds)
          /\ \A x \in ToSet(cmds) : x \in ToSet(cmds') \/ x.channel = c
        BY <1>3, <1>5
    <2> QED BY <1>1, <1>5, <2>1, TouchHolds
<1>6. ASSUME NEW o, o.op = "subscribe", cmds # <<>>, o = Head(cmds), NEW c, c = o.channel,
             NEW d, d = Intended(bg, c, o.since)
      PROVE  /\ OnlyTouches(bg, d, c) /\ d \in Bg /\ d.active = bg.active \cup {c}
             /\ d.lastSeen = bg.lastSeen /\ c \in Channels
             /\ \A x \in DOMAIN d.floor : Early(x, d.floor[x]) /\ d.floor[x] \in Nat
             /\ c \in DOMAIN d.floor
    <2>1. o \in Order /\ c \in Channels /\ o.since \in Nat
        BY <1>2, <1>6, OrderHead
    <2>2. o \in ToSet(cmds)
        BY <1>2, <1>6, HeldTail
    <2>3. Early(c, o.since)
        BY <1>6, <2>2, FloorsEarly
    <2>4. OnlyTouches(bg, d, c)
        BY <1>2, <1>6, IntendedTouches
    <2>5. d \in Bg
        BY <1>2, <1>6, <2>1, IntendedSound DEF BgSound
    <2>6. /\ d.active = bg.active \cup {c} /\ d.lastSeen = bg.lastSeen
          /\ DOMAIN d.floor = DOMAIN bg.floor \cup {c}
          /\ \A x \in DOMAIN bg.floor : d.floor[x] = bg.floor[x]
          /\ c \in DOMAIN bg.floor \/ d.floor[c] = o.since
        BY <1>2, <1>6, IntendedFloor
    <2>7. \A x \in DOMAIN bg.floor : Early(x, bg.floor[x]) /\ bg.floor[x] \in Nat
        BY FloorsEarly
    <2>8. \A x \in DOMAIN d.floor : Early(x, d.floor[x]) /\ d.floor[x] \in Nat
        BY <2>1, <2>3, <2>6, <2>7
    <2> QED BY <2>1, <2>4, <2>5, <2>6, <2>8
<1>7. ASSUME bg.gated \/ phase = "down" PROVE relay.cut
    BY <1>7 DEF Carried, Uncut
<1>8. ASSUME NEW c, relay.cut, Lost(c)' PROVE Attended(c)' /\ \A t \in Nat : Covered(c, t)'
    BY <1>1, <1>8 DEF Attended, Covered
<1>9. ASSUME NEW c, bg' = Cleared(bg, c)
      PROVE  /\ OnlyTouches(bg, bg', c) /\ bg'.active \subseteq bg.active \cup {c} /\ Dropping(c)'
             /\ \A x \in DOMAIN bg'.floor : Early(x, bg'.floor[x])
    <2>1. OnlyTouches(bg, bg', c)
        BY <1>2, <1>9, ClearedTouches
    <2>2. /\ bg'.active = bg.active \ {c}
          /\ \A x \in DOMAIN bg'.floor : x \in DOMAIN bg.floor /\ bg'.floor[x] = bg.floor[x]
        BY <1>2, <1>9, ClearedFloor
    <2>3. \A x \in DOMAIN bg'.floor : Early(x, bg'.floor[x])
        BY <2>2, FloorsEarly
    <2> QED BY <2>1, <2>2, <2>3 DEF Dropping
<1>10. CASE cmds # <<>> /\ cmds' = Tail(cmds) /\ Execute(Head(cmds))
    <2>1. PICK o, c : o = Head(cmds) /\ c = o.channel
        OBVIOUS
    <2>2. o.op \in {"subscribe", "unsubscribe"} /\ c \in Channels
        BY <1>2, <1>10, <2>1, OrderHead DEF Execute
    <2>3. CASE o.op = "unsubscribe"
        <3>1. bg' = Cleared(bg, c) /\ reqs' \in {reqs, Append(reqs, CloseFrame(c))}
            BY <1>10, <2>1, <2>3 DEF Execute
        <3>2. CloseFrame(c) \in Request /\ CloseFrame(c).sub = c
            BY <2>2 DEF CloseFrame, Request, Subs
        <3>3. reqs' = reqs \/ \E r \in Request : reqs' = Append(reqs, r) /\ r.sub = c
            BY <3>1, <3>2
        <3> QED BY <1>5, <1>9, <1>10, <2>1, <3>1, <3>3
    <2>4. CASE o.op = "subscribe"
        <3>1. PICK d : d = Intended(bg, c, o.since)
            OBVIOUS
        <3>2. /\ OnlyTouches(bg, d, c) /\ d \in Bg /\ d.active = bg.active \cup {c}
              /\ d.lastSeen = bg.lastSeen
              /\ \A x \in DOMAIN d.floor : Early(x, d.floor[x]) /\ d.floor[x] \in Nat
              /\ c \in DOMAIN d.floor
            BY <1>6, <1>10, <2>1, <2>4, <3>1
        <3>3. CASE bg.gated /\ bg' = [d EXCEPT !.parked = @ \cup {c}] /\ reqs' = reqs
            <4>1. /\ OnlyTouches(bg, bg', c) /\ bg'.active = d.active /\ bg'.floor = d.floor
                BY <3>2, <3>3, ParkingTouches
            <4>2. c \in bg'.parked
                BY <3>2, <3>3 DEF Bg
            <4>3. Lost(c)' /\ relay.cut
                BY <1>7, <3>3, <4>2 DEF Lost, Pending
            <4>4. Attended(c)' /\ \A t \in Nat : Covered(c, t)'
                BY <1>8, <4>3
            <4> QED BY <1>5, <1>10, <2>1, <3>2, <3>3, <4>1, <4>4
        <3>4. CASE bg' = Unparked(d, c) /\ reqs' = Append(reqs, Req(c, FirstSince(d, c)))
            <4>1. /\ OnlyTouches(bg, bg', c) /\ bg'.lastSeen = d.lastSeen
                  /\ bg'.active = d.active /\ bg'.floor = d.floor
                BY <3>2, <3>4, ParkingTouches
            <4>2. PICK n : n = FirstSince(d, c)
                OBVIOUS
            <4>3. /\ n \in Nat
                  /\ c \in DOMAIN bg.lastSeen => n <= bg.lastSeen[c]
                  /\ c \notin DOMAIN bg.lastSeen => Early(c, n)
                <5>1. bg.lastSeen \in [DOMAIN bg.lastSeen -> Nat]
                    BY <1>2, MapsAre DEF Bg
                <5>2. CASE c \in DOMAIN bg.lastSeen
                    <6>1. n = bg.lastSeen[c] /\ n \in Nat
                        BY <3>2, <4>2, <5>1, <5>2 DEF FirstSince
                    <6> QED BY <5>2, <6>1
                <5>3. CASE c \notin DOMAIN bg.lastSeen
                    <6>1. n = d.floor[c]
                        BY <3>2, <4>2, <5>3 DEF FirstSince
                    <6> QED BY <3>2, <5>3, <6>1
                <5> QED BY <5>2, <5>3
            <4>4. reqs' = Append(reqs, Req(c, n)) /\ relay' = relay /\ bg'.lastSeen = bg.lastSeen
                BY <1>1, <3>2, <3>4, <4>1, <4>2
            <4>5. Attended(c)' /\ \A t \in Nat : Within(c, t) => Covered(c, t)'
                BY <2>2, <4>3, <4>4, AskHolds
            <4>6. \E r \in Request : reqs' = Append(reqs, r) /\ r.sub = c
                <5>1. Req(c, n) \in Request /\ Req(c, n).sub = c
                    BY <2>2, <4>3, ReqTypes DEF Subs, Req
                <5> QED BY <4>4, <5>1
            <4> QED BY <1>5, <1>10, <2>1, <3>2, <4>1, <4>5, <4>6
        <3> QED BY <1>10, <2>1, <2>4, <3>1, <3>3, <3>4 DEF Execute
    <2> QED BY <2>2, <2>3, <2>4
<1>11. CASE DownCommand
    <2>1. PICK o, c : o = Head(cmds) /\ c = o.channel
        OBVIOUS
    <2>2. /\ cmds # <<>> /\ cmds' = Tail(cmds) /\ reqs' = reqs /\ phase = "down" /\ phase' = "down"
          /\ o.op \in {"subscribe", "unsubscribe", "reconnect"}
        BY <1>2, <1>11, <2>1, OrderHead DEF DownCommand, relayVars
    <2>3. Lost(c)' /\ relay.cut
        BY <1>7, <2>2 DEF Lost, Pending
    <2>4. Attended(c)' /\ \A t \in Nat : Covered(c, t)'
        BY <1>8, <2>3
    <2>5. CASE o.op = "reconnect"
        <3>1. bg' = bg
            BY <1>11, <2>1, <2>5 DEF DownCommand
        <3>2. /\ ToSet(cmds') \subseteq ToSet(cmds)
              /\ \A x \in ToSet(cmds) : x \in ToSet(cmds') \/ x.op # "unsubscribe"
            BY <1>3, <2>1, <2>2, <2>5
        <3> QED BY <1>4, <2>2, <3>1, <3>2
    <2>6. CASE o.op = "unsubscribe"
        <3>1. bg' = Cleared(bg, c)
            BY <1>11, <2>1, <2>6 DEF DownCommand
        <3> QED BY <1>5, <1>9, <2>1, <2>2, <3>1
    <2>7. CASE o.op = "subscribe"
        <3>1. bg' = Intended(bg, c, o.since)
            BY <1>11, <2>1, <2>7 DEF DownCommand
        <3>2. /\ OnlyTouches(bg, bg', c) /\ bg'.active = bg.active \cup {c}
              /\ \A x \in DOMAIN bg'.floor : Early(x, bg'.floor[x])
            BY <1>6, <2>1, <2>2, <2>7, <3>1
        <3> QED BY <1>5, <2>1, <2>2, <2>4, <3>2
    <2> QED BY <2>2, <2>5, <2>6, <2>7
<1>12. CASE /\ bg' = bg /\ reqs' = reqs
            /\ \/ cmds # <<>> /\ Head(cmds).op = "reconnect" /\ cmds' = Tail(cmds)
               \/ cmds' = cmds
    <2>1. /\ ToSet(cmds') \subseteq ToSet(cmds)
          /\ \A x \in ToSet(cmds) : x \in ToSet(cmds') \/ x.op # "unsubscribe"
        BY <1>3, <1>12
    <2> QED BY <1>4, <1>12, <2>1
<1> QED BY <1>10, <1>11, <1>12 DEF DrainCommand, RunCommand

LEMMA ClientStepHolds ==
    ASSUME Typed, Carried, Remembered, Held, LogKept, ReachedKept, [Next]_vars, ClientStep
    PROVE  Held'
BY ReceiveEventHolds, ReceiveClosedHolds, StartHolds, ResubscribeHolds, PauseHolds,
   CommandHolds, LostSocketHolds, DrainParkedHolds DEF ClientStep

\* Neither the relay nor the background task moves.
LEMMA UnmovedHolds ==
    ASSUME Held, LogKept, ReachedKept, UNCHANGED <<relay, wire, reqs, phase, todo, bg>>,
           ToSet(cmds) \subseteq ToSet(cmds'),
           \A o \in ToSet(cmds') : o \in ToSet(cmds) \/ (o.op = "subscribe" => Early(o.channel, o.since))
    PROVE  Held'
<1>1. Ids' = Ids /\ \A c : Changes(c)' = Changes(c)
    BY DEF Ids, Changes, ChannelOf
<1>2. \A i : Current(i)' <=> Current(i)
    BY <1>1 DEF Current, Change, ChannelOf
<1>3. \A i : Time(i)' = Time(i) /\ ChannelOf(i)' = ChannelOf(i)
    BY DEF Time, ChannelOf
<1>4. \A c, x : Early(c, x)' <=> Early(c, x)
    BY <1>1, <1>2, <1>3 DEF Early
<1>5. Sorted'
    BY <1>1, <1>3 DEF Held, Sorted
<1>6. Floored'
    <2>1. \A c \in DOMAIN bg'.floor : Early(c, bg.floor[c])'
        BY <1>4 DEF Held, Floored, Early, Current, Ids, Changes, Change, ChannelOf, Time
    <2>2. \A o \in ToSet(cmds') : o.op = "subscribe" => Early(o.channel, o.since)'
        BY <1>4 DEF Held, Floored
    <2> QED BY <2>1, <2>2 DEF Floored
<1>7. \A c : ~Dropping(c)' => ~Dropping(c)
    BY DEF Dropping
<1>8. \A c : Attended(c) => Attended(c)'
    BY DEF Attended, Unclosed, Renewed, Lost, Pending, Bounced
<1>9. Attends'
    BY <1>7, <1>8 DEF Held, Attends
<1>10. Kept'
    <2> SUFFICES ASSUME NEW i \in Ids, Current(i)', ~Dropping(ChannelOf(i))'
                 PROVE  Reached(i)' \/ OnWire(i)' \/ Covered(ChannelOf(i), Time(i))'
        BY <1>1 DEF Kept
    <2>1. PICK c, t : c = ChannelOf(i) /\ t = Time(i)
        OBVIOUS
    <2>2. ~Dropping(c)'
        BY <1>3, <2>1 DEF Dropping
    <2>3. Current(i) /\ (Reached(i) \/ OnWire(i) \/ Covered(c, t))
        BY <1>2, <1>7, <2>1, <2>2 DEF Held, Kept
    <2>4. OnWire(i) => OnWire(i)'
        BY DEF OnWire
    <2>5. Covered(c, t) => Covered(ChannelOf(i), Time(i))'
        BY <1>3, <2>1 DEF Covered, Asked, Lost, Pending, Bounced, Passed, Noticed
    <2> QED BY <2>3, <2>4, <2>5 DEF ReachedKept
<1> QED BY <1>5, <1>6, <1>9, <1>10 DEF Held

\* A Subscribe asks from the notification on: no current message is older.
LEMMA LoopHolds ==
    ASSUME Typed, Carried, Held, LogKept, ReachedKept,
           MainStep \/ (\E ok \in BOOLEAN : WakeReturns(ok)) \/ AbortWake \/ Exit
    PROVE  Held'
<1>1. UNCHANGED <<relay, wire, reqs, phase, todo, bg>>
    BY LoopStepTypes DEF relayVars, clientVars
<1>2. /\ eventq \in Seq(0..LogEnd) /\ cmds \in Seq(Order) /\ LogEnd \in Nat
      /\ Ids = 1..LogEnd /\ relay \in Relay
    BY LogLen DEF Typed, RelayTyped, ClientTyped, LoopTyped, Queues, Orders, LogEnd, Ids
<1>3. ASSUME NEW o, o \in Order, cmds' = Append(cmds, o),
             o.op = "subscribe" => Early(o.channel, o.since)
      PROVE  Held'
    <2>1. ToSet(cmds') = ToSet(cmds) \cup {o}
        BY <1>2, <1>3, HeldAppend
    <2> QED BY <1>1, <1>3, <2>1, UnmovedHolds
<1>4. CASE cmds' = cmds
    BY <1>1, <1>4, UnmovedHolds
<1>5. CASE TakeSentinel
    <2>1. PICK o : o = [op |-> "reconnect", channel |-> "membership", since |-> 0]
        OBVIOUS
    <2>2. cmds' = Append(cmds, o) /\ o \in Order /\ o.op = "reconnect"
        BY <1>5, <2>1 DEF TakeSentinel, Order, Command, Subs
    <2> QED BY <1>3, <2>2
<1>6. CASE ApplyAdded \/ ApplyRemoved
    <2>1. eventq # <<>> /\ Head(eventq) # 0 /\ relay.log[Head(eventq)].kind # "message"
        BY <1>6 DEF ApplyAdded, ApplyRemoved, Applies, Taking
    <2>2. PICK h : h = Head(eventq)
        OBVIOUS
    <2>3. h \in Ids /\ Change(h)
        BY <1>2, <2>1, <2>2 DEF Change
    <2>4. PICK c, t : c = ChannelOf(h) /\ t = Time(h)
        OBVIOUS
    <2>5. c \in Channels /\ t \in Nat
        BY <2>3, <2>4, StoredTimes
    <2>6. Early(c, t)
        <3>1. t <= relay.clock
            BY <2>3, <2>4 DEF Carried, Clocked
        <3>2. ASSUME NEW i \in Ids, Current(i), ChannelOf(i) = c PROVE t <= Time(i)
            <4>1. h \in Changes(c)
                BY <2>3, <2>4 DEF Changes, Change
            <4>2. h < i
                BY <3>2, <4>1 DEF Current
            <4> QED BY <2>3, <2>4, <4>2 DEF Held, Sorted
        <3> QED BY <3>1, <3>2 DEF Early
    <2>7. \/ cmds' = cmds
          \/ cmds' = Append(cmds, [op |-> "subscribe", channel |-> c, since |-> t])
          \/ cmds' = Append(cmds, [op |-> "unsubscribe", channel |-> c, since |-> 0])
        BY <1>6, <2>2, <2>4 DEF ApplyAdded, ApplyRemoved, Time
    <2>8. ASSUME NEW op \in {"subscribe", "unsubscribe"}, NEW x \in Nat,
                 cmds' = Append(cmds, [op |-> op, channel |-> c, since |-> x]),
                 op = "subscribe" => x = t
          PROVE  Held'
        <3>1. PICK o : o = [op |-> op, channel |-> c, since |-> x]
            OBVIOUS
        <3>2. /\ o \in Order /\ o.channel = c /\ o.op = op /\ o.since = x
              /\ cmds' = Append(cmds, o)
            BY <2>5, <2>8, <3>1 DEF Order, Command, Subs
        <3> QED BY <1>3, <2>6, <2>8, <3>2
    <2> QED BY <1>4, <2>5, <2>7, <2>8
<1> QED BY <1>4, <1>5, <1>6 DEF MainStep, TakeMessage, SkipNotification, TurnSucceeds,
       TurnFails, Maintenance, RetryDeadline, RetryFires, WakePanics, TakeWakeResult,
       JoinWakeTask, Sleep, StopLoop, BackoffExpires, WakeReturns, AbortWake, Exit, LoopStep

LEMMA HeldStep ==
    ASSUME Typed, Carried, Remembered, Held, [Next]_vars
    PROVE  Held'
<1>1. LogKept
    BY LogKeptStep
<1>2. ReachedKept
    BY <1>1, ReachedStep DEF ReachedKept
<1>3. CASE UNCHANGED vars
    BY <1>1, <1>2, <1>3, UnmovedHolds DEF vars
<1>4. CASE RelayStep
    BY <1>1, <1>2, <1>4, RelayStepHolds
<1>5. CASE ClientStep
    BY <1>1, <1>2, <1>5, ClientStepHolds
<1>6. CASE MainStep \/ (\E ok \in BOOLEAN : WakeReturns(ok)) \/ AbortWake \/ Exit
    BY <1>1, <1>2, <1>6, LoopHolds
<1> QED BY <1>3, <1>4, <1>5, <1>6 DEF Next

LEMMA HeldInit == Init => Held
<1> SUFFICES ASSUME Init PROVE Held
    OBVIOUS
<1> DEFINE J == budget.joined
           e == <<>>
<1>1. /\ relay = [clock |-> 0, log |-> e, members |-> J, archived |-> {}, cut |-> FALSE,
                  live |-> J \cup {"membership"}]
      /\ wire = e /\ reqs = e /\ todo = e /\ cmds = e /\ phase = "up"
    BY DEF Init
<1>2. bg = [active |-> J, lastSeen |-> [s \in {"membership"} |-> 0], dropped |-> e,
            floor |-> [c \in J |-> 0], seen |-> Unseen, parked |-> {},
            gated |-> FALSE, proactive |-> FALSE]
    BY DEF Init, Fresh
<1>3. DOMAIN e = {} /\ ToSet(e) = {}
    BY HeldNothing
<1> HIDE DEF e, J
<1>4. /\ relay.clock = 0 /\ relay.log = e /\ Ids = {} /\ relay.live = J \cup {"membership"}
    BY ONLY <1>1, <1>3 DEF Ids
<1>5. PICK f : f = [c \in J |-> 0]
    OBVIOUS
<1>6. bg.active = J /\ bg.floor = f /\ DOMAIN f = J /\ \A c \in J : f[c] = 0
    BY <1>2, <1>5
<1>7. Sorted /\ Kept
    BY <1>4 DEF Sorted, Kept
<1>8. Floored
    BY <1>1, <1>3, <1>4, <1>6 DEF Floored, Early
<1>9. Attends
    BY <1>1, <1>3, <1>4, <1>6 DEF Attends, Attended, Unclosed, Dropping
<1> QED BY <1>7, <1>8, <1>9 DEF Held

LEMMA HeldAlways == Spec => [](Typed /\ Carried /\ Remembered /\ Held)
<1>1. Init => Typed /\ Carried /\ Remembered /\ Held
    BY TypedInit, CarriedInit, HeldInit
<1>2. Typed /\ Carried /\ Remembered /\ Held /\ [Next]_vars
         => (Typed /\ Carried /\ Remembered /\ Held)'
    BY TypedStep, CarriedStep, HeldStep
<1> QED BY <1>1, <1>2, PTL DEF Spec

\* A current message that has not reached the main loop when nothing is on its
\* way was passed.
LEMMA QuietPasses ==
    ASSUME Typed, Carried, Held, Quiescent, NEW i \in Owed \ Got
    PROVE  Passed(ChannelOf(i), Time(i))
<1>1. PICK c, t : c = ChannelOf(i) /\ t = Time(i)
    OBVIOUS
<1>2. /\ phase = "up" /\ ~bg.proactive /\ bg.parked = {}
      /\ ToSet(wire) = {} /\ ToSet(reqs) = {} /\ ToSet(cmds) = {}
    BY HeldNothing DEF Quiescent
<1>3. i \in Ids /\ Current(i) /\ c \in bg.active
    BY <1>1 DEF Owed, Current, Change
<1>4. ~Dropping(c)
    BY <1>2, <1>3 DEF Dropping
<1>5. ~Reached(i) /\ ~OnWire(i)
    BY <1>2, <1>3 DEF Reached, OnWire, Got, Current
<1>6. Covered(c, t)
    BY <1>1, <1>3, <1>4, <1>5 DEF Held, Kept
<1>7. ~Asked(c, t) /\ ~Lost(c) /\ ~Noticed(c, t)
    BY <1>2 DEF Asked, Lost, Pending, Bounced, Noticed
<1> QED BY <1>1, <1>6, <1>7 DEF Covered

\* What the REQs of the client cover is never missed, however sockets are lost,
\* the queue overflows, REQs are refused, and channels are left, joined and
\* archived.
THEOREM WindowsAreComplete == Spec => []WindowComplete
<1>1. ASSUME Typed, Carried, Held PROVE WindowComplete
    <2> SUFFICES ASSUME Quiescent, NEW i \in Owed \ Got
                 PROVE  \E t \in At(bg.lastSeen, ChannelOf(i)) : relay.log[i].at < t - Skew
        BY DEF WindowComplete
    <2>1. PICK c, t : c = ChannelOf(i) /\ t = Time(i)
        OBVIOUS
    <2>2. c \in DOMAIN bg.lastSeen /\ t + Skew < bg.lastSeen[c]
        BY <1>1, <2>1, QuietPasses DEF Passed
    <2>3. bg.lastSeen[c] \in Nat
        <3>1. bg.lastSeen \in [DOMAIN bg.lastSeen -> Nat]
            BY <1>1, MapsAre DEF Typed, ClientTyped, BgSound, Bg
        <3> QED BY <2>2, <3>1
    <2>4. t \in Nat /\ Skew \in Nat
        BY <1>1, <2>1, StoredTimes, RelayClientConstants DEF Owed
    <2>5. PICK l \in Nat : l = bg.lastSeen[c]
        BY <2>3
    <2>6. t < l - Skew
        BY <2>2, <2>4, <2>5
    <2> QED BY <2>1, <2>2, <2>5, <2>6 DEF At, Time
<1> QED BY <1>1, HeldAlways, PTL

\* Without a lost socket or a refused REQ nothing is missed on a channel whose
\* membership stays, however many events the full queue refuses.
THEOREM OverflowsAreRecovered == Spec => []OverflowRecovered
<1>1. ASSUME Typed, Carried PROVE OverflowRecovered
    <2> SUFFICES ASSUME Quiescent, ~relay.cut, NEW i \in Owed \ Got, Settled(ChannelOf(i))
                 PROVE  FALSE
        BY DEF OverflowRecovered
    <2>1. PICK c, t : c = ChannelOf(i) /\ t = Time(i)
        OBVIOUS
    <2>2. /\ phase = "up" /\ ~bg.proactive /\ bg.parked = {}
          /\ ToSet(wire) = {} /\ ToSet(reqs) = {}
        BY HeldNothing DEF Quiescent
    <2>3. i \in Ids /\ ~Change(i) /\ Sub(i) = c
        BY <2>1 DEF Owed, Change, Sub, SubOf, ChannelOf
    <2>4. Steady(c)
        BY <2>1 DEF Settled, Steady, Changes, Change
    <2>5. ~Reached(i) /\ ~OnWire(i)
        BY <2>2, <2>3 DEF Reached, OnWire, Got
    <2>6. ~Asked(c, t) /\ ~Missing(c, t)
        BY <2>2 DEF Asked, Missing, Noticed
    <2> QED BY <1>1, <2>1, <2>3, <2>4, <2>5, <2>6 DEF Carried, Flows
<1> QED BY <1>1, CarriedAlways, PTL

-----------------------------------------------------------------------------
(* The memberships                                                          *)

Added(i) == relay.log[i].kind = "added"

\* Two changes of a membership are told apart by their times.
Ordered ==
    \A c \in Channels : \A i, j \in Changes(c) : i < j => Time(i) < Time(j)

\* The relay's membership is that of the newest change, and the main loop's that
\* of the newest one it has applied.
Recorded ==
    \A c \in Channels :
        \/ Changes(c) = {} /\ (c \in relay.members <=> c \in budget.joined)
        \/ \E i \in Newest(c) : c \in relay.members <=> Added(i)
Follows ==
    \A c \in Channels :
        \/ c \notin DOMAIN main.newest /\ (c \in main.subscribed <=> c \in budget.joined)
        \/ /\ c \in DOMAIN main.newest
           /\ \E i \in Changes(c) : Time(i) = main.newest[c] /\ (c \in main.subscribed <=> Added(i))

Joined == ~budget.ties /\ Ordered /\ Recorded /\ Follows

\* The log of the relay only grows, and a change is newer than all before it.
LEMMA RecordedStep ==
    ASSUME Typed, Carried, Joined, LogKept, [Next]_vars
    PROVE  /\ ~budget'.ties /\ budget'.joined = budget.joined /\ Ordered' /\ Recorded'
           /\ \A i \in Ids : Added(i)' <=> Added(i)
           /\ \A c : Changes(c) \subseteq Changes(c)'
<1>1. ~budget'.ties /\ budget'.joined = budget.joined
    BY ConfigurationKept DEF Typed, Joined
<1>2. relay \in Relay /\ LogEnd \in Nat /\ Ids = 1..LogEnd
    BY LogLen DEF Typed, RelayTyped, LogEnd, Ids
<1>3. \A i \in Ids : i \in Ids' /\ relay'.log[i] = relay.log[i]
    <2>1. Grown(relay, relay') /\ relay' \in Relay
        BY TypedStep DEF Typed, RelayTyped, Grown
    <2> QED BY <1>2, <2>1, LogLen DEF Grown, Ids, LogEnd
<1>4. \A i \in Ids : /\ Added(i)' <=> Added(i)
                     /\ Time(i)' = Time(i) /\ ChannelOf(i)' = ChannelOf(i)
                     /\ relay'.log[i].kind = relay.log[i].kind
    BY <1>3 DEF Added, Time, ChannelOf
<1>5. \A c : Changes(c) \subseteq Changes(c)'
    BY <1>3, <1>4 DEF Changes, ChannelOf
<1>6. ASSUME NEW c \in Channels, Changes(c)' = Changes(c),
             c \in relay'.members <=> c \in relay.members
      PROVE  /\ \A i, j \in Changes(c)' : i < j => Time(i)' < Time(j)'
             /\ \/ Changes(c)' = {} /\ (c \in relay'.members <=> c \in budget'.joined)
                \/ \E i \in Newest(c)' : c \in relay'.members <=> Added(i)'
    <2>1. Newest(c)' = Newest(c)
        BY <1>6 DEF Newest
    <2>2. \A i \in Changes(c) : (Added(i)' <=> Added(i)) /\ Time(i)' = Time(i)
        BY <1>4 DEF Changes
    <2>3. Newest(c) \subseteq Changes(c)
        BY DEF Newest
    <2> QED BY <1>1, <1>6, <2>1, <2>2, <2>3 DEF Joined, Ordered, Recorded
<1>7. CASE Unstored
    <2>1. \A c : Changes(c)' = Changes(c) /\ relay'.members = relay.members
        BY <1>7 DEF Unstored, Changes, Ids, ChannelOf
    <2>2. \A c \in Channels :
             /\ \A i, j \in Changes(c)' : i < j => Time(i)' < Time(j)'
             /\ \/ Changes(c)' = {} /\ (c \in relay'.members <=> c \in budget'.joined)
                \/ \E i \in Newest(c)' : c \in relay'.members <=> Added(i)'
        BY <1>6, <2>1
    <2> QED BY <1>1, <1>4, <1>5, <2>2 DEF Ordered, Recorded
<1>8. ASSUME NEW e \in Event, NEW members \in SUBSET Channels, NEW live \in SUBSET Subs,
             NEW before \in Wires(LogEnd), Storing(e, members, live, before)
      PROVE  Ordered' /\ Recorded'
    <2>1. PICK n : n = LogEnd + 1
        OBVIOUS
    <2>2. /\ Ids' = Ids \cup {n} /\ n \notin Ids /\ relay'.log[n] = e
          /\ relay'.members = members
        BY <1>8, <2>1, StoreShape DEF Storing, Typed
    <2>3. \A c : Changes(c)' = IF e.kind # "message" /\ e.channel = c
                               THEN Changes(c) \cup {n} ELSE Changes(c)
        <3>1. \A c : Changes(c) = {i \in Ids : relay.log[i].kind # "message" /\ relay.log[i].channel = c}
            BY DEF Changes, ChannelOf
        <3>2. \A c : Changes(c)' = {i \in Ids' : relay'.log[i].kind # "message"
                                                 /\ relay'.log[i].channel = c}
            BY DEF Changes, ChannelOf
        <3> QED BY <1>3, <2>2, <3>1, <3>2
    <2>4. ASSUME NEW c \in Channels, ~(e.kind # "message" /\ e.channel = c)
          PROVE  /\ \A i, j \in Changes(c)' : i < j => Time(i)' < Time(j)'
                 /\ \/ Changes(c)' = {} /\ (c \in relay'.members <=> c \in budget'.joined)
                    \/ \E i \in Newest(c)' : c \in relay'.members <=> Added(i)'
        <3>1. c \in members <=> c \in relay.members
            BY <1>8, <2>4 DEF Storing
        <3> QED BY <1>6, <2>2, <2>3, <2>4, <3>1
    <2>5. ASSUME NEW c \in Channels, e.kind # "message", e.channel = c
          PROVE  /\ \A i, j \in Changes(c)' : i < j => Time(i)' < Time(j)'
                 /\ \E i \in Newest(c)' : c \in relay'.members <=> Added(i)'
        <3>1. Changes(c)' = Changes(c) \cup {n} /\ Changes(c) \subseteq Ids
            BY <2>3, <2>5 DEF Changes
        <3>2. Time(n)' = relay.clock /\ (Added(n)' <=> e.kind = "added")
            BY <1>8, <2>2 DEF Time, Added, Storing
        <3>3. \A i \in Changes(c) : Time(i) < relay.clock
            BY <1>8, <2>5 DEF Storing, FreshSecond, Joined, Changes, ChannelOf, Time
        <3>4. \A i \in Ids : i < n /\ i <= n /\ ~(n < i)
            BY <1>2, <2>1
        <3>5. ASSUME NEW i \in Changes(c)', NEW j \in Changes(c)', i < j
              PROVE  Time(i)' < Time(j)'
            <4>1. i \in Changes(c) \/ i = n
                BY <3>1
            <4>2. j \in Changes(c) \/ j = n
                BY <3>1
            <4>3. CASE i = n
                <5>1. CASE j = n
                    BY <1>2, <2>1, <3>5, <4>3, <5>1
                <5>2. CASE j \in Changes(c)
                    BY <3>1, <3>4, <3>5, <4>3, <5>2
                <5> QED BY <4>2, <5>1, <5>2
            <4>4. CASE i \in Changes(c) /\ j = n
                BY <1>4, <3>1, <3>2, <3>3, <4>4
            <4>5. CASE i \in Changes(c) /\ j \in Changes(c)
                BY <1>4, <3>1, <3>5, <4>5 DEF Joined, Ordered
            <4> QED BY <4>1, <4>2, <4>3, <4>4, <4>5
        <3>6. n \in Newest(c)'
            <4>1. n <= n
                BY <1>2, <2>1
            <4> QED BY <3>1, <3>4, <4>1 DEF Newest
        <3>7. c \in relay'.members <=> Added(n)'
            <4>1. e.kind \in {"added", "removed"}
                BY <2>5 DEF Event
            <4> QED BY <1>8, <2>2, <2>5, <3>2, <4>1 DEF Storing
        <3> QED BY <3>5, <3>6, <3>7
    <2>6. ASSUME NEW c \in Channels
          PROVE  /\ \A i, j \in Changes(c)' : i < j => Time(i)' < Time(j)'
                 /\ \/ Changes(c)' = {} /\ (c \in relay'.members <=> c \in budget'.joined)
                    \/ \E i \in Newest(c)' : c \in relay'.members <=> Added(i)'
        BY <2>4, <2>5
    <2> QED BY <2>6 DEF Ordered, Recorded
<1> QED BY <1>1, <1>4, <1>5, <1>7, <1>8, LogSteps

\* The main loop applies a change that is no older than the newest it knows.
LEMMA FollowsStep ==
    ASSUME Typed, Carried, Joined, LogKept, [Next]_vars
    PROVE  Follows'
<1>1. /\ budget'.joined = budget.joined
      /\ \A i \in Ids : Added(i)' <=> Added(i)
      /\ \A c : Changes(c) \subseteq Changes(c)'
    BY RecordedStep
<1>2. \A c : \A i \in Changes(c) : i \in Changes(c)' /\ Time(i)' = Time(i) /\ (Added(i)' <=> Added(i))
    BY <1>1 DEF LogKept, Changes
<1>3. ASSUME NEW c \in Channels,
             c \in DOMAIN main'.newest <=> c \in DOMAIN main.newest,
             c \in DOMAIN main.newest => main'.newest[c] = main.newest[c],
             c \in main'.subscribed <=> c \in main.subscribed
      PROVE  \/ c \notin DOMAIN main'.newest /\ (c \in main'.subscribed <=> c \in budget'.joined)
             \/ /\ c \in DOMAIN main'.newest
                /\ \E i \in Changes(c)' : Time(i)' = main'.newest[c]
                                          /\ (c \in main'.subscribed <=> Added(i)')
    BY <1>1, <1>2, <1>3 DEF Joined, Follows
<1>4. CASE main'.newest = main.newest /\ main'.subscribed = main.subscribed
    BY <1>3, <1>4 DEF Follows
<1>5. main \in Main
    BY DEF Typed, LoopTyped
<1>6. CASE SkipNotification
    <2>1. main'.newest = main.newest /\ main'.subscribed = main.subscribed
        BY <1>5, <1>6 DEF SkipNotification, Main
    <2> QED BY <1>4, <2>1
<1>7. CASE ApplyAdded \/ ApplyRemoved
    <2>1. PICK h, k : h = Head(eventq) /\ k = ChannelOf(h)
        OBVIOUS
    <2>2. h \in Ids /\ h \in Changes(k) /\ k \in Channels
        <3>1. eventq # <<>> /\ Head(eventq) # 0 /\ relay.log[Head(eventq)].kind # "message"
            BY <1>7 DEF ApplyAdded, ApplyRemoved, Applies, Taking
        <3>2. eventq \in Seq(0..LogEnd) /\ Ids = 1..LogEnd /\ LogEnd \in Nat
            BY LogLen DEF Typed, RelayTyped, LoopTyped, Queues, LogEnd, Ids
        <3>3. h \in Ids
            BY <2>1, <3>1, <3>2
        <3> QED BY <2>1, <3>1, <3>3, StoredTimes DEF Changes
    <2>3. PICK w, s : w = Put(main.newest, k, Time(h)) /\ s = Remember(main.seen, h)
        OBVIOUS
    <2>4. /\ DOMAIN w = DOMAIN main.newest \cup {k} /\ w[k] = Time(h)
          /\ \A x \in DOMAIN main.newest \ {k} : w[x] = main.newest[x]
        BY <2>3 DEF Put
    <2>5. Noted(h) = [main EXCEPT !.seen = s, !.newest = w]
        BY <2>1, <2>3 DEF Noted, Time
    <2>6. /\ main'.newest = w
          /\ \A x \in Channels \ {k} : x \in main'.subscribed <=> x \in main.subscribed
          /\ k \in main'.subscribed <=> Added(h)
        <3>1. CASE ApplyAdded
            <4>1. main' = [Noted(h) EXCEPT !.removed = @ \ {k}, !.subscribed = @ \cup {k}]
                BY <2>1, <3>1 DEF ApplyAdded
            <4>2. main'.newest = w /\ main'.subscribed = main.subscribed \cup {k}
                BY <1>5, <2>5, <4>1 DEF Main
            <4>3. Added(h)
                BY <2>1, <3>1 DEF ApplyAdded, Applies, Taking, Added
            <4> QED BY <4>2, <4>3
        <3>2. CASE ApplyRemoved
            <4>1. main' = [Noted(h) EXCEPT !.removed = @ \cup {k}, !.subscribed = @ \ {k}]
                BY <2>1, <3>2 DEF ApplyRemoved
            <4>2. main'.newest = w /\ main'.subscribed = main.subscribed \ {k}
                BY <1>5, <2>5, <4>1 DEF Main
            <4>3. ~Added(h)
                BY <2>1, <3>2 DEF ApplyRemoved, Applies, Taking, Added
            <4> QED BY <4>2, <4>3
        <3> QED BY <1>7, <3>1, <3>2
    <2>7. ASSUME NEW c \in Channels
          PROVE  \/ c \notin DOMAIN main'.newest /\ (c \in main'.subscribed <=> c \in budget'.joined)
                 \/ /\ c \in DOMAIN main'.newest
                    /\ \E i \in Changes(c)' : Time(i)' = main'.newest[c]
                                              /\ (c \in main'.subscribed <=> Added(i)')
        <3>1. CASE c # k
            BY <1>3, <2>4, <2>6, <2>7, <3>1
        <3>2. CASE c = k
            BY <1>2, <2>2, <2>4, <2>6, <3>2
        <3> QED BY <3>1, <3>2
    <2> QED BY <2>7 DEF Follows
<1>8. UNCHANGED main \/ SkipNotification \/ ApplyAdded \/ ApplyRemoved
    <2>1. CASE RelayStep
        BY <2>1 DEF RelayStep, Publish, AddMember, RemoveMember, Archive, Restore, Tick, Store,
           ServeReq, DenyReq, ServeClose, RefuseReq, Reject, loopVars
    <2>2. CASE ClientStep
        BY <2>2 DEF ClientStep, ReceiveEvent, ReceiveClosed, ProactiveResubscribe, Resubscribe,
           Resubscribed, DrainCommand, RunCommand, LoseSocket, ReconnectCommand, DownCommand,
           Connect, GateExpires, DrainParked, loopVars
    <2>3. CASE MainStep \/ (\E ok \in BOOLEAN : WakeReturns(ok)) \/ AbortWake \/ Exit
        BY <2>3 DEF MainStep, TakeSentinel, TakeMessage, TurnSucceeds, TurnFails, Maintenance,
           RetryDeadline, RetryFires, WakePanics, TakeWakeResult, JoinWakeTask, Sleep, StopLoop,
           BackoffExpires, WakeReturns, AbortWake, Exit, LoopStep, loopVars
    <2> QED BY <2>1, <2>2, <2>3 DEF Next, vars
<1> QED BY <1>4, <1>6, <1>7, <1>8

LEMMA JoinedInit ==
    ASSUME \A s \in Scenarios : ~s.ties
    PROVE  Init => Joined
<1> SUFFICES ASSUME Init PROVE Joined
    OBVIOUS
<1> DEFINE J == budget.joined
           e == <<>>
<1>1. /\ relay = [clock |-> 0, log |-> e, members |-> J, archived |-> {}, cut |-> FALSE,
                  live |-> J \cup {"membership"}]
      /\ main = [subscribed |-> J, newest |-> e, seen |-> Unseen, removed |-> {}]
      /\ ~budget.ties
    BY DEF Init
<1>2. DOMAIN e = {}
    OBVIOUS
<1> HIDE DEF e
<1>3. /\ Ids = {} /\ relay.members = J /\ main.subscribed = J /\ main.newest = e
    BY ONLY <1>1, <1>2 DEF Ids, J
<1>4. \A c : Changes(c) = {}
    BY <1>3 DEF Changes
<1> QED BY <1>1, <1>2, <1>3, <1>4 DEF Joined, Ordered, Recorded, Follows

LEMMA JoinedAlways ==
    ASSUME \A s \in Scenarios : ~s.ties
    PROVE  Spec => [](Typed /\ Carried /\ Joined)
<1>1. Init => Typed /\ Carried /\ Remembered /\ Joined
    BY TypedInit, CarriedInit, JoinedInit
<1>2. Typed /\ Carried /\ Remembered /\ Joined /\ [Next]_vars
         => (Typed /\ Carried /\ Remembered /\ Joined)'
    <2> SUFFICES ASSUME Typed, Carried, Remembered, Joined, [Next]_vars
                 PROVE  (Typed /\ Carried /\ Remembered /\ Joined)'
        OBVIOUS
    <2>1. Typed' /\ Carried' /\ Remembered' /\ LogKept
        BY TypedStep, CarriedStep, LogKeptStep
    <2>2. Joined'
        BY <2>1, RecordedStep, FollowsStep DEF Joined
    <2> QED BY <2>1, <2>2
<1> QED BY <1>1, <1>2, PTL DEF Spec

\* The harness is subscribed to the channels it is a member of, however often
\* notifications were replayed, dropped and reordered, if two changes of one
\* membership never fall into one second.
THEOREM MembershipsAreFollowed ==
    ASSUME \A s \in Scenarios : ~s.ties
    PROVE  Spec => []SubscribedIffMember
<1>1. ASSUME Typed, Carried, Joined PROVE SubscribedIffMember
    <2> SUFFICES ASSUME Quiescent, NEW c \in Channels, ~Overtaken(c)
                 PROVE  c \in main.subscribed <=> c \in relay.members
        BY DEF SubscribedIffMember
    <2>1. CASE Changes(c) = {}
        BY <1>1, <2>1 DEF Joined, Recorded, Follows, Newest
    <2>2. CASE Changes(c) # {}
        <3>1. PICK i \in Newest(c) : c \in relay.members <=> Added(i)
            BY <1>1, <2>2 DEF Joined, Recorded
        <3>2. i \in Changes(c) /\ i \in Ids /\ ChannelOf(i) = c /\ Change(i)
              /\ \A j \in Changes(c) : j <= i
            BY <3>1 DEF Newest, Changes, Change
        <3>3. PICK t \in Nat : t = Time(i)
            BY <1>1, <3>2, StoredTimes
        <3>4. Sub(i) = "membership" /\ Steady("membership")
            BY <3>2 DEF Sub, SubOf, Change, Steady
        <3>5. /\ phase = "up" /\ ~bg.proactive /\ bg.parked = {}
              /\ ToSet(wire) = {} /\ ToSet(reqs) = {} /\ ToSet(eventq) = {}
            BY HeldNothing DEF Quiescent
        <3>6. ~OnWire(i) /\ ~Asked("membership", t) /\ ~Lost("membership") /\ ~Noticed("membership", t)
            BY <3>5 DEF OnWire, Asked, Lost, Pending, Bounced, Noticed
        <3>7. ~(relay.cut /\ Passed("membership", t))
            <4> SUFFICES ASSUME relay.cut, "membership" \in DOMAIN bg.lastSeen,
                                t + Skew < bg.lastSeen["membership"]
                         PROVE  FALSE
                BY DEF Passed
            <4>1. bg.lastSeen \in [DOMAIN bg.lastSeen -> Nat] /\ Skew \in Nat
                BY <1>1, MapsAre, RelayClientConstants DEF Typed, ClientTyped, BgSound, Bg
            <4>2. PICK l \in Nat : l = bg.lastSeen["membership"]
                BY <4>1
            <4>3. t < l - Skew /\ l \in At(bg.lastSeen, "membership")
                BY <4>1, <4>2 DEF At
            <4> QED BY <3>1, <3>3, <4>2, <4>3 DEF Overtaken, Time
        <3>8. Heeded(i)
            <4>1. Reached(i)
                BY <1>1, <3>2, <3>3, <3>4, <3>6, <3>7 DEF Carried, Flows, Missing
            <4> QED BY <3>2, <3>5, <4>1 DEF Reached
        <3>9. PICK j \in Changes(c) : Time(j) = main.newest[c] /\ (c \in main.subscribed <=> Added(j))
            BY <1>1, <3>2, <3>8 DEF Heeded, Joined, Follows
        <3>10. j = i
            <4>1. j <= i /\ j \in Ids /\ Time(j) \in Nat /\ Time(j) >= Time(i)
                BY <1>1, <3>2, <3>8, <3>9, StoredTimes DEF Heeded, Changes
            <4>2. ~(j < i)
                BY <1>1, <3>2, <3>3, <3>9, <4>1 DEF Joined, Ordered
            <4>3. i \in Nat /\ j \in Nat
                BY <1>1, <3>2, <4>1, StoredTimes
            <4> QED BY <4>1, <4>2, <4>3
        <3> QED BY <3>1, <3>9, <3>10
    <2> QED BY <2>1, <2>2
<1> QED BY <1>1, JoinedAlways, PTL

=============================================================================
