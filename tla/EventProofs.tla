------------------------------- MODULE EventProofs -------------------------------
(***************************************************************************)
(* Where the events of the harness are, proved for every pool, every set   *)
(* of channels and every bound: an event waits in one place only, a        *)
(* withheld event has its steer, a steered one is not delivered again.     *)
(***************************************************************************)
EXTENDS PoolProofs, FiniteSetTheorems

-----------------------------------------------------------------------------
(* Sequences without repetition *)

\* No arrival number occurs twice in a sequence of events.
Distinct(s) == \A i, j \in DOMAIN s : s[i].id = s[j].id => i = j

\* No event of one set has the arrival number of an event of the other.
Apart(S, T) == \A e \in S : \A f \in T : e.id # f.id

\* The empty sequence holds nothing.
LEMMA EmptyItems == Distinct(<<>>) /\ Items(<<>>) = {}
BY DEF Distinct, Items

\* The events of a sequence are events.
LEMMA ItemsType ==
    ASSUME NEW s \in Seq(Event)
    PROVE  Items(s) \subseteq Event
BY LenProperties, ElementOfSeq DEF Items

\* A part of a sequence without repetition has none, and holds part of its events.
LEMMA SubSeqDistinct ==
    ASSUME NEW s \in Seq(Event), NEW m \in Nat \ {0}, NEW n \in Int, n <= Len(s)
    PROVE  /\ Items(SubSeq(s, m, n)) = {s[i] : i \in m..n}
           /\ Items(SubSeq(s, m, n)) \subseteq Items(s)
           /\ Distinct(s) => Distinct(SubSeq(s, m, n))
<1> DEFINE u == SubSeq(s, m, n)
<1>1. DOMAIN s = 1..Len(s) /\ Len(s) \in Nat
  BY LenProperties
<1>2. \A i \in m..n : s[i] \in Event
  BY <1>1, ElementOfSeq
<1>3. /\ u \in Seq(Event)
      /\ Len(u) = IF m <= n THEN n - m + 1 ELSE 0
      /\ \A i \in 1..(n - m + 1) : u[i] = s[m + i - 1]
  BY <1>2, SubSeqProperties
<1>4. DOMAIN u = 1..Len(u)
  BY <1>3, LenProperties
<1> HIDE DEF u
<1>5. \A i \in DOMAIN u : u[i] = s[m + i - 1] /\ m + i - 1 \in m..n /\ m + i - 1 \in DOMAIN s
  BY <1>1, <1>3, <1>4
<1>6. \A k \in m..n : k - m + 1 \in DOMAIN u /\ u[k - m + 1] = s[k]
  <2> SUFFICES ASSUME NEW k \in m..n PROVE k - m + 1 \in DOMAIN u /\ u[k - m + 1] = s[k]
    OBVIOUS
  <2>1. k - m + 1 \in 1..(n - m + 1) /\ m + (k - m + 1) - 1 = k
    OBVIOUS
  <2> QED
    BY <1>3, <1>4, <2>1
<1>7. Items(u) = {s[i] : i \in m..n}
  BY <1>5, <1>6 DEF Items
<1>8. Items(u) \subseteq Items(s)
  BY <1>5 DEF Items
<1>9. Distinct(s) => Distinct(u)
  BY <1>1, <1>4, <1>5 DEF Distinct
<1> QED
  BY <1>7, <1>8, <1>9 DEF u

\* A sequence cut in two: the parts hold all its events, and share none.
LEMMA SplitItems ==
    ASSUME NEW s \in Seq(Event), NEW n \in Int, 0 <= n, n <= Len(s)
    PROVE  /\ Items(s) = Items(SubSeq(s, 1, n)) \cup Items(SubSeq(s, n + 1, Len(s)))
           /\ Distinct(s) => Apart(Items(SubSeq(s, 1, n)), Items(SubSeq(s, n + 1, Len(s))))
<1>1. DOMAIN s = 1..Len(s) /\ Len(s) \in Nat
  BY LenProperties
<1>2. Items(SubSeq(s, 1, n)) = {s[i] : i \in 1..n}
  <2>1. 1 \in Nat \ {0} /\ n \in Int /\ n <= Len(s)
    OBVIOUS
  <2> QED
    BY <2>1, SubSeqDistinct
<1>3. Items(SubSeq(s, n + 1, Len(s))) = {s[i] : i \in (n + 1)..Len(s)}
  <2>1. n + 1 \in Nat \ {0} /\ Len(s) \in Int /\ Len(s) <= Len(s)
    BY <1>1
  <2> QED
    BY <2>1, SubSeqDistinct
<1>4. 1..Len(s) = 1..n \cup (n + 1)..Len(s)
  BY <1>1
<1>5. Items(s) = {s[i] : i \in 1..n} \cup {s[i] : i \in (n + 1)..Len(s)}
  BY <1>1, <1>4 DEF Items
<1>6. ASSUME Distinct(s) PROVE Apart({s[i] : i \in 1..n}, {s[i] : i \in (n + 1)..Len(s)})
  BY <1>1, <1>6 DEF Distinct, Apart
<1> QED
  BY <1>2, <1>3, <1>5, <1>6

\* Two sequences put one after the other.
LEMMA ConcatDistinct ==
    ASSUME NEW s \in Seq(Event), NEW t \in Seq(Event)
    PROVE  /\ Items(s \o t) = Items(s) \cup Items(t)
           /\ Distinct(s) /\ Distinct(t) /\ Apart(Items(s), Items(t)) => Distinct(s \o t)
<1> DEFINE u == s \o t
           m == Len(s)
           n == Len(t)
<1>1. DOMAIN s = 1..m /\ DOMAIN t = 1..n /\ m \in Nat /\ n \in Nat
  BY LenProperties
<1>2. /\ u \in Seq(Event)
      /\ Len(u) = m + n
      /\ \A i \in 1..(m + n) : u[i] = IF i <= m THEN s[i] ELSE t[i - m]
  BY ConcatProperties
<1>3. DOMAIN u = 1..(m + n)
  BY <1>2, LenProperties
<1> HIDE DEF u, m, n
<1>4. \A i \in DOMAIN u : \/ i \in DOMAIN s /\ u[i] = s[i]
                          \/ i - m \in DOMAIN t /\ u[i] = t[i - m]
  BY <1>1, <1>2, <1>3
<1>5. \A i \in DOMAIN s : i \in DOMAIN u /\ u[i] = s[i]
  BY <1>1, <1>2, <1>3
<1>6. \A i \in DOMAIN t : i + m \in DOMAIN u /\ u[i + m] = t[i]
  <2> SUFFICES ASSUME NEW i \in DOMAIN t PROVE i + m \in DOMAIN u /\ u[i + m] = t[i]
    OBVIOUS
  <2>1. i + m \in 1..(m + n) /\ ~(i + m <= m) /\ (i + m) - m = i
    BY <1>1
  <2> QED
    BY <1>2, <1>3, <2>1
<1>7. Items(u) = Items(s) \cup Items(t)
  BY <1>4, <1>5, <1>6 DEF Items
<1>8. ASSUME Distinct(s), Distinct(t), Apart(Items(s), Items(t)) PROVE Distinct(u)
  <2> SUFFICES ASSUME NEW i \in DOMAIN u, NEW j \in DOMAIN u, u[i].id = u[j].id
               PROVE  i = j
    BY DEF Distinct
  <2>1. \A k \in DOMAIN s : s[k] \in Items(s)
    BY DEF Items
  <2>2. \A k \in DOMAIN t : t[k] \in Items(t)
    BY DEF Items
  <2>3. i \in Int /\ j \in Int
    BY <1>1, <1>3
  <2>4. CASE i \in DOMAIN s /\ u[i] = s[i]
    <3>1. CASE j \in DOMAIN s /\ u[j] = s[j]
      BY <1>8, <2>4, <3>1 DEF Distinct
    <3>2. CASE j - m \in DOMAIN t /\ u[j] = t[j - m]
      BY <1>8, <2>1, <2>2, <2>4, <3>2 DEF Apart
    <3> QED
      BY <1>4, <3>1, <3>2
  <2>5. CASE i - m \in DOMAIN t /\ u[i] = t[i - m]
    <3>1. CASE j \in DOMAIN s /\ u[j] = s[j]
      BY <1>8, <2>1, <2>2, <2>5, <3>1 DEF Apart
    <3>2. CASE j - m \in DOMAIN t /\ u[j] = t[j - m]
      <4>1. i - m = j - m
        BY <1>8, <2>5, <3>2 DEF Distinct
      <4> QED
        BY <1>1, <2>3, <4>1
    <3> QED
      BY <1>4, <3>1, <3>2
  <2> QED
    BY <1>4, <2>4, <2>5
<1> QED
  BY <1>7, <1>8 DEF u

\* One position is removed: exactly its event goes.
LEMMA DropAtDistinct ==
    ASSUME NEW s \in Seq(Event), NEW k \in DOMAIN s, Distinct(s)
    PROVE  /\ Items(DropAt(s, k)) = Items(s) \ {s[k]}
           /\ Distinct(DropAt(s, k))
<1>1. DOMAIN s = 1..Len(s) /\ Len(s) \in Nat /\ k \in 1..Len(s)
  BY LenProperties
<1> DEFINE u == SubSeq(s, 1, k - 1)
           v == SubSeq(s, k + 1, Len(s))
<1>2. u \in Seq(Event) /\ v \in Seq(Event)
  BY <1>1, SubSeqInside
<1>3. Items(u) = {s[i] : i \in 1..(k - 1)} /\ Distinct(u)
  <2>1. 1 \in Nat \ {0} /\ k - 1 \in Int /\ k - 1 <= Len(s)
    BY <1>1
  <2> QED
    BY <2>1, SubSeqDistinct
<1>4. Items(v) = {s[i] : i \in (k + 1)..Len(s)} /\ Distinct(v)
  <2>1. k + 1 \in Nat \ {0} /\ Len(s) \in Int /\ Len(s) <= Len(s)
    BY <1>1
  <2> QED
    BY <2>1, SubSeqDistinct
<1>5. DropAt(s, k) = u \o v
  BY DEF DropAt
<1> HIDE DEF u, v
<1>6. Apart(Items(u), Items(v))
  BY <1>1, <1>3, <1>4 DEF Apart, Distinct
<1>7. Items(u \o v) = Items(u) \cup Items(v) /\ Distinct(u \o v)
  BY <1>2, <1>3, <1>4, <1>6, ConcatDistinct
<1>8. Items(u) \cup Items(v) = {s[i] : i \in DOMAIN s \ {k}}
  <2>1. DOMAIN s \ {k} = 1..(k - 1) \cup (k + 1)..Len(s)
    BY <1>1
  <2> QED
    BY <1>3, <1>4, <2>1
<1>9. {s[i] : i \in DOMAIN s \ {k}} = Items(s) \ {s[k]}
  BY DEF Items, Distinct
<1> QED
  BY <1>5, <1>7, <1>8, <1>9

\* retain and remove by id take exactly the event they name.
LEMMA DropEventDistinct ==
    ASSUME NEW s \in Seq(Event), NEW e, Distinct(s)
    PROVE  /\ Items(DropEvent(s, e)) = Items(s) \ {e}
           /\ Distinct(DropEvent(s, e))
<1>1. CASE \E i \in DOMAIN s : s[i] = e
  <2> DEFINE k == CHOOSE i \in DOMAIN s : s[i] = e
  <2>1. k \in DOMAIN s /\ s[k] = e
    BY <1>1
  <2>2. DropEvent(s, e) = DropAt(s, k)
    BY <1>1 DEF DropEvent
  <2> HIDE DEF k
  <2> QED
    BY <2>1, <2>2, DropAtDistinct
<1>2. CASE ~\E i \in DOMAIN s : s[i] = e
  BY <1>2 DEF DropEvent, Items
<1> QED
  BY <1>1, <1>2

\* What is put back at the front is kept before what waited; the overflow of the
\* cap is exactly what is missing.
LEMMA PushFrontItems ==
    ASSUME NEW s \in Seq(Event), NEW evs \in Seq(Event)
    PROVE  /\ Items(PushFront(s, evs)) \cup Overflow(s, evs) = Items(s) \cup Items(evs)
           /\ Distinct(s) /\ Distinct(evs) /\ Apart(Items(evs), Items(s))
                => Distinct(PushFront(s, evs))
<1> DEFINE t == evs \o s
           n == Least(MaxPending, Len(t))
<1>1. t \in Seq(Event) /\ Items(t) = Items(evs) \cup Items(s)
  BY ConcatProperties, ConcatDistinct
<1>2. Distinct(s) /\ Distinct(evs) /\ Apart(Items(evs), Items(s)) => Distinct(t)
  BY ConcatDistinct
<1>3. PushFront(s, evs) = SubSeq(t, 1, n)
  BY DEF PushFront
<1>4. Overflow(s, evs) = Items(SubSeq(t, MaxPending + 1, Len(t)))
  BY DEF Overflow
<1> HIDE DEF t
<1>5. Len(t) \in Nat /\ MaxPending \in Nat
  BY <1>1, LenProperties, QueueConstants
<1>6. n \in Int /\ 0 <= n /\ n <= Len(t)
  BY <1>5 DEF Least
<1>7. SubSeq(t, MaxPending + 1, Len(t)) = SubSeq(t, n + 1, Len(t))
  <2>1. CASE MaxPending < Len(t)
    BY <1>5, <2>1 DEF Least
  <2>2. CASE ~(MaxPending < Len(t))
    <3>1. n = Len(t)
      BY <1>5, <2>2 DEF Least
    <3>2. SubSeq(t, n + 1, Len(t)) = <<>>
      BY <1>5, <3>1, SubSeqEmpty
    <3>3. SubSeq(t, MaxPending + 1, Len(t)) = <<>>
      BY <1>5, <2>2, SubSeqEmpty
    <3> QED
      BY <3>2, <3>3
  <2> QED
    BY <2>1, <2>2
<1> HIDE DEF n
<1>8. Items(t) = Items(SubSeq(t, 1, n)) \cup Items(SubSeq(t, n + 1, Len(t)))
  BY <1>1, <1>6, SplitItems
<1>9. Distinct(t) => Distinct(SubSeq(t, 1, n))
  BY <1>1, <1>6, SubSeqDistinct
<1> QED
  BY <1>1, <1>2, <1>3, <1>4, <1>7, <1>8, <1>9

\* The first event put back stays: the cap leaves room for one.
LEMMA PushFrontHead ==
    ASSUME NEW s \in Seq(Event), NEW e \in Event
    PROVE  e \in Items(PushFront(s, <<e>>))
<1> DEFINE t == <<e>> \o s
           n == Least(MaxPending, Len(t))
<1>1. <<e>> \in Seq(Event) /\ Len(<<e>>) = 1 /\ <<e>>[1] = e
  OBVIOUS
<1>2. t \in Seq(Event) /\ Len(t) = 1 + Len(s) /\ t[1] = e /\ Len(s) \in Nat
  BY <1>1, ConcatProperties, LenProperties
<1>3. PushFront(s, <<e>>) = SubSeq(t, 1, n)
  BY DEF PushFront
<1> HIDE DEF t
<1>4. n \in Int /\ 1 <= n /\ n <= Len(t)
  BY <1>2, QueueConstants DEF Least
<1>5. Items(SubSeq(t, 1, n)) = {t[i] : i \in 1..n}
  BY <1>2, <1>4, SubSeqDistinct
<1>6. 1 \in 1..n
  BY <1>4
<1> QED
  BY <1>2, <1>3, <1>5, <1>6

\* An event appended.
LEMMA AppendDistinct ==
    ASSUME NEW s \in Seq(Event), NEW e \in Event
    PROVE  /\ Items(Append(s, e)) = Items(s) \cup {e}
           /\ Distinct(s) /\ Apart(Items(s), {e}) => Distinct(Append(s, e))
<1>1. Append(s, e) = s \o <<e>> /\ <<e>> \in Seq(Event)
  BY AppendIsConcat
<1>2. DOMAIN <<e>> = {1} /\ <<e>>[1] = e
  OBVIOUS
<1>3. Items(<<e>>) = {e} /\ Distinct(<<e>>)
  BY <1>2 DEF Items, Distinct
<1> QED
  BY <1>1, <1>3, ConcatDistinct

\* One event alone.
LEMMA SingleItems ==
    ASSUME NEW e
    PROVE  Items(<<e>>) = {e} /\ Distinct(<<e>>)
<1>1. DOMAIN <<e>> = {1} /\ <<e>>[1] = e
  OBVIOUS
<1> QED
  BY <1>1 DEF Items, Distinct

\* A sorted batch holds exactly the events that were drained: the order is a
\* permutation, for it names as many positions as there are.
LEMMA SortedItems ==
    ASSUME NEW s \in Seq(Event), NEW t \in SortedByCreated(s)
    PROVE  /\ Items(t) = Items(s)
           /\ Distinct(s) => Distinct(t)
<1>1. DOMAIN s = 1..Len(s) /\ Len(s) \in Nat
  BY LenProperties
<1>2. PICK p \in [DOMAIN s -> DOMAIN s] :
        /\ \A i, j \in DOMAIN s : p[i] = p[j] => i = j
        /\ t = [i \in DOMAIN s |-> s[p[i]]]
  BY DEF SortedByCreated, StablyOrders
<1>3. p \in Injection(DOMAIN s, DOMAIN s)
  BY <1>2 DEF Injection, IsInjective
<1>4. IsFiniteSet(DOMAIN s)
  BY <1>1, FS_Interval
<1>5. p \in Surjection(DOMAIN s, DOMAIN s)
  BY <1>3, <1>4, FS_Injection
<1>6. \A k \in DOMAIN s : \E i \in DOMAIN s : p[i] = k
  BY <1>5 DEF Surjection
<1>7. DOMAIN t = DOMAIN s /\ \A i \in DOMAIN s : t[i] = s[p[i]] /\ p[i] \in DOMAIN s
  BY <1>2
<1>8. Items(t) = Items(s)
  BY <1>6, <1>7 DEF Items
<1>9. Distinct(s) => Distinct(t)
  BY <1>2, <1>7 DEF Distinct
<1> QED
  BY <1>8, <1>9

-----------------------------------------------------------------------------
(* The places of a queue and of the turns *)

\* What a channel holds.
ChannelItems(q, c) == Items(q.queues[c]) \cup Items(q.cancelled[c]) \cup Items(q.withheld[c])

\* A channel holds no event twice.
ChannelSound(q, c) ==
    /\ Distinct(q.queues[c]) /\ Distinct(q.cancelled[c]) /\ Distinct(q.withheld[c])
    /\ Apart(Items(q.queues[c]), Items(q.cancelled[c]))
    /\ Apart(Items(q.queues[c]), Items(q.withheld[c]))
    /\ Apart(Items(q.cancelled[c]), Items(q.withheld[c]))

\* Nor does a batch.
BatchSound(b) ==
    /\ Distinct(b.events) /\ Distinct(b.cancelled)
    /\ Apart(Items(b.events), Items(b.cancelled))

\* Two queues that hold the same events in the same places.
SameEvents(q, r) ==
    /\ r.queues = q.queues /\ r.cancelled = q.cancelled /\ r.withheld = q.withheld

\* The methods that keep clocks and counters move no event.
LEMMA MethodsSameEvents ==
    ASSUME NEW q \in QueueState, NEW c \in Channels
    PROVE  /\ SameEvents(q, MarkComplete(q, c))
           /\ SameEvents(q, ExtendDeadline(q, c))
           /\ SameEvents(q, TakeFlight(q, c))
           /\ SameEvents(q, CompactExpiredState(q))
<1>1. SameEvents(q, MarkComplete(q, c))
  BY DEF SameEvents, QueueState, MarkComplete
<1>2. SameEvents(q, ExtendDeadline(q, c))
  BY DEF SameEvents, QueueState, ExtendDeadline
<1>3. SameEvents(q, TakeFlight(q, c))
  BY DEF SameEvents, QueueState, TakeFlight
<1>4. SameEvents(q, CompactExpiredState(q))
  BY DEF SameEvents, QueueState, CompactExpiredState
<1> QED
  BY <1>1, <1>2, <1>3, <1>4

\* The channels other than c hold the same in both queues.
OthersSame(q, r, c) ==
    \A d \in Channels \ {c} : /\ r.queues[d] = q.queues[d]
                              /\ r.cancelled[d] = q.cancelled[d]
                              /\ r.withheld[d] = q.withheld[d]

\* What an outcome of flush_next does with the events: nothing, or it takes part
\* of what one channel has queued or kept as cancelled, and loses none of it.
FlushMoves(q, out) ==
    \/ out.batch = NoBatch /\ out.queue = q
    \/ /\ out.batch.channel \in Channels
       /\ OthersSame(q, out.queue, out.batch.channel)
       /\ out.queue.withheld = q.withheld
       /\ Items(out.queue.queues[out.batch.channel]) \subseteq
             Items(q.queues[out.batch.channel])
       /\ Items(out.queue.cancelled[out.batch.channel]) \subseteq
             Items(q.cancelled[out.batch.channel])
       /\ ChannelSound(out.queue, out.batch.channel)
       /\ BatchSound(out.batch)
       /\ Apart(ChannelItems(out.queue, out.batch.channel), BatchItems(out.batch))
       /\ ChannelItems(q, out.batch.channel) =
             ChannelItems(out.queue, out.batch.channel) \cup BatchItems(out.batch)

\* The three kinds of batch share this argument: u and v stay of the queue and of
\* the cancelled events, x and y are taken from them.
LEMMA TakenMoves ==
    ASSUME NEW q \in QueueState, NEW c \in Channels, ChannelSound(q, c),
           NEW u, NEW v, NEW x, NEW y,
           Distinct(u), Distinct(v), Distinct(x), Distinct(y),
           Apart(Items(u), Items(x)), Apart(Items(u), Items(y)), Apart(Items(v), Items(x)),
           Apart(Items(v), Items(y)), Apart(Items(x), Items(y)),
           Items(u) \subseteq Items(q.queues[c]),
           Items(v) \subseteq Items(q.cancelled[c]),
           Items(q.queues[c]) \cup Items(q.cancelled[c]) =
             Items(u) \cup Items(v) \cup Items(x) \cup Items(y),
           NEW out,
           out.queue.queues[c] = u, out.queue.cancelled[c] = v,
           out.queue.withheld = q.withheld, OthersSame(q, out.queue, c),
           out.batch.channel = c, out.batch.events = x, out.batch.cancelled = y
    PROVE  FlushMoves(q, out)
<1> DEFINE w == q.withheld[c]
<1>3. Apart(Items(u), Items(w)) /\ Apart(Items(v), Items(w)) /\ Apart(Items(u), Items(v))
      /\ Distinct(w)
  BY DEF ChannelSound, Apart
<1>4. ChannelSound(out.queue, c)
  BY <1>3 DEF ChannelSound
<1>5. BatchSound(out.batch) /\ BatchItems(out.batch) = Items(x) \cup Items(y)
  BY DEF BatchSound, BatchItems
<1>6. ChannelItems(out.queue, c) = Items(u) \cup Items(v) \cup Items(w)
  BY DEF ChannelItems
<1>7. \A f \in Items(x) \cup Items(y) : f \in Items(q.queues[c]) \cup Items(q.cancelled[c])
  OBVIOUS
<1>8. Apart(Items(w), Items(x) \cup Items(y))
  BY <1>7 DEF ChannelSound, Apart
<1>9. Apart(Items(u) \cup Items(v) \cup Items(w), Items(x) \cup Items(y))
  BY <1>8 DEF Apart
<1>10. ChannelItems(q, c) = Items(u) \cup Items(v) \cup Items(w) \cup (Items(x) \cup Items(y))
  BY DEF ChannelItems
<1> QED
  BY <1>4, <1>5, <1>6, <1>9, <1>10 DEF FlushMoves

\* A recovered scoped request is taken out of the cancelled events.
LEMMA FlushScopedMoves ==
    ASSUME NEW q, QueueOK(q), NEW c \in ScopedRecoverable(q), ChannelSound(q, c)
    PROVE  FlushMoves(q, FlushScoped(q, c))
<1> DEFINE s == q.cancelled[c]
           k == FirstScoped(s)
           u == q.queues[c]
           v == DropAt(s, k)
           x == <<s[k]>>
           y == <<>>
           out == FlushScoped(q, c)
<1>1. c \in Channels /\ HasScoped(s) /\ q \in QueueState
  BY DEF ScopedRecoverable, QueueOK
<1>2. s \in Seq(Event) /\ u \in Seq(Event)
  BY <1>1, FieldTypes
<1>3. k \in DOMAIN s
  BY <1>1, <1>2, FirstScopedType
<1>4. s[k] \in Items(s)
  BY <1>3 DEF Items
<1>5. /\ out.queue.queues[c] = u /\ out.queue.cancelled[c] = v
      /\ out.queue.withheld = q.withheld /\ OthersSame(q, out.queue, c)
  <2> HIDE DEF k
  <2> QED
    BY <1>1 DEF FlushScoped, TakeFlight, QueueState, OthersSame, k
<1>6. out.batch.channel = c /\ out.batch.events = x /\ out.batch.cancelled = y
  BY DEF FlushScoped
<1> HIDE DEF out, k
<1>7. Items(v) = Items(s) \ {s[k]} /\ Distinct(v)
  BY <1>2, <1>3, DropAtDistinct DEF ChannelSound
<1>8. Items(x) = {s[k]} /\ Distinct(x) /\ Items(y) = {} /\ Distinct(y)
  BY SingleItems, EmptyItems
<1>9. Distinct(u) /\ Apart(Items(u), Items(s))
  BY DEF ChannelSound
<1>10. Apart(Items(v), {s[k]})
  BY <1>3, <1>7 DEF ChannelSound, Distinct, Items, Apart
<1> HIDE DEF s, u, v, x, y
<1>11. Apart(Items(u), Items(x)) /\ Apart(Items(u), Items(y)) /\ Apart(Items(v), Items(x))
       /\ Apart(Items(v), Items(y)) /\ Apart(Items(x), Items(y))
  BY <1>4, <1>8, <1>9, <1>10 DEF Apart
<1>12. Items(u) \cup Items(s) = Items(u) \cup Items(v) \cup Items(x) \cup Items(y)
       /\ Items(v) \subseteq Items(s)
  BY <1>4, <1>7, <1>8
<1> QED
  BY <1>1, <1>5, <1>6, <1>7, <1>8, <1>9, <1>11, <1>12, TakenMoves DEF s, u, out

\* A cancelled batch that is dispatched again is taken whole.
LEMMA FlushCancelledMoves ==
    ASSUME NEW q, QueueOK(q), NEW c \in CancelledIdle(q), ChannelSound(q, c)
    PROVE  FlushMoves(q, FlushCancelled(q, c))
<1> DEFINE x == q.cancelled[c]
           u == q.queues[c]
           v == <<>>
           y == <<>>
           out == FlushCancelled(q, c)
<1>1. c \in Channels /\ q \in QueueState
  BY DEF CancelledIdle, QueueOK
<1>2. /\ out.queue.queues[c] = u /\ out.queue.cancelled[c] = v
      /\ out.queue.withheld = q.withheld /\ OthersSame(q, out.queue, c)
  BY <1>1 DEF FlushCancelled, TakeFlight, QueueState, OthersSame
<1>3. out.batch.channel = c /\ out.batch.events = x /\ out.batch.cancelled = y
  BY DEF FlushCancelled
<1> HIDE DEF out
<1>4. Items(v) = {} /\ Distinct(v) /\ Items(y) = {} /\ Distinct(y)
  BY EmptyItems
<1>5. Distinct(u) /\ Distinct(x) /\ Apart(Items(u), Items(x))
  BY DEF ChannelSound
<1> HIDE DEF u, v, x, y
<1>6. Apart(Items(u), Items(y)) /\ Apart(Items(v), Items(x))
       /\ Apart(Items(v), Items(y)) /\ Apart(Items(x), Items(y))
  BY <1>4 DEF Apart
<1>7. Items(u) \cup Items(x) = Items(u) \cup Items(v) \cup Items(x) \cup Items(y)
      /\ Items(v) \subseteq Items(x)
  BY <1>4
<1> QED
  BY <1>1, <1>2, <1>3, <1>4, <1>5, <1>6, <1>7, TakenMoves DEF u, x, out

\* A drained batch is cut from the front of the queue; the cancelled events are
\* merged into it whole, or left where they are.
LEMMA FlushQueuedMoves ==
    ASSUME NEW q, QueueOK(q), NEW c \in Candidates(q), NEW out \in FlushQueued(q, c),
           ChannelSound(q, c)
    PROVE  FlushMoves(q, out)
<1> DEFINE s == q.queues[c]
           n == DrainCount(s)
           taken == SubSeq(s, 1, n)
           u == SubSeq(s, n + 1, Len(s))
           k == q.cancelled[c]
           none == <<>>
<1>1. c \in Channels /\ q \in QueueState /\ s # <<>>
  BY DEF Candidates, QueueOK
<1>2. s \in Seq(Event) /\ Len(s) \in Nat
  BY <1>1, FieldTypes, LenProperties
<1>3. n \in 1..Len(s)
  BY <1>1, <1>2, DrainCountType
<1>4. Distinct(s) /\ Distinct(k) /\ Apart(Items(s), Items(k))
  BY DEF ChannelSound
<1>5. PICK evs \in SortedByCreated(taken), v \in {none, k}, y \in {none, k} :
        /\ (v = k /\ y = none) \/ (v = none /\ y = k)
        /\ out.queue.queues[c] = u /\ out.queue.cancelled[c] = v
        /\ out.queue.withheld = q.withheld /\ OthersSame(q, out.queue, c)
        /\ out.batch.channel = c /\ out.batch.events = evs /\ out.batch.cancelled = y
  <2> DEFINE left == [q EXCEPT !.queues[c] = u]
             merged == [left EXCEPT !.cancelled[c] = none, !.cancelReasons[c] = "none"]
             reason == IF q.cancelled[c] = <<>> THEN "none" ELSE q.cancelReasons[c]
  <2>1. CASE HasScoped(taken)
    <3>1. PICK evs \in SortedByCreated(taken) :
            out = [queue |-> TakeFlight(left, c),
                   batch |-> [channel |-> c, events |-> evs, cancelled |-> <<>>,
                              reason |-> "none"]]
      BY <2>1 DEF FlushQueued
    <3> HIDE DEF u, taken
    <3>2. /\ out.queue.queues[c] = u /\ out.queue.cancelled[c] = k
          /\ out.queue.withheld = q.withheld /\ OthersSame(q, out.queue, c)
      BY <1>1, <3>1 DEF TakeFlight, QueueState, OthersSame
    <3>3. out.batch.channel = c /\ out.batch.events = evs /\ out.batch.cancelled = none
      BY <3>1
    <3> HIDE DEF none, k
    <3> QED
      BY <3>2, <3>3
  <2>2. CASE ~HasScoped(taken)
    <3>1. PICK evs \in SortedByCreated(taken) :
            out = [queue |-> TakeFlight(merged, c),
                   batch |-> [channel |-> c, events |-> evs, cancelled |-> q.cancelled[c],
                              reason |-> reason]]
      BY <2>2 DEF FlushQueued
    <3> HIDE DEF u, taken, reason
    <3>2. /\ out.queue.queues[c] = u /\ out.queue.cancelled[c] = none
          /\ out.queue.withheld = q.withheld /\ OthersSame(q, out.queue, c)
      BY <1>1, <3>1 DEF TakeFlight, QueueState, OthersSame
    <3>3. out.batch.channel = c /\ out.batch.events = evs /\ out.batch.cancelled = k
      BY <3>1
    <3> HIDE DEF none, k
    <3> QED
      BY <3>2, <3>3
  <2> QED
    BY <2>1, <2>2
<1>6. taken \in Seq(Event) /\ Distinct(taken) /\ Distinct(u)
      /\ Items(s) = Items(taken) \cup Items(u) /\ Apart(Items(taken), Items(u))
  <2> HIDE DEF n, s
  <2>1. taken \in Seq(Event)
    BY <1>2, <1>3, SubSeqInside
  <2>2. Distinct(taken)
    <3>1. 1 \in Nat \ {0} /\ n \in Int /\ n <= Len(s)
      BY <1>2, <1>3
    <3> QED
      BY <1>2, <1>4, <3>1, SubSeqDistinct
  <2>3. Distinct(u)
    <3>1. n + 1 \in Nat \ {0} /\ Len(s) \in Int /\ Len(s) <= Len(s)
      BY <1>2, <1>3
    <3> QED
      BY <1>2, <1>4, <3>1, SubSeqDistinct
  <2>4. n \in Int /\ 0 <= n /\ n <= Len(s)
    BY <1>2, <1>3
  <2> QED
    BY <1>2, <1>4, <2>1, <2>2, <2>3, <2>4, SplitItems
<1>7. Items(none) = {} /\ Distinct(none)
  BY EmptyItems
<1> HIDE DEF s, n, taken, u, k, none
<1>8. Items(evs) = Items(taken) /\ Distinct(evs)
  BY <1>6, SortedItems
<1>9. Distinct(v) /\ Distinct(y) /\ Apart(Items(v), Items(y)) /\ Items(k) = Items(v) \cup Items(y)
  BY <1>4, <1>5, <1>7 DEF Apart
<1>10. Apart(Items(u), Items(evs)) /\ Apart(Items(u), Items(y)) /\ Apart(Items(v), Items(evs))
       /\ Apart(Items(evs), Items(y))
  BY <1>4, <1>6, <1>8, <1>9 DEF Apart
<1>11. /\ Items(s) \cup Items(k) = Items(u) \cup Items(v) \cup Items(evs) \cup Items(y)
       /\ Items(u) \subseteq Items(s) /\ Items(v) \subseteq Items(k)
  BY <1>6, <1>8, <1>9
<1> QED
  BY <1>1, <1>5, <1>6, <1>8, <1>9, <1>10, <1>11, TakenMoves DEF s, k

\* The expiry block puts withheld events back in front of their queue, and drops
\* what does not fit.
LEMMA ExpireMoves ==
    ASSUME NEW q, QueueOK(q), NEW c \in Channels, ChannelSound(q, c)
    PROVE  /\ ChannelSound(ExpireInFlight(q), c)
           /\ ChannelItems(ExpireInFlight(q), c) \subseteq ChannelItems(q, c)
           /\ ChannelItems(q, c) \subseteq
                ChannelItems(ExpireInFlight(q), c) \cup ExpiryEvicts(q)
           /\ Items(ExpireInFlight(q).withheld[c]) \subseteq Items(q.withheld[c])
           /\ ExpireInFlight(q).cancelled = q.cancelled
<1> DEFINE x == ExpireInFlight(q)
           s == q.queues[c]
           w == q.withheld[c]
<1>1. q \in QueueState /\ s \in Seq(Event) /\ w \in Seq(Event)
  BY FieldTypes DEF QueueOK
<1>2. x.cancelled = q.cancelled
  BY <1>1 DEF ExpireInFlight, QueueState
<1>3. x.queues[c] = IF c \in Expired(q) /\ w # <<>> THEN PushFront(s, w) ELSE s
  BY <1>1 DEF ExpireInFlight, QueueState
<1>4. x.withheld[c] = IF c \in Expired(q) THEN <<>> ELSE w
  BY <1>1 DEF ExpireInFlight, QueueState
<1> HIDE DEF x
<1>5. CASE c \notin Expired(q)
  BY <1>2, <1>3, <1>4, <1>5 DEF ChannelSound, ChannelItems, x
<1>6. CASE c \in Expired(q) /\ w = <<>>
  BY <1>2, <1>3, <1>4, <1>6 DEF ChannelSound, ChannelItems, x
<1>7. CASE c \in Expired(q) /\ w # <<>>
  <2>1. x.queues[c] = PushFront(s, w) /\ x.withheld[c] = <<>>
    BY <1>3, <1>4, <1>7
  <2>2. Distinct(s) /\ Distinct(w) /\ Apart(Items(w), Items(s))
    BY DEF ChannelSound, Apart
  <2>3. Items(PushFront(s, w)) \cup Overflow(s, w) = Items(s) \cup Items(w)
        /\ Distinct(PushFront(s, w))
    BY <1>1, <2>2, PushFrontItems
  <2>4. Overflow(s, w) \subseteq ExpiryEvicts(q)
    BY <1>7 DEF ExpiryEvicts
  <2> HIDE DEF s, w
  <2>5. ChannelSound(x, c)
    BY <1>2, <2>1, <2>3, EmptyItems DEF ChannelSound, Apart, s, w
  <2>6. Items(x.queues[c]) = Items(PushFront(s, w)) /\ Items(x.withheld[c]) = {}
    BY <2>1, EmptyItems
  <2> QED
    BY <1>2, <2>3, <2>4, <2>5, <2>6 DEF ChannelItems, x, s, w
<1> QED
  BY <1>5, <1>6, <1>7

\* flush_next, after its expiry block.
LEMMA FlushNextMoves ==
    ASSUME NEW q, QueueOK(q), NEW out \in FlushNext(q),
           \A c \in Channels : ChannelSound(q, c)
    PROVE  /\ FlushMoves(ExpireInFlight(q), out)
           /\ \A c \in Channels : ChannelSound(ExpireInFlight(q), c)
<1> DEFINE x == ExpireInFlight(q)
<1>1. QueueOK(x) /\ \A c \in Channels : ChannelSound(x, c)
  BY ExpireInFlightOK, ExpireMoves
<1>2. \/ \E c \in ScopedRecoverable(x) : out = FlushScoped(x, c)
      \/ \E c \in Candidates(x) : out \in FlushQueued(x, c)
      \/ \E c \in CancelledIdle(x) : out = FlushCancelled(x, c)
      \/ out = [queue |-> x, batch |-> NoBatch]
  BY DEF FlushNext, OldestHeads
<1> HIDE DEF x
<1>3. /\ ScopedRecoverable(x) \subseteq Channels /\ Candidates(x) \subseteq Channels
      /\ CancelledIdle(x) \subseteq Channels
  BY DEF ScopedRecoverable, Candidates, CancelledIdle
<1>4. FlushMoves(x, out)
  <2>1. CASE \E c \in ScopedRecoverable(x) : out = FlushScoped(x, c)
    BY <1>1, <1>3, <2>1, FlushScopedMoves
  <2>2. CASE \E c \in Candidates(x) : out \in FlushQueued(x, c)
    BY <1>1, <1>3, <2>2, FlushQueuedMoves
  <2>3. CASE \E c \in CancelledIdle(x) : out = FlushCancelled(x, c)
    BY <1>1, <1>3, <2>3, FlushCancelledMoves
  <2>4. CASE out = [queue |-> x, batch |-> NoBatch]
    BY <2>4 DEF FlushMoves
  <2> QED
    BY <1>2, <2>1, <2>2, <2>3, <2>4
<1> QED
  BY <1>1, <1>4 DEF x

\* requeue, requeue_preserve_timestamps and requeue_as_cancelled give a channel
\* back events of the batch, and touch no other channel.
LEMMA RequeueMoves ==
    ASSUME NEW q, QueueOK(q), NEW b, BatchOK(b), NEW reason,
           ChannelSound(q, b.channel), BatchSound(b),
           Apart(ChannelItems(q, b.channel), BatchItems(b)),
           NEW r \in {Requeue(q, b), RequeuePreserveTimestamps(q, b),
                      RequeueAsCancelled(q, b, reason)}
    PROVE  /\ ChannelSound(r, b.channel)
           /\ OthersSame(q, r, b.channel)
           /\ r.withheld = q.withheld
           /\ ChannelItems(r, b.channel) \subseteq ChannelItems(q, b.channel) \cup BatchItems(b)
<1> DEFINE c == b.channel
           s == q.queues[c]
           k == q.cancelled[c]
           w == q.withheld[c]
           f == PushFront(s, b.events)
           m == k \o b.cancelled \o b.events
<1>1. c \in Channels /\ b.events \in Seq(Event) /\ b.cancelled \in Seq(Event) /\ q \in QueueState
  BY DEF BatchOK, Batch, QueueOK
<1>2. s \in Seq(Event) /\ k \in Seq(Event)
  BY <1>1, FieldTypes
<1>3. /\ Distinct(s) /\ Distinct(k) /\ Distinct(w)
      /\ Apart(Items(s), Items(k)) /\ Apart(Items(s), Items(w)) /\ Apart(Items(k), Items(w))
      /\ Distinct(b.events) /\ Distinct(b.cancelled)
      /\ Apart(Items(b.events), Items(b.cancelled))
  BY DEF ChannelSound, BatchSound
<1>4. \A g \in Items(s) \cup Items(k) \cup Items(w) :
        \A h \in Items(b.events) \cup Items(b.cancelled) : g.id # h.id
  BY DEF Apart, ChannelItems, BatchItems
<1>5. Items(f) \subseteq Items(s) \cup Items(b.events) /\ Distinct(f)
  <2>1. Apart(Items(b.events), Items(s))
    BY <1>4 DEF Apart
  <2> QED
    BY <1>1, <1>2, <1>3, <2>1, PushFrontItems
<1>6. Items(m) = Items(k) \cup Items(b.cancelled) \cup Items(b.events) /\ Distinct(m)
  <2> DEFINE g == k \o b.cancelled
  <2>1. Apart(Items(k), Items(b.cancelled))
    BY <1>4 DEF Apart
  <2>2. Items(g) = Items(k) \cup Items(b.cancelled) /\ Distinct(g) /\ g \in Seq(Event)
    BY <1>1, <1>2, <1>3, <2>1, ConcatDistinct, ConcatProperties
  <2> HIDE DEF g
  <2>3. Apart(Items(g), Items(b.events))
    BY <1>3, <1>4, <2>2 DEF Apart
  <2>4. Items(g \o b.events) = Items(g) \cup Items(b.events) /\ Distinct(g \o b.events)
    BY <1>1, <1>3, <2>2, <2>3, ConcatDistinct
  <2> QED
    BY <2>2, <2>4 DEF g
<1>7. \/ SameEvents(q, r)
      \/ /\ r.queues[c] = f /\ r.cancelled[c] = k
         /\ r.withheld = q.withheld /\ OthersSame(q, r, c)
      \/ /\ r.queues[c] = s /\ r.cancelled[c] = m
         /\ r.withheld = q.withheld /\ OthersSame(q, r, c)
  <2>1. CASE r = Requeue(q, b)
    <3>1. CASE Exhausted(q, b)
      BY <1>1, <2>1, <3>1 DEF Requeue, QueueState, SameEvents
    <3>2. CASE ~Exhausted(q, b)
      <4> HIDE DEF f, c
      <4> QED
        BY <1>1, <2>1, <3>2 DEF Requeue, QueueState, OthersSame, f, c
    <3> QED
      BY <3>1, <3>2
  <2>2. CASE r = RequeuePreserveTimestamps(q, b)
    BY <1>1, <2>2 DEF RequeuePreserveTimestamps, QueueState, OthersSame
  <2>3. CASE r = RequeueAsCancelled(q, b, reason)
    BY <1>1, <2>3 DEF RequeueAsCancelled, QueueState, OthersSame
  <2> QED
    BY <2>1, <2>2, <2>3
<1> HIDE DEF f, m
<1>8. CASE SameEvents(q, r)
  BY <1>8 DEF SameEvents, ChannelSound, ChannelItems, OthersSame
<1>9. CASE /\ r.queues[c] = f /\ r.cancelled[c] = k
           /\ r.withheld = q.withheld /\ OthersSame(q, r, c)
  <2>1. Apart(Items(f), Items(k)) /\ Apart(Items(f), Items(w))
    BY <1>3, <1>4, <1>5 DEF Apart
  <2> QED
    BY <1>3, <1>5, <1>9, <2>1 DEF ChannelSound, ChannelItems, BatchItems
<1>10. CASE /\ r.queues[c] = s /\ r.cancelled[c] = m
            /\ r.withheld = q.withheld /\ OthersSame(q, r, c)
  <2>1. Apart(Items(s), Items(m)) /\ Apart(Items(m), Items(w))
    BY <1>3, <1>4, <1>6 DEF Apart
  <2> QED
    BY <1>3, <1>6, <1>10, <2>1 DEF ChannelSound, ChannelItems, BatchItems
<1> QED
  BY <1>7, <1>8, <1>9, <1>10

\* The methods of native steers move one event between the queue and the side
\* table of its channel, or take it out.
LEMMA SteerMoves ==
    ASSUME NEW q, QueueOK(q), NEW e \in Event, ChannelSound(q, e.channel),
           NEW r \in {MarkNativeSteerPending(q, e), ReleaseNativeSteer(q, e),
                      RemoveEvent(q, e)}
    PROVE  /\ ChannelSound(r, e.channel)
           /\ OthersSame(q, r, e.channel)
           /\ r.cancelled = q.cancelled
           /\ ChannelItems(r, e.channel) \subseteq ChannelItems(q, e.channel)
<1> DEFINE c == e.channel
           s == q.queues[c]
           w == q.withheld[c]
           ds == DropEvent(s, e)
           dw == DropEvent(w, e)
           aw == Append(w, e)
           fs == PushFront(s, <<e>>)
<1>1. c \in Channels /\ q \in QueueState
  BY DEF Event, QueueOK
<1>2. s \in Seq(Event) /\ w \in Seq(Event) /\ <<e>> \in Seq(Event)
  BY <1>1, FieldTypes
<1>3. Distinct(s) /\ Distinct(w) /\ Apart(Items(s), Items(w))
  BY DEF ChannelSound
<1>4. Items(ds) = Items(s) \ {e} /\ Distinct(ds) /\ Items(dw) = Items(w) \ {e} /\ Distinct(dw)
  BY <1>2, <1>3, DropEventDistinct
<1>5. \/ SameEvents(q, r)
      \/ /\ e \in Items(s)
         /\ r.queues[c] = ds /\ r.withheld[c] = aw
         /\ r.cancelled = q.cancelled /\ OthersSame(q, r, c)
      \/ /\ e \in Items(w)
         /\ r.queues[c] = fs /\ r.withheld[c] = dw
         /\ r.cancelled = q.cancelled /\ OthersSame(q, r, c)
      \/ /\ r.queues[c] = ds /\ r.withheld[c] = dw
         /\ r.cancelled = q.cancelled /\ OthersSame(q, r, c)
  <2>1. CASE r = MarkNativeSteerPending(q, e)
    BY <1>1, <2>1 DEF MarkNativeSteerPending, QueueState, OthersSame, SameEvents
  <2>2. CASE r = ReleaseNativeSteer(q, e)
    BY <1>1, <2>2 DEF ReleaseNativeSteer, QueueState, OthersSame, SameEvents
  <2>3. CASE r = RemoveEvent(q, e)
    BY <1>1, <2>3 DEF RemoveEvent, QueueState, OthersSame
  <2> QED
    BY <2>1, <2>2, <2>3
<1> HIDE DEF ds, dw, aw, fs
<1>6. CASE SameEvents(q, r)
  BY <1>6 DEF SameEvents, ChannelSound, ChannelItems, OthersSame
<1>7. CASE /\ e \in Items(s)
           /\ r.queues[c] = ds /\ r.withheld[c] = aw
           /\ r.cancelled = q.cancelled /\ OthersSame(q, r, c)
  <2>1. Apart(Items(w), {e}) /\ Apart(Items(q.cancelled[c]), {e})
    BY <1>3, <1>7 DEF Apart, ChannelSound
  <2>2. Items(aw) = Items(w) \cup {e} /\ Distinct(aw)
    BY <1>2, <1>3, <2>1, AppendDistinct DEF aw
  <2>3. Apart(Items(ds), {e})
    <3>1. \A f \in Items(s) : f.id = e.id => f = e
      BY <1>3, <1>7 DEF Items, Distinct
    <3> QED
      BY <1>4, <3>1 DEF Apart
  <2>4. Apart(Items(ds), Items(aw)) /\ Apart(Items(q.cancelled[c]), Items(aw))
    BY <1>3, <1>4, <2>1, <2>2, <2>3 DEF Apart, ChannelSound
  <2>5. Apart(Items(ds), Items(q.cancelled[c]))
    BY <1>4 DEF Apart, ChannelSound
  <2> QED
    BY <1>4, <1>7, <2>2, <2>4, <2>5 DEF ChannelSound, ChannelItems
<1>8. CASE /\ e \in Items(w)
           /\ r.queues[c] = fs /\ r.withheld[c] = dw
           /\ r.cancelled = q.cancelled /\ OthersSame(q, r, c)
  <2>1. Apart({e}, Items(s)) /\ Apart({e}, Items(q.cancelled[c]))
    BY <1>3, <1>8 DEF Apart, ChannelSound
  <2>2. Items(<<e>>) = {e} /\ Distinct(<<e>>)
    BY SingleItems
  <2>3. Items(fs) \subseteq Items(s) \cup {e} /\ Distinct(fs)
    BY <1>2, <1>3, <2>1, <2>2, PushFrontItems DEF fs
  <2>4. Apart({e}, Items(dw))
    <3>1. \A f \in Items(w) : f.id = e.id => f = e
      BY <1>3, <1>8 DEF Items, Distinct
    <3> QED
      BY <1>4, <3>1 DEF Apart
  <2>5. Apart(Items(fs), Items(dw)) /\ Apart(Items(q.cancelled[c]), Items(dw))
        /\ Apart(Items(fs), Items(q.cancelled[c]))
    BY <1>3, <1>4, <2>1, <2>3, <2>4 DEF Apart, ChannelSound
  <2> QED
    BY <1>4, <1>8, <2>3, <2>5 DEF ChannelSound, ChannelItems
<1>9. CASE /\ r.queues[c] = ds /\ r.withheld[c] = dw
           /\ r.cancelled = q.cancelled /\ OthersSame(q, r, c)
  <2>1. Apart(Items(ds), Items(dw)) /\ Apart(Items(q.cancelled[c]), Items(dw))
        /\ Apart(Items(ds), Items(q.cancelled[c]))
    BY <1>3, <1>4 DEF Apart, ChannelSound
  <2> QED
    BY <1>4, <1>9, <2>1 DEF ChannelSound, ChannelItems
<1> QED
  BY <1>5, <1>6, <1>7, <1>8, <1>9

\* push adds its event behind what it keeps of the queue.
LEMMA PushMoves ==
    ASSUME NEW q, QueueOK(q), NEW e \in Event, ChannelSound(q, e.channel),
           Apart(ChannelItems(q, e.channel), {e})
    PROVE  /\ ChannelSound(Push(q, e), e.channel)
           /\ OthersSame(q, Push(q, e), e.channel)
           /\ Push(q, e).cancelled = q.cancelled /\ Push(q, e).withheld = q.withheld
           /\ ChannelItems(Push(q, e), e.channel) \subseteq ChannelItems(q, e.channel) \cup {e}
           /\ ChannelItems(q, e.channel) \cup {e} \subseteq
                ChannelItems(Push(q, e), e.channel) \cup PushEvicts(q, e)
           /\ e \in Items(Push(q, e).queues[e.channel])
<1> DEFINE c == e.channel
           s == q.queues[c]
           kept == IF Len(s) >= MaxPending THEN Tail(s) ELSE s
           r == Push(q, e)
<1>1. c \in Channels /\ q \in QueueState
  BY DEF Event, QueueOK
<1>2. s \in Seq(Event) /\ Len(s) \in Nat
  BY <1>1, FieldTypes, LenProperties
<1>3. /\ kept \in Seq(Event) /\ Distinct(kept)
      /\ Items(kept) \subseteq Items(s)
      /\ Items(s) = Items(kept) \cup PushEvicts(q, e)
  <2>1. Distinct(s)
    BY DEF ChannelSound
  <2>2. CASE ~(Len(s) >= MaxPending)
    BY <1>2, <2>1, <2>2 DEF PushEvicts
  <2>3. CASE Len(s) >= MaxPending
    <3>1. s # <<>>
      BY <1>2, <2>3, QueueConstants, EmptySeq
    <3>2. kept = Tail(s) /\ Tail(s) = SubSeq(s, 2, Len(s)) /\ PushEvicts(q, e) = {Head(s)}
      BY <1>2, <2>3, <3>1, TailIsSubSeq DEF PushEvicts
    <3>3. Tail(s) \in Seq(Event) /\ Len(s) \in Nat \ {0}
      BY <1>2, <3>1, HeadTailProperties, EmptySeq
    <3>4. 2 \in Nat \ {0} /\ Len(s) \in Int /\ Len(s) <= Len(s)
      BY <1>2
    <3> HIDE DEF s
    <3>5. Items(Tail(s)) = {s[i] : i \in 2..Len(s)} /\ Distinct(Tail(s))
          /\ Items(Tail(s)) \subseteq Items(s)
      <4>1. Items(SubSeq(s, 2, Len(s))) = {s[i] : i \in 2..Len(s)}
            /\ Items(SubSeq(s, 2, Len(s))) \subseteq Items(s)
        BY <1>2, <3>4, SubSeqDistinct
      <4>2. Distinct(SubSeq(s, 2, Len(s)))
        BY <1>2, <2>1, <3>4, SubSeqDistinct
      <4> QED
        BY <3>2, <4>1, <4>2
    <3>6. DOMAIN s = {1} \cup 2..Len(s)
      <4>1. DOMAIN s = 1..Len(s)
        BY <1>2, LenProperties
      <4> QED
        BY <3>3, <4>1
    <3>7. Head(s) = s[1]
      OBVIOUS
    <3>8. Items(s) = Items(Tail(s)) \cup {Head(s)}
      BY <3>5, <3>6, <3>7 DEF Items
    <3> HIDE DEF kept
    <3> QED
      BY <3>2, <3>3, <3>5, <3>8
  <2> QED
    BY <2>2, <2>3
<1>4. r.queues[c] = Append(kept, e) /\ r.cancelled = q.cancelled /\ r.withheld = q.withheld
      /\ OthersSame(q, r, c)
  BY <1>1 DEF Push, QueueState, OthersSame
<1> HIDE DEF kept, r
<1>5. Apart(Items(kept), {e}) /\ Apart({e}, Items(q.cancelled[c]) \cup Items(q.withheld[c]))
  BY <1>3 DEF Apart, ChannelItems
<1>6. Items(Append(kept, e)) = Items(kept) \cup {e} /\ Distinct(Append(kept, e))
  BY <1>3, <1>5, AppendDistinct
<1>7. ChannelSound(r, c)
  BY <1>3, <1>4, <1>5, <1>6 DEF ChannelSound, Apart
<1> QED
  BY <1>3, <1>4, <1>6, <1>7 DEF ChannelItems, r

\* drain_channel empties its channel.
LEMMA DrainMoves ==
    ASSUME NEW q, QueueOK(q), NEW c \in Channels
    PROVE  /\ ChannelSound(DrainChannel(q, c), c)
           /\ OthersSame(q, DrainChannel(q, c), c)
           /\ ChannelItems(DrainChannel(q, c), c) = {}
<1> DEFINE r == DrainChannel(q, c)
<1>1. r.queues[c] = <<>> /\ r.cancelled[c] = <<>> /\ r.withheld[c] = <<>>
      /\ OthersSame(q, r, c)
  BY DEF DrainChannel, QueueOK, QueueState, OthersSame
<1> HIDE DEF r
<1> QED
  BY <1>1, EmptyItems DEF ChannelSound, ChannelItems, Apart, r

-----------------------------------------------------------------------------
(* One place for every event *)

\* No event is held twice by the queue q and the turns ts together.
Separate(q, ts) ==
    /\ \A c \in Channels : ChannelSound(q, c)
    /\ \A a \in Agents : BatchSound(ts[a].batch)
    /\ \A c, d \in Channels : c # d => Apart(ChannelItems(q, c), ChannelItems(q, d))
    /\ \A c \in Channels : \A a \in Agents : Apart(ChannelItems(q, c), BatchItems(ts[a].batch))
    /\ \A a, b \in Agents : a # b => Apart(BatchItems(ts[a].batch), BatchItems(ts[b].batch))

\* What is held arrived before the n-th event.
Older(q, ts, n) ==
    /\ \A c \in Channels : \A e \in ChannelItems(q, c) : e.id \in Nat \ {0} /\ e.id < n
    /\ \A a \in Agents : \A e \in BatchItems(ts[a].batch) : e.id \in Nat \ {0} /\ e.id < n

\* A turn gives back its own events only.
RetrySame(ts) ==
    \A a \in Agents : ts[a].retry # NoBatch =>
        /\ ts[a].retry.events = ts[a].batch.events
        /\ ts[a].retry.cancelled = ts[a].batch.cancelled

PlaceOK(q, ts, n) == Separate(q, ts) /\ Older(q, ts, n)

PlaceInv == PlaceOK(queue, tasks, nextId) /\ RetrySame(tasks)

\* NoBatch holds nothing.
LEMMA NoBatchSound == BatchSound(NoBatch) /\ BatchItems(NoBatch) = {}
BY EmptyItems DEF BatchSound, BatchItems, NoBatch, Apart

\* Channels that only lose events, and turns that keep their batch or lose it.
LEMMA ShrinkStep ==
    ASSUME NEW q, NEW ts, NEW n, PlaceOK(q, ts, n), NEW r, NEW us,
           \A c \in Channels : ChannelSound(r, c) /\ ChannelItems(r, c) \subseteq ChannelItems(q, c),
           \A a \in Agents : us[a].batch = ts[a].batch \/ us[a].batch = NoBatch
    PROVE  PlaceOK(r, us, n)
<1>1. \A a \in Agents : /\ BatchSound(us[a].batch)
                        /\ BatchItems(us[a].batch) \subseteq BatchItems(ts[a].batch)
  BY NoBatchSound DEF PlaceOK, Separate
<1>2. \A c \in Channels : ChannelItems(r, c) \subseteq ChannelItems(q, c)
  OBVIOUS
<1>3. Older(r, us, n)
  BY <1>1, <1>2 DEF PlaceOK, Older
<1>4. \A c, d \in Channels : c # d => Apart(ChannelItems(r, c), ChannelItems(r, d))
  BY <1>2 DEF PlaceOK, Separate, Apart
<1>5. \A c \in Channels : \A a \in Agents : Apart(ChannelItems(r, c), BatchItems(us[a].batch))
  BY <1>1, <1>2 DEF PlaceOK, Separate, Apart
<1>6. \A a, b \in Agents : a # b => Apart(BatchItems(us[a].batch), BatchItems(us[b].batch))
  BY <1>1 DEF PlaceOK, Separate, Apart
<1> QED
  BY <1>1, <1>3, <1>4, <1>5, <1>6 DEF PlaceOK, Separate

\* Channels other than c have the same items and are as sound.
LEMMA OthersItems ==
    ASSUME NEW q, NEW r, NEW c, OthersSame(q, r, c)
    PROVE  \A d \in Channels \ {c} : /\ ChannelItems(r, d) = ChannelItems(q, d)
                                     /\ ChannelSound(q, d) => ChannelSound(r, d)
BY DEF OthersSame, ChannelItems, ChannelSound

\* The same for a step that changes nothing but channel c.
LEMMA ShrinkOne ==
    ASSUME NEW q, NEW ts, NEW n, PlaceOK(q, ts, n), NEW r, NEW us, NEW c \in Channels,
           OthersSame(q, r, c), ChannelSound(r, c),
           ChannelItems(r, c) \subseteq ChannelItems(q, c),
           \A a \in Agents : us[a].batch = ts[a].batch \/ us[a].batch = NoBatch
    PROVE  PlaceOK(r, us, n)
<1>1. \A d \in Channels : ChannelSound(r, d) /\ ChannelItems(r, d) \subseteq ChannelItems(q, d)
  BY OthersItems DEF PlaceOK, Separate
<1> QED
  BY <1>1, ShrinkStep

\* Nothing moves.
LEMMA StillStep ==
    ASSUME NEW q, NEW ts, NEW n, PlaceOK(q, ts, n), NEW r, NEW us, SameEvents(q, r),
           \A a \in Agents : us[a].batch = ts[a].batch \/ us[a].batch = NoBatch
    PROVE  PlaceOK(r, us, n)
<1>1. \A d \in Channels : ChannelSound(r, d) /\ ChannelItems(r, d) \subseteq ChannelItems(q, d)
  BY DEF PlaceOK, Separate, SameEvents, ChannelSound, ChannelItems
<1> QED
  BY <1>1, ShrinkStep

\* Events move between a channel and a turn.
LEMMA MoveStep ==
    ASSUME NEW q, NEW ts, NEW n, PlaceOK(q, ts, n), NEW r, NEW us,
           NEW c \in Channels, NEW a \in Agents,
           OthersSame(q, r, c), ChannelSound(r, c), BatchSound(us[a].batch),
           Apart(ChannelItems(r, c), BatchItems(us[a].batch)),
           ChannelItems(r, c) \cup BatchItems(us[a].batch) \subseteq
             ChannelItems(q, c) \cup BatchItems(ts[a].batch),
           \A b \in Agents : b # a => us[b].batch = ts[b].batch
    PROVE  PlaceOK(r, us, n)
<1>1. \A d \in Channels : d # c => ChannelItems(r, d) = ChannelItems(q, d) /\ ChannelSound(r, d)
  BY OthersItems DEF PlaceOK, Separate
<1>2. \A d \in Channels : ChannelSound(r, d)
  BY <1>1
<1>3. \A b \in Agents : BatchSound(us[b].batch)
  BY DEF PlaceOK, Separate
<1>4. Older(r, us, n)
  BY <1>1 DEF PlaceOK, Older
<1>5. \A d \in Channels : d # c =>
        Apart(ChannelItems(q, d), ChannelItems(q, c) \cup BatchItems(ts[a].batch))
  BY DEF PlaceOK, Separate, Apart
<1>6. \A b \in Agents : b # a =>
        Apart(BatchItems(ts[b].batch), ChannelItems(q, c) \cup BatchItems(ts[a].batch))
  BY DEF PlaceOK, Separate, Apart
<1>7. \A d, f \in Channels : d # f => Apart(ChannelItems(r, d), ChannelItems(r, f))
  <2> SUFFICES ASSUME NEW d \in Channels, NEW f \in Channels, d # f
               PROVE  Apart(ChannelItems(r, d), ChannelItems(r, f))
    OBVIOUS
  <2>1. CASE d = c
    BY <1>1, <1>5, <2>1 DEF Apart
  <2>2. CASE f = c
    BY <1>1, <1>5, <2>2 DEF Apart
  <2>3. CASE d # c /\ f # c
    BY <1>1, <2>3 DEF PlaceOK, Separate
  <2> QED
    BY <2>1, <2>2, <2>3
<1>8. \A d \in Channels : \A b \in Agents : Apart(ChannelItems(r, d), BatchItems(us[b].batch))
  <2> SUFFICES ASSUME NEW d \in Channels, NEW b \in Agents
               PROVE  Apart(ChannelItems(r, d), BatchItems(us[b].batch))
    OBVIOUS
  <2>1. CASE d = c /\ b = a
    BY <2>1
  <2>2. CASE d = c /\ b # a
    BY <1>6, <2>2 DEF Apart
  <2>3. CASE d # c /\ b = a
    BY <1>1, <1>5, <2>3 DEF Apart
  <2>4. CASE d # c /\ b # a
    BY <1>1, <2>4 DEF PlaceOK, Separate
  <2> QED
    BY <2>1, <2>2, <2>3, <2>4
<1>9. \A x, y \in Agents : x # y => Apart(BatchItems(us[x].batch), BatchItems(us[y].batch))
  <2> SUFFICES ASSUME NEW x \in Agents, NEW y \in Agents, x # y
               PROVE  Apart(BatchItems(us[x].batch), BatchItems(us[y].batch))
    OBVIOUS
  <2>1. CASE x = a
    BY <1>6, <2>1 DEF Apart
  <2>2. CASE y = a
    BY <1>6, <2>2 DEF Apart
  <2>3. CASE x # a /\ y # a
    BY <2>3 DEF PlaceOK, Separate
  <2> QED
    BY <2>1, <2>2, <2>3
<1> QED
  BY <1>2, <1>3, <1>4, <1>7, <1>8, <1>9 DEF PlaceOK, Separate

\* The n-th event arrives in channel c.
LEMMA ArriveStep ==
    ASSUME NEW q, NEW ts, NEW n \in Nat \ {0}, PlaceOK(q, ts, n), NEW r, NEW us,
           NEW c \in Channels, NEW e, e.id = n,
           OthersSame(q, r, c), ChannelSound(r, c),
           ChannelItems(r, c) \subseteq ChannelItems(q, c) \cup {e},
           \A a \in Agents : us[a].batch = ts[a].batch
    PROVE  PlaceOK(r, us, n + 1)
<1>1. \A d \in Channels : d # c => ChannelItems(r, d) = ChannelItems(q, d) /\ ChannelSound(r, d)
  BY OthersItems DEF PlaceOK, Separate
<1>2. \A d \in Channels : ChannelSound(r, d)
  BY <1>1
<1>3. \A d \in Channels : \A f \in ChannelItems(q, d) : f.id \in Nat \ {0} /\ f.id < n
  BY DEF PlaceOK, Older
<1>4. \A a \in Agents : \A f \in BatchItems(us[a].batch) : f.id \in Nat \ {0} /\ f.id < n
  BY DEF PlaceOK, Older
<1>5. Older(r, us, n + 1)
  <2>1. \A d \in Channels : \A f \in ChannelItems(r, d) : f.id \in Nat \ {0} /\ f.id < n + 1
    BY <1>1, <1>3
  <2>2. \A a \in Agents : \A f \in BatchItems(us[a].batch) : f.id \in Nat \ {0} /\ f.id < n + 1
    BY <1>4
  <2> QED
    BY <2>1, <2>2 DEF Older
<1>6. \A d \in Channels : Apart(ChannelItems(q, d), {e}) /\ Apart({e}, ChannelItems(q, d))
  BY <1>3 DEF Apart
<1>7. \A a \in Agents : Apart({e}, BatchItems(us[a].batch))
  BY <1>4 DEF Apart
<1>8. \A d, f \in Channels : d # f => Apart(ChannelItems(r, d), ChannelItems(r, f))
  <2> SUFFICES ASSUME NEW d \in Channels, NEW f \in Channels, d # f
               PROVE  Apart(ChannelItems(r, d), ChannelItems(r, f))
    OBVIOUS
  <2>0. Apart(ChannelItems(q, d), ChannelItems(q, f))
    BY DEF PlaceOK, Separate
  <2>1. CASE d = c
    BY <1>1, <1>6, <2>0, <2>1 DEF Apart
  <2>2. CASE f = c
    BY <1>1, <1>6, <2>0, <2>2 DEF Apart
  <2>3. CASE d # c /\ f # c
    BY <1>1, <2>0, <2>3
  <2> QED
    BY <2>1, <2>2, <2>3
<1>9. \A d \in Channels : \A b \in Agents : Apart(ChannelItems(r, d), BatchItems(us[b].batch))
  <2> SUFFICES ASSUME NEW d \in Channels, NEW b \in Agents
               PROVE  Apart(ChannelItems(r, d), BatchItems(us[b].batch))
    OBVIOUS
  <2>0. Apart(ChannelItems(q, d), BatchItems(us[b].batch))
    BY DEF PlaceOK, Separate
  <2>1. ChannelItems(r, d) \subseteq ChannelItems(q, d) \cup {e}
    BY <1>1
  <2> QED
    BY <1>7, <2>0, <2>1 DEF Apart
<1> QED
  BY <1>2, <1>5, <1>8, <1>9 DEF PlaceOK, Separate

\* A task map with the same batches, and the same batches to give back.
SameBatches(u) ==
    \A a \in Agents : u[a].batch = tasks[a].batch /\ u[a].retry = tasks[a].retry

\* Relay events, steer acks and commands change no turn's batch.
LEMMA ArmsSameBatches ==
    ASSUME HarnessInv,
           \/ \E s \in steers : HandleSteerAck(s)
           \/ \E shape \in Shapes : RelayEvent(shape)
           \/ \E c \in Channels, signal \in Controls : ControlCommand(c, signal)
    PROVE  SameBatches(tasks')
<1>1. \A c, root : TasksOf(c) \in SUBSET Agents /\ ConversationTasks(c, root) \in SUBSET Agents
  BY DEF TasksOf, ConversationTasks, Busy
<1>2. ASSUME NEW a \in Agents, NEW signal PROVE SameBatches(TakeControl(a, signal))
  BY DEF TakeControl, SameBatches, HarnessInv, Task
<1>3. \A ts \in SUBSET Agents : \A signal : \A u \in Signal(ts, signal) : SameBatches(u)
  BY <1>2 DEF Signal, SameBatches
<1>4. CASE \E s \in steers : HandleSteerAck(s)
  <2>1. PICK s \in steers : HandleSteerAck(s)
    BY <1>4
  <2>2. \/ tasks' = tasks
        \/ tasks' \in Signal(ConversationTasks(s.event.channel, s.event.root), "Steer")
    BY <2>1 DEF HandleSteerAck
  <2> QED
    BY <1>1, <1>3, <2>2 DEF SameBatches
<1>5. CASE \E shape \in Shapes : RelayEvent(shape)
  <2>1. PICK shape \in Shapes : RelayEvent(shape)
    BY <1>5
  <2> DEFINE e == Arrival(shape)
             m == ModeGateSignal(e)
  <2>2. tasks' = tasks \/ \E a \in TasksOf(e.channel) : tasks' = TakeControl(a, m)
    BY <2>1 DEF RelayEvent, NativeSteer, LeaveOrSignal
  <2> HIDE DEF e, m
  <2> QED
    BY <1>1, <1>2, <2>2 DEF SameBatches
<1>6. CASE \E c \in Channels, signal \in Controls : ControlCommand(c, signal)
  BY <1>1, <1>3, <1>6 DEF ControlCommand
<1> QED
  BY <1>4, <1>5, <1>6

\* Batches that stay keep RetrySame.
LEMMA SameBatchesRetry ==
    ASSUME RetrySame(tasks), NEW us, SameBatches(us)
    PROVE  RetrySame(us)
BY DEF RetrySame, SameBatches

\* Nothing is held at the start.
LEMMA InitPlace == Init => PlaceInv
<1> SUFFICES ASSUME Init PROVE PlaceInv
  OBVIOUS
<1>1. \A c \in Channels : queue.queues[c] = <<>> /\ queue.cancelled[c] = <<>>
                          /\ queue.withheld[c] = <<>>
  BY DEF Init, EmptyQueue
<1>2. \A c \in Channels : ChannelSound(queue, c) /\ ChannelItems(queue, c) = {}
  BY <1>1, EmptyItems DEF ChannelSound, ChannelItems, Apart
<1>3. \A a \in Agents : tasks[a].batch = NoBatch /\ tasks[a].retry = NoBatch
  BY DEF Init, NoTask
<1>4. \A a \in Agents : BatchSound(tasks[a].batch) /\ BatchItems(tasks[a].batch) = {}
  BY <1>3, NoBatchSound
<1> QED
  BY <1>2, <1>3, <1>4 DEF PlaceInv, PlaceOK, Separate, Older, Apart, RetrySame

\* A step that only expires turns, and perhaps starts a turn without events.
LEMMA ExpireStepPlace ==
    ASSUME HarnessInv, PlaceInv, NEW q, QueueOK(q), SameEvents(queue, q),
           queue' = ExpireInFlight(q), nextId' = nextId,
           \A a \in Agents : \/ tasks'[a].batch = tasks[a].batch /\ tasks'[a].retry = tasks[a].retry
                             \/ tasks'[a].batch = NoBatch /\ tasks'[a].retry = NoBatch
    PROVE  PlaceInv'
<1>1. PlaceOK(q, tasks, nextId)
  BY StillStep DEF PlaceInv
<1>2. \A c \in Channels : /\ ChannelSound(queue', c)
                          /\ ChannelItems(queue', c) \subseteq ChannelItems(q, c)
  BY <1>1, ExpireMoves DEF PlaceOK, Separate
<1>3. PlaceOK(queue', tasks', nextId)
  BY <1>1, <1>2, ShrinkStep
<1>4. RetrySame(tasks')
  BY DEF PlaceInv, RetrySame
<1> QED
  BY <1>3, <1>4 DEF PlaceInv

\* A step that moves no event.
LEMMA StillStepPlace ==
    ASSUME PlaceInv, SameEvents(queue, queue'), nextId' = nextId, SameBatches(tasks')
    PROVE  PlaceInv'
<1>1. PlaceOK(queue', tasks', nextId)
  BY StillStep DEF PlaceInv, SameBatches
<1> QED
  BY <1>1, SameBatchesRetry DEF PlaceInv

\* dispatch_pending starts a turn: what it takes leaves the channel.
LEMMA DispatchBatchPlace == HarnessInv /\ PlaceInv /\ DispatchBatch => PlaceInv'
<1> SUFFICES ASSUME HarnessInv, PlaceInv, DispatchBatch PROVE PlaceInv'
  OBVIOUS
<1> DEFINE Started(b) == [phase |-> "running", channel |-> b.channel, batch |-> b,
                          root |-> b.events[Len(b.events)].root, control |-> "armed",
                          outcome |-> "none", retry |-> NoBatch]
<1>0. \A b : Started(b).batch = b /\ Started(b).retry = NoBatch
  OBVIOUS
<1>1. PICK out \in FlushNext(queue), a \in idle :
        /\ out.batch # NoBatch
        /\ queue' = out.queue
        /\ tasks' = [tasks EXCEPT ![a] = Started(out.batch)]
  BY DEF DispatchBatch
<1> HIDE DEF Started
<1> DEFINE x == ExpireInFlight(queue)
           c == out.batch.channel
<1>2. a \in Agents /\ tasks \in [Agents -> Task] /\ QueueOK(queue)
  BY DEF HarnessInv, RestOK
<1>3. /\ tasks'[a].batch = out.batch /\ tasks'[a].retry = NoBatch
      /\ \A b \in Agents : b # a => tasks'[b] = tasks[b]
  BY <1>0, <1>1, <1>2
<1>4. FlushMoves(x, out) /\ \A d \in Channels : ChannelSound(x, d)
  BY <1>2, FlushNextMoves DEF PlaceInv, PlaceOK, Separate
<1>5. PlaceOK(x, tasks, nextId)
  <2>1. \A d \in Channels : ChannelItems(x, d) \subseteq ChannelItems(queue, d)
    BY <1>2, ExpireMoves DEF PlaceInv, PlaceOK, Separate
  <2> HIDE DEF x
  <2> QED
    BY <1>4, <2>1, ShrinkStep DEF PlaceInv
<1> HIDE DEF x
<1>6. /\ c \in Channels /\ OthersSame(x, out.queue, c) /\ ChannelSound(out.queue, c)
      /\ BatchSound(out.batch) /\ Apart(ChannelItems(out.queue, c), BatchItems(out.batch))
      /\ ChannelItems(out.queue, c) \cup BatchItems(out.batch) \subseteq ChannelItems(x, c)
  BY <1>1, <1>4 DEF FlushMoves
<1> HIDE DEF c
<1>7. PlaceOK(queue', tasks', nextId)
  BY <1>1, <1>2, <1>3, <1>5, <1>6, MoveStep
<1>8. RetrySame(tasks')
  BY <1>3 DEF PlaceInv, RetrySame
<1>9. nextId' = nextId
  BY DEF DispatchBatch
<1> QED
  BY <1>7, <1>8, <1>9 DEF PlaceInv

\* dispatch_pending finds no agent: what it took goes back to the channel.
LEMMA DispatchExhaustedPlace == HarnessInv /\ PlaceInv /\ DispatchExhausted => PlaceInv'
<1> SUFFICES ASSUME HarnessInv, PlaceInv, DispatchExhausted PROVE PlaceInv'
  OBVIOUS
<1>1. PICK out \in FlushNext(queue) :
        /\ out.batch # NoBatch
        /\ queue' = MarkComplete(RequeuePreserveTimestamps(out.queue, out.batch),
                                 out.batch.channel)
  BY DEF DispatchExhausted
<1> DEFINE x == ExpireInFlight(queue)
           c == out.batch.channel
           r == RequeuePreserveTimestamps(out.queue, out.batch)
<1>2. QueueOK(queue)
  BY DEF HarnessInv
<1>3. FlushMoves(x, out) /\ \A d \in Channels : ChannelSound(x, d)
  BY <1>2, FlushNextMoves DEF PlaceInv, PlaceOK, Separate
<1>4. PlaceOK(x, tasks, nextId)
  <2>1. \A d \in Channels : ChannelItems(x, d) \subseteq ChannelItems(queue, d)
    BY <1>2, ExpireMoves DEF PlaceInv, PlaceOK, Separate
  <2> HIDE DEF x
  <2> QED
    BY <1>3, <2>1, ShrinkStep DEF PlaceInv
<1>5. QueueOK(out.queue) /\ BatchOK(out.batch)
  BY <1>1, <1>2, FlushNextOK DEF FlushOutcomeOK
<1> HIDE DEF x
<1>6. /\ c \in Channels /\ OthersSame(x, out.queue, c) /\ ChannelSound(out.queue, c)
      /\ BatchSound(out.batch) /\ Apart(ChannelItems(out.queue, c), BatchItems(out.batch))
      /\ ChannelItems(out.queue, c) \cup BatchItems(out.batch) \subseteq ChannelItems(x, c)
  BY <1>1, <1>3 DEF FlushMoves
<1>7. /\ ChannelSound(r, c) /\ OthersSame(out.queue, r, c)
      /\ ChannelItems(r, c) \subseteq ChannelItems(out.queue, c) \cup BatchItems(out.batch)
  BY <1>5, <1>6, RequeueMoves
<1>8. r \in QueueState
  BY <1>5, RequeuePreserveTimestampsOK DEF QueueOK
<1> HIDE DEF r, c
<1>9. OthersSame(x, r, c)
  BY <1>6, <1>7 DEF OthersSame
<1>10. tasks' = tasks /\ nextId' = nextId
  BY DEF DispatchExhausted
<1>11. PlaceOK(r, tasks, nextId)
  BY <1>4, <1>6, <1>7, <1>9, ShrinkOne
<1>12. SameEvents(r, queue')
  BY <1>1, <1>6, <1>8, MethodsSameEvents DEF r, c
<1>13. PlaceOK(queue', tasks, nextId)
  BY <1>11, <1>12, StillStep
<1> QED
  BY <1>10, <1>13 DEF PlaceInv

\* What a result or a panic leaves of the queue: the queue as it was, or the
\* turn's own events given back.
GivesBack(t, q) ==
    \/ q = queue
    \/ \E b, reason : /\ BatchOK(b) /\ b.channel = t.channel
                      /\ b.events = t.batch.events /\ b.cancelled = t.batch.cancelled
                      /\ q \in {Requeue(queue, b), RequeueAsCancelled(queue, b, reason)}

\* handle_prompt_result and recover_panicked_agent give back nothing else.
LEMMA AfterGivesBack ==
    ASSUME HarnessInv, PlaceInv, NEW a \in Agents
    PROVE  /\ GivesBack(tasks[a], AfterResult(tasks[a]).queue)
           /\ GivesBack(tasks[a], AfterPanic(tasks[a]).queue)
<1> DEFINE t == tasks[a]
<1>1. TaskOK(t) /\ (t.retry # NoBatch => /\ t.retry.events = t.batch.events
                                         /\ t.retry.cancelled = t.batch.cancelled)
  BY DEF HarnessInv, TasksOK, PlaceInv, RetrySame
<1> HIDE DEF t
<1>2. t.retry # NoBatch => BatchOK(t.retry) /\ t.retry.channel = t.channel
  BY <1>1 DEF TaskOK, Task, BatchOK
<1>3. \/ AfterResult(t).queue = queue
      \/ t.retry # NoBatch /\ \E r : AfterResult(t).queue = RequeueAsCancelled(queue, t.retry, r)
      \/ t.retry # NoBatch /\ AfterResult(t).queue = Requeue(queue, t.retry)
  BY DEF AfterResult, AfterRequeue
<1>4. GivesBack(t, AfterResult(t).queue)
  BY <1>1, <1>2, <1>3 DEF GivesBack
<1>5. \/ AfterPanic(t).queue = queue
      \/ t.channel # NoChannel /\ AfterPanic(t).queue = Requeue(queue, t.batch)
  BY DEF AfterPanic, AfterRequeue, Recoverable
<1>6. t.channel # NoChannel => BatchOK(t.batch) /\ t.batch.channel = t.channel
  BY <1>1 DEF TaskOK, Task, Batch, BatchOK
<1>7. GivesBack(t, AfterPanic(t).queue)
  BY <1>5, <1>6 DEF GivesBack
<1> QED
  BY <1>4, <1>7 DEF t

\* The end of a turn.
LEMMA TurnEndsPlace ==
    ASSUME HarnessInv, PlaceInv, NEW a \in Agents, tasks' = [tasks EXCEPT ![a] = NoTask],
           NEW q, QueueOK(q), GivesBack(tasks[a], q),
           queue' = IF tasks[a].channel = NoChannel THEN q
                    ELSE MarkComplete(q, tasks[a].channel),
           nextId' = nextId
    PROVE  PlaceInv'
<1>1. tasks \in [Agents -> Task] /\ QueueOK(queue) /\ TaskOK(tasks[a])
  BY DEF HarnessInv, TasksOK
<1>2. /\ tasks'[a].batch = NoBatch /\ tasks'[a].retry = NoBatch
      /\ \A b \in Agents : b # a => tasks'[b] = tasks[b]
  BY <1>1 DEF NoTask
<1>3. PlaceOK(q, tasks', nextId)
  <2>1. CASE q = queue
    <3>1. SameEvents(queue, q) /\ \A b \in Agents : tasks'[b].batch = tasks[b].batch
                                                    \/ tasks'[b].batch = NoBatch
      BY <1>2, <2>1 DEF SameEvents
    <3> QED
      BY <3>1, StillStep DEF PlaceInv
  <2>2. CASE q # queue
    <3>1. PICK b, reason : /\ BatchOK(b) /\ b.channel = tasks[a].channel
                           /\ b.events = tasks[a].batch.events
                           /\ b.cancelled = tasks[a].batch.cancelled
                           /\ q \in {Requeue(queue, b), RequeueAsCancelled(queue, b, reason)}
      BY <2>2 DEF GivesBack
    <3> DEFINE c == b.channel
    <3>2. BatchItems(b) = BatchItems(tasks[a].batch) /\ BatchSound(b)
      BY <3>1 DEF BatchItems, BatchSound, PlaceInv, PlaceOK, Separate
    <3>3. c \in Channels /\ ChannelSound(queue, c) /\ Apart(ChannelItems(queue, c), BatchItems(b))
      BY <3>1, <3>2 DEF BatchOK, PlaceInv, PlaceOK, Separate
    <3>4. /\ ChannelSound(q, c) /\ OthersSame(queue, q, c)
          /\ ChannelItems(q, c) \subseteq ChannelItems(queue, c) \cup BatchItems(b)
      BY <1>1, <3>1, <3>2, <3>3, RequeueMoves
    <3>5. BatchSound(tasks'[a].batch) /\ BatchItems(tasks'[a].batch) = {}
      BY <1>2, NoBatchSound
    <3>6. Apart(ChannelItems(q, c), BatchItems(tasks'[a].batch))
      BY <3>5 DEF Apart
    <3>7. ChannelItems(q, c) \cup BatchItems(tasks'[a].batch) \subseteq
            ChannelItems(queue, c) \cup BatchItems(tasks[a].batch)
      BY <3>2, <3>4, <3>5
    <3> HIDE DEF c
    <3>8. PlaceOK(queue, tasks, nextId)
      BY DEF PlaceInv
    <3> QED
      BY <1>2, <3>3, <3>4, <3>5, <3>6, <3>7, <3>8, MoveStep
  <2> QED
    BY <2>1, <2>2
<1>4. SameEvents(q, queue')
  BY <1>1, MethodsSameEvents DEF SameEvents, TaskOK, Task, QueueOK
<1>5. PlaceOK(queue', tasks', nextId)
  BY <1>3, <1>4, StillStep
<1>6. RetrySame(tasks')
  BY <1>2 DEF PlaceInv, RetrySame
<1> QED
  BY <1>5, <1>6 DEF PlaceInv

\* A steer ack moves or removes its event inside its channel.
LEMMA HandleSteerAckPlace ==
    ASSUME HarnessInv, PlaceInv, NEW s \in steers, HandleSteerAck(s)
    PROVE  PlaceInv'
<1> DEFINE e == s.event
           c == e.channel
           x == ExtendDeadline(queue, c)
<1>1. e \in Event /\ c \in Channels /\ QueueOK(queue) /\ queue \in QueueState
  BY DEF HarnessInv, RestOK, SteerRecord, Event, QueueOK
<1>2. QueueOK(x) /\ SameEvents(queue, x)
  BY <1>1, ExtendDeadlineOK, MethodsSameEvents
<1>3. PlaceOK(queue, tasks, nextId) /\ PlaceOK(x, tasks, nextId)
  BY <1>2, StillStep DEF PlaceInv
<1>4. SameBatches(tasks') /\ nextId' = nextId
  BY ArmsSameBatches DEF HandleSteerAck
<1>5. queue' = RemoveEvent(x, e) \/ queue' = ReleaseNativeSteer(queue, e)
  BY DEF HandleSteerAck
<1> HIDE DEF e, x
<1>6. PICK q \in {queue, x} : /\ QueueOK(q) /\ PlaceOK(q, tasks, nextId)
                              /\ queue' \in {MarkNativeSteerPending(q, e),
                                             ReleaseNativeSteer(q, e), RemoveEvent(q, e)}
  BY <1>1, <1>2, <1>3, <1>5
<1>7. /\ ChannelSound(queue', c) /\ OthersSame(q, queue', c)
      /\ ChannelItems(queue', c) \subseteq ChannelItems(q, c)
  BY <1>1, <1>6, SteerMoves DEF PlaceOK, Separate
<1> HIDE DEF c
<1>8. PlaceOK(queue', tasks', nextId)
  BY <1>1, <1>4, <1>6, <1>7, ShrinkOne DEF SameBatches
<1> QED
  BY <1>4, <1>8, SameBatchesRetry DEF PlaceInv

\* An arriving event has the type and the number of a new event.
LEMMA ArrivalType ==
    ASSUME HarnessInv, NEW shape \in Shapes
    PROVE  /\ Arrival(shape) \in Event /\ Arrival(shape).channel \in Channels
           /\ Arrival(shape).id = nextId /\ nextId \in Nat \ {0}
<1>1. shape \in [channel : Channels, created : Nat, scoped : BOOLEAN,
                 root : Roots, owner : BOOLEAN]
  BY HarnessConstants
<1>2. nextId \in Nat \ {0}
  BY HarnessConstants DEF HarnessInv, RestOK
<1> QED
  BY <1>1, <1>2 DEF Arrival, Event

\* The queue after an arrival: pushed, and perhaps withheld at once for a steer.
LEMMA ArrivalMoves ==
    ASSUME HarnessInv, PlaceInv, NEW shape \in Shapes, NEW q, q = Push(queue, Arrival(shape))
    PROVE  /\ QueueOK(q)
           /\ ChannelSound(q, Arrival(shape).channel)
           /\ OthersSame(queue, q, Arrival(shape).channel)
           /\ q.cancelled = queue.cancelled /\ q.withheld = queue.withheld
           /\ ChannelItems(q, Arrival(shape).channel) \subseteq
                ChannelItems(queue, Arrival(shape).channel) \cup {Arrival(shape)}
           /\ ChannelItems(queue, Arrival(shape).channel) \cup {Arrival(shape)} \subseteq
                ChannelItems(q, Arrival(shape).channel) \cup PushEvicts(queue, Arrival(shape))
           /\ Arrival(shape) \in Items(q.queues[Arrival(shape).channel])
<1> DEFINE e == Arrival(shape)
<1>1. e \in Event /\ e.channel \in Channels /\ e.id = nextId /\ nextId \in Nat \ {0}
  BY ArrivalType
<1> HIDE DEF e
<1>2. QueueOK(queue) /\ ChannelSound(queue, e.channel)
  BY <1>1 DEF HarnessInv, PlaceInv, PlaceOK, Separate
<1>3. Apart(ChannelItems(queue, e.channel), {e})
  BY <1>1 DEF PlaceInv, PlaceOK, Older, Apart
<1>4. QueueOK(q)
  BY <1>1, <1>2, PushOK DEF e
<1> QED
  BY <1>1, <1>2, <1>3, <1>4, PushMoves DEF e

\* An event arrives.
LEMMA RelayEventPlace ==
    ASSUME HarnessInv, PlaceInv, NEW shape \in Shapes, RelayEvent(shape)
    PROVE  PlaceInv'
<1> DEFINE e == Arrival(shape)
           c == e.channel
           q == Push(queue, e)
<1>1. e \in Event /\ c \in Channels /\ e.id = nextId /\ nextId \in Nat \ {0}
  BY ArrivalType
<1>2. nextId' = nextId + 1 /\ SameBatches(tasks')
  BY ArmsSameBatches DEF RelayEvent
<1>3. queue' \in {queue, q, MarkNativeSteerPending(q, e)}
  BY DEF RelayEvent, NativeSteer, LeaveOrSignal
<1>4. /\ QueueOK(q) /\ ChannelSound(q, c) /\ OthersSame(queue, q, c)
      /\ ChannelItems(q, c) \subseteq ChannelItems(queue, c) \cup {e}
  BY ArrivalMoves
<1> HIDE DEF q, e
<1>5. PICK r : /\ r \in {queue, q, MarkNativeSteerPending(q, e)} /\ queue' = r
  BY <1>3
<1>6. /\ ChannelSound(r, c) /\ OthersSame(queue, r, c)
      /\ ChannelItems(r, c) \subseteq ChannelItems(queue, c) \cup {e}
  <2>1. CASE r = queue
    BY <1>1, <2>1 DEF PlaceInv, PlaceOK, Separate, OthersSame
  <2>2. CASE r = q
    BY <1>4, <2>2
  <2>3. CASE r = MarkNativeSteerPending(q, e)
    <3>1. /\ ChannelSound(r, c) /\ OthersSame(q, r, c)
          /\ ChannelItems(r, c) \subseteq ChannelItems(q, c)
      BY <1>1, <1>4, <2>3, SteerMoves
    <3> QED
      BY <1>4, <3>1 DEF OthersSame
  <2> QED
    BY <1>5, <2>1, <2>2, <2>3
<1> HIDE DEF c
<1>7. PlaceOK(queue, tasks, nextId) /\ \A a \in Agents : tasks'[a].batch = tasks[a].batch
  BY <1>2 DEF PlaceInv, SameBatches
<1>8. PlaceOK(r, tasks', nextId + 1)
  BY <1>1, <1>6, <1>7, ArriveStep
<1> QED
  BY <1>2, <1>5, <1>8, SameBatchesRetry DEF PlaceInv

\* A removed channel is drained.
LEMMA MemberRemovedPlace ==
    ASSUME HarnessInv, PlaceInv, NEW c \in Channels, MemberRemoved(c)
    PROVE  PlaceInv'
<1>1. queue' = DrainChannel(queue, c) /\ tasks' = tasks /\ nextId' = nextId
  BY DEF MemberRemoved
<1>2. /\ ChannelSound(queue', c) /\ OthersSame(queue, queue', c)
      /\ ChannelItems(queue', c) \subseteq ChannelItems(queue, c)
  BY <1>1, DrainMoves DEF HarnessInv
<1>3. PlaceOK(queue', tasks, nextId)
  BY <1>2, ShrinkOne DEF PlaceInv
<1> QED
  BY <1>1, <1>3 DEF PlaceInv

\* What a finished turn carries back has the events of its batch.
LEMMA RetryBatchesSame ==
    ASSUME NEW t, TaskOK(t), NEW outcome, NEW b \in RetryBatches(t, outcome), b # NoBatch
    PROVE  b.events = t.batch.events /\ b.cancelled = t.batch.cancelled
<1> DEFINE plain == IF t.channel = NoChannel THEN NoBatch ELSE BatchIfQueue(t.batch)
           cut == CancelledBatch(t.batch, t.control)
<1>1. b = plain \/ b = cut
  BY DEF RetryBatches
<1>2. plain = NoBatch \/ plain = t.batch
  BY DEF BatchIfQueue
<1>3. t.batch \in Batch
  BY DEF TaskOK, Task
<1>4. cut = NoBatch \/ cut = [t.batch EXCEPT !.reason = "Steer"]
      \/ cut = [t.batch EXCEPT !.reason = "Interrupt"]
  BY DEF CancelledBatch
<1> HIDE DEF plain, cut
<1> QED
  BY <1>1, <1>2, <1>3, <1>4 DEF Batch

\* A turn finishes or panics: its batch stays with it until the loop reads it.
LEMMA TaskStepsPlace ==
    ASSUME HarnessInv, PlaceInv, NEW a \in Agents,
           TaskPanics(a) \/ \E outcome \in Outcomes : TaskFinishes(a, outcome)
    PROVE  PlaceInv' /\ (\A b \in Agents : tasks'[b].batch = tasks[b].batch)
<1>1. tasks \in [Agents -> Task] /\ TaskOK(tasks[a])
  BY DEF HarnessInv, TasksOK
<1>2. queue' = queue /\ nextId' = nextId
  BY DEF TaskPanics, TaskFinishes
<1>3. (\A b \in Agents : tasks'[b].batch = tasks[b].batch) /\ RetrySame(tasks')
  <2>1. CASE TaskPanics(a)
    <3>1. \A b \in Agents : tasks'[b].batch = tasks[b].batch /\ tasks'[b].retry = tasks[b].retry
      BY <1>1, <2>1 DEF TaskPanics, Task
    <3> QED
      BY <3>1 DEF PlaceInv, RetrySame
  <2>2. CASE \E outcome \in Outcomes : TaskFinishes(a, outcome)
    <3>1. PICK outcome \in Outcomes : TaskFinishes(a, outcome)
      BY <2>2
    <3>2. PICK b \in RetryBatches(tasks[a], outcome) :
            tasks' = [tasks EXCEPT ![a].phase = "done", ![a].outcome = outcome,
                                   ![a].retry = b]
      BY <3>1 DEF TaskFinishes
    <3>3. tasks' = [tasks EXCEPT ![a] = [tasks[a] EXCEPT !.phase = "done",
                                           !.outcome = outcome, !.retry = b]]
      BY <1>1, <3>2
    <3>4. /\ tasks'[a].batch = tasks[a].batch /\ tasks'[a].retry = b
          /\ \A d \in Agents : d # a => tasks'[d] = tasks[d]
      BY <1>1, <3>3 DEF Task
    <3>5. b # NoBatch => /\ b.events = tasks[a].batch.events
                         /\ b.cancelled = tasks[a].batch.cancelled
      BY <1>1, RetryBatchesSame
    <3> QED
      BY <3>4, <3>5 DEF PlaceInv, RetrySame
  <2> QED
    BY <2>1, <2>2
<1>4. PlaceOK(queue', tasks', nextId)
  BY <1>2, <1>3, StillStep DEF PlaceInv, SameEvents
<1> QED
  BY <1>2, <1>3, <1>4 DEF PlaceInv

\* DispatchNothing leaves the queue as the expiry block left it.
LEMMA DispatchNothingQueue ==
    ASSUME HarnessInv, DispatchNothing
    PROVE  queue' = ExpireInFlight(queue)
<1>1. PICK out \in FlushNext(queue) : out.batch = NoBatch /\ queue' = out.queue
  BY DEF DispatchNothing
<1>2. FlushOutcomeOK(ExpireInFlight(queue), out)
  BY FlushNextOK DEF HarnessInv
<1> QED
  BY <1>1, <1>2, ChannelNames DEF FlushOutcomeOK, BatchOK, NoBatch

\* A turn that ends gives back its own events, whichever arm reads it.
LEMMA TurnEndsShape ==
    ASSUME HarnessInv, PlaceInv, NEW a \in Agents, HandlePromptResult(a) \/ RecoverPanicked(a)
    PROVE  \E q : /\ QueueOK(q) /\ GivesBack(tasks[a], q)
                  /\ queue' = IF tasks[a].channel = NoChannel THEN q
                              ELSE MarkComplete(q, tasks[a].channel)
                  /\ tasks' = [tasks EXCEPT ![a] = NoTask]
                  /\ nextId' = nextId /\ steers' = steers
<1>1. TaskOK(tasks[a])
  BY DEF HarnessInv, TasksOK
<1>2. QueueOK(AfterResult(tasks[a]).queue) /\ QueueOK(AfterPanic(tasks[a]).queue)
  BY <1>1, AfterResultOK, AfterPanicOK DEF AfterOK
<1>3. CASE HandlePromptResult(a)
  BY <1>2, <1>3, AfterGivesBack DEF HandlePromptResult
<1>4. CASE RecoverPanicked(a)
  BY <1>2, <1>4, AfterGivesBack DEF RecoverPanicked
<1> QED
  BY <1>3, <1>4

\* Every step of the harness keeps every event in one place.
LEMMA NextPlace == HarnessInv /\ PlaceInv /\ [Next]_vars => PlaceInv'
<1> SUFFICES ASSUME HarnessInv, PlaceInv, [Next]_vars PROVE PlaceInv'
  OBVIOUS
<1>0. QueueOK(queue) /\ queue \in QueueState /\ tasks \in [Agents -> Task]
      /\ SameEvents(queue, queue)
  BY DEF HarnessInv, QueueOK, SameEvents
<1>1. CASE Maintain
  <2> DEFINE k == CompactExpiredState(queue)
  <2>1. QueueOK(k)
    BY <1>0, CompactExpiredStateOK
  <2>2. SameEvents(queue, k)
    BY <1>0 DEF SameEvents, QueueState, CompactExpiredState
  <2>3. queue' = ExpireInFlight(k) /\ tasks' = tasks /\ nextId' = nextId
    BY <1>1 DEF Maintain
  <2> HIDE DEF k
  <2> QED
    BY <2>1, <2>2, <2>3, ExpireStepPlace
<1>2. CASE DispatchNothing
  <2>1. tasks' = tasks /\ nextId' = nextId
    BY <1>2 DEF DispatchNothing
  <2> QED
    BY <1>0, <1>2, <2>1, DispatchNothingQueue, ExpireStepPlace
<1>3. CASE DispatchBatch
  BY <1>3, DispatchBatchPlace
<1>4. CASE DispatchExhausted
  BY <1>4, DispatchExhaustedPlace
<1>5. CASE HeartbeatTick
  <2>1. queue' = ExpireInFlight(queue) /\ nextId' = nextId
    BY <1>5 DEF HeartbeatTick
  <2> DEFINE beat == [NoTask EXCEPT !.phase = "running"]
  <2>2. beat.batch = NoBatch /\ beat.retry = NoBatch
    BY DEF NoTask
  <2>3. tasks' = tasks \/ \E a \in idle : tasks' = [tasks EXCEPT ![a] = beat]
    BY <1>5 DEF HeartbeatTick
  <2> HIDE DEF beat
  <2>4. \A a \in Agents :
          \/ tasks'[a].batch = tasks[a].batch /\ tasks'[a].retry = tasks[a].retry
          \/ tasks'[a].batch = NoBatch /\ tasks'[a].retry = NoBatch
    BY <1>0, <2>2, <2>3
  <2> QED
    BY <1>0, <2>1, <2>4, ExpireStepPlace
<1>6. CASE \E a \in Agents : HandlePromptResult(a) \/ RecoverPanicked(a)
  BY <1>6, TurnEndsShape, TurnEndsPlace
<1>7. CASE \E s \in steers : HandleSteerAck(s)
  BY <1>7, HandleSteerAckPlace
<1>8. CASE \E shape \in Shapes : RelayEvent(shape)
  BY <1>8, RelayEventPlace
<1>9. CASE \E c \in Channels : MemberRemoved(c)
  BY <1>9, MemberRemovedPlace
<1>10. CASE \E a \in Agents, outcome \in Outcomes : TaskFinishes(a, outcome)
  BY <1>10, TaskStepsPlace
<1>11. CASE \E a \in Agents : TaskPanics(a)
  BY <1>11, TaskStepsPlace
<1>12. CASE \E c \in Channels, signal \in Controls : ControlCommand(c, signal)
  <2>1. queue' = queue /\ nextId' = nextId /\ SameBatches(tasks')
    BY <1>12, ArmsSameBatches DEF ControlCommand
  <2> QED
    BY <1>0, <2>1, StillStepPlace
<1>13. CASE \E c \in Channels : HandleExtendDeadline(c) \/ RetryAfterPasses(c) \/ DeadlinePasses(c)
  <2>1. tasks' = tasks /\ nextId' = nextId /\ SameEvents(queue, queue')
    BY <1>0, <1>13 DEF HandleExtendDeadline, RetryAfterPasses, DeadlinePasses, ExtendDeadline,
                       SameEvents, QueueState
  <2> QED
    BY <2>1, StillStepPlace DEF SameBatches
<1>14. CASE \/ Collect \/ DrainDone \/ TimerTick \/ Exited \/ UNCHANGED vars
            \/ \E c \in Channels : MemberAdded(c)
            \/ \E a \in Agents : CircuitAges(a)
            \/ \E a \in Agents, result \in {"ok", "failed"} : RespawnEnds(a, result)
            \/ \E s \in steers, state \in Resolved \cup {"written"} : SteerStep(s, state)
  <2>1. UNCHANGED <<queue, tasks, nextId>>
    BY <1>14 DEF Collect, DrainDone, TimerTick, Exited, vars, MemberAdded, CircuitAges,
                 RespawnEnds, SteerStep
  <2> QED
    BY <1>0, <2>1, StillStepPlace DEF SameBatches
<1> QED
  BY <1>1, <1>2, <1>3, <1>4, <1>5, <1>6, <1>7, <1>8, <1>9, <1>10, <1>11, <1>12, <1>13, <1>14
     DEF Next, LoopStep, OtherStep

\* Events are in one place in every behaviour of the harness.
LEMMA PlaceInvariant == Spec => []PlaceInv
<1> QED
  BY InitPlace, NextPlace, HarnessInvariant, PTL DEF Spec

\* Whatever requeues, cancels, expires, releases or steers it, an event is never
\* queued twice, nor queued while it is withheld, kept as cancelled or prompted.
THEOREM EventsInOnePlace == Spec => []OnePlace
<1>1. PlaceInv => OnePlace
  <2> SUFFICES ASSUME PlaceInv PROVE OnePlace
    OBVIOUS
  <2>1. \A S, T : Apart(S, T) => S \cap T = {}
    BY DEF Apart
  <2>2. \A c \in Channels : \A s \in {queue.queues[c], queue.cancelled[c], queue.withheld[c]} :
          \A i, j \in DOMAIN s : s[i].id = s[j].id => i = j
    BY DEF PlaceInv, PlaceOK, Separate, ChannelSound, Distinct
  <2>3. \A c \in Channels :
          /\ Items(queue.queues[c]) \cap Items(queue.cancelled[c]) = {}
          /\ Items(queue.queues[c]) \cap Items(queue.withheld[c]) = {}
          /\ Items(queue.cancelled[c]) \cap Items(queue.withheld[c]) = {}
    BY <2>1 DEF PlaceInv, PlaceOK, Separate, ChannelSound
  <2>4. \A c \in Channels : \A a \in Agents : QueueItems(c) \cap TaskItems(a) = {}
    BY <2>1 DEF PlaceInv, PlaceOK, Separate, QueueItems, ChannelItems, TaskItems
  <2>5. \A a, b \in Agents : a # b => TaskItems(a) \cap TaskItems(b) = {}
    BY <2>1 DEF PlaceInv, PlaceOK, Separate, TaskItems
  <2> QED
    BY <2>2, <2>3, <2>4, <2>5 DEF OnePlace
<1> QED
  BY <1>1, PlaceInvariant, PTL

-----------------------------------------------------------------------------
(* Steers *)

\* Some queue, some cancelled turn or some prompt has the event: it is held,
\* and not withheld for a steer.
Loose(q, ts, f) ==
    \/ \E c \in Channels : f \in Items(q.queues[c]) \cup Items(q.cancelled[c])
    \/ \E a \in Agents : f \in BatchItems(ts[a].batch)

\* While no deadline has passed, the expiry block moves nothing.
LEMMA NothingMoves ==
    ASSUME NEW q \in QueueState, \A c \in Channels : q.deadlines[c] # "passed"
    PROVE  SameEvents(q, ExpireInFlight(q))
<1>1. Expired(q) = {}
  BY DEF Expired
<1>2. /\ q.queues = [c \in Channels |-> q.queues[c]]
      /\ q.withheld = [c \in Channels |-> q.withheld[c]]
  BY DEF QueueState
<1>3. ExpireInFlight(q).queues = [c \in Channels |-> q.queues[c]]
  BY <1>1 DEF ExpireInFlight, QueueState
<1>4. ExpireInFlight(q).withheld = [c \in Channels |-> q.withheld[c]]
  BY <1>1 DEF ExpireInFlight, QueueState
<1>5. ExpireInFlight(q).cancelled = q.cancelled
  BY DEF ExpireInFlight, QueueState
<1> QED
  BY <1>2, <1>3, <1>4, <1>5 DEF SameEvents

\* The history shows a steer only where a steer was acknowledged.
LEMMA SettleSteered ==
    ASSUME NEW f \in [1..MaxEvents -> Fates], NEW evs, NEW end, end # "steered"
    PROVE  \A i \in 1..MaxEvents : Settle(f, evs, end)[i] = "steered" => f[i] = "steered"
BY DEF Settle

\* A channel whose side table stays takes nothing out of it.
LEMMA LooseChannel ==
    ASSUME NEW q, NEW r, NEW c, NEW B, ChannelSound(r, c), r.withheld[c] = q.withheld[c],
           ChannelItems(r, c) \subseteq ChannelItems(q, c) \cup B
    PROVE  Items(r.queues[c]) \cup Items(r.cancelled[c]) \subseteq
             Items(q.queues[c]) \cup Items(q.cancelled[c]) \cup B
<1> SUFFICES ASSUME NEW f \in Items(r.queues[c]) \cup Items(r.cancelled[c])
             PROVE  f \in Items(q.queues[c]) \cup Items(q.cancelled[c]) \cup B
  OBVIOUS
<1>1. f \in ChannelItems(q, c) \cup B
  BY DEF ChannelItems
<1>2. f \notin Items(r.withheld[c])
  BY DEF ChannelSound, Apart
<1> QED
  BY <1>1, <1>2 DEF ChannelItems

\* Steers whose states change, and nothing else of them.
SteersKept(st) ==
    /\ \A s \in st : \E r \in steers : r.event = s.event
    /\ \A r \in steers : \E s \in st : s.event = r.event
    /\ \A s, t \in st : s.event.id = t.event.id => s = t

SteerIds ==
    /\ \A s \in steers : s.event.id < nextId
    /\ \A s, t \in steers : s.event.id = t.event.id => s = t

\* What all steps but acks and arrivals have in common: the side table gains
\* nothing, no event leaves it while no turn expires, and no turn is steered.
QuietMove ==
    /\ \A c \in Channels : Items(queue'.withheld[c]) \subseteq Items(queue.withheld[c])
    /\ nextId' = nextId
    /\ SteersKept(steers')
    /\ TurnInv => \A f : Loose(queue', tasks', f) => Loose(queue, tasks, f)
    /\ TurnInv /\ ~(\E c \in Channels : MemberRemoved(c)) => queue'.withheld = queue.withheld
    /\ \A i \in 1..MaxEvents : fate'[i] = "steered" => fate[i] = "steered"
    /\ \A a \in Agents : tasks[a].control = "armed" => tasks'[a].control # "Steer"

\* Steers that are left alone are kept.
LEMMA SteersStay ==
    ASSUME SteerIds
    PROVE  SteersKept(steers)
BY DEF SteerIds, SteersKept

\* Events that stay in their places, in turns that keep theirs or lose them.
LEMMA StillLoose ==
    ASSUME NEW q, NEW r, SameEvents(q, r), NEW ts, NEW us,
           \A a \in Agents : us[a].batch = ts[a].batch \/ us[a].batch = NoBatch
    PROVE  \A f : Loose(r, us, f) => Loose(q, ts, f)
BY NoBatchSound DEF Loose, SameEvents

\* A step that only expires turns.
LEMMA ExpireQuiet ==
    ASSUME HarnessInv, PlaceInv, SteerIds, NEW q, QueueOK(q), SameEvents(queue, q),
           q.deadlines = queue.deadlines,
           queue' = ExpireInFlight(q), nextId' = nextId, steers' = steers,
           \A a \in Agents : tasks'[a].batch = tasks[a].batch \/ tasks'[a].batch = NoBatch,
           fate' = Settle(fate, ExpiryEvicts(q), "dropped"),
           \A a \in Agents : tasks[a].control = "armed" => tasks'[a].control # "Steer"
    PROVE  QuietMove
<1>1. \A c \in Channels : Items(queue'.withheld[c]) \subseteq Items(queue.withheld[c])
  <2>1. PlaceOK(q, tasks, nextId)
    BY StillStep DEF PlaceInv
  <2>2. \A c \in Channels : Items(queue'.withheld[c]) \subseteq Items(q.withheld[c])
    BY <2>1, ExpireMoves DEF PlaceOK, Separate
  <2> QED
    BY <2>2 DEF SameEvents
<1>2. ASSUME TurnInv PROVE SameEvents(queue, queue')
  <2>1. SameEvents(q, queue')
    BY <1>2, NothingMoves DEF TurnInv, QueueOK
  <2> QED
    BY <2>1 DEF SameEvents
<1>3. TurnInv => \A f : Loose(queue', tasks', f) => Loose(queue, tasks, f)
  BY <1>2, StillLoose
<1>4. \A i \in 1..MaxEvents : fate'[i] = "steered" => fate[i] = "steered"
  BY SettleSteered DEF HarnessInv, HistoryOK
<1>5. SteersKept(steers')
  BY SteersStay
<1>6. TurnInv => queue'.withheld = queue.withheld
  BY <1>2 DEF SameEvents
<1> QED
  BY <1>1, <1>3, <1>4, <1>5, <1>6 DEF QuietMove

\* A step that moves no event.
LEMMA StillQuiet ==
    ASSUME SameEvents(queue, queue'), nextId' = nextId, SteersKept(steers'),
           \A a \in Agents : tasks'[a].batch = tasks[a].batch, fate' = fate,
           \A a \in Agents : tasks[a].control = "armed" => tasks'[a].control # "Steer"
    PROVE  QuietMove
<1>1. \A f : Loose(queue', tasks', f) => Loose(queue, tasks, f)
  BY StillLoose
<1> QED
  BY <1>1 DEF QuietMove, SameEvents

\* The end of a turn puts its events back in its channel's queue or among its
\* cancelled events, never in the side table.
LEMMA TurnEndsQuiet ==
    ASSUME HarnessInv, PlaceInv, SteerIds, NEW a \in Agents,
           HandlePromptResult(a) \/ RecoverPanicked(a)
    PROVE  QuietMove
<1>1. PICK q : /\ QueueOK(q) /\ GivesBack(tasks[a], q)
               /\ queue' = IF tasks[a].channel = NoChannel THEN q
                           ELSE MarkComplete(q, tasks[a].channel)
               /\ tasks' = [tasks EXCEPT ![a] = NoTask]
               /\ nextId' = nextId /\ steers' = steers
  BY TurnEndsShape
<1>2. TaskOK(tasks[a]) /\ tasks \in [Agents -> Task] /\ QueueOK(queue)
      /\ fate \in [1..MaxEvents -> Fates]
  BY DEF HarnessInv, TasksOK, HistoryOK
<1>3. SameEvents(q, queue')
  BY <1>1, <1>2, MethodsSameEvents DEF SameEvents, TaskOK, Task, QueueOK
<1>4. /\ tasks'[a].batch = NoBatch /\ tasks'[a].control = "none"
      /\ \A b \in Agents : b # a => tasks'[b] = tasks[b]
  BY <1>1, <1>2 DEF NoTask
<1>5. q.withheld = queue.withheld /\ \A f : Loose(q, tasks', f) => Loose(queue, tasks, f)
  <2>1. CASE q = queue
    <3>1. SameEvents(queue, q) /\ \A b \in Agents : tasks'[b].batch = tasks[b].batch
                                                    \/ tasks'[b].batch = NoBatch
      BY <1>4, <2>1 DEF SameEvents
    <3> QED
      BY <2>1, <3>1, StillLoose
  <2>2. CASE q # queue
    <3>1. PICK b, reason : /\ BatchOK(b) /\ b.channel = tasks[a].channel
                           /\ b.events = tasks[a].batch.events
                           /\ b.cancelled = tasks[a].batch.cancelled
                           /\ q \in {Requeue(queue, b), RequeueAsCancelled(queue, b, reason)}
      BY <1>1, <2>2 DEF GivesBack
    <3> DEFINE c == b.channel
    <3>2. BatchItems(b) = BatchItems(tasks[a].batch) /\ BatchSound(b)
      BY <3>1 DEF BatchItems, BatchSound, PlaceInv, PlaceOK, Separate
    <3>3. c \in Channels /\ ChannelSound(queue, c) /\ Apart(ChannelItems(queue, c), BatchItems(b))
      BY <3>1, <3>2 DEF BatchOK, PlaceInv, PlaceOK, Separate
    <3>4. /\ ChannelSound(q, c) /\ OthersSame(queue, q, c)
          /\ q.withheld = queue.withheld
          /\ ChannelItems(q, c) \subseteq ChannelItems(queue, c) \cup BatchItems(b)
      BY <1>2, <3>1, <3>2, <3>3, RequeueMoves
    <3> HIDE DEF c
    <3>5. Items(q.queues[c]) \cup Items(q.cancelled[c]) \subseteq
            Items(queue.queues[c]) \cup Items(queue.cancelled[c]) \cup BatchItems(b)
      BY <3>4, LooseChannel
    <3>6. \A d \in Channels : Items(q.queues[d]) \cup Items(q.cancelled[d]) \subseteq
            Items(queue.queues[d]) \cup Items(queue.cancelled[d]) \cup BatchItems(tasks[a].batch)
      BY <3>2, <3>4, <3>5 DEF OthersSame
    <3>7. \A d \in Agents : BatchItems(tasks'[d].batch) \subseteq BatchItems(tasks[d].batch)
      BY <1>4, NoBatchSound
    <3>8. ASSUME NEW f, Loose(q, tasks', f) PROVE Loose(queue, tasks, f)
      <4>1. CASE \E d \in Channels : f \in Items(q.queues[d]) \cup Items(q.cancelled[d])
        BY <3>6, <4>1 DEF Loose
      <4>2. CASE \E d \in Agents : f \in BatchItems(tasks'[d].batch)
        BY <3>7, <4>2 DEF Loose
      <4> QED
        BY <3>8, <4>1, <4>2 DEF Loose
    <3> QED
      BY <3>4, <3>8
  <2> QED
    BY <2>1, <2>2
<1>6. queue'.withheld = queue.withheld /\ \A f : Loose(queue', tasks', f) => Loose(queue, tasks, f)
  BY <1>3, <1>5 DEF SameEvents, Loose
<1>7. \A i \in 1..MaxEvents : fate'[i] = "steered" => fate[i] = "steered"
  <2>1. \/ fate' = fate
        \/ \E evs : \E end \in {"answered", "dropped", "notified"} : fate' = Settle(fate, evs, end)
    <3>1. \A t : \/ AfterResult(t).fate = fate
                 \/ \E evs : \E end \in {"answered", "dropped", "notified"} :
                       AfterResult(t).fate = Settle(fate, evs, end)
      BY DEF AfterResult, AfterRequeue
    <3>2. \A t : \E evs : \E end \in {"answered", "dropped", "notified"} :
                       AfterPanic(t).fate = Settle(fate, evs, end)
      BY DEF AfterPanic, AfterRequeue
    <3>3. fate' \in {AfterResult(tasks[a]).fate, AfterPanic(tasks[a]).fate}
      BY DEF HandlePromptResult, RecoverPanicked
    <3> QED
      BY <3>1, <3>2, <3>3
  <2> QED
    BY <1>2, <2>1, SettleSteered
<1>8. SteersKept(steers')
  BY <1>1, SteersStay
<1> QED
  BY <1>1, <1>4, <1>6, <1>7, <1>8 DEF QuietMove

\* What flush_next takes was queued or cancelled, never withheld.
LEMMA FlushLoose ==
    ASSUME HarnessInv, PlaceInv, NEW out \in FlushNext(queue), out.batch # NoBatch
    PROVE  /\ out.batch.channel \in Channels
           /\ \A d \in Channels : Items(out.queue.withheld[d]) \subseteq Items(queue.withheld[d])
           /\ TurnInv => out.queue.withheld = queue.withheld
           /\ TurnInv => \A d \in Channels :
                 Items(out.queue.queues[d]) \cup Items(out.queue.cancelled[d]) \subseteq
                   Items(queue.queues[d]) \cup Items(queue.cancelled[d])
           /\ TurnInv => BatchItems(out.batch) \subseteq
                 Items(queue.queues[out.batch.channel]) \cup Items(queue.cancelled[out.batch.channel])
<1> DEFINE x == ExpireInFlight(queue)
           c == out.batch.channel
<1>1. QueueOK(queue) /\ \A d \in Channels : ChannelSound(queue, d)
  BY DEF HarnessInv, PlaceInv, PlaceOK, Separate
<1>2. FlushMoves(x, out)
  BY <1>1, FlushNextMoves
<1>3. \A d \in Channels : Items(x.withheld[d]) \subseteq Items(queue.withheld[d])
  BY <1>1, ExpireMoves
<1>4. ASSUME TurnInv PROVE SameEvents(queue, x)
  BY <1>1, <1>4, NothingMoves DEF TurnInv, QueueOK
<1> HIDE DEF x
<1>5. /\ c \in Channels /\ out.queue.withheld = x.withheld /\ OthersSame(x, out.queue, c)
      /\ Items(out.queue.queues[c]) \subseteq Items(x.queues[c])
      /\ Items(out.queue.cancelled[c]) \subseteq Items(x.cancelled[c])
      /\ Apart(ChannelItems(out.queue, c), BatchItems(out.batch))
      /\ BatchItems(out.batch) \subseteq ChannelItems(x, c)
  BY <1>2 DEF FlushMoves
<1> HIDE DEF c
<1>6. \A d \in Channels : Items(out.queue.queues[d]) \cup Items(out.queue.cancelled[d]) \subseteq
                            Items(x.queues[d]) \cup Items(x.cancelled[d])
  BY <1>5 DEF OthersSame
<1>7. BatchItems(out.batch) \subseteq Items(x.queues[c]) \cup Items(x.cancelled[c])
  <2>1. BatchItems(out.batch) \cap Items(x.withheld[c]) = {}
    BY <1>5 DEF ChannelItems, Apart
  <2> QED
    BY <1>5, <2>1 DEF ChannelItems
<1>8. TurnInv => \A d \in Channels :
                 Items(out.queue.queues[d]) \cup Items(out.queue.cancelled[d]) \subseteq
                   Items(queue.queues[d]) \cup Items(queue.cancelled[d])
  BY <1>4, <1>6 DEF SameEvents
<1>9. TurnInv => BatchItems(out.batch) \subseteq Items(queue.queues[c]) \cup Items(queue.cancelled[c])
  BY <1>4, <1>7 DEF SameEvents
<1>10. TurnInv => out.queue.withheld = queue.withheld
  BY <1>4, <1>5 DEF SameEvents
<1> QED
  BY <1>3, <1>5, <1>8, <1>9, <1>10 DEF c

\* dispatch_pending starts a turn with what it took.
LEMMA DispatchBatchQuiet ==
    ASSUME HarnessInv, PlaceInv, SteerIds, DispatchBatch
    PROVE  QuietMove
<1> DEFINE Started(b) == [phase |-> "running", channel |-> b.channel, batch |-> b,
                          root |-> b.events[Len(b.events)].root, control |-> "armed",
                          outcome |-> "none", retry |-> NoBatch]
<1>0. \A b : Started(b).batch = b /\ Started(b).control = "armed"
  OBVIOUS
<1>1. PICK out \in FlushNext(queue), a \in idle :
        /\ out.batch # NoBatch
        /\ queue' = out.queue
        /\ tasks' = [tasks EXCEPT ![a] = Started(out.batch)]
  BY DEF DispatchBatch
<1> HIDE DEF Started
<1>2. a \in Agents /\ tasks \in [Agents -> Task] /\ fate \in [1..MaxEvents -> Fates]
  BY DEF HarnessInv, RestOK, HistoryOK
<1>3. /\ tasks'[a].batch = out.batch /\ tasks'[a].control = "armed"
      /\ \A b \in Agents : b # a => tasks'[b] = tasks[b]
  BY <1>0, <1>1, <1>2
<1>4. /\ out.batch.channel \in Channels
      /\ \A d \in Channels : Items(queue'.withheld[d]) \subseteq Items(queue.withheld[d])
      /\ TurnInv => queue'.withheld = queue.withheld
  BY <1>1, FlushLoose
<1>5. ASSUME TurnInv, NEW f, Loose(queue', tasks', f) PROVE Loose(queue, tasks, f)
  <2>1. CASE \E d \in Channels : f \in Items(queue'.queues[d]) \cup Items(queue'.cancelled[d])
    BY <1>1, <1>5, <2>1, FlushLoose DEF Loose
  <2>2. CASE f \in BatchItems(tasks'[a].batch)
    BY <1>1, <1>3, <1>4, <1>5, <2>2, FlushLoose DEF Loose
  <2>3. CASE \E b \in Agents \ {a} : f \in BatchItems(tasks'[b].batch)
    BY <1>3, <2>3 DEF Loose
  <2> QED
    BY <1>5, <2>1, <2>2, <2>3 DEF Loose
<1>6. /\ nextId' = nextId /\ steers' = steers
      /\ fate' = Settle(fate, ExpiryEvicts(queue), "dropped")
  BY DEF DispatchBatch
<1>7. SteersKept(steers')
  BY <1>6, SteersStay
<1>8. \A i \in 1..MaxEvents : fate'[i] = "steered" => fate[i] = "steered"
  BY <1>2, <1>6, SettleSteered
<1> QED
  BY <1>3, <1>4, <1>5, <1>6, <1>7, <1>8 DEF QuietMove

\* dispatch_pending finds no agent and gives back what it took.
LEMMA DispatchExhaustedQuiet ==
    ASSUME HarnessInv, PlaceInv, SteerIds, DispatchExhausted
    PROVE  QuietMove
<1>1. PICK out \in FlushNext(queue) :
        /\ out.batch # NoBatch
        /\ queue' = MarkComplete(RequeuePreserveTimestamps(out.queue, out.batch),
                                 out.batch.channel)
        /\ fate' = Settle(fate, ExpiryEvicts(queue) \cup
                     Overflow(out.queue.queues[out.batch.channel], out.batch.events), "dropped")
  BY DEF DispatchExhausted
<1> DEFINE c == out.batch.channel
           r == RequeuePreserveTimestamps(out.queue, out.batch)
<1>2. QueueOK(queue) /\ fate \in [1..MaxEvents -> Fates] /\ (\A d \in Channels : ChannelSound(queue, d))
  BY DEF HarnessInv, HistoryOK, PlaceInv, PlaceOK, Separate
<1>3. QueueOK(out.queue) /\ BatchOK(out.batch)
  BY <1>1, <1>2, FlushNextOK DEF FlushOutcomeOK
<1>4. FlushMoves(ExpireInFlight(queue), out)
  BY <1>2, FlushNextMoves
<1>5. /\ c \in Channels /\ ChannelSound(out.queue, c)
      /\ BatchSound(out.batch) /\ Apart(ChannelItems(out.queue, c), BatchItems(out.batch))
  BY <1>1, <1>4 DEF FlushMoves
<1>6. /\ ChannelSound(r, c) /\ OthersSame(out.queue, r, c) /\ r.withheld = out.queue.withheld
      /\ ChannelItems(r, c) \subseteq ChannelItems(out.queue, c) \cup BatchItems(out.batch)
  BY <1>3, <1>5, RequeueMoves
<1>7. r \in QueueState
  BY <1>3, RequeuePreserveTimestampsOK DEF QueueOK
<1> HIDE DEF r, c
<1>8. SameEvents(r, queue')
  BY <1>1, <1>5, <1>7, MethodsSameEvents DEF r, c
<1>9. Items(r.queues[c]) \cup Items(r.cancelled[c]) \subseteq
        Items(out.queue.queues[c]) \cup Items(out.queue.cancelled[c]) \cup BatchItems(out.batch)
  BY <1>6, LooseChannel
<1>10. /\ \A d \in Channels : Items(queue'.withheld[d]) \subseteq Items(queue.withheld[d])
       /\ TurnInv => queue'.withheld = queue.withheld
  BY <1>1, <1>6, <1>8, FlushLoose DEF SameEvents
<1>11. tasks' = tasks /\ nextId' = nextId /\ steers' = steers
  BY DEF DispatchExhausted
<1>12. ASSUME TurnInv, NEW f, Loose(queue', tasks', f) PROVE Loose(queue, tasks, f)
  <2>1. \A d \in Channels : Items(r.queues[d]) \cup Items(r.cancelled[d]) \subseteq
                              Items(queue.queues[d]) \cup Items(queue.cancelled[d])
    BY <1>1, <1>6, <1>9, <1>12, FlushLoose DEF OthersSame, c
  <2> QED
    BY <1>8, <1>11, <1>12, <2>1 DEF Loose, SameEvents
<1>13. SteersKept(steers')
  BY <1>11, SteersStay
<1>14. \A i \in 1..MaxEvents : fate'[i] = "steered" => fate[i] = "steered"
  BY <1>1, <1>2, SettleSteered
<1> QED
  BY <1>10, <1>11, <1>12, <1>13, <1>14 DEF QuietMove

\* A turn that ends leaves its steers to be read, with the same events.
LEMMA SteersAfterKept ==
    ASSUME HarnessInv, SteerIds, NEW a
    PROVE  SteersKept(SteersAfter(a))
<1> DEFINE F(s) == IF s.agent = a /\ s.state \notin Resolved
                   THEN [s EXCEPT !.state = "neutral"] ELSE s
<1>1. SteersAfter(a) = {F(s) : s \in steers}
  BY DEF SteersAfter
<1>2. \A s \in steers : F(s).event = s.event
  BY DEF HarnessInv, RestOK, SteerRecord
<1> HIDE DEF F
<1> QED
  BY <1>1, <1>2 DEF SteersKept, SteerIds

\* A step of a steer changes its state only.
LEMMA SteerStepKept ==
    ASSUME HarnessInv, SteerIds, NEW s \in steers, NEW state, SteerStep(s, state)
    PROVE  SteersKept(steers')
<1> DEFINE r == [s EXCEPT !.state = state]
<1>1. r.event = s.event
  BY DEF HarnessInv, RestOK, SteerRecord
<1>2. steers' = (steers \ {s}) \cup {r}
  BY DEF SteerStep
<1> HIDE DEF r
<1> QED
  BY <1>1, <1>2 DEF SteersKept, SteerIds

\* A removed channel loses its events, the withheld ones too.
LEMMA MemberRemovedQuiet ==
    ASSUME HarnessInv, PlaceInv, SteerIds, NEW c \in Channels, MemberRemoved(c)
    PROVE  QuietMove
<1>1. queue' = DrainChannel(queue, c) /\ tasks' = tasks /\ nextId' = nextId /\ steers' = steers
  BY DEF MemberRemoved
<1>2. PICK evs : fate' = Settle(fate, evs, "dropped")
  BY DEF MemberRemoved
<1>3. OthersSame(queue, queue', c) /\ ChannelItems(queue', c) = {}
  BY <1>1, DrainMoves DEF HarnessInv
<1>4. \A d \in Channels : /\ Items(queue'.withheld[d]) \subseteq Items(queue.withheld[d])
                          /\ Items(queue'.queues[d]) \subseteq Items(queue.queues[d])
                          /\ Items(queue'.cancelled[d]) \subseteq Items(queue.cancelled[d])
  BY <1>3 DEF OthersSame, ChannelItems
<1>5. \A f : Loose(queue', tasks', f) => Loose(queue, tasks, f)
  BY <1>1, <1>4 DEF Loose
<1>6. \A i \in 1..MaxEvents : fate'[i] = "steered" => fate[i] = "steered"
  BY <1>2, SettleSteered DEF HarnessInv, HistoryOK
<1>7. SteersKept(steers')
  BY <1>1, SteersStay
<1> QED
  BY <1>1, <1>4, <1>5, <1>6, <1>7 DEF QuietMove

\* A turn finishes or panics.
LEMMA TaskStepsQuiet ==
    ASSUME HarnessInv, PlaceInv, SteerIds, NEW a \in Agents,
           TaskPanics(a) \/ \E outcome \in Outcomes : TaskFinishes(a, outcome)
    PROVE  QuietMove
<1>1. \A b \in Agents : tasks'[b].batch = tasks[b].batch
  BY TaskStepsPlace
<1>2. queue' = queue /\ nextId' = nextId /\ fate' = fate /\ steers' = SteersAfter(a)
  BY DEF TaskPanics, TaskFinishes
<1>3. \A b \in Agents : tasks'[b].control = tasks[b].control
  <2>1. tasks \in [Agents -> Task]
    BY DEF HarnessInv
  <2>2. CASE TaskPanics(a)
    BY <2>1, <2>2 DEF TaskPanics, Task
  <2>3. CASE \E outcome \in Outcomes : TaskFinishes(a, outcome)
    <3>1. PICK outcome, b : tasks' = [tasks EXCEPT ![a].phase = "done", ![a].outcome = outcome,
                                                   ![a].retry = b]
      BY <2>3 DEF TaskFinishes
    <3>2. tasks' = [tasks EXCEPT ![a] = [tasks[a] EXCEPT !.phase = "done",
                                           !.outcome = outcome, !.retry = b]]
      BY <2>1, <3>1
    <3> QED
      BY <2>1, <3>2 DEF Task
  <2> QED
    BY <2>2, <2>3
<1>4. SteersKept(steers')
  BY <1>2, SteersAfterKept
<1> QED
  BY <1>1, <1>2, <1>3, <1>4, StillQuiet DEF SameEvents

\* Owner and observer commands send no Steer.
LEMMA ControlCommandQuiet ==
    ASSUME HarnessInv, SteerIds, NEW c \in Channels, NEW signal \in Controls,
           ControlCommand(c, signal)
    PROVE  QuietMove
<1>1. queue' = queue /\ nextId' = nextId /\ fate' = fate /\ steers' = steers
  BY DEF ControlCommand
<1>2. \A b \in Agents : tasks'[b].batch = tasks[b].batch
  BY ArmsSameBatches DEF SameBatches
<1>3. signal # "Steer"
  BY HarnessConstants
<1>4. tasks \in [Agents -> Task] /\ TasksOf(c) \subseteq Agents
  BY DEF HarnessInv, TasksOf, Busy
<1>5. tasks' = tasks \/ \E a \in Agents : tasks' = [tasks EXCEPT ![a].control = signal]
  BY <1>4 DEF ControlCommand, Signal, TakeControl
<1>6. \A b \in Agents : tasks[b].control = "armed" => tasks'[b].control # "Steer"
  BY <1>3, <1>4, <1>5 DEF Task
<1>7. SteersKept(steers')
  BY <1>1, SteersStay
<1> QED
  BY <1>1, <1>2, <1>6, <1>7, StillQuiet DEF SameEvents

\* Every step but a steer ack and an arrival is quiet.
LEMMA NextQuiet ==
    ASSUME HarnessInv, PlaceInv, SteerIds, [Next]_vars,
           ~ \E s \in steers : HandleSteerAck(s), ~ \E shape \in Shapes : RelayEvent(shape)
    PROVE  QuietMove
<1>0. QueueOK(queue) /\ queue \in QueueState /\ tasks \in [Agents -> Task]
      /\ SameEvents(queue, queue) /\ SteersKept(steers)
  BY SteersStay DEF HarnessInv, QueueOK, SameEvents
<1>1. CASE Maintain
  <2> DEFINE k == CompactExpiredState(queue)
  <2>1. QueueOK(k)
    BY <1>0, CompactExpiredStateOK
  <2>2. SameEvents(queue, k) /\ k.deadlines = queue.deadlines
    BY <1>0 DEF SameEvents, QueueState, CompactExpiredState
  <2>3. queue' = ExpireInFlight(k) /\ tasks' = tasks /\ nextId' = nextId /\ steers' = steers
        /\ fate' = Settle(fate, ExpiryEvicts(k), "dropped")
    BY <1>1 DEF Maintain
  <2> HIDE DEF k
  <2> QED
    BY <2>1, <2>2, <2>3, ExpireQuiet
<1>2. CASE DispatchNothing
  <2>1. tasks' = tasks /\ nextId' = nextId /\ steers' = steers
        /\ fate' = Settle(fate, ExpiryEvicts(queue), "dropped")
    BY <1>2 DEF DispatchNothing
  <2> QED
    BY <1>0, <1>2, <2>1, DispatchNothingQueue, ExpireQuiet
<1>3. CASE DispatchBatch
  BY <1>3, DispatchBatchQuiet
<1>4. CASE DispatchExhausted
  BY <1>4, DispatchExhaustedQuiet
<1>5. CASE HeartbeatTick
  <2>1. queue' = ExpireInFlight(queue) /\ nextId' = nextId /\ steers' = steers
        /\ fate' = Settle(fate, ExpiryEvicts(queue), "dropped")
    BY <1>5 DEF HeartbeatTick
  <2> DEFINE beat == [NoTask EXCEPT !.phase = "running"]
  <2>2. beat.batch = NoBatch /\ beat.control = "none"
    BY DEF NoTask
  <2>3. tasks' = tasks \/ \E a \in idle : tasks' = [tasks EXCEPT ![a] = beat]
    BY <1>5 DEF HeartbeatTick
  <2> HIDE DEF beat
  <2>4. \A a \in Agents : tasks'[a].batch = tasks[a].batch \/ tasks'[a].batch = NoBatch
    BY <1>0, <2>2, <2>3
  <2>5. \A a \in Agents : tasks[a].control = "armed" => tasks'[a].control # "Steer"
    BY <1>0, <2>2, <2>3
  <2> QED
    BY <1>0, <2>1, <2>4, <2>5, ExpireQuiet
<1>6. CASE \E a \in Agents : HandlePromptResult(a) \/ RecoverPanicked(a)
  BY <1>6, TurnEndsQuiet
<1>7. CASE \E c \in Channels : MemberRemoved(c)
  BY <1>7, MemberRemovedQuiet
<1>8. CASE \E a \in Agents : TaskPanics(a) \/ \E outcome \in Outcomes : TaskFinishes(a, outcome)
  BY <1>8, TaskStepsQuiet
<1>9. CASE \E c \in Channels, signal \in Controls : ControlCommand(c, signal)
  BY <1>9, ControlCommandQuiet
<1>10. CASE \E c \in Channels : HandleExtendDeadline(c) \/ RetryAfterPasses(c) \/ DeadlinePasses(c)
  <2>1. tasks' = tasks /\ nextId' = nextId /\ steers' = steers /\ fate' = fate
        /\ SameEvents(queue, queue')
    BY <1>0, <1>10 DEF HandleExtendDeadline, RetryAfterPasses, DeadlinePasses, ExtendDeadline,
                       SameEvents, QueueState
  <2> QED
    BY <1>0, <2>1, StillQuiet
<1>11. CASE \E s \in steers, state \in Resolved \cup {"written"} : SteerStep(s, state)
  <2>1. UNCHANGED <<queue, tasks, nextId, fate>> /\ SteersKept(steers')
    BY <1>11, SteerStepKept DEF SteerStep
  <2> QED
    BY <1>0, <2>1, StillQuiet
<1>12. CASE \/ Collect \/ DrainDone \/ TimerTick \/ Exited \/ UNCHANGED vars
            \/ \E c \in Channels : MemberAdded(c)
            \/ \E a \in Agents : CircuitAges(a)
            \/ \E a \in Agents, result \in {"ok", "failed"} : RespawnEnds(a, result)
  <2>1. UNCHANGED <<queue, tasks, nextId, fate, steers>>
    BY <1>12 DEF Collect, DrainDone, TimerTick, Exited, vars, MemberAdded, CircuitAges,
                 RespawnEnds
  <2> QED
    BY <1>0, <2>1, StillQuiet
<1> QED
  BY <1>1, <1>2, <1>3, <1>4, <1>5, <1>6, <1>7, <1>8, <1>9, <1>10, <1>11, <1>12
     DEF Next, LoopStep, OtherStep

\* What a steer ack does to the channel of its event.
LEMMA AckMoves ==
    ASSUME HarnessInv, PlaceInv, NEW s \in steers, HandleSteerAck(s), NEW e, e = s.event
    PROVE  /\ e \in Event /\ e.channel \in Channels
           /\ OthersSame(queue, queue', e.channel) /\ queue'.cancelled = queue.cancelled
           /\ Items(queue'.withheld[e.channel]) = Items(queue.withheld[e.channel]) \ {e}
           /\ Items(queue'.queues[e.channel]) \subseteq
                Items(queue.queues[e.channel]) \cup
                (IF s.state # "success" /\ e \in Items(queue.withheld[e.channel]) THEN {e} ELSE {})
           /\ s.state # "success" /\ e \in Items(queue.withheld[e.channel])
                => e \in Items(queue'.queues[e.channel])
<1> DEFINE c == e.channel
           x == ExtendDeadline(queue, c)
           w == queue.withheld[c]
           u == queue.queues[c]
<1>1. e \in Event /\ c \in Channels /\ queue \in QueueState
  BY DEF HarnessInv, RestOK, SteerRecord, Event, QueueOK
<1>2. /\ w \in Seq(Event) /\ u \in Seq(Event) /\ <<e>> \in Seq(Event)
      /\ Distinct(w) /\ Distinct(u)
  BY <1>1, FieldTypes DEF PlaceInv, PlaceOK, Separate, ChannelSound
<1>3. Items(DropEvent(w, e)) = Items(w) \ {e} /\ Items(DropEvent(u, e)) = Items(u) \ {e}
  BY <1>2, DropEventDistinct
<1>4. Items(PushFront(u, <<e>>)) \subseteq Items(u) \cup {e}
  <2> HIDE DEF u
  <2>1. Items(<<e>>) = {e}
    BY SingleItems
  <2>2. Items(PushFront(u, <<e>>)) \cup Overflow(u, <<e>>) = Items(u) \cup Items(<<e>>)
    BY <1>2, PushFrontItems
  <2> QED
    BY <2>1, <2>2
<1>5. e \in Items(PushFront(u, <<e>>))
  BY <1>1, <1>2, PushFrontHead
<1>6. CASE s.state = "success"
  <2>1. queue' = RemoveEvent(x, e)
    BY <1>6 DEF HandleSteerAck
  <2>2. SameEvents(queue, x) /\ x \in QueueState
    BY <1>1, MethodsSameEvents, ExtendDeadlineOK DEF HarnessInv, QueueOK
  <2> HIDE DEF x
  <2>3. /\ queue'.withheld[c] = DropEvent(x.withheld[c], e)
        /\ queue'.queues[c] = DropEvent(x.queues[c], e)
        /\ queue'.cancelled = x.cancelled /\ OthersSame(x, queue', c)
    BY <1>1, <2>1, <2>2 DEF RemoveEvent, QueueState, OthersSame
  <2>4. x.withheld[c] = w /\ x.queues[c] = u /\ x.cancelled = queue.cancelled
    BY <2>2 DEF SameEvents
  <2>5. OthersSame(queue, queue', c)
    BY <2>2, <2>3 DEF OthersSame, SameEvents
  <2> QED
    BY <1>1, <1>3, <1>6, <2>3, <2>4, <2>5
<1>7. CASE s.state # "success" /\ e \in Items(w)
  <2>1. queue' = ReleaseNativeSteer(queue, e)
    BY <1>7 DEF HandleSteerAck
  <2>2. /\ queue'.withheld[c] = DropEvent(w, e) /\ queue'.queues[c] = PushFront(u, <<e>>)
        /\ queue'.cancelled = queue.cancelled /\ OthersSame(queue, queue', c)
    BY <1>1, <1>7, <2>1 DEF ReleaseNativeSteer, QueueState, OthersSame
  <2> QED
    BY <1>1, <1>3, <1>4, <1>5, <1>7, <2>2
<1>8. CASE s.state # "success" /\ e \notin Items(w)
  <2>1. queue' = ReleaseNativeSteer(queue, e)
    BY <1>8 DEF HandleSteerAck
  <2>2. queue' = queue
    BY <1>8, <2>1 DEF ReleaseNativeSteer
  <2> QED
    BY <1>1, <1>8, <2>2 DEF OthersSame
<1> QED
  BY <1>6, <1>7, <1>8

\* What an arrival does to the queue of its channel and to the steers: nothing,
\* a push, or a push that is withheld for a new steer.
LEMMA ArrivalSteers ==
    ASSUME HarnessInv, PlaceInv, NEW shape \in Shapes, RelayEvent(shape),
           NEW e, e = Arrival(shape)
    PROVE  /\ OthersSame(queue, queue', e.channel) /\ queue'.cancelled = queue.cancelled
           /\ \/ queue' = queue /\ steers' = steers
              \/ /\ steers' = steers /\ queue'.withheld = queue.withheld
                 /\ Items(queue'.queues[e.channel]) \subseteq Items(queue.queues[e.channel]) \cup {e}
                 /\ e \in Items(queue'.queues[e.channel])
              \/ /\ \E s : s.event = e /\ steers' = steers \cup {s}
                 /\ Items(queue'.withheld[e.channel]) = Items(queue.withheld[e.channel]) \cup {e}
                 /\ Items(queue'.queues[e.channel]) \subseteq Items(queue.queues[e.channel])
                 /\ tasks' = tasks
<1> DEFINE c == e.channel
           q == Push(queue, e)
<1>1. e \in Event /\ c \in Channels /\ e.id = nextId /\ nextId \in Nat \ {0}
  BY ArrivalType
<1>2. /\ QueueOK(q) /\ ChannelSound(q, c) /\ OthersSame(queue, q, c)
      /\ q.cancelled = queue.cancelled /\ q.withheld = queue.withheld
      /\ ChannelItems(q, c) \subseteq ChannelItems(queue, c) \cup {e}
      /\ e \in Items(q.queues[c])
  BY ArrivalMoves
<1>3. \/ queue' = queue /\ steers' = steers
      \/ queue' = q /\ steers' = steers
      \/ \E a \in Agents : /\ queue' = MarkNativeSteerPending(q, e) /\ tasks' = tasks
                           /\ steers' = steers \cup {[event |-> e, agent |-> a, state |-> "buffered"]}
  BY DEF RelayEvent, NativeSteer, LeaveOrSignal, ConversationTasks, TasksOf, Busy
<1> HIDE DEF q
<1>4. Items(q.queues[c]) \subseteq Items(queue.queues[c]) \cup {e}
  BY <1>2 DEF ChannelItems, ChannelSound, Apart
<1>5. CASE queue' = queue /\ steers' = steers
  BY <1>5 DEF OthersSame
<1>6. CASE queue' = q /\ steers' = steers
  BY <1>2, <1>4, <1>6
<1>7. CASE \E a \in Agents : /\ queue' = MarkNativeSteerPending(q, e) /\ tasks' = tasks
                             /\ steers' = steers \cup {[event |-> e, agent |-> a, state |-> "buffered"]}
  <2>1. \E s : s.event = e /\ steers' = steers \cup {s}
    BY <1>7
  <2>2. q \in QueueState /\ q.queues[c] \in Seq(Event) /\ q.withheld[c] \in Seq(Event)
    BY <1>1, <1>2, FieldTypes DEF QueueOK
  <2>3. /\ queue'.withheld[c] = Append(q.withheld[c], e)
        /\ queue'.queues[c] = DropEvent(q.queues[c], e)
        /\ queue'.cancelled = q.cancelled /\ OthersSame(q, queue', c)
    <3>1. queue' = MarkNativeSteerPending(q, e) /\ e \in Items(q.queues[e.channel])
      BY <1>2, <1>7
    <3> QED
      BY <1>1, <2>2, <3>1 DEF MarkNativeSteerPending, QueueState, OthersSame
  <2>4. Items(queue'.queues[c]) = Items(q.queues[c]) \ {e}
    BY <1>2, <2>2, <2>3, DropEventDistinct DEF ChannelSound
  <2>5. Items(queue'.withheld[c]) = Items(q.withheld[c]) \cup {e}
    BY <1>1, <2>2, <2>3, AppendDistinct
  <2>6. OthersSame(queue, queue', c)
    BY <1>2, <2>3 DEF OthersSame
  <2> QED
    BY <1>2, <1>4, <1>7, <2>1, <2>3, <2>4, <2>5, <2>6
<1> QED
  BY <1>3, <1>5, <1>6, <1>7

\* Steers are of different events that arrived, and what a channel withholds is
\* of that channel and has its steer.
SteerInv ==
    /\ SteerIds
    /\ WithheldHasSteer
    /\ \A c \in Channels : \A e \in Items(queue.withheld[c]) : e.channel = c

\* A quiet step keeps that.
LEMMA QuietSteers ==
    ASSUME HarnessInv, SteerInv, QuietMove
    PROVE  SteerInv'
<1>1. SteerIds'
  BY DEF SteerInv, SteerIds, QuietMove, SteersKept
<1>2. WithheldHasSteer'
  <2> SUFFICES ASSUME NEW c \in Channels, NEW e \in Items(queue'.withheld[c])
               PROVE  \E s \in steers' : s.event = e
    BY DEF WithheldHasSteer
  <2>1. PICK r \in steers : r.event = e
    BY DEF QuietMove, SteerInv, WithheldHasSteer
  <2> QED
    BY <2>1 DEF QuietMove, SteersKept
<1>3. \A c \in Channels : \A e \in Items(queue'.withheld[c]) : e.channel = c
  BY DEF QuietMove, SteerInv
<1> QED
  BY <1>1, <1>2, <1>3 DEF SteerInv

\* A steer ack takes its event out of the side table with its steer.
LEMMA AckSteers ==
    ASSUME HarnessInv, PlaceInv, SteerInv, NEW s \in steers, HandleSteerAck(s)
    PROVE  SteerInv'
<1> DEFINE e == s.event
<1>1. /\ e.channel \in Channels /\ OthersSame(queue, queue', e.channel)
      /\ Items(queue'.withheld[e.channel]) = Items(queue.withheld[e.channel]) \ {e}
  BY AckMoves
<1>2. steers' = steers \ {s} /\ nextId' = nextId
  BY DEF HandleSteerAck
<1>3. SteerIds'
  BY <1>2 DEF SteerInv, SteerIds
<1>4. ASSUME NEW c \in Channels, NEW f \in Items(queue'.withheld[c])
      PROVE  f \in Items(queue.withheld[c]) /\ f # e
  <2>1. CASE c = e.channel
    BY <1>1, <1>4, <2>1
  <2>2. CASE c # e.channel
    BY <1>1, <1>4, <2>2 DEF OthersSame, SteerInv
  <2> QED
    BY <2>1, <2>2
<1>5. WithheldHasSteer'
  BY <1>2, <1>4 DEF SteerInv, WithheldHasSteer
<1>6. \A c \in Channels : \A f \in Items(queue'.withheld[c]) : f.channel = c
  BY <1>4 DEF SteerInv
<1> QED
  BY <1>3, <1>5, <1>6 DEF SteerInv

\* An arrival that is withheld has a new steer.
LEMMA ArrivalKeepsSteers ==
    ASSUME HarnessInv, PlaceInv, SteerInv, NEW shape \in Shapes, RelayEvent(shape)
    PROVE  SteerInv'
<1> DEFINE e == Arrival(shape)
<1>1. e.channel \in Channels /\ e.id = nextId /\ nextId \in Nat \ {0} /\ nextId' = nextId + 1
  BY ArrivalType DEF RelayEvent
<1>2. \A s \in steers : s.event.id \in Nat
  BY DEF HarnessInv, RestOK, SteerRecord, Event
<1>3. CASE steers' = steers /\ queue'.withheld = queue.withheld
  BY <1>1, <1>2, <1>3 DEF SteerInv, SteerIds, WithheldHasSteer
<1>4. CASE /\ \E s : s.event = e /\ steers' = steers \cup {s}
           /\ Items(queue'.withheld[e.channel]) = Items(queue.withheld[e.channel]) \cup {e}
           /\ OthersSame(queue, queue', e.channel)
  <2> HIDE DEF e
  <2>1. PICK s : s.event = e /\ steers' = steers \cup {s}
    BY <1>4
  <2>2. \A c \in Channels : \A f \in Items(queue'.withheld[c]) :
           f \in Items(queue.withheld[c]) \/ (f = e /\ c = e.channel)
    BY <1>4 DEF OthersSame
  <2>3. SteerIds'
    BY <1>1, <1>2, <2>1 DEF SteerInv, SteerIds
  <2>4. WithheldHasSteer'
    BY <2>1, <2>2 DEF SteerInv, WithheldHasSteer
  <2>5. \A c \in Channels : \A f \in Items(queue'.withheld[c]) : f.channel = c
    BY <2>2 DEF SteerInv
  <2> QED
    BY <2>3, <2>4, <2>5 DEF SteerInv
<1> QED
  BY <1>3, <1>4, ArrivalSteers

\* Every step keeps the steers' invariant.
LEMMA NextSteers == HarnessInv /\ PlaceInv /\ SteerInv /\ [Next]_vars => SteerInv'
<1> SUFFICES ASSUME HarnessInv, PlaceInv, SteerInv, [Next]_vars PROVE SteerInv'
  OBVIOUS
<1>1. CASE \E s \in steers : HandleSteerAck(s)
  BY <1>1, AckSteers
<1>2. CASE \E shape \in Shapes : RelayEvent(shape)
  BY <1>2, ArrivalKeepsSteers
<1>3. CASE ~(\E s \in steers : HandleSteerAck(s)) /\ ~(\E shape \in Shapes : RelayEvent(shape))
  <2>1. SteerIds
    BY DEF SteerInv
  <2>2. QuietMove
    BY <1>3, <2>1, NextQuiet
  <2> QED
    BY <2>2, QuietSteers
<1> QED
  BY <1>1, <1>2, <1>3

\* There is no steer at the start.
LEMMA InitSteers == Init => SteerInv
<1> SUFFICES ASSUME Init PROVE SteerInv
  OBVIOUS
<1>1. steers = {} /\ \A c \in Channels : queue.withheld[c] = <<>>
  BY DEF Init, EmptyQueue
<1> QED
  BY <1>1, EmptyItems DEF SteerInv, SteerIds, WithheldHasSteer

\* The steers' invariant holds throughout.
LEMMA SteerInvariant == Spec => []SteerInv
<1> QED
  BY InitSteers, NextSteers, PlaceInvariant, HarnessInvariant, PTL DEF Spec

\* The side table leaks nothing, whatever expires, is drained or ends first:
\* what it withholds always has a steer whose ack will release or remove it.
THEOREM WithheldIsReleased == Spec => []WithheldHasSteer
<1>1. SteerInv => WithheldHasSteer
  BY DEF SteerInv
<1> QED
  BY <1>1, SteerInvariant, PTL

-----------------------------------------------------------------------------
(* Delivered by a steer, or by a prompt, while no turn expires *)

\* Withheld in some channel.
Withheld(q, f) == \E c \in Channels : f \in Items(q.withheld[c])

\* An event that a steer may still deliver is nowhere else, and a delivered one
\* is held no more.
OnceInv ==
    /\ \A s \in steers : \A f : Loose(queue, tasks, f) => f.id # s.event.id
    /\ \A f : Loose(queue, tasks, f) \/ Withheld(queue, f) => fate[f.id] # "steered"

\* What is held has arrived.
LEMMA HeldIds ==
    ASSUME HarnessInv, PlaceInv
    PROVE  \A f : Loose(queue, tasks, f) \/ Withheld(queue, f) =>
                    f.id \in 1..MaxEvents /\ f.id < nextId
<1> SUFFICES ASSUME NEW f, Loose(queue, tasks, f) \/ Withheld(queue, f)
             PROVE  f.id \in 1..MaxEvents /\ f.id < nextId
  OBVIOUS
<1>1. f.id \in Nat \ {0} /\ f.id < nextId
  BY DEF PlaceInv, PlaceOK, Older, Loose, Withheld, ChannelItems
<1> QED
  BY <1>1, HarnessConstants DEF HarnessInv, RestOK

\* A quiet step delivers nothing twice.
LEMMA QuietOnce ==
    ASSUME HarnessInv, PlaceInv, TurnInv, OnceInv, QuietMove
    PROVE  OnceInv'
<1>1. \A f : Loose(queue', tasks', f) => Loose(queue, tasks, f)
  BY DEF QuietMove
<1>2. \A f : Withheld(queue', f) => Withheld(queue, f)
  BY DEF QuietMove, Withheld
<1>3. \A s \in steers' : \E r \in steers : r.event = s.event
  BY DEF QuietMove, SteersKept
<1>4. \A s \in steers' : \A f : Loose(queue', tasks', f) => f.id # s.event.id
  BY <1>1, <1>3 DEF OnceInv
<1>5. \A f : Loose(queue', tasks', f) \/ Withheld(queue', f) => fate'[f.id] # "steered"
  BY <1>1, <1>2, HeldIds DEF OnceInv, QuietMove
<1> QED
  BY <1>4, <1>5 DEF OnceInv

\* The ack of a delivered steer leaves the event nowhere; any other releases it.
LEMMA AckOnce ==
    ASSUME HarnessInv, PlaceInv, SteerInv, OnceInv, NEW s \in steers, HandleSteerAck(s)
    PROVE  OnceInv'
<1> DEFINE e == s.event
           c == e.channel
<1>1. /\ c \in Channels /\ OthersSame(queue, queue', c) /\ queue'.cancelled = queue.cancelled
      /\ Items(queue'.withheld[c]) = Items(queue.withheld[c]) \ {e}
      /\ Items(queue'.queues[c]) \subseteq Items(queue.queues[c]) \cup
           (IF s.state # "success" /\ e \in Items(queue.withheld[c]) THEN {e} ELSE {})
  BY AckMoves
<1>2. steers' = steers \ {s}
  BY DEF HandleSteerAck
<1>3. \A b \in Agents : tasks'[b].batch = tasks[b].batch
  BY ArmsSameBatches DEF SameBatches
<1>4. \A f : Loose(queue', tasks', f) =>
               Loose(queue, tasks, f) \/ (f = e /\ s.state # "success" /\ e \in Items(queue.withheld[c]))
  <2> HIDE DEF c, e
  <2>1. \A d \in Channels : \A f \in Items(queue'.queues[d]) :
            f \in Items(queue.queues[d])
            \/ (f = e /\ s.state # "success" /\ e \in Items(queue.withheld[c]))
    BY <1>1 DEF OthersSame
  <2> QED
    BY <1>1, <1>3, <2>1 DEF Loose
<1>5. ASSUME NEW f, Withheld(queue', f) PROVE Withheld(queue, f) /\ f # e
  <2>1. PICK d \in Channels : f \in Items(queue'.withheld[d])
    BY <1>5 DEF Withheld
  <2>2. CASE d = c
    BY <1>1, <2>1, <2>2 DEF Withheld
  <2>3. CASE d # c
    BY <1>1, <2>1, <2>3 DEF Withheld, OthersSame, SteerInv
  <2> QED
    BY <2>2, <2>3
<1>6. ASSUME NEW f, Withheld(queue, f), f.id = e.id PROVE f = e
  <2>1. PICK t \in steers : t.event = f
    BY <1>6 DEF Withheld, SteerInv, WithheldHasSteer
  <2> QED
    BY <1>6, <2>1 DEF SteerInv, SteerIds
<1>7. ASSUME NEW t \in steers', NEW f, Loose(queue', tasks', f) PROVE f.id # t.event.id
  <2>1. t \in steers /\ t # s
    BY <1>2, <1>7
  <2>2. t.event.id # e.id
    BY <2>1 DEF SteerInv, SteerIds
  <2> QED
    BY <1>4, <1>7, <2>1, <2>2 DEF OnceInv
<1>8. ASSUME NEW f, Loose(queue', tasks', f) \/ Withheld(queue', f) PROVE fate'[f.id] # "steered"
  <2>1. Loose(queue, tasks, f) \/ Withheld(queue, f)
    BY <1>1, <1>4, <1>5, <1>8 DEF Withheld
  <2>2. f.id \in 1..MaxEvents /\ fate[f.id] # "steered" /\ fate \in [1..MaxEvents -> Fates]
    BY <2>1, HeldIds DEF OnceInv, HarnessInv, HistoryOK
  <2>3. CASE s.state # "success"
    <3>1. fate' = Settle(fate, ReleaseEvicts(queue, e), "dropped")
      BY <2>3 DEF HandleSteerAck
    <3> QED
      BY <2>2, <3>1, SettleSteered
  <2>4. CASE s.state = "success"
    <3>1. f.id # e.id
      <4>1. CASE Loose(queue', tasks', f)
        BY <1>4, <2>4, <4>1 DEF OnceInv
      <4>2. CASE Withheld(queue', f)
        BY <1>5, <1>6, <4>2
      <4> QED
        BY <1>8, <4>1, <4>2
    <3>2. fate' = Settle(fate, {e}, "steered")
      BY <2>4 DEF HandleSteerAck
    <3>3. fate'[f.id] = fate[f.id]
      BY <2>2, <3>1, <3>2 DEF Settle, Ids
    <3> QED
      BY <2>2, <3>3
  <2> QED
    BY <2>3, <2>4
<1> QED
  BY <1>7, <1>8 DEF OnceInv

\* A new event has no steer but its own, and no ack.
LEMMA ArrivalOnce ==
    ASSUME HarnessInv, PlaceInv, SteerInv, OnceInv, NEW shape \in Shapes, RelayEvent(shape)
    PROVE  OnceInv'
<1> DEFINE e == Arrival(shape)
           c == e.channel
<1>1. c \in Channels /\ e.id = nextId /\ nextId \in Nat \ {0} /\ nextId \in 1..MaxEvents
  BY ArrivalType, HarnessConstants DEF RelayEvent, HarnessInv, RestOK
<1>2. \A b \in Agents : tasks'[b].batch = tasks[b].batch
  BY ArmsSameBatches DEF SameBatches
<1>3. /\ OthersSame(queue, queue', c) /\ queue'.cancelled = queue.cancelled
      /\ \/ queue' = queue /\ steers' = steers
         \/ /\ steers' = steers /\ queue'.withheld = queue.withheld
            /\ Items(queue'.queues[c]) \subseteq Items(queue.queues[c]) \cup {e}
         \/ /\ \E s : s.event = e /\ steers' = steers \cup {s}
            /\ Items(queue'.withheld[c]) = Items(queue.withheld[c]) \cup {e}
            /\ Items(queue'.queues[c]) \subseteq Items(queue.queues[c])
  BY ArrivalSteers
<1>4. \A i \in 1..MaxEvents : fate'[i] = "steered" => i # nextId /\ fate[i] = "steered"
  <2>1. fate \in [1..MaxEvents -> Fates]
    BY DEF HarnessInv, HistoryOK
  <2> DEFINE g == Settle(fate, PushEvicts(queue, e), "dropped")
  <2>2. \A i \in 1..MaxEvents : g[i] = "steered" => fate[i] = "steered"
    BY <2>1, SettleSteered
  <2>3. DOMAIN g = 1..MaxEvents
    BY <2>1 DEF Settle
  <2>4. fate' = [g EXCEPT ![nextId] = "live"] \/ fate' = [fate EXCEPT ![nextId] = "dropped"]
    BY DEF RelayEvent
  <2> HIDE DEF g
  <2>5. CASE fate' = [g EXCEPT ![nextId] = "live"]
    <3>1. \A i \in 1..MaxEvents : fate'[i] = IF i = nextId THEN "live" ELSE g[i]
      BY <2>3, <2>5
    <3> QED
      BY <2>2, <3>1
  <2>6. CASE fate' = [fate EXCEPT ![nextId] = "dropped"]
    <3>1. \A i \in 1..MaxEvents : fate'[i] = IF i = nextId THEN "dropped" ELSE fate[i]
      BY <2>1, <2>6
    <3> QED
      BY <3>1
  <2> QED
    BY <2>4, <2>5, <2>6
<1> HIDE DEF c, e
<1>5. \A f : Withheld(queue', f) => Withheld(queue, f) \/ f = e
  BY <1>3 DEF Withheld, OthersSame
<1>6. \A f : Loose(queue', tasks', f) => Loose(queue, tasks, f) \/ (steers' = steers /\ f = e)
  <2>1. \A d \in Channels : \A f \in Items(queue'.queues[d]) :
            f \in Items(queue.queues[d]) \/ (steers' = steers /\ f = e)
    BY <1>3 DEF OthersSame
  <2> QED
    BY <1>2, <1>3, <2>1 DEF Loose
<1>7. \A s \in steers : s.event.id \in Nat /\ s.event.id < nextId
  BY DEF HarnessInv, RestOK, SteerRecord, Event, SteerInv, SteerIds
<1>8. \A f : Loose(queue, tasks, f) \/ Withheld(queue, f) =>
               f.id \in 1..MaxEvents /\ f.id < nextId
  BY HeldIds
<1>9. ASSUME NEW t \in steers', NEW f, Loose(queue', tasks', f) PROVE f.id # t.event.id
  <2>1. t \in steers \/ (t.event = e /\ Loose(queue, tasks, f))
    BY <1>3, <1>6, <1>9
  <2>2. f.id < nextId \/ f = e
    BY <1>6, <1>8, <1>9
  <2>3. CASE t \in steers
    BY <1>1, <1>6, <1>7, <1>9, <2>3 DEF OnceInv
  <2>4. CASE t.event = e /\ Loose(queue, tasks, f)
    BY <1>1, <1>8, <2>4
  <2> QED
    BY <2>1, <2>3, <2>4
<1>10. \A f : Loose(queue', tasks', f) \/ Withheld(queue', f) => fate'[f.id] # "steered"
  BY <1>1, <1>4, <1>5, <1>6, <1>8 DEF OnceInv
<1> QED
  BY <1>9, <1>10 DEF OnceInv

\* While no turn expires, every step keeps deliveries single.
LEMMA NextOnce ==
    HarnessInv /\ PlaceInv /\ SteerInv /\ TurnInv /\ OnceInv /\ [Next]_vars => OnceInv'
<1> SUFFICES ASSUME HarnessInv, PlaceInv, SteerInv, TurnInv, OnceInv, [Next]_vars PROVE OnceInv'
  OBVIOUS
<1>1. CASE \E s \in steers : HandleSteerAck(s)
  BY <1>1, AckOnce
<1>2. CASE \E shape \in Shapes : RelayEvent(shape)
  BY <1>2, ArrivalOnce
<1>3. CASE ~(\E s \in steers : HandleSteerAck(s)) /\ ~(\E shape \in Shapes : RelayEvent(shape))
  <2>1. SteerIds
    BY DEF SteerInv
  <2>2. QuietMove
    BY <1>3, <2>1, NextQuiet
  <2> QED
    BY <2>2, QuietOnce
<1> QED
  BY <1>1, <1>2, <1>3

\* Nothing is held, and there is no steer, at the start.
LEMMA InitOnce == Init => OnceInv
<1> SUFFICES ASSUME Init PROVE OnceInv
  OBVIOUS
<1>1. /\ steers = {}
      /\ \A c \in Channels : /\ queue.queues[c] = <<>> /\ queue.cancelled[c] = <<>>
                             /\ queue.withheld[c] = <<>>
      /\ \A a \in Agents : tasks[a].batch = NoBatch
  BY DEF Init, EmptyQueue, NoTask
<1>2. \A f : ~Loose(queue, tasks, f) /\ ~Withheld(queue, f)
  BY <1>1, EmptyItems, NoBatchSound DEF Loose, Withheld
<1> QED
  BY <1>1, <1>2 DEF OnceInv

\* One turn per channel, no deadline passed: in every behaviour without expiry.
LEMMA TurnInvariant == ~Expiry /\ Spec => []TurnInv
<1> QED
  BY InitTurn, NextTurn, HarnessInvariant, PoolInvariant, PTL DEF Spec

\* What is held is loose or withheld.
LEMMA HeldSplit ==
    ASSUME NEW f, f \in Held
    PROVE  Loose(queue, tasks, f) \/ Withheld(queue, f)
<1>1. (\E c \in Channels : f \in QueueItems(c)) \/ (\E a \in Agents : f \in TaskItems(a))
  <2>1. CASE f \in UNION {QueueItems(c) : c \in Channels}
    <3>1. PICK x \in {QueueItems(c) : c \in Channels} : f \in x
      BY <2>1
    <3> QED
      BY <3>1
  <2>2. CASE f \in UNION {TaskItems(a) : a \in Agents}
    <3>1. PICK x \in {TaskItems(a) : a \in Agents} : f \in x
      BY <2>2
    <3> QED
      BY <3>1
  <2>3. \/ f \in UNION {QueueItems(c) : c \in Channels}
        \/ f \in UNION {TaskItems(a) : a \in Agents}
    BY DEF Held
  <2> QED
    BY <2>1, <2>2, <2>3
<1> QED
  BY <1>1 DEF QueueItems, TaskItems, Loose, Withheld

\* An event that a native steer delivered is never delivered again, in a harness
\* whose turns end before their in-flight deadline.
THEOREM SteersDeliverOnce == ~Expiry /\ Spec => []SteeredOnce
<1>1. OnceInv => SteeredOnce
  BY HeldSplit DEF OnceInv, SteeredOnce
<1> QED
  BY <1>1, InitOnce, NextOnce, TurnInvariant, SteerInvariant, PlaceInvariant, HarnessInvariant, PTL
     DEF Spec

-----------------------------------------------------------------------------
(* Whose turn a steer cancels *)

\* No channel is taken away, and every steer's event waits in the side table of
\* its channel.
WaitingInv ==
    /\ MaxMemberships = 0
    /\ \A s \in steers : s.event \in Items(queue.withheld[s.event.channel])

\* While no turn expires and no channel is removed, steers stay with their events.
LEMMA NextWaiting ==
    ASSUME HarnessInv, PlaceInv, SteerInv, TurnInv, WaitingInv, [Next]_vars
    PROVE  WaitingInv'
<1>1. ASSUME NEW s \in steers, HandleSteerAck(s) PROVE WaitingInv'
  <2> DEFINE e == s.event
  <2>1. /\ OthersSame(queue, queue', e.channel)
        /\ Items(queue'.withheld[e.channel]) = Items(queue.withheld[e.channel]) \ {e}
    BY <1>1, AckMoves
  <2>2. steers' = steers \ {s}
    BY <1>1 DEF HandleSteerAck
  <2>3. \A t \in steers' : t \in steers /\ t.event # e /\ t.event.channel \in Channels
    BY <2>2 DEF SteerInv, SteerIds, HarnessInv, RestOK, SteerRecord, Event
  <2> HIDE DEF e
  <2> QED
    BY <2>1, <2>3 DEF WaitingInv, OthersSame
<1>2. ASSUME NEW shape \in Shapes, RelayEvent(shape) PROVE WaitingInv'
  <2> DEFINE e == Arrival(shape)
             c == e.channel
  <2>1. /\ OthersSame(queue, queue', c)
        /\ \/ steers' = steers /\ queue'.withheld = queue.withheld
           \/ /\ \E s : s.event = e /\ steers' = steers \cup {s}
              /\ Items(queue'.withheld[c]) = Items(queue.withheld[c]) \cup {e}
    BY <1>2, ArrivalSteers
  <2>2. \A t \in steers : t.event.channel \in Channels
    BY DEF HarnessInv, RestOK, SteerRecord, Event
  <2> HIDE DEF e
  <2> QED
    BY <2>1, <2>2 DEF WaitingInv, OthersSame
<1>3. CASE ~(\E s \in steers : HandleSteerAck(s)) /\ ~(\E shape \in Shapes : RelayEvent(shape))
  <2>1. SteerIds
    BY DEF SteerInv
  <2>2. QuietMove
    BY <1>3, <2>1, NextQuiet
  <2>3. ~ \E c \in Channels : MemberRemoved(c)
    <3>1. budget.memberships \in 0..MaxMemberships
      BY DEF HarnessInv, RestOK
    <3>2. ~(budget.memberships > 0)
      BY <3>1 DEF WaitingInv
    <3> QED
      BY <3>2 DEF MemberRemoved
  <2> QED
    BY <2>2, <2>3 DEF QuietMove, SteersKept, WaitingInv
<1> QED
  BY <1>1, <1>2, <1>3

\* The task a steer cancels is of the conversation of an event in the queue.
LEMMA SteersOwn ==
    ASSUME HarnessInv, PlaceInv, SteerInv, WaitingInv, [Next]_vars, NEW a \in Agents,
           tasks[a].control = "armed", tasks'[a].control = "Steer"
    PROVE  \E e \in Items(queue'.queues[tasks[a].channel]) : e.root = tasks[a].root
<1>1. ASSUME NEW s \in steers, HandleSteerAck(s)
      PROVE  \E e \in Items(queue'.queues[tasks[a].channel]) : e.root = tasks[a].root
  <2> DEFINE e == s.event
  <2>1. s.state = "fallback" /\ tasks' \in Signal(ConversationTasks(e.channel, e.root), "Steer")
    BY <1>1 DEF HandleSteerAck
  <2>2. a \in ConversationTasks(e.channel, e.root)
    <3>1. tasks \in [Agents -> Task] /\ ConversationTasks(e.channel, e.root) \subseteq Agents
      BY DEF HarnessInv, ConversationTasks, TasksOf, Busy
    <3>2. PICK b \in ConversationTasks(e.channel, e.root) :
            tasks' = [tasks EXCEPT ![b].control = "Steer"]
      BY <2>1 DEF Signal, TakeControl
    <3>3. b = a
      BY <3>1, <3>2
    <3> QED
      BY <3>2, <3>3
  <2>3. tasks[a].channel = e.channel /\ tasks[a].root = e.root
    BY <2>2 DEF ConversationTasks, TasksOf
  <2>4. e \in Items(queue.withheld[e.channel]) /\ s.state # "success"
    BY <2>1 DEF WaitingInv
  <2>5. e \in Items(queue'.queues[e.channel])
    BY <1>1, <2>4, AckMoves
  <2> QED
    BY <2>3, <2>5
<1>2. ASSUME NEW shape \in Shapes, RelayEvent(shape)
      PROVE  \E e \in Items(queue'.queues[tasks[a].channel]) : e.root = tasks[a].root
  <2> DEFINE e == Arrival(shape)
  <2>1. tasks \in [Agents -> Task] /\ TasksOf(e.channel) \subseteq Agents
    BY DEF HarnessInv, TasksOf, Busy
  <2>2. PICK b \in TasksOf(e.channel) :
          /\ queue' = Push(queue, e)
          /\ ~(ModeGateSignal(e) = "Steer" /\ tasks[b].root # e.root)
          /\ tasks' = TakeControl(b, ModeGateSignal(e))
    BY <1>2 DEF RelayEvent, NativeSteer, LeaveOrSignal
  <2>3. tasks' = [tasks EXCEPT ![b].control = ModeGateSignal(e)]
    BY <2>2 DEF TakeControl
  <2>4. b = a /\ ModeGateSignal(e) = "Steer"
    BY <2>1, <2>3
  <2>5. tasks[a].root = e.root /\ tasks[a].channel = e.channel
    BY <2>2, <2>4 DEF TasksOf
  <2>6. e \in Items(queue'.queues[e.channel])
    BY <2>2, ArrivalMoves
  <2> QED
    BY <2>5, <2>6
<1>3. CASE ~(\E s \in steers : HandleSteerAck(s)) /\ ~(\E shape \in Shapes : RelayEvent(shape))
  <2>1. SteerIds
    BY DEF SteerInv
  <2>2. QuietMove
    BY <1>3, <2>1, NextQuiet
  <2> QED
    BY <2>2 DEF QuietMove
<1> QED
  BY <1>1, <1>2, <1>3

\* A steer only cancels the turn of its own conversation, in a harness whose
\* turns end before their deadline and whose channels are not taken away.
THEOREM SteersStayInConversation == ~Expiry /\ MaxMemberships = 0 /\ Spec => SteerOwnConversation
<1> DEFINE Own == \A a \in Agents :
              tasks[a].control = "armed" /\ tasks'[a].control = "Steer" =>
                  \E e \in Items(queue'.queues[tasks[a].channel]) : e.root = tasks[a].root
<1>1. MaxMemberships = 0 /\ Init => WaitingInv
  BY DEF Init, WaitingInv
<1>2. HarnessInv /\ PlaceInv /\ SteerInv /\ TurnInv /\ WaitingInv /\ [Next]_vars => WaitingInv'
  BY NextWaiting
<1>3. HarnessInv /\ PlaceInv /\ SteerInv /\ WaitingInv /\ [Next]_vars => [Own]_vars
  BY SteersOwn
<1> HIDE DEF Own
<1>4. ~Expiry /\ MaxMemberships = 0 /\ Spec => [][Own]_vars
  BY <1>1, <1>2, <1>3, TurnInvariant, SteerInvariant, PlaceInvariant, HarnessInvariant, PTL DEF Spec
<1> QED
  BY <1>4 DEF SteerOwnConversation, Own

=============================================================================
