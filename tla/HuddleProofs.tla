----------------------------- MODULE HuddleProofs -----------------------------
(***************************************************************************)
(* What a huddle guarantees for every set of pods and clients, every size of *)
(* a room and of its index space, and every budget of faults.                *)
(***************************************************************************)
EXTENDS Huddle, FiniteSetTheorems, SequenceTheorems, WellFoundedInduction, TLAPS

USE RoomConstants, HuddleConstants

-----------------------------------------------------------------------------
(* Rooms *)

\* A room whose allocator is sound.
GoodRoom == {r \in Room : IndexesDistinct(r)}

LEMMA FreshRoomIsGood == FreshRoom \in GoodRoom /\ IsEmpty(FreshRoom)
BY DEF FreshRoom, GoodRoom, Room, IndexesDistinct, Peers, Indexes, IsEmpty, NoIndex

\* AdmissionGuard::alloc answers an index nobody has, and what is left of the
\* free list is still free.
LEMMA AllocIsFresh ==
    ASSUME NEW r \in GoodRoom
    PROVE  /\ AllocIndex(r) \in Nat
           /\ AllocIndex(r) \notin Indexes(r)
           /\ r.free # << >> => /\ Front(r.free) \in Seq(Nat)
                                /\ DOMAIN Front(r.free) = 1..(Len(r.free) - 1)
                                /\ \A k \in DOMAIN Front(r.free) :
                                      /\ k \in DOMAIN r.free
                                      /\ Front(r.free)[k] = r.free[k]
                                      /\ r.free[k] # AllocIndex(r)
<1>1. /\ r.free \in Seq(Nat) /\ r.next_fresh \in Nat /\ IndexesDistinct(r)
      /\ r.peers \in [Conns -> Nat \cup {NoIndex}]
    BY DEF GoodRoom, Room
<1>2. CASE r.free = << >>
    BY <1>1, <1>2 DEF AllocIndex, IndexesDistinct, Indexes, Peers, NoIndex
<1>3. CASE r.free # << >>
    <2>1. Len(r.free) \in DOMAIN r.free /\ DOMAIN r.free = 1..Len(r.free) /\ Len(r.free) \in Nat
        BY <1>1, <1>3
    <2>2. AllocIndex(r) = r.free[Len(r.free)]
        BY <1>3 DEF AllocIndex, Last
    <2>3. AllocIndex(r) \in Nat /\ AllocIndex(r) \notin Indexes(r)
        BY <1>1, <2>1, <2>2 DEF IndexesDistinct
    <2>4. /\ Front(r.free) \in Seq(Nat)
          /\ DOMAIN Front(r.free) = 1..(Len(r.free) - 1)
          /\ \A k \in 1..(Len(r.free) - 1) : Front(r.free)[k] = r.free[k]
        BY <1>1, <2>1 DEF Front
    <2>5. \A k \in 1..(Len(r.free) - 1) : r.free[k] # AllocIndex(r)
        <3>1. \A k \in 1..(Len(r.free) - 1) : k \in DOMAIN r.free /\ k # Len(r.free)
            BY <2>1
        <3>2. \A j, k \in DOMAIN r.free : r.free[j] = r.free[k] => j = k
            BY <1>1 DEF IndexesDistinct
        <3> QED BY <2>1, <2>2, <3>1, <3>2
    <2> QED BY <2>1, <2>3, <2>4, <2>5
<1> QED BY <1>2, <1>3

\* add_peer keeps the allocator sound and changes nobody else's index.
LEMMA AddPeerKeeps ==
    ASSUME NEW r \in GoodRoom, NEW c \in Conns
    PROVE  /\ AddPeer(r, c) \in GoodRoom
           /\ AddPeer(r, c).peers[c] = AllocIndex(r)
           /\ \A d \in Conns \ {c} : AddPeer(r, c).peers[d] = r.peers[d]
<1> DEFINE a == AllocIndex(r)
           f == AddPeer(r, c).free
           n == AddPeer(r, c).next_fresh
           s == AddPeer(r, c)
<1>0. /\ r \in Room /\ r.free \in Seq(Nat) /\ r.next_fresh \in Nat /\ IndexesDistinct(r)
      /\ r.peers \in [Conns -> Nat \cup {NoIndex}]
    BY DEF GoodRoom, Room
<1>1. a \in Nat /\ a # NoIndex /\ a \notin Indexes(r)
    BY AllocIsFresh DEF NoIndex
<1>2. /\ s.peers = [r.peers EXCEPT ![c] = a]
      /\ f = IF r.free # << >> THEN Front(r.free) ELSE r.free
      /\ n = IF r.free # << >> THEN r.next_fresh ELSE r.next_fresh + 1
      /\ s.ended = r.ended /\ s.pinned = TRUE
    BY <1>0 DEF AddPeer, Room
<1>3. s.peers[c] = a /\ \A d \in Conns \ {c} : s.peers[d] = r.peers[d]
    BY <1>0, <1>2
<1>4. f \in Seq(Nat) /\ n \in Nat /\ s.peers \in [Conns -> Nat \cup {NoIndex}]
    BY <1>0, <1>1, <1>2, AllocIsFresh
<1>5. s \in Room
    <2> DEFINE g == IF r.free # << >> THEN Front(r.free) ELSE r.free
               m == IF r.free # << >> THEN r.next_fresh ELSE r.next_fresh + 1
    <2>1. g \in Seq(Nat) /\ m \in Nat
        BY <1>2, <1>4
    <2>2. s = [r EXCEPT !.peers[c] = a, !.free = g, !.next_fresh = m, !.pinned = TRUE]
        BY <1>0 DEF AddPeer, Room
    <2> HIDE DEF a, g, m, s
    <2> QED BY <1>0, <1>1, <2>1, <2>2 DEF Room
<1>6. IndexesDistinct(s)
    <2>1. \A k \in DOMAIN f : k \in DOMAIN r.free /\ f[k] = r.free[k] /\ f[k] # a
        <3>1. CASE r.free = << >>
            BY <1>0, <1>2, <3>1
        <3>2. CASE r.free # << >>
            BY <1>2, <3>2, AllocIsFresh
        <3> QED BY <3>1, <3>2
    <2>2. a < n /\ r.next_fresh <= n
        <3>1. CASE r.free = << >>
            BY <1>0, <1>2, <3>1 DEF AllocIndex
        <3>2. CASE r.free # << >>
            <4>1. Len(r.free) \in DOMAIN r.free
                BY <1>0, <3>2
            <4> QED BY <1>0, <1>2, <3>2, <4>1 DEF AllocIndex, Last, IndexesDistinct
        <3> QED BY <3>1, <3>2
    <2>3. \A d \in Peers(s) : d = c \/ (d # c /\ d \in Peers(r) /\ s.peers[d] = r.peers[d])
        BY <1>3 DEF Peers
    <2>4. \A d \in Peers(r) : r.peers[d] # a /\ r.peers[d] \in Nat /\ r.peers[d] < n
        <3>1. \A d \in Peers(r) : r.peers[d] # a
            BY <1>1 DEF Indexes
        <3>2. \A d \in Peers(r) : r.peers[d] \in Nat /\ r.peers[d] < r.next_fresh
            BY <1>0 DEF IndexesDistinct, Peers
        <3> HIDE DEF a, n
        <3> QED BY <1>0, <1>4, <2>2, <3>1, <3>2
    <2>5. \A x, y \in Peers(s) : s.peers[x] = s.peers[y] => x = y
        <3> HIDE DEF a, n, f, s
        <3>1. \A x, y \in Peers(r) : r.peers[x] = r.peers[y] => x = y
            BY <1>0 DEF IndexesDistinct
        <3> QED BY <1>3, <2>3, <2>4, <3>1
    <2>6. \A k \in DOMAIN f : f[k] \notin Indexes(s)
        <3>1. \A k \in DOMAIN r.free : r.free[k] \notin Indexes(r)
            BY <1>0 DEF IndexesDistinct
        <3>2. \A i \in Indexes(s) : i = a \/ i \in Indexes(r)
            <4> HIDE DEF a, n, f, s
            <4> QED BY <1>3, <2>3 DEF Indexes
        <3> HIDE DEF a, n, f, s
        <3> QED BY <2>1, <3>1, <3>2
    <2>7. \A x \in Peers(s) : s.peers[x] < n
        <3> HIDE DEF a, n, f, s
        <3> QED BY <1>3, <2>2, <2>3, <2>4
    <2>8. \A k \in DOMAIN f : f[k] < n
        <3>1. \A k \in DOMAIN r.free : r.free[k] < r.next_fresh /\ r.free[k] \in Nat
            BY <1>0 DEF IndexesDistinct
        <3> HIDE DEF a, n, f, s
        <3> QED BY <1>0, <1>4, <2>1, <2>2, <3>1
    <2>9. \A j, k \in DOMAIN f : f[j] = f[k] => j = k
        <3>1. \A j, k \in DOMAIN r.free : r.free[j] = r.free[k] => j = k
            BY <1>0 DEF IndexesDistinct
        <3> HIDE DEF a, n, f, s
        <3> QED BY <2>1, <3>1
    <2> QED BY <2>5, <2>6, <2>7, <2>8, <2>9 DEF IndexesDistinct
<1> QED BY <1>3, <1>5, <1>6 DEF GoodRoom

\* retain drops the index from the free list and keeps the others.
LEMMA RetainKeeps ==
    ASSUME NEW free \in Seq(Nat), NEW i \in Nat,
           \A j, k \in DOMAIN free : free[j] = free[k] => j = k
    PROVE  /\ Retain(free, i) \in Seq(Nat)
           /\ \A k \in DOMAIN Retain(free, i) :
                 /\ Retain(free, i)[k] # i
                 /\ \E j \in DOMAIN free : Retain(free, i)[k] = free[j]
           /\ \A j, k \in DOMAIN Retain(free, i) :
                 Retain(free, i)[j] = Retain(free, i)[k] => j = k
<1>1. CASE ~\E k \in DOMAIN free : free[k] = i
    BY <1>1 DEF Retain
<1>2. CASE \E k \in DOMAIN free : free[k] = i
    <2> DEFINE m == CHOOSE k \in DOMAIN free : free[k] = i
               n == Len(free)
               l == SubSeq(free, 1, m - 1)
               h == SubSeq(free, m + 1, n)
               s == Retain(free, i)
    <2>1. m \in 1..n /\ free[m] = i /\ n \in Nat /\ DOMAIN free = 1..n
        BY <1>2
    <2>2. s = l \o h
        BY <1>2 DEF Retain, RemoveAt
    <2> HIDE DEF m, s
    <2>3. l \in Seq(Nat) /\ Len(l) = m - 1 /\ \A k \in 1..(m - 1) : l[k] = free[k]
        BY <2>1
    <2>3a. h \in Seq(Nat) /\ Len(h) = n - m /\ \A k \in 1..(n - m) : h[k] = free[m + k]
        <3>1. /\ m + 1 \in Int /\ n \in Int
              /\ \A j \in (m + 1)..n : free[j] \in Nat
            BY <2>1
        <3> HIDE DEF n
        <3>2. /\ h \in Seq(Nat)
              /\ Len(h) = IF m + 1 <= n THEN n - (m + 1) + 1 ELSE 0
              /\ \A j \in 1..(n - (m + 1) + 1) : h[j] = free[(m + 1) + j - 1]
            BY <3>1, SubSeqProperties
        <3>3. /\ n - (m + 1) + 1 = n - m
              /\ \A j \in 1..(n - m) : (m + 1) + j - 1 = m + j
              /\ ~(m + 1 <= n) => n - m = 0
            BY <2>1
        <3> HIDE DEF h
        <3> QED BY <3>2, <3>3
    <2> HIDE DEF l, h
    <2>4. s \in Seq(Nat) /\ Len(s) = n - 1
        <3>1. l \o h \in Seq(Nat) /\ Len(l \o h) = Len(l) + Len(h)
            BY <2>3, <2>3a, ConcatProperties
        <3> QED BY <2>1, <2>2, <2>3, <2>3a, <3>1
    <2>4a. \A k \in 1..(n - 1) : s[k] = IF k < m THEN free[k] ELSE free[k + 1]
        <3> SUFFICES ASSUME NEW k \in 1..(n - 1)
                     PROVE  s[k] = IF k < m THEN free[k] ELSE free[k + 1]
            OBVIOUS
        <3>1. CASE k < m
            BY <2>1, <2>2, <2>3, <2>3a, <3>1
        <3>2. CASE ~(k < m)
            <4>1. k - Len(l) \in 1..(n - m) /\ m + (k - Len(l)) = k + 1
                BY <2>1, <2>3, <3>2
            <4>2. s[k] = h[k - Len(l)]
                <5>1. \A j \in 1..(Len(l) + Len(h)) :
                         (l \o h)[j] = IF j <= Len(l) THEN l[j] ELSE h[j - Len(l)]
                    <6>1. l \in Seq(Nat) /\ h \in Seq(Nat)
                        BY <2>3, <2>3a
                    <6> QED BY ONLY <6>1, ConcatProperties, Zenon
                <5>2. k \in 1..(Len(l) + Len(h)) /\ ~(k <= Len(l))
                    BY <2>1, <2>3, <2>3a, <3>2
                <5> QED BY <2>2, <5>1, <5>2
            <4> QED BY <2>3a, <3>2, <4>1, <4>2
        <3> QED BY <3>1, <3>2
    <2> HIDE DEF n
    <2>4b. DOMAIN s = 1..(n - 1)
        BY <2>4
    <2>5. \A k \in DOMAIN s : (IF k < m THEN k ELSE k + 1) \in 1..n \ {m}
        BY <2>1, <2>4b
    <2>6. \A k \in DOMAIN s : s[k] # i /\ \E j \in DOMAIN free : s[k] = free[j]
        BY <2>1, <2>4a, <2>4b, <2>5
    <2>7. \A j, k \in DOMAIN s : s[j] = s[k] => j = k
        <3> SUFFICES ASSUME NEW j \in DOMAIN s, NEW k \in DOMAIN s, s[j] = s[k] PROVE j = k
            OBVIOUS
        <3> DEFINE jj == IF j < m THEN j ELSE j + 1
                   kk == IF k < m THEN k ELSE k + 1
        <3>1. jj \in DOMAIN free /\ kk \in DOMAIN free /\ free[jj] = free[kk]
            BY <2>1, <2>4a, <2>4b, <2>5
        <3>2. jj = kk
            BY <3>1
        <3>3. j \in Nat /\ k \in Nat /\ m \in Nat
            BY <2>1, <2>4b
        <3> QED BY ONLY <3>2, <3>3
    <2> QED BY <2>4, <2>6, <2>7 DEF s
<1> QED BY <1>1, <1>2

\* add_peer_at_index keeps the allocator sound and gives the owner's index.
LEMMA AddPeerAtKeeps ==
    ASSUME NEW r \in GoodRoom, NEW c \in Conns, NEW i \in Nat, i \notin Indexes(r)
    PROVE  /\ AddPeerAt(r, c, i) \in GoodRoom
           /\ AddPeerAt(r, c, i).peers[c] = i
           /\ \A d \in Conns \ {c} : AddPeerAt(r, c, i).peers[d] = r.peers[d]
<1> DEFINE s == AddPeerAt(r, c, i)
           f == Retain(r.free, i)
           n == IF i >= r.next_fresh THEN i + 1 ELSE r.next_fresh
<1>0. /\ r \in Room /\ r.free \in Seq(Nat) /\ r.next_fresh \in Nat /\ IndexesDistinct(r)
      /\ r.peers \in [Conns -> Nat \cup {NoIndex}]
    BY DEF GoodRoom, Room
<1>1. \A j, k \in DOMAIN r.free : r.free[j] = r.free[k] => j = k
    BY <1>0 DEF IndexesDistinct
<1>2. /\ f \in Seq(Nat)
      /\ \A k \in DOMAIN f : f[k] # i /\ \E j \in DOMAIN r.free : f[k] = r.free[j]
      /\ \A j, k \in DOMAIN f : f[j] = f[k] => j = k
    BY <1>0, <1>1, RetainKeeps
<1>3. n \in Nat /\ i < n /\ r.next_fresh <= n
    BY <1>0
<1>4. s = [r EXCEPT !.peers[c] = i, !.free = f, !.next_fresh = n, !.pinned = TRUE]
    BY <1>0 DEF AddPeerAt, Room
<1> HIDE DEF f, n, s
<1>5. s \in Room
    BY <1>0, <1>2, <1>3, <1>4 DEF Room
<1>6. /\ s.peers[c] = i /\ s.free = f /\ s.next_fresh = n
      /\ \A d \in Conns \ {c} : s.peers[d] = r.peers[d]
    BY <1>0, <1>4 DEF Room
<1>7. \A d \in Peers(s) : d = c \/ (d # c /\ d \in Peers(r) /\ s.peers[d] = r.peers[d])
    BY <1>6 DEF Peers
<1>8. \A d \in Peers(r) : r.peers[d] # i /\ r.peers[d] \in Nat /\ r.peers[d] < n
    <2>1. \A d \in Peers(r) : r.peers[d] # i
        BY DEF Indexes
    <2>2. \A d \in Peers(r) : r.peers[d] \in Nat /\ r.peers[d] < r.next_fresh
        BY <1>0 DEF IndexesDistinct, Peers
    <2> QED BY <1>0, <1>3, <2>1, <2>2
<1>9. IndexesDistinct(s)
    <2>1. \A x, y \in Peers(s) : s.peers[x] = s.peers[y] => x = y
        <3>1. \A x, y \in Peers(r) : r.peers[x] = r.peers[y] => x = y
            BY <1>0 DEF IndexesDistinct
        <3> QED BY <1>6, <1>7, <1>8, <3>1
    <2>2. \A k \in DOMAIN f : f[k] \notin Indexes(s)
        <3>1. \A k \in DOMAIN r.free : r.free[k] \notin Indexes(r)
            BY <1>0 DEF IndexesDistinct
        <3>2. \A j \in Indexes(s) : j = i \/ j \in Indexes(r)
            BY <1>6, <1>7 DEF Indexes
        <3> QED BY <1>2, <3>1, <3>2
    <2>3. \A x \in Peers(s) : s.peers[x] < n
        BY <1>3, <1>6, <1>7, <1>8
    <2>4. \A k \in DOMAIN f : f[k] < n
        <3>1. \A k \in DOMAIN r.free : r.free[k] < r.next_fresh /\ r.free[k] \in Nat
            BY <1>0 DEF IndexesDistinct
        <3> QED BY <1>0, <1>2, <1>3, <3>1
    <2> QED BY <1>2, <1>6, <2>1, <2>2, <2>3, <2>4 DEF IndexesDistinct
<1> QED BY <1>5, <1>6, <1>9 DEF GoodRoom, s

\* remove_peer keeps the allocator sound: the index that comes back was the
\* leaver's alone.
LEMMA RemovePeerKeeps ==
    ASSUME NEW r \in GoodRoom, NEW c \in Conns
    PROVE  /\ RemovePeer(r, c) \in GoodRoom
           /\ \A d \in Conns \ {c} : RemovePeer(r, c).peers[d] = r.peers[d]
<1>1. CASE c \notin Peers(r)
    BY <1>1 DEF RemovePeer
<1>2. CASE c \in Peers(r)
    <2> DEFINE s == RemovePeer(r, c)
               i == r.peers[c]
               f == Append(r.free, i)
               n == Len(r.free)
    <2>0. /\ r \in Room /\ r.free \in Seq(Nat) /\ r.next_fresh \in Nat /\ IndexesDistinct(r)
          /\ r.peers \in [Conns -> Nat \cup {NoIndex}]
        BY DEF GoodRoom, Room
    <2>1. i \in Nat /\ i \in Indexes(r) /\ i < r.next_fresh
        BY <1>2, <2>0 DEF Peers, Indexes, IndexesDistinct
    <2>2. s = [r EXCEPT !.peers[c] = NoIndex, !.free = f]
        BY <1>2, <2>0 DEF RemovePeer, Room
    <2>3. /\ f \in Seq(Nat) /\ n \in Nat /\ DOMAIN r.free = 1..n /\ DOMAIN f = 1..(n + 1)
          /\ f[n + 1] = i /\ \A k \in 1..n : f[k] = r.free[k]
        BY <2>0, <2>1
    <2> HIDE DEF f, s
    <2>4. s \in Room
        BY <2>0, <2>2, <2>3 DEF Room
    <2>5. /\ s.peers[c] = NoIndex /\ s.free = f /\ s.next_fresh = r.next_fresh
          /\ \A d \in Conns \ {c} : s.peers[d] = r.peers[d]
        BY <2>0, <2>2 DEF Room
    <2>6. Peers(s) = Peers(r) \ {c}
        BY <2>5 DEF Peers
    <2>7. \A j \in Indexes(s) : j # i /\ j \in Indexes(r)
        BY <1>2, <2>0, <2>5, <2>6 DEF Indexes, IndexesDistinct, Peers
    <2>8. /\ \A k \in DOMAIN r.free : r.free[k] \notin Indexes(r) /\ r.free[k] < r.next_fresh
          /\ \A j, k \in DOMAIN r.free : r.free[j] = r.free[k] => j = k
        BY <2>0 DEF IndexesDistinct
    <2> HIDE DEF i, n
    <2>9. \A k \in DOMAIN f : f[k] \notin Indexes(s) /\ f[k] < r.next_fresh
        BY <2>1, <2>3, <2>7, <2>8
    <2>10. \A j, k \in DOMAIN f : f[j] = f[k] => j = k
        <3>1. \A k \in 1..n : f[k] # i
            BY <2>1, <2>3, <2>8
        <3> QED BY <2>3, <2>8, <3>1
    <2>11. \A x \in Peers(s) : s.peers[x] < r.next_fresh
        BY <2>0, <2>5, <2>6 DEF IndexesDistinct, Peers
    <2>12. \A x, y \in Peers(s) : s.peers[x] = s.peers[y] => x = y
        BY <2>0, <2>5, <2>6 DEF IndexesDistinct, Peers
    <2>13. IndexesDistinct(s)
        BY <2>5, <2>9, <2>10, <2>11, <2>12 DEF IndexesDistinct
    <2> QED BY <2>4, <2>5, <2>13 DEF GoodRoom, s
<1> QED BY <1>1, <1>2

LEMMA EndedKeeps ==
    ASSUME NEW r \in GoodRoom, NEW ended \in BOOLEAN
    PROVE  /\ [r EXCEPT !.ended = ended] \in GoodRoom
           /\ [r EXCEPT !.ended = ended].peers = r.peers
<1> DEFINE s == [r EXCEPT !.ended = ended]
<1>1. r \in Room /\ IndexesDistinct(r)
    BY DEF GoodRoom
<1>2. /\ s \in Room /\ s.peers = r.peers /\ s.free = r.free /\ s.next_fresh = r.next_fresh
    BY <1>1 DEF Room
<1> HIDE DEF s
<1>3. Peers(s) = Peers(r) /\ Indexes(s) = Indexes(r)
    BY <1>2 DEF Peers, Indexes
<1>4. IndexesDistinct(s)
    BY <1>1, <1>2, <1>3 DEF IndexesDistinct
<1> QED BY <1>2, <1>4 DEF GoodRoom, s

\* remove_peer_and_check_ended and clear_ended only differ in the flag.
LEMMA RemovePeerAndCheckKeeps ==
    ASSUME NEW r \in GoodRoom, NEW c \in Conns
    PROVE  /\ RemovePeerAndCheck(r, c) \in GoodRoom
           /\ \A d \in Conns \ {c} : RemovePeerAndCheck(r, c).peers[d] = r.peers[d]
           /\ ClearEnded(r) \in GoodRoom /\ ClearEnded(r).peers = r.peers
<1>1. ClearEnded(r) \in GoodRoom /\ ClearEnded(r).peers = r.peers
    BY EndedKeeps DEF ClearEnded
<1> DEFINE left == RemovePeer(r, c)
<1>2. left \in GoodRoom /\ \A d \in Conns \ {c} : left.peers[d] = r.peers[d]
    BY RemovePeerKeeps
<1> HIDE DEF left
<1>3. [left EXCEPT !.ended = TRUE] \in GoodRoom /\ [left EXCEPT !.ended = TRUE].peers = left.peers
    BY <1>2, EndedKeeps
<1>4. RemovePeerAndCheck(r, c) \in {left, [left EXCEPT !.ended = TRUE]}
    BY DEF RemovePeerAndCheck, left
<1> QED BY <1>1, <1>2, <1>3, <1>4

-----------------------------------------------------------------------------
(* get_or_create *)

\* The image of a finite set under a function is no larger than the set.
LEMMA ImageIsSmall ==
    ASSUME NEW S, IsFiniteSet(S), NEW f, DOMAIN f = S
    PROVE  /\ IsFiniteSet({f[x] : x \in S})
           /\ Cardinality({f[x] : x \in S}) <= Cardinality(S)
<1> DEFINE T == {f[x] : x \in S}
           g == [x \in S |-> f[x]]
<1>1. g \in Surjection(S, T)
    BY DEF Surjection
<1> QED BY <1>1, FS_Surjection

\* A nonempty set of numbers has a least member.
LEMMA LeastOf ==
    ASSUME NEW T, T \subseteq Nat, T # {}
    PROVE  \E i \in T : \A j \in T : ~(j < i)
<1> DEFINE R == OpToRel(<, Nat)
<1>1. IsWellFoundedOn(R, Nat)
    BY NatLessThanWellFounded
<1>2. \A x, y \in Nat : x < y => <<x, y>> \in R
    BY DEF OpToRel
<1> HIDE DEF R
<1>3. PICK i \in T : \A j \in T : <<j, i>> \notin R
    BY <1>1, WFMin
<1> QED BY <1>2, <1>3

\* Every reference of a pod, a client or a stream is a room or none.
References ==
    /\ manager \in [Pods -> RoomIds \cup {0}]
    /\ \A c \in Conns : {conns[c].room, streams[c].room} \subseteq RoomIds \cup {0}

\* There is always an object left for a pod without a room: the bound on the
\* objects hides no behaviour.
LEMMA RoomLeft ==
    ASSUME References, NEW p \in Pods, manager[p] = 0
    PROVE  \E i \in RoomIds : ~Referenced(i)
<1> SUFFICES ASSUME \A i \in RoomIds : Referenced(i) PROVE FALSE
    OBVIOUS
<1> DEFINE np == Cardinality(Pods)
           nc == Cardinality(Conns)
           fm == [q \in Pods \ {p} |-> manager[q]]
           fc == [c \in Conns |-> conns[c].room]
           fs == [c \in Conns |-> streams[c].room]
           M == {fm[q] : q \in Pods \ {p}}
           C == {fc[c] : c \in Conns}
           S == {fs[c] : c \in Conns}
<1>1. np \in Nat /\ nc \in Nat
    BY FS_CardinalityType
<1>2. IsFiniteSet(Pods \ {p}) /\ Cardinality(Pods \ {p}) = np - 1
    BY FS_RemoveElement
<1>3. IsFiniteSet(M) /\ Cardinality(M) <= np - 1
    BY <1>2, ImageIsSmall
<1>4. IsFiniteSet(C) /\ Cardinality(C) <= nc
    BY ImageIsSmall
<1>5. IsFiniteSet(S) /\ Cardinality(S) <= nc
    BY ImageIsSmall
<1>6. RoomIds \subseteq M \cup C \cup S
    <2> SUFFICES ASSUME NEW i \in RoomIds PROVE i \in M \cup C \cup S
        OBVIOUS
    <2>1. i # 0
        BY <1>1 DEF RoomIds
    <2>2. CASE \E q \in Pods : manager[q] = i
        BY <2>1, <2>2
    <2>3. CASE \E c \in Conns : conns[c].room = i
        BY <2>3
    <2>4. CASE \E c \in Conns : streams[c].room = i
        BY <2>4
    <2> QED BY <2>2, <2>3, <2>4 DEF Referenced
<1> HIDE DEF M, C, S
<1>7. /\ IsFiniteSet(M \cup C)
      /\ Cardinality(M \cup C) <= Cardinality(M) + Cardinality(C)
    <2>1. IsFiniteSet(M \cap C) /\ Cardinality(M \cap C) \in Nat
        BY <1>3, FS_Subset, FS_CardinalityType
    <2>2. Cardinality(M) \in Nat /\ Cardinality(C) \in Nat
        BY <1>3, <1>4, FS_CardinalityType
    <2>3. /\ IsFiniteSet(M \cup C)
          /\ Cardinality(M \cup C) = Cardinality(M) + Cardinality(C) - Cardinality(M \cap C)
        BY <1>3, <1>4, FS_Union
    <2> QED BY <2>1, <2>2, <2>3
<1> DEFINE D == M \cup C
<1>8. /\ IsFiniteSet(D \cup S)
      /\ Cardinality(D \cup S) <= Cardinality(D) + Cardinality(S)
    <2> HIDE DEF D
    <2>0. IsFiniteSet(D)
        BY <1>7 DEF D
    <2>1. IsFiniteSet(D \cap S) /\ Cardinality(D \cap S) \in Nat
        BY <2>0, FS_Subset, FS_CardinalityType
    <2>2. Cardinality(D) \in Nat /\ Cardinality(S) \in Nat
        BY <2>0, <1>5, FS_CardinalityType
    <2>3. /\ IsFiniteSet(D \cup S)
          /\ Cardinality(D \cup S) = Cardinality(D) + Cardinality(S) - Cardinality(D \cap S)
        BY <2>0, <1>5, FS_Union
    <2> QED BY <2>1, <2>2, <2>3
<1>9. Cardinality(RoomIds) = np + 2 * nc
    <2> DEFINE n == np + 2 * nc
    <2>1. n \in Nat /\ RoomIds = 1..n
        BY <1>1 DEF RoomIds
    <2> HIDE DEF n
    <2>2. Cardinality(1..n) = IF 1 > n THEN 0 ELSE n - 1 + 1
        BY <2>1, FS_Interval
    <2> QED BY <2>1, <2>2 DEF n
<1>10. Cardinality(RoomIds) <= Cardinality(D \cup S)
    BY <1>6, <1>8, FS_Subset
<1>11. /\ Cardinality(M) \in Nat /\ Cardinality(C) \in Nat /\ Cardinality(S) \in Nat
       /\ Cardinality(D) \in Nat /\ Cardinality(D \cup S) \in Nat
    BY <1>3, <1>4, <1>5, <1>7, <1>8, FS_CardinalityType
<1> QED BY <1>1, <1>3, <1>4, <1>5, <1>7, <1>8, <1>9, <1>10, <1>11

\* get_or_create answers the room of the pod, or an object nobody refers to.
LEMMA RoomAtType ==
    ASSUME References, NEW p \in Pods
    PROVE  /\ RoomAt(p) \in RoomIds
           /\ manager[p] # 0 => RoomAt(p) = manager[p]
           /\ manager[p] = 0 => ~Referenced(RoomAt(p))
<1>1. CASE manager[p] # 0
    BY <1>1 DEF RoomAt, References
<1>2. CASE manager[p] = 0
    <2> DEFINE T == {i \in RoomIds : ~Referenced(i)}
               n == Cardinality(Pods) + 2 * Cardinality(Conns)
    <2>1. n \in Nat /\ RoomIds = 1..n
        BY FS_CardinalityType DEF RoomIds
    <2>2. T \subseteq Nat /\ T # {}
        BY <1>2, <2>1, RoomLeft
    <2>4. PICK i \in T : \A j \in T : ~(j < i)
        <3> HIDE DEF T
        <3> QED BY <2>2, LeastOf
    <2>5. \A j \in 1..(i - 1) : Referenced(j)
        BY <2>1, <2>2, <2>4
    <2>6. \E k \in RoomIds : ~Referenced(k) /\ \A j \in 1..(k - 1) : Referenced(j)
        BY <2>5
    <2> DEFINE r == CHOOSE k \in RoomIds : ~Referenced(k) /\ \A j \in 1..(k - 1) : Referenced(j)
    <2>7. r \in RoomIds /\ ~Referenced(r)
        BY <2>6
    <2>8. RoomAt(p) = r
        BY <1>2 DEF RoomAt
    <2> QED BY <1>2, <2>7, <2>8
<1> QED BY <1>1, <1>2

-----------------------------------------------------------------------------
(* Shapes: the type invariant, with what a handler and a stream have at hand *)
(* where they use it                                                        *)

\* Before resolve_join has answered, and after the handler returned.
Unresolved == {"out", "lookup", "acquire", "gone"}

\* From get_or_create to the clean-up a handler holds its room.
Roomed == {"check", "admit", "dial", "registering", "attach", "insert", "recheck", "reuse",
           "active", "leaving", "archive", "cleanup"}

ShapedConn == {h \in Conn : /\ h.pc \notin Unresolved => h.fence \in Lease
                            /\ h.pc \in Roomed => h.room \in RoomIds}

ShapedStream == {s \in Stream :
                    /\ s.pc # "none" => s.fence \in Lease
                    /\ s.pc \in {"validating", "admitting", "serving"} => s.room \in RoomIds}

Handlers == conns \in [Conns -> ShapedConn]
ControlLoops == streams \in [Conns -> ShapedStream]
RoomsSound == rooms \in [RoomIds -> GoodRoom] /\ manager \in [Pods -> RoomIds \cup {0}]
Plain ==
    /\ directory \in Directory
    /\ registry \in [Pods -> Nat]
    /\ drainer \in [Pods -> [pc : {"idle", "collect", "drain", "done"}, entry : Nat]]
    /\ archived \in BOOLEAN
    /\ podOf \in [Conns -> Pods]
    /\ dead \subseteq Pods
    /\ budget \in Budget

Shapes == Plain /\ RoomsSound /\ Handlers /\ ControlLoops

LEMMA ShapesAreTypes == Shapes /\ leases \in Seq(Granted) => TypeOK
<1> SUFFICES ASSUME Shapes, leases \in Seq(Granted) PROVE TypeOK
    OBVIOUS
<1>1. GoodRoom \subseteq Room /\ ShapedConn \subseteq Conn /\ ShapedStream \subseteq Stream
    BY DEF GoodRoom, ShapedConn, ShapedStream
<1>2. rooms \in [RoomIds -> Room] /\ conns \in [Conns -> Conn] /\ streams \in [Conns -> Stream]
    BY <1>1 DEF Shapes, RoomsSound, Handlers, ControlLoops
<1> QED BY <1>2 DEF Shapes, Plain, RoomsSound, TypeOK

LEMMA ZeroIsNoRoom == 0 \notin RoomIds
<1>1. RoomIds \subseteq Nat \ {0}
    BY FS_CardinalityType DEF RoomIds
<1> QED BY <1>1

\* NoLease is no lease: "none" is no pod.
LEMMA NoLeaseIsNone == NoLease \notin Lease /\ NoLease \in [owner : {"none"}, generation : {0}]
BY DEF NoLease, Lease, Generation

LEMMA ShapesInit == Init => Shapes
<1> SUFFICES ASSUME Init PROVE Shapes
    OBVIOUS
<1>1. Plain
    BY DEF Init, Plain, FreshDirectory, Directory
<1>2. RoomsSound
    BY FreshRoomIsGood DEF Init, RoomsSound
<1>3. NewConn \in ShapedConn
    BY DEF NewConn, ShapedConn, Conn, ConnPC, Unresolved, Roomed
<1>4. NoStream \in ShapedStream
    BY DEF NoStream, ShapedStream, Stream
<1> QED BY <1>1, <1>2, <1>3, <1>4 DEF Init, Shapes, Handlers, ControlLoops

\* What a handler is in each field.
LEMMA ConnFields ==
    ASSUME Shapes, NEW c \in Conns
    PROVE  /\ conns[c] \in Conn
           /\ conns[c].pc \notin Unresolved => conns[c].fence \in Lease
           /\ conns[c].pc \in Roomed => conns[c].room \in RoomIds
           /\ podOf[c] \in Pods
BY DEF Shapes, Handlers, ShapedConn, Plain

LEMMA StreamFields ==
    ASSUME Shapes, NEW c \in Conns
    PROVE  /\ streams[c] \in Stream
           /\ streams[c].pc # "none" => streams[c].fence \in Lease
           /\ streams[c].pc \in {"validating", "admitting", "serving"}
                 => streams[c].room \in RoomIds
BY DEF Shapes, ControlLoops, ShapedStream

LEMMA ShapesRefer == Shapes => References
<1> SUFFICES ASSUME Shapes PROVE References
    OBVIOUS
<1>1. manager \in [Pods -> RoomIds \cup {0}]
    BY DEF Shapes, RoomsSound
<1>2. \A c \in Conns : conns[c].room \in RoomIds \cup {0}
    BY ConnFields DEF Conn
<1>3. \A c \in Conns : streams[c].room \in RoomIds \cup {0}
    BY StreamFields DEF Stream
<1> QED BY <1>1, <1>2, <1>3 DEF References

\* A handler, or a stream, is replaced as a whole.
Put(c, h) == conns' = [conns EXCEPT ![c] = h]
PutStream(c, s) == streams' = [streams EXCEPT ![c] = s]

LEMMA PutKeeps ==
    ASSUME Shapes, NEW c \in Conns, NEW h, Put(c, h)
    PROVE  /\ h \in ShapedConn => Handlers'
           /\ conns'[c] = h
           /\ \A d \in Conns \ {c} : conns'[d] = conns[d]
           /\ DOMAIN conns' = Conns
BY DEF Shapes, Handlers, Put

LEMMA PutStreamKeeps ==
    ASSUME Shapes, NEW c \in Conns, NEW s, PutStream(c, s)
    PROVE  /\ s \in ShapedStream => ControlLoops'
           /\ streams'[c] = s
           /\ \A d \in Conns \ {c} : streams'[d] = streams[d]
           /\ DOMAIN streams' = Conns
BY DEF Shapes, ControlLoops, PutStream

\* A handler that only goes on to another line.
LEMMA StepKeeps ==
    ASSUME Shapes, NEW c \in Conns, NEW q \in ConnPC, Step(c, q)
    PROVE  /\ conns'[c] = [conns[c] EXCEPT !.pc = q]
           /\ conns'[c].pc = q
           /\ conns'[c].fence = conns[c].fence /\ conns'[c].acquired = conns[c].acquired
           /\ conns'[c].room = conns[c].room /\ conns'[c].watch = conns[c].watch
           /\ \A d \in Conns \ {c} : conns'[d] = conns[d]
           /\ DOMAIN conns' = Conns
           /\ /\ q \notin Unresolved => conns[c].fence \in Lease
              /\ q \in Roomed => conns[c].room \in RoomIds
              => Handlers'
<1> DEFINE h == [conns[c] EXCEPT !.pc = q]
<1>1. conns[c] \in Conn
    BY ConnFields
<1>2. /\ h \in Conn /\ h.pc = q /\ h.fence = conns[c].fence /\ h.room = conns[c].room
      /\ h.acquired = conns[c].acquired /\ h.watch = conns[c].watch
    BY <1>1 DEF Conn
<1>3. Put(c, h)
    BY DEF Step, Put
<1> HIDE DEF h
<1>4. /\ conns'[c] = h /\ (h \in ShapedConn => Handlers') /\ DOMAIN conns' = Conns
      /\ \A d \in Conns \ {c} : conns'[d] = conns[d]
    BY <1>3, PutKeeps
<1>5. /\ q \notin Unresolved => conns[c].fence \in Lease
      /\ q \in Roomed => conns[c].room \in RoomIds
      => h \in ShapedConn
    BY <1>2 DEF ShapedConn
<1> QED BY <1>2, <1>4, <1>5 DEF h

LEMMA ExitShape ==
    /\ Exit \in ShapedConn /\ Exit.pc = "gone" /\ Exit.fence = NoLease /\ ~Exit.acquired
    /\ Exit.room = 0 /\ Exit.acquired = FALSE
BY DEF Exit, NewConn, ShapedConn, Conn, ConnPC, Unresolved, Roomed

\* A handler that returns.
LEMMA FinishKeeps ==
    ASSUME Shapes, NEW c \in Conns, Finish(c)
    PROVE  /\ Handlers' /\ conns'[c] = Exit /\ DOMAIN conns' = Conns
           /\ \A d \in Conns \ {c} : conns'[d] = conns[d]
<1>1. Put(c, Exit)
    BY DEF Finish, Put
<1> QED BY <1>1, PutKeeps, ExitShape

-----------------------------------------------------------------------------
(* What a step does to the handlers                                         *)

\* The lines a handler that keeps its fence goes through.
Flow == {<<"out", "lookup">>, <<"out", "gone">>, <<"ready", "room">>, <<"validate", "room">>,
         <<"room", "check">>, <<"check", "admit">>, <<"check", "dial">>, <<"admit", "attach">>,
         <<"admit", "reuse">>, <<"reuse", "active">>, <<"attach", "active">>,
         <<"attach", "insert">>, <<"insert", "recheck">>, <<"recheck", "active">>,
         <<"dial", "registering">>, <<"registering", "active">>, <<"active", "leaving">>,
         <<"leaving", "archive">>, <<"leaving", "cleanup">>, <<"archive", "cleanup">>,
         <<"cleanup", "release">>}

\* The lines where a handler can return.
ExitPoints == {"lookup", "acquire", "ready", "validate", "check", "admit", "dial",
               "registering", "archive", "cleanup", "release"}

Alone(c) == DOMAIN conns' = Conns /\ \A d \in Conns \ {c} : conns'[d] = conns[d]

Quits(c) == conns'[c] = Exit /\ conns[c].pc \in ExitPoints

Goes(c) ==
    /\ <<conns[c].pc, conns'[c].pc>> \in Flow
    /\ conns'[c].fence = conns[c].fence
    /\ conns'[c].acquired = conns[c].acquired
    /\ conns[c].pc \notin {"room", "cleanup"} => conns'[c].room = conns[c].room
    /\ conns[c].pc = "room" => conns'[c].room = RoomAt(podOf[c])
    /\ conns[c].pc = "cleanup" => conns'[c].room = 0
    /\ conns[c].pc = "admit" => conns'[c].pc = IF conns[c].acquired THEN "attach" ELSE "reuse"
    /\ conns[c].pc = "check" => conns'[c].pc = IF Remote(c) THEN "dial" ELSE "admit"

\* resolve_join has asked Redis, or starts over.
Asks(c) ==
    /\ conns[c].pc \in {"lookup", "acquire", "ready"}
    /\ conns'[c].room = conns[c].room
    /\ \/ /\ conns[c].pc = "lookup" /\ conns'[c].fence = directory.lease
          /\ conns'[c].acquired = conns[c].acquired
          /\ conns'[c].pc = IF HasLease(directory) THEN Route(c, directory.lease) ELSE "acquire"
       \/ /\ conns[c].pc = "acquire" /\ HasLease(directory)
          /\ conns'[c].fence = directory.lease /\ conns'[c].acquired = FALSE
          /\ conns'[c].pc = Route(c, directory.lease)
       \/ /\ conns[c].pc = "acquire" /\ ~HasLease(directory)
          /\ directory' = Acquired(directory, podOf[c])
          /\ conns'[c].fence = directory'.lease /\ conns'[c].acquired = TRUE
          /\ conns'[c].pc = "room"
       \/ /\ conns[c].pc = "ready" /\ conns'[c].fence = NoLease
          /\ conns'[c].acquired = conns[c].acquired /\ conns'[c].pc = "lookup"

Moves(c) == Alone(c) /\ (Quits(c) \/ Goes(c) \/ Asks(c))

LEMMA FinishMoves ==
    ASSUME Shapes, NEW c \in Conns, Finish(c), conns[c].pc \in ExitPoints
    PROVE  Handlers' /\ Moves(c)
BY FinishKeeps DEF Moves, Alone, Quits

LEMMA StepMoves ==
    ASSUME Shapes, NEW c \in Conns, NEW q \in ConnPC, Step(c, q),
           <<conns[c].pc, q>> \in Flow \ {<<"room", "check">>, <<"cleanup", "release">>},
           conns[c].pc = "admit" => q = IF conns[c].acquired THEN "attach" ELSE "reuse",
           conns[c].pc = "check" => q = IF Remote(c) THEN "dial" ELSE "admit"
    PROVE  Handlers' /\ Moves(c)
<1>1. /\ conns'[c].pc = q /\ conns'[c].fence = conns[c].fence
      /\ conns'[c].acquired = conns[c].acquired /\ conns'[c].room = conns[c].room
      /\ Alone(c)
    BY StepKeeps DEF Alone
<1>2. /\ q \notin Unresolved => conns[c].pc \notin Unresolved
      /\ q \in Roomed => conns[c].pc \in Roomed
      /\ conns[c].pc \notin {"room", "cleanup"}
    BY DEF Flow, Unresolved, Roomed
<1>3. Handlers'
    BY <1>2, StepKeeps, ConnFields
<1>4. Goes(c)
    BY <1>1, <1>2 DEF Goes
<1> QED BY <1>1, <1>3, <1>4 DEF Moves

\* A handler replaced by a record it puts together.
LEMMA PutMoves ==
    ASSUME Shapes, NEW c \in Conns, NEW h \in ShapedConn, Put(c, h)
    PROVE  Handlers' /\ Alone(c) /\ conns'[c] = h
BY PutKeeps DEF Alone

LEMMA ConnectMoves ==
    ASSUME Shapes, NEW c \in Conns, Connect(c)
    PROVE  Handlers' /\ Moves(c)
<1> DEFINE q == IF IsDraining(podOf[c]) THEN "gone" ELSE "lookup"
<1>1. Step(c, q) /\ q \in ConnPC /\ conns[c].pc = "out"
    BY DEF Connect, ConnPC
<1>2. <<conns[c].pc, q>> \in Flow \ {<<"room", "check">>, <<"cleanup", "release">>}
    BY <1>1 DEF Flow
<1> HIDE DEF q
<1> QED BY <1>1, <1>2, StepMoves

\* owner_of answers a lease or none, and every lease has an owner.
LEMMA DirectoryFields ==
    ASSUME Shapes
    PROVE  /\ directory.generation \in Nat
           /\ HasLease(directory) => directory.lease \in Lease
           /\ directory.lease \in Lease \cup {NoLease}
           /\ directory = [lease |-> directory.lease, generation |-> directory.generation]
BY DEF Shapes, Plain, Directory, HasLease

LEMMA LookupMoves ==
    ASSUME Shapes, NEW c \in Conns, Lookup(c)
    PROVE  Handlers' /\ Moves(c)
<1> DEFINE q == IF HasLease(directory) THEN Route(c, directory.lease) ELSE "acquire"
           l == directory.lease
           h == [conns[c] EXCEPT !.fence = l, !.pc = q]
<1>0. conns[c] \in Conn /\ conns[c].pc = "lookup"
    BY ConnFields DEF Lookup
<1>1. Put(c, h)
    BY DEF Lookup, Put
<1>2. /\ q \in ConnPC /\ l \in Lease \cup {NoLease}
      /\ q \notin Unresolved => l \in Lease
      /\ q \notin Roomed
    BY DirectoryFields DEF Route, ConnPC, Unresolved, Roomed
<1> HIDE DEF q, l
<1>3. h \in Conn /\ h.fence = l /\ h.pc = q /\ h.acquired = conns[c].acquired /\ h.room = conns[c].room
    BY <1>0, <1>2 DEF Conn
<1>4. h \in ShapedConn
    BY <1>2, <1>3 DEF ShapedConn
<1> HIDE DEF h
<1>5. Handlers' /\ Alone(c) /\ conns'[c] = h
    BY <1>1, <1>4, PutMoves
<1> QED BY <1>0, <1>3, <1>5 DEF Moves, Asks, q, l

LEMMA AcquireMoves ==
    ASSUME Shapes, NEW c \in Conns, AcquireLease(c)
    PROVE  Handlers' /\ Moves(c) /\ Asks(c)
<1>0. conns[c] \in Conn /\ conns[c].pc = "acquire" /\ podOf[c] \in Pods
    BY ConnFields DEF AcquireLease
<1>1. CASE HasLease(directory)
    <2> DEFINE l == directory.lease
               h == [conns[c] EXCEPT !.fence = l, !.acquired = FALSE, !.pc = Route(c, l)]
    <2>1. Acquired(directory, podOf[c]) = directory
        BY <1>1 DEF Acquired
    <2>2. Put(c, h)
        BY <2>1 DEF AcquireLease, Put
    <2>3. /\ Route(c, l) \in ConnPC /\ l \in Lease /\ Route(c, l) \notin Roomed
        BY <1>1, DirectoryFields DEF Route, ConnPC, Roomed
    <2> HIDE DEF l
    <2>4. /\ h \in Conn /\ h.fence = l /\ h.pc = Route(c, l) /\ h.acquired = FALSE
          /\ h.room = conns[c].room
        BY <1>0, <2>3 DEF Conn
    <2>5. h \in ShapedConn
        BY <2>3, <2>4 DEF ShapedConn
    <2> HIDE DEF h
    <2>6. Handlers' /\ Alone(c) /\ conns'[c] = h
        BY <2>2, <2>5, PutMoves
    <2> QED BY <1>0, <1>1, <2>4, <2>6 DEF Moves, Asks, l
<1>2. CASE ~HasLease(directory)
    <2> DEFINE d == Acquired(directory, podOf[c])
               h == [conns[c] EXCEPT !.fence = d.lease, !.acquired = TRUE, !.pc = "room"]
    <2>1. d.lease \in Lease
        BY <1>0, <1>2, DirectoryFields DEF Acquired, Lease, Generation
    <2>2. d # directory
        BY <1>2, <2>1, NoLeaseIsNone DEF HasLease
    <2>3. Put(c, h) /\ directory' = d
        BY <2>2 DEF AcquireLease, Put
    <2> HIDE DEF d
    <2>4. /\ h \in Conn /\ h.fence = d.lease /\ h.pc = "room" /\ h.acquired = TRUE
          /\ h.room = conns[c].room
        BY <1>0, <2>1 DEF Conn, ConnPC
    <2>5. h \in ShapedConn
        BY <2>1, <2>4 DEF ShapedConn, Roomed
    <2> HIDE DEF h
    <2>6. Handlers' /\ Alone(c) /\ conns'[c] = h
        BY <2>3, <2>5, PutMoves
    <2> QED BY <1>0, <1>2, <2>3, <2>4, <2>6 DEF Moves, Asks, d
<1> QED BY <1>1, <1>2

LEMMA OwnerReadyMoves ==
    ASSUME Shapes, NEW c \in Conns, OwnerReady(c)
    PROVE  Handlers' /\ Moves(c)
<1> DEFINE n == conns[c].attempts + 1
           h == [conns[c] EXCEPT !.pc = "lookup", !.attempts = n, !.fence = NoLease]
<1>0. conns[c] \in Conn /\ conns[c].pc = "ready"
    BY ConnFields DEF OwnerReady
<1>1. CASE Step(c, "room")
    <2>1. <<conns[c].pc, "room">> \in Flow \ {<<"room", "check">>, <<"cleanup", "release">>}
        BY <1>0 DEF Flow
    <2> QED BY <1>0, <1>1, <2>1, StepMoves DEF ConnPC
<1>2. CASE Put(c, h)
    <2>1. n \in Nat
        BY <1>0 DEF Conn
    <2> HIDE DEF n
    <2>2. /\ h \in Conn /\ h.fence = NoLease /\ h.pc = "lookup" /\ h.acquired = conns[c].acquired
          /\ h.room = conns[c].room
        BY <1>0, <2>1 DEF Conn, ConnPC
    <2>3. h \in ShapedConn
        BY <2>2 DEF ShapedConn, Unresolved, Roomed
    <2> HIDE DEF h
    <2>4. Handlers' /\ Alone(c) /\ conns'[c] = h
        BY <1>2, <2>3, PutMoves
    <2> QED BY <1>0, <2>2, <2>4 DEF Moves, Asks
<1>3. CASE Finish(c)
    BY <1>0, <1>3, FinishMoves DEF ExitPoints
<1>4. Step(c, "room") \/ Put(c, h) \/ Finish(c)
    BY <1>0 DEF OwnerReady, Step, Put, Finish
<1> QED BY <1>1, <1>2, <1>3, <1>4

LEMMA ValidateOwnerMoves ==
    ASSUME Shapes, NEW c \in Conns, ValidateOwner(c)
    PROVE  Handlers' /\ Moves(c)
<1>0. conns[c].pc = "validate"
    BY DEF ValidateOwner
<1>1. CASE Step(c, "room")
    <2>1. <<conns[c].pc, "room">> \in Flow \ {<<"room", "check">>, <<"cleanup", "release">>}
        BY <1>0 DEF Flow
    <2> QED BY <1>0, <1>1, <2>1, StepMoves DEF ConnPC
<1>2. CASE Finish(c)
    BY <1>0, <1>2, FinishMoves DEF ExitPoints
<1>3. Step(c, "room") \/ Finish(c)
    BY DEF ValidateOwner, Step, Finish
<1> QED BY <1>1, <1>2, <1>3

LEMMA GetRoomMoves ==
    ASSUME Shapes, NEW c \in Conns, GetRoom(c)
    PROVE  Handlers' /\ Moves(c)
<1> DEFINE i == RoomAt(podOf[c])
           h == [conns[c] EXCEPT !.room = i, !.pc = "check"]
<1>0. conns[c] \in Conn /\ conns[c].pc = "room" /\ podOf[c] \in Pods /\ conns[c].fence \in Lease
    BY ConnFields DEF GetRoom, Unresolved
<1>1. i \in RoomIds
    BY <1>0, ShapesRefer, RoomAtType
<1>2. Put(c, h)
    BY DEF GetRoom, Put
<1> HIDE DEF i
<1>3. /\ h \in Conn /\ h.fence = conns[c].fence /\ h.pc = "check" /\ h.room = i
      /\ h.acquired = conns[c].acquired
    BY <1>0, <1>1 DEF Conn, ConnPC
<1>4. h \in ShapedConn
    BY <1>0, <1>1, <1>3 DEF ShapedConn
<1> HIDE DEF h
<1>5. Handlers' /\ Alone(c) /\ conns'[c] = h
    BY <1>2, <1>4, PutMoves
<1>6. Goes(c)
    BY <1>0, <1>3, <1>5 DEF Goes, Flow, i
<1> QED BY <1>5, <1>6 DEF Moves

LEMMA CheckChannelMoves ==
    ASSUME Shapes, NEW c \in Conns, CheckChannel(c)
    PROVE  Handlers' /\ Moves(c)
<1>0. conns[c].pc = "check"
    BY DEF CheckChannel
<1>1. CASE archived
    BY <1>0, <1>1, FinishMoves DEF CheckChannel, ExitPoints
<1>2. CASE ~archived
    <2> DEFINE q == IF Remote(c) THEN "dial" ELSE "admit"
    <2>1. q \in ConnPC /\ Step(c, q)
        BY <1>2 DEF CheckChannel, ConnPC
    <2>2. <<conns[c].pc, q>> \in Flow \ {<<"room", "check">>, <<"cleanup", "release">>}
        BY <1>0 DEF Flow
    <2>3. q = IF Remote(c) THEN "dial" ELSE "admit"
        OBVIOUS
    <2> HIDE DEF q
    <2> QED BY <1>0, <2>1, <2>2, <2>3, StepMoves
<1> QED BY <1>1, <1>2

LEMMA AdmitMoves ==
    ASSUME Shapes, NEW c \in Conns, Admit(c)
    PROVE  Handlers' /\ Moves(c)
<1> DEFINE q == IF conns[c].acquired THEN "attach" ELSE "reuse"
<1>0. conns[c].pc = "admit"
    BY DEF Admit
<1>1. q \in ConnPC /\ Step(c, q)
    BY DEF Admit, ConnPC
<1>2. <<conns[c].pc, q>> \in Flow \ {<<"room", "check">>, <<"cleanup", "release">>}
    BY <1>0 DEF Flow
<1>3. q = IF conns[c].acquired THEN "attach" ELSE "reuse"
    OBVIOUS
<1> HIDE DEF q
<1> QED BY <1>0, <1>1, <1>2, <1>3, StepMoves

\* A handler that captures the tokens of an epoch.
LEMMA WatchMoves ==
    ASSUME Shapes, NEW c \in Conns, NEW g \in Nat, NEW q \in {"active", "recheck"},
           <<conns[c].pc, q>> \in {<<"reuse", "active">>, <<"attach", "active">>,
                                   <<"insert", "recheck">>},
           Put(c, [conns[c] EXCEPT !.watch = g, !.pc = q])
    PROVE  Handlers' /\ Moves(c)
<1> DEFINE h == [conns[c] EXCEPT !.watch = g, !.pc = q]
<1>0. /\ conns[c] \in Conn /\ conns[c].pc \notin Unresolved /\ conns[c].pc \in Roomed
      /\ conns[c].pc \in {"reuse", "attach", "insert"}
    BY ConnFields DEF Unresolved, Roomed
<1>1. conns[c].fence \in Lease /\ conns[c].room \in RoomIds
    BY <1>0, ConnFields
<1>2. /\ h \in Conn /\ h.fence = conns[c].fence /\ h.pc = q /\ h.room = conns[c].room
      /\ h.acquired = conns[c].acquired
    BY <1>0 DEF Conn, ConnPC
<1>3. h \in ShapedConn
    BY <1>1, <1>2 DEF ShapedConn
<1>4. Put(c, h)
    OBVIOUS
<1> HIDE DEF h
<1>5. Handlers' /\ Alone(c) /\ conns'[c] = h
    BY <1>3, <1>4, PutMoves
<1>6. Goes(c)
    BY <1>0, <1>2, <1>5 DEF Goes, Flow
<1> QED BY <1>5, <1>6 DEF Moves

LEMMA AttachMoves ==
    ASSUME Shapes, NEW c \in Conns,
           ReuseSignals(c) \/ AttachCheck(c) \/ AttachInsert(c) \/ AttachRecheck(c)
    PROVE  Handlers' /\ Moves(c)
<1>0. registry[podOf[c]] \in Nat
    BY ConnFields DEF Shapes, Plain
<1>1. CASE ReuseSignals(c)
    <2>1. Put(c, [conns[c] EXCEPT !.watch = registry[podOf[c]], !.pc = "active"])
        BY <1>1 DEF ReuseSignals, Put
    <2>2. conns[c].pc = "reuse"
        BY <1>1 DEF ReuseSignals
    <2> QED BY <1>0, <2>1, <2>2, WatchMoves
<1>2. conns[c].pc \in {"attach", "insert", "recheck"} => Own(c) \in Nat
    <2>1. conns[c].pc \in {"attach", "insert", "recheck"} => conns[c].fence \in Lease
        BY ConnFields DEF Unresolved
    <2> QED BY <2>1 DEF Own, Lease, Generation
<1>3. CASE AttachCheck(c)
    <2>1. conns[c].pc = "attach"
        BY <1>3 DEF AttachCheck
    <2>2. CASE Step(c, "insert")
        <3>1. <<conns[c].pc, "insert">> \in Flow \ {<<"room", "check">>, <<"cleanup", "release">>}
            BY <2>1 DEF Flow
        <3> QED BY <2>1, <2>2, <3>1, StepMoves DEF ConnPC
    <2>3. CASE Put(c, [conns[c] EXCEPT !.watch = Own(c), !.pc = "active"])
        BY <1>2, <2>1, <2>3, WatchMoves
    <2>4. CASE Put(c, [conns[c] EXCEPT !.watch = Entry(c), !.pc = "active"])
        BY <1>0, <2>1, <2>4, WatchMoves DEF Entry
    <2>5. \/ Step(c, "insert") \/ Put(c, [conns[c] EXCEPT !.watch = Own(c), !.pc = "active"])
          \/ Put(c, [conns[c] EXCEPT !.watch = Entry(c), !.pc = "active"])
        BY <1>3 DEF AttachCheck, Put
    <2> QED BY <2>2, <2>3, <2>4, <2>5
<1>4. CASE AttachInsert(c)
    <2>1. Put(c, [conns[c] EXCEPT !.watch = Own(c), !.pc = "recheck"])
        BY <1>4 DEF AttachInsert, Put
    <2>2. conns[c].pc = "insert"
        BY <1>4 DEF AttachInsert
    <2> QED BY <1>2, <2>1, <2>2, WatchMoves
<1>5. CASE AttachRecheck(c)
    <2>1. Step(c, "active") /\ conns[c].pc = "recheck"
        BY <1>5 DEF AttachRecheck
    <2>2. <<conns[c].pc, "active">> \in Flow \ {<<"room", "check">>, <<"cleanup", "release">>}
        BY <2>1 DEF Flow
    <2> QED BY <2>1, <2>2, StepMoves DEF ConnPC
<1> QED BY <1>1, <1>3, <1>4, <1>5

\* The steps that are one line of the handler and nothing else.
LEMMA LineMoves ==
    ASSUME Shapes, NEW c \in Conns,
           \/ Dial(c) \/ AdmitMirror(c) \/ ClientLeaves(c) \/ OwnerTeardown(c)
           \/ RemoteTeardown(c) \/ LeaveRoom(c) \/ Archive(c)
    PROVE  Handlers' /\ Moves(c)
<1>1. \E q \in ConnPC :
         /\ Step(c, q)
         /\ <<conns[c].pc, q>> \in {<<"dial", "registering">>, <<"registering", "active">>,
                                    <<"active", "leaving">>, <<"leaving", "archive">>,
                                    <<"leaving", "cleanup">>, <<"archive", "cleanup">>}
    <2>1. CASE Dial(c)
        BY <2>1 DEF Dial, ConnPC
    <2>2. CASE AdmitMirror(c)
        BY <2>2 DEF AdmitMirror, ConnPC
    <2>3. CASE ClientLeaves(c) \/ OwnerTeardown(c) \/ RemoteTeardown(c)
        BY <2>3 DEF ClientLeaves, OwnerTeardown, RemoteTeardown, ConnPC
    <2>4. CASE LeaveRoom(c)
        <3> DEFINE q == IF ~Remote(c) /\ EndsWith(rooms[conns[c].room], c)
                        THEN "archive" ELSE "cleanup"
        <3>1. Step(c, q) /\ conns[c].pc = "leaving" /\ q \in {"archive", "cleanup"}
            BY <2>4 DEF LeaveRoom
        <3> HIDE DEF q
        <3> QED BY <3>1 DEF ConnPC
    <2>5. CASE Archive(c)
        BY <2>5 DEF Archive, ConnPC
    <2> QED BY <2>1, <2>2, <2>3, <2>4, <2>5
<1>2. PICK q \in ConnPC :
         /\ Step(c, q)
         /\ <<conns[c].pc, q>> \in {<<"dial", "registering">>, <<"registering", "active">>,
                                    <<"active", "leaving">>, <<"leaving", "archive">>,
                                    <<"leaving", "cleanup">>, <<"archive", "cleanup">>}
    BY <1>1
<1>3. /\ <<conns[c].pc, q>> \in Flow \ {<<"room", "check">>, <<"cleanup", "release">>}
      /\ conns[c].pc \notin {"admit", "check"}
    BY <1>2 DEF Flow
<1> QED BY <1>2, <1>3, StepMoves

\* The steps that only return.
LEMMA ReturnMoves ==
    ASSUME Shapes, NEW c \in Conns,
           \/ AcquireUnheard(c) \/ ResolveFails(c) \/ CheckChannelFails(c) \/ Refused(c)
           \/ RefuseMirror(c) \/ DialRejected(c) \/ DialFails(c) \/ ArchiveFails(c)
           \/ ReleaseOwner(c)
    PROVE  Handlers' /\ Moves(c)
<1>1. Finish(c) /\ conns[c].pc \in ExitPoints
    BY DEF AcquireUnheard, ResolveFails, CheckChannelFails, Refused, RefuseMirror, DialRejected,
           DialFails, ArchiveFails, ReleaseOwner, ExitPoints
<1> QED BY <1>1, FinishMoves

LEMMA CleanUpRoomMoves ==
    ASSUME Shapes, NEW c \in Conns, CleanUpRoom(c)
    PROVE  Handlers' /\ Moves(c)
<1> DEFINE h == [conns[c] EXCEPT !.pc = "release", !.room = 0]
<1>0. conns[c] \in Conn /\ conns[c].pc = "cleanup" /\ conns[c].fence \in Lease
    BY ConnFields DEF CleanUpRoom, Unresolved
<1>1. CASE Put(c, h)
    <2>1. /\ h \in Conn /\ h.fence = conns[c].fence /\ h.pc = "release" /\ h.room = 0
          /\ h.acquired = conns[c].acquired
        BY <1>0 DEF Conn, ConnPC
    <2>2. h \in ShapedConn
        BY <1>0, <2>1 DEF ShapedConn, Roomed
    <2> HIDE DEF h
    <2>3. Handlers' /\ Alone(c) /\ conns'[c] = h
        BY <1>1, <2>2, PutMoves
    <2>4. Goes(c)
        BY <1>0, <2>1, <2>3 DEF Goes, Flow
    <2> QED BY <2>3, <2>4 DEF Moves
<1>2. CASE Finish(c)
    BY <1>0, <1>2, FinishMoves DEF ExitPoints
<1>3. Put(c, h) \/ Finish(c)
    BY DEF CleanUpRoom, Put, Finish
<1> QED BY <1>1, <1>2, <1>3

\* Every step leaves the handlers alone, moves one, or is the death of a pod.
ConnStep(c) ==
    \/ Connect(c) \/ Lookup(c) \/ AcquireLease(c) \/ OwnerReady(c) \/ ValidateOwner(c)
    \/ GetRoom(c) \/ CheckChannel(c) \/ Admit(c)
    \/ ReuseSignals(c) \/ AttachCheck(c) \/ AttachInsert(c) \/ AttachRecheck(c)
    \/ Dial(c) \/ AdmitMirror(c) \/ ClientLeaves(c) \/ OwnerTeardown(c)
    \/ RemoteTeardown(c) \/ LeaveRoom(c) \/ Archive(c) \/ CleanUpRoom(c)
    \/ AcquireUnheard(c) \/ ResolveFails(c) \/ CheckChannelFails(c) \/ Refused(c)
    \/ RefuseMirror(c) \/ DialRejected(c) \/ DialFails(c) \/ ArchiveFails(c)
    \/ ReleaseOwner(c)

StreamStep(c) == ControlLoop(c) \/ StreamBreaks(c)

RenewerStep(g) == Renewer(g) \/ RenewFails(g) \/ ReleaseFails(g)

DrainStep(p) == DrainStart(p) \/ Drain(p)

LEMMA Steps ==
    ASSUME Next
    PROVE  \/ \E c \in Conns : ConnStep(c) \/ StreamStep(c)
           \/ \E g \in DOMAIN leases : RenewerStep(g)
           \/ \E p \in Pods : DrainStep(p) \/ PodDies(p)
           \/ LeaseExpires
BY DEF Next, Tasks, Failure, Handler, ConnStep, StreamStep, RenewerStep, DrainStep

LEMMA ConnStepMoves ==
    ASSUME Shapes, NEW c \in Conns, ConnStep(c)
    PROVE  Handlers' /\ Moves(c)
BY ConnectMoves, LookupMoves, AcquireMoves, OwnerReadyMoves, ValidateOwnerMoves, GetRoomMoves,
   CheckChannelMoves, AdmitMoves, AttachMoves, LineMoves, CleanUpRoomMoves, ReturnMoves
   DEF ConnStep

\* Everything but a handler's own step and a crash leaves the handlers alone.
LEMMA OthersLeaveHandlers ==
    /\ \A c \in Conns : StreamStep(c) => UNCHANGED <<conns, registry, leases, directory, drainer>>
    /\ \A g \in DOMAIN leases : RenewerStep(g) => UNCHANGED <<conns, registry, streams, drainer>>
    /\ \A p \in Pods : DrainStep(p) => UNCHANGED <<conns, directory, streams>>
    /\ LeaseExpires => UNCHANGED <<conns, leases, registry, streams, drainer>>
<1>1. \A c \in Conns : StreamStep(c) => UNCHANGED <<conns, registry, leases, directory, drainer>>
    BY DEF StreamStep, ControlLoop, AcceptInbound, RegisterPeer, ValidateRegister, AdmitRemote,
           RefuseRemote, OwnerSaysGoodbye, Unregister, StreamBreaks, StopServing
<1>2. \A g \in DOMAIN leases : RenewerStep(g) => UNCHANGED <<conns, registry, streams, drainer>>
    BY DEF RenewerStep, Renewer, RenewFindsLoss, RenewerCancelled, ReleaseLease, RenewFails,
           ReleaseFails
<1>3. \A p \in Pods : DrainStep(p) => UNCHANGED <<conns, directory, streams>>
    BY DEF DrainStep, Drain, DrainStart, DrainCollect, DrainRoom
<1>4. LeaseExpires => UNCHANGED <<conns, leases, registry, streams, drainer>>
    BY DEF LeaseExpires
<1> QED BY <1>1, <1>2, <1>3, <1>4

\* A pod dies with its handlers.
LEMMA PodDiesMoves ==
    ASSUME Shapes, NEW p \in Pods, PodDies(p)
    PROVE  /\ Handlers'
           /\ DOMAIN conns' = Conns
           /\ \A c \in Conns : conns'[c] = IF podOf[c] = p THEN Exit ELSE conns[c]
<1>1. conns' = [c \in Conns |-> IF podOf[c] = p THEN Exit ELSE conns[c]]
    BY DEF PodDies
<1> QED BY <1>1, ExitShape DEF Shapes, Handlers

LEMMA HandlersStep == Shapes /\ [Next]_vars => Handlers'
<1> SUFFICES ASSUME Shapes, [Next]_vars PROVE Handlers'
    OBVIOUS
<1>1. CASE UNCHANGED vars
    BY <1>1 DEF vars, Shapes, Handlers
<1>2. CASE UNCHANGED conns
    BY <1>2 DEF Shapes, Handlers
<1> QED BY <1>1, <1>2, Steps, ConnStepMoves, OthersLeaveHandlers, PodDiesMoves

-----------------------------------------------------------------------------
(* What a step does to the control streams                                  *)

AloneStream(c) == DOMAIN streams' = Conns /\ \A d \in Conns \ {c} : streams'[d] = streams[d]

\* dial_remote_owner.
Dials(c) ==
    /\ conns[c].pc = "dial"
    /\ streams'[c].pc \in {"closed", "hello"}
    /\ streams'[c].fence = conns[c].fence
    /\ streams'[c].room = 0 /\ streams'[c].index = NoIndex

\* The control loop goes on, or ends.
Serves(c) ==
    /\ <<streams[c].pc, streams'[c].pc>> \in
          {<<"hello", "register">>, <<"register", "closed">>, <<"register", "validating">>,
           <<"validating", "admitting">>, <<"validating", "closed">>, <<"admitting", "serving">>,
           <<"admitting", "closed">>, <<"serving", "closed">>}
    /\ streams'[c].fence = streams[c].fence
    /\ streams'[c].room = IF streams'[c].pc = "validating" THEN RoomAt(Owner(c))
                          ELSE IF streams'[c].pc = "closed" /\ streams[c].pc # "register"
                          THEN 0 ELSE streams[c].room
    /\ streams[c].pc # "admitting" => streams'[c].index = streams[c].index

SaysBye(c) ==
    /\ streams'[c].pc = streams[c].pc /\ streams'[c].fence = streams[c].fence
    /\ streams'[c].room = streams[c].room /\ streams'[c].index = streams[c].index

LEMMA ByeMoves ==
    ASSUME Shapes, NEW c \in Conns, Bye(c)
    PROVE  ControlLoops' /\ AloneStream(c) /\ SaysBye(c)
<1> DEFINE s == [streams[c] EXCEPT !.bye = TRUE]
<1>1. streams[c] \in Stream /\ PutStream(c, s)
    BY StreamFields DEF Bye, PutStream
<1>2. /\ s \in Stream /\ s.pc = streams[c].pc /\ s.fence = streams[c].fence
      /\ s.room = streams[c].room /\ s.index = streams[c].index
    BY <1>1 DEF Stream
<1>3. s \in ShapedStream
    BY <1>2, StreamFields DEF ShapedStream
<1> HIDE DEF s
<1> QED BY <1>1, <1>2, <1>3, PutStreamKeeps DEF AloneStream, SaysBye

LEMMA DialMoves ==
    ASSUME Shapes, NEW c \in Conns, Dial(c)
    PROVE  ControlLoops' /\ AloneStream(c) /\ Dials(c)
<1> DEFINE q == IF conns[c].fence.owner \in dead THEN "closed" ELSE "hello"
           l == conns[c].fence
           s == [NoStream EXCEPT !.fence = l, !.pc = q]
<1>1. conns[c].pc = "dial" /\ l \in Lease /\ q \in {"closed", "hello"}
    BY ConnFields DEF Dial, Unresolved
<1>2. PutStream(c, s)
    BY DEF Dial, PutStream
<1> HIDE DEF l, q
<1>3. /\ s \in Stream /\ s.pc = q /\ s.fence = l /\ s.room = 0 /\ s.index = NoIndex
    BY <1>1 DEF NoStream, Stream
<1>4. s \in ShapedStream
    BY <1>1, <1>3 DEF ShapedStream
<1> HIDE DEF s
<1> QED BY <1>1, <1>2, <1>3, <1>4, PutStreamKeeps DEF AloneStream, Dials, l

\* What Close leaves.
LEMMA CloseFields ==
    ASSUME Shapes, NEW c \in Conns, streams[c].pc # "none"
    PROVE  /\ Close(c) \in ShapedStream /\ Close(c).pc = "closed" /\ Close(c).room = 0
           /\ Close(c).fence = streams[c].fence /\ Close(c).index = streams[c].index
<1>1. streams[c] \in Stream /\ streams[c].fence \in Lease
    BY StreamFields
<1>2. /\ Close(c) \in Stream /\ Close(c).pc = "closed" /\ Close(c).room = 0
      /\ Close(c).fence = streams[c].fence /\ Close(c).index = streams[c].index
    BY <1>1 DEF Close, Stream
<1> QED BY <1>1, <1>2 DEF ShapedStream

LEMMA CloseMoves ==
    ASSUME Shapes, NEW c \in Conns, PutStream(c, Close(c)),
           streams[c].pc \in {"validating", "admitting", "serving"}
    PROVE  ControlLoops' /\ AloneStream(c) /\ Serves(c)
<1>1. /\ Close(c) \in ShapedStream /\ Close(c).pc = "closed" /\ Close(c).room = 0
      /\ Close(c).fence = streams[c].fence /\ Close(c).index = streams[c].index
    BY CloseFields
<1>2. ControlLoops' /\ AloneStream(c) /\ streams'[c] = Close(c)
    BY <1>1, PutStreamKeeps DEF AloneStream
<1> QED BY <1>1, <1>2 DEF Serves

LEMMA AcceptMoves ==
    ASSUME Shapes, NEW c \in Conns, AcceptInbound(c)
    PROVE  ControlLoops' /\ AloneStream(c) /\ Serves(c)
<1> DEFINE g == registry[Owner(c)]
           s == [streams[c] EXCEPT !.watch = g, !.pc = "register"]
<1>1. streams[c] \in Stream /\ streams[c].pc = "hello" /\ streams[c].fence \in Lease
    BY StreamFields DEF AcceptInbound
<1>2. g \in Nat
    BY <1>1 DEF Owner, Lease, Shapes, Plain
<1>3. PutStream(c, s)
    BY DEF AcceptInbound, PutStream
<1> HIDE DEF g
<1>4. /\ s \in Stream /\ s.pc = "register" /\ s.fence = streams[c].fence
      /\ s.room = streams[c].room /\ s.index = streams[c].index
    BY <1>1, <1>2 DEF Stream
<1>5. s \in ShapedStream
    BY <1>1, <1>4 DEF ShapedStream
<1> HIDE DEF s
<1>6. ControlLoops' /\ AloneStream(c) /\ streams'[c] = s
    BY <1>3, <1>5, PutStreamKeeps DEF AloneStream
<1> QED BY <1>1, <1>4, <1>6 DEF Serves

LEMMA RegisterMoves ==
    ASSUME Shapes, NEW c \in Conns, RegisterPeer(c)
    PROVE  /\ ControlLoops' /\ AloneStream(c) /\ Serves(c)
           /\ Owner(c) \in Pods /\ RoomAt(Owner(c)) \in RoomIds
<1> DEFINE i == RoomAt(Owner(c))
           a == [streams[c] EXCEPT !.pc = "closed"]
           b == [streams[c] EXCEPT !.room = i, !.pc = "validating"]
<1>1. streams[c] \in Stream /\ streams[c].pc = "register" /\ streams[c].fence \in Lease
    BY StreamFields DEF RegisterPeer
<1>2. Owner(c) \in Pods /\ i \in RoomIds
    BY <1>1, ShapesRefer, RoomAtType DEF Owner, Lease
<1>3. PutStream(c, a) \/ PutStream(c, b)
    BY DEF RegisterPeer, PutStream
<1>4. i = RoomAt(Owner(c))
    OBVIOUS
<1> HIDE DEF i
<1>5. /\ a \in Stream /\ a.pc = "closed" /\ a.fence = streams[c].fence
      /\ a.room = streams[c].room /\ a.index = streams[c].index
    BY <1>1 DEF Stream
<1>6. /\ b \in Stream /\ b.pc = "validating" /\ b.fence = streams[c].fence
      /\ b.room = i /\ b.index = streams[c].index
    BY <1>1, <1>2 DEF Stream
<1>7. a \in ShapedStream /\ b \in ShapedStream
    BY <1>1, <1>2, <1>5, <1>6 DEF ShapedStream
<1> HIDE DEF a, b
<1>8. ControlLoops' /\ AloneStream(c) /\ (streams'[c] = a \/ streams'[c] = b)
    BY <1>3, <1>7, PutStreamKeeps DEF AloneStream
<1>9. Serves(c)
    BY <1>1, <1>4, <1>5, <1>6, <1>8 DEF Serves
<1> QED BY <1>2, <1>4, <1>8, <1>9

LEMMA ValidateRegisterMoves ==
    ASSUME Shapes, NEW c \in Conns, ValidateRegister(c)
    PROVE  ControlLoops' /\ AloneStream(c) /\ Serves(c)
<1> DEFINE s == [streams[c] EXCEPT !.pc = "admitting"]
<1>1. /\ streams[c] \in Stream /\ streams[c].pc = "validating" /\ streams[c].fence \in Lease
      /\ streams[c].room \in RoomIds
    BY StreamFields DEF ValidateRegister
<1>2. PutStream(c, s) \/ PutStream(c, Close(c))
    BY DEF ValidateRegister, PutStream
<1>3. /\ s \in Stream /\ s.pc = "admitting" /\ s.fence = streams[c].fence
      /\ s.room = streams[c].room /\ s.index = streams[c].index
    BY <1>1 DEF Stream
<1>4. s \in ShapedStream
    BY <1>1, <1>3 DEF ShapedStream
<1> HIDE DEF s
<1>5. CASE PutStream(c, s)
    <2>1. ControlLoops' /\ AloneStream(c) /\ streams'[c] = s
        BY <1>4, <1>5, PutStreamKeeps DEF AloneStream
    <2> QED BY <1>1, <1>3, <2>1 DEF Serves
<1> QED BY <1>1, <1>2, <1>5, CloseMoves

LEMMA AdmitRemoteMoves ==
    ASSUME Shapes, NEW c \in Conns, AdmitRemote(c)
    PROVE  /\ ControlLoops' /\ AloneStream(c) /\ Serves(c)
           /\ streams'[c].index = AllocIndex(rooms[streams[c].room])
<1> DEFINE i == AllocIndex(rooms[streams[c].room])
           s == [streams[c] EXCEPT !.pc = "serving", !.index = i]
<1>1. /\ streams[c] \in Stream /\ streams[c].pc = "admitting" /\ streams[c].fence \in Lease
      /\ streams[c].room \in RoomIds
    BY StreamFields DEF AdmitRemote
<1>2. i \in Nat
    <2>1. rooms[streams[c].room] \in GoodRoom
        BY <1>1 DEF Shapes, RoomsSound
    <2> QED BY <2>1, AllocIsFresh
<1>3. PutStream(c, s)
    BY DEF AdmitRemote, PutStream
<1> HIDE DEF i
<1>4. /\ s \in Stream /\ s.pc = "serving" /\ s.fence = streams[c].fence
      /\ s.room = streams[c].room /\ s.index = i
    BY <1>1, <1>2 DEF Stream
<1>5. s \in ShapedStream
    BY <1>1, <1>4 DEF ShapedStream
<1> HIDE DEF s
<1>6. ControlLoops' /\ AloneStream(c) /\ streams'[c] = s
    BY <1>3, <1>5, PutStreamKeeps DEF AloneStream
<1> QED BY <1>1, <1>4, <1>6 DEF Serves, i

LEMMA StreamStepMoves ==
    ASSUME Shapes, NEW c \in Conns, StreamStep(c)
    PROVE  ControlLoops' /\ AloneStream(c) /\ Serves(c)
<1>1. CASE RefuseRemote(c) \/ OwnerSaysGoodbye(c) \/ Unregister(c) \/ StreamBreaks(c)
    <2>1. PutStream(c, Close(c)) /\ streams[c].pc \in {"admitting", "serving"}
        BY <1>1 DEF RefuseRemote, OwnerSaysGoodbye, Unregister, StreamBreaks, StopServing, PutStream
    <2> QED BY <2>1, CloseMoves
<1> QED BY <1>1, AcceptMoves, RegisterMoves, ValidateRegisterMoves, AdmitRemoteMoves
        DEF StreamStep, ControlLoop

\* A handler's step changes a stream only where it dials or says goodbye.
LEMMA ConnStepStreams ==
    ASSUME Shapes, NEW c \in Conns, ConnStep(c)
    PROVE  \/ UNCHANGED streams
           \/ /\ ControlLoops' /\ AloneStream(c)
              /\ Dials(c) \/ (SaysBye(c) /\ conns[c].pc \in {"registering", "active"})
<1>1. CASE Dial(c)
    BY <1>1, DialMoves
<1>2. CASE Bye(c) /\ conns[c].pc \in {"registering", "active"}
    BY <1>2, ByeMoves
<1>3. Dial(c) \/ (Bye(c) /\ conns[c].pc \in {"registering", "active"}) \/ UNCHANGED streams
    BY DEF ConnStep, Connect, Lookup, AcquireLease, OwnerReady, ValidateOwner, GetRoom,
           CheckChannel, Admit, ReuseSignals, AttachCheck, AttachInsert, AttachRecheck,
           AdmitMirror, ClientLeaves, OwnerTeardown, RemoteTeardown, LeaveRoom, Archive,
           CleanUpRoom, AcquireUnheard, ResolveFails, CheckChannelFails, Refused, RefuseMirror,
           DialRejected, DialFails, ArchiveFails, ReleaseOwner
<1> QED BY <1>1, <1>2, <1>3

\* A pod dies with the streams it serves.
LEMMA PodDiesStreams ==
    ASSUME Shapes, NEW p \in Pods, PodDies(p)
    PROVE  /\ ControlLoops'
           /\ DOMAIN streams' = Conns
           /\ \A c \in Conns :
                 /\ streams[c].pc # "none" /\ Owner(c) = p => streams'[c] = Close(c)
                 /\ ~(streams[c].pc # "none" /\ Owner(c) = p) => SaysBye(c)
<1> DEFINE New(c) == IF streams[c].pc # "none" /\ Owner(c) = p THEN Close(c)
                     ELSE IF podOf[c] = p THEN [streams[c] EXCEPT !.bye = TRUE] ELSE streams[c]
<1>1. streams' = [c \in Conns |-> New(c)]
    BY DEF PodDies
<1>2. ASSUME NEW c \in Conns
      PROVE  /\ New(c) \in ShapedStream
             /\ streams[c].pc # "none" /\ Owner(c) = p => New(c) = Close(c)
             /\ ~(streams[c].pc # "none" /\ Owner(c) = p) =>
                    /\ New(c).pc = streams[c].pc /\ New(c).fence = streams[c].fence
                    /\ New(c).room = streams[c].room /\ New(c).index = streams[c].index
    <2>1. CASE streams[c].pc # "none" /\ Owner(c) = p
        BY <2>1, CloseFields
    <2>2. CASE ~(streams[c].pc # "none" /\ Owner(c) = p)
        <3> DEFINE s == [streams[c] EXCEPT !.bye = TRUE]
        <3>1. streams[c] \in Stream /\ streams[c] \in ShapedStream
            BY StreamFields DEF Shapes, ControlLoops
        <3>2. /\ s \in Stream /\ s.pc = streams[c].pc /\ s.fence = streams[c].fence
              /\ s.room = streams[c].room /\ s.index = streams[c].index
            BY <3>1 DEF Stream
        <3>3. s \in ShapedStream
            BY <3>2, StreamFields DEF ShapedStream
        <3>4. New(c) \in {s, streams[c]}
            BY <2>2
        <3> HIDE DEF s, New
        <3> QED BY <2>2, <3>1, <3>2, <3>3, <3>4
    <2> QED BY <2>1, <2>2
<1> HIDE DEF New
<1>3. DOMAIN streams' = Conns /\ \A c \in Conns : streams'[c] = New(c)
    BY <1>1
<1>4. ControlLoops'
    BY <1>1, <1>2 DEF ControlLoops
<1> QED BY <1>2, <1>3, <1>4 DEF SaysBye

LEMMA ControlLoopsStep == Shapes /\ [Next]_vars => ControlLoops'
<1> SUFFICES ASSUME Shapes, [Next]_vars PROVE ControlLoops'
    OBVIOUS
<1>1. CASE UNCHANGED vars
    BY <1>1 DEF vars, Shapes, ControlLoops
<1>2. CASE UNCHANGED streams
    BY <1>2 DEF Shapes, ControlLoops
<1> QED BY <1>1, <1>2, Steps, ConnStepStreams, StreamStepMoves, OthersLeaveHandlers, PodDiesStreams

-----------------------------------------------------------------------------
(* What a step does to the rooms                                            *)

\* Of the rooms somebody still holds, only c's index in the rooms of S may
\* have changed.
KeepsPeers(c, S) ==
    \A i \in RoomIds : Referenced(i)' =>
        \A d \in Conns : d # c \/ i \notin S => rooms'[i].peers[d] = rooms[i].peers[d]

\* An Arc that is dropped takes nothing from the rooms that are left.
LEMMA DroppingKeeps ==
    ASSUME NEW f \in [RoomIds -> GoodRoom], Dropping(f)
    PROVE  /\ rooms' \in [RoomIds -> GoodRoom]
           /\ \A i \in RoomIds : Referenced(i)' => rooms'[i] = f[i]
BY FreshRoomIsGood DEF Dropping

LEMMA DroppingKeepsPeers ==
    ASSUME Shapes, Dropping(rooms)
    PROVE  rooms' \in [RoomIds -> GoodRoom] /\ \A c \in Conns : \A S : KeepsPeers(c, S)
<1>1. rooms \in [RoomIds -> GoodRoom]
    BY DEF Shapes, RoomsSound
<1> QED BY <1>1, DroppingKeeps DEF KeepsPeers

\* One room is changed, for one peer.
LEMMA OneRoomKeeps ==
    ASSUME Shapes, NEW c \in Conns, NEW i \in RoomIds, NEW r \in GoodRoom,
           \A d \in Conns \ {c} : r.peers[d] = rooms[i].peers[d],
           NEW f, f = [rooms EXCEPT ![i] = r],
           rooms' = f \/ Dropping(f)
    PROVE  /\ rooms' \in [RoomIds -> GoodRoom]
           /\ KeepsPeers(c, {i})
           /\ r.peers[c] = rooms[i].peers[c] => KeepsPeers(c, {})
<1>1. f \in [RoomIds -> GoodRoom]
    BY DEF Shapes, RoomsSound
<1>2. f[i] = r /\ \A j \in RoomIds \ {i} : f[j] = rooms[j]
    BY DEF Shapes, RoomsSound
<1>3. /\ rooms' \in [RoomIds -> GoodRoom]
      /\ \A j \in RoomIds : Referenced(j)' => rooms'[j] = f[j]
    BY <1>1, DroppingKeeps
<1> QED BY <1>2, <1>3 DEF KeepsPeers

LEMMA AdmitRooms ==
    ASSUME Shapes, NEW c \in Conns, Admit(c)
    PROVE  rooms' \in [RoomIds -> GoodRoom] /\ KeepsPeers(c, {conns[c].room})
<1> DEFINE i == conns[c].room
           r == AddPeer(rooms[i], c)
<1>1. i \in RoomIds /\ rooms[i] \in GoodRoom
    BY ConnFields DEF Admit, Roomed, Shapes, RoomsSound
<1>2. r \in GoodRoom /\ \A d \in Conns \ {c} : r.peers[d] = rooms[i].peers[d]
    BY <1>1, AddPeerKeeps
<1>3. rooms' = [rooms EXCEPT ![i] = r]
    BY DEF Admit
<1> HIDE DEF r, i
<1>4. rooms' \in [RoomIds -> GoodRoom] /\ KeepsPeers(c, {i})
    BY <1>1, <1>2, <1>3, OneRoomKeeps
<1> QED BY <1>4 DEF i

LEMMA AdmitRemoteRooms ==
    ASSUME Shapes, NEW c \in Conns, AdmitRemote(c)
    PROVE  rooms' \in [RoomIds -> GoodRoom] /\ KeepsPeers(c, {streams[c].room})
<1> DEFINE i == streams[c].room
           r == AddPeer(rooms[i], c)
<1>1. i \in RoomIds /\ rooms[i] \in GoodRoom
    BY StreamFields DEF AdmitRemote, Shapes, RoomsSound
<1>2. r \in GoodRoom /\ \A d \in Conns \ {c} : r.peers[d] = rooms[i].peers[d]
    BY <1>1, AddPeerKeeps
<1>3. rooms' = [rooms EXCEPT ![i] = r]
    BY DEF AdmitRemote
<1> HIDE DEF r, i
<1>4. rooms' \in [RoomIds -> GoodRoom] /\ KeepsPeers(c, {i})
    BY <1>1, <1>2, <1>3, OneRoomKeeps
<1> QED BY <1>4 DEF i

LEMMA AdmitMirrorRooms ==
    ASSUME Shapes, NEW c \in Conns, AdmitMirror(c)
    PROVE  /\ rooms' \in [RoomIds -> GoodRoom]
           /\ KeepsPeers(c, {conns[c].room})
           /\ rooms'[conns[c].room].peers[c] = streams[c].index
           /\ streams[c].index # NoIndex
<1> DEFINE i == conns[c].room
           n == streams[c].index
           r == AddPeerAt(rooms[i], c, n)
<1>1. /\ i \in RoomIds /\ rooms[i] \in GoodRoom
    BY ConnFields DEF AdmitMirror, Roomed, Shapes, RoomsSound
<1>2. n \in Nat /\ n \notin Indexes(rooms[i]) /\ n # NoIndex
    BY StreamFields DEF AdmitMirror, CanAddAt, Stream
<1>3. rooms' = [rooms EXCEPT ![i] = r]
    BY DEF AdmitMirror
<1>4. r \in GoodRoom /\ r.peers[c] = n /\ \A d \in Conns \ {c} : r.peers[d] = rooms[i].peers[d]
    <2> HIDE DEF i, n
    <2> QED BY <1>1, <1>2, AddPeerAtKeeps
<1> HIDE DEF r, i, n
<1>5. rooms' \in [RoomIds -> GoodRoom] /\ KeepsPeers(c, {i})
    BY <1>1, <1>3, <1>4, OneRoomKeeps
<1>6. rooms'[i] = r
    BY <1>1, <1>3 DEF Shapes, RoomsSound
<1> QED BY <1>2, <1>4, <1>5, <1>6 DEF i, n

LEMMA LeaveRoomRooms ==
    ASSUME Shapes, NEW c \in Conns, LeaveRoom(c)
    PROVE  rooms' \in [RoomIds -> GoodRoom] /\ KeepsPeers(c, {conns[c].room})
<1> DEFINE i == conns[c].room
           r == IF Remote(c) THEN RemovePeer(rooms[i], c) ELSE RemovePeerAndCheck(rooms[i], c)
<1>1. i \in RoomIds /\ rooms[i] \in GoodRoom
    BY ConnFields DEF LeaveRoom, Roomed, Shapes, RoomsSound
<1>2. r \in GoodRoom /\ \A d \in Conns \ {c} : r.peers[d] = rooms[i].peers[d]
    BY <1>1, RemovePeerKeeps, RemovePeerAndCheckKeeps
<1>3. rooms' = [rooms EXCEPT ![i] = r]
    BY DEF LeaveRoom
<1> HIDE DEF r, i
<1>4. rooms' \in [RoomIds -> GoodRoom] /\ KeepsPeers(c, {i})
    BY <1>1, <1>2, <1>3, OneRoomKeeps
<1> QED BY <1>4 DEF i

LEMMA ArchiveFailsRooms ==
    ASSUME Shapes, NEW c \in Conns, ArchiveFails(c)
    PROVE  rooms' \in [RoomIds -> GoodRoom] /\ KeepsPeers(c, {})
<1> DEFINE i == conns[c].room
           r == ClearEnded(rooms[i])
           f == [rooms EXCEPT ![i] = r]
<1>1. i \in RoomIds /\ rooms[i] \in GoodRoom
    BY ConnFields DEF ArchiveFails, Roomed, Shapes, RoomsSound
<1>2. r \in GoodRoom /\ r.peers = rooms[i].peers
    BY <1>1, RemovePeerAndCheckKeeps
<1>3. Dropping(f)
    BY DEF ArchiveFails
<1> HIDE DEF r, i
<1>4. f = [rooms EXCEPT ![i] = r]
    OBVIOUS
<1> HIDE DEF f
<1> QED BY <1>1, <1>2, <1>3, <1>4, OneRoomKeeps

\* The end of serve_control_loop touches the room its pod holds now.
LEMMA StopServingRooms ==
    ASSUME Shapes, NEW c \in Conns, StopServing(c)
    PROVE  rooms' \in [RoomIds -> GoodRoom] /\ KeepsPeers(c, {manager[Owner(c)]})
<1> DEFINE m == manager[Owner(c)]
           f == [i \in RoomIds |-> IF i = m THEN RemovePeer(rooms[i], c) ELSE rooms[i]]
<1>1. Dropping(f)
    BY DEF StopServing
<1> HIDE DEF m
<1>2. rooms \in [RoomIds -> GoodRoom]
    BY DEF Shapes, RoomsSound
<1>3. f \in [RoomIds -> GoodRoom]
    BY <1>2, RemovePeerKeeps
<1>4. \A i \in RoomIds : \A d \in Conns : d # c \/ i # m => f[i].peers[d] = rooms[i].peers[d]
    BY <1>2, RemovePeerKeeps
<1> HIDE DEF f
<1>5. rooms' \in [RoomIds -> GoodRoom] /\ KeepsPeers(c, {m})
    BY <1>1, <1>3, <1>4, DroppingKeeps DEF KeepsPeers
<1> QED BY <1>5 DEF m

LEMMA UnchangedRooms ==
    ASSUME Shapes, UNCHANGED rooms
    PROVE  rooms' \in [RoomIds -> GoodRoom] /\ \A c \in Conns : \A S : KeepsPeers(c, S)
BY DEF Shapes, RoomsSound, KeepsPeers

LEMMA ConnStepRooms ==
    ASSUME Shapes, NEW c \in Conns, ConnStep(c)
    PROVE  /\ rooms' \in [RoomIds -> GoodRoom]
           /\ KeepsPeers(c, {conns[c].room})
           /\ conns[c].pc \notin {"admit", "registering", "leaving"} => KeepsPeers(c, {})
<1>1. CASE Admit(c) \/ AdmitMirror(c) \/ LeaveRoom(c)
    <2>1. conns[c].pc \in {"admit", "registering", "leaving"}
        BY <1>1 DEF Admit, AdmitMirror, LeaveRoom
    <2> QED BY <1>1, <2>1, AdmitRooms, AdmitMirrorRooms, LeaveRoomRooms
<1>2. CASE ArchiveFails(c)
    BY <1>2, ArchiveFailsRooms DEF KeepsPeers
<1>3. CASE UNCHANGED rooms
    BY <1>3, UnchangedRooms
<1>4. CASE Dropping(rooms)
    BY <1>4, DroppingKeepsPeers
<1>5. \/ Admit(c) \/ AdmitMirror(c) \/ LeaveRoom(c) \/ ArchiveFails(c)
      \/ UNCHANGED rooms \/ Dropping(rooms)
    BY DEF ConnStep, Connect, Lookup, AcquireLease, OwnerReady, ValidateOwner, GetRoom,
           CheckChannel, ReuseSignals, AttachCheck, AttachInsert, AttachRecheck,
           Dial, ClientLeaves, OwnerTeardown, RemoteTeardown, Archive,
           CleanUpRoom, AcquireUnheard, ResolveFails, CheckChannelFails, Refused, RefuseMirror,
           DialRejected, DialFails, ReleaseOwner
<1> QED BY <1>1, <1>2, <1>3, <1>4, <1>5

LEMMA StreamStepRooms ==
    ASSUME Shapes, NEW c \in Conns, StreamStep(c)
    PROVE  /\ rooms' \in [RoomIds -> GoodRoom]
           /\ KeepsPeers(c, {streams[c].room, manager[Owner(c)]})
           /\ streams[c].pc \notin {"admitting", "serving"} => KeepsPeers(c, {})
<1>1. CASE AdmitRemote(c)
    <2>1. streams[c].pc = "admitting"
        BY <1>1 DEF AdmitRemote
    <2> QED BY <1>1, <2>1, AdmitRemoteRooms DEF KeepsPeers
<1>2. CASE OwnerSaysGoodbye(c) \/ Unregister(c) \/ StreamBreaks(c)
    <2>1. StopServing(c) /\ streams[c].pc = "serving"
        BY <1>2 DEF OwnerSaysGoodbye, Unregister, StreamBreaks
    <2> QED BY <2>1, StopServingRooms DEF KeepsPeers
<1>3. CASE UNCHANGED rooms
    BY <1>3, UnchangedRooms
<1>4. CASE Dropping(rooms)
    BY <1>4, DroppingKeepsPeers
<1>5. \/ AdmitRemote(c) \/ OwnerSaysGoodbye(c) \/ Unregister(c) \/ StreamBreaks(c)
      \/ UNCHANGED rooms \/ Dropping(rooms)
    BY DEF StreamStep, ControlLoop, AcceptInbound, RegisterPeer, ValidateRegister, RefuseRemote
<1> QED BY <1>1, <1>2, <1>3, <1>4, <1>5

\* No other step changes a room, and only a crash drops one.
LEMMA OtherRooms ==
    ASSUME Shapes,
           \/ \E g \in DOMAIN leases : RenewerStep(g)
           \/ \E p \in Pods : DrainStep(p) \/ PodDies(p)
           \/ LeaseExpires
    PROVE  rooms' \in [RoomIds -> GoodRoom] /\ \A c \in Conns : \A S : KeepsPeers(c, S)
<1>1. UNCHANGED rooms \/ Dropping(rooms)
    BY DEF RenewerStep, Renewer, RenewFindsLoss, RenewerCancelled, ReleaseLease, RenewFails,
           ReleaseFails, DrainStep, Drain, DrainStart, DrainCollect, DrainRoom, PodDies,
           LeaseExpires
<1> QED BY <1>1, UnchangedRooms, DroppingKeepsPeers

\* The manager of a pod keeps its room, drops it, or creates one.
Rehouses(p) == manager'[p] \in {manager[p], 0}

LEMMA CleanUpManager ==
    ASSUME Shapes, NEW p \in Pods, CleanUp(p)
    PROVE  manager' \in [Pods -> RoomIds \cup {0}] /\ \A q \in Pods : Rehouses(q)
BY DEF CleanUp, Shapes, RoomsSound, Rehouses

LEMMA ConnStepManager ==
    ASSUME Shapes, NEW c \in Conns, ConnStep(c)
    PROVE  /\ manager' \in [Pods -> RoomIds \cup {0}]
           /\ \A p \in Pods : \/ Rehouses(p)
                              \/ /\ p = podOf[c] /\ conns[c].pc = "room"
                                 /\ manager'[p] = RoomAt(p)
<1>1. podOf[c] \in Pods /\ RoomAt(podOf[c]) \in RoomIds
    BY ConnFields, ShapesRefer, RoomAtType
<1>2. CASE GetRoom(c)
    <2>1. manager' = [manager EXCEPT ![podOf[c]] = RoomAt(podOf[c])] /\ conns[c].pc = "room"
        BY <1>2 DEF GetRoom
    <2> QED BY <1>1, <2>1 DEF Shapes, RoomsSound, Rehouses
<1>3. CASE CleanUp(podOf[c])
    BY <1>1, <1>3, CleanUpManager
<1>4. CASE UNCHANGED manager
    BY <1>4 DEF Shapes, RoomsSound, Rehouses
<1>5. GetRoom(c) \/ CleanUp(podOf[c]) \/ UNCHANGED manager
    BY DEF ConnStep, Connect, Lookup, AcquireLease, OwnerReady, ValidateOwner,
           CheckChannel, Admit, ReuseSignals, AttachCheck, AttachInsert, AttachRecheck,
           Dial, AdmitMirror, ClientLeaves, OwnerTeardown, RemoteTeardown, LeaveRoom, Archive,
           CleanUpRoom, AcquireUnheard, ResolveFails, CheckChannelFails, Refused, RefuseMirror,
           DialRejected, DialFails, ArchiveFails, ReleaseOwner
<1> QED BY <1>2, <1>3, <1>4, <1>5

LEMMA StreamStepManager ==
    ASSUME Shapes, NEW c \in Conns, StreamStep(c)
    PROVE  /\ manager' \in [Pods -> RoomIds \cup {0}]
           /\ \A p \in Pods : \/ Rehouses(p)
                              \/ /\ p = Owner(c) /\ streams[c].pc = "register"
                                 /\ manager'[p] = RoomAt(p)
<1>1. CASE RegisterPeer(c)
    <2>1. Owner(c) \in Pods /\ RoomAt(Owner(c)) \in RoomIds
        BY <1>1, RegisterMoves
    <2>2. /\ streams[c].pc = "register"
          /\ UNCHANGED manager \/ manager' = [manager EXCEPT ![Owner(c)] = RoomAt(Owner(c))]
        BY <1>1 DEF RegisterPeer
    <2> QED BY <2>1, <2>2 DEF Shapes, RoomsSound, Rehouses
<1>2. CASE UNCHANGED manager
    BY <1>2 DEF Shapes, RoomsSound, Rehouses
<1>3. RegisterPeer(c) \/ UNCHANGED manager
    BY DEF StreamStep, ControlLoop, AcceptInbound, ValidateRegister, RefuseRemote, AdmitRemote,
           OwnerSaysGoodbye, Unregister, StreamBreaks, StopServing
<1> QED BY <1>1, <1>2, <1>3

LEMMA OtherManager ==
    ASSUME Shapes,
           \/ \E g \in DOMAIN leases : RenewerStep(g)
           \/ \E p \in Pods : DrainStep(p) \/ PodDies(p)
           \/ LeaseExpires
    PROVE  manager' \in [Pods -> RoomIds \cup {0}] /\ \A p \in Pods : Rehouses(p)
<1>1. CASE \E p \in Pods : PodDies(p)
    BY <1>1 DEF PodDies, Shapes, RoomsSound, Rehouses
<1>2. CASE UNCHANGED manager
    BY <1>2 DEF Shapes, RoomsSound, Rehouses
<1>3. (\E p \in Pods : PodDies(p)) \/ UNCHANGED manager
    BY DEF RenewerStep, Renewer, RenewFindsLoss, RenewerCancelled, ReleaseLease, RenewFails,
           ReleaseFails, DrainStep, Drain, DrainStart, DrainCollect, DrainRoom, LeaseExpires
<1> QED BY <1>1, <1>2, <1>3

LEMMA RoomsSoundStep == Shapes /\ [Next]_vars => RoomsSound'
<1> SUFFICES ASSUME Shapes, [Next]_vars PROVE RoomsSound'
    OBVIOUS
<1>1. CASE UNCHANGED vars
    BY <1>1 DEF vars, Shapes, RoomsSound
<1>2. CASE \E c \in Conns : ConnStep(c)
    BY <1>2, ConnStepRooms, ConnStepManager DEF RoomsSound
<1>3. CASE \E c \in Conns : StreamStep(c)
    BY <1>3, StreamStepRooms, StreamStepManager DEF RoomsSound
<1>4. CASE \/ \E g \in DOMAIN leases : RenewerStep(g)
           \/ \E p \in Pods : DrainStep(p) \/ PodDies(p)
           \/ LeaseExpires
    BY <1>4, OtherRooms, OtherManager DEF RoomsSound
<1> QED BY <1>1, <1>2, <1>3, <1>4, Steps

-----------------------------------------------------------------------------
(* The directory, the registry, the drains and the bounds                    *)

LEMMA BudgetKeeps ==
    ASSUME budget \in Budget, UNCHANGED budget \/ Error
    PROVE  budget' \in Budget /\ budget'.expiries = budget.expiries
BY DEF Budget, Error

\* An entry is published by the handler that attached the lease, and retracted
\* by a drain, a release or the death of its pod.
Enters(c) ==
    /\ conns[c].pc = "insert"
    /\ registry' = [registry EXCEPT ![podOf[c]] = Own(c)]

LEMMA ConnStepPlain ==
    ASSUME Shapes, NEW c \in Conns, ConnStep(c)
    PROVE  /\ Plain' /\ UNCHANGED <<drainer, podOf, dead>>
           /\ budget'.expiries = budget.expiries
           /\ \/ UNCHANGED registry
              \/ AttachInsert(c) /\ Enters(c)
              \/ registry' = [registry EXCEPT ![podOf[c]] = 0]
<1>0. Plain /\ podOf[c] \in Pods
    BY ConnFields DEF Shapes
<1>1. UNCHANGED <<drainer, podOf, dead>>
    BY DEF ConnStep, Connect, Lookup, AcquireLease, OwnerReady, ValidateOwner, GetRoom,
           CheckChannel, Admit, ReuseSignals, AttachCheck, AttachInsert, AttachRecheck,
           Dial, AdmitMirror, ClientLeaves, OwnerTeardown, RemoteTeardown, LeaveRoom, Archive,
           CleanUpRoom, AcquireUnheard, ResolveFails, CheckChannelFails, Refused, RefuseMirror,
           DialRejected, DialFails, ArchiveFails, ReleaseOwner
<1>2. UNCHANGED budget \/ Error
    BY DEF ConnStep, Connect, Lookup, AcquireLease, OwnerReady, ValidateOwner, GetRoom,
           CheckChannel, Admit, ReuseSignals, AttachCheck, AttachInsert, AttachRecheck,
           Dial, AdmitMirror, ClientLeaves, OwnerTeardown, RemoteTeardown, LeaveRoom, Archive,
           CleanUpRoom, AcquireUnheard, ResolveFails, CheckChannelFails, Refused, RefuseMirror,
           DialRejected, DialFails, ArchiveFails, ReleaseOwner
<1>3. archived' \in {archived, TRUE}
    BY DEF ConnStep, Connect, Lookup, AcquireLease, OwnerReady, ValidateOwner, GetRoom,
           CheckChannel, Admit, ReuseSignals, AttachCheck, AttachInsert, AttachRecheck,
           Dial, AdmitMirror, ClientLeaves, OwnerTeardown, RemoteTeardown, LeaveRoom, Archive,
           CleanUpRoom, AcquireUnheard, ResolveFails, CheckChannelFails, Refused, RefuseMirror,
           DialRejected, DialFails, ArchiveFails, ReleaseOwner
<1>4. directory' \in {directory, Acquired(directory, podOf[c])}
    BY DEF ConnStep, Connect, Lookup, AcquireLease, OwnerReady, ValidateOwner, GetRoom,
           CheckChannel, Admit, ReuseSignals, AttachCheck, AttachInsert, AttachRecheck,
           Dial, AdmitMirror, ClientLeaves, OwnerTeardown, RemoteTeardown, LeaveRoom, Archive,
           CleanUpRoom, AcquireUnheard, ResolveFails, CheckChannelFails, Refused, RefuseMirror,
           DialRejected, DialFails, ArchiveFails, ReleaseOwner
<1>5. Acquired(directory, podOf[c]) \in Directory
    BY <1>0 DEF Plain, Acquired, Directory, Lease, Generation
<1>6. /\ \/ UNCHANGED registry
         \/ AttachInsert(c) /\ Enters(c)
         \/ registry' = [registry EXCEPT ![podOf[c]] = 0]
      /\ registry' \in [Pods -> Nat]
    <2>1. CASE AttachInsert(c)
        <3>1. Enters(c)
            BY <2>1 DEF AttachInsert, Enters
        <3>2. Own(c) \in Nat
            BY <3>1, ConnFields DEF Enters, Unresolved, Own, Lease, Generation
        <3> QED BY <1>0, <2>1, <3>1, <3>2 DEF Enters, Plain
    <2>2. CASE registry' \in {registry, [registry EXCEPT ![podOf[c]] = 0]}
        BY <1>0, <2>2 DEF Plain
    <2>3. CASE AttachRecheck(c)
        <3>1. registry' \in {registry, [registry EXCEPT ![podOf[c]] = 0]}
            BY <1>0, <2>3 DEF AttachRecheck, Plain
        <3> QED BY <2>2, <3>1
    <2>4. \/ AttachInsert(c) \/ AttachRecheck(c)
          \/ registry' \in {registry, [registry EXCEPT ![podOf[c]] = 0]}
        BY DEF ConnStep, Connect, Lookup, AcquireLease, OwnerReady, ValidateOwner, GetRoom,
               CheckChannel, Admit, ReuseSignals, AttachCheck,
               Dial, AdmitMirror, ClientLeaves, OwnerTeardown, RemoteTeardown, LeaveRoom, Archive,
               CleanUpRoom, AcquireUnheard, ResolveFails, CheckChannelFails, Refused,
               RefuseMirror, DialRejected, DialFails, ArchiveFails, ReleaseOwner
    <2> QED BY <2>1, <2>2, <2>3, <2>4
<1>7. budget' \in Budget /\ budget'.expiries = budget.expiries
    BY <1>0, <1>2, BudgetKeeps DEF Plain
<1>8. directory' \in Directory /\ archived' \in BOOLEAN
    BY <1>0, <1>3, <1>4, <1>5 DEF Plain
<1> QED BY <1>0, <1>1, <1>6, <1>7, <1>8 DEF Plain

LEMMA StreamStepPlain ==
    ASSUME Shapes, NEW c \in Conns, StreamStep(c)
    PROVE  Plain' /\ UNCHANGED <<podOf, dead>> /\ budget'.expiries = budget.expiries
<1>1. UNCHANGED <<directory, registry, drainer, archived, podOf, dead>>
    BY DEF StreamStep, ControlLoop, AcceptInbound, RegisterPeer, ValidateRegister, AdmitRemote,
           RefuseRemote, OwnerSaysGoodbye, Unregister, StreamBreaks, StopServing
<1>2. UNCHANGED budget \/ Error
    BY DEF StreamStep, ControlLoop, AcceptInbound, RegisterPeer, ValidateRegister, AdmitRemote,
           RefuseRemote, OwnerSaysGoodbye, Unregister, StreamBreaks, StopServing
<1> QED BY <1>1, <1>2, BudgetKeeps DEF Plain, Shapes

LEMMA RenewerPlain ==
    ASSUME Shapes, NEW g \in DOMAIN leases, RenewerStep(g)
    PROVE  Plain' /\ UNCHANGED <<podOf, dead>> /\ budget'.expiries = budget.expiries
<1>1. UNCHANGED <<registry, drainer, archived, podOf, dead>>
    BY DEF RenewerStep, Renewer, RenewFindsLoss, RenewerCancelled, ReleaseLease, RenewFails,
           ReleaseFails
<1>2. UNCHANGED budget \/ Error
    BY DEF RenewerStep, Renewer, RenewFindsLoss, RenewerCancelled, ReleaseLease, RenewFails,
           ReleaseFails
<1>3. directory' \in {directory, Released(directory, Fence(g))}
    BY DEF RenewerStep, Renewer, RenewFindsLoss, RenewerCancelled, ReleaseLease, RenewFails,
           ReleaseFails
<1>4. Released(directory, Fence(g)) \in Directory
    BY DEF Released, Shapes, Plain, Directory
<1> QED BY <1>1, <1>2, <1>3, <1>4, BudgetKeeps DEF Plain, Shapes

LEMMA DrainPlain ==
    ASSUME Shapes, NEW p \in Pods, DrainStep(p)
    PROVE  Plain' /\ UNCHANGED <<podOf, dead, budget>>
<1>1. UNCHANGED <<directory, archived, podOf, dead, budget>>
    BY DEF DrainStep, Drain, DrainStart, DrainCollect, DrainRoom
<1>2. /\ registry \in [Pods -> Nat]
      /\ drainer \in [Pods -> [pc : {"idle", "collect", "drain", "done"}, entry : Nat]]
    BY DEF Shapes, Plain
<1>3. registry' \in [Pods -> Nat]
    BY <1>2 DEF DrainStep, Drain, DrainStart, DrainCollect, DrainRoom
<1>4. drainer' \in [Pods -> [pc : {"idle", "collect", "drain", "done"}, entry : Nat]]
    BY <1>2 DEF DrainStep, Drain, DrainStart, DrainCollect, DrainRoom
<1> QED BY <1>1, <1>3, <1>4 DEF Plain, Shapes

LEMMA PodDiesPlain ==
    ASSUME Shapes, NEW p \in Pods, PodDies(p)
    PROVE  Plain' /\ UNCHANGED <<podOf, budget, directory>>
BY DEF PodDies, Plain, Shapes

LEMMA ExpiryPlain ==
    ASSUME Shapes, LeaseExpires
    PROVE  Plain' /\ UNCHANGED <<podOf, dead>>
<1>1. budget \in Budget /\ directory \in Directory
    BY DEF Shapes, Plain
<1>2. budget' \in Budget
    BY <1>1 DEF LeaseExpires, Budget
<1>3. directory' \in Directory
    BY <1>1 DEF LeaseExpires, Expired, Directory
<1> QED BY <1>2, <1>3 DEF LeaseExpires, Plain, Shapes

LEMMA ShapesStep == Shapes /\ [Next]_vars => Shapes'
<1> SUFFICES ASSUME Shapes, [Next]_vars PROVE Plain'
    BY HandlersStep, ControlLoopsStep, RoomsSoundStep DEF Shapes
<1>1. CASE UNCHANGED vars
    BY <1>1 DEF vars, Shapes, Plain
<1> QED BY <1>1, Steps, ConnStepPlain, StreamStepPlain, RenewerPlain, DrainPlain, PodDiesPlain,
           ExpiryPlain

-----------------------------------------------------------------------------
(* What a step does to the leases                                           *)

\* A lease, or none, that Redis minted.
Issued(l, ls) ==
    l = NoLease \/ (l \in Lease /\ l.generation \in DOMAIN ls /\ ls[l.generation].pod = l.owner)

\* Redis' counter counts the grants, and every fence anybody holds was minted.
Ledger ==
    /\ leases \in Seq(Granted)
    /\ directory.generation = Len(leases)
    /\ Issued(directory.lease, leases)
    /\ \A c \in Conns : Issued(conns[c].fence, leases)

\* From acquire to the insert a handler holds a lease that nobody renews yet.
Holding(c) == conns[c].acquired /\ conns[c].pc \in {"room", "check", "admit", "attach", "insert"}

HoldsAlone(c) ==
    /\ conns[c].acquired => /\ conns[c].fence.owner = podOf[c]
                            /\ conns[c].pc \notin {"out", "lookup", "acquire", "ready", "validate"}
    /\ conns[c].pc \in {"attach", "insert", "recheck"} => conns[c].acquired
    /\ Holding(c) => leases[Own(c)].renewer = "unborn" /\ ~leases[Own(c)].cancel
    /\ conns[c].pc = "recheck" => leases[Own(c)].renewer # "unborn"
    /\ \A d \in Conns : Holding(c) /\ Holding(d) /\ Own(c) = Own(d) => c = d

Holders == \A c \in Conns : HoldsAlone(c)

\* An entry is an epoch of its pod that nobody has cancelled, and whose renewer
\* is running or has said that it is not.
EntryAlive(p) ==
    registry[p] # 0 =>
        /\ registry[p] \in DOMAIN leases
        /\ leases[registry[p]].pod = p
        /\ ~leases[registry[p]].cancel
        /\ \/ leases[registry[p]].renewer = "running"
           \/ leases[registry[p]].renewer \in {"releasing", "ended"} /\ leases[registry[p]].lost

Entries == \A p \in Pods : EntryAlive(p)

Epochs == Shapes /\ Ledger /\ Holders /\ Entries

PutLease(g, v) == leases' = [leases EXCEPT ![g] = v]

\* The grants stay as they are, and of the tokens only those of g may change.
Edits(g) ==
    /\ leases' \in Seq(Granted) /\ Len(leases') = Len(leases)
    /\ DOMAIN leases' = DOMAIN leases
    /\ \A h \in DOMAIN leases : leases'[h].pod = leases[h].pod
    /\ \A h \in DOMAIN leases \ {g} : leases'[h] = leases[h]

LEMMA PutLeaseEdits ==
    ASSUME leases \in Seq(Granted), NEW g \in DOMAIN leases,
           NEW v \in Granted, v.pod = leases[g].pod, PutLease(g, v)
    PROVE  Edits(g) /\ leases'[g] = v
<1>1. g \in 1..Len(leases)
    OBVIOUS
<1>2. leases' \in Seq(Granted) /\ Len(leases') = Len(leases)
    BY <1>1, ExceptSeq DEF PutLease
<1>3. DOMAIN leases' = DOMAIN leases /\ leases'[g] = v
    BY DEF PutLease
<1>4. \A h \in DOMAIN leases \ {g} : leases'[h] = leases[h]
    BY DEF PutLease
<1> QED BY <1>2, <1>3, <1>4 DEF Edits

\* A handler's own lease, once it has one.
LEMMA OwnLease ==
    ASSUME Epochs, NEW c \in Conns, conns[c].fence \in Lease
    PROVE  /\ Own(c) \in DOMAIN leases /\ leases[Own(c)] \in Granted /\ Own(c) # 0
           /\ leases[Own(c)].pod = conns[c].fence.owner
<1>1. /\ leases \in Seq(Granted) /\ Issued(conns[c].fence, leases)
    BY DEF Epochs, Ledger
<1>2. conns[c].fence # NoLease
    BY NoLeaseIsNone
<1>3. Own(c) \in DOMAIN leases /\ leases[Own(c)].pod = conns[c].fence.owner
    BY <1>1, <1>2 DEF Issued, Own
<1> QED BY <1>1, <1>3

\* attach_signals on a pod that cannot take the entry.
LEMMA AttachCheckLeases ==
    ASSUME Epochs, NEW c \in Conns, AttachCheck(c)
    PROVE  \/ UNCHANGED leases /\ conns'[c].pc = "insert"
           \/ Edits(Own(c)) /\ conns'[c].pc = "active"
<1>0. Shapes
    BY DEF Epochs
<1>1. conns[c].fence \in Lease /\ conns[c].pc = "attach" /\ conns[c] \in Conn
    BY <1>0, ConnFields DEF AttachCheck, Unresolved
<1>2. Own(c) \in DOMAIN leases /\ leases[Own(c)] \in Granted
    BY <1>1, OwnLease
<1>3. leases \in Seq(Granted)
    BY DEF Epochs, Ledger
<1> DEFINE a == [leases[Own(c)] EXCEPT !.renewer = "releasing", !.draining = TRUE]
           b == [leases[Own(c)] EXCEPT !.renewer = "releasing"]
<1>4. a \in Granted /\ a.pod = leases[Own(c)].pod /\ b \in Granted /\ b.pod = leases[Own(c)].pod
    BY <1>2 DEF Granted
<1>5. CASE UNCHANGED leases /\ Step(c, "insert")
    BY <1>0, <1>5, StepKeeps DEF ConnPC
<1>6. CASE /\ PutLease(Own(c), a) \/ PutLease(Own(c), b)
           /\ \E g : Put(c, [conns[c] EXCEPT !.watch = g, !.pc = "active"])
    <2>1. Edits(Own(c))
        <3> HIDE DEF a, b
        <3> QED BY <1>2, <1>3, <1>4, <1>6, PutLeaseEdits
    <2>2. PICK g : Put(c, [conns[c] EXCEPT !.watch = g, !.pc = "active"])
        BY <1>6
    <2>3. conns'[c] = [conns[c] EXCEPT !.watch = g, !.pc = "active"]
        BY <1>0, <2>2, PutKeeps
    <2>4. conns'[c].pc = "active"
        BY <1>1, <2>3 DEF Conn
    <2> QED BY <2>1, <2>4
<1>7. \/ UNCHANGED leases /\ Step(c, "insert")
      \/ /\ PutLease(Own(c), a) \/ PutLease(Own(c), b)
         /\ \E g : Put(c, [conns[c] EXCEPT !.watch = g, !.pc = "active"])
    BY DEF AttachCheck, Put, PutLease
<1> QED BY <1>5, <1>6, <1>7

LEMMA AttachInsertLeases ==
    ASSUME Epochs, NEW c \in Conns, AttachInsert(c)
    PROVE  /\ Edits(Own(c)) /\ conns'[c].pc = "recheck" /\ conns'[c].fence = conns[c].fence
           /\ leases'[Own(c)].renewer = "running"
           /\ leases'[Own(c)].cancel = leases[Own(c)].cancel
<1>0. Shapes /\ leases \in Seq(Granted)
    BY DEF Epochs, Ledger
<1>1. conns[c].fence \in Lease /\ conns[c].pc = "insert" /\ conns[c] \in Conn
    BY <1>0, ConnFields DEF AttachInsert, Unresolved
<1>2. Own(c) \in DOMAIN leases /\ leases[Own(c)] \in Granted
    BY <1>1, OwnLease
<1> DEFINE v == [leases[Own(c)] EXCEPT !.renewer = "running"]
           h == [conns[c] EXCEPT !.watch = Own(c), !.pc = "recheck"]
<1>3. /\ v \in Granted /\ v.pod = leases[Own(c)].pod /\ v.renewer = "running"
      /\ v.cancel = leases[Own(c)].cancel
    BY <1>2 DEF Granted
<1>4. PutLease(Own(c), v) /\ Put(c, h)
    BY DEF AttachInsert, PutLease, Put
<1>5. h.pc = "recheck" /\ h.fence = conns[c].fence
    BY <1>1 DEF Conn
<1> HIDE DEF v, h
<1>6. Edits(Own(c)) /\ leases'[Own(c)] = v
    BY <1>0, <1>2, <1>3, <1>4, PutLeaseEdits
<1>7. conns'[c] = h
    BY <1>0, <1>4, PutKeeps
<1> QED BY <1>3, <1>5, <1>6, <1>7

\* A drain or a release cancels the renewer of an epoch and nothing else.
Cancels(g) == Edits(g) /\ leases'[g].renewer = leases[g].renewer

LEMMA CancelEdits ==
    ASSUME Epochs, NEW g \in DOMAIN leases,
           \/ PutLease(g, [leases[g] EXCEPT !.draining = TRUE, !.cancel = TRUE])
           \/ PutLease(g, [leases[g] EXCEPT !.cancel = TRUE])
    PROVE  Cancels(g)
<1>1. leases \in Seq(Granted) /\ leases[g] \in Granted
    BY DEF Epochs, Ledger
<1> DEFINE a == [leases[g] EXCEPT !.draining = TRUE, !.cancel = TRUE]
           b == [leases[g] EXCEPT !.cancel = TRUE]
<1>2. /\ a \in Granted /\ a.pod = leases[g].pod /\ a.renewer = leases[g].renewer
      /\ b \in Granted /\ b.pod = leases[g].pod /\ b.renewer = leases[g].renewer
    BY <1>1 DEF Granted
<1>3. PutLease(g, a) \/ PutLease(g, b)
    OBVIOUS
<1> HIDE DEF a, b
<1> QED BY <1>1, <1>2, <1>3, PutLeaseEdits DEF Cancels

LEMMA AttachRecheckLeases ==
    ASSUME Epochs, NEW c \in Conns, AttachRecheck(c)
    PROVE  \/ UNCHANGED <<leases, registry>>
           \/ /\ Cancels(Own(c)) /\ Own(c) \in DOMAIN leases
              /\ registry' = [registry EXCEPT ![podOf[c]] = IF @ = Own(c) THEN 0 ELSE @]
<1>1. conns[c].fence \in Lease
    BY ConnFields DEF AttachRecheck, Unresolved, Epochs
<1>2. Own(c) \in DOMAIN leases
    BY <1>1, OwnLease
<1>3. CASE UNCHANGED <<leases, registry>>
    BY <1>3
<1>4. CASE IsDraining(podOf[c])
    <2>1. PutLease(Own(c), [leases[Own(c)] EXCEPT !.draining = TRUE, !.cancel = TRUE])
        BY <1>4 DEF AttachRecheck, PutLease
    <2> QED BY <1>2, <1>4, <2>1, CancelEdits DEF AttachRecheck
<1> QED BY <1>3, <1>4 DEF AttachRecheck

LEMMA ReleaseOwnerLeases ==
    ASSUME Epochs, NEW c \in Conns, ReleaseOwner(c)
    PROVE  \/ UNCHANGED <<leases, registry>>
           \/ /\ Cancels(Own(c)) /\ Own(c) \in DOMAIN leases
              /\ registry[podOf[c]] = Own(c) /\ Own(c) # 0
              /\ registry' = [registry EXCEPT ![podOf[c]] = 0]
<1>1. conns[c].fence \in Lease
    BY ConnFields DEF ReleaseOwner, Unresolved, Epochs
<1>2. Own(c) \in DOMAIN leases /\ Own(c) # 0
    BY <1>1, OwnLease
<1>3. CASE UNCHANGED <<leases, registry>>
    BY <1>3
<1>4. CASE Entry(c) = Own(c)
    <2>1. PutLease(Own(c), [leases[Own(c)] EXCEPT !.cancel = TRUE])
        BY <1>4 DEF ReleaseOwner, PutLease
    <2> QED BY <1>2, <1>4, <2>1, CancelEdits DEF ReleaseOwner, Entry
<1> QED BY <1>3, <1>4 DEF ReleaseOwner

LEMMA DrainLeases ==
    ASSUME Epochs, NEW p \in Pods, DrainStep(p)
    PROVE  \/ UNCHANGED <<leases, registry>>
           \/ /\ registry[p] # 0 /\ Cancels(registry[p]) /\ registry[p] \in DOMAIN leases
              /\ registry' = [registry EXCEPT ![p] = 0]
<1> DEFINE g == registry[p]
<1>1. CASE DrainRoom(p) /\ g # 0 /\ g = drainer[p].entry
    <2>1. g \in DOMAIN leases
        BY <1>1 DEF Epochs, Entries, EntryAlive
    <2>2. PutLease(g, [leases[g] EXCEPT !.draining = TRUE, !.cancel = TRUE])
        BY <1>1 DEF DrainRoom, PutLease
    <2>3. registry' = [registry EXCEPT ![p] = 0]
        BY <1>1 DEF DrainRoom
    <2>4. Cancels(g)
        BY <2>1, <2>2, CancelEdits
    <2> QED BY <1>1, <2>1, <2>3, <2>4
<1>2. CASE ~(DrainRoom(p) /\ g # 0 /\ g = drainer[p].entry)
    BY <1>2 DEF DrainStep, Drain, DrainStart, DrainCollect, DrainRoom
<1> QED BY <1>1, <1>2

\* A renewer that stops says so, unless it was cancelled.
LEMMA RenewerLeases ==
    ASSUME Epochs, NEW g \in DOMAIN leases, RenewerStep(g)
    PROVE  /\ Edits(g)
           /\ leases[g].renewer \in {"running", "releasing"}
           /\ leases'[g].renewer \in {"releasing", "ended"}
           /\ leases'[g].cancel = leases[g].cancel
           /\ leases[g].lost => leases'[g].lost
           /\ leases[g].renewer = "running" => leases'[g].lost \/ leases[g].cancel
<1>1. leases \in Seq(Granted) /\ leases[g] \in Granted
    BY DEF Epochs, Ledger
<1>2. CASE RenewFindsLoss(g) \/ RenewFails(g)
    <2> DEFINE v == [leases[g] EXCEPT !.renewer = "releasing", !.lost = TRUE]
    <2>1. PutLease(g, v) /\ leases[g].renewer = "running"
        BY <1>2 DEF RenewFindsLoss, RenewFails, PutLease
    <2>2. /\ v \in Granted /\ v.pod = leases[g].pod /\ v.renewer = "releasing" /\ v.lost
          /\ v.cancel = leases[g].cancel
        BY <1>1 DEF Granted
    <2> HIDE DEF v
    <2>3. Edits(g) /\ leases'[g] = v
        BY <1>1, <2>1, <2>2, PutLeaseEdits
    <2> QED BY <2>1, <2>2, <2>3
<1>3. CASE RenewerCancelled(g)
    <2> DEFINE v == [leases[g] EXCEPT !.renewer = "releasing"]
    <2>1. PutLease(g, v) /\ leases[g].renewer = "running" /\ leases[g].cancel
        BY <1>3 DEF RenewerCancelled, PutLease
    <2>2. /\ v \in Granted /\ v.pod = leases[g].pod /\ v.renewer = "releasing"
          /\ v.lost = leases[g].lost /\ v.cancel = leases[g].cancel
        BY <1>1 DEF Granted
    <2> HIDE DEF v
    <2>3. Edits(g) /\ leases'[g] = v
        BY <1>1, <2>1, <2>2, PutLeaseEdits
    <2> QED BY <2>1, <2>2, <2>3
<1>4. CASE ReleaseLease(g)
    <2> DEFINE l == leases[g].lost \/ ~Holds(directory, Fence(g))
               v == [leases[g] EXCEPT !.renewer = "ended", !.lost = l]
    <2>1. PutLease(g, v) /\ leases[g].renewer = "releasing"
        BY <1>4 DEF ReleaseLease, PutLease
    <2>2. l \in BOOLEAN /\ (leases[g].lost => l)
        OBVIOUS
    <2> HIDE DEF l
    <2>3. /\ v \in Granted /\ v.pod = leases[g].pod /\ v.renewer = "ended" /\ v.lost = l
          /\ v.cancel = leases[g].cancel
        BY <1>1, <2>2 DEF Granted
    <2> HIDE DEF v
    <2>4. Edits(g) /\ leases'[g] = v
        BY <1>1, <2>1, <2>3, PutLeaseEdits
    <2> QED BY <2>1, <2>2, <2>3, <2>4
<1>5. CASE ReleaseFails(g)
    <2> DEFINE v == [leases[g] EXCEPT !.renewer = "ended"]
    <2>1. PutLease(g, v) /\ leases[g].renewer = "releasing"
        BY <1>5 DEF ReleaseFails, PutLease
    <2>2. /\ v \in Granted /\ v.pod = leases[g].pod /\ v.renewer = "ended"
          /\ v.lost = leases[g].lost /\ v.cancel = leases[g].cancel
        BY <1>1 DEF Granted
    <2> HIDE DEF v
    <2>3. Edits(g) /\ leases'[g] = v
        BY <1>1, <2>1, <2>2, PutLeaseEdits
    <2> QED BY <2>1, <2>2, <2>3
<1> QED BY <1>2, <1>3, <1>4, <1>5 DEF RenewerStep, Renewer

\* A pod dies with its renewers.
LEMMA PodDiesLeases ==
    ASSUME Epochs, NEW p \in Pods, PodDies(p)
    PROVE  /\ leases' \in Seq(Granted) /\ Len(leases') = Len(leases)
           /\ DOMAIN leases' = DOMAIN leases
           /\ \A g \in DOMAIN leases :
                 /\ leases'[g].pod = leases[g].pod
                 /\ leases[g].pod # p => leases'[g] = leases[g]
                 /\ leases[g].pod = p => leases'[g].renewer = "ended"
           /\ registry' = [registry EXCEPT ![p] = 0]
<1> DEFINE New(g) == IF leases[g].pod = p THEN [leases[g] EXCEPT !.renewer = "ended"]
                     ELSE leases[g]
<1>1. leases \in Seq(Granted) /\ DOMAIN leases = 1..Len(leases) /\ Len(leases) \in Nat
    BY DEF Epochs, Ledger
<1>2. leases' = [g \in DOMAIN leases |-> New(g)]
    BY DEF PodDies
<1>3. ASSUME NEW g \in DOMAIN leases
      PROVE  /\ New(g) \in Granted /\ New(g).pod = leases[g].pod
             /\ leases[g].pod # p => New(g) = leases[g]
             /\ leases[g].pod = p => New(g).renewer = "ended"
    <2>1. leases[g] \in Granted
        BY <1>1
    <2> QED BY <2>1 DEF Granted
<1> HIDE DEF New
<1>4. DOMAIN leases' = DOMAIN leases /\ \A g \in DOMAIN leases : leases'[g] = New(g)
    BY <1>2
<1>5. leases' \in [1..Len(leases) -> Granted]
    BY <1>1, <1>2, <1>3
<1>6. leases' \in Seq(Granted)
    BY <1>1, <1>5, SeqDef
<1>7. Len(leases') = Len(leases)
    BY <1>1, <1>4, <1>6, LenProperties
<1>8. registry' = [registry EXCEPT ![p] = 0]
    BY DEF PodDies
<1> QED BY <1>3, <1>4, <1>6, <1>7, <1>8

\* The script that wins mints the next lease; its grant is the last one.
Grants(c) ==
    /\ ~HasLease(directory)
    /\ directory' = [lease |-> [owner |-> podOf[c], generation |-> Len(leases) + 1],
                     generation |-> Len(leases) + 1]
    /\ leases' \in Seq(Granted) /\ Len(leases') = Len(leases) + 1
    /\ DOMAIN leases' = 1..(Len(leases) + 1)
    /\ \A g \in DOMAIN leases : leases'[g] = leases[g]
    /\ leases'[Len(leases) + 1].pod = podOf[c]
    /\ ~leases'[Len(leases) + 1].cancel
    /\ UNCHANGED registry

LEMMA AppendGrants ==
    ASSUME Epochs, NEW c \in Conns, ~HasLease(directory),
           directory' = Acquired(directory, podOf[c]),
           NEW v \in Granted, v.pod = podOf[c], ~v.cancel, leases' = Append(leases, v),
           UNCHANGED registry
    PROVE  Grants(c) /\ leases'[Len(leases) + 1] = v
<1>1. leases \in Seq(Granted) /\ directory.generation = Len(leases)
    BY DEF Epochs, Ledger
<1>2. /\ leases' \in Seq(Granted) /\ Len(leases') = Len(leases) + 1
      /\ \A g \in 1..Len(leases) : leases'[g] = leases[g]
      /\ leases'[Len(leases) + 1] = v
    BY <1>1, AppendProperties
<1>3. DOMAIN leases' = 1..(Len(leases) + 1) /\ DOMAIN leases = 1..Len(leases)
    BY <1>1, <1>2
<1>4. directory' = [lease |-> [owner |-> podOf[c], generation |-> Len(leases) + 1],
                    generation |-> Len(leases) + 1]
    BY <1>1 DEF Acquired
<1> QED BY <1>2, <1>3, <1>4 DEF Grants

LEMMA AcquireLeases ==
    ASSUME Epochs, NEW c \in Conns, AcquireLease(c)
    PROVE  \/ UNCHANGED <<leases, directory, registry>> /\ conns'[c].acquired = FALSE
           \/ /\ Grants(c) /\ leases'[Len(leases) + 1].renewer = "unborn"
              /\ conns'[c].fence = directory'.lease /\ conns'[c].pc = "room"
<1>0. Shapes /\ podOf[c] \in Pods /\ conns[c].pc = "acquire"
    BY ConnFields DEF Epochs, AcquireLease
<1>2. Asks(c)
    BY <1>0, AcquireMoves
<1>3. CASE HasLease(directory)
    <2>1. Acquired(directory, podOf[c]) = directory
        BY <1>3 DEF Acquired
    <2>2. UNCHANGED <<leases, directory, registry>>
        BY <2>1 DEF AcquireLease
    <2>3. conns'[c].acquired = FALSE
        BY <1>0, <1>2, <1>3 DEF Asks
    <2> QED BY <2>2, <2>3
<1>4. CASE ~HasLease(directory)
    <2> DEFINE v == [pod |-> podOf[c], renewer |-> "unborn", lost |-> FALSE, draining |-> FALSE,
                     cancel |-> FALSE]
    <2>1. v \in Granted /\ v.pod = podOf[c] /\ ~v.cancel /\ v.renewer = "unborn"
        BY <1>0 DEF Granted
    <2>2. Acquired(directory, podOf[c]) # directory
        <3>1. Acquired(directory, podOf[c]).lease.owner = podOf[c]
            BY <1>4 DEF Acquired
        <3>2. directory.lease.owner = "none"
            BY <1>4 DEF HasLease, NoLease
        <3> QED BY <1>0, <3>1, <3>2
    <2>3. /\ leases' = Append(leases, v) /\ directory' = Acquired(directory, podOf[c])
          /\ UNCHANGED registry
        BY <2>2 DEF AcquireLease
    <2> HIDE DEF v
    <2>4. Grants(c) /\ leases'[Len(leases) + 1] = v
        BY <1>4, <2>1, <2>3, AppendGrants
    <2>5. conns'[c].fence = directory'.lease /\ conns'[c].pc = "room"
        BY <1>0, <1>2, <1>4 DEF Asks
    <2> QED BY <2>1, <2>4, <2>5
<1> QED BY <1>3, <1>4

LEMMA AcquireUnheardLeases ==
    ASSUME Epochs, NEW c \in Conns, AcquireUnheard(c)
    PROVE  Grants(c) /\ conns'[c] = Exit
<1>0. Shapes /\ podOf[c] \in Pods
    BY ConnFields DEF Epochs
<1> DEFINE v == [pod |-> podOf[c], renewer |-> "ended", lost |-> FALSE, draining |-> FALSE,
                 cancel |-> FALSE]
<1>1. v \in Granted /\ v.pod = podOf[c] /\ ~v.cancel
    BY <1>0 DEF Granted
<1>2. /\ leases' = Append(leases, v) /\ directory' = Acquired(directory, podOf[c])
      /\ UNCHANGED registry /\ ~HasLease(directory) /\ Finish(c)
    BY DEF AcquireUnheard
<1> HIDE DEF v
<1> QED BY <1>0, <1>1, <1>2, AppendGrants, FinishKeeps

\* Every other step of a handler leaves Redis, the leases and the registry alone.
LEMMA QuietConnSteps ==
    ASSUME NEW c \in Conns, ConnStep(c),
           ~AcquireLease(c), ~AcquireUnheard(c), ~AttachCheck(c), ~AttachInsert(c),
           ~AttachRecheck(c), ~ReleaseOwner(c)
    PROVE  /\ UNCHANGED <<leases, directory, registry>>
           /\ conns[c].pc \notin {"attach", "insert", "recheck"}
<1>1. UNCHANGED <<leases, directory, registry>>
    BY DEF ConnStep, Connect, Lookup, OwnerReady, ValidateOwner, GetRoom,
           CheckChannel, Admit, ReuseSignals,
           Dial, AdmitMirror, ClientLeaves, OwnerTeardown, RemoteTeardown, LeaveRoom, Archive,
           CleanUpRoom, ResolveFails, CheckChannelFails, Refused, RefuseMirror,
           DialRejected, DialFails, ArchiveFails
<1>2. conns[c].pc \notin {"attach", "insert", "recheck"}
    BY DEF ConnStep, Connect, Lookup, OwnerReady, ValidateOwner, GetRoom,
           CheckChannel, Admit, ReuseSignals,
           Dial, AdmitMirror, ClientLeaves, OwnerTeardown, RemoteTeardown, LeaveRoom, Archive,
           CleanUpRoom, ResolveFails, CheckChannelFails, Refused, RefuseMirror,
           DialRejected, DialFails, ArchiveFails
<1> QED BY <1>1, <1>2

LEMMA AttachLeavesDirectory ==
    ASSUME NEW c \in Conns,
           AttachCheck(c) \/ AttachInsert(c) \/ AttachRecheck(c) \/ ReleaseOwner(c)
    PROVE  /\ UNCHANGED directory
           /\ AttachCheck(c) => UNCHANGED registry
           /\ AttachCheck(c) => conns[c].pc = "attach"
           /\ AttachInsert(c) => conns[c].pc = "insert"
           /\ AttachRecheck(c) => conns[c].pc = "recheck"
           /\ ReleaseOwner(c) => conns[c].pc = "release"
BY DEF AttachCheck, AttachInsert, AttachRecheck, ReleaseOwner

\* What a handler's step does to the leases, the registry and Redis together.
LEMMA ConnStepLeases ==
    ASSUME Epochs, NEW c \in Conns, ConnStep(c)
    PROVE  \/ /\ UNCHANGED <<leases, directory, registry>>
              /\ conns[c].pc # "insert"
           \/ AcquireLease(c) /\ Grants(c) /\ leases'[Len(leases) + 1].renewer = "unborn"
              /\ conns'[c].fence = directory'.lease /\ conns'[c].pc = "room"
           \/ Grants(c) /\ conns'[c] = Exit
           \/ AttachCheck(c) /\ Edits(Own(c)) /\ conns'[c].pc = "active"
              /\ UNCHANGED <<directory, registry>> /\ conns[c].pc = "attach"
           \/ AttachInsert(c) /\ UNCHANGED directory /\ conns[c].pc = "insert"
           \/ /\ Cancels(Own(c)) /\ Own(c) \in DOMAIN leases /\ UNCHANGED directory
              /\ conns[c].pc = "recheck"
              /\ registry' = [registry EXCEPT ![podOf[c]] = IF @ = Own(c) THEN 0 ELSE @]
           \/ /\ Cancels(Own(c)) /\ Own(c) \in DOMAIN leases /\ UNCHANGED directory
              /\ conns[c].pc = "release" /\ registry[podOf[c]] = Own(c) /\ Own(c) # 0
              /\ registry' = [registry EXCEPT ![podOf[c]] = 0]
<1>1. CASE AcquireLease(c)
    <2>1. conns[c].pc = "acquire"
        BY <1>1 DEF AcquireLease
    <2> QED BY <1>1, <2>1, AcquireLeases
<1>2. CASE AcquireUnheard(c)
    BY <1>2, AcquireUnheardLeases
<1>3. CASE AttachCheck(c)
    BY <1>3, AttachCheckLeases, AttachLeavesDirectory
<1>4. CASE AttachInsert(c)
    BY <1>4, AttachLeavesDirectory
<1>5. CASE AttachRecheck(c)
    BY <1>5, AttachRecheckLeases, AttachLeavesDirectory
<1>6. CASE ReleaseOwner(c)
    BY <1>6, ReleaseOwnerLeases, AttachLeavesDirectory
<1> QED BY <1>1, <1>2, <1>3, <1>4, <1>5, <1>6, QuietConnSteps

-----------------------------------------------------------------------------
(* The ledger of epochs                                                     *)

Grown ==
    /\ leases' \in Seq(Granted)
    /\ DOMAIN leases \subseteq DOMAIN leases'
    /\ \A g \in DOMAIN leases : leases'[g].pod = leases[g].pod

LEMMA IssuedStays ==
    ASSUME Grown, NEW l, Issued(l, leases)
    PROVE  Issued(l, leases')
BY DEF Grown, Issued

LEMMA LedgerKeeps ==
    ASSUME Epochs, Grown,
           directory'.generation = Len(leases'), Issued(directory'.lease, leases'),
           \A d \in Conns : conns'[d].fence \in {conns[d].fence, NoLease, directory.lease,
                                                 directory'.lease}
    PROVE  Ledger'
<1>1. \A d \in Conns : Issued(conns[d].fence, leases')
    BY IssuedStays DEF Epochs, Ledger
<1>2. Issued(directory.lease, leases') /\ Issued(NoLease, leases')
    BY IssuedStays DEF Epochs, Ledger, Issued
<1>3. \A d \in Conns : Issued(conns'[d].fence, leases')
    BY <1>1, <1>2
<1> QED BY <1>3 DEF Ledger, Grown

\* A move never invents a fence.
LEMMA MoveFences ==
    ASSUME Shapes, NEW c \in Conns, Moves(c)
    PROVE  \A d \in Conns : conns'[d].fence \in {conns[d].fence, NoLease, directory.lease,
                                                 directory'.lease}
<1>1. conns'[c].fence \in {conns[c].fence, NoLease, directory.lease, directory'.lease}
    BY ExitShape DEF Moves, Quits, Goes, Asks
<1> QED BY <1>1 DEF Moves, Alone

LEMMA EditsGrow == ASSUME NEW g, Edits(g) PROVE Grown
BY DEF Edits, Grown

LEMMA GrantsLedger ==
    ASSUME Epochs, NEW c \in Conns, Grants(c)
    PROVE  /\ Grown /\ directory'.generation = Len(leases')
           /\ Issued(directory'.lease, leases')
           /\ directory'.lease = [owner |-> podOf[c], generation |-> Len(leases) + 1]
           /\ directory'.lease \in Lease
<1>1. leases \in Seq(Granted) /\ podOf[c] \in Pods
    BY ConnFields DEF Epochs, Ledger
<1>2. Len(leases) \in Nat /\ DOMAIN leases = 1..Len(leases)
    BY <1>1
<1> DEFINE n == Len(leases)
<1> HIDE DEF n
<1>3. /\ directory'.lease = [owner |-> podOf[c], generation |-> n + 1]
      /\ directory'.generation = n + 1
    BY DEF Grants, n
<1>4. n \in Nat /\ directory'.lease \in Lease
    BY <1>1, <1>2, <1>3 DEF Lease, Generation, n
<1>5. /\ DOMAIN leases' = 1..(n + 1) /\ leases'[n + 1].pod = podOf[c] /\ Len(leases') = n + 1
      /\ leases' \in Seq(Granted) /\ \A g \in DOMAIN leases : leases'[g] = leases[g]
    BY DEF Grants, n
<1>6. Grown
    BY <1>2, <1>4, <1>5 DEF Grown, n
<1>7. Issued(directory'.lease, leases')
    BY <1>3, <1>4, <1>5 DEF Issued
<1> QED BY <1>3, <1>4, <1>5, <1>6, <1>7 DEF n

LEMMA LedgerStep == Epochs /\ [Next]_vars => Ledger'
<1> SUFFICES ASSUME Epochs, [Next]_vars PROVE Ledger'
    OBVIOUS
<1>0. Shapes /\ Ledger
    BY DEF Epochs
<1>1. CASE UNCHANGED vars
    BY <1>0, <1>1 DEF vars, Ledger
<1>2. ASSUME NEW c \in Conns, ConnStep(c) PROVE Ledger'
    <2>1. \A d \in Conns : conns'[d].fence \in {conns[d].fence, NoLease, directory.lease,
                                                 directory'.lease}
        BY <1>0, <1>2, ConnStepMoves, MoveFences
    <2>2. CASE Grants(c)
        BY <2>1, <2>2, GrantsLedger, LedgerKeeps
    <2>3. CASE Grown /\ Len(leases') = Len(leases) /\ UNCHANGED directory
        BY <1>0, <2>1, <2>3, LedgerKeeps, IssuedStays DEF Ledger
    <2>4. UNCHANGED leases => Grown /\ Len(leases') = Len(leases)
        BY <1>0 DEF Grown, Ledger
    <2>5. \A g : Edits(g) => Grown /\ Len(leases') = Len(leases)
        BY EditsGrow DEF Edits
    <2>6. AttachInsert(c) => Edits(Own(c))
        BY AttachInsertLeases
    <2> QED BY <1>2, <2>2, <2>3, <2>4, <2>5, <2>6, ConnStepLeases DEF Cancels
<1>3. ASSUME UNCHANGED <<conns, leases, directory>> PROVE Ledger'
    BY <1>0, <1>3 DEF Ledger
<1>4. ASSUME NEW c \in Conns, StreamStep(c) PROVE Ledger'
    BY <1>3, <1>4, OthersLeaveHandlers
<1>5. ASSUME NEW g \in DOMAIN leases, RenewerStep(g) PROVE Ledger'
    <2>1. Edits(g) /\ UNCHANGED conns
        BY <1>5, RenewerLeases, OthersLeaveHandlers
    <2>2. Grown /\ Len(leases') = Len(leases)
        BY <2>1, EditsGrow DEF Edits
    <2>3. directory' \in {directory, Released(directory, Fence(g))}
        BY <1>5 DEF RenewerStep, Renewer, RenewFindsLoss, RenewerCancelled, ReleaseLease,
                    RenewFails, ReleaseFails
    <2>4. directory'.generation = directory.generation /\ directory'.lease \in {directory.lease, NoLease}
        BY <1>0, <2>3 DEF Released, Shapes, Plain, Directory
    <2>5. Issued(directory'.lease, leases')
        <3>1. Issued(directory.lease, leases')
            BY <1>0, <2>2, IssuedStays DEF Ledger
        <3> QED BY <2>4, <3>1 DEF Issued
    <2> QED BY <1>0, <2>1, <2>2, <2>4, <2>5, LedgerKeeps DEF Ledger
<1>6. ASSUME NEW p \in Pods, DrainStep(p) PROVE Ledger'
    <2>1. UNCHANGED <<conns, directory>>
        BY <1>6, OthersLeaveHandlers
    <2>2. UNCHANGED leases \/ Edits(registry[p])
        BY <1>6, DrainLeases DEF Cancels
    <2>3. CASE Edits(registry[p])
        <3>1. Grown /\ Len(leases') = Len(leases)
            BY <2>3, EditsGrow DEF Edits
        <3>2. Issued(directory'.lease, leases')
            BY <1>0, <2>1, <3>1, IssuedStays DEF Ledger
        <3> QED BY <1>0, <2>1, <3>1, <3>2, LedgerKeeps DEF Ledger
    <2> QED BY <1>3, <2>1, <2>2, <2>3
<1>7. ASSUME NEW p \in Pods, PodDies(p) PROVE Ledger'
    <2>1. UNCHANGED directory
        BY <1>7 DEF PodDies
    <2>2. Grown /\ Len(leases') = Len(leases)
        BY <1>7, PodDiesLeases DEF Grown
    <2>3. Issued(directory'.lease, leases')
        BY <1>0, <2>1, <2>2, IssuedStays DEF Ledger
    <2>4. \A d \in Conns : conns'[d].fence \in {conns[d].fence, NoLease}
        BY <1>0, <1>7, PodDiesMoves, ExitShape
    <2> QED BY <1>0, <2>1, <2>2, <2>3, <2>4, LedgerKeeps DEF Ledger
<1>8. ASSUME LeaseExpires PROVE Ledger'
    <2>1. UNCHANGED <<conns, leases>> /\ directory' = Expired(directory)
        BY <1>8 DEF LeaseExpires
    <2>2. directory'.generation = directory.generation /\ directory'.lease = NoLease
        BY <1>0, <2>1 DEF Expired, Shapes, Plain, Directory
    <2> QED BY <1>0, <2>1, <2>2 DEF Ledger, Issued
<1> QED BY <1>1, <1>2, <1>4, <1>5, <1>6, <1>7, <1>8, Steps

-----------------------------------------------------------------------------
(* Leases that are held and not renewed yet                                 *)

\* A handler that does not win a lease in this step holds none it did not hold.
KeepsHold(c) ==
    /\ conns'[c].acquired => /\ conns[c].acquired /\ conns'[c].fence = conns[c].fence
                             /\ conns'[c].pc \notin {"out", "lookup", "acquire", "ready", "validate"}
    /\ conns'[c].pc \in {"attach", "insert", "recheck"} => conns'[c].acquired
    /\ Holding(c)' => Holding(c) /\ conns'[c].fence = conns[c].fence
    /\ conns'[c].pc = "recheck" => conns[c].pc = "insert" /\ conns'[c].fence = conns[c].fence

LEMMA MoveKeepsHold ==
    ASSUME Epochs, NEW c \in Conns, Moves(c), UNCHANGED directory \/ conns'[c] = Exit
    PROVE  KeepsHold(c)
<1>0. HoldsAlone(c) /\ Shapes /\ podOf[c] \in Pods
    BY ConnFields DEF Epochs, Holders
<1>1. CASE conns'[c] = Exit
    <2>1. conns'[c].pc = "gone" /\ ~conns'[c].acquired
        BY <1>1, ExitShape
    <2> QED BY <2>1 DEF KeepsHold, Holding
<1>2. CASE Goes(c)
    <2>1. /\ conns'[c].fence = conns[c].fence /\ conns'[c].acquired = conns[c].acquired
          /\ <<conns[c].pc, conns'[c].pc>> \in Flow
        BY <1>2 DEF Goes
    <2>2. conns[c].acquired =>
             /\ conns[c].pc \notin {"out", "lookup", "acquire", "ready", "validate"}
             /\ conns'[c].pc \notin {"out", "lookup", "acquire", "ready", "validate"}
        BY <1>0, <2>1 DEF HoldsAlone, Flow
    <2>3. conns'[c].pc \in {"attach", "insert", "recheck"} => conns[c].acquired
        <3>1. CASE conns[c].pc = "admit"
            BY <1>2, <3>1 DEF Goes
        <3>2. CASE conns[c].pc # "admit"
            BY <1>0, <2>1, <3>2 DEF HoldsAlone, Flow
        <3> QED BY <3>1, <3>2
    <2>4. conns'[c].pc \in {"room", "check", "admit", "attach", "insert"} =>
             conns[c].pc \in {"ready", "validate", "room", "check", "admit", "attach", "insert"}
        BY <2>1 DEF Flow
    <2>5. conns'[c].pc = "recheck" => conns[c].pc = "insert"
        BY <2>1 DEF Flow
    <2> QED BY <2>1, <2>2, <2>3, <2>4, <2>5 DEF KeepsHold, Holding
<1>3. CASE Asks(c) /\ UNCHANGED directory
    <2>1. ~conns'[c].acquired
        <3>1. CASE conns[c].pc \in {"lookup", "ready"}
            <4>1. ~conns[c].acquired
                BY <1>0, <3>1 DEF HoldsAlone
            <4>2. conns'[c].acquired = conns[c].acquired
                BY <1>3, <3>1 DEF Asks
            <4> QED BY <4>1, <4>2
        <3>2. CASE conns[c].pc = "acquire" /\ HasLease(directory)
            BY <1>3, <3>2 DEF Asks
        <3>3. CASE conns[c].pc = "acquire" /\ ~HasLease(directory)
            <4>1. directory' = Acquired(directory, podOf[c])
                BY <1>3, <3>3 DEF Asks
            <4>2. directory'.lease.owner = podOf[c] /\ directory.lease.owner = "none"
                BY <3>3, <4>1 DEF Acquired, HasLease, NoLease
            <4> QED BY <1>0, <1>3, <4>2
        <3> QED BY <1>3, <3>1, <3>2, <3>3 DEF Asks
    <2>2. conns'[c].pc \notin {"attach", "insert", "recheck"}
        BY <1>3 DEF Asks, Route
    <2> QED BY <2>1, <2>2 DEF KeepsHold, Holding
<1> QED BY <1>1, <1>2, <1>3 DEF Moves, Quits

\* The invariant survives a step that spares the leases others hold.
LEMMA HoldersKeep ==
    ASSUME Epochs, NEW c \in Conns, Alone(c), KeepsHold(c), UNCHANGED podOf,
           \A d \in Conns : Holding(d) /\ (d # c \/ Holding(c)') =>
               leases'[Own(d)].renewer = "unborn" /\ ~leases'[Own(d)].cancel,
           \A d \in Conns : d # c /\ conns[d].pc = "recheck" => leases'[Own(d)].renewer # "unborn",
           conns[c].pc = "insert" /\ conns'[c].pc = "recheck" => leases'[Own(c)].renewer # "unborn"
    PROVE  Holders'
<1>1. \A d \in Conns \ {c} : conns'[d] = conns[d]
    BY DEF Alone
<1>2. \A d \in Conns : Holding(d)' => Holding(d) /\ conns'[d].fence = conns[d].fence
    BY <1>1 DEF KeepsHold, Holding
<1>3. ASSUME NEW d \in Conns PROVE HoldsAlone(d)'
    <2>0. HoldsAlone(d) /\ HoldsAlone(c)
        BY DEF Epochs, Holders
    <2>1. conns'[d].acquired =>
             /\ conns'[d].fence.owner = podOf'[d]
             /\ conns'[d].pc \notin {"out", "lookup", "acquire", "ready", "validate"}
        BY <1>1, <2>0 DEF KeepsHold, HoldsAlone
    <2>2. conns'[d].pc \in {"attach", "insert", "recheck"} => conns'[d].acquired
        BY <1>1, <2>0 DEF KeepsHold, HoldsAlone
    <2>3. Holding(d)' => leases'[Own(d)'].renewer = "unborn" /\ ~leases'[Own(d)'].cancel
        BY <1>2 DEF Own
    <2>4. conns'[d].pc = "recheck" => leases'[Own(d)'].renewer # "unborn"
        BY <1>1 DEF Own, KeepsHold
    <2>5. \A e \in Conns : Holding(d)' /\ Holding(e)' /\ Own(d)' = Own(e)' => d = e
        <3> SUFFICES ASSUME NEW e \in Conns, Holding(d)', Holding(e)', Own(d)' = Own(e)'
                     PROVE  d = e
            OBVIOUS
        <3>1. Holding(d) /\ Holding(e) /\ Own(d) = Own(e)
            BY <1>2 DEF Own
        <3> QED BY <2>0, <3>1 DEF HoldsAlone
    <2> QED BY <2>1, <2>2, <2>3, <2>4, <2>5 DEF HoldsAlone
<1> QED BY <1>3 DEF Holders

\* What Holders says of each lease that is held.
LEMMA HeldIsUnborn ==
    ASSUME Epochs, NEW c \in Conns
    PROVE  /\ Holding(c) => /\ Own(c) \in DOMAIN leases
                            /\ leases[Own(c)].renewer = "unborn" /\ ~leases[Own(c)].cancel
                            /\ leases[Own(c)].pod = podOf[c]
           /\ conns[c].pc = "recheck" => /\ Own(c) \in DOMAIN leases
                                         /\ leases[Own(c)].renewer # "unborn"
                                         /\ leases[Own(c)].pod = podOf[c]
           /\ conns[c].pc \in {"attach", "insert"} => Holding(c)
<1>1. HoldsAlone(c) /\ Shapes
    BY DEF Epochs, Holders
<1>2. Holding(c) \/ conns[c].pc = "recheck" => conns[c].fence \in Lease /\ conns[c].acquired
    BY <1>1, ConnFields DEF Holding, HoldsAlone, Unresolved
<1>3. Holding(c) \/ conns[c].pc = "recheck" =>
         Own(c) \in DOMAIN leases /\ leases[Own(c)].pod = podOf[c]
    BY <1>1, <1>2, OwnLease DEF HoldsAlone
<1> QED BY <1>1, <1>3 DEF HoldsAlone, Holding

\* The lease an entry names is never one that is still held.
LEMMA EntryIsBorn ==
    ASSUME Epochs, NEW p \in Pods, registry[p] # 0
    PROVE  /\ leases[registry[p]].renewer # "unborn" /\ registry[p] \in DOMAIN leases
           /\ leases[registry[p]].pod = p
BY DEF Epochs, Entries, EntryAlive

\* A step that leaves the handlers alone and every held lease as it was.
LEMMA HoldersSpared ==
    ASSUME Epochs, UNCHANGED <<conns, podOf>>,
           \A g \in DOMAIN leases :
              /\ leases[g].renewer = "unborn" => leases'[g] = leases[g]
              /\ leases[g].renewer # "unborn" => leases'[g].renewer # "unborn"
    PROVE  Holders'
<1> SUFFICES ASSUME NEW c \in Conns PROVE HoldsAlone(c)'
    BY DEF Holders
<1>1. HoldsAlone(c)
    BY DEF Epochs, Holders
<1>2. \A d \in Conns : Holding(d)' <=> Holding(d)
    BY DEF Holding
<1>3. Holding(c) => leases'[Own(c)].renewer = "unborn" /\ ~leases'[Own(c)].cancel
    BY HeldIsUnborn
<1>4. conns[c].pc = "recheck" => leases'[Own(c)].renewer # "unborn"
    BY HeldIsUnborn
<1> QED BY <1>1, <1>2, <1>3, <1>4 DEF HoldsAlone, Own

\* The winner of acquire holds a lease nobody else holds: its number is new.
LEMMA GrantHolders ==
    ASSUME Epochs, NEW c \in Conns, Moves(c), UNCHANGED podOf, Grants(c),
           leases'[Len(leases) + 1].renewer = "unborn",
           conns'[c].fence = directory'.lease, conns'[c].pc = "room"
    PROVE  Holders'
<1> DEFINE n == Len(leases) + 1
<1>0. /\ Shapes /\ leases \in Seq(Granted)
      /\ \A d \in Conns : HoldsAlone(d)
    BY DEF Epochs, Ledger, Holders
<1>1. /\ conns'[c].fence = [owner |-> podOf[c], generation |-> n]
      /\ ~leases'[n].cancel /\ leases'[n].renewer = "unborn"
      /\ \A g \in DOMAIN leases : leases'[g] = leases[g]
    BY GrantsLedger DEF Grants
<1>2. n \notin DOMAIN leases
    BY <1>0
<1> HIDE DEF n
<1>3. \A d \in Conns \ {c} : conns'[d] = conns[d]
    BY DEF Moves, Alone
<1>4. Own(c)' = n /\ \A d \in Conns \ {c} : Own(d)' = Own(d) /\ (Holding(d)' <=> Holding(d))
    BY <1>1, <1>3 DEF Own, Holding
<1>5. \A d \in Conns : Holding(d) => Own(d) \in DOMAIN leases
    BY HeldIsUnborn
<1>6. ASSUME NEW d \in Conns \ {c} PROVE HoldsAlone(d)'
    <2>1. Holding(d) => leases'[Own(d)].renewer = "unborn" /\ ~leases'[Own(d)].cancel
        BY <1>1, HeldIsUnborn
    <2>2. conns[d].pc = "recheck" => leases'[Own(d)].renewer # "unborn"
        BY <1>1, HeldIsUnborn
    <2>3. \A e \in Conns : Holding(d)' /\ Holding(e)' /\ Own(d)' = Own(e)' => d = e
        <3>1. \A e \in Conns : Holding(d) /\ Holding(e) /\ Own(d) = Own(e) => d = e
            BY <1>0 DEF HoldsAlone
        <3> QED BY <1>2, <1>4, <1>5, <3>1
    <2> QED BY <1>0, <1>3, <1>4, <2>1, <2>2, <2>3 DEF HoldsAlone
<1>7. HoldsAlone(c)'
    <2>1. \A e \in Conns : Holding(c)' /\ Holding(e)' /\ Own(c)' = Own(e)' => c = e
        BY <1>2, <1>4, <1>5
    <2>2. conns'[c].fence.owner = podOf'[c]
        BY <1>1
    <2> QED BY <1>1, <1>4, <2>1, <2>2 DEF HoldsAlone
<1> QED BY <1>6, <1>7 DEF Holders

LEMMA ConnStepHolders ==
    ASSUME Epochs, NEW c \in Conns, ConnStep(c)
    PROVE  Holders'
<1>0. Shapes /\ Moves(c) /\ Alone(c) /\ UNCHANGED podOf /\ podOf[c] \in Pods
    BY ConnStepMoves, ConnStepPlain, ConnFields DEF Epochs, Moves
<1>1. CASE UNCHANGED <<leases, directory, registry>> /\ conns[c].pc # "insert"
    BY <1>0, <1>1, MoveKeepsHold, HoldersKeep, HeldIsUnborn
<1>2. CASE /\ Grants(c) /\ leases'[Len(leases) + 1].renewer = "unborn"
           /\ conns'[c].fence = directory'.lease /\ conns'[c].pc = "room"
    BY <1>0, <1>2, GrantHolders
<1>3. CASE Grants(c) /\ conns'[c] = Exit
    <2>1. KeepsHold(c)
        BY <1>0, <1>3, MoveKeepsHold
    <2>2. ~Holding(c)' /\ conns'[c].pc = "gone"
        BY <1>3, ExitShape DEF Holding
    <2>3. \A g \in DOMAIN leases : leases'[g] = leases[g]
        BY <1>3 DEF Grants
    <2> QED BY <1>0, <2>1, <2>2, <2>3, HoldersKeep, HeldIsUnborn
<1>4. CASE /\ Edits(Own(c)) /\ conns'[c].pc = "active" /\ UNCHANGED directory
           /\ conns[c].pc = "attach"
    <2>1. KeepsHold(c) /\ ~Holding(c)' /\ Holding(c)
        BY <1>0, <1>4, MoveKeepsHold, HeldIsUnborn DEF Holding
    <2>2. \A d \in Conns \ {c} : Holding(d) => Own(d) # Own(c)
        BY <2>1 DEF Epochs, Holders, HoldsAlone
    <2>3. \A d \in Conns : conns[d].pc = "recheck" => Own(d) # Own(c)
        BY <2>1, HeldIsUnborn
    <2>4. \A g \in DOMAIN leases \ {Own(c)} : leases'[g] = leases[g]
        BY <1>4 DEF Edits
    <2> QED BY <1>0, <1>4, <2>1, <2>2, <2>3, <2>4, HoldersKeep, HeldIsUnborn
<1>5. CASE AttachInsert(c) /\ UNCHANGED directory /\ conns[c].pc = "insert"
    <2>0. Edits(Own(c)) /\ conns'[c].pc = "recheck" /\ leases'[Own(c)].renewer = "running"
        BY <1>5, AttachInsertLeases
    <2>1. KeepsHold(c) /\ ~Holding(c)' /\ Holding(c)
        BY <1>0, <1>5, <2>0, MoveKeepsHold, HeldIsUnborn DEF Holding
    <2>2. \A d \in Conns \ {c} : Holding(d) => Own(d) # Own(c)
        BY <2>1 DEF Epochs, Holders, HoldsAlone
    <2>3. \A d \in Conns : conns[d].pc = "recheck" => Own(d) # Own(c)
        BY <2>1, HeldIsUnborn
    <2>4. \A g \in DOMAIN leases \ {Own(c)} : leases'[g] = leases[g]
        BY <2>0 DEF Edits
    <2> QED BY <1>0, <2>0, <2>1, <2>2, <2>3, <2>4, HoldersKeep, HeldIsUnborn
<1>6. CASE /\ Cancels(Own(c)) /\ Own(c) \in DOMAIN leases /\ UNCHANGED directory
           /\ conns[c].pc \in {"recheck", "release"} /\ leases[Own(c)].renewer # "unborn"
    <2>1. KeepsHold(c)
        BY <1>0, <1>6, MoveKeepsHold
    <2>2. ~Holding(c)' /\ conns'[c].pc # "recheck"
        BY <1>6, <2>1 DEF KeepsHold, Holding
    <2>3. \A d \in Conns : Holding(d) => Own(d) # Own(c)
        BY <1>6, HeldIsUnborn
    <2>4. /\ \A g \in DOMAIN leases \ {Own(c)} : leases'[g] = leases[g]
          /\ leases'[Own(c)].renewer = leases[Own(c)].renewer
        BY <1>6 DEF Cancels, Edits
    <2>5. \A d \in Conns : conns[d].pc = "recheck" => leases'[Own(d)].renewer # "unborn"
        BY <2>4, HeldIsUnborn
    <2> QED BY <1>0, <2>1, <2>2, <2>3, <2>4, <2>5, HoldersKeep, HeldIsUnborn
<1>7. conns[c].pc = "recheck" => leases[Own(c)].renewer # "unborn"
    BY HeldIsUnborn
<1>8. registry[podOf[c]] = Own(c) /\ Own(c) # 0 => leases[Own(c)].renewer # "unborn"
    BY <1>0, EntryIsBorn
<1> QED BY <1>1, <1>2, <1>3, <1>4, <1>5, <1>6, <1>7, <1>8, ConnStepLeases

LEMMA HoldersStep == Epochs /\ [Next]_vars => Holders'
<1> SUFFICES ASSUME Epochs, [Next]_vars PROVE Holders'
    OBVIOUS
<1>0. Shapes
    BY DEF Epochs
<1>1. ASSUME UNCHANGED <<conns, podOf, leases>> PROVE Holders'
    BY <1>1, HoldersSpared
<1>2. CASE UNCHANGED vars
    BY <1>1, <1>2 DEF vars
<1>3. ASSUME NEW c \in Conns, ConnStep(c) PROVE Holders'
    BY <1>3, ConnStepHolders
<1>4. ASSUME NEW c \in Conns, StreamStep(c) PROVE Holders'
    BY <1>0, <1>1, <1>4, OthersLeaveHandlers, StreamStepPlain
<1>5. ASSUME NEW g \in DOMAIN leases, RenewerStep(g) PROVE Holders'
    <2>1. UNCHANGED <<conns, podOf>>
        BY <1>0, <1>5, OthersLeaveHandlers, RenewerPlain
    <2>2. /\ \A h \in DOMAIN leases \ {g} : leases'[h] = leases[h]
          /\ leases[g].renewer # "unborn" /\ leases'[g].renewer # "unborn"
        BY <1>5, RenewerLeases DEF Edits
    <2> QED BY <2>1, <2>2, HoldersSpared
<1>6. ASSUME NEW p \in Pods, DrainStep(p) PROVE Holders'
    <2>1. UNCHANGED <<conns, podOf>>
        BY <1>0, <1>6, OthersLeaveHandlers, DrainPlain
    <2>2. CASE registry[p] # 0 /\ Cancels(registry[p])
        <3>1. leases[registry[p]].renewer # "unborn"
            BY <2>2, EntryIsBorn
        <3> QED BY <2>1, <2>2, <3>1, HoldersSpared DEF Cancels, Edits
    <2> QED BY <1>1, <1>6, <2>1, <2>2, DrainLeases
<1>7. ASSUME NEW p \in Pods, PodDies(p) PROVE Holders'
    <2>1. UNCHANGED podOf
        BY <1>0, <1>7, PodDiesPlain
    <2>2. \A c \in Conns : conns'[c] = IF podOf[c] = p THEN Exit ELSE conns[c]
        BY <1>0, <1>7, PodDiesMoves
    <2>3. ASSUME NEW c \in Conns PROVE HoldsAlone(c)'
        <3>0. \A d \in Conns : HoldsAlone(d)
            BY DEF Epochs, Holders
        <3>1. \A d \in Conns : podOf[d] = p => conns'[d].pc = "gone" /\ ~conns'[d].acquired
            BY <2>2, ExitShape
        <3>2. \A d \in Conns : Holding(d)' => podOf[d] # p /\ Holding(d) /\ Own(d)' = Own(d)
            BY <2>2, <3>1 DEF Holding, Own
        <3>3. \A g \in DOMAIN leases : leases[g].pod # p => leases'[g] = leases[g]
            BY <1>7, PodDiesLeases
        <3>4. CASE podOf[c] = p
            BY <3>1, <3>2, <3>4 DEF HoldsAlone
        <3>5. CASE podOf[c] # p
            <4>1. conns'[c] = conns[c] /\ Own(c)' = Own(c)
                BY <2>2, <3>5 DEF Own
            <4>2. Holding(c) => leases'[Own(c)].renewer = "unborn" /\ ~leases'[Own(c)].cancel
                BY <3>3, <3>5, HeldIsUnborn
            <4>3. conns[c].pc = "recheck" => leases'[Own(c)].renewer # "unborn"
                BY <3>3, <3>5, HeldIsUnborn
            <4>4. \A d \in Conns : Holding(c)' /\ Holding(d)' /\ Own(c)' = Own(d)' => c = d
                BY <3>0, <3>2, <4>1 DEF HoldsAlone
            <4> QED BY <2>1, <3>0, <3>2, <4>1, <4>2, <4>3, <4>4 DEF HoldsAlone
        <3> QED BY <3>4, <3>5
    <2> QED BY <2>3 DEF Holders
<1>8. ASSUME LeaseExpires PROVE Holders'
    BY <1>0, <1>1, <1>8, OthersLeaveHandlers, ExpiryPlain
<1> QED BY <1>2, <1>3, <1>4, <1>5, <1>6, <1>7, <1>8, Steps

-----------------------------------------------------------------------------
(* Entries of the registry                                                  *)

\* An entry that stays keeps its promise when its lease is left alone.
LEMMA EntrySpared ==
    ASSUME Epochs, NEW p \in Pods, Grown,
           registry'[p] \in {registry[p], 0},
           registry'[p] # 0 => leases'[registry[p]] = leases[registry[p]]
    PROVE  EntryAlive(p)'
<1>1. EntryAlive(p)
    BY DEF Epochs, Entries
<1> QED BY <1>1 DEF EntryAlive, Grown

\* Two pods never name the same epoch.
LEMMA EntriesDiffer ==
    ASSUME Epochs, NEW p \in Pods, NEW g \in DOMAIN leases, leases[g].pod # p
    PROVE  registry[p] # 0 => registry[p] # g
BY EntryIsBorn

LEMMA ConnStepEntries ==
    ASSUME Epochs, NEW c \in Conns, ConnStep(c)
    PROVE  Entries'
<1>0. /\ Shapes /\ podOf[c] \in Pods /\ leases \in Seq(Granted)
      /\ registry \in [Pods -> Nat]
    BY ConnFields DEF Epochs, Ledger, Shapes, Plain
<1> SUFFICES ASSUME NEW p \in Pods PROVE EntryAlive(p)'
    BY DEF Entries
<1>1. CASE UNCHANGED <<leases, directory, registry>>
    BY <1>0, <1>1, EntrySpared DEF Grown
<1>2. CASE Grants(c)
    <2>1. /\ Grown /\ UNCHANGED registry
          /\ \A g \in DOMAIN leases : leases'[g] = leases[g]
        BY <1>2, GrantsLedger DEF Grants
    <2> QED BY <2>1, EntryIsBorn, EntrySpared
<1>3. CASE /\ Edits(Own(c)) /\ UNCHANGED registry /\ conns[c].pc = "attach"
    <2>1. Grown /\ \A g \in DOMAIN leases \ {Own(c)} : leases'[g] = leases[g]
        BY <1>3, EditsGrow DEF Edits
    <2>2. leases[Own(c)].renewer = "unborn"
        BY <1>3, HeldIsUnborn
    <2> QED BY <1>3, <2>1, <2>2, EntryIsBorn, EntrySpared
<1>4. CASE AttachInsert(c) /\ conns[c].pc = "insert"
    <2>0. /\ Edits(Own(c)) /\ leases'[Own(c)].renewer = "running"
          /\ leases'[Own(c)].cancel = leases[Own(c)].cancel
        BY <1>4, AttachInsertLeases
    <2>1. Grown /\ \A g \in DOMAIN leases \ {Own(c)} : leases'[g] = leases[g]
        BY <2>0, EditsGrow DEF Edits
    <2>2. /\ leases[Own(c)].renewer = "unborn" /\ ~leases[Own(c)].cancel
          /\ Own(c) \in DOMAIN leases /\ leases[Own(c)].pod = podOf[c]
        BY <1>4, HeldIsUnborn
    <2>3. registry' = [registry EXCEPT ![podOf[c]] = Own(c)]
        BY <1>4 DEF AttachInsert
    <2>4. CASE p = podOf[c]
        <3>1. registry'[p] = Own(c)
            BY <1>0, <2>3, <2>4
        <3>2. Own(c) \in DOMAIN leases' /\ leases'[Own(c)].pod = podOf[c]
            BY <2>1, <2>2 DEF Grown
        <3> QED BY <2>0, <2>2, <2>4, <3>1, <3>2 DEF EntryAlive
    <2>5. CASE p # podOf[c]
        <3>1. registry'[p] = registry[p]
            BY <1>0, <2>3, <2>5
        <3> QED BY <2>1, <2>2, <3>1, EntryIsBorn, EntrySpared
    <2> QED BY <2>4, <2>5
<1>5. CASE /\ Cancels(Own(c)) /\ Own(c) \in DOMAIN leases /\ leases[Own(c)].pod = podOf[c]
           /\ \/ registry' = [registry EXCEPT ![podOf[c]] = IF @ = Own(c) THEN 0 ELSE @]
              \/ /\ registry[podOf[c]] = Own(c)
                 /\ registry' = [registry EXCEPT ![podOf[c]] = 0]
    <2>1. Grown /\ \A g \in DOMAIN leases \ {Own(c)} : leases'[g] = leases[g]
        BY <1>5, EditsGrow DEF Cancels, Edits
    <2>2. registry'[p] \in {registry[p], 0}
        BY <1>0, <1>5
    <2>3. registry'[p] # 0 => registry[p] # Own(c)
        <3>1. CASE p = podOf[c]
            BY <1>0, <1>5, <3>1
        <3>2. CASE p # podOf[c]
            BY <1>5, <2>2, <3>2, EntryIsBorn
        <3> QED BY <3>1, <3>2
    <2> QED BY <2>1, <2>2, <2>3, EntryIsBorn, EntrySpared
<1>6. conns[c].pc = "recheck" => leases[Own(c)].pod = podOf[c]
    BY HeldIsUnborn
<1>7. registry[podOf[c]] = Own(c) /\ Own(c) # 0 => leases[Own(c)].pod = podOf[c]
    BY <1>0, EntryIsBorn
<1> QED BY <1>1, <1>2, <1>3, <1>4, <1>5, <1>6, <1>7, ConnStepLeases

LEMMA EntriesStep == Epochs /\ [Next]_vars => Entries'
<1> SUFFICES ASSUME Epochs, [Next]_vars PROVE Entries'
    OBVIOUS
<1>0. Shapes /\ leases \in Seq(Granted) /\ registry \in [Pods -> Nat]
    BY DEF Epochs, Shapes, Plain, Ledger
<1>1. ASSUME UNCHANGED <<leases, registry>> PROVE Entries'
    BY <1>0, <1>1, EntrySpared DEF Grown, Entries
<1>2. CASE UNCHANGED vars
    BY <1>1, <1>2 DEF vars
<1>3. ASSUME NEW c \in Conns, ConnStep(c) PROVE Entries'
    BY <1>3, ConnStepEntries
<1>4. ASSUME NEW c \in Conns, StreamStep(c) PROVE Entries'
    BY <1>1, <1>4, OthersLeaveHandlers
<1>5. ASSUME NEW g \in DOMAIN leases, RenewerStep(g) PROVE Entries'
    <2>1. UNCHANGED registry
        BY <1>5, OthersLeaveHandlers
    <2>2. /\ Grown /\ \A h \in DOMAIN leases \ {g} : leases'[h] = leases[h]
        BY <1>5, RenewerLeases, EditsGrow DEF Edits
    <2>3. ASSUME NEW p \in Pods PROVE EntryAlive(p)'
        <3>0. EntryAlive(p)
            BY DEF Epochs, Entries
        <3>1. CASE registry[p] # g
            BY <2>1, <2>2, <3>1, EntryIsBorn, EntrySpared
        <3>2. CASE registry[p] = g
            <4>1. g # 0
                BY <1>0
            <4>2. leases[g].pod = p /\ ~leases[g].cancel
                BY <3>0, <3>2, <4>1 DEF EntryAlive
            <4>3. leases[g].renewer = "running" \/ leases[g].lost
                BY <3>0, <3>2, <4>1 DEF EntryAlive
            <4>4. leases'[g].renewer \in {"releasing", "ended"} /\ leases'[g].lost
                BY <1>5, <4>2, <4>3, RenewerLeases
            <4>5. ~leases'[g].cancel /\ leases'[g].pod = p /\ g \in DOMAIN leases'
                BY <1>5, <2>2, <4>2, RenewerLeases DEF Grown
            <4> QED BY <2>1, <3>2, <4>4, <4>5 DEF EntryAlive
        <3> QED BY <3>1, <3>2
    <2> QED BY <2>3 DEF Entries
<1>6. ASSUME NEW p \in Pods, DrainStep(p) PROVE Entries'
    <2>1. CASE /\ registry[p] # 0 /\ Cancels(registry[p]) /\ registry[p] \in DOMAIN leases
               /\ registry' = [registry EXCEPT ![p] = 0]
        <3>1. Grown /\ \A g \in DOMAIN leases \ {registry[p]} : leases'[g] = leases[g]
            BY <2>1, EditsGrow DEF Cancels, Edits
        <3>2. ASSUME NEW q \in Pods PROVE EntryAlive(q)'
            <4>1. registry'[q] = IF q = p THEN 0 ELSE registry[q]
                BY <1>0, <2>1
            <4>2. q # p /\ registry[q] # 0 => registry[q] # registry[p]
                BY <2>1, EntryIsBorn
            <4> QED BY <3>1, <4>1, <4>2, EntryIsBorn, EntrySpared
        <3> QED BY <3>2 DEF Entries
    <2> QED BY <1>1, <1>6, <2>1, DrainLeases
<1>7. ASSUME NEW p \in Pods, PodDies(p) PROVE Entries'
    <2>1. /\ Grown /\ registry' = [registry EXCEPT ![p] = 0]
          /\ \A g \in DOMAIN leases : leases[g].pod # p => leases'[g] = leases[g]
        BY <1>7, PodDiesLeases DEF Grown
    <2>2. ASSUME NEW q \in Pods PROVE EntryAlive(q)'
        <3>1. registry'[q] = IF q = p THEN 0 ELSE registry[q]
            BY <1>0, <2>1
        <3> QED BY <2>1, <3>1, EntryIsBorn, EntrySpared
    <2> QED BY <2>2 DEF Entries
<1>8. ASSUME LeaseExpires PROVE Entries'
    BY <1>1, <1>8, OthersLeaveHandlers
<1> QED BY <1>2, <1>3, <1>4, <1>5, <1>6, <1>7, <1>8, Steps

LEMMA EpochsInit == Init => Epochs
<1> SUFFICES ASSUME Init PROVE Epochs
    OBVIOUS
<1>1. Ledger
    BY DEF Init, Ledger, FreshDirectory, NewConn, Issued
<1>2. \A c \in Conns : ~conns[c].acquired /\ conns[c].pc = "out"
    BY DEF Init, NewConn
<1>3. Holders
    BY <1>2 DEF Holders, HoldsAlone, Holding
<1>4. Entries
    BY DEF Init, Entries, EntryAlive
<1> QED BY <1>1, <1>3, <1>4, ShapesInit DEF Epochs

LEMMA EpochsAlways == Spec => []Epochs
<1>1. Epochs /\ [Next]_vars => Epochs'
    BY ShapesStep, LedgerStep, HoldersStep, EntriesStep DEF Epochs
<1> QED BY <1>1, EpochsInit, PTL DEF Spec

\* Every variable of the huddle keeps its shape, and the bound on the room
\* objects is never what stops a pod from creating its room.
THEOREM HuddleTypes == Spec => []TypeOK
<1>1. Epochs => TypeOK
    BY ShapesAreTypes DEF Epochs, Ledger
<1> QED BY <1>1, EpochsAlways, PTL

\* HuddleOwnerRegistry: through every interleaving of attaching handlers,
\* renewers, releases, drains and crashes, an entry whose renewer has stopped
\* carries the lost token, because only the pod's own cancel stops a renewer
\* silently and whoever cancels retracts the entry in the same step.
THEOREM EntriesAreNotSilent == Spec => []EntryNotSilent
<1>1. Epochs => EntryNotSilent
    BY DEF Epochs, Entries, EntryAlive, EntryNotSilent
<1> QED BY <1>1, EpochsAlways, PTL

-----------------------------------------------------------------------------
(* Drains                                                                   *)

\* The handler that published the entry has yet to look at the drain flag.
Publisher(p) == \E c \in Conns : podOf[c] = p /\ conns[c].pc = "recheck" /\ Own(c) = registry[p]

\* An entry that drain_all's snapshot missed was inserted after the flag was
\* raised, so its publisher will see the flag.
DrainMisses(p) ==
    /\ drainer[p].pc = "drain" /\ registry[p] # 0 =>
          registry[p] = drainer[p].entry \/ Publisher(p)
    /\ drainer[p].pc = "done" /\ registry[p] # 0 => Publisher(p)

Drains == \A p \in Pods : DrainMisses(p)

LEMMA RecheckRetracts ==
    ASSUME Epochs, NEW c \in Conns, ConnStep(c), conns[c].pc = "recheck",
           IsDraining(podOf[c]), registry[podOf[c]] = Own(c)
    PROVE  registry'[podOf[c]] = 0
<1>1. AttachRecheck(c)
    BY QuietConnSteps DEF AcquireLease, AcquireUnheard, AttachCheck, AttachInsert, ReleaseOwner
<1>2. registry \in [Pods -> Nat] /\ podOf[c] \in Pods
    BY DEF Epochs, Shapes, Plain
<1> QED BY <1>1, <1>2 DEF AttachRecheck

LEMMA ConnStepDrains ==
    ASSUME Epochs, Drains, NEW c \in Conns, ConnStep(c), NEW p \in Pods
    PROVE  DrainMisses(p)'
<1>0. /\ UNCHANGED <<drainer, podOf>> /\ Alone(c) /\ DrainMisses(p) /\ podOf[c] \in Pods
      /\ registry \in [Pods -> Nat]
    BY ConnStepPlain, ConnStepMoves, ConnFields DEF Epochs, Moves, Drains, Shapes, Plain
<1>1. CASE AttachInsert(c) /\ p = podOf[c]
    <2>1. conns'[c].pc = "recheck" /\ conns'[c].fence = conns[c].fence
        BY <1>1, AttachInsertLeases
    <2>2. registry'[p] = Own(c)
        BY <1>0, <1>1 DEF AttachInsert
    <2>3. Publisher(p)'
        BY <1>0, <1>1, <2>1, <2>2 DEF Publisher, Own
    <2> QED BY <2>3 DEF DrainMisses
<1>2. CASE ~(AttachInsert(c) /\ p = podOf[c])
    <2>1. registry'[p] \in {registry[p], 0}
        <3>1. \/ UNCHANGED registry
              \/ AttachInsert(c) /\ Enters(c)
              \/ registry' = [registry EXCEPT ![podOf[c]] = 0]
            BY ConnStepPlain DEF Epochs
        <3> QED BY <1>0, <1>2, <3>1 DEF Enters
    <2>2. CASE registry'[p] = 0
        BY <2>2 DEF DrainMisses
    <2>3. CASE registry'[p] = registry[p] /\ registry[p] # 0
        <3>1. drainer[p].pc \in {"drain", "done"} /\ Publisher(p) => Publisher(p)'
            <4> SUFFICES ASSUME drainer[p].pc \in {"drain", "done"}, Publisher(p)
                         PROVE  Publisher(p)'
                OBVIOUS
            <4>1. PICK e \in Conns : /\ podOf[e] = p /\ conns[e].pc = "recheck"
                                     /\ Own(e) = registry[p]
                BY DEF Publisher
            <4>2. e # c
                <5>1. IsDraining(p)
                    BY DEF IsDraining
                <5> QED BY <2>3, <4>1, <5>1, RecheckRetracts
            <4>3. conns'[e] = conns[e]
                BY <1>0, <4>2 DEF Alone
            <4> QED BY <1>0, <2>3, <4>1, <4>3 DEF Publisher, Own
        <3> QED BY <1>0, <2>3, <3>1 DEF DrainMisses
    <2> QED BY <2>1, <2>2, <2>3
<1> QED BY <1>1, <1>2

LEMMA DrainsSpared ==
    ASSUME Drains, UNCHANGED <<conns, registry, drainer, podOf>>
    PROVE  Drains'
BY DEF Drains, DrainMisses, Publisher, Own

LEMMA DrainStepDrains ==
    ASSUME Epochs, Drains, NEW p \in Pods, DrainStep(p)
    PROVE  Drains'
<1>0. /\ UNCHANGED <<conns, podOf>> /\ registry \in [Pods -> Nat]
      /\ drainer \in [Pods -> [pc : {"idle", "collect", "drain", "done"}, entry : Nat]]
    BY OthersLeaveHandlers, DrainPlain DEF Epochs, Shapes, Plain
<1> SUFFICES ASSUME NEW q \in Pods PROVE DrainMisses(q)'
    BY DEF Drains
<1>1. DrainMisses(q)
    BY DEF Drains
<1>2. registry'[q] = registry[q] /\ Publisher(q) => Publisher(q)'
    BY <1>0 DEF Publisher, Own
<1>3. CASE DrainStart(p)
    <2>1. /\ UNCHANGED registry
          /\ drainer'[q].pc = "collect" \/ drainer'[q] = drainer[q]
        BY <1>0, <1>3 DEF DrainStart
    <2> QED BY <1>1, <1>2, <2>1 DEF DrainMisses
<1>4. CASE DrainCollect(p)
    <2>1. /\ UNCHANGED registry
          /\ \/ drainer'[q] = drainer[q]
             \/ drainer'[q].pc = "drain" /\ drainer'[q].entry = registry[q]
        BY <1>0, <1>4 DEF DrainCollect
    <2> QED BY <1>1, <1>2, <2>1 DEF DrainMisses
<1>5. CASE DrainRoom(p)
    <2>1. CASE q # p
        <3>1. registry'[q] = registry[q] /\ drainer'[q] = drainer[q]
            BY <1>0, <1>5, <2>1 DEF DrainRoom
        <3> QED BY <1>1, <1>2, <3>1 DEF DrainMisses
    <2>2. CASE q = p
        <3>1. /\ drainer[p].pc = "drain" /\ drainer'[p].pc = "done"
              /\ registry'[p] = IF registry[p] = drainer[p].entry THEN 0 ELSE registry[p]
            BY <1>0, <1>5 DEF DrainRoom
        <3> QED BY <1>1, <1>2, <2>2, <3>1 DEF DrainMisses
    <2> QED BY <2>1, <2>2
<1> QED BY <1>3, <1>4, <1>5 DEF DrainStep, Drain

LEMMA PodDiesDrains ==
    ASSUME Epochs, Drains, NEW p \in Pods, PodDies(p)
    PROVE  Drains'
<1>0. /\ UNCHANGED podOf /\ registry \in [Pods -> Nat]
      /\ drainer \in [Pods -> [pc : {"idle", "collect", "drain", "done"}, entry : Nat]]
      /\ \A c \in Conns : conns'[c] = IF podOf[c] = p THEN Exit ELSE conns[c]
    BY PodDiesMoves, PodDiesPlain DEF Epochs, Shapes, Plain
<1> SUFFICES ASSUME NEW q \in Pods PROVE DrainMisses(q)'
    BY DEF Drains
<1>1. DrainMisses(q)
    BY DEF Drains
<1>2. CASE q = p
    <2>1. registry'[q] = 0
        BY <1>0, <1>2 DEF PodDies
    <2> QED BY <2>1 DEF DrainMisses
<1>3. CASE q # p
    <2>1. registry'[q] = registry[q] /\ drainer'[q] = drainer[q]
        BY <1>0, <1>3 DEF PodDies
    <2>2. Publisher(q) => Publisher(q)'
        BY <1>0, <1>3, <2>1 DEF Publisher, Own
    <2> QED BY <1>1, <2>1, <2>2 DEF DrainMisses
<1> QED BY <1>2, <1>3

LEMMA DrainsStep == Epochs /\ Drains /\ [Next]_vars => Drains'
<1> SUFFICES ASSUME Epochs, Drains, [Next]_vars PROVE Drains'
    OBVIOUS
<1>0. Shapes
    BY DEF Epochs
<1>1. CASE UNCHANGED vars
    BY <1>1, DrainsSpared DEF vars
<1>2. ASSUME NEW c \in Conns, ConnStep(c) PROVE Drains'
    BY <1>2, ConnStepDrains DEF Drains
<1>3. ASSUME NEW c \in Conns, StreamStep(c) PROVE Drains'
    BY <1>0, <1>3, DrainsSpared, OthersLeaveHandlers, StreamStepPlain
<1>4. ASSUME NEW g \in DOMAIN leases, RenewerStep(g) PROVE Drains'
    BY <1>0, <1>4, DrainsSpared, OthersLeaveHandlers, RenewerPlain
<1>5. ASSUME LeaseExpires PROVE Drains'
    BY <1>0, <1>5, DrainsSpared, OthersLeaveHandlers, ExpiryPlain
<1> QED BY <1>1, <1>2, <1>3, <1>4, <1>5, DrainStepDrains, PodDiesDrains, Steps

\* drain_all and attach_signals: whatever the order of the flag, the snapshot,
\* the check and the insert, an entry that outlives drain_all is one whose
\* publisher has still to re-check the flag, and the re-check retracts it.
THEOREM DrainsLeaveNothing == Spec => []DrainLeavesNothing
<1>1. Init => Drains
    BY DEF Init, Drains, DrainMisses
<1>2. Drains => DrainLeavesNothing
    BY DEF Drains, DrainMisses, Publisher, DrainLeavesNothing
<1> QED BY <1>1, <1>2, EpochsAlways, DrainsStep, PTL DEF Spec

-----------------------------------------------------------------------------
(* The huddle implements FencedLease                                        *)

\* The grants of the abstract lease are a sequence, one pod for every epoch.
LEMMA GrantsAreASequence ==
    ASSUME leases \in Seq(Granted)
    PROVE  /\ [g \in DOMAIN leases |-> leases[g].pod] \in Seq(Pods)
           /\ Len([g \in DOMAIN leases |-> leases[g].pod]) = Len(leases)
<1> DEFINE f == [g \in DOMAIN leases |-> leases[g].pod]
<1>1. DOMAIN leases = 1..Len(leases) /\ Len(leases) \in Nat
    OBVIOUS
<1>2. \A g \in DOMAIN leases : leases[g].pod \in Pods
    <2> TAKE g \in DOMAIN leases
    <2>1. leases[g] \in Granted
        OBVIOUS
    <2> QED BY <2>1 DEF Granted
<1>3. f \in [1..Len(leases) -> Pods] /\ DOMAIN f = 1..Len(leases)
    BY <1>1, <1>2
<1> HIDE DEF f
<1>4. f \in Seq(Pods)
    BY <1>1, <1>3, SeqDef
<1>5. Len(f) = Len(leases)
    BY <1>1, <1>3, <1>4, LenProperties
<1> QED BY <1>4, <1>5 DEF f

\* No epoch comes back into renewal and no grant is rewritten.
Thins ==
    /\ leases' \in Seq(Granted) /\ DOMAIN leases' = DOMAIN leases
    /\ \A g \in DOMAIN leases :
          /\ leases'[g].pod = leases[g].pod
          /\ leases[g].renewer \in {"releasing", "ended"}
                => leases'[g].renewer \in {"releasing", "ended"}

LEMMA ThinsGivesUp ==
    ASSUME Epochs, Thins, directory'.lease = directory.lease, budget'.expiries = budget.expiries
    PROVE  Abstract!GiveUp
<1>1. leases \in Seq(Granted) /\ DOMAIN leases = 1..Len(leases)
    BY DEF Epochs, Ledger
<1>2. [g \in DOMAIN leases' |-> leases'[g].pod] = [g \in DOMAIN leases |-> leases[g].pod]
    BY DEF Thins
<1>3. Quit \subseteq Quit' /\ Quit' \subseteq 1..Len(leases)
    BY <1>1 DEF Thins, Quit
<1>4. Len([g \in DOMAIN leases |-> leases[g].pod]) = Len(leases)
    BY <1>1, GrantsAreASequence
<1> QED BY <1>2, <1>3, <1>4 DEF Abstract!GiveUp

LEMMA GrantsGrants ==
    ASSUME Epochs, NEW c \in Conns, Grants(c), budget'.expiries = budget.expiries,
           NEW p, p = podOf[c]
    PROVE  Abstract!Grant(p)
<1> DEFINE f == [g \in DOMAIN leases |-> leases[g].pod]
           n == Len(leases)
<1>1. leases \in Seq(Granted) /\ podOf[c] \in Pods
    BY ConnFields DEF Epochs, Ledger
<1>2. DOMAIN leases = 1..n /\ n \in Nat /\ f \in Seq(Pods) /\ Len(f) = n
    BY <1>1, GrantsAreASequence
<1>3. /\ DOMAIN leases' = 1..(n + 1) /\ leases'[n + 1].pod = podOf[c]
      /\ \A g \in DOMAIN leases : leases'[g] = leases[g]
    BY DEF Grants
<1>4. [g \in DOMAIN leases' |-> leases'[g].pod] = Append(f, podOf[c])
    <2>1. /\ Append(f, podOf[c]) \in Seq(Pods) /\ Len(Append(f, podOf[c])) = n + 1
          /\ \A i \in 1..n : Append(f, podOf[c])[i] = f[i]
          /\ Append(f, podOf[c])[n + 1] = podOf[c]
        <3> HIDE DEF f
        <3> QED BY <1>1, <1>2, AppendProperties
    <2>2. DOMAIN Append(f, podOf[c]) = 1..(n + 1)
        BY <2>1, LenProperties
    <2>3. \A i \in 1..n : f[i] = leases[i].pod
        BY <1>2
    <2>4. \A i \in 1..(n + 1) : Append(f, podOf[c])[i] = leases'[i].pod
        <3> HIDE DEF f, n
        <3> TAKE i \in 1..(n + 1)
        <3>1. CASE i = n + 1
            BY <1>3, <2>1, <3>1
        <3>2. CASE i \in 1..n
            BY <1>2, <1>3, <2>1, <2>3, <3>2
        <3> QED BY <1>2, <3>1, <3>2
    <2>5. Append(f, podOf[c]) = [i \in 1..(n + 1) |-> Append(f, podOf[c])[i]]
        <3> HIDE DEF f, n
        <3> QED BY <1>2, <2>1, <2>2
    <2> HIDE DEF f, n
    <2> QED BY <1>3, <2>4, <2>5
<1>5. Quit' \in {Quit, Quit \cup {n + 1}}
    <2> HIDE DEF f, n
    <2>1. \A g \in 1..n : g \in Quit' <=> g \in Quit
        BY <1>2, <1>3 DEF Quit
    <2>2. Quit' \subseteq 1..(n + 1) /\ Quit \subseteq 1..n
        BY <1>2, <1>3 DEF Quit
    <2>0. \A g \in 1..(n + 1) : g \in 1..n \/ g = n + 1
        BY <1>2
    <2>3. CASE n + 1 \in Quit'
        <3>1. \A g : g \in Quit' <=> g \in Quit \cup {n + 1}
            BY <2>0, <2>1, <2>2, <2>3
        <3>2. Quit' = Quit \cup {n + 1}
            BY <3>1, Zenon
        <3> QED BY <3>2
    <2>4. CASE n + 1 \notin Quit'
        <3>1. \A g : g \in Quit' <=> g \in Quit
            BY <2>0, <2>1, <2>2, <2>4
        <3>2. Quit' = Quit
            BY <3>1, Zenon
        <3> QED BY <3>2
    <2> QED BY <2>3, <2>4
<1>6. directory.lease = NoLease /\ directory'.lease = [owner |-> podOf[c], generation |-> n + 1]
    BY GrantsLedger DEF Grants, HasLease
<1> QED BY <1>1, <1>2, <1>4, <1>5, <1>6 DEF Abstract!Grant

\* Only the renewer of the lease in force, stopped before, releases it.
LEMMA RenewerReleases ==
    ASSUME Epochs, NEW g \in DOMAIN leases, RenewerStep(g)
    PROVE  Abstract!GiveUp \/ Abstract!Release
<1>0. Shapes /\ leases \in Seq(Granted)
    BY DEF Epochs, Ledger
<1>1. budget'.expiries = budget.expiries
    BY <1>0, RenewerPlain
<1>2. Thins
    BY RenewerLeases DEF Edits, Thins
<1>3. CASE directory'.lease = directory.lease
    BY <1>1, <1>2, <1>3, ThinsGivesUp
<1>4. CASE ReleaseLease(g) /\ Holds(directory, Fence(g))
    <2>1. directory.lease = [owner |-> leases[g].pod, generation |-> g]
        BY <1>4 DEF Holds, Fence
    <2>2. g \in Quit /\ leases[g].renewer = "releasing"
        BY <1>4 DEF ReleaseLease, Quit
    <2>3. directory' = [directory EXCEPT !.lease = NoLease]
        BY <1>4 DEF ReleaseLease, Released
    <2>4. directory'.lease = NoLease
        BY <1>0, <2>3 DEF Shapes, Plain, Directory
    <2>5. directory.lease # NoLease
        <3>0. leases[g] \in Granted
            BY <1>0
        <3>1. leases[g].pod \in Pods
            BY <3>0 DEF Granted
        <3>2. directory.lease.owner \in Pods /\ NoLease.owner \notin Pods
            BY <2>1, <3>1, HuddleConstants DEF NoLease
        <3> QED BY <3>2
    <2>6. [h \in DOMAIN leases' |-> leases'[h].pod] = [h \in DOMAIN leases |-> leases[h].pod]
        BY <1>2 DEF Thins
    <2>7. Quit' = Quit
        <3>1. /\ DOMAIN leases' = DOMAIN leases
              /\ \A h \in DOMAIN leases \ {g} : leases'[h] = leases[h]
              /\ leases'[g].renewer \in {"releasing", "ended"}
            BY RenewerLeases DEF Edits
        <3> QED BY <2>2, <3>1 DEF Quit
    <2> QED BY <1>1, <2>1, <2>2, <2>4, <2>5, <2>6, <2>7 DEF Abstract!Release
<1>5. directory'.lease = directory.lease \/ (ReleaseLease(g) /\ Holds(directory, Fence(g)))
    BY DEF RenewerStep, Renewer, RenewFindsLoss, RenewerCancelled, ReleaseLease, RenewFails,
           ReleaseFails, Released
<1> QED BY <1>3, <1>4, <1>5

LEMMA HandlerGivesUp ==
    ASSUME Epochs, NEW c \in Conns, ConnStep(c), ~Grants(c)
    PROVE  Abstract!GiveUp
<1>0. Shapes /\ leases \in Seq(Granted)
    BY DEF Epochs, Ledger
<1>1. budget'.expiries = budget.expiries
    BY <1>0, ConnStepPlain
<1>2. CASE UNCHANGED <<leases, directory>>
    <2>1. Thins
        BY <1>0, <1>2 DEF Thins
    <2> QED BY <1>1, <1>2, <2>1, ThinsGivesUp
<1>3. CASE UNCHANGED directory /\ Edits(Own(c)) /\ conns[c].pc \in {"attach", "insert"}
    <2>1. leases[Own(c)].renewer = "unborn"
        BY <1>3, HeldIsUnborn
    <2>2. Thins
        BY <1>3, <2>1 DEF Thins, Edits
    <2> QED BY <1>1, <1>3, <2>2, ThinsGivesUp
<1>4. CASE UNCHANGED directory /\ Cancels(Own(c))
    <2>1. Thins
        BY <1>4 DEF Thins, Cancels, Edits
    <2> QED BY <1>1, <1>4, <2>1, ThinsGivesUp
<1>5. AttachInsert(c) => Edits(Own(c))
    BY AttachInsertLeases
<1> QED BY <1>2, <1>3, <1>4, <1>5, ConnStepLeases

LEMMA ExpiryExpires ==
    ASSUME Epochs, LeaseExpires
    PROVE  Abstract!Expire
<1>1. budget \in Budget /\ directory \in Directory
    BY DEF Epochs, Shapes, Plain
<1>2. directory'.lease = NoLease /\ budget'.expiries = budget.expiries - 1
    BY <1>1 DEF LeaseExpires, Expired, Directory, Budget
<1>3. UNCHANGED leases /\ directory.lease # NoLease /\ budget.expiries > 0
    BY DEF LeaseExpires, HasLease
<1>4. UNCHANGED Quit
    BY <1>3 DEF Quit
<1>5. UNCHANGED [g \in DOMAIN leases |-> leases[g].pod]
    BY <1>3
<1> QED BY <1>2, <1>3, <1>4, <1>5 DEF Abstract!Expire

LEMMA FenceStep == Epochs /\ [Next]_vars => [Abstract!Next]_(Abstract!vars)
<1> SUFFICES ASSUME Epochs, [Next]_vars PROVE [Abstract!Next]_(Abstract!vars)
    OBVIOUS
<1>0. Shapes /\ leases \in Seq(Granted)
    BY DEF Epochs, Ledger
<1>1. CASE UNCHANGED vars
    <2>1. UNCHANGED <<leases, directory, budget>>
        BY <1>1 DEF vars
    <2> QED BY <2>1 DEF Abstract!vars, Quit
<1>2. ASSUME NEW c \in Conns, ConnStep(c) PROVE Abstract!Next
    <2>1. budget'.expiries = budget.expiries
        BY <1>0, <1>2, ConnStepPlain
    <2>2. CASE Grants(c)
        <3>1. PICK p \in Pods : p = podOf[c]
            BY <1>0, ConnFields
        <3>2. Abstract!Grant(p)
            BY <2>1, <2>2, <3>1, GrantsGrants
        <3> QED BY <3>2 DEF Abstract!Next
    <2> QED BY <1>2, <2>2, HandlerGivesUp DEF Abstract!Next
<1>3. ASSUME UNCHANGED <<leases, directory>>, budget'.expiries = budget.expiries
      PROVE  Abstract!Next
    <2>1. Thins
        BY <1>0, <1>3 DEF Thins
    <2> QED BY <1>3, <2>1, ThinsGivesUp DEF Abstract!Next
<1>4. ASSUME NEW c \in Conns, StreamStep(c) PROVE Abstract!Next
    BY <1>0, <1>3, <1>4, OthersLeaveHandlers, StreamStepPlain
<1>5. ASSUME NEW g \in DOMAIN leases, RenewerStep(g) PROVE Abstract!Next
    BY <1>5, RenewerReleases DEF Abstract!Next
<1>6. ASSUME NEW p \in Pods, DrainStep(p) PROVE Abstract!Next
    <2>1. UNCHANGED <<directory, budget>>
        BY <1>0, <1>6, OthersLeaveHandlers, DrainPlain
    <2>2. UNCHANGED leases \/ Cancels(registry[p])
        BY <1>6, DrainLeases
    <2>3. CASE Cancels(registry[p])
        <3>1. Thins
            BY <2>3 DEF Thins, Cancels, Edits
        <3> QED BY <2>1, <3>1, ThinsGivesUp DEF Abstract!Next
    <2> QED BY <1>3, <2>1, <2>2, <2>3
<1>7. ASSUME NEW p \in Pods, PodDies(p) PROVE Abstract!Next
    <2>1. UNCHANGED <<directory, budget>>
        BY <1>0, <1>7, PodDiesPlain
    <2>2. Thins
        BY <1>7, PodDiesLeases DEF Thins
    <2> QED BY <2>1, <2>2, ThinsGivesUp DEF Abstract!Next
<1>8. ASSUME LeaseExpires PROVE Abstract!Next
    BY <1>8, ExpiryExpires DEF Abstract!Next
<1> QED BY <1>1, <1>2, <1>4, <1>5, <1>6, <1>7, <1>8, Steps

LEMMA FenceInit == Init => Abstract!Init
<1> SUFFICES ASSUME Init PROVE Abstract!Init
    OBVIOUS
<1>1. leases = << >> /\ directory = FreshDirectory /\ budget \in Budget
    BY HuddleConstants DEF Init
<1>2. DOMAIN leases = {} /\ leases \in Seq(Granted) /\ Len(leases) = 0
    BY <1>1
<1>3. [g \in DOMAIN leases |-> leases[g].pod] = << >>
    BY <1>2, GrantsAreASequence, EmptySeq
<1>4. directory.lease = NoLease /\ budget.expiries \in Nat
    BY <1>1 DEF FreshDirectory, Budget
<1>5. Quit = {}
    BY <1>2 DEF Quit
<1> QED BY <1>3, <1>4, <1>5 DEF Abstract!Init

\* The directory's scripts, the registry, the renewers and the drains implement
\* FencedLease for every number of pods and clients: epochs are granted one at a
\* time and in order, an epoch ends by its TTL or by its own holder after its
\* renewer stopped, and a late release never ends another epoch.
THEOREM LeaseIsFencedAlways == Spec => LeaseIsFenced
<1>1. Init => Abstract!Init
    BY FenceInit
<1>2. Epochs /\ [Next]_vars => [Abstract!Next]_(Abstract!vars)
    BY FenceStep
<1> QED BY <1>1, <1>2, EpochsAlways, PTL DEF Spec, LeaseIsFenced, Abstract!Spec

-----------------------------------------------------------------------------
(* One index for one peer, on both pods                                     *)

\* Pod p, one of its clients or one of the streams it serves refers to room i.
Uses(p, i) ==
    \/ manager[p] = i
    \/ \E c \in Conns : podOf[c] = p /\ conns[c].room = i
    \/ \E c \in Conns : Owner(c) = p /\ streams[c].room = i

\* An object lives on one pod.
Homes == \A i \in RoomIds : \A p, q \in Pods : Uses(p, i) /\ Uses(q, i) => p = q

\* Only the owner's own clients take an index of their pod's room, the others
\* wait for the owner's, and keep in the mirror the one it answered.
Routed(c) ==
    /\ conns[c].pc \in {"admit", "reuse"} => ~Remote(c)
    /\ conns[c].pc \in {"dial", "registering"} => Remote(c)
    /\ streams[c].pc # "none" => Owner(c) # podOf[c]
    /\ streams[c].pc \notin {"serving", "closed"} => streams[c].index = NoIndex
    /\ conns[c].pc = "active" /\ Remote(c) =>
          /\ streams[c].index # NoIndex
          /\ rooms[conns[c].room].peers[c] = streams[c].index

Identities == Homes /\ \A c \in Conns : Routed(c)
\* get_or_create is the only way to a room nobody of the pod referred to before.
LEMMA HomesKeep ==
    ASSUME Shapes, Homes, NEW P \in Pods,
           \A i \in RoomIds : \A p \in Pods :
              Uses(p, i)' => Uses(p, i) \/ (p = P /\ i = RoomAt(P))
    PROVE  Homes'
<1>1. References
    BY ShapesRefer
<1>2. \/ manager[P] = RoomAt(P) /\ RoomAt(P) \in RoomIds
      \/ ~Referenced(RoomAt(P)) /\ RoomAt(P) \in RoomIds
    BY <1>1, RoomAtType
<1>3. \A p \in Pods : ~Referenced(RoomAt(P)) => ~Uses(p, RoomAt(P))
    BY DEF Uses, Referenced
<1>4. manager[P] = RoomAt(P) => Uses(P, RoomAt(P))
    BY DEF Uses
<1>5. ASSUME NEW i \in RoomIds, NEW p \in Pods, NEW q \in Pods, Uses(p, i)', Uses(q, i)'
      PROVE  p = q
    <2>1. /\ Uses(p, i) \/ (p = P /\ i = RoomAt(P))
          /\ Uses(q, i) \/ (q = P /\ i = RoomAt(P))
        BY <1>5
    <2>2. CASE i = RoomAt(P)
        BY <1>2, <1>3, <1>4, <2>1, <2>2 DEF Homes
    <2>3. CASE i # RoomAt(P)
        BY <2>1, <2>3 DEF Homes
    <2> QED BY <2>2, <2>3
<1> QED BY <1>5 DEF Homes

LEMMA ConnStepHomes ==
    ASSUME Shapes, Homes, NEW c \in Conns, ConnStep(c)
    PROVE  Homes'
<1>1. podOf[c] \in Pods /\ UNCHANGED podOf
    BY ConnFields, ConnStepPlain
<1>2. Moves(c)
    BY ConnStepMoves
<1>3. conns'[c].room \in {conns[c].room, RoomAt(podOf[c]), 0}
    BY <1>2, ExitShape DEF Moves, Quits, Goes, Asks, Exit, NewConn
<1>4. \A d \in Conns : streams'[d].room = 0 \/ (streams'[d].room = streams[d].room
                                               /\ streams'[d].fence = streams[d].fence)
    BY ConnStepStreams DEF AloneStream, Dials, SaysBye
<1>5. ASSUME NEW i \in RoomIds, NEW p \in Pods, Uses(p, i)'
      PROVE  Uses(p, i) \/ (p = podOf[c] /\ i = RoomAt(podOf[c]))
    <2>0. i # 0
        BY ZeroIsNoRoom
    <2>1. CASE manager'[p] = i
        BY <2>0, <2>1, ConnStepManager DEF Rehouses, Uses
    <2>2. CASE \E d \in Conns : podOf'[d] = p /\ conns'[d].room = i
        <3>1. PICK d \in Conns : podOf'[d] = p /\ conns'[d].room = i
            BY <2>2
        <3> QED BY <1>1, <1>2, <1>3, <2>0, <3>1 DEF Uses, Moves, Alone
    <2>3. CASE \E d \in Conns : streams'[d].fence.owner = p /\ streams'[d].room = i
        BY <1>4, <2>0, <2>3 DEF Uses, Owner
    <2> QED BY <1>5, <2>1, <2>2, <2>3 DEF Uses, Owner
<1> QED BY <1>1, <1>5, HomesKeep

LEMMA StreamStepHomes ==
    ASSUME Shapes, Homes, NEW c \in Conns, StreamStep(c)
    PROVE  Homes'
<1>1. UNCHANGED <<podOf, conns>>
    BY OthersLeaveHandlers, StreamStepPlain
<1>2. AloneStream(c) /\ Serves(c)
    BY StreamStepMoves
<1>3. Owner(c) \in Pods
    BY <1>2, StreamFields DEF Serves, Owner, Lease
<1>4. /\ streams'[c].room \in {streams[c].room, RoomAt(Owner(c)), 0}
      /\ streams'[c].fence = streams[c].fence
    BY <1>2 DEF Serves
<1>5. ASSUME NEW i \in RoomIds, NEW p \in Pods, Uses(p, i)'
      PROVE  Uses(p, i) \/ (p = Owner(c) /\ i = RoomAt(Owner(c)))
    <2>0. i # 0
        BY ZeroIsNoRoom
    <2>1. CASE manager'[p] = i
        BY <2>0, <2>1, StreamStepManager DEF Rehouses, Uses
    <2>2. CASE \E d \in Conns : podOf'[d] = p /\ conns'[d].room = i
        BY <1>1, <2>2 DEF Uses
    <2>3. CASE \E d \in Conns : streams'[d].fence.owner = p /\ streams'[d].room = i
        <3>1. PICK d \in Conns : streams'[d].fence.owner = p /\ streams'[d].room = i
            BY <2>3
        <3> QED BY <1>2, <1>4, <2>0, <3>1 DEF Uses, Owner, AloneStream
    <2> QED BY <1>5, <2>1, <2>2, <2>3 DEF Uses, Owner
<1> QED BY <1>3, <1>5, HomesKeep

LEMMA OtherHomes ==
    ASSUME Shapes, Homes, UNCHANGED podOf, \A p \in Pods : Rehouses(p),
           \A c \in Conns : /\ conns'[c].room \in {conns[c].room, 0}
                            /\ streams'[c].room \in {streams[c].room, 0}
                            /\ streams'[c].fence = streams[c].fence
    PROVE  Homes'
<1>1. ASSUME NEW i \in RoomIds, NEW p \in Pods, Uses(p, i)'
      PROVE  Uses(p, i)
    <2>0. i # 0
        BY ZeroIsNoRoom
    <2> QED BY <1>1, <2>0 DEF Uses, Owner, Rehouses
<1> QED BY <1>1 DEF Homes

\* From the reply to the mirror there is one step, and the others give up.
LEMMA RegisteringEnds ==
    ASSUME Shapes, NEW c \in Conns, ConnStep(c), conns[c].pc = "registering"
    PROVE  AdmitMirror(c) \/ conns'[c].pc = "gone"
<1>1. AdmitMirror(c) \/ Finish(c)
    BY DEF ConnStep, Connect, Lookup, AcquireLease, OwnerReady, ValidateOwner, GetRoom,
           CheckChannel, Admit, ReuseSignals, AttachCheck, AttachInsert, AttachRecheck,
           Dial, ClientLeaves, OwnerTeardown, RemoteTeardown, LeaveRoom, Archive,
           CleanUpRoom, AcquireUnheard, ResolveFails, CheckChannelFails, Refused, RefuseMirror,
           DialRejected, DialFails, ArchiveFails, ReleaseOwner
<1>2. Finish(c) => conns'[c] = Exit
    BY FinishKeeps
<1> QED BY <1>1, <1>2, ExitShape

\* A step that leaves c's handler, its index in the room and its stream's
\* routing alone.
LEMMA RoutedSpared ==
    ASSUME Shapes, NEW c \in Conns, Routed(c), UNCHANGED podOf,
           conns'[c] = conns[c],
           streams'[c] = streams[c] \/ SaysBye(c),
           conns[c].pc = "active" /\ Remote(c) =>
              rooms'[conns[c].room].peers[c] = rooms[conns[c].room].peers[c]
    PROVE  Routed(c)'
<1>1. /\ streams'[c].pc = streams[c].pc /\ streams'[c].fence = streams[c].fence
      /\ streams'[c].index = streams[c].index
    BY DEF SaysBye
<1> QED BY <1>1 DEF Routed, Remote, Owner

\* A client that stays keeps its room referenced.
LEMMA ActiveRefers ==
    ASSUME Shapes, NEW c \in Conns, conns[c].pc = "active"
    PROVE  /\ conns[c].room \in RoomIds
           /\ conns'[c].room = conns[c].room => Referenced(conns[c].room)'
<1>1. conns[c].room \in RoomIds
    BY ConnFields DEF Roomed
<1> QED BY <1>1 DEF Referenced

LEMMA ConnStepRouted ==
    ASSUME Epochs, NEW c \in Conns, ConnStep(c), NEW d \in Conns, Routed(d)
    PROVE  Routed(d)'
<1>0. Shapes /\ UNCHANGED podOf /\ Moves(c)
    BY ConnStepPlain, ConnStepMoves DEF Epochs
<1>1. CASE d # c
    <2>1. conns'[d] = conns[d]
        BY <1>0, <1>1 DEF Moves, Alone
    <2>2. streams'[d] = streams[d]
        BY <1>0, <1>1, ConnStepStreams DEF AloneStream
    <2>3. conns[d].pc = "active" => rooms'[conns[d].room].peers[d] = rooms[conns[d].room].peers[d]
        BY <1>0, <1>1, <2>1, ActiveRefers, ConnStepRooms DEF KeepsPeers
    <2> QED BY <1>0, <2>1, <2>2, <2>3, RoutedSpared
<1>2. CASE d = c
    <2>0. Routed(c)
        BY <1>2
    <2>1. /\ streams'[c].pc # "none" => streams'[c].fence.owner # podOf[c]
          /\ streams'[c].pc \notin {"serving", "closed"} => streams'[c].index = NoIndex
        <3>1. CASE Dials(c)
            BY <2>0, <3>1 DEF Dials, Routed, Remote
        <3>2. CASE UNCHANGED streams \/ SaysBye(c)
            BY <2>0, <3>2 DEF SaysBye, Routed, Owner
        <3> QED BY <1>0, <3>1, <3>2, ConnStepStreams
    <2>2. /\ conns'[c].pc \in {"admit", "reuse"} => conns'[c].fence.owner = podOf[c]
          /\ conns'[c].pc \in {"dial", "registering"} => conns'[c].fence.owner # podOf[c]
        <3>1. CASE Quits(c)
            BY <3>1, ExitShape DEF Quits
        <3>2. CASE Goes(c)
            <4>1. CASE conns[c].pc = "check"
                BY <3>2, <4>1 DEF Goes, Remote
            <4>2. CASE conns[c].pc # "check"
                <5>1. /\ conns'[c].pc \in {"admit", "reuse"} => conns[c].pc = "admit"
                      /\ conns'[c].pc \in {"dial", "registering"} => conns[c].pc = "dial"
                    BY <3>2, <4>2 DEF Goes, Flow
                <5> QED BY <2>0, <3>2, <5>1 DEF Goes, Routed, Remote
            <4> QED BY <4>1, <4>2
        <3>3. CASE Asks(c)
            BY <3>3 DEF Asks, Route
        <3> QED BY <1>0, <3>1, <3>2, <3>3 DEF Moves
    <2>3. ASSUME conns'[c].pc = "active", conns'[c].fence.owner # podOf[c]
          PROVE  /\ streams'[c].index # NoIndex
                 /\ rooms'[conns'[c].room].peers[c] = streams'[c].index
        <3>1. Goes(c)
            BY <1>0, <2>3, ExitShape DEF Moves, Quits, Asks, Route
        <3>2. conns[c].pc \in {"reuse", "attach", "recheck", "registering"}
              /\ conns'[c].fence = conns[c].fence /\ conns'[c].room = conns[c].room
            BY <2>3, <3>1 DEF Goes, Flow
        <3>3. conns[c].pc \notin {"attach", "recheck"}
            BY <2>3, <3>2 DEF Epochs, Holders, HoldsAlone
        <3>4. conns[c].pc # "reuse"
            BY <2>0, <2>3, <3>2 DEF Routed, Remote
        <3>5. AdmitMirror(c)
            BY <1>0, <2>3, <3>2, <3>3, <3>4, RegisteringEnds
        <3>6. UNCHANGED streams
            BY <3>5 DEF AdmitMirror
        <3> QED BY <1>0, <3>2, <3>5, <3>6, AdmitMirrorRooms
    <2> QED BY <1>0, <1>2, <2>1, <2>2, <2>3 DEF Routed, Remote, Owner
<1> QED BY <1>1, <1>2

\* The owner never touches the client's mirror: it is another pod's object.
LEMMA StreamStepRouted ==
    ASSUME Epochs, Homes, NEW c \in Conns, StreamStep(c), NEW d \in Conns, Routed(d)
    PROVE  Routed(d)'
<1>0. Shapes /\ UNCHANGED <<podOf, conns>> /\ AloneStream(c) /\ Serves(c)
    BY StreamStepPlain, StreamStepMoves, OthersLeaveHandlers DEF Epochs
<1>1. CASE d # c
    <2>1. streams'[d] = streams[d]
        BY <1>0, <1>1 DEF AloneStream
    <2>2. conns[d].pc = "active" => rooms'[conns[d].room].peers[d] = rooms[conns[d].room].peers[d]
        BY <1>0, <1>1, ActiveRefers, StreamStepRooms DEF KeepsPeers
    <2> QED BY <1>0, <2>1, <2>2, RoutedSpared
<1>2. CASE d = c
    <2>0. Routed(c)
        BY <1>2
    <2>1. streams'[c].fence.owner # podOf[c] /\ Owner(c) \in Pods /\ Owner(c) # podOf[c]
        BY <1>0, <2>0, StreamFields DEF Serves, Routed, Owner, Lease
    <2>2. streams'[c].pc \notin {"serving", "closed"} => streams'[c].index = NoIndex
        BY <1>0, <2>0 DEF Serves, Routed
    <2>3. ASSUME conns[c].pc = "active", Remote(c)
          PROVE  /\ streams'[c].index # NoIndex
                 /\ rooms'[conns[c].room].peers[c] = streams'[c].index
        <3>1. streams[c].pc = "serving" /\ streams'[c].index = streams[c].index
            BY <1>0, <2>0, <2>3 DEF Serves, Routed
        <3>2. conns[c].room \in RoomIds /\ Referenced(conns[c].room)' /\ podOf[c] \in Pods
            BY <1>0, <2>3, ActiveRefers, ConnFields
        <3>3. Uses(podOf[c], conns[c].room)
            BY DEF Uses
        <3>4. Uses(Owner(c), streams[c].room) /\ Uses(Owner(c), manager[Owner(c)])
            BY DEF Uses
        <3>5. conns[c].room \notin {streams[c].room, manager[Owner(c)]}
            BY <2>1, <3>2, <3>3, <3>4 DEF Homes
        <3>6. rooms'[conns[c].room].peers[c] = rooms[conns[c].room].peers[c]
            BY <1>0, <3>2, <3>5, StreamStepRooms DEF KeepsPeers
        <3> QED BY <2>0, <2>3, <3>1, <3>6 DEF Routed
    <2>4. conns[c].pc \in {"admit", "reuse"} => ~Remote(c)
        BY <2>0 DEF Routed
    <2>5. conns[c].pc \in {"dial", "registering"} => Remote(c)
        BY <2>0 DEF Routed
    <2> QED BY <1>0, <1>2, <2>1, <2>2, <2>3, <2>4, <2>5 DEF Routed, Remote, Owner
<1> QED BY <1>1, <1>2

LEMMA PodDiesIdentities ==
    ASSUME Epochs, Identities, NEW p \in Pods, PodDies(p)
    PROVE  Identities'
<1>0. Shapes /\ UNCHANGED podOf
    BY PodDiesPlain DEF Epochs
<1>1. \A c \in Conns : conns'[c] = conns[c] \/ conns'[c] = Exit
    BY <1>0, PodDiesMoves
<1>2. \A c \in Conns : /\ streams'[c].fence = streams[c].fence
                       /\ streams'[c].index = streams[c].index
                       /\ \/ streams'[c].pc = streams[c].pc /\ streams'[c].room = streams[c].room
                          \/ /\ streams'[c].pc = "closed" /\ streams[c].pc # "none"
                             /\ streams'[c].room = 0
    <2> TAKE c \in Conns
    <2>1. /\ Close(c).fence = streams[c].fence /\ Close(c).index = streams[c].index
          /\ Close(c).pc = "closed" /\ Close(c).room = 0
        <3>1. streams[c] \in Stream
            BY <1>0, StreamFields
        <3> QED BY <3>1 DEF Close, Stream
    <2> QED BY <1>0, <2>1, PodDiesStreams DEF SaysBye
<1>3. Homes'
    <2>1. Exit.room = 0
        BY DEF Exit, NewConn
    <2>2. \A q \in Pods : Rehouses(q)
        BY <1>0, OtherManager
    <2> QED BY <1>0, <1>1, <1>2, <2>1, <2>2, OtherHomes DEF Identities
<1>4. ASSUME NEW c \in Conns PROVE Routed(c)'
    <2>0. Routed(c)
        BY DEF Identities
    <2>1. /\ streams'[c].pc # "none" => streams'[c].fence.owner # podOf[c]
          /\ streams'[c].pc \notin {"serving", "closed"} => streams'[c].index = NoIndex
        BY <1>2, <2>0 DEF Routed, Owner
    <2>2. CASE conns'[c] = Exit
        BY <1>0, <2>1, <2>2, ExitShape DEF Routed, Owner
    <2>3. CASE conns'[c] = conns[c]
        <3>1. conns[c].pc = "active" =>
                 rooms'[conns[c].room].peers[c] = rooms[conns[c].room].peers[c]
            <4>1. KeepsPeers(c, {})
                BY <1>0, OtherRooms
            <4> QED BY <1>0, <2>3, <4>1, ActiveRefers DEF KeepsPeers
        <3>2. streams'[c].index = streams[c].index
            BY <1>2
        <3> QED BY <1>0, <2>0, <2>1, <2>3, <3>1, <3>2 DEF Routed, Remote, Owner
    <2> QED BY <1>1, <2>2, <2>3
<1> QED BY <1>3, <1>4 DEF Identities

LEMMA IdentitiesStep == Epochs /\ Identities /\ [Next]_vars => Identities'
<1> SUFFICES ASSUME Epochs, Identities, [Next]_vars PROVE Identities'
    OBVIOUS
<1>0. Shapes /\ Homes /\ \A c \in Conns : Routed(c)
    BY DEF Epochs, Identities
<1>1. CASE UNCHANGED vars
    BY <1>1 DEF vars, Identities, Homes, Uses, Routed, Remote, Owner
<1>2. ASSUME NEW c \in Conns, ConnStep(c) PROVE Identities'
    BY <1>0, <1>2, ConnStepHomes, ConnStepRouted DEF Identities
<1>3. ASSUME NEW c \in Conns, StreamStep(c) PROVE Identities'
    BY <1>0, <1>3, StreamStepHomes, StreamStepRouted DEF Identities
<1>4. ASSUME UNCHANGED <<conns, streams, podOf>>, \A p \in Pods : Rehouses(p),
             \A c \in Conns : \A S : KeepsPeers(c, S)
      PROVE  Identities'
    <2>1. Homes'
        BY <1>0, <1>4, OtherHomes
    <2>2. ASSUME NEW c \in Conns PROVE Routed(c)'
        <3>1. conns[c].pc = "active" =>
                 rooms'[conns[c].room].peers[c] = rooms[conns[c].room].peers[c]
            <4>1. KeepsPeers(c, {})
                BY <1>4
            <4> QED BY <1>0, <1>4, <4>1, ActiveRefers DEF KeepsPeers
        <3> QED BY <1>0, <1>4, <3>1, RoutedSpared
    <2> QED BY <2>1, <2>2 DEF Identities
<1>5. ASSUME NEW g \in DOMAIN leases, RenewerStep(g) PROVE Identities'
    BY <1>0, <1>4, <1>5, OthersLeaveHandlers, RenewerPlain, OtherManager, OtherRooms
<1>6. ASSUME NEW p \in Pods, DrainStep(p) PROVE Identities'
    BY <1>0, <1>4, <1>6, OthersLeaveHandlers, DrainPlain, OtherManager, OtherRooms
<1>7. ASSUME LeaseExpires PROVE Identities'
    BY <1>0, <1>4, <1>7, OthersLeaveHandlers, ExpiryPlain, OtherManager, OtherRooms
<1> QED BY <1>1, <1>2, <1>3, <1>5, <1>6, <1>7, PodDiesIdentities, Steps

LEMMA IdentitiesInit == Init => Identities
<1> SUFFICES ASSUME Init PROVE Identities
    OBVIOUS
<1>1. \A c \in Conns : /\ conns[c].pc = "out" /\ conns[c].room = 0
                       /\ streams[c].pc = "none" /\ streams[c].room = 0
                       /\ streams[c].index = NoIndex
    BY DEF Init, NewConn, NoStream
<1>2. \A p \in Pods : \A i \in RoomIds : ~Uses(p, i)
    BY <1>1, ZeroIsNoRoom DEF Init, Uses
<1> QED BY <1>1, <1>2 DEF Identities, Homes, Routed

\* room.rs and handler.rs, for every number of pods, clients and indexes: no two
\* peers of a room share an index, the allocator never offers one in use, and a
\* client of another pod has in its mirror exactly the index its owner assigned,
\* through mirrored joins, leaves, drains, crashes and changes of owner.
THEOREM IdentityIsOne == Spec => []OneIdentity
<1>1. Epochs /\ Identities => OneIdentity
    <2> SUFFICES ASSUME Epochs, Identities PROVE OneIdentity
        OBVIOUS
    <2>1. \A i \in RoomIds : IndexesDistinct(rooms[i])
        BY DEF Epochs, Shapes, RoomsSound, GoodRoom
    <2> QED BY <2>1 DEF Identities, Routed, OneIdentity, Peers
<1> QED BY <1>1, EpochsAlways, IdentitiesInit, IdentitiesStep, PTL DEF Spec

=============================================================================
