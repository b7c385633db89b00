---------------------------- MODULE CacheProofs -----------------------------
(***************************************************************************)
(* Proofs about the Cache.  First what the operators of CacheOps return,   *)
(* then the type invariant, then the safety invariants.                    *)
(***************************************************************************)
EXTENDS Cache, SequenceTheorems, TLAPS

-----------------------------------------------------------------------------
(* Slices                                                                  *)

\* deque[idx..] is a suffix: its i-th row is the row idx + i - 1 of the deque.
LEMMA SliceSuffix ==
    ASSUME NEW q \in Seq(Row), NEW n \in 1..(Len(q) + 1)
    PROVE  /\ Slice(q, n) \in Seq(Row)
           /\ Len(Slice(q, n)) = Len(q) - n + 1
           /\ \A i \in 1..Len(Slice(q, n)) : Slice(q, n)[i] = q[n + i - 1]
<1>1. Len(q) \in Nat
    BY LenProperties
<1>2. \A i \in n..Len(q) : q[i] \in Row
    BY <1>1, ElementOfSeq
<1>3. /\ Slice(q, n) \in Seq(Row)
      /\ Len(Slice(q, n)) = IF n <= Len(q) THEN Len(q) - n + 1 ELSE 0
      /\ \A i \in 1..(Len(q) - n + 1) : Slice(q, n)[i] = q[n + i - 1]
    BY <1>1, <1>2, SubSeqProperties DEF Slice
<1> QED
    BY <1>1, <1>3

\* The slice sent to a subscriber starts at a row of the deque or just after
\* the last one: deque[idx..] in update_subscriber is never out of range.
LEMMA SliceStartsInRange ==
    ASSUME NEW q \in Seq(Row), NEW t, NEW n \in SliceStarts(q, t)
    PROVE  n \in 1..(Len(q) + 1)
<1>1. Len(q) \in Nat /\ DOMAIN q = 1..Len(q)
    BY LenProperties
<1>2. CASE Exact(q, t) # {}
    BY <1>1, <1>2 DEF SliceStarts, Exact
<1>3. CASE Exact(q, t) = {}
    BY <1>1, <1>3 DEF SliceStarts, Nearest
<1> QED
    BY <1>2, <1>3

\* What purge_expired leaves of a deque is a suffix of it, never empty unless
\* the deque was.
LEMMA PurgedIsSlice ==
    ASSUME NEW q \in Seq(Row), NEW t \in Int
    PROVE  Purged(q, t) = q \/ \E n \in 1..Len(q) : Purged(q, t) = Slice(q, n)
<1>1. CASE PurgeStart(q, t) = {}
    BY <1>1 DEF Purged
<1>2. CASE PurgeStart(q, t) # {}
    <2> DEFINE n == CHOOSE i \in PurgeStart(q, t) : TRUE
    <2>1. n \in PurgeStart(q, t)
        BY <1>2
    <2>2. n \in 1..Len(q)
        BY <2>1, LenProperties DEF PurgeStart
    <2>3. Purged(q, t) = Slice(q, n)
        BY <1>2 DEF Purged
    <2> QED
        BY <2>2, <2>3
<1> QED
    BY <1>1, <1>2

\* A suffix keeps the order, the absence of duplicates and the last row.
LEMMA SliceKeeps ==
    ASSUME NEW q \in Seq(Row), NEW n \in 1..Len(q)
    PROVE  /\ Slice(q, n) \in Seq(Row)
           /\ Slice(q, n) # <<>>
           /\ Chronological(q) => Chronological(Slice(q, n))
           /\ Distinct(q) => Distinct(Slice(q, n))
           /\ Slice(q, n)[Len(Slice(q, n))] = q[Len(q)]
<1> DEFINE p == Slice(q, n)
<1>1. Len(q) \in Nat /\ DOMAIN q = 1..Len(q)
    BY LenProperties
<1>2. /\ p \in Seq(Row)
      /\ Len(p) = Len(q) - n + 1
      /\ \A i \in 1..Len(p) : p[i] = q[n + i - 1]
    BY <1>1, SliceSuffix
<1>3. DOMAIN p = 1..Len(p)
    BY <1>2, LenProperties
<1> HIDE DEF p
<1>4. p # <<>>
    BY <1>1, <1>2
<1>5. \A i \in DOMAIN p : n + i - 1 \in DOMAIN q /\ p[i] = q[n + i - 1]
    <2>1. Len(p) = Len(q) - n + 1 /\ n \in 1..Len(q)
        BY <1>2
    <2>2. \A i \in 1..Len(p) : n + i - 1 \in 1..Len(q)
        BY <1>1, <2>1
    <2> QED
        BY <1>1, <1>2, <1>3, <2>2
<1>6. ASSUME Chronological(q) PROVE Chronological(p)
    <2> SUFFICES ASSUME NEW i \in DOMAIN p, NEW j \in DOMAIN p, i < j
                 PROVE  p[i].created_at <= p[j].created_at
        BY DEF Chronological
    <2>1. n + i - 1 < n + j - 1
        BY <1>1, <1>2, <1>3
    <2>2. q[n + i - 1].created_at <= q[n + j - 1].created_at
        BY <1>5, <1>6, <2>1 DEF Chronological
    <2> QED
        BY <1>5, <2>2
<1>7. ASSUME Distinct(q) PROVE Distinct(p)
    <2> SUFFICES ASSUME NEW i \in DOMAIN p, NEW j \in DOMAIN p, i # j
                 PROVE  p[i] # p[j]
        BY DEF Distinct
    <2>1. n + i - 1 # n + j - 1
        BY <1>1, <1>2, <1>3
    <2> QED
        BY <1>5, <1>7, <2>1 DEF Distinct
<1>8. p[Len(p)] = q[Len(q)]
    BY <1>1, <1>2
<1> QED
    BY <1>2, <1>4, <1>6, <1>7, <1>8 DEF p

LEMMA PurgedKeeps ==
    ASSUME NEW q \in Seq(Row), NEW t \in Int
    PROVE  /\ Purged(q, t) \in Seq(Row)
           /\ Purged(q, t) # <<>> <=> q # <<>>
           /\ Chronological(q) => Chronological(Purged(q, t))
           /\ Distinct(q) => Distinct(Purged(q, t))
           /\ q # <<>> => Purged(q, t)[Len(Purged(q, t))] = q[Len(q)]
<1>1. CASE Purged(q, t) = q
    BY <1>1
<1>2. CASE \E n \in 1..Len(q) : Purged(q, t) = Slice(q, n)
    <2>1. PICK n \in 1..Len(q) : Purged(q, t) = Slice(q, n)
        BY <1>2
    <2>2. q # <<>>
        BY <2>1, EmptySeq
    <2> QED
        BY <2>1, <2>2, SliceKeeps
<1> QED
    BY <1>1, <1>2, PurgedIsSlice

\* Milliseconds grow with the difference
LEMMA MillisMonotone ==
    ASSUME NEW a \in Int, NEW b \in Int, NEW t \in Int, t < a, a <= b
    PROVE  Millis(a, t) <= Millis(b, t) /\ Millis(a, t) \in Int
<1> DEFINE x == a - t
           y == b - t
<1>1. x \in Nat /\ y \in Nat /\ x <= y
    OBVIOUS
<1>2. Millis(a, t) = x \div MILLI /\ Millis(b, t) = y \div MILLI
    BY DEF Millis
<1>3. MILLI \in Nat \ {0}
    BY MilliAssumption
<1> HIDE DEF x, y
<1>4. \A m \in Nat \ {0}, z \in Nat :
          z \div m \in Int /\ m * (z \div m) <= z /\ z < m * (z \div m) + m
    BY Z3
<1>5. \A m \in Nat \ {0}, i, j \in Int : j + 1 <= i => m * j + m <= m * i
    <2> SUFFICES ASSUME NEW m \in Nat \ {0}, NEW i \in Int, NEW j \in Int, j + 1 <= i
                 PROVE  m * j + m <= m * i
        OBVIOUS
    <2>1. m * (i - (j + 1)) >= 0
        BY Z3
    <2> QED
        BY <2>1, Z3
<1>6. x \div MILLI \in Int /\ y \div MILLI \in Int
    BY <1>1, <1>3, <1>4
<1>7. ASSUME (y \div MILLI) + 1 <= x \div MILLI PROVE FALSE
    <2>1. MILLI * (y \div MILLI) + MILLI <= MILLI * (x \div MILLI)
        BY <1>3, <1>5, <1>6, <1>7
    <2>2. y < MILLI * (y \div MILLI) + MILLI /\ MILLI * (x \div MILLI) <= x
        BY <1>1, <1>3, <1>4
    <2>3. \A u, v \in Int : y < u /\ u <= v /\ v <= x => FALSE
        BY <1>1
    <2> QED
        BY <1>1, <1>3, <1>6, <2>1, <2>2
<1> QED
    BY <1>2, <1>6, <1>7

\* update_subscriber sends every row of the deque that is younger than the
\* update time of the subscriber: what it leaves out is as old or older.  That
\* the nearest row is looked for by milliseconds, among rows on both sides of
\* the update time, loses nothing.
THEOREM NothingYoungerLeftOut ==
    ASSUME NEW q \in Seq(Row), Chronological(q), NEW t \in Int, NEW n \in SliceStarts(q, t),
           NEW i \in DOMAIN q, i < n
    PROVE  q[i].created_at <= t
<1>1. DOMAIN q = 1..Len(q) /\ Len(q) \in Nat
    BY LenProperties
<1>2. \A j \in DOMAIN q : q[j].created_at \in Int
    <2>1. \A j \in DOMAIN q : q[j] \in Row
        BY <1>1, ElementOfSeq
    <2> QED
        BY <2>1 DEF Row
<1>3. CASE Exact(q, t) # {}
    <2>1. PICK e \in DOMAIN q : n = e + 1 /\ q[e].created_at = t
        BY <1>3 DEF SliceStarts, Exact
    <2>2. i < e \/ i = e
        BY <1>1, <2>1
    <2> QED
        BY <2>1, <2>2, <1>2 DEF Chronological
<1>4. CASE Exact(q, t) = {}
    <2>1. /\ n \in DOMAIN q
          /\ Millis(q[n].created_at, t) < Millis(q[i].created_at, t)
        BY <1>4 DEF SliceStarts, Nearest
    <2>2. q[i].created_at <= q[n].created_at
        BY <2>1 DEF Chronological
    <2>3. ASSUME t < q[i].created_at PROVE FALSE
        <3>1. /\ Millis(q[i].created_at, t) <= Millis(q[n].created_at, t)
              /\ Millis(q[i].created_at, t) \in Int
            BY <1>2, <2>1, <2>2, <2>3, MillisMonotone
        <3>2. Millis(q[n].created_at, t) \in Int
            BY <1>2, <2>1, <2>2, <2>3, MillisMonotone
        <3> QED
            BY <2>1, <3>1, <3>2
    <2> QED
        BY <1>2, <2>3
<1> QED
    BY <1>3, <1>4

-----------------------------------------------------------------------------
(* The query                                                               *)

\* An answer is in order, without duplicates, and younger than what was asked.
LEMMA get_logsReturns ==
    ASSUME NEW rows \in SUBSET Row, NEW t \in Int, NEW q \in get_logs(rows, t)
    PROVE  /\ q \in Seq(Row)
           /\ Chronological(q)
           /\ Distinct(q)
           /\ \A r \in RowsOf(q) : r \in rows /\ r.created_at > t
<1>1. PICK n \in 0..RECORD_LIMIT :
          /\ q \in [1..n -> Matching(rows, t)]
          /\ Chronological(q)
          /\ Distinct(q)
    BY DEF get_logs
<1>2. Matching(rows, t) \subseteq Row
    BY DEF Matching
<1>3. n \in Nat
    BY LimitAssumption
<1>4. q \in [1..n -> Row]
    BY <1>1, <1>2
<1>5. q \in Seq(Row)
    BY <1>3, <1>4
<1>6. \A r \in RowsOf(q) : r \in Matching(rows, t)
    BY <1>1 DEF RowsOf
<1> QED
    BY <1>1, <1>5, <1>6 DEF Matching

-----------------------------------------------------------------------------
(* The type invariant                                                      *)

\* What is known of the next message
LEMMA HeadMessage ==
    ASSUME TypeOK, NEW type, NextIs(type)
    PROVE  /\ Head(mailbox) \in Message
           /\ Head(mailbox).type = type
           /\ Tail(mailbox) \in Seq(Message)
           /\ Head(mailbox).key \in Keys
           /\ type = "data" => Head(mailbox).data \in Seq(Row)
           /\ type # "data" => Head(mailbox).sub \in Subs
           /\ type = "subscribe" => Head(mailbox).start \in Int
<1>1. mailbox \in Seq(Message) /\ mailbox # <<>> /\ Head(mailbox).type = type
    BY DEF TypeOK, NextIs
<1>2. Head(mailbox) \in Message /\ Tail(mailbox) \in Seq(Message)
    BY <1>1, HeadTailProperties
<1> QED
    BY <1>1, <1>2 DEF Message

\* What update_subscribers leaves in the mailboxes of the sockets
LEMMA update_subscribersType ==
    ASSUME TypeOK, NEW S \in SUBSET Subs, NEW k \in Keys, NEW q \in Seq(Row),
           NEW start, start \in [S -> 1..(Len(q) + 1)],
           update_subscribers(S, k, q, start)
    PROVE  /\ inbox' \in [Subs -> Seq(PeerDataArray)]
           /\ pushed' \in [Subs -> [Keys -> SUBSET Row]]
<1>1. ASSUME NEW s \in S
      PROVE  Slice(q, start[s]) \in Seq(Row) /\ RowsOf(Slice(q, start[s])) \in SUBSET Row
    <2>1. start[s] \in 1..(Len(q) + 1)
        BY <1>1
    <2>2. Slice(q, start[s]) \in Seq(Row)
        BY <2>1, SliceSuffix
    <2>3. \A i \in DOMAIN Slice(q, start[s]) : Slice(q, start[s])[i] \in Row
        BY <2>2, LenProperties, ElementOfSeq
    <2> QED
        BY <2>2, <2>3 DEF RowsOf
<1>2. ASSUME NEW s \in S
      PROVE  Append(inbox[s], [key |-> k, data |-> Slice(q, start[s])]) \in Seq(PeerDataArray)
    <2>1. [key |-> k, data |-> Slice(q, start[s])] \in PeerDataArray
        BY <1>1, <1>2 DEF PeerDataArray
    <2>2. inbox[s] \in Seq(PeerDataArray)
        BY <1>2 DEF TypeOK
    <2> QED
        BY <2>1, <2>2, AppendProperties
<1>3. inbox' \in [Subs -> Seq(PeerDataArray)]
    BY <1>2 DEF update_subscribers, TypeOK
<1>4. pushed' \in [Subs -> [Keys -> SUBSET Row]]
    BY <1>1 DEF update_subscribers, TypeOK
<1> QED
    BY <1>3, <1>4

\* Every variable has its type to begin with.
LEMMA TypeInit == Init => TypeOK
<1> SUFFICES ASSUME Init PROVE TypeOK
    OBVIOUS
<1>1. /\ update_time \in [Subs -> [Keys -> Int \cup {None}]]
      /\ pushed \in [Subs -> [Keys -> SUBSET Row]]
    BY DEF Init
<1>2. mailbox \in Seq(Message) /\ inbox \in [Subs -> Seq(PeerDataArray)]
    BY DEF Init
<1>3. /\ table \in [Keys -> SUBSET Row]
      /\ deque \in [Keys -> Seq(Row)]
      /\ last_updated \in [Keys -> Int]
      /\ started_update \in [Keys -> Int \cup {None}]
      /\ last_used \in [Keys -> Int]
      /\ pending \in [Keys -> Int \cup {None}]
    BY DEF Init
<1>4. now \in Nat /\ stored \in Nat /\ up \in BOOLEAN /\ waiting \in BOOLEAN
    BY DEF Init
<1>5. cached \subseteq Keys /\ subscribers \subseteq Subs /\ open \subseteq Subs
    BY DEF Init
<1> QED
    BY <1>1, <1>2, <1>3, <1>4, <1>5 DEF TypeOK

\* Each step of the Cache, the database and the sockets keeps the types.
LEMMA TypeStep ==
    ASSUME TypeOK, [Next]_vars
    PROVE  TypeOK'
<1>1. CASE Tick
    BY <1>1 DEF Tick, TypeOK, cacheVars, subVars, dbVars
<1>2. ASSUME NEW k \in Keys, NEW skew \in Skews, Store(k, now - skew)
      PROVE  TypeOK'
    <2>1. [id |-> stored + 1, created_at |-> now - skew] \in Row
        BY ConstAssumption DEF TypeOK, Row
    <2> QED
        BY <1>2, <2>1 DEF Store, TypeOK, cacheVars, subVars, dbVars
<1>3. ASSUME NEW s \in Subs, Connect(s) PROVE TypeOK'
    BY <1>3 DEF Connect, TypeOK, cacheVars, subVars, dbVars
<1>4. ASSUME NEW s \in Subs, Close(s) PROVE TypeOK'
    BY <1>4 DEF Close, TypeOK, cacheVars, dbVars
<1>5. ASSUME NEW s \in Subs, Consume(s) PROVE TypeOK'
    <2>1. Tail(inbox[s]) \in Seq(PeerDataArray)
        BY <1>5, HeadTailProperties DEF Consume, TypeOK
    <2> QED
        BY <1>5, <2>1 DEF Consume, TypeOK, cacheVars, dbVars, envVars
<1>6. ASSUME NEW s \in Subs, NEW m \in Message, Send(s, m) PROVE TypeOK'
    <2>1. mailbox \in Seq(Message) /\ Append(mailbox, m) \in Seq(Message)
        BY AppendProperties DEF TypeOK
    <2>2. mailbox' \in Seq(Message)
        BY <1>6, <2>1 DEF Send
    <2> QED
        BY <1>6, <2>2 DEF Send, TypeOK, cacheVars, subVars, dbVars, envVars
<1>7. ASSUME NEW s \in Subs, NEW k \in Keys, NEW back \in Lookbacks, SendSubscribe(s, k, back)
      PROVE  TypeOK'
    <2>1. [type |-> "subscribe", sub |-> s, key |-> k, start |-> now - back] \in Message
        BY ConstAssumption DEF TypeOK, Message
    <2> QED
        BY <1>6, <1>7, <2>1 DEF SendSubscribe
<1>8. ASSUME NEW s \in Subs, NEW k \in Keys, SendUnsubscribe(s, k) PROVE TypeOK'
    <2>1. [type |-> "unsubscribe", sub |-> s, key |-> k] \in Message
        BY DEF Message
    <2> QED
        BY <1>6, <1>8, <2>1 DEF SendUnsubscribe
<1>9. ASSUME NEW k \in Keys, DbAnswers(k) PROVE TypeOK'
    <2>1. PICK rows \in get_logs(table[k], pending[k]) :
              mailbox' = Append(mailbox, [type |-> "data", key |-> k, data |-> rows])
        BY <1>9 DEF DbAnswers
    <2>2. rows \in Seq(Row)
        <3>1. table[k] \in SUBSET Row /\ pending[k] \in Int
            BY <1>9 DEF DbAnswers, TypeOK
        <3> QED
            BY <2>1, <3>1, get_logsReturns
    <2>3. [type |-> "data", key |-> k, data |-> rows] \in Message
        BY <2>2 DEF Message
    <2>4. mailbox' \in Seq(Message)
        BY <2>1, <2>3, AppendProperties DEF TypeOK
    <2> QED
        BY <1>9, <2>4 DEF DbAnswers, TypeOK, cacheVars, subVars, envVars
<1>10. ASSUME NEW k \in Keys, DbFails(k) PROVE TypeOK'
    BY <1>10 DEF DbFails, TypeOK, cacheVars, subVars, envVars
<1>11. CASE DbReturns
    BY <1>11 DEF DbReturns, TypeOK, cacheVars, subVars, envVars
<1>12. CASE request_updates
    BY <1>12 DEF request_updates, Retained, Suspends, TypeOK, subVars, envVars
<1>13. CASE purge_expired
    <2>1. ASSUME NEW k \in Keys
          PROVE  Purged(deque[k], now - CACHE_EXPIRY_S) \in Seq(Row)
        <3>1. deque[k] \in Seq(Row) /\ now - CACHE_EXPIRY_S \in Int
            BY <2>1, ConstAssumption DEF TypeOK
        <3> QED
            BY <3>1, PurgedKeeps
    <2>2. deque' \in [Keys -> Seq(Row)]
        BY <1>13, <2>1 DEF purge_expired
    <2> QED
        BY <1>13, <2>2 DEF purge_expired, TypeOK, subVars, dbVars, envVars
<1>14. CASE process_peer_data_response
    <2> DEFINE k == Head(mailbox).key
               q == deque[k] \o Head(mailbox).data
    <2>1. k \in Keys /\ Head(mailbox).data \in Seq(Row) /\ mailbox' \in Seq(Message)
        BY <1>14, HeadMessage DEF process_peer_data_response
    <2>2. q \in Seq(Row)
        BY <2>1, ConcatProperties DEF TypeOK
    <2>3. started_update' \in [Keys -> Int \cup {None}]
        BY <1>14, <2>1 DEF process_peer_data_response, TypeOK
    <2>4. UNCHANGED <<cached, dbVars, envVars, up>>
        BY <1>14 DEF process_peer_data_response
    <2>5. CASE k \in updates_in_progress /\ Head(mailbox).data # <<>>
        <3> DEFINE stamp == q[Len(q)].created_at
        <3>1. stamp \in Int
            <4>1. Len(q) \in 1..Len(q)
                <5>1. Len(Head(mailbox).data) \in Nat \ {0} /\ Len(deque[k]) \in Nat
                    BY <2>1, <2>5, EmptySeq, LenProperties DEF TypeOK
                <5>2. Len(q) = Len(deque[k]) + Len(Head(mailbox).data)
                    BY <2>1, ConcatProperties DEF TypeOK
                <5>3. \A m \in Nat, n \in Nat \ {0} : m + n \in 1..(m + n)
                    OBVIOUS
                <5> QED
                    BY <5>1, <5>2, <5>3
            <4>2. q[Len(q)] \in Row
                BY <2>2, <4>1, ElementOfSeq
            <4> QED
                BY <4>2 DEF Row
        <3>2. /\ deque' = [deque EXCEPT ![k] = q]
              /\ last_updated' = [last_updated EXCEPT ![k] = stamp]
              /\ send_updates(k, q, stamp)
            BY <1>14, <2>5 DEF process_peer_data_response
        <3> HIDE DEF k, q, stamp
        <3>3. deque' \in [Keys -> Seq(Row)] /\ last_updated' \in [Keys -> Int]
            BY <2>1, <2>2, <3>1, <3>2 DEF TypeOK
        <3>4. Reached(k) \in SUBSET Subs
            BY DEF Reached, Subscribed, TypeOK
        <3>5. /\ subscribers' \subseteq Subs
              /\ update_time' \in [Subs -> [Keys -> Int \cup {None}]]
              /\ last_used' \in [Keys -> Int]
            BY <2>1, <3>1, <3>2 DEF send_updates, TypeOK
        <3>6. PICK start \in [Reached(k) -> 1..(Len(q) + 1)] :
                  update_subscribers(Reached(k), k, q, start)
            BY <3>2 DEF send_updates
        <3>7. /\ inbox' \in [Subs -> Seq(PeerDataArray)]
              /\ pushed' \in [Subs -> [Keys -> SUBSET Row]]
            BY <2>1, <2>2, <3>4, <3>6, update_subscribersType
        <3> QED
            BY <2>1, <2>3, <2>4, <3>3, <3>5, <3>7 DEF TypeOK, dbVars, envVars
    <2>6. CASE ~(k \in updates_in_progress /\ Head(mailbox).data # <<>>)
        <3>1. UNCHANGED <<deque, last_updated, last_used, subVars>>
            BY <1>14, <2>6 DEF process_peer_data_response
        <3> QED
            BY <2>1, <2>3, <2>4, <3>1 DEF TypeOK, dbVars, envVars, subVars
    <2> QED
        BY <2>5, <2>6
<1>15. CASE SubscribeVacant
    <2>1. /\ Head(mailbox).sub \in Subs /\ Head(mailbox).key \in Keys
          /\ Head(mailbox).start \in Int /\ mailbox' \in Seq(Message)
        BY <1>15, HeadMessage DEF SubscribeVacant
    <2>2. StartFrom(Head(mailbox).sub, Head(mailbox).key, Head(mailbox).start)
              \in Int \cup {None}
        BY <2>1 DEF StartFrom, TypeOK
    <2>3. now - CACHE_EXPIRY_S \in Int
        BY ConstAssumption DEF TypeOK
    <2> QED
        BY <1>15, <2>1, <2>2, <2>3 DEF SubscribeVacant, TypeOK, dbVars, envVars
<1>16. CASE SubscribeOccupied
    <2> DEFINE s == Head(mailbox).sub
               k == Head(mailbox).key
               from == StartFrom(s, k, Head(mailbox).start)
    <2>1. /\ s \in Subs /\ k \in Keys
          /\ Head(mailbox).start \in Int /\ mailbox' \in Seq(Message)
        BY <1>16, HeadMessage DEF SubscribeOccupied
    <2>2. from \in Int \cup {None}
        BY <2>1 DEF StartFrom, TypeOK
    <2>3. /\ subscribers' = subscribers \cup {s}
          /\ UNCHANGED <<cached, deque, last_updated, started_update, dbVars, envVars, up>>
        BY <1>16 DEF SubscribeOccupied
    <2>4. PICK i \in SliceStarts(deque[k], from) :
              IF Accepts(s)
              THEN /\ update_time' = [update_time EXCEPT ![s][k] = last_updated[k]]
                   /\ last_used' = [last_used EXCEPT ![k] = now]
                   /\ update_subscribers({s}, k, deque[k], [t \in {s} |-> i])
              ELSE /\ update_time' = [update_time EXCEPT ![s][k] = from]
                   /\ UNCHANGED <<last_used, inbox, pushed>>
        BY <1>16 DEF SubscribeOccupied
    <2>5. deque[k] \in Seq(Row)
        BY <2>1 DEF TypeOK
    <2> HIDE DEF s, k, from
    <2>6. [t \in {s} |-> i] \in [{s} -> 1..(Len(deque[k]) + 1)]
        BY <2>4, <2>5, SliceStartsInRange
    <2>7. CASE Accepts(s)
        <3>1. /\ update_time' = [update_time EXCEPT ![s][k] = last_updated[k]]
              /\ last_used' = [last_used EXCEPT ![k] = now]
              /\ update_subscribers({s}, k, deque[k], [t \in {s} |-> i])
            BY <2>4, <2>7
        <3>2. /\ inbox' \in [Subs -> Seq(PeerDataArray)]
              /\ pushed' \in [Subs -> [Keys -> SUBSET Row]]
            BY <2>1, <2>5, <2>6, <3>1, update_subscribersType
        <3>3. /\ update_time' \in [Subs -> [Keys -> Int \cup {None}]]
              /\ last_used' \in [Keys -> Int]
            BY <2>1, <3>1 DEF TypeOK
        <3> QED
            BY <2>1, <2>3, <3>2, <3>3 DEF TypeOK, dbVars, envVars
    <2>8. CASE ~Accepts(s)
        <3>1. /\ update_time' = [update_time EXCEPT ![s][k] = from]
              /\ UNCHANGED <<last_used, inbox, pushed>>
            BY <2>4, <2>8
        <3>2. update_time' \in [Subs -> [Keys -> Int \cup {None}]]
            BY <2>1, <2>2, <3>1 DEF TypeOK
        <3> QED
            BY <2>1, <2>3, <3>1, <3>2 DEF TypeOK, dbVars, envVars
    <2> QED
        BY <2>7, <2>8
<1>17. CASE SubscribePanics
    <2>1. /\ update_time' \in [Subs -> [Keys -> Int \cup {None}]]
          /\ pushed' \in [Subs -> [Keys -> SUBSET Row]]
        BY <1>17 DEF SubscribePanics
    <2>2. UNCHANGED <<inbox, dbVars, envVars>>
        BY <1>17 DEF SubscribePanics
    <2>3. /\ mailbox' \in Seq(Message)
          /\ deque' \in [Keys -> Seq(Row)]
          /\ last_updated' \in [Keys -> Int]
          /\ started_update' \in [Keys -> Int \cup {None}]
          /\ last_used' \in [Keys -> Int]
        BY <1>17 DEF SubscribePanics
    <2>4. cached' \subseteq Keys /\ subscribers' \subseteq Subs /\ up' \in BOOLEAN
        BY <1>17 DEF SubscribePanics
    <2> QED
        BY <2>1, <2>2, <2>3, <2>4 DEF TypeOK, dbVars, envVars
<1>18. CASE unsubscribe
    <2>1. Head(mailbox).sub \in Subs /\ Head(mailbox).key \in Keys /\ mailbox' \in Seq(Message)
        BY <1>18, HeadMessage DEF unsubscribe
    <2> QED
        BY <1>18, <2>1 DEF unsubscribe, TypeOK, cacheVars, dbVars, envVars
<1>19. CASE UNCHANGED vars
    BY <1>19 DEF vars, TypeOK, cacheVars, subVars, dbVars, envVars
<1> QED
    BY <1>1, <1>2, <1>3, <1>4, <1>5, <1>7, <1>8, <1>9, <1>10, <1>11, <1>12, <1>13,
       <1>14, <1>15, <1>16, <1>17, <1>18, <1>19 DEF Next

\* Every variable has its type, in every state.
THEOREM TypeCorrect == Spec => []TypeOK
<1>1. TypeOK /\ [Next]_vars => TypeOK'
    BY TypeStep
<1> QED
    BY <1>1, TypeInit, PTL DEF Spec

-----------------------------------------------------------------------------
(* The deques and the answers under way                                    *)

\* DequeInv is not inductive: that a deque stays in order without duplicates
\* when an answer is appended needs what ResponsesExpected says of answers.
IInv == TypeOK /\ DequeInv /\ ResponsesExpected

deliveryVars == <<cached, deque, last_updated, started_update, mailbox, waiting, pending>>

LEMMA NothingChanges ==
    ASSUME DequeInv, ResponsesExpected, UNCHANGED deliveryVars
    PROVE  DequeInv' /\ ResponsesExpected'
BY DEF deliveryVars, DequeInv, ResponsesExpected, QueryExpected, AnswerExpected, IsAnswer,
       updates_in_progress

\* No query is under way when the actor runs
LEMMA RunsAlone ==
    ASSUME ResponsesExpected, Runs
    PROVE  \A k \in Keys : pending[k] = None
BY DEF ResponsesExpected, QueryExpected, Runs

\* A message is taken from the mailbox
LEMMA TailMessages ==
    ASSUME TypeOK, mailbox # <<>>, mailbox' = Tail(mailbox)
    PROVE  \A i \in DOMAIN mailbox' : i + 1 \in DOMAIN mailbox /\ mailbox'[i] = mailbox[i + 1]
<1>1. mailbox \in Seq(Message)
    BY DEF TypeOK
<1>2. /\ mailbox' \in Seq(Message)
      /\ Len(mailbox') = Len(mailbox) - 1
      /\ \A i \in 1..Len(mailbox') : mailbox'[i] = mailbox[i + 1]
    BY <1>1, HeadTailProperties
<1>3. /\ DOMAIN mailbox' = 1..Len(mailbox')
      /\ DOMAIN mailbox = 1..Len(mailbox)
      /\ Len(mailbox) \in Nat
    BY <1>1, <1>2, LenProperties
<1> QED
    BY <1>2, <1>3

\* An entry is not touched while a message is taken from the mailbox
LEMMA TailKeepsExpected ==
    ASSUME TypeOK, mailbox # <<>>, mailbox' = Tail(mailbox),
           NEW k \in Keys, QueryExpected(k), AnswerExpected(k),
           pending'[k] = None,
           k \in updates_in_progress => k \in updates_in_progress' /\ last_updated'[k] = last_updated[k]
    PROVE  QueryExpected(k)' /\ AnswerExpected(k)'
<1>1. QueryExpected(k)'
    BY DEF QueryExpected
<1>2. ASSUME NEW i \in DOMAIN mailbox', IsAnswer(i, k)'
      PROVE  /\ k \in updates_in_progress'
             /\ Chronological(mailbox'[i].data)
             /\ Distinct(mailbox'[i].data)
             /\ \A r \in RowsOf(mailbox'[i].data) : r.created_at > last_updated'[k]
             /\ \A j \in DOMAIN mailbox' : IsAnswer(j, k)' => i = j
    <2>1. i + 1 \in DOMAIN mailbox /\ mailbox'[i] = mailbox[i + 1]
        BY <1>2, TailMessages
    <2>2. IsAnswer(i + 1, k)
        BY <1>2, <2>1 DEF IsAnswer
    <2>3. /\ k \in updates_in_progress
          /\ Chronological(mailbox[i + 1].data)
          /\ Distinct(mailbox[i + 1].data)
          /\ \A r \in RowsOf(mailbox[i + 1].data) : r.created_at > last_updated[k]
          /\ \A j \in DOMAIN mailbox : IsAnswer(j, k) => i + 1 = j
        BY <2>1, <2>2 DEF AnswerExpected
    <2>4. ASSUME NEW j \in DOMAIN mailbox', IsAnswer(j, k)' PROVE i = j
        <3>1. j + 1 \in DOMAIN mailbox /\ mailbox'[j] = mailbox[j + 1]
            BY <2>4, TailMessages
        <3>2. IsAnswer(j + 1, k)
            BY <2>4, <3>1 DEF IsAnswer
        <3>3. i + 1 = j + 1
            BY <2>3, <3>1, <3>2
        <3>4. i \in Int /\ j \in Int
            <4>1. mailbox' \in Seq(Message)
                BY HeadTailProperties DEF TypeOK
            <4> QED
                BY <4>1, LenProperties, <1>2, <2>4
        <3> QED
            BY <3>3, <3>4
    <2> QED
        BY <2>1, <2>3, <2>4
<1>3. AnswerExpected(k)'
    BY <1>2 DEF AnswerExpected
<1> QED
    BY <1>1, <1>3

\* deque.append of an answer that asked for what follows the last row
LEMMA AppendedRows ==
    ASSUME NEW q \in Seq(Row), NEW d \in Seq(Row), NEW t \in Int, d # <<>>,
           Chronological(q), Distinct(q), Chronological(d), Distinct(d),
           q # <<>> => t = q[Len(q)].created_at,
           \A r \in RowsOf(d) : r.created_at > t
    PROVE  /\ q \o d \in Seq(Row)
           /\ q \o d # <<>>
           /\ Chronological(q \o d)
           /\ Distinct(q \o d)
           /\ (q \o d)[Len(q \o d)].created_at > t
<1> DEFINE p == q \o d
<1>1. /\ Len(q) \in Nat /\ DOMAIN q = 1..Len(q)
      /\ Len(d) \in Nat \ {0} /\ DOMAIN d = 1..Len(d)
    BY LenProperties, EmptySeq
<1>2. /\ p \in Seq(Row)
      /\ Len(p) = Len(q) + Len(d)
      /\ \A i \in 1..(Len(q) + Len(d)) :
             p[i] = IF i <= Len(q) THEN q[i] ELSE d[i - Len(q)]
    BY ConcatProperties
<1>3. DOMAIN p = 1..(Len(q) + Len(d))
    BY <1>2, LenProperties
<1> HIDE DEF p
<1>4. \A i \in DOMAIN p : i <= Len(q) => i \in DOMAIN q /\ p[i] = q[i]
    BY <1>1, <1>2, <1>3
<1>5. ASSUME NEW i \in DOMAIN p, ~(i <= Len(q))
      PROVE  i - Len(q) \in DOMAIN d /\ p[i] = d[i - Len(q)]
    <2>1. p[i] = d[i - Len(q)]
        BY <1>2, <1>3, <1>5
    <2>2. \A m, n \in Nat : \A h \in 1..(m + n) : ~(h <= m) => h - m \in 1..n
        OBVIOUS
    <2> QED
        BY <1>1, <1>3, <1>5, <2>1, <2>2
<1>6. \A i \in DOMAIN d : d[i].created_at > t /\ d[i].created_at \in Int
    <2>1. \A i \in DOMAIN d : d[i] \in Row
        BY <1>1, ElementOfSeq
    <2> QED
        BY <2>1 DEF RowsOf, Row
<1>7. \A i \in DOMAIN q : q[i].created_at <= t /\ q[i].created_at \in Int
    <2> SUFFICES ASSUME NEW i \in DOMAIN q
                 PROVE  q[i].created_at <= t /\ q[i].created_at \in Int
        OBVIOUS
    <2>1. i \in 1..Len(q) /\ Len(q) \in DOMAIN q /\ q # <<>>
        BY <1>1, EmptySeq
    <2>2. q[i] \in Row
        BY <2>1, ElementOfSeq
    <2>3. i < Len(q) => q[i].created_at <= q[Len(q)].created_at
        BY <2>1 DEF Chronological
    <2>4. i < Len(q) \/ i = Len(q)
        BY <1>1, <2>1
    <2> QED
        BY <2>1, <2>2, <2>3, <2>4 DEF Row
<1>8. Chronological(p)
    <2> SUFFICES ASSUME NEW i \in DOMAIN p, NEW j \in DOMAIN p, i < j
                 PROVE  p[i].created_at <= p[j].created_at
        BY DEF Chronological
    <2>1. i \in Int /\ j \in Int
        BY <1>1, <1>3
    <2>2. CASE j <= Len(q)
        <3>1. i <= Len(q)
            BY <1>1, <2>1, <2>2
        <3> QED
            BY <1>4, <2>2, <3>1 DEF Chronological
    <2>3. CASE i <= Len(q) /\ ~(j <= Len(q))
        <3>1. p[i].created_at <= t /\ p[i].created_at \in Int
            BY <1>4, <1>7, <2>3
        <3>2. p[j].created_at > t /\ p[j].created_at \in Int
            BY <1>5, <1>6, <2>3
        <3> QED
            BY <3>1, <3>2
    <2>4. CASE ~(i <= Len(q))
        <3>1. ~(j <= Len(q)) /\ i - Len(q) < j - Len(q)
            BY <1>1, <2>1, <2>4
        <3> QED
            BY <1>5, <2>4, <3>1 DEF Chronological
    <2> QED
        BY <2>2, <2>3, <2>4
<1>9. Distinct(p)
    <2> SUFFICES ASSUME NEW i \in DOMAIN p, NEW j \in DOMAIN p, i # j, p[i] = p[j]
                 PROVE  FALSE
        BY DEF Distinct
    <2>1. i \in Int /\ j \in Int
        BY <1>1, <1>3
    <2>2. CASE i <= Len(q) /\ j <= Len(q)
        BY <1>4, <2>2 DEF Distinct
    <2>3. CASE ~(i <= Len(q)) /\ ~(j <= Len(q))
        <3>1. i - Len(q) # j - Len(q)
            BY <1>1, <2>1
        <3> QED
            BY <1>5, <2>3, <3>1 DEF Distinct
    <2>4. ASSUME NEW a \in DOMAIN p, NEW b \in DOMAIN p, a <= Len(q), ~(b <= Len(q))
          PROVE  p[a] # p[b]
        <3>1. p[a].created_at <= t /\ p[a].created_at \in Int
            BY <1>4, <1>7, <2>4
        <3>2. p[b].created_at > t /\ p[b].created_at \in Int
            BY <1>5, <1>6, <2>4
        <3> QED
            BY <3>1, <3>2
    <2> QED
        BY <2>2, <2>3, <2>4
<1>10. p # <<>> /\ p[Len(p)].created_at > t
    <2>1. Len(p) \in DOMAIN p /\ ~(Len(p) <= Len(q)) /\ Len(p) # 0
        BY <1>1, <1>2, <1>3
    <2> QED
        BY <1>5, <1>6, <2>1, EmptySeq
<1> QED
    BY <1>2, <1>8, <1>9, <1>10 DEF p

\* A step keeps the deques and the answers as they should be.
LEMMA IInvStep ==
    ASSUME IInv, [Next]_vars
    PROVE  DequeInv' /\ ResponsesExpected'
<1> USE DEF IInv
<1>1. CASE Tick
    BY <1>1, NothingChanges DEF Tick, cacheVars, dbVars, deliveryVars
<1>2. ASSUME NEW k \in Keys, NEW skew \in Skews, Store(k, now - skew)
      PROVE  DequeInv' /\ ResponsesExpected'
    BY <1>2, NothingChanges DEF Store, cacheVars, dbVars, deliveryVars
<1>3. ASSUME NEW s \in Subs, Connect(s) \/ Close(s) \/ Consume(s)
      PROVE  DequeInv' /\ ResponsesExpected'
    BY <1>3, NothingChanges DEF Connect, Close, Consume, cacheVars, dbVars, deliveryVars
<1>4. ASSUME NEW s \in Subs, NEW m \in Message, m.type # "data", Send(s, m)
      PROVE  DequeInv' /\ ResponsesExpected'
    <2>1. CASE mailbox' = mailbox
        BY <1>4, <2>1, NothingChanges DEF Send, cacheVars, dbVars, deliveryVars
    <2>2. CASE mailbox' = Append(mailbox, m)
        <3>1. UNCHANGED <<cached, deque, last_updated, started_update, waiting, pending>>
            BY <1>4 DEF Send, cacheVars, dbVars
        <3>2. ASSUME NEW i \in DOMAIN mailbox', NEW k, IsAnswer(i, k)'
              PROVE  i \in DOMAIN mailbox /\ mailbox'[i] = mailbox[i] /\ IsAnswer(i, k)
            <4>1. mailbox \in Seq(Message)
                BY DEF TypeOK
            <4>2. /\ mailbox' \in Seq(Message)
                  /\ Len(mailbox') = Len(mailbox) + 1
                  /\ \A n \in 1..Len(mailbox) : mailbox'[n] = mailbox[n]
                  /\ mailbox'[Len(mailbox) + 1] = m
                BY <2>2, <4>1, AppendProperties
            <4>3. /\ DOMAIN mailbox' = 1..Len(mailbox')
                  /\ DOMAIN mailbox = 1..Len(mailbox)
                  /\ Len(mailbox) \in Nat
                BY <4>1, <4>2, LenProperties
            <4>4. i # Len(mailbox) + 1
                BY <1>4, <3>2, <4>2 DEF IsAnswer
            <4>5. i \in 1..Len(mailbox)
                BY <4>2, <4>3, <4>4
            <4> QED
                BY <3>2, <4>2, <4>3, <4>5 DEF IsAnswer
        <3>3. DequeInv'
            BY <3>1 DEF DequeInv
        <3>4. ResponsesExpected'
            <4> SUFFICES ASSUME NEW k \in Keys PROVE QueryExpected(k)' /\ AnswerExpected(k)'
                BY DEF ResponsesExpected
            <4>1. QueryExpected(k) /\ AnswerExpected(k)
                BY DEF ResponsesExpected
            <4>2. QueryExpected(k)'
                BY <3>1, <3>2, <4>1 DEF QueryExpected, updates_in_progress
            <4>3. AnswerExpected(k)'
                BY <3>1, <3>2, <4>1 DEF AnswerExpected, updates_in_progress
            <4> QED
                BY <4>2, <4>3
        <3> QED
            BY <3>3, <3>4
    <2> QED
        BY <1>4, <2>1, <2>2 DEF Send
<1>5. ASSUME NEW s \in Subs, NEW k \in Keys, NEW back \in Lookbacks, SendSubscribe(s, k, back)
      PROVE  DequeInv' /\ ResponsesExpected'
    <2>1. [type |-> "subscribe", sub |-> s, key |-> k, start |-> now - back] \in Message
        BY ConstAssumption DEF TypeOK, Message
    <2> QED
        BY <1>4, <1>5, <2>1 DEF SendSubscribe
<1>6. ASSUME NEW s \in Subs, NEW k \in Keys, SendUnsubscribe(s, k)
      PROVE  DequeInv' /\ ResponsesExpected'
    <2>1. [type |-> "unsubscribe", sub |-> s, key |-> k] \in Message
        BY DEF Message
    <2> QED
        BY <1>4, <1>6, <2>1 DEF SendUnsubscribe
<1>7. ASSUME NEW k \in Keys, DbAnswers(k) PROVE DequeInv' /\ ResponsesExpected'
    <2>1. PICK rows \in get_logs(table[k], pending[k]) :
              mailbox' = Append(mailbox, [type |-> "data", key |-> k, data |-> rows])
        BY <1>7 DEF DbAnswers
    <2> DEFINE m == [type |-> "data", key |-> k, data |-> rows]
    <2>2. /\ pending[k] # None
          /\ pending' = [pending EXCEPT ![k] = None]
          /\ UNCHANGED <<cached, deque, last_updated, started_update, waiting>>
        BY <1>7 DEF DbAnswers, cacheVars
    <2>3. /\ rows \in Seq(Row) /\ Chronological(rows) /\ Distinct(rows)
          /\ \A r \in RowsOf(rows) : r.created_at > pending[k]
        <3>1. table[k] \in SUBSET Row /\ pending[k] \in Int
            BY <2>2 DEF TypeOK
        <3> QED
            BY <2>1, <3>1, get_logsReturns
    <2>4. m \in Message /\ mailbox \in Seq(Message)
        BY <2>3 DEF Message, TypeOK
    <2>5. /\ DOMAIN mailbox' = 1..(Len(mailbox) + 1)
          /\ DOMAIN mailbox = 1..Len(mailbox)
          /\ Len(mailbox) \in Nat
          /\ \A n \in 1..Len(mailbox) : mailbox'[n] = mailbox[n]
          /\ mailbox'[Len(mailbox) + 1] = m
        BY <2>1, <2>4, AppendProperties, LenProperties
    <2> HIDE DEF m
    <2>6. \A i \in DOMAIN mailbox' :
              \/ i \in DOMAIN mailbox /\ mailbox'[i] = mailbox[i]
              \/ i = Len(mailbox) + 1 /\ mailbox'[i] = m /\ i \notin DOMAIN mailbox
        BY <2>5
    <2>7. m.type = "data" /\ m.key = k /\ m.data = rows
        BY DEF m
    <2>8. DequeInv'
        BY <2>2 DEF DequeInv
    <2>9. ASSUME NEW j \in Keys PROVE QueryExpected(j)' /\ AnswerExpected(j)'
        <3>1. QueryExpected(j) /\ AnswerExpected(j) /\ QueryExpected(k)
            BY DEF ResponsesExpected
        <3>2. CASE j # k
            <4>1. pending'[j] = pending[j]
                BY <2>2, <3>2 DEF TypeOK
            <4>2. \A i \in DOMAIN mailbox' :
                      IsAnswer(i, j)' => i \in DOMAIN mailbox /\ mailbox'[i] = mailbox[i] /\ IsAnswer(i, j)
                BY <2>6, <2>7, <3>2 DEF IsAnswer
            <4>3. QueryExpected(j)'
                BY <2>2, <3>1, <4>1, <4>2 DEF QueryExpected, updates_in_progress
            <4>4. AnswerExpected(j)'
                BY <2>2, <3>1, <4>2 DEF AnswerExpected, updates_in_progress
            <4> QED
                BY <4>3, <4>4
        <3>3. CASE j = k
            <4>1. pending'[k] = None
                BY <2>2 DEF TypeOK
            <4>2. k \in updates_in_progress /\ pending[k] = last_updated[k]
                BY <2>2, <3>1 DEF QueryExpected
            <4>3. \A i \in DOMAIN mailbox' : IsAnswer(i, k)' => i = Len(mailbox) + 1 /\ mailbox'[i] = m
                BY <2>2, <2>6, <3>1 DEF QueryExpected, IsAnswer
            <4>4. AnswerExpected(k)'
                BY <2>2, <2>3, <2>7, <4>2, <4>3 DEF AnswerExpected, updates_in_progress
            <4>5. QueryExpected(k)'
                BY <4>1 DEF QueryExpected
            <4> QED
                BY <3>3, <4>4, <4>5
        <3> QED
            BY <3>2, <3>3
    <2> QED
        BY <2>8, <2>9 DEF ResponsesExpected
<1>8. ASSUME NEW k \in Keys, DbFails(k) PROVE DequeInv' /\ ResponsesExpected'
    <2>1. /\ pending' = [pending EXCEPT ![k] = None]
          /\ UNCHANGED <<cached, deque, last_updated, started_update, waiting, mailbox>>
        BY <1>8 DEF DbFails, cacheVars
    <2>2. DequeInv'
        BY <2>1 DEF DequeInv
    <2>3. ResponsesExpected'
        BY <2>1 DEF ResponsesExpected, QueryExpected, AnswerExpected, IsAnswer,
                    updates_in_progress, TypeOK
    <2> QED
        BY <2>2, <2>3
<1>9. CASE DbReturns
    <2>1. /\ \A k \in Keys : pending[k] = None
          /\ UNCHANGED <<cached, deque, last_updated, started_update, pending, mailbox>>
        BY <1>9 DEF DbReturns, cacheVars
    <2>2. DequeInv'
        BY <2>1 DEF DequeInv
    <2>3. ResponsesExpected'
        BY <2>1 DEF ResponsesExpected, QueryExpected, AnswerExpected, IsAnswer, updates_in_progress
    <2> QED
        BY <2>2, <2>3
<1>10. CASE request_updates
    <2>1. \A k \in Keys : pending[k] = None
        BY <1>10, RunsAlone DEF request_updates, TimerRuns
    <2>2. \A i \in DOMAIN mailbox, k \in Keys : ~IsAnswer(i, k)
        BY <1>10 DEF request_updates, TimerRuns, MailboxFirst, IsAnswer
    <2>3. mailbox' = mailbox
        BY <1>10 DEF request_updates
    <2>4. DequeInv'
        BY <1>10 DEF request_updates, DequeInv, TypeOK
    <2>5. ASSUME NEW k \in Keys PROVE QueryExpected(k)' /\ AnswerExpected(k)'
        <3>1. AnswerExpected(k)'
            BY <2>2, <2>3 DEF AnswerExpected, IsAnswer
        <3>2. ASSUME pending'[k] # None PROVE k \in Due
            BY <1>10, <2>1, <3>2 DEF request_updates
        <3>3. ASSUME pending'[k] # None
              PROVE  waiting' /\ k \in updates_in_progress' /\ pending'[k] = last_updated'[k]
            <4>1. k \in Due /\ k \in Retained
                BY <3>2, <3>3 DEF Due
            <4>2. started_update'[k] = now /\ now # None
                BY <1>10, <4>1, NoneAssumption DEF request_updates, TypeOK
            <4>3. k \in cached' /\ waiting' /\ pending'[k] = last_updated'[k]
                BY <1>10, <4>1 DEF request_updates, Suspends
            <4> QED
                BY <4>2, <4>3 DEF updates_in_progress
        <3>4. QueryExpected(k)'
            BY <2>2, <2>3, <3>3 DEF QueryExpected, IsAnswer
        <3> QED
            BY <3>1, <3>4
    <2> QED
        BY <2>4, <2>5 DEF ResponsesExpected
<1>11. CASE purge_expired
    <2>1. /\ deque' = [k \in Keys |-> Purged(deque[k], now - CACHE_EXPIRY_S)]
          /\ UNCHANGED <<cached, last_updated, started_update, pending, waiting, mailbox>>
        BY <1>11 DEF purge_expired, dbVars
    <2>2. ResponsesExpected'
        BY <2>1 DEF ResponsesExpected, QueryExpected, AnswerExpected, IsAnswer, updates_in_progress
    <2>3. DequeInv'
        <3> SUFFICES ASSUME NEW k \in Keys, deque'[k] # <<>>
                     PROVE  /\ k \in cached
                            /\ Chronological(deque'[k])
                            /\ Distinct(deque'[k])
                            /\ last_updated[k] = deque'[k][Len(deque'[k])].created_at
            BY <2>1 DEF DequeInv
        <3>1. deque[k] \in Seq(Row) /\ now - CACHE_EXPIRY_S \in Int
            BY ConstAssumption DEF TypeOK
        <3>2. deque'[k] = Purged(deque[k], now - CACHE_EXPIRY_S)
            BY <2>1
        <3>3. deque[k] # <<>>
            BY <3>1, <3>2, PurgedKeeps
        <3>4. /\ k \in cached /\ Chronological(deque[k]) /\ Distinct(deque[k])
              /\ last_updated[k] = deque[k][Len(deque[k])].created_at
            BY <3>3 DEF DequeInv
        <3> QED
            BY <3>1, <3>2, <3>3, <3>4, PurgedKeeps
    <2> QED
        BY <2>2, <2>3
<1>12. CASE process_peer_data_response
    <2>0. PICK k \in Keys : k = Head(mailbox).key
        BY <1>12, HeadMessage DEF process_peer_data_response
    <2> DEFINE d == Head(mailbox).data
               q == deque[k] \o d
    <2>1. /\ mailbox \in Seq(Message) /\ mailbox # <<>> /\ mailbox' = Tail(mailbox)
          /\ k \in Keys /\ d \in Seq(Row)
        BY <1>12, HeadMessage DEF process_peer_data_response, NextIs, TypeOK
    <2>2. /\ 1 \in DOMAIN mailbox
          /\ mailbox[1] = Head(mailbox)
          /\ mailbox[1].data = d
          /\ IsAnswer(1, k)
        <3>1. Len(mailbox) \in Nat \ {0} /\ DOMAIN mailbox = 1..Len(mailbox)
            BY <2>1, EmptySeq, LenProperties
        <3>2. mailbox[1] = Head(mailbox)
            BY <2>1
        <3>3. Head(mailbox).type = "data"
            BY <1>12 DEF process_peer_data_response, NextIs
        <3> QED
            BY <2>0, <3>1, <3>2, <3>3 DEF IsAnswer
    <2>3. /\ k \in updates_in_progress
          /\ Chronological(d) /\ Distinct(d)
          /\ \A r \in RowsOf(d) : r.created_at > last_updated[k]
          /\ \A j \in DOMAIN mailbox : IsAnswer(j, k) => j = 1
        BY <2>1, <2>2 DEF ResponsesExpected, AnswerExpected
    <2>4. /\ started_update' = [started_update EXCEPT ![k] = None]
          /\ UNCHANGED <<cached, pending, waiting>>
        BY <1>12, <2>0, <2>3 DEF process_peer_data_response, dbVars
    <2>5. \/ /\ d # <<>>
             /\ deque' = [deque EXCEPT ![k] = q]
             /\ last_updated' = [last_updated EXCEPT ![k] = q[Len(q)].created_at]
          \/ UNCHANGED <<deque, last_updated>>
        BY <1>12, <2>0, <2>3 DEF process_peer_data_response
    <2>6. \A j \in Keys : pending[j] = None
        BY <1>12, RunsAlone DEF process_peer_data_response, NextIs
    <2>7. deque[k] \in Seq(Row) /\ last_updated[k] \in Int
        BY <2>1 DEF TypeOK
    <2>8. d # <<>> => q \in Seq(Row) /\ q # <<>> /\ Chronological(q) /\ Distinct(q)
        <3>1. /\ deque[k] = <<>> => Chronological(deque[k]) /\ Distinct(deque[k])
              /\ deque[k] # <<>> => /\ Chronological(deque[k]) /\ Distinct(deque[k])
                                   /\ last_updated[k] = deque[k][Len(deque[k])].created_at
            BY <2>1 DEF DequeInv, Chronological, Distinct
        <3> QED
            BY <2>1, <2>3, <2>7, <3>1, AppendedRows
    <2> HIDE DEF d, q
    <2>9. DequeInv'
        <3> SUFFICES ASSUME NEW j \in Keys, deque'[j] # <<>>
                     PROVE  /\ j \in cached
                            /\ Chronological(deque'[j])
                            /\ Distinct(deque'[j])
                            /\ last_updated'[j] = deque'[j][Len(deque'[j])].created_at
            BY <2>4 DEF DequeInv
        <3>1. CASE j = k /\ d # <<>> /\ deque' = [deque EXCEPT ![k] = q]
                   /\ last_updated' = [last_updated EXCEPT ![k] = q[Len(q)].created_at]
            <4>1. deque'[j] = q /\ last_updated'[j] = q[Len(q)].created_at
                BY <3>1 DEF TypeOK
            <4>2. j \in cached
                BY <2>3, <3>1 DEF updates_in_progress
            <4> QED
                BY <2>8, <3>1, <4>1, <4>2
        <3>2. CASE deque'[j] = deque[j] /\ last_updated'[j] = last_updated[j]
            BY <3>2 DEF DequeInv
        <3>3. CASE j # k
            BY <2>5, <3>2, <3>3 DEF TypeOK
        <3> QED
            BY <2>5, <3>1, <3>2, <3>3
    <2>10. ASSUME NEW j \in Keys PROVE QueryExpected(j)' /\ AnswerExpected(j)'
        <3>1. pending'[j] = None
            BY <2>4, <2>6
        <3>2. CASE j # k
            <4>1. j \in updates_in_progress =>
                      j \in updates_in_progress' /\ last_updated'[j] = last_updated[j]
                BY <2>4, <2>5, <3>2 DEF updates_in_progress, TypeOK
            <4>2. QueryExpected(j) /\ AnswerExpected(j)
                BY DEF ResponsesExpected
            <4> QED
                BY <2>1, <3>1, <4>1, <4>2, TailKeepsExpected
        <3>3. CASE j = k
            <4>1. ASSUME NEW i \in DOMAIN mailbox', IsAnswer(i, k)' PROVE FALSE
                <5>1. i + 1 \in DOMAIN mailbox /\ mailbox'[i] = mailbox[i + 1]
                    BY <2>1, <4>1, TailMessages
                <5>2. IsAnswer(i + 1, k)
                    BY <4>1, <5>1 DEF IsAnswer
                <5>3. i + 1 = 1 /\ i \in 1..Len(mailbox')
                    <6>1. mailbox' \in Seq(Message)
                        BY <2>1, HeadTailProperties
                    <6> QED
                        BY <2>3, <4>1, <5>1, <5>2, <6>1, LenProperties
                <5> QED
                    BY <5>3
            <4>2. AnswerExpected(k)'
                BY <4>1 DEF AnswerExpected
            <4>3. QueryExpected(j)'
                BY <3>1 DEF QueryExpected
            <4> QED
                BY <3>3, <4>2, <4>3
        <3> QED
            BY <3>2, <3>3
    <2> QED
        BY <2>9, <2>10 DEF ResponsesExpected
<1>13. CASE SubscribeVacant
    <2> DEFINE k == Head(mailbox).key
    <2>1. /\ mailbox # <<>> /\ mailbox' = Tail(mailbox) /\ k \notin cached
          /\ cached' = cached \cup {k}
          /\ last_updated' = [last_updated EXCEPT ![k] = now - CACHE_EXPIRY_S]
          /\ UNCHANGED <<deque, started_update, pending, waiting>>
        BY <1>13 DEF SubscribeVacant, NextIs, dbVars
    <2>2. \A j \in Keys : pending[j] = None
        BY <1>13, RunsAlone DEF SubscribeVacant, NextIs
    <2> HIDE DEF k
    <2>3. DequeInv'
        BY <2>1 DEF DequeInv, TypeOK
    <2>4. ASSUME NEW j \in Keys PROVE QueryExpected(j)' /\ AnswerExpected(j)'
        <3>1. j \in updates_in_progress =>
                  j \in updates_in_progress' /\ last_updated'[j] = last_updated[j]
            BY <2>1 DEF updates_in_progress, TypeOK
        <3>2. QueryExpected(j) /\ AnswerExpected(j) /\ pending'[j] = None
            BY <2>1, <2>2 DEF ResponsesExpected
        <3> QED
            BY <2>1, <3>1, <3>2, TailKeepsExpected
    <2> QED
        BY <2>3, <2>4 DEF ResponsesExpected
<1>14. CASE SubscribeOccupied \/ unsubscribe
    <2>1. /\ mailbox # <<>> /\ mailbox' = Tail(mailbox) /\ Runs
          /\ UNCHANGED <<cached, deque, last_updated, started_update, pending, waiting>>
        BY <1>14 DEF SubscribeOccupied, unsubscribe, NextIs, dbVars, cacheVars
    <2>2. DequeInv'
        BY <2>1 DEF DequeInv
    <2>3. ASSUME NEW j \in Keys PROVE QueryExpected(j)' /\ AnswerExpected(j)'
        <3>1. QueryExpected(j) /\ AnswerExpected(j) /\ pending'[j] = None
            BY <2>1, RunsAlone DEF ResponsesExpected
        <3>2. updates_in_progress' = updates_in_progress
            BY <2>1 DEF updates_in_progress
        <3> QED
            BY <2>1, <3>1, <3>2, TailKeepsExpected
    <2> QED
        BY <2>2, <2>3 DEF ResponsesExpected
<1>15. CASE SubscribePanics
    <2>1. /\ mailbox' = <<>> /\ deque' = [k \in Keys |-> <<>>] /\ pending' = pending
        BY <1>15 DEF SubscribePanics, dbVars
    <2>2. \A j \in Keys : pending'[j] = None
        BY <1>15, <2>1, RunsAlone DEF SubscribePanics, NextIs
    <2>3. DequeInv'
        BY <2>1 DEF DequeInv
    <2>4. DOMAIN mailbox' = {}
        BY <2>1
    <2>5. ResponsesExpected'
        BY <2>2, <2>4 DEF ResponsesExpected, QueryExpected, AnswerExpected
    <2> QED
        BY <2>3, <2>5
<1>16. CASE UNCHANGED vars
    BY <1>16, NothingChanges DEF vars, cacheVars, dbVars, deliveryVars
<1> QED
    BY <1>1, <1>2, <1>3, <1>5, <1>6, <1>7, <1>8, <1>9, <1>10, <1>11, <1>12, <1>13, <1>14,
       <1>15, <1>16 DEF Next

LEMMA IInvInit == Init => DequeInv /\ ResponsesExpected
<1> SUFFICES ASSUME Init PROVE DequeInv /\ ResponsesExpected
    OBVIOUS
<1>1. DequeInv
    BY DEF Init, DequeInv
<1>2. DOMAIN mailbox = {} /\ \A k \in Keys : pending[k] = None
    BY DEF Init
<1>3. ResponsesExpected
    BY <1>2 DEF ResponsesExpected, QueryExpected, AnswerExpected
<1> QED
    BY <1>1, <1>3

\* Of all the Cache holds and is sent, what the next two theorems need: the
\* deques alone are not inductive, for the rows appended come from answers.
THEOREM Inductive == Spec => []IInv
<1>1. Init => DequeInv /\ ResponsesExpected
    BY IInvInit
<1>2. TypeOK /\ DequeInv /\ ResponsesExpected /\ [Next]_vars => DequeInv' /\ ResponsesExpected'
    BY IInvStep DEF IInv
<1> QED
    BY <1>1, <1>2, TypeCorrect, PTL DEF Spec, IInv

\* Every deque stays in the order of its timestamps and without duplicates and
\* ends in the row the next query starts from (process_peer_data_response).
THEOREM DequesInOrder == Spec => []DequeInv
<1>1. IInv => DequeInv
    BY DEF IInv
<1> QED
    BY <1>1, Inductive, PTL

\* Every query and every answer under way is one the present update waits for,
\* and no entry has two, through timeouts, evictions and new subscriptions.
THEOREM AnswersExpected == Spec => []ResponsesExpected
<1>1. IInv => ResponsesExpected
    BY DEF IInv
<1> QED
    BY <1>1, Inductive, PTL

\* The queries of an entry never go back in time.
THEOREM PollsGoForward == Spec => LastUpdatedNeverRewinds
<1> DEFINE Forward == \A k \in cached \cap cached' : last_updated'[k] >= last_updated[k]
<1>1. ASSUME IInv, [Next]_vars PROVE [Forward]_vars
    <2> SUFFICES ASSUME Next, NEW k \in cached, k \in cached'
                 PROVE  last_updated'[k] >= last_updated[k]
        BY <1>1
    <2>1. k \in Keys /\ last_updated[k] \in Int
        BY <1>1 DEF IInv, TypeOK
    <2>2. CASE UNCHANGED last_updated
        BY <2>1, <2>2
    <2>3. CASE request_updates
        BY <2>1, <2>3 DEF request_updates
    <2>4. CASE process_peer_data_response
        <3> DEFINE j == Head(mailbox).key
                   d == Head(mailbox).data
                   q == deque[j] \o d
        <3>1. CASE UNCHANGED last_updated
            BY <2>2, <3>1
        <3>2. CASE d # <<>> /\ last_updated' = [last_updated EXCEPT ![j] = q[Len(q)].created_at]
            <4>1. /\ mailbox \in Seq(Message) /\ mailbox # <<>>
                  /\ Head(mailbox).type = "data" /\ j \in Keys /\ d \in Seq(Row)
                BY <1>1, <2>4, HeadMessage DEF process_peer_data_response, NextIs, IInv, TypeOK
            <4>2. 1 \in DOMAIN mailbox /\ mailbox[1] = Head(mailbox)
                BY <4>1, EmptySeq, LenProperties
            <4>3. /\ Chronological(d) /\ Distinct(d)
                  /\ \A r \in RowsOf(d) : r.created_at > last_updated[j]
                BY <1>1, <4>1, <4>2 DEF IInv, ResponsesExpected, AnswerExpected, IsAnswer
            <4>4. /\ deque[j] \in Seq(Row) /\ last_updated[j] \in Int
                  /\ Chronological(deque[j]) /\ Distinct(deque[j])
                  /\ deque[j] # <<>> => last_updated[j] = deque[j][Len(deque[j])].created_at
                <5>1. deque[j] \in Seq(Row) /\ last_updated[j] \in Int
                    BY <1>1, <4>1 DEF IInv, TypeOK
                <5>2. CASE deque[j] = <<>>
                    BY <5>1, <5>2 DEF Chronological, Distinct
                <5>3. CASE deque[j] # <<>>
                    BY <1>1, <4>1, <5>1, <5>3 DEF IInv, DequeInv
                <5> QED
                    BY <5>2, <5>3
            <4>5. q[Len(q)].created_at > last_updated[j] /\ q[Len(q)] \in Row
                <5>1. q \in Seq(Row) /\ q # <<>> /\ q[Len(q)].created_at > last_updated[j]
                    BY <3>2, <4>1, <4>3, <4>4, AppendedRows
                <5>2. Len(q) \in 1..Len(q)
                    <6> HIDE DEF q
                    <6>1. Len(q) \in Nat \ {0}
                        BY <5>1, EmptySeq
                    <6> QED
                        BY <6>1
                <5> QED
                    BY <5>1, <5>2, ElementOfSeq
            <4>6. q[Len(q)].created_at \in Int
                BY <4>5 DEF Row
            <4> HIDE DEF q, j, d
            <4>7. CASE k = j
                BY <1>1, <2>1, <3>2, <4>5, <4>6, <4>7 DEF IInv, TypeOK
            <4>8. CASE k # j
                BY <1>1, <2>1, <3>2, <4>8 DEF IInv, TypeOK
            <4> QED
                BY <4>7, <4>8
        <3> QED
            BY <2>4, <3>1, <3>2 DEF process_peer_data_response
    <2>5. CASE SubscribeVacant
        BY <1>1, <2>1, <2>5 DEF SubscribeVacant, IInv, TypeOK
    <2>6. CASE SubscribePanics
        BY <2>6 DEF SubscribePanics
    <2>7. Next => \/ UNCHANGED last_updated
                  \/ request_updates \/ process_peer_data_response
                  \/ SubscribeVacant \/ SubscribePanics
        BY DEF Next, Tick, Store, Connect, Close, Consume, SendSubscribe, SendUnsubscribe, Send,
               DbAnswers, DbFails, DbReturns, purge_expired, SubscribeOccupied, unsubscribe,
               cacheVars
    <2> QED
        BY <2>2, <2>3, <2>4, <2>5, <2>6, <2>7
<1>2. IInv /\ [Next]_vars => [Forward]_vars
    BY <1>1
<1> QED
    BY <1>2, Inductive, PTL DEF Spec, LastUpdatedNeverRewinds
=============================================================================
