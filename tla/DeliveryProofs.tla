--------------------------- MODULE DeliveryProofs ----------------------------
(***************************************************************************)
(* Proofs about what the Cache delivers.  A step is described once from    *)
(* the side of the answers under way, once from the side of an entry and   *)
(* once from the side of a subscription; the properties follow from that:  *)
(* subscribers are in step with the cache, only ties are sent again, and,  *)
(* where rows become visible in order, entries hold the whole of the       *)
(* recent history, subscribers have no gaps, and Cache implements          *)
(* Delivery.                                                               *)
(***************************************************************************)
EXTENDS CacheProofs

-----------------------------------------------------------------------------
(* Recent rows                                                             *)

\* num_milliseconds() > 0 is a difference of a whole millisecond
LEMMA FreshIs ==
    ASSUME NEW r \in Row, NEW t \in Int
    PROVE  Fresh(r, t) <=> r.created_at >= t + MILLI
<1> DEFINE c == r.created_at
<1>1. c \in Int /\ MILLI \in Nat \ {0}
    BY MilliAssumption DEF Row
<1>2. CASE c > t
    <2>1. Millis(c, t) = (c - t) \div MILLI
        BY <1>1, <1>2 DEF Millis
    <2> DEFINE d == c - t
    <2>2. d \in Nat
        BY <1>1, <1>2
    <2> HIDE DEF d
    <2>3. \A m \in Nat \ {0}, z \in Nat :
              z \div m \in Int /\ m * (z \div m) <= z /\ z < m * (z \div m) + m
        BY Z3
    <2>4. \A m \in Nat \ {0}, i \in Int : (i >= 1 => m * i >= m) /\ (i <= 0 => m * i <= 0)
        BY Z3
    <2>5. d \div MILLI > 0 <=> d >= MILLI
        <3> DEFINE i == d \div MILLI
                   mi == MILLI * i
        <3>1. i \in Int /\ mi <= d /\ d < mi + MILLI
            BY <1>1, <2>2, <2>3
        <3>2. (i >= 1 => mi >= MILLI) /\ (i <= 0 => mi <= 0)
            BY <1>1, <2>4, <3>1
        <3>3. mi \in Int
            BY <1>1, <3>1
        <3> HIDE DEF i, mi
        <3>4. i > 0 <=> d >= MILLI
            BY <1>1, <2>2, <3>1, <3>2, <3>3
        <3> QED
            BY <3>4 DEF i
    <2>6. d >= MILLI <=> c >= t + MILLI
        BY <1>1, <2>2 DEF d
    <2> QED
        BY <1>2, <2>1, <2>5, <2>6 DEF Fresh, d
<1>3. CASE ~(c > t)
    BY <1>1, <1>3 DEF Fresh
<1> QED
    BY <1>2, <1>3

\* The rows of a slice are those from its start on
LEMMA SliceRows ==
    ASSUME NEW q \in Seq(Row), NEW n \in 1..(Len(q) + 1)
    PROVE  RowsOf(Slice(q, n)) = {q[j] : j \in n..Len(q)}
<1> DEFINE w == Slice(q, n)
<1>1. Len(q) \in Nat /\ n \in Nat \ {0}
    BY LenProperties
<1>2. /\ w \in Seq(Row)
      /\ Len(w) = Len(q) - n + 1
      /\ \A i \in 1..Len(w) : w[i] = q[n + i - 1]
    BY SliceSuffix
<1>3. DOMAIN w = 1..Len(w)
    BY <1>2, LenProperties
<1> HIDE DEF w
<1>4. ASSUME NEW i \in DOMAIN w PROVE \E j \in n..Len(q) : w[i] = q[j]
    <2>1. n + i - 1 \in n..Len(q)
        BY <1>1, <1>2, <1>3
    <2> QED
        BY <1>2, <1>3, <2>1
<1>5. ASSUME NEW j \in n..Len(q) PROVE \E i \in DOMAIN w : w[i] = q[j]
    <2> DEFINE i == j - n + 1
    <2>1. i \in 1..Len(w) /\ n + i - 1 = j
        BY <1>1, <1>2
    <2> HIDE DEF i
    <2>2. w[i] = q[n + i - 1]
        BY <1>2, <2>1
    <2> QED
        BY <1>3, <2>1, <2>2
<1> QED
    BY <1>4, <1>5 DEF RowsOf, w

\* Their stamps are numbers
LEMMA RowsHaveStamps ==
    ASSUME NEW q \in Seq(Row), NEW r \in RowsOf(q)
    PROVE  r \in Row /\ r.created_at \in Int
<1>1. DOMAIN q = 1..Len(q)
    BY LenProperties
<1>2. r \in Row
    BY <1>1, ElementOfSeq DEF RowsOf
<1> QED
    BY <1>2 DEF Row

\* purge_expired drops no fresh row
LEMMA PurgedKeepsFresh ==
    ASSUME NEW q \in Seq(Row), NEW t \in Int, NEW r \in RowsOf(q), Fresh(r, t)
    PROVE  r \in RowsOf(Purged(q, t))
<1>1. CASE PurgeStart(q, t) = {}
    BY <1>1 DEF Purged
<1>2. CASE PurgeStart(q, t) # {}
    <2> DEFINE n == CHOOSE i \in PurgeStart(q, t) : TRUE
    <2>1. n \in PurgeStart(q, t)
        BY <1>2
    <2>2. DOMAIN q = 1..Len(q) /\ Len(q) \in Nat
        BY LenProperties
    <2>3. n \in 1..Len(q) /\ \A j \in DOMAIN q : j < n => ~Fresh(q[j], t)
        BY <2>1, <2>2 DEF PurgeStart
    <2>4. Purged(q, t) = Slice(q, n)
        BY <1>2 DEF Purged
    <2> HIDE DEF n
    <2>5. PICK j \in DOMAIN q : r = q[j]
        BY DEF RowsOf
    <2>6. j \in n..Len(q)
        BY <2>2, <2>3, <2>5
    <2> QED
        BY <2>2, <2>3, <2>4, <2>5, <2>6, SliceRows
<1> QED
    BY <1>1, <1>2

LEMMA SliceSubset ==
    ASSUME NEW q \in Seq(Row), NEW n \in 1..(Len(q) + 1)
    PROVE  RowsOf(Slice(q, n)) \subseteq RowsOf(q)
<1>1. DOMAIN q = 1..Len(q) /\ n..Len(q) \subseteq 1..Len(q)
    BY LenProperties
<1> QED
    BY <1>1, SliceRows DEF RowsOf

\* ... and makes none up
LEMMA PurgedSubset ==
    ASSUME NEW q \in Seq(Row), NEW t \in Int
    PROVE  RowsOf(Purged(q, t)) \subseteq RowsOf(q)
<1>1. CASE Purged(q, t) = q
    BY <1>1
<1>2. CASE \E n \in 1..Len(q) : Purged(q, t) = Slice(q, n)
    <2>1. PICK n \in 1..Len(q) : Purged(q, t) = Slice(q, n)
        BY <1>2
    <2>2. n \in 1..(Len(q) + 1)
        BY LenProperties
    <2> QED
        BY <2>1, <2>2, SliceSubset
<1> QED
    BY <1>1, <1>2, PurgedIsSlice

\* A slice holds, with a row, all younger rows of the deque
LEMMA SliceHasYounger ==
    ASSUME NEW q \in Seq(Row), Chronological(q), NEW n \in 1..(Len(q) + 1),
           NEW p \in RowsOf(Slice(q, n)), NEW r \in RowsOf(q), p.created_at < r.created_at
    PROVE  r \in RowsOf(Slice(q, n))
<1>1. DOMAIN q = 1..Len(q) /\ Len(q) \in Nat
    BY LenProperties
<1>2. PICK i \in n..Len(q) : p = q[i]
    BY SliceRows
<1>3. PICK j \in DOMAIN q : r = q[j]
    BY DEF RowsOf
<1>4. i \in DOMAIN q /\ p \in RowsOf(q)
    BY <1>1, <1>2 DEF RowsOf
<1>5. ASSUME j < i PROVE FALSE
    <2>1. r.created_at <= p.created_at
        BY <1>2, <1>3, <1>4, <1>5 DEF Chronological
    <2> QED
        BY <1>4, <2>1, RowsHaveStamps
<1>6. j \in n..Len(q)
    BY <1>1, <1>2, <1>3, <1>5
<1> QED
    BY <1>3, <1>6, SliceRows

\* What a slice leaves out is as old as the update time, or older
LEMMA SliceHasYoungerThanTime ==
    ASSUME NEW q \in Seq(Row), Chronological(q), NEW t \in Int, NEW n \in SliceStarts(q, t),
           NEW r \in RowsOf(q), r.created_at > t
    PROVE  r \in RowsOf(Slice(q, n))
<1>1. DOMAIN q = 1..Len(q) /\ Len(q) \in Nat /\ n \in 1..(Len(q) + 1)
    BY LenProperties, SliceStartsInRange
<1>2. PICK j \in DOMAIN q : r = q[j]
    BY DEF RowsOf
<1>3. ASSUME j < n PROVE FALSE
    <2>1. r.created_at <= t
        BY <1>2, <1>3, NothingYoungerLeftOut
    <2> QED
        BY <2>1, RowsHaveStamps
<1>4. j \in n..Len(q)
    BY <1>1, <1>2, <1>3
<1> QED
    BY <1>1, <1>2, <1>4, SliceRows

\* Where a row bears the update time, a slice has no older rows
LEMMA SliceHasNoOlder ==
    ASSUME NEW q \in Seq(Row), Chronological(q), NEW t \in Int, NEW n \in SliceStarts(q, t),
           NEW e \in RowsOf(q), e.created_at = t, NEW r \in RowsOf(Slice(q, n))
    PROVE  r.created_at >= t
<1>1. DOMAIN q = 1..Len(q) /\ Len(q) \in Nat /\ n \in 1..(Len(q) + 1)
    BY LenProperties, SliceStartsInRange
<1>2. Exact(q, t) # {}
    BY DEF Exact, RowsOf
<1>3. PICK i \in DOMAIN q : n = i + 1 /\ q[i].created_at = t
    BY <1>2 DEF SliceStarts, Exact
<1>4. PICK j \in n..Len(q) : r = q[j]
    BY <1>1, SliceRows
<1>5. j \in DOMAIN q /\ i < j
    BY <1>1, <1>3, <1>4
<1>6. t <= r.created_at
    BY <1>3, <1>4, <1>5 DEF Chronological
<1>7. r.created_at \in Int
    BY <1>4, <1>5, RowsHaveStamps DEF RowsOf
<1> QED
    BY <1>6, <1>7

\* The last row of a deque is one of the youngest
LEMMA LastRow ==
    ASSUME NEW q \in Seq(Row), Chronological(q), q # <<>>
    PROVE  /\ q[Len(q)] \in RowsOf(q)
           /\ \A r \in RowsOf(q) : r.created_at <= q[Len(q)].created_at
<1>1. DOMAIN q = 1..Len(q) /\ Len(q) \in Nat /\ Len(q) # 0
    BY LenProperties, EmptySeq
<1>2. Len(q) \in DOMAIN q
    BY <1>1
<1>3. q[Len(q)] \in RowsOf(q)
    BY <1>2 DEF RowsOf
<1>4. ASSUME NEW r \in RowsOf(q) PROVE r.created_at <= q[Len(q)].created_at
    <2>1. PICK j \in DOMAIN q : r = q[j]
        BY DEF RowsOf
    <2>2. j = Len(q) \/ j < Len(q)
        BY <1>1
    <2>3. r.created_at \in Int
        BY RowsHaveStamps
    <2> QED
        BY <1>2, <2>1, <2>2, <2>3 DEF Chronological
<1> QED
    BY <1>3, <1>4

\* The rows of a deque with an answer appended
LEMMA ConcatRows ==
    ASSUME NEW q \in Seq(Row), NEW d \in Seq(Row)
    PROVE  RowsOf(q \o d) = RowsOf(q) \cup RowsOf(d)
<1> DEFINE p == q \o d
<1>1. /\ Len(q) \in Nat /\ DOMAIN q = 1..Len(q)
      /\ Len(d) \in Nat /\ DOMAIN d = 1..Len(d)
    BY LenProperties
<1>2. /\ p \in Seq(Row)
      /\ Len(p) = Len(q) + Len(d)
      /\ \A i \in 1..(Len(q) + Len(d)) :
             p[i] = IF i <= Len(q) THEN q[i] ELSE d[i - Len(q)]
    BY ConcatProperties
<1>3. DOMAIN p = 1..(Len(q) + Len(d))
    BY <1>2, LenProperties
<1> HIDE DEF p
<1>4. ASSUME NEW i \in DOMAIN p PROVE p[i] \in RowsOf(q) \cup RowsOf(d)
    <2>1. CASE i <= Len(q)
        BY <1>1, <1>2, <1>3, <2>1 DEF RowsOf
    <2>2. CASE ~(i <= Len(q))
        <3>1. i - Len(q) \in DOMAIN d
            BY <1>1, <1>3, <2>2
        <3> QED
            BY <1>2, <1>3, <2>2, <3>1 DEF RowsOf
    <2> QED
        BY <2>1, <2>2
<1>5. ASSUME NEW i \in DOMAIN q PROVE q[i] \in RowsOf(p)
    <2>1. i \in DOMAIN p /\ i <= Len(q)
        BY <1>1, <1>3
    <2> QED
        BY <1>2, <1>3, <2>1 DEF RowsOf
<1>6. ASSUME NEW i \in DOMAIN d PROVE d[i] \in RowsOf(p)
    <2> DEFINE j == Len(q) + i
    <2>1. j \in DOMAIN p /\ ~(j <= Len(q)) /\ j - Len(q) = i
        BY <1>1, <1>3
    <2> HIDE DEF j
    <2>2. p[j] = d[j - Len(q)]
        BY <1>2, <1>3, <2>1
    <2> QED
        BY <2>1, <2>2 DEF RowsOf
<1> QED
    BY <1>4, <1>5, <1>6 DEF RowsOf, p

-----------------------------------------------------------------------------
(* Steps, from the side of an entry                                        *)

\* What process_peer_data_response does with the next message, an answer d of
\* key k that makes the deque q
AnswerHandled(k, d, q) ==
    /\ k \in Keys /\ k \in cached /\ d \in Seq(Row)
    /\ 1 \in DOMAIN mailbox /\ mailbox[1].data = d /\ IsAnswer(1, k)
    /\ Chronological(d)
    /\ \A r \in RowsOf(d) : r.created_at > last_updated[k]
    /\ RowsOf(q) = RowsOf(deque[k]) \cup RowsOf(d)
    /\ \/ d = <<>> /\ UNCHANGED <<deque, last_updated, subVars>>
       \/ /\ d # <<>>
          /\ q \in Seq(Row) /\ q # <<>> /\ Chronological(q)
          /\ q[Len(q)].created_at > last_updated[k]
          /\ deque' = [deque EXCEPT ![k] = q]
          /\ last_updated' = [last_updated EXCEPT ![k] = q[Len(q)].created_at]
          /\ send_updates(k, q, q[Len(q)].created_at)

\* The update an answer belongs to is in progress, whatever happened since it
\* was asked for.
LEMMA HeadAnswer ==
    ASSUME IInv, process_peer_data_response
    PROVE  \E k, d, q : AnswerHandled(k, d, q)
<1> USE DEF IInv
<1>0. PICK k, d, q : k = Head(mailbox).key /\ d = Head(mailbox).data /\ q = deque[k] \o d
    OBVIOUS
<1>1. /\ mailbox \in Seq(Message) /\ mailbox # <<>>
      /\ Head(mailbox).type = "data"
      /\ k \in Keys /\ d \in Seq(Row)
    BY <1>0, HeadMessage DEF process_peer_data_response, NextIs, TypeOK
<1>2. 1 \in DOMAIN mailbox /\ mailbox[1] = Head(mailbox)
    <2>1. Len(mailbox) \in Nat \ {0} /\ DOMAIN mailbox = 1..Len(mailbox)
        BY <1>1, EmptySeq, LenProperties
    <2> QED
        BY <1>1, <2>1
<1>3. mailbox[1].data = d /\ IsAnswer(1, k)
    BY <1>0, <1>1, <1>2 DEF IsAnswer
<1>4. /\ k \in updates_in_progress
      /\ Chronological(d) /\ Distinct(d)
      /\ \A r \in RowsOf(d) : r.created_at > last_updated[k]
    BY <1>1, <1>2, <1>3 DEF ResponsesExpected, AnswerExpected
<1>5. k \in cached
    BY <1>4 DEF updates_in_progress
<1>6. deque[k] \in Seq(Row) /\ last_updated[k] \in Int
    BY <1>1 DEF TypeOK
<1>7. \/ d = <<>> /\ UNCHANGED <<deque, last_updated, subVars>>
      \/ /\ d # <<>>
         /\ deque' = [deque EXCEPT ![k] = q]
         /\ last_updated' = [last_updated EXCEPT ![k] = q[Len(q)].created_at]
         /\ send_updates(k, q, q[Len(q)].created_at)
    BY <1>0, <1>4 DEF process_peer_data_response
<1>8. ASSUME d # <<>>
      PROVE  /\ q \in Seq(Row) /\ q # <<>> /\ Chronological(q)
             /\ q[Len(q)].created_at > last_updated[k]
    <2>1. /\ deque[k] = <<>> => Chronological(deque[k]) /\ Distinct(deque[k])
          /\ deque[k] # <<>> => /\ Chronological(deque[k]) /\ Distinct(deque[k])
                               /\ last_updated[k] = deque[k][Len(deque[k])].created_at
        BY <1>1 DEF DequeInv, Chronological, Distinct
    <2> QED
        BY <1>0, <1>1, <1>4, <1>6, <1>8, <2>1, AppendedRows
<1>9. RowsOf(q) = RowsOf(deque[k]) \cup RowsOf(d)
    BY <1>0, <1>1, <1>6, ConcatRows
<1>10. AnswerHandled(k, d, q)
    BY <1>1, <1>2, <1>3, <1>4, <1>5, <1>7, <1>8, <1>9 DEF AnswerHandled
<1> QED
    BY <1>10

-----------------------------------------------------------------------------
(* Steps, from the side of a subscription                                  *)

\* Nothing of key k is sent to s
NotSent(s, k) == Len(inbox'[s]) > Len(inbox[s]) => inbox'[s][Len(inbox'[s])].key # k

\* It is left alone, and the entry too, unless that has lost its rows
Kept(s, k) ==
    /\ NotSent(s, k)
    /\ pushed'[s][k] = pushed[s][k]
    /\ update_time'[s][k] = update_time[s][k]
    /\ update_time'[s][k] # None => s \in subscribers'
    /\ pushed[s][k] # {} /\ deque'[k] # <<>> =>
           deque[k] # <<>> /\ last_updated'[k] = last_updated[k]

\* There is none: it ended, or there was none
Ended(s, k) ==
    /\ NotSent(s, k)
    /\ pushed'[s][k] = {}
    /\ update_time'[s][k] = None

\* The Cache handles a request of s to be served from t on
Requested(s, k, t) ==
    /\ Head(mailbox).type = "subscribe"
    /\ Head(mailbox).sub = s /\ Head(mailbox).key = k
    /\ Head(mailbox).start = t

\* It began, and nothing could be sent yet
Opened(s, k) ==
    /\ NotSent(s, k)
    /\ pushed[s][k] = {} /\ pushed'[s][k] = {}
    /\ update_time[s][k] = None /\ Requested(s, k, update_time'[s][k])
    /\ update_time'[s][k] # None
    /\ s \in subscribers'

\* It is sent a slice of the deque that starts at `from`, which is its update
\* time if it has one, and what it asks for otherwise; what is new in the deque
\* is younger than the last poll
StartsFrom(s, k, from) ==
    \/ from = update_time[s][k]
    \/ update_time[s][k] = None /\ Requested(s, k, from)
Served(s, k) ==
    /\ s \in subscribers' /\ k \in cached'
    /\ deque'[k] # <<>>
    /\ RowsOf(deque[k]) \subseteq RowsOf(deque'[k])
    /\ \A r \in RowsOf(deque'[k]) : r \in RowsOf(deque[k]) \/ r.created_at > last_updated[k]
    /\ \E from \in Int : \E n \in SliceStarts(deque'[k], from) :
           /\ StartsFrom(s, k, from)
           /\ pushed'[s][k] = pushed[s][k] \cup RowsOf(Slice(deque'[k], n))
           /\ inbox'[s] = Append(inbox[s], [key |-> k, data |-> Slice(deque'[k], n)])
    /\ update_time'[s][k] = last_updated'[k]
    /\ UNCHANGED <<now, table>>

\* What the Cache holds of subscriptions: only a recipient has update times,
\* and only a subscription has rows sent under it
SubscriptionsInv ==
    \A s \in Subs, k \in Keys :
        /\ update_time[s][k] # None => s \in subscribers
        /\ pushed[s][k] # {} => update_time[s][k] # None

\* No step touches a subscription in any other way.
StepServes == \A s \in Subs, k \in Keys : \/ Kept(s, k) \/ Ended(s, k)
                                          \/ Opened(s, k) \/ Served(s, k)

LEMMA Untouched ==
    ASSUME SubscriptionsInv, UNCHANGED <<subVars, deque, last_updated>>,
           NEW s \in Subs, NEW k \in Keys
    PROVE  Kept(s, k)
BY DEF subVars, Kept, NotSent, SubscriptionsInv

\* What is appended to an inbox is its last element, and only that is new
LEMMA AppendedInbox ==
    ASSUME TypeOK, NEW s \in Subs, NEW k \in Keys, NEW w \in Seq(Row),
           inbox'[s] = Append(inbox[s], [key |-> k, data |-> w])
    PROVE  /\ Len(inbox'[s]) = Len(inbox[s]) + 1
           /\ inbox'[s][Len(inbox'[s])] = [key |-> k, data |-> w]
           /\ \A j \in Keys \ {k} : NotSent(s, j)
<1>1. inbox[s] \in Seq(PeerDataArray) /\ [key |-> k, data |-> w] \in PeerDataArray
    BY DEF TypeOK, PeerDataArray
<1>2. /\ Len(inbox'[s]) = Len(inbox[s]) + 1
      /\ inbox'[s][Len(inbox[s]) + 1] = [key |-> k, data |-> w]
    BY <1>1, AppendProperties
<1> QED
    BY <1>2 DEF NotSent

\* The rows sent to S are added to what was sent under their subscriptions
LEMMA Pushes ==
    ASSUME IInv, SubscriptionsInv, NEW S \in SUBSET Subs, NEW k \in Keys, NEW q \in Seq(Row),
           NEW start, start \in [S -> 1..(Len(q) + 1)],
           update_subscribers(S, k, q, start), NEW s \in Subs, NEW j \in Keys
    PROVE  /\ s \in S /\ j = k =>
                  /\ pushed'[s][j] = pushed[s][j] \cup RowsOf(Slice(q, start[s]))
                  /\ inbox'[s] = Append(inbox[s], [key |-> k, data |-> Slice(q, start[s])])
           /\ s \in S /\ j # k => pushed'[s][j] = pushed[s][j] /\ NotSent(s, j)
           /\ s \notin S =>
                  /\ pushed'[s][j] = IF s \in subscribers' THEN pushed[s][j] ELSE {}
                  /\ NotSent(s, j)
           /\ s \notin subscribers => pushed[s][j] = {}
<1>1. pushed \in [Subs -> [Keys -> SUBSET Row]]
    BY DEF IInv, TypeOK
<1>2. CASE s \in S
    <2>1. /\ pushed'[s] = [pushed[s] EXCEPT ![k] = @ \cup RowsOf(Slice(q, start[s]))]
          /\ inbox'[s] = Append(inbox[s], [key |-> k, data |-> Slice(q, start[s])])
        BY <1>2 DEF update_subscribers
    <2>2. Slice(q, start[s]) \in Seq(Row)
        BY <1>2, SliceSuffix
    <2>3. j # k => NotSent(s, j)
        BY <2>1, <2>2, AppendedInbox DEF IInv
    <2> QED
        BY <1>1, <1>2, <2>1, <2>3 DEF SubscriptionsInv
<1>3. CASE s \notin S
    BY <1>3 DEF update_subscribers, NotSent, SubscriptionsInv
<1> QED
    BY <1>2, <1>3

LEMMA StepServed ==
    ASSUME IInv, SubscriptionsInv, [Next]_vars
    PROVE  StepServes
<1> USE DEF IInv
<1> SUFFICES ASSUME NEW s \in Subs, NEW j \in Keys
             PROVE  Kept(s, j) \/ Ended(s, j) \/ Opened(s, j) \/ Served(s, j)
    BY DEF StepServes
<1>1. CASE UNCHANGED <<subVars, deque, last_updated>>
    BY <1>1, Untouched
<1>2. ASSUME NEW t \in Subs, Close(t) \/ Consume(t) PROVE Kept(s, j)
    <2>1. UNCHANGED <<deque, last_updated, pushed, update_time, subscribers>>
        BY <1>2 DEF Close, Consume, cacheVars
    <2>2. CASE t # s
        <3>1. inbox'[s] = inbox[s]
            BY <1>2, <2>2 DEF Close, Consume, TypeOK
        <3> QED
            BY <2>1, <3>1 DEF Kept, NotSent, SubscriptionsInv
    <2>3. CASE t = s
        <3>1. inbox[s] \in Seq(PeerDataArray)
            BY DEF TypeOK
        <3>2. \/ inbox'[s] = <<>>
              \/ inbox[s] # <<>> /\ inbox'[s] = Tail(inbox[s])
            <4>1. CASE Close(t)
                BY <2>3, <4>1 DEF Close, TypeOK
            <4>2. CASE Consume(t)
                BY <2>3, <4>2 DEF Consume, TypeOK
            <4> QED
                BY <1>2, <4>1, <4>2
        <3>3. ~(Len(inbox'[s]) > Len(inbox[s]))
            <4>1. Len(inbox[s]) \in Nat
                BY <3>1, LenProperties
            <4>2. CASE inbox'[s] = <<>>
                BY <4>1, <4>2, EmptySeq
            <4>3. CASE inbox[s] # <<>> /\ inbox'[s] = Tail(inbox[s])
                BY <3>1, <4>1, <4>3, HeadTailProperties
            <4> QED
                BY <3>2, <4>2, <4>3
        <3> QED
            BY <2>1, <3>3 DEF Kept, NotSent, SubscriptionsInv
    <2> QED
        BY <2>2, <2>3
<1>3. CASE request_updates
    <2>1. deque'[j] # <<>> => deque'[j] = deque[j] /\ last_updated'[j] = last_updated[j]
        BY <1>3 DEF request_updates
    <2> QED
        BY <1>3, <2>1 DEF request_updates, subVars, Kept, NotSent, SubscriptionsInv
<1>4. CASE purge_expired
    <2>1. deque[j] \in Seq(Row) /\ now - CACHE_EXPIRY_S \in Int
        BY ConstAssumption DEF TypeOK
    <2>2. deque'[j] # <<>> => deque[j] # <<>>
        BY <1>4, <2>1, PurgedKeeps DEF purge_expired
    <2> QED
        BY <1>4, <2>2 DEF purge_expired, subVars, Kept, NotSent, SubscriptionsInv
<1>5. CASE process_peer_data_response
    <2>0. PICK k, d, q : AnswerHandled(k, d, q)
        BY <1>5, HeadAnswer
    <2> DEFINE stamp == q[Len(q)].created_at
    <2>1. /\ k \in Keys /\ k \in cached
          /\ \A r \in RowsOf(d) : r.created_at > last_updated[k]
          /\ RowsOf(q) = RowsOf(deque[k]) \cup RowsOf(d)
          /\ \/ UNCHANGED <<deque, last_updated, subVars>>
             \/ /\ q \in Seq(Row) /\ q # <<>>
                /\ deque' = [deque EXCEPT ![k] = q]
                /\ last_updated' = [last_updated EXCEPT ![k] = stamp]
                /\ send_updates(k, q, stamp)
        BY <2>0 DEF AnswerHandled
    <2> HIDE DEF stamp
    <2>2. cached' = cached /\ UNCHANGED <<now, table>>
        BY <1>5 DEF process_peer_data_response, envVars
    <2>3. CASE UNCHANGED <<deque, last_updated, subVars>>
        BY <1>1, <2>3
    <2>4. CASE /\ q \in Seq(Row) /\ q # <<>>
               /\ deque' = [deque EXCEPT ![k] = q]
               /\ last_updated' = [last_updated EXCEPT ![k] = stamp]
               /\ send_updates(k, q, stamp)
        <3>1. /\ deque'[k] = q /\ last_updated'[k] = stamp
              /\ j # k => deque'[j] = deque[j] /\ last_updated'[j] = last_updated[j]
            BY <2>1, <2>4 DEF TypeOK
        <3>2. PICK start \in [Reached(k) -> 1..(Len(q) + 1)] :
                  /\ \A t \in Reached(k) : start[t] \in SliceStarts(q, update_time[t][k])
                  /\ update_subscribers(Reached(k), k, q, start)
            BY <2>4 DEF send_updates
        <3>3. Reached(k) \in SUBSET Subs
            BY DEF Reached, Subscribed, TypeOK
        <3>4. /\ s \in Reached(k) /\ j = k =>
                     /\ pushed'[s][j] = pushed[s][j] \cup RowsOf(Slice(q, start[s]))
                     /\ inbox'[s] = Append(inbox[s], [key |-> k, data |-> Slice(q, start[s])])
              /\ s \in Reached(k) /\ j # k => pushed'[s][j] = pushed[s][j] /\ NotSent(s, j)
              /\ s \notin Reached(k) =>
                     /\ pushed'[s][j] = IF s \in subscribers' THEN pushed[s][j] ELSE {}
                     /\ NotSent(s, j)
              /\ s \notin subscribers => pushed[s][j] = {}
            BY <2>1, <2>4, <3>2, <3>3, Pushes
        <3>5. /\ subscribers' = subscribers \ Dead(k)
              /\ update_time'[s] = IF s \in Dead(k) THEN [i \in Keys |-> None]
                                   ELSE IF s \in Reached(k) THEN [update_time[s] EXCEPT ![k] = stamp]
                                   ELSE update_time[s]
            BY <2>4 DEF send_updates
        <3>6. CASE s \in Dead(k)
            <4>1. s \notin Reached(k) /\ s \notin subscribers'
                BY <3>5, <3>6 DEF Dead, Reached
            <4> QED
                BY <3>4, <3>5, <3>6, <4>1 DEF Ended
        <3>7. CASE s \in Reached(k) /\ j = k
            <4>1. s \notin Dead(k) /\ s \in subscribers /\ update_time[s][k] # None
                BY <3>7 DEF Dead, Reached, Subscribed
            <4>2. update_time[s] \in [Keys -> Int \cup {None}]
                BY DEF TypeOK
            <4>3. update_time'[s][k] = stamp /\ update_time[s][k] \in Int
                BY <2>1, <3>5, <3>7, <4>1, <4>2
            <4>4. start[s] \in SliceStarts(q, update_time[s][k])
                BY <3>2, <3>7
            <4>5. s \in subscribers'
                BY <3>5, <4>1
            <4>6. \E from \in Int : \E n \in SliceStarts(deque'[k], from) :
                      /\ StartsFrom(s, k, from)
                      /\ pushed'[s][k] = pushed[s][k] \cup RowsOf(Slice(deque'[k], n))
                      /\ inbox'[s] = Append(inbox[s], [key |-> k, data |-> Slice(deque'[k], n)])
                BY <3>1, <3>4, <3>7, <4>3, <4>4 DEF StartsFrom
            <4>7. /\ deque'[k] # <<>>
                  /\ RowsOf(deque[k]) \subseteq RowsOf(deque'[k])
                  /\ \A r \in RowsOf(deque'[k]) : r \in RowsOf(deque[k]) \/ r.created_at > last_updated[k]
                BY <2>1, <2>4, <3>1
            <4>8. update_time'[s][k] = last_updated'[k] /\ s \in subscribers' /\ k \in cached'
                BY <2>1, <2>2, <3>1, <4>3, <4>5
            <4>9. Served(s, k)
                BY <2>2, <4>6, <4>7, <4>8 DEF Served
            <4> QED
                BY <3>7, <4>9
        <3>8. CASE s \in Reached(k) /\ j # k
            <4>1. s \notin Dead(k)
                BY <3>8 DEF Dead, Reached
            <4>2. update_time'[s][j] = update_time[s][j]
                BY <3>5, <3>8, <4>1 DEF TypeOK
            <4> QED
                BY <3>1, <3>4, <3>5, <3>8, <4>1, <4>2 DEF Kept, SubscriptionsInv
        <3>9. CASE s \notin Dead(k) /\ s \notin Reached(k)
            <4>1. update_time'[s][j] = update_time[s][j] /\ NotSent(s, j)
                BY <3>4, <3>5, <3>9
            <4>2. pushed'[s][j] = pushed[s][j]
                BY <3>4, <3>5, <3>9
            <4>3. j = k => pushed[s][j] = {}
                BY <3>9 DEF Dead, Reached, Subscribed, SubscriptionsInv
            <4> QED
                BY <3>1, <3>5, <3>9, <4>1, <4>2, <4>3 DEF Kept, SubscriptionsInv
        <3> QED
            BY <3>6, <3>7, <3>8, <3>9
    <2> QED
        BY <2>1, <2>3, <2>4
<1>6. CASE SubscribeVacant
    <2> DEFINE t == Head(mailbox).sub
               k == Head(mailbox).key
    <2>1. /\ t \in Subs /\ k \in Keys /\ Head(mailbox).start \in Int
          /\ Requested(t, k, Head(mailbox).start)
        BY <1>6, HeadMessage DEF SubscribeVacant, NextIs, Requested
    <2>2. /\ k \notin cached
          /\ subscribers' = subscribers \cup {t}
          /\ update_time' = [update_time EXCEPT ![t][k] = StartFrom(t, k, Head(mailbox).start)]
          /\ last_updated' = [last_updated EXCEPT ![k] = now - CACHE_EXPIRY_S]
          /\ UNCHANGED <<deque, inbox, pushed>>
        BY <1>6 DEF SubscribeVacant
    <2>3. deque[k] = <<>>
        BY <2>1, <2>2 DEF DequeInv
    <2> HIDE DEF t, k
    <2>4. CASE s = t /\ j = k /\ update_time[s][j] = None
        <3>1. update_time'[s][j] = Head(mailbox).start
            BY <2>1, <2>2, <2>4 DEF StartFrom, TypeOK
        <3>2. pushed[s][j] = {}
            BY <2>4 DEF SubscriptionsInv
        <3> QED
            BY <2>1, <2>2, <2>4, <3>1, <3>2, NoneAssumption DEF Opened, NotSent
    <2>5. CASE ~(s = t /\ j = k /\ update_time[s][j] = None)
        <3>1. update_time'[s][j] = update_time[s][j]
            BY <2>1, <2>2, <2>5 DEF StartFrom, TypeOK
        <3>2. deque'[j] # <<>> => last_updated'[j] = last_updated[j]
            BY <2>1, <2>2, <2>3 DEF TypeOK
        <3> QED
            BY <2>2, <3>1, <3>2 DEF Kept, NotSent, SubscriptionsInv
    <2> QED
        BY <2>4, <2>5
<1>7. CASE SubscribeOccupied
    <2> DEFINE t == Head(mailbox).sub
               k == Head(mailbox).key
               from == StartFrom(t, k, Head(mailbox).start)
    <2>1. t \in Subs /\ k \in Keys /\ Head(mailbox).start \in Int
        BY <1>7, HeadMessage DEF SubscribeOccupied
    <2>2. /\ k \in cached
          /\ subscribers' = subscribers \cup {t}
          /\ UNCHANGED <<cached, deque, last_updated, now, table>>
        BY <1>7 DEF SubscribeOccupied, envVars
    <2>3. PICK i \in SliceStarts(deque[k], from) :
              \/ /\ update_time' = [update_time EXCEPT ![t][k] = last_updated[k]]
                 /\ update_subscribers({t}, k, deque[k], [u \in {t} |-> i])
              \/ /\ update_time' = [update_time EXCEPT ![t][k] = from]
                 /\ UNCHANGED <<inbox, pushed>>
        BY <1>7 DEF SubscribeOccupied
    <2>4. /\ from \in Int
          /\ StartsFrom(t, k, from)
        <3>1. CASE update_time[t][k] = None
            <4>1. from = Head(mailbox).start
                BY <3>1 DEF StartFrom
            <4>2. Requested(t, k, Head(mailbox).start)
                BY <1>7 DEF Requested, SubscribeOccupied, NextIs
            <4> QED
                BY <2>1, <3>1, <4>1, <4>2 DEF StartsFrom
        <3>2. CASE update_time[t][k] # None
            <4>1. from = update_time[t][k]
                BY <3>2 DEF StartFrom
            <4>2. update_time[t][k] \in Int
                BY <2>1, <3>2 DEF TypeOK
            <4> QED
                BY <4>1, <4>2 DEF StartsFrom
        <3> QED
            BY <3>1, <3>2
    <2>5. deque[k] \in Seq(Row) /\ i \in 1..(Len(deque[k]) + 1) /\ deque[k] # <<>>
        <3>1. deque[k] \in Seq(Row)
            BY <2>1 DEF TypeOK
        <3>2. i \in 1..(Len(deque[k]) + 1)
            BY <2>3, <3>1, SliceStartsInRange
        <3>3. deque[k] = <<>> => SliceStarts(deque[k], from) = {}
            BY DEF SliceStarts, Exact, Nearest
        <3> QED
            BY <2>3, <3>1, <3>2, <3>3
    <2> HIDE DEF t, k, from
    <2>6. CASE /\ update_time' = [update_time EXCEPT ![t][k] = last_updated[k]]
               /\ update_subscribers({t}, k, deque[k], [u \in {t} |-> i])
        <3>1. /\ s = t /\ j = k =>
                     /\ pushed'[s][j] = pushed[s][j] \cup RowsOf(Slice(deque[k], i))
                     /\ inbox'[s] = Append(inbox[s], [key |-> k, data |-> Slice(deque[k], i)])
              /\ s = t /\ j # k => pushed'[s][j] = pushed[s][j] /\ NotSent(s, j)
              /\ s # t =>
                     /\ pushed'[s][j] = IF s \in subscribers' THEN pushed[s][j] ELSE {}
                     /\ NotSent(s, j)
              /\ s \notin subscribers => pushed[s][j] = {}
            <4>1. [u \in {t} |-> i] \in [{t} -> 1..(Len(deque[k]) + 1)] /\ {t} \in SUBSET Subs
                BY <2>1, <2>5
            <4> DEFINE start == [u \in {t} |-> i]
            <4>2. start[t] = i
                OBVIOUS
            <4> HIDE DEF start
            <4>3. /\ s \in {t} /\ j = k =>
                         /\ pushed'[s][j] = pushed[s][j] \cup RowsOf(Slice(deque[k], start[s]))
                         /\ inbox'[s] = Append(inbox[s], [key |-> k, data |-> Slice(deque[k], start[s])])
                  /\ s \in {t} /\ j # k => pushed'[s][j] = pushed[s][j] /\ NotSent(s, j)
                  /\ s \notin {t} =>
                         /\ pushed'[s][j] = IF s \in subscribers' THEN pushed[s][j] ELSE {}
                         /\ NotSent(s, j)
                  /\ s \notin subscribers => pushed[s][j] = {}
                BY <2>1, <2>5, <2>6, <4>1, Pushes DEF start
            <4> QED
                BY <4>2, <4>3
        <3>2. CASE s = t /\ j = k
            <4>1. update_time'[s][k] = last_updated[k]
                BY <2>1, <2>6, <3>2 DEF TypeOK
            <4>2. StartsFrom(s, k, from)
                BY <2>4, <3>2
            <4>3. s \in subscribers' /\ k \in cached' /\ deque'[k] = deque[k] /\ last_updated'[k] = last_updated[k]
                BY <2>2, <3>2
            <4>4. \E f \in Int : \E n \in SliceStarts(deque[k], f) :
                      /\ StartsFrom(s, k, f)
                      /\ pushed'[s][k] = pushed[s][k] \cup RowsOf(Slice(deque[k], n))
                      /\ inbox'[s] = Append(inbox[s], [key |-> k, data |-> Slice(deque[k], n)])
                BY <2>3, <2>4, <3>1, <3>2, <4>2
            <4> QED
                BY <2>2, <2>5, <3>2, <4>1, <4>3, <4>4 DEF Served
        <3>3. CASE ~(s = t /\ j = k)
            <4>1. update_time'[s][j] = update_time[s][j]
                BY <2>1, <2>6, <3>3 DEF TypeOK
            <4>2. pushed'[s][j] = pushed[s][j] /\ NotSent(s, j)
                BY <2>2, <3>1, <3>3
            <4> QED
                BY <2>2, <4>1, <4>2 DEF Kept, SubscriptionsInv
        <3> QED
            BY <3>2, <3>3
    <2>7. CASE update_time' = [update_time EXCEPT ![t][k] = from] /\ UNCHANGED <<inbox, pushed>>
        <3>1. CASE s = t /\ j = k /\ update_time[s][j] = None
            <4>1. update_time'[s][j] = from /\ from # None
                BY <2>1, <2>4, <2>7, <3>1, NoneAssumption DEF TypeOK
            <4>2. pushed[s][j] = {} /\ Requested(s, j, from)
                BY <2>4, <3>1, <4>1 DEF SubscriptionsInv, StartsFrom
            <4> QED
                BY <2>2, <2>7, <3>1, <4>1, <4>2 DEF Opened, NotSent
        <3>2. CASE ~(s = t /\ j = k /\ update_time[s][j] = None)
            <4>1. update_time'[s][j] = update_time[s][j]
                BY <2>1, <2>4, <2>7, <3>2 DEF TypeOK, StartsFrom
            <4> QED
                BY <2>2, <2>7, <4>1 DEF Kept, NotSent, SubscriptionsInv
        <3> QED
            BY <3>1, <3>2
    <2> QED
        BY <2>3, <2>6, <2>7
<1>8. CASE SubscribePanics
    BY <1>8 DEF SubscribePanics, Ended, NotSent
<1>9. CASE unsubscribe
    <2> DEFINE t == Head(mailbox).sub
               k == Head(mailbox).key
    <2>1. t \in Subs /\ k \in Keys
        BY <1>9, HeadMessage DEF unsubscribe
    <2>2. /\ update_time' = [update_time EXCEPT ![t][k] = None]
          /\ pushed' = [pushed EXCEPT ![t][k] = {}]
          /\ UNCHANGED <<deque, last_updated, inbox, subscribers>>
        BY <1>9 DEF unsubscribe, cacheVars
    <2> HIDE DEF t, k
    <2>3. CASE s = t /\ j = k
        BY <2>1, <2>2, <2>3 DEF Ended, NotSent, TypeOK
    <2>4. CASE ~(s = t /\ j = k)
        <3>1. update_time'[s][j] = update_time[s][j] /\ pushed'[s][j] = pushed[s][j]
            BY <2>1, <2>2, <2>4 DEF TypeOK
        <3> QED
            BY <2>2, <3>1 DEF Kept, NotSent, SubscriptionsInv
    <2> QED
        BY <2>3, <2>4
<1>10. [Next]_vars =>
           \/ UNCHANGED <<subVars, deque, last_updated>>
           \/ \E t \in Subs : Close(t) \/ Consume(t)
           \/ request_updates \/ purge_expired \/ process_peer_data_response
           \/ SubscribeVacant \/ SubscribeOccupied \/ SubscribePanics \/ unsubscribe
    BY DEF Next, Tick, Store, Connect, SendSubscribe, SendUnsubscribe, Send, DbAnswers, DbFails,
           DbReturns, cacheVars, vars
<1> QED
    BY <1>1, <1>2, <1>3, <1>4, <1>5, <1>6, <1>7, <1>8, <1>9, <1>10

-----------------------------------------------------------------------------
(* In step, and sent once                                                  *)

SubInv == IInv /\ SubscriptionsInv /\ SubscribersInStep

LEMMA SubInvStep ==
    ASSUME SubInv, [Next]_vars
    PROVE  SubscriptionsInv' /\ SubscribersInStep'
<1>1. StepServes
    BY StepServed DEF SubInv
<1>2. ASSUME NEW s \in Subs, NEW k \in Keys
      PROVE  /\ update_time'[s][k] # None => s \in subscribers'
             /\ pushed'[s][k] # {} => update_time'[s][k] # None
             /\ pushed'[s][k] # {} /\ deque'[k] # <<>> => update_time'[s][k] = last_updated'[k]
    <2>1. CASE Kept(s, k)
        BY <2>1 DEF Kept, SubInv, SubscriptionsInv, SubscribersInStep
    <2>2. CASE Ended(s, k)
        BY <2>2 DEF Ended
    <2>3. CASE Opened(s, k)
        BY <2>3 DEF Opened
    <2>4. CASE Served(s, k)
        <3>1. last_updated'[k] \in Int
            BY TypeStep DEF SubInv, IInv, TypeOK
        <3> QED
            BY <2>4, <3>1, NoneAssumption DEF Served
    <2> QED
        BY <1>1, <2>1, <2>2, <2>3, <2>4 DEF StepServes
<1> QED
    BY <1>2 DEF SubscriptionsInv, SubscribersInStep

LEMMA SubscriptionsInductive == Spec => []SubInv
<1>1. Init => SubscriptionsInv /\ SubscribersInStep
    BY DEF Init, SubscriptionsInv, SubscribersInStep
<1>2. IInv /\ SubscriptionsInv /\ SubscribersInStep /\ [Next]_vars
      => SubscriptionsInv' /\ SubscribersInStep'
    BY SubInvStep DEF SubInv
<1> QED
    BY <1>1, <1>2, Inductive, PTL DEF Spec, SubInv

\* Whoever was sent rows of a key is where the cache is, whatever was purged,
\* refused, unsubscribed or evicted since (the update times that
\* process_peer_data_response and subscribe write).
THEOREM InStep == Spec => []SubscribersInStep
<1>1. SubInv => SubscribersInStep
    BY DEF SubInv
<1> QED
    BY <1>1, SubscriptionsInductive, PTL

LEMMA TiesStep ==
    ASSUME SubInv, [Next]_vars, NEW s \in Subs, NEW k \in Keys, ~Ahead(s, k),
           NEW r \in SentAgain(s, k)
    PROVE  r.created_at = update_time[s][k]
<1>1. StepServes /\ TypeOK /\ TypeOK' /\ DequeInv /\ DequeInv'
    BY StepServed, IInvStep, TypeStep DEF SubInv, IInv
<1>2. Len(inbox'[s]) > Len(inbox[s]) /\ inbox'[s][Len(inbox'[s])].key = k
    BY DEF SentAgain
<1>3. Served(s, k)
    BY <1>1, <1>2 DEF StepServes, Kept, Ended, Opened, NotSent
<1> DEFINE q == deque'[k]
<1>4. PICK from \in Int : \E n \in SliceStarts(q, from) :
          /\ StartsFrom(s, k, from)
          /\ inbox'[s] = Append(inbox[s], [key |-> k, data |-> Slice(q, n)])
    BY <1>3 DEF Served
<1>5. PICK n \in SliceStarts(q, from) :
          /\ StartsFrom(s, k, from)
          /\ inbox'[s] = Append(inbox[s], [key |-> k, data |-> Slice(q, n)])
    BY <1>4
<1>6. q \in Seq(Row) /\ Chronological(q)
    BY <1>1, <1>3 DEF TypeOK, DequeInv, Served
<1> HIDE DEF q
<1>7. n \in 1..(Len(q) + 1) /\ Slice(q, n) \in Seq(Row)
    BY <1>6, SliceStartsInRange, SliceSuffix
<1>8. r \in RowsOf(Slice(q, n)) /\ r \in pushed[s][k]
    <2>1. inbox'[s][Len(inbox'[s])] = [key |-> k, data |-> Slice(q, n)]
        BY <1>1, <1>5, <1>7, AppendedInbox
    <2>2. inbox'[s][Len(inbox'[s])].data = Slice(q, n)
        BY <2>1
    <2>3. r \in RowsOf(inbox'[s][Len(inbox'[s])].data) \cap pushed[s][k]
        BY <1>2 DEF SentAgain
    <2> QED
        BY <2>2, <2>3
<1>9. r \in RowsOf(q) /\ r.created_at \in Int
    BY <1>6, <1>7, <1>8, SliceSubset, RowsHaveStamps
<1>10. ~(r.created_at > last_updated[k])
    BY <1>8 DEF Ahead
<1>11. r \in RowsOf(deque[k])
    BY <1>3, <1>9, <1>10 DEF Served, q
<1>12. deque[k] \in Seq(Row) /\ deque[k] # <<>> /\ Chronological(deque[k])
    <2>1. deque[k] \in Seq(Row)
        BY <1>1 DEF TypeOK
    <2>2. deque[k] # <<>>
        BY <1>11 DEF RowsOf
    <2> QED
        BY <1>1, <2>1, <2>2 DEF DequeInv
<1>13. from = last_updated[k]
    BY <1>5, <1>8, <1>12 DEF SubInv, SubscribersInStep, SubscriptionsInv, StartsFrom
<1> DEFINE e == deque[k][Len(deque[k])]
<1>14. e \in RowsOf(q) /\ e.created_at = from
    <2>1. e \in RowsOf(deque[k])
        BY <1>12, LastRow
    <2>2. e.created_at = last_updated[k]
        BY <1>1, <1>12 DEF DequeInv
    <2> QED
        BY <1>3, <1>13, <2>1, <2>2 DEF Served, q
<1> HIDE DEF e
<1>15. r.created_at >= from
    BY <1>6, <1>8, <1>14, SliceHasNoOlder
<1> QED
    BY <1>8, <1>9, <1>10, <1>12, <1>13, <1>15 DEF SubInv, SubscribersInStep

\* Nothing a subscriber has is sent to it again but rows that share the stamp
\* of its last: update_subscriber finds the place it was served up to, in the
\* deque as it is by then.
THEOREM TiesOnly == Spec => OnlyTiesSentAgain
<1> DEFINE Ties == \A s \in Subs, k \in Keys : ~Ahead(s, k) =>
                       \A r \in SentAgain(s, k) : r.created_at = update_time[s][k]
<1>1. SubInv /\ [Next]_vars => [Ties]_vars
    BY TiesStep
<1> QED
    BY <1>1, SubscriptionsInductive, PTL DEF Spec, OnlyTiesSentAgain

-----------------------------------------------------------------------------
(* Steps, from the side of the answers under way                           *)

\* An answer was under way before, and its entry polls from where it did
Underway(i, k) ==
    /\ last_updated'[k] = last_updated[k]
    /\ \E j \in DOMAIN mailbox : IsAnswer(j, k) /\ mailbox[j].data = mailbox'[i].data

\* An answer is a new one, to the query that was pending
Arrived(i, k) ==
    /\ mailbox'[i].data \in get_logs(table[k], last_updated[k])
    /\ UNCHANGED <<now, table, last_updated>>

\* A message that is no answer is sent to the Cache, or refused
LEMMA SentUnderway ==
    ASSUME TypeOK, NEW s \in Subs, NEW m \in Message, m.type # "data", Send(s, m),
           NEW i \in DOMAIN mailbox', NEW k \in Keys, IsAnswer(i, k)'
    PROVE  Underway(i, k)
<1>1. UNCHANGED last_updated /\ mailbox \in Seq(Message)
    BY DEF Send, cacheVars, TypeOK
<1>2. CASE mailbox' = mailbox
    BY <1>1, <1>2 DEF Underway, IsAnswer
<1>3. CASE mailbox' = Append(mailbox, m)
    <2>1. /\ DOMAIN mailbox' = 1..(Len(mailbox) + 1)
          /\ DOMAIN mailbox = 1..Len(mailbox)
          /\ Len(mailbox) \in Nat
          /\ \A n \in 1..Len(mailbox) : mailbox'[n] = mailbox[n]
          /\ mailbox'[Len(mailbox) + 1] = m
        BY <1>1, <1>3, AppendProperties, LenProperties
    <2>2. i # Len(mailbox) + 1
        BY <2>1 DEF IsAnswer
    <2>3. i \in DOMAIN mailbox /\ mailbox'[i] = mailbox[i]
        BY <2>1, <2>2
    <2> QED
        BY <1>1, <2>3 DEF Underway, IsAnswer
<1> QED
    BY <1>2, <1>3 DEF Send

\* An answer stays in the mailbox while the Cache handles another message
LEMMA TailUnderway ==
    ASSUME TypeOK, mailbox # <<>>, mailbox' = Tail(mailbox),
           NEW i \in DOMAIN mailbox', NEW k \in Keys, IsAnswer(i, k)',
           last_updated'[k] = last_updated[k]
    PROVE  Underway(i, k)
BY TailMessages DEF Underway, IsAnswer

LEMMA AnswersComeFrom ==
    ASSUME IInv, [Next]_vars, NEW i \in DOMAIN mailbox', NEW k \in Keys, IsAnswer(i, k)'
    PROVE  Underway(i, k) \/ Arrived(i, k)
<1> USE DEF IInv
<1>1. CASE UNCHANGED <<last_updated, mailbox>>
    BY <1>1 DEF Underway, IsAnswer
<1>2. ASSUME NEW s \in Subs, NEW j \in Keys, NEW back \in Lookbacks, SendSubscribe(s, j, back)
      PROVE  Underway(i, k)
    <2>1. [type |-> "subscribe", sub |-> s, key |-> j, start |-> now - back] \in Message
        BY ConstAssumption DEF TypeOK, Message
    <2> QED
        BY <1>2, <2>1, SentUnderway DEF SendSubscribe
<1>3. ASSUME NEW s \in Subs, NEW j \in Keys, SendUnsubscribe(s, j)
      PROVE  Underway(i, k)
    <2>1. [type |-> "unsubscribe", sub |-> s, key |-> j] \in Message
        BY DEF Message
    <2> QED
        BY <1>3, <2>1, SentUnderway DEF SendUnsubscribe
<1>4. ASSUME NEW j \in Keys, DbAnswers(j) PROVE Underway(i, k) \/ Arrived(i, k)
    <2>1. PICK rows \in get_logs(table[j], pending[j]) :
              mailbox' = Append(mailbox, [type |-> "data", key |-> j, data |-> rows])
        BY <1>4 DEF DbAnswers
    <2> DEFINE m == [type |-> "data", key |-> j, data |-> rows]
    <2>2. pending[j] # None /\ UNCHANGED <<now, table, last_updated>>
        BY <1>4 DEF DbAnswers, cacheVars, envVars
    <2>3. pending[j] = last_updated[j]
        BY <2>2 DEF ResponsesExpected, QueryExpected
    <2>4. m \in Message /\ mailbox \in Seq(Message)
        <3>1. rows \in Seq(Row)
            BY <2>1, <2>2, get_logsReturns DEF TypeOK
        <3> QED
            BY <3>1 DEF Message, TypeOK
    <2>5. /\ DOMAIN mailbox' = 1..(Len(mailbox) + 1)
          /\ DOMAIN mailbox = 1..Len(mailbox)
          /\ Len(mailbox) \in Nat
          /\ \A n \in 1..Len(mailbox) : mailbox'[n] = mailbox[n]
          /\ mailbox'[Len(mailbox) + 1] = m
        BY <2>1, <2>4, AppendProperties, LenProperties
    <2>6. m.type = "data" /\ m.key = j /\ m.data = rows
        OBVIOUS
    <2> HIDE DEF m
    <2>7. CASE i = Len(mailbox) + 1
        <3>1. j = k /\ mailbox'[i].data = rows
            BY <2>5, <2>6, <2>7 DEF IsAnswer
        <3> QED
            BY <2>1, <2>2, <2>3, <3>1 DEF Arrived
    <2>8. CASE i # Len(mailbox) + 1
        <3>1. i \in DOMAIN mailbox /\ mailbox'[i] = mailbox[i]
            BY <2>5, <2>8
        <3> QED
            BY <2>2, <3>1 DEF Underway, IsAnswer
    <2> QED
        BY <2>7, <2>8
<1>5. CASE request_updates
    BY <1>5 DEF request_updates, TimerRuns, MailboxFirst, IsAnswer
<1>6. CASE process_peer_data_response
    <2>1. PICK j, d, q : AnswerHandled(j, d, q)
        BY <1>6, HeadAnswer
    <2>2. /\ mailbox # <<>> /\ mailbox' = Tail(mailbox)
          /\ mailbox \in Seq(Message)
        BY <1>6 DEF process_peer_data_response, NextIs, TypeOK
    <2>3. CASE j = k
        <3>1. i + 1 \in DOMAIN mailbox /\ IsAnswer(i + 1, k)
            BY <2>2, TailMessages DEF IsAnswer
        <3>2. i + 1 = 1
            BY <2>1, <2>3, <3>1 DEF AnswerHandled, ResponsesExpected, AnswerExpected
        <3>3. i \in 1..Len(mailbox')
            BY <2>2, HeadTailProperties, LenProperties
        <3> QED
            BY <3>2, <3>3
    <2>4. CASE j # k
        <3>1. last_updated'[k] = last_updated[k]
            BY <2>1, <2>4 DEF AnswerHandled, TypeOK
        <3> QED
            BY <2>2, <3>1, TailUnderway
    <2> QED
        BY <2>3, <2>4
<1>7. CASE SubscribeVacant
    <2> DEFINE j == Head(mailbox).key
    <2>1. /\ mailbox # <<>> /\ mailbox' = Tail(mailbox) /\ j \notin cached
          /\ last_updated' = [last_updated EXCEPT ![j] = now - CACHE_EXPIRY_S]
        BY <1>7 DEF SubscribeVacant, NextIs
    <2> HIDE DEF j
    <2>2. i + 1 \in DOMAIN mailbox /\ IsAnswer(i + 1, k)
        BY <2>1, TailMessages DEF IsAnswer
    <2>3. k \in cached
        BY <2>2 DEF ResponsesExpected, AnswerExpected, updates_in_progress
    <2>4. last_updated'[k] = last_updated[k]
        BY <2>1, <2>3 DEF TypeOK
    <2> QED
        BY <2>1, <2>4, TailUnderway
<1>8. CASE SubscribeOccupied \/ unsubscribe
    <2>1. mailbox # <<>> /\ mailbox' = Tail(mailbox) /\ UNCHANGED last_updated
        BY <1>8 DEF SubscribeOccupied, unsubscribe, NextIs, cacheVars
    <2> QED
        BY <2>1, TailUnderway
<1>9. CASE SubscribePanics
    <2>1. DOMAIN mailbox' = {}
        BY <1>9 DEF SubscribePanics
    <2> QED
        BY <2>1
<1>10. [Next]_vars =>
           \/ UNCHANGED <<last_updated, mailbox>>
           \/ \E s \in Subs, j \in Keys, back \in Lookbacks : SendSubscribe(s, j, back)
           \/ \E s \in Subs, j \in Keys : SendUnsubscribe(s, j)
           \/ \E j \in Keys : DbAnswers(j)
           \/ request_updates \/ process_peer_data_response
           \/ SubscribeVacant \/ SubscribeOccupied \/ SubscribePanics \/ unsubscribe
    BY DEF Next, Tick, Store, Connect, Close, Consume, DbFails, DbReturns, purge_expired,
           cacheVars, vars
<1> QED
    BY <1>1, <1>2, <1>3, <1>4, <1>5, <1>6, <1>7, <1>8, <1>9, <1>10

-----------------------------------------------------------------------------
(* Steps, from the side of an entry and of the table                       *)

\* An entry is left as it is,
Left(k) ==
    /\ deque'[k] = deque[k]
    /\ last_updated'[k] = last_updated[k]
    /\ k \in cached' => k \in cached

\* ... dropped,
Evicted(k) == k \notin cached' /\ deque'[k] = <<>>

\* ... purged,
PurgedAt(k) ==
    /\ deque'[k] = Purged(deque[k], now - CACHE_EXPIRY_S)
    /\ last_updated'[k] = last_updated[k]
    /\ k \in cached' => k \in cached
    /\ UNCHANGED <<now, table>>

\* ... made, to poll from the beginning of the history,
Made(k) ==
    /\ k \notin cached
    /\ deque'[k] = <<>>
    /\ last_updated'[k] = now - CACHE_EXPIRY_S
    /\ UNCHANGED <<now, table>>

\* ... or extended by an answer.
Extended(k) ==
    /\ k \in cached
    /\ deque'[k] # <<>>
    /\ \E i \in DOMAIN mailbox :
           /\ IsAnswer(i, k)
           /\ RowsOf(deque'[k]) = RowsOf(deque[k]) \cup RowsOf(mailbox[i].data)
    /\ last_updated'[k] > last_updated[k]
    /\ UNCHANGED <<now, table>>

LEMMA EntryStep ==
    ASSUME IInv, [Next]_vars, NEW k \in Keys
    PROVE  Left(k) \/ Evicted(k) \/ PurgedAt(k) \/ Made(k) \/ Extended(k)
<1> USE DEF IInv
<1>1. CASE UNCHANGED <<cached, deque, last_updated>>
    BY <1>1 DEF Left
<1>2. CASE request_updates
    <2>1. CASE k \in Retained
        BY <1>2, <2>1 DEF request_updates, Retained, Left
    <2>2. CASE k \notin Retained
        BY <1>2, <2>2 DEF request_updates, Evicted
    <2> QED
        BY <2>1, <2>2
<1>3. CASE purge_expired
    BY <1>3 DEF purge_expired, PurgedAt, envVars
<1>4. CASE process_peer_data_response
    <2>1. PICK j, d, q : AnswerHandled(j, d, q)
        BY <1>4, HeadAnswer
    <2>2. cached' = cached /\ UNCHANGED <<now, table>>
        BY <1>4 DEF process_peer_data_response, envVars
    <2>3. CASE d = <<>>
        BY <1>1, <2>1, <2>2, <2>3 DEF AnswerHandled
    <2>4. CASE d # <<>> /\ j # k
        BY <2>1, <2>2, <2>4 DEF AnswerHandled, Left, TypeOK
    <2>5. CASE d # <<>> /\ j = k
        <3>1. deque'[k] = q /\ last_updated'[k] = q[Len(q)].created_at
            BY <2>1, <2>5 DEF AnswerHandled, TypeOK
        <3>2. /\ k \in cached /\ q # <<>>
              /\ q[Len(q)].created_at > last_updated[k]
              /\ RowsOf(q) = RowsOf(deque[k]) \cup RowsOf(mailbox[1].data)
              /\ 1 \in DOMAIN mailbox /\ IsAnswer(1, k)
            BY <2>1, <2>5 DEF AnswerHandled
        <3> QED
            BY <2>2, <3>1, <3>2 DEF Extended
    <2> QED
        BY <2>3, <2>4, <2>5
<1>5. CASE SubscribeVacant
    <2> DEFINE j == Head(mailbox).key
    <2>1. /\ j \notin cached /\ cached' = cached \cup {j}
          /\ last_updated' = [last_updated EXCEPT ![j] = now - CACHE_EXPIRY_S]
          /\ UNCHANGED <<deque, now, table>>
        BY <1>5 DEF SubscribeVacant, envVars
    <2> HIDE DEF j
    <2>2. CASE j = k
        BY <2>1, <2>2 DEF Made, DequeInv, TypeOK
    <2>3. CASE j # k
        BY <2>1, <2>3 DEF Left, TypeOK
    <2> QED
        BY <2>2, <2>3
<1>6. CASE SubscribePanics
    BY <1>6 DEF SubscribePanics, Evicted
<1>7. [Next]_vars =>
          \/ UNCHANGED <<cached, deque, last_updated>>
          \/ request_updates \/ purge_expired \/ process_peer_data_response
          \/ SubscribeVacant \/ SubscribePanics
    BY DEF Next, Tick, Store, Connect, Close, Consume, SendSubscribe, SendUnsubscribe, Send,
           DbAnswers, DbFails, DbReturns, SubscribeOccupied, unsubscribe, cacheVars, vars
<1> QED
    BY <1>1, <1>2, <1>3, <1>4, <1>5, <1>6, <1>7

\* A row becomes visible under key k, and nothing else happens
Visible(k, r) ==
    /\ r \in Row
    /\ table' = [table EXCEPT ![k] = @ \cup {r}]
    /\ InOrder => \A o \in table[k] : o.created_at < r.created_at
    /\ UNCHANGED <<cacheVars, subVars, dbVars, now, up, mailbox>>

LEMMA EnvironmentStep ==
    ASSUME TypeOK, [Next]_vars
    PROVE  \/ UNCHANGED <<now, table>>
           \/ /\ now' = now + 1
              /\ UNCHANGED <<cacheVars, subVars, dbVars, table, up, mailbox>>
           \/ now' = now /\ \E k \in Keys, r \in Row : Visible(k, r)
<1>1. CASE Tick
    BY <1>1 DEF Tick
<1>2. ASSUME NEW k \in Keys, NEW skew \in Skews, Store(k, now - skew)
      PROVE  now' = now /\ \E r \in Row : Visible(k, r)
    <2>1. [id |-> stored + 1, created_at |-> now - skew] \in Row
        BY ConstAssumption DEF TypeOK, Row
    <2>2. \A o \in table[k] : InOrder => o.created_at < now - skew
        BY <1>2 DEF Store
    <2>3. Visible(k, [id |-> stored + 1, created_at |-> now - skew])
        BY <1>2, <2>1, <2>2 DEF Store, Visible
    <2> QED
        BY <1>2, <2>1, <2>3 DEF Store
<1>3. [Next]_vars =>
          \/ UNCHANGED <<now, table>>
          \/ Tick
          \/ \E k \in Keys, skew \in Skews : Store(k, now - skew)
    BY DEF Next, Connect, Close, Consume, SendSubscribe, SendUnsubscribe, Send, DbAnswers,
           DbFails, DbReturns, request_updates, purge_expired, process_peer_data_response,
           SubscribeVacant, SubscribeOccupied, SubscribePanics, unsubscribe, envVars, vars
<1> QED
    BY <1>1, <1>2, <1>3

\* Time goes on and the table grows.
LEMMA TableGrows ==
    ASSUME TypeOK, [Next]_vars, NEW k \in Keys
    PROVE  /\ now' >= now
           /\ table[k] \subseteq table'[k]
<1>1. now \in Nat
    BY DEF TypeOK
<1>2. CASE UNCHANGED table
    BY <1>1, <1>2, EnvironmentStep
<1>3. ASSUME NEW j \in Keys, NEW r \in Row, Visible(j, r), now' = now
      PROVE  now' >= now /\ table[k] \subseteq table'[k]
    BY <1>1, <1>3 DEF Visible, TypeOK
<1> QED
    BY <1>2, <1>3, EnvironmentStep

-----------------------------------------------------------------------------
(* Nothing is made up                                                      *)

\* What is cached, under way to the cache or was sent under a subscription are
\* rows of the table, under their own key.
FromTable ==
    \A k \in Keys :
        /\ RowsOf(deque[k]) \subseteq table[k]
        /\ \A i \in DOMAIN mailbox :
               IsAnswer(i, k) => RowsOf(mailbox[i].data) \subseteq table[k]
        /\ \A s \in Subs : pushed[s][k] \subseteq table[k]

LEMMA FromTableInit == Init => FromTable
<1> SUFFICES ASSUME Init PROVE FromTable
    OBVIOUS
<1>1. \A k \in Keys : RowsOf(deque[k]) = {} /\ \A s \in Subs : pushed[s][k] = {}
    BY DEF Init, RowsOf
<1>2. DOMAIN mailbox = {}
    BY DEF Init
<1> QED
    BY <1>1, <1>2 DEF FromTable

LEMMA FromTableStep ==
    ASSUME SubInv, FromTable, [Next]_vars
    PROVE  FromTable'
<1> USE DEF SubInv, IInv
<1> SUFFICES ASSUME NEW k \in Keys
             PROVE  /\ RowsOf(deque'[k]) \subseteq table'[k]
                    /\ \A i \in DOMAIN mailbox' :
                           IsAnswer(i, k)' => RowsOf(mailbox'[i].data) \subseteq table'[k]
                    /\ \A s \in Subs : pushed'[s][k] \subseteq table'[k]
    BY DEF FromTable
<1>1. table[k] \subseteq table'[k]
    BY TableGrows
<1>2. RowsOf(deque'[k]) \subseteq table'[k]
    <2>1. CASE Left(k)
        BY <1>1, <2>1 DEF Left, FromTable
    <2>2. CASE deque'[k] = <<>>
        BY <2>2 DEF RowsOf
    <2>3. CASE PurgedAt(k)
        <3>1. deque[k] \in Seq(Row) /\ now - CACHE_EXPIRY_S \in Int
            BY ConstAssumption DEF TypeOK
        <3>2. RowsOf(deque'[k]) \subseteq RowsOf(deque[k])
            BY <2>3, <3>1, PurgedSubset DEF PurgedAt
        <3> QED
            BY <1>1, <3>2 DEF FromTable
    <2>4. CASE Extended(k)
        BY <1>1, <2>4 DEF Extended, FromTable
    <2> QED
        BY <2>1, <2>2, <2>3, <2>4, EntryStep DEF Evicted, Made
<1>3. ASSUME NEW i \in DOMAIN mailbox', IsAnswer(i, k)'
      PROVE  RowsOf(mailbox'[i].data) \subseteq table'[k]
    <2>1. CASE Underway(i, k)
        BY <1>1, <2>1 DEF Underway, FromTable
    <2>2. CASE Arrived(i, k)
        <3>1. table[k] \in SUBSET Row /\ last_updated[k] \in Int
            BY DEF TypeOK
        <3> DEFINE d == mailbox'[i].data
        <3>2. d \in get_logs(table[k], last_updated[k])
            BY <2>2 DEF Arrived
        <3> HIDE DEF d
        <3>3. \A r \in RowsOf(d) : r \in table[k]
            BY <3>1, <3>2, get_logsReturns
        <3> QED
            BY <1>1, <3>3 DEF d
    <2> QED
        BY <1>3, <2>1, <2>2, AnswersComeFrom
<1>4. ASSUME NEW s \in Subs PROVE pushed'[s][k] \subseteq table'[k]
    <2>1. CASE pushed'[s][k] = pushed[s][k] \/ pushed'[s][k] = {}
        BY <1>1, <2>1 DEF FromTable
    <2>2. CASE Served(s, k)
        <3> DEFINE q == deque'[k]
        <3>1. PICK from \in Int : \E n \in SliceStarts(q, from) :
                  pushed'[s][k] = pushed[s][k] \cup RowsOf(Slice(q, n))
            BY <2>2 DEF Served
        <3>2. PICK n \in SliceStarts(q, from) :
                  pushed'[s][k] = pushed[s][k] \cup RowsOf(Slice(q, n))
            BY <3>1
        <3>3. q \in Seq(Row)
            BY TypeStep DEF TypeOK
        <3>4. RowsOf(q) \subseteq table'[k]
            BY <1>2
        <3> HIDE DEF q
        <3>5. RowsOf(Slice(q, n)) \subseteq RowsOf(q)
            BY <3>3, SliceStartsInRange, SliceSubset
        <3> QED
            BY <1>1, <3>2, <3>4, <3>5 DEF FromTable
    <2> QED
        BY <2>1, <2>2, StepServed DEF StepServes, Kept, Ended, Opened
<1> QED
    BY <1>2, <1>3, <1>4

\* The cache and the subscriptions never hold a row that is not stored, nor one
\* of another key: deques grow by answers to their own query, and what is sent
\* is a slice of the deque (process_peer_data_response, update_subscriber).
THEOREM NothingMadeUp == Spec => []FromTable
<1>1. SubInv /\ FromTable /\ [Next]_vars => FromTable'
    BY FromTableStep
<1> QED
    BY <1>1, FromTableInit, SubscriptionsInductive, PTL DEF Spec

-----------------------------------------------------------------------------
(* Where rows become visible in order                                      *)

TableOrdered ==
    \A k \in Keys : \A a, b \in table[k] : a.created_at = b.created_at => a = b

\* An answer under way has all rows from where its entry polls up to its last
AnswersGapless ==
    \A k \in Keys : \A i \in DOMAIN mailbox : IsAnswer(i, k) =>
        \A d \in RowsOf(mailbox[i].data), r \in table[k] :
            r.created_at > last_updated[k] /\ r.created_at <= d.created_at
            => r \in RowsOf(mailbox[i].data)

\* An entry that holds nothing polls from the beginning of the history, or
\* from before
StartsAtHistory ==
    \A k \in cached : deque[k] = <<>> => last_updated[k] <= now - CACHE_EXPIRY_S

\* The update time of a subscription under which rows were sent is that of a row
PositionIsRow ==
    \A s \in Subs, k \in Keys :
        pushed[s][k] # {} => \E r \in table[k] : update_time[s][k] = r.created_at

\* HistoryCached alone is not inductive: an answer may be cut short by the
\* limit of the query, and nothing but AnswersGapless says that it has all rows
\* up to its last; and a row that becomes visible may be no younger than the
\* time an empty entry polls from, but is too old then.
HistoryInv == TableOrdered /\ AnswersGapless /\ StartsAtHistory /\ HistoryCached
GapsInv == PositionIsRow /\ PushedGapless

LEMMA RecentIs ==
    ASSUME TypeOK, NEW r \in Row
    PROVE  Recent(r) <=> r.created_at >= now - CACHE_EXPIRY_S + MILLI
<1>1. now - CACHE_EXPIRY_S \in Int
    BY ConstAssumption DEF TypeOK
<1> QED
    BY <1>1, FreshIs DEF Recent

\* What is recent after a step was so before
LEMMA RecentBefore ==
    ASSUME TypeOK, [Next]_vars, NEW r \in Row, Recent(r)'
    PROVE  Recent(r)
<1>1. TypeOK' /\ now' >= now
    <2>1. TypeOK' /\ now \in Nat
        BY TypeStep DEF TypeOK
    <2>2. now' = now \/ now' = now + 1
        BY EnvironmentStep
    <2> QED
        BY <2>1, <2>2
<1>2. /\ now \in Int /\ now' \in Int /\ CACHE_EXPIRY_S \in Int /\ MILLI \in Int
      /\ r.created_at \in Int
    BY <1>1, ConstAssumption, MilliAssumption DEF TypeOK, Row
<1>3. r.created_at >= now' - CACHE_EXPIRY_S + MILLI
    <2>1. Fresh(r, now' - CACHE_EXPIRY_S)
        BY DEF Recent
    <2>2. now' - CACHE_EXPIRY_S \in Int
        BY <1>2
    <2> QED
        BY <2>1, <2>2, FreshIs
<1> QED
    BY <1>1, <1>2, <1>3, RecentIs

LEMMA TableOrderedStep ==
    ASSUME InOrder, SubInv, TableOrdered, [Next]_vars
    PROVE  TableOrdered'
<1> USE DEF SubInv, IInv
<1>1. CASE UNCHANGED table
    BY <1>1 DEF TableOrdered
<1>2. ASSUME NEW j \in Keys, NEW new \in Row, Visible(j, new)
      PROVE  TableOrdered'
    <2> SUFFICES ASSUME NEW k \in Keys, NEW a \in table'[k], NEW b \in table'[k],
                        a.created_at = b.created_at
                 PROVE  a = b
        BY DEF TableOrdered
    <2>1. CASE j # k
        BY <1>2, <2>1 DEF Visible, TableOrdered, TypeOK
    <2>2. CASE j = k
        <3>1. table'[k] = table[k] \cup {new} /\ \A o \in table[k] : o.created_at < new.created_at
            BY <1>2, <2>2 DEF Visible, TypeOK
        <3>2. \A o \in table[k] : o.created_at \in Int
            BY DEF TypeOK, Row
        <3>3. new.created_at \in Int
            BY DEF Row
        <3> QED
            BY <3>1, <3>2, <3>3 DEF TableOrdered
    <2> QED
        BY <2>1, <2>2
<1> QED
    BY <1>1, <1>2, EnvironmentStep

LEMMA AnswersGaplessStep ==
    ASSUME InOrder, SubInv, FromTable, TableOrdered, AnswersGapless, [Next]_vars
    PROVE  AnswersGapless'
<1> USE DEF SubInv, IInv
<1> SUFFICES ASSUME NEW k \in Keys, NEW i \in DOMAIN mailbox', IsAnswer(i, k)',
                    NEW d \in RowsOf(mailbox'[i].data), NEW r \in table'[k],
                    r.created_at > last_updated'[k], r.created_at <= d.created_at
             PROVE  r \in RowsOf(mailbox'[i].data)
    BY DEF AnswersGapless
<1>1. CASE Underway(i, k)
    <2>1. PICK j \in DOMAIN mailbox : IsAnswer(j, k) /\ mailbox[j].data = mailbox'[i].data
        BY <1>1 DEF Underway
    <2>2. d \in table[k] /\ d \in RowsOf(mailbox[j].data)
        BY <2>1 DEF FromTable
    <2>3. CASE r \in table[k]
        BY <1>1, <2>1, <2>2, <2>3 DEF Underway, AnswersGapless
    <2>4. CASE r \notin table[k]
        <3>1. PICK h \in Keys, new \in Row : Visible(h, new)
            BY <2>4, EnvironmentStep
        <3>2. r = new /\ \A o \in table[k] : o.created_at < new.created_at
            BY <2>4, <3>1 DEF Visible, TypeOK
        <3>3. d.created_at < r.created_at
            BY <2>2, <3>2
        <3>4. d.created_at \in Int /\ r.created_at \in Int
            BY <2>2, <3>2 DEF TypeOK, Row
        <3> QED
            BY <3>3, <3>4
    <2> QED
        BY <2>3, <2>4
<1>2. CASE Arrived(i, k)
    <2> DEFINE q == mailbox'[i].data
    <2>1. /\ q \in get_logs(table[k], last_updated[k])
          /\ table' = table /\ last_updated' = last_updated
        BY <1>2 DEF Arrived
    <2>2. table[k] \in SUBSET Row /\ last_updated[k] \in Int
        BY DEF TypeOK
    <2> HIDE DEF q
    <2>3. d \in table[k] /\ r \in table[k]
        BY <2>1, <2>2, get_logsReturns DEF q
    <2>4. d.created_at \in Int /\ r.created_at \in Int
        BY <2>2, <2>3 DEF Row
    <2>5. r \in Matching(table[k], last_updated[k])
        BY <2>1, <2>3 DEF Matching
    <2>6. PICK n \in 0..RECORD_LIMIT :
              /\ q \in [1..n -> Matching(table[k], last_updated[k])]
              /\ \A x \in Matching(table[k], last_updated[k]) \ RowsOf(q) :
                     \A e \in 1..n : q[e].created_at <= x.created_at
        BY <2>1 DEF get_logs
    <2>7. ASSUME r \notin RowsOf(q) PROVE FALSE
        <3>1. PICK e \in 1..n : d = q[e]
            BY <2>6 DEF RowsOf, q
        <3>2. d.created_at <= r.created_at
            BY <2>5, <2>6, <2>7, <3>1
        <3>3. d = r
            BY <2>3, <2>4, <3>2 DEF TableOrdered
        <3> QED
            BY <2>7, <3>3 DEF q
    <2> QED
        BY <2>7 DEF q
<1> QED
    BY <1>1, <1>2, AnswersComeFrom

LEMMA StartsAtHistoryStep ==
    ASSUME SubInv, StartsAtHistory, [Next]_vars
    PROVE  StartsAtHistory'
<1> USE DEF SubInv, IInv
<1> SUFFICES ASSUME NEW k \in cached', deque'[k] = <<>>
             PROVE  last_updated'[k] <= now' - CACHE_EXPIRY_S
    BY DEF StartsAtHistory
<1>1. TypeOK' /\ k \in Keys
    BY TypeStep DEF TypeOK
<1>2. now \in Nat /\ now' \in Nat /\ now' >= now /\ CACHE_EXPIRY_S \in Int /\ last_updated[k] \in Int
    BY <1>1, TableGrows, ConstAssumption DEF TypeOK
<1>3. CASE Left(k)
    BY <1>2, <1>3 DEF Left, StartsAtHistory
<1>4. CASE PurgedAt(k)
    <2>1. deque[k] = <<>>
        BY <1>1, <1>2, <1>4, PurgedKeeps DEF PurgedAt, TypeOK
    <2> QED
        BY <1>2, <1>4, <2>1 DEF PurgedAt, StartsAtHistory
<1>5. CASE Made(k)
    BY <1>2, <1>5 DEF Made
<1> QED
    BY <1>1, <1>3, <1>4, <1>5, EntryStep DEF Evicted, Extended

\* The row an entry polls from is in the table
LEMMA PollsFromRow ==
    ASSUME IInv, FromTable, NEW k \in Keys, deque[k] # <<>>
    PROVE  /\ \E r \in table[k] : r \in RowsOf(deque[k]) /\ last_updated[k] = r.created_at
           /\ \A r \in RowsOf(deque[k]) : r.created_at <= last_updated[k]
<1>1. deque[k] \in Seq(Row) /\ Chronological(deque[k])
    BY DEF IInv, TypeOK, DequeInv
<1>2. last_updated[k] = deque[k][Len(deque[k])].created_at
    BY DEF IInv, DequeInv
<1> QED
    BY <1>1, <1>2, LastRow DEF FromTable

LEMMA HistoryCachedStep ==
    ASSUME InOrder, SubInv, FromTable, HistoryInv, [Next]_vars
    PROVE  HistoryCached'
<1> USE DEF SubInv, IInv, HistoryInv
<1> SUFFICES ASSUME NEW k \in cached', NEW r \in table'[k], Recent(r)',
                    r.created_at <= last_updated'[k]
             PROVE  r \in RowsOf(deque'[k])
    BY DEF HistoryCached
<1>1. TypeOK' /\ IInv' /\ FromTable' /\ k \in Keys
    BY TypeStep, IInvStep, FromTableStep DEF TypeOK
<1>2. r \in Row /\ r.created_at \in Int /\ last_updated[k] \in Int
    BY <1>1 DEF TypeOK, Row
<1>3. Recent(r) /\ r.created_at >= now - CACHE_EXPIRY_S + MILLI
    BY <1>2, RecentBefore, RecentIs
<1>4. now \in Int /\ CACHE_EXPIRY_S \in Int /\ MILLI \in Nat \ {0}
    BY ConstAssumption, MilliAssumption DEF TypeOK
<1>5. CASE Left(k)
    <2>1. CASE r \in table[k]
        BY <1>3, <1>5, <2>1 DEF Left, HistoryCached
    <2>2. CASE r \notin table[k]
        <3>1. PICK h \in Keys, new \in Row : Visible(h, new)
            BY <2>2, EnvironmentStep
        <3>2. \A o \in table[k] : o.created_at < r.created_at
            BY <2>2, <3>1 DEF Visible, TypeOK
        <3>3. r.created_at <= last_updated[k]
            BY <1>5 DEF Left
        <3>4. CASE deque[k] # <<>>
            <4>1. PICK o \in table[k] : last_updated[k] = o.created_at
                BY <1>1, <3>4, PollsFromRow
            <4> QED
                BY <1>2, <3>2, <3>3, <4>1
        <3>5. CASE deque[k] = <<>>
            <4>1. last_updated[k] <= now - CACHE_EXPIRY_S
                BY <1>5, <3>5 DEF Left, StartsAtHistory
            <4> QED
                BY <1>2, <1>3, <1>4, <3>3, <4>1
        <3> QED
            BY <3>4, <3>5
    <2> QED
        BY <2>1, <2>2
<1>6. CASE PurgedAt(k)
    <2>1. r \in RowsOf(deque[k])
        BY <1>3, <1>6 DEF PurgedAt, HistoryCached
    <2>2. deque[k] \in Seq(Row) /\ now - CACHE_EXPIRY_S \in Int
        BY <1>1, <1>4 DEF TypeOK
    <2> QED
        BY <1>3, <1>6, <2>1, <2>2, PurgedKeepsFresh DEF PurgedAt, Recent
<1>7. CASE Made(k)
    <2>1. r.created_at <= now - CACHE_EXPIRY_S
        BY <1>7 DEF Made
    <2> QED
        BY <1>2, <1>3, <1>4, <2>1
<1>8. CASE Extended(k)
    <2>1. PICK i \in DOMAIN mailbox :
              /\ IsAnswer(i, k)
              /\ RowsOf(deque'[k]) = RowsOf(deque[k]) \cup RowsOf(mailbox[i].data)
        BY <1>8 DEF Extended
    <2>2. r \in table[k] /\ k \in cached /\ last_updated'[k] > last_updated[k] /\ deque'[k] # <<>>
        BY <1>8 DEF Extended
    <2>3. CASE r.created_at <= last_updated[k]
        BY <1>3, <2>1, <2>2, <2>3 DEF HistoryCached
    <2>4. CASE r.created_at > last_updated[k]
        <3>1. PICK d \in RowsOf(deque'[k]) : last_updated'[k] = d.created_at
            <4>1. /\ deque'[k] \in Seq(Row) /\ Chronological(deque'[k])
                  /\ last_updated'[k] = deque'[k][Len(deque'[k])].created_at
                BY <1>1, <2>2 DEF TypeOK, DequeInv
            <4> QED
                BY <2>2, <4>1, LastRow
        <3>2. d \notin RowsOf(deque[k])
            <4> SUFFICES ASSUME d \in RowsOf(deque[k]) PROVE FALSE
                OBVIOUS
            <4>1. deque[k] # <<>>
                BY DEF RowsOf
            <4>2. d.created_at <= last_updated[k]
                BY <1>1, <4>1, PollsFromRow
            <4>3. last_updated'[k] \in Int
                BY <1>1 DEF TypeOK
            <4> QED
                BY <1>2, <2>2, <3>1, <4>2, <4>3
        <3>3. d \in RowsOf(mailbox[i].data)
            BY <2>1, <3>1, <3>2
        <3>4. r \in RowsOf(mailbox[i].data)
            BY <1>1, <2>1, <2>2, <2>4, <3>1, <3>3 DEF AnswersGapless
        <3> QED
            BY <2>1, <3>4
    <2> QED
        BY <1>2, <2>3, <2>4
<1> QED
    BY <1>1, <1>5, <1>6, <1>7, <1>8, EntryStep DEF Evicted

LEMMA PositionIsRowStep ==
    ASSUME SubInv, FromTable, PositionIsRow, [Next]_vars
    PROVE  PositionIsRow'
<1> USE DEF SubInv, IInv
<1> SUFFICES ASSUME NEW s \in Subs, NEW k \in Keys, pushed'[s][k] # {}
             PROVE  \E r \in table'[k] : update_time'[s][k] = r.created_at
    BY DEF PositionIsRow
<1>1. IInv' /\ FromTable'
    BY TypeStep, IInvStep, FromTableStep
<1>2. CASE Kept(s, k)
    <2>1. PICK r \in table[k] : update_time[s][k] = r.created_at
        BY <1>2 DEF Kept, PositionIsRow
    <2> QED
        BY <1>2, <2>1, TableGrows DEF Kept
<1>3. CASE Served(s, k)
    <2>1. deque'[k] # <<>> /\ update_time'[s][k] = last_updated'[k]
        BY <1>3 DEF Served
    <2>2. /\ deque'[k] \in Seq(Row) /\ Chronological(deque'[k])
          /\ last_updated'[k] = deque'[k][Len(deque'[k])].created_at
        BY <1>1, <2>1 DEF TypeOK, DequeInv
    <2>3. RowsOf(deque'[k]) \subseteq table'[k]
        BY <1>1 DEF FromTable
    <2> QED
        BY <2>1, <2>2, <2>3, LastRow
<1> QED
    BY <1>2, <1>3, StepServed DEF StepServes, Ended, Opened

LEMMA PushedGaplessStep ==
    ASSUME InOrder, SubInv, FromTable, HistoryInv, GapsInv, [Next]_vars
    PROVE  PushedGapless'
<1> USE DEF SubInv, IInv, GapsInv
<1> SUFFICES ASSUME NEW s \in Subs, NEW k \in Keys,
                    NEW p \in pushed'[s][k], NEW r \in table'[k], Recent(r)',
                    p.created_at < r.created_at, r.created_at <= update_time'[s][k]
             PROVE  r \in pushed'[s][k]
    BY DEF PushedGapless
<1>1. IInv' /\ HistoryCached' /\ r \in Row /\ r.created_at \in Int
    <2>1. IInv' /\ HistoryCached'
        BY TypeStep, IInvStep, HistoryCachedStep
    <2>2. r \in Row
        BY <2>1 DEF TypeOK
    <2> QED
        BY <2>1, <2>2 DEF Row
<1>2. Recent(r)
    BY <1>1, RecentBefore
<1>3. CASE Kept(s, k)
    <2>1. CASE r \in table[k]
        BY <1>2, <1>3, <2>1 DEF Kept, PushedGapless
    <2>2. CASE r \notin table[k]
        <3>1. PICK h \in Keys, new \in Row : Visible(h, new)
            BY <2>2, EnvironmentStep
        <3>2. \A o \in table[k] : o.created_at < r.created_at
            BY <2>2, <3>1 DEF Visible, TypeOK
        <3>3. PICK o \in table[k] : update_time'[s][k] = o.created_at
            BY <1>3 DEF Kept, PositionIsRow
        <3>4. o.created_at \in Int
            BY DEF TypeOK, Row
        <3> QED
            BY <1>1, <3>2, <3>3, <3>4
    <2> QED
        BY <2>1, <2>2
<1>4. CASE Served(s, k)
    <2> DEFINE q == deque'[k]
    <2>1. PICK from \in Int : \E n \in SliceStarts(q, from) :
              /\ StartsFrom(s, k, from)
              /\ pushed'[s][k] = pushed[s][k] \cup RowsOf(Slice(q, n))
        BY <1>4 DEF Served
    <2>2. PICK n \in SliceStarts(q, from) :
              /\ StartsFrom(s, k, from)
              /\ pushed'[s][k] = pushed[s][k] \cup RowsOf(Slice(q, n))
        BY <2>1
    <2>3. /\ q \in Seq(Row) /\ Chronological(q)
          /\ r \in table[k]
          /\ update_time'[s][k] = last_updated'[k] /\ k \in cached'
        BY <1>1, <1>4 DEF TypeOK, DequeInv, Served
    <2>4. r \in RowsOf(q)
        BY <1>1, <2>3 DEF HistoryCached
    <2> HIDE DEF q
    <2>5. CASE p \in RowsOf(Slice(q, n))
        <3>1. n \in 1..(Len(q) + 1)
            BY <2>3, SliceStartsInRange
        <3>2. r \in RowsOf(Slice(q, n))
            BY <2>3, <2>4, <2>5, <3>1, SliceHasYounger
        <3> QED
            BY <2>2, <3>2
    <2>6. CASE p \in pushed[s][k]
        <3>1. from = update_time[s][k]
            BY <2>2, <2>6 DEF SubscriptionsInv, StartsFrom
        <3>2. CASE r.created_at <= from
            BY <1>2, <2>2, <2>3, <2>6, <3>1, <3>2 DEF PushedGapless
        <3>3. CASE r.created_at > from
            <4>1. r \in RowsOf(Slice(q, n))
                BY <2>3, <2>4, <3>3, SliceHasYoungerThanTime
            <4> QED
                BY <2>2, <4>1
        <3> QED
            BY <1>1, <3>2, <3>3
    <2> QED
        BY <2>2, <2>5, <2>6
<1> QED
    BY <1>3, <1>4, StepServed DEF StepServes, Ended, Opened

DeliveryInv == FromTable /\ HistoryInv /\ GapsInv

LEMMA DeliveryInvInit == Init => DeliveryInv
<1> SUFFICES ASSUME Init PROVE DeliveryInv
    OBVIOUS
<1>1. FromTable
    BY FromTableInit
<1>2. DOMAIN mailbox = {} /\ cached = {} /\ \A k \in Keys : table[k] = {}
    BY DEF Init
<1>3. HistoryInv
    BY <1>2 DEF HistoryInv, TableOrdered, AnswersGapless, StartsAtHistory, HistoryCached
<1>4. GapsInv
    BY DEF Init, GapsInv, PositionIsRow, PushedGapless
<1> QED
    BY <1>1, <1>3, <1>4 DEF DeliveryInv

LEMMA DeliveryInvStep ==
    ASSUME InOrder, SubInv, DeliveryInv, [Next]_vars
    PROVE  DeliveryInv'
<1>1. FromTable'
    BY FromTableStep DEF DeliveryInv
<1>2. HistoryInv'
    BY TableOrderedStep, AnswersGaplessStep, StartsAtHistoryStep, HistoryCachedStep
       DEF DeliveryInv, HistoryInv
<1>3. GapsInv'
    BY PositionIsRowStep, PushedGaplessStep DEF DeliveryInv, GapsInv
<1> QED
    BY <1>1, <1>2, <1>3 DEF DeliveryInv

LEMMA DeliveryInductive ==
    ASSUME InOrder
    PROVE  Spec => []DeliveryInv
<1>1. SubInv /\ DeliveryInv /\ [Next]_vars => DeliveryInv'
    BY DeliveryInvStep
<1> QED
    BY <1>1, DeliveryInvInit, SubscriptionsInductive, PTL DEF Spec

\* An entry holds all of its recent history up to the row it polls from: no
\* failed poll, cut answer, purge, eviction or late answer leaves a hole in it
\* (process_peer_data_response, purge_expired, request_updates).
THEOREM HistoryWhole ==
    ASSUME InOrder
    PROVE  Spec => []HistoryCached
<1>1. DeliveryInv => HistoryCached
    BY DEF DeliveryInv, HistoryInv
<1> QED
    BY <1>1, DeliveryInductive, PTL

\* A subscriber has no gap in what is recent, after its first row and up to its
\* update time: the slices that update_subscriber sends fit together.
THEOREM NoGaps ==
    ASSUME InOrder
    PROVE  Spec => []PushedGapless
<1>1. DeliveryInv => PushedGapless
    BY DEF DeliveryInv, GapsInv
<1> QED
    BY <1>1, DeliveryInductive, PTL

-----------------------------------------------------------------------------
(* The Cache implements Delivery                                           *)

\* The rows of Complete are those of PushedGapless
LEMMA CompleteIs ==
    ASSUME TypeOK, NEW S \in SUBSET Row, NEW R \in SUBSET Row, NEW upto,
           \A p \in S, r \in R :
               Recent(r) /\ p.created_at < r.created_at /\ r.created_at <= upto => r \in S
    PROVE  Promise!Complete(S, R, upto)
<1> SUFFICES ASSUME NEW p \in S, NEW r \in R,
                    r.created_at > now - CACHE_EXPIRY_S + MILLI - 1,
                    p.created_at < r.created_at, r.created_at <= upto
             PROVE  r \in S
    BY DEF Promise!Complete
<1>1. /\ now \in Int /\ CACHE_EXPIRY_S \in Int /\ MILLI \in Int
      /\ r \in Row /\ r.created_at \in Int
    BY ConstAssumption, MilliAssumption DEF TypeOK, Row
<1>2. Recent(r)
    BY <1>1, RecentIs
<1> QED
    BY <1>2

\* Each subscription is as Delivery has it after a step
LEMMA HoldsStep ==
    ASSUME InOrder, SubInv, DeliveryInv, [Next]_vars, UNCHANGED <<now, table>>,
           NEW s \in Subs, NEW k \in Keys
    PROVE  Promise!Holds(s, k)
<1> USE DEF SubInv, IInv
<1>1. /\ TypeOK' /\ DequeInv' /\ SubscriptionsInv' /\ FromTable' /\ PushedGapless'
      /\ StepServes
    BY TypeStep, IInvStep, SubInvStep, DeliveryInvStep, StepServed DEF DeliveryInv, GapsInv
<1>2. CASE update_time'[s][k] = None
    <2>1. pushed'[s][k] = {}
        BY <1>1, <1>2 DEF SubscriptionsInv
    <2> QED
        BY <1>2, <2>1 DEF Promise!Holds
<1>3. CASE update_time'[s][k] # None
    <2>1. pushed[s][k] \subseteq pushed'[s][k]
        BY <1>1, <1>3 DEF StepServes, Kept, Ended, Opened, Served
    <2>2. pushed'[s][k] \subseteq table[k] /\ table[k] \in SUBSET Row
        BY <1>1 DEF FromTable, TypeOK
    <2>3. ASSUME NEW r \in pushed'[s][k] \ pushed[s][k]
          PROVE  r.created_at <= update_time'[s][k]
        <3>1. Served(s, k)
            BY <1>1, <2>3 DEF StepServes, Kept, Ended, Opened
        <3> DEFINE q == deque'[k]
        <3>2. q \in Seq(Row) /\ Chronological(q) /\ q # <<>> /\ update_time'[s][k] = q[Len(q)].created_at
            BY <1>1, <3>1 DEF TypeOK, DequeInv, Served
        <3>3. PICK from \in Int : \E n \in SliceStarts(q, from) :
                  pushed'[s][k] = pushed[s][k] \cup RowsOf(Slice(q, n))
            BY <3>1 DEF Served
        <3>4. PICK n \in SliceStarts(q, from) :
                  pushed'[s][k] = pushed[s][k] \cup RowsOf(Slice(q, n))
            BY <3>3
        <3> HIDE DEF q
        <3>5. r \in RowsOf(q)
            BY <2>3, <3>2, <3>4, SliceStartsInRange, SliceSubset
        <3> QED
            BY <3>2, <3>5, LastRow
    <2>4. Promise!Complete(pushed'[s][k], table[k], update_time'[s][k])
        <3>1. \A p \in pushed'[s][k], r \in table[k] :
                  /\ Recent(r)
                  /\ p.created_at < r.created_at
                  /\ r.created_at <= update_time'[s][k]
                  => r \in pushed'[s][k]
            BY <1>1 DEF PushedGapless, Recent
        <3>2. pushed'[s][k] \in SUBSET Row
            BY <2>2
        <3> QED
            BY <2>2, <3>1, <3>2, CompleteIs
    <2> QED
        BY <1>3, <2>1, <2>2, <2>3, <2>4 DEF Promise!Holds
<1> QED
    BY <1>2, <1>3

LEMMA DeliveryStep ==
    ASSUME InOrder, SubInv, DeliveryInv, [Next]_vars
    PROVE  [Promise!Next]_(Promise!vars)
<1> USE DEF SubInv, IInv
<1>1. CASE /\ now' = now + 1
           /\ UNCHANGED <<cacheVars, subVars, dbVars, table, up, mailbox>>
    <2>1. now' - CACHE_EXPIRY_S + MILLI - 1 > now - CACHE_EXPIRY_S + MILLI - 1
        <3>1. now \in Int /\ CACHE_EXPIRY_S \in Int /\ MILLI \in Int
            BY ConstAssumption, MilliAssumption DEF TypeOK
        <3> QED
            BY <1>1, <3>1
    <2>2. UNCHANGED <<table, update_time, pushed>>
        BY <1>1 DEF subVars
    <2>3. Promise!Age
        BY <2>1, <2>2 DEF Promise!Age
    <2> QED
        BY <2>3 DEF Promise!Next
<1>2. ASSUME NEW k \in Keys, NEW r \in Row, Visible(k, r), now' = now
      PROVE  Promise!Next
    <2>1. UNCHANGED <<now, update_time, pushed>>
        BY <1>2 DEF Visible, subVars
    <2>2. /\ table' = [table EXCEPT ![k] = @ \cup {r}]
          /\ r \in table'[k]
          /\ \A o \in table[k] : o.created_at < r.created_at
        BY <1>2 DEF Visible, TypeOK
    <2>3. Promise!Appear(k)
        BY <2>1, <2>2 DEF Promise!Appear
    <2> QED
        BY <2>3 DEF Promise!Next
<1>3. CASE UNCHANGED <<now, table>>
    <2>1. TypeOK'
        BY TypeStep
    <2>2. \A s \in Subs, k \in Keys : Promise!Holds(s, k)
        BY <1>3, HoldsStep
    <2>3. [s \in Subs |-> {k \in Keys : update_time'[s][k] # None}] \in [Subs -> SUBSET Keys]
        OBVIOUS
    <2>4. DOMAIN pushed' = Subs /\ \A s \in Subs : DOMAIN pushed'[s] = Keys
        BY <2>1 DEF TypeOK
    <2>5. Promise!Deliver
        BY <1>3, <2>2, <2>3, <2>4 DEF Promise!Deliver
    <2> QED
        BY <2>5 DEF Promise!Next
<1> QED
    BY <1>1, <1>2, <1>3, EnvironmentStep

\* Every step of the Cache is one of Delivery, or leaves what Delivery knows
\* alone: rows appear, time passes, or subscriptions begin, end and are served.
THEOREM CacheDelivers ==
    ASSUME InOrder
    PROVE  Spec => ImplementsDelivery
<1>1. Init => Promise!Init
    <2> SUFFICES ASSUME Init PROVE Promise!Init
        OBVIOUS
    <2>1. now - CACHE_EXPIRY_S + MILLI - 1 \in Int
        BY ConstAssumption, MilliAssumption DEF Init
    <2>2. [s \in Subs |-> {k \in Keys : update_time[s][k] # None}] = [s \in Subs |-> {}]
        BY DEF Init
    <2> QED
        BY <2>1, <2>2 DEF Init, Promise!Init
<1>2. SubInv /\ DeliveryInv /\ [Next]_vars => [Promise!Next]_(Promise!vars)
    BY DeliveryStep
<1> QED
    BY <1>1, <1>2, SubscriptionsInductive, DeliveryInductive, PTL
       DEF Spec, ImplementsDelivery, Promise!Spec
=============================================================================
