--------------------------- MODULE AgreementProofs ---------------------------
(***************************************************************************)
(* Proofs that the socket, the Cache and the client agree about a          *)
(* subscription, though its messages are queued, refused, repeated and     *)
(* replaced, and the Cache drops whom it cannot send to; and that a client *)
(* is sent everything recent from the start time that counts.              *)
(***************************************************************************)
EXTENDS FeedProofs, DeliveryProofs

-----------------------------------------------------------------------------
(* What the queued messages come to                                        *)

\* m is about the subscription of s to k
About(m, s, k) == m.type # "data" /\ m.sub = s /\ m.key = k

\* The last word on it in the queue q is of the given type, or the queue is
\* silent and the update time u says so already
Silent(q, s, k) == \A i \in DOMAIN q : ~About(q[i], s, k)
Settles(q, u, s, k, type) ==
    \/ Silent(q, s, k) /\ (u # None <=> type = "subscribe")
    \/ \E i \in DOMAIN q :
           /\ About(q[i], s, k) /\ q[i].type = type
           /\ \A j \in DOMAIN q : j > i => ~About(q[j], s, k)

\* A message is sent to the Cache
LEMMA AppendSettles ==
    ASSUME NEW q \in Seq(Message), NEW m \in Message,
           NEW u, NEW s, NEW k, NEW type,
           IF About(m, s, k) THEN m.type = type ELSE Settles(q, u, s, k, type)
    PROVE  Settles(Append(q, m), u, s, k, type)
<1> DEFINE p == Append(q, m)
           n == Len(q)
<1>1. /\ n \in Nat /\ DOMAIN q = 1..n /\ DOMAIN p = 1..(n + 1)
      /\ p[n + 1] = m
      /\ \A i \in 1..n : p[i] = q[i]
    BY AppendProperties, LenProperties
<1> HIDE DEF p, n
<1>2. CASE About(m, s, k)
    <2>1. /\ n + 1 \in DOMAIN p /\ About(p[n + 1], s, k) /\ p[n + 1].type = type
          /\ \A j \in DOMAIN p : ~(j > n + 1)
        BY <1>1, <1>2
    <2> QED
        BY <2>1 DEF Settles, p
<1>3. CASE ~About(m, s, k) /\ Silent(q, s, k) /\ (u # None <=> type = "subscribe")
    <2>1. Silent(p, s, k)
        BY <1>1, <1>3 DEF Silent
    <2> QED
        BY <1>3, <2>1 DEF Settles, p
<1>4. CASE ~About(m, s, k) /\ \E i \in DOMAIN q :
               /\ About(q[i], s, k) /\ q[i].type = type
               /\ \A j \in DOMAIN q : j > i => ~About(q[j], s, k)
    <2>1. PICK i \in DOMAIN q : /\ About(q[i], s, k) /\ q[i].type = type
                                /\ \A j \in DOMAIN q : j > i => ~About(q[j], s, k)
        BY <1>4
    <2>2. /\ i \in DOMAIN p /\ About(p[i], s, k) /\ p[i].type = type
          /\ \A j \in DOMAIN p : j > i => ~About(p[j], s, k)
        BY <1>1, <1>4, <2>1
    <2> QED
        BY <2>2 DEF Settles, p
<1> QED
    BY <1>2, <1>3, <1>4 DEF Settles

\* The Cache handles the next message, and the update time is v then; it may
\* have dropped the subscriber
LEMMA TailSettles ==
    ASSUME NEW q \in Seq(Message), q # <<>>, NEW u, NEW v, NEW s, NEW k, NEW type,
           Settles(q, u, s, k, type),
           IF About(Head(q), s, k) THEN v # None <=> Head(q).type = "subscribe"
                                   ELSE \/ v # None <=> u # None
                                        \/ v = None /\ type = "unsubscribe"
    PROVE  Settles(Tail(q), v, s, k, type)
<1> DEFINE p == Tail(q)
           n == Len(q)
<1>1. /\ n \in Nat \ {0} /\ DOMAIN q = 1..n /\ DOMAIN p = 1..(n - 1)
      /\ Head(q) = q[1]
      /\ \A i \in 1..(n - 1) : p[i] = q[i + 1]
    BY HeadTailProperties, EmptySeq, LenProperties
<1> HIDE DEF p, n
<1>2. CASE Silent(q, s, k) /\ (u # None <=> type = "subscribe")
    <2>1. Silent(p, s, k) /\ ~About(Head(q), s, k)
        BY <1>1, <1>2 DEF Silent
    <2> QED
        BY <1>2, <2>1 DEF Settles, p
<1>3. CASE \E i \in DOMAIN q :
               /\ About(q[i], s, k) /\ q[i].type = type
               /\ \A j \in DOMAIN q : j > i => ~About(q[j], s, k)
    <2>1. PICK i \in DOMAIN q : /\ About(q[i], s, k) /\ q[i].type = type
                                /\ \A j \in DOMAIN q : j > i => ~About(q[j], s, k)
        BY <1>3
    <2>2. CASE i = 1
        <3>1. Silent(p, s, k)
            BY <1>1, <2>1, <2>2 DEF Silent
        <3>2. v # None <=> type = "subscribe"
            BY <1>1, <2>1, <2>2
        <3> QED
            BY <3>1, <3>2 DEF Settles, p
    <2>3. CASE i # 1
        <3> DEFINE h == i - 1
        <3>1. /\ h \in DOMAIN p /\ p[h] = q[i]
              /\ \A j \in DOMAIN p : j + 1 \in DOMAIN q /\ p[j] = q[j + 1] /\ (j > h => j + 1 > i)
            BY <1>1, <2>1, <2>3
        <3>2. About(p[h], s, k) /\ p[h].type = type
            BY <2>1, <3>1
        <3>3. \A j \in DOMAIN p : j > h => ~About(p[j], s, k)
            BY <2>1, <3>1
        <3> HIDE DEF h
        <3> QED
            BY <3>1, <3>2, <3>3 DEF Settles, p
    <2> QED
        BY <2>2, <2>3
<1> QED
    BY <1>2, <1>3 DEF Settles

-----------------------------------------------------------------------------
(* Agreement                                                               *)

\* The Cache takes its next message, and what it does to the subscription of s
\* to k is what the message says
Turn(s, k) ==
    /\ mailbox # <<>> /\ mailbox' = Tail(mailbox)
    /\ IF About(Head(mailbox), s, k)
       THEN update_time'[s][k] # None <=> Head(mailbox).type = "subscribe"
       ELSE update_time'[s][k] # None <=> update_time[s][k] # None

\* ... or it drops the subscriber, to which it cannot send
Drops(s, k) == update_time[s][k] # None /\ update_time'[s][k] = None

LEMMA SendDataTurns ==
    ASSUME TypeOK, process_peer_data_response, NEW s \in Subs, NEW k \in Keys
    PROVE  Turn(s, k) \/ Drops(s, k)
<1>1. /\ mailbox # <<>> /\ mailbox' = Tail(mailbox)
      /\ Head(mailbox).type = "data" /\ Head(mailbox).key \in Keys
    BY HeadMessage DEF process_peer_data_response, NextIs
<1>2. ~About(Head(mailbox), s, k)
    BY <1>1 DEF About
<1>3. update_time[s][k] = None => update_time'[s][k] = None
    <2> DEFINE h == Head(mailbox).key
               q == deque[h] \o Head(mailbox).data
    <2>1. CASE UNCHANGED subVars
        BY <2>1 DEF subVars
    <2>2. CASE send_updates(h, q, q[Len(q)].created_at)
        <3>1. /\ update_time'[s] =
                     IF s \in Dead(h) THEN [j \in Keys |-> None]
                     ELSE IF s \in Reached(h) THEN [update_time[s] EXCEPT ![h] = q[Len(q)].created_at]
                     ELSE update_time[s]
              /\ update_time[s] \in [Keys -> Int \cup {None}]
            BY <2>2 DEF send_updates, TypeOK
        <3>2. s \in Reached(h) => update_time[s][h] # None
            BY DEF Reached, Subscribed
        <3> HIDE DEF h, q
        <3> QED
            BY <3>1, <3>2
    <2> QED
        BY <2>1, <2>2 DEF process_peer_data_response
<1> QED
    BY <1>1, <1>2, <1>3 DEF Turn, Drops

LEMMA SubscriptionTurns ==
    ASSUME TypeOK, subscribe \/ unsubscribe, up', NEW s \in Subs, NEW k \in Keys
    PROVE  Turn(s, k)
<1> DEFINE m == Head(mailbox)
<1>1. CASE SubscribeVacant \/ SubscribeOccupied
    <2>1. /\ mailbox # <<>> /\ mailbox' = Tail(mailbox)
          /\ m.type = "subscribe" /\ m.sub \in Subs /\ m.key \in Keys /\ m.start \in Int
        BY <1>1, HeadMessage DEF SubscribeVacant, SubscribeOccupied, NextIs
    <2>2. \E v \in Int : update_time' = [update_time EXCEPT ![m.sub][m.key] = v]
        <3>1. StartFrom(m.sub, m.key, m.start) \in Int /\ last_updated[m.key] \in Int
            BY <2>1 DEF StartFrom, TypeOK
        <3> QED
            BY <1>1, <3>1 DEF SubscribeVacant, SubscribeOccupied
    <2>3. PICK v \in Int : update_time' = [update_time EXCEPT ![m.sub][m.key] = v]
        BY <2>2
    <2> HIDE DEF m
    <2>4. CASE About(m, s, k)
        BY <2>1, <2>3, <2>4, NoneAssumption DEF About, Turn, TypeOK, m
    <2>5. CASE ~About(m, s, k)
        <3>1. update_time'[s][k] = update_time[s][k]
            BY <2>1, <2>3, <2>5 DEF About, TypeOK
        <3> QED
            BY <2>1, <2>5, <3>1 DEF Turn, m
    <2> QED
        BY <2>4, <2>5
<1>2. CASE unsubscribe
    <2>1. /\ mailbox # <<>> /\ mailbox' = Tail(mailbox)
          /\ m.type = "unsubscribe" /\ m.sub \in Subs /\ m.key \in Keys
          /\ update_time' = [update_time EXCEPT ![m.sub][m.key] = None]
        BY <1>2, HeadMessage DEF unsubscribe, NextIs
    <2> HIDE DEF m
    <2>2. CASE About(m, s, k)
        BY <2>1, <2>2 DEF About, Turn, TypeOK, m
    <2>3. CASE ~About(m, s, k)
        <3>1. update_time'[s][k] = update_time[s][k]
            BY <2>1, <2>3 DEF About, TypeOK
        <3> QED
            BY <2>1, <2>3, <3>1 DEF Turn, m
    <2> QED
        BY <2>2, <2>3
<1> QED
    BY <1>1, <1>2 DEF subscribe, SubscribePanics

\* Once all that is queued is handled, s will be subscribed to k; or will not
Subscribes(s, k) == Settles(mailbox, update_time[s][k], s, k, "subscribe")
Unsubscribes(s, k) == Settles(mailbox, update_time[s][k], s, k, "unsubscribe")

LEMMA TurnSettles ==
    ASSUME TypeOK, NEW s \in Subs, NEW k \in Keys, Turn(s, k)
    PROVE  /\ Subscribes(s, k) => Subscribes(s, k)'
           /\ Unsubscribes(s, k) => Unsubscribes(s, k)'
<1>1. mailbox \in Seq(Message)
    BY DEF TypeOK
<1>2. ASSUME NEW type, Settles(mailbox, update_time[s][k], s, k, type)
      PROVE  Settles(Tail(mailbox), update_time'[s][k], s, k, type)
    BY <1>1, <1>2, TailSettles DEF Turn
<1> QED
    BY <1>2 DEF Turn, Subscribes, Unsubscribes

\* AgreeWhenQuiet is about an empty queue; a step empties it, so what matters is
\* what the queue comes to.
Agrees(s, k) ==
    /\ asked[s][k].mode \in {"raw", "aggregate"} => Subscribes(s, k)
    /\ asked[s][k].mode = "nothing" => Unsubscribes(s, k)
    /\ asked[s][k].mode = "aggregate" => remainder[s][k] # "none"
    /\ asked[s][k].mode = "nothing" => remainder[s][k] = "none"
ClosedAsksNothing ==
    \A s \in Subs \ open, k \in Keys : asked[s][k] = Nothing /\ remainder[s][k] = "none"
AgreeInv ==
    /\ up => \A s \in open, k \in Keys : Agrees(s, k)
    /\ ClosedAsksNothing

\* What the messages of other subscriptions leave alone
Alone(s, k) ==
    /\ asked'[s][k] = asked[s][k]
    /\ update_time'[s][k] = update_time[s][k]
    /\ \/ mailbox' = mailbox
       \/ \E m \in Message : ~About(m, s, k) /\ mailbox' = Append(mailbox, m)

LEMMA AloneSettles ==
    ASSUME TypeOK, NEW s \in Subs, NEW k \in Keys, Alone(s, k)
    PROVE  /\ Subscribes(s, k) => Subscribes(s, k)'
           /\ Unsubscribes(s, k) => Unsubscribes(s, k)'
<1>1. mailbox \in Seq(Message)
    BY DEF TypeOK
<1>2. ASSUME NEW type, Settles(mailbox, update_time[s][k], s, k, type)
      PROVE  Settles(mailbox', update_time'[s][k], s, k, type)
    BY <1>1, <1>2, AppendSettles DEF Alone
<1> QED
    BY <1>2 DEF Subscribes, Unsubscribes

LEMMA AloneAgrees ==
    ASSUME TypeOK, NEW s \in Subs, NEW k \in Keys, Alone(s, k), Agrees(s, k),
           remainder'[s][k] = "none" <=> remainder[s][k] = "none"
    PROVE  Agrees(s, k)'
<1>1. asked'[s][k] = asked[s][k]
    BY DEF Alone
<1> QED
    BY <1>1, AloneSettles DEF Agrees

\* A socket asks the Cache for something, in one message
Says(s, k, m) ==
    /\ Send(s, m) /\ About(m, s, k) /\ m \in Message
    /\ s \in Subs /\ k \in Keys /\ s \in open
    /\ asked' \in [Subs -> [Keys -> Request]]
    /\ remainder' \in [Subs -> [Keys -> {"none", "empty", "filled"}]]
    /\ \A t \in Subs, j \in Keys : t # s \/ j # k =>
           asked'[t][j] = asked[t][j] /\ remainder'[t][j] = remainder[t][j]
LEMMA SaysElsewhere ==
    ASSUME TypeOK, NEW s, NEW k, NEW m, Says(s, k, m),
           NEW t \in Subs, NEW j \in Keys, t # s \/ j # k
    PROVE  Alone(t, j) /\ remainder'[t][j] = remainder[t][j]
<1>1. ~About(m, t, j)
    BY DEF Says, About
<1> QED
    BY <1>1 DEF Says, Alone, Send, subVars

\* It is accepted, and what the client believes is what it says; or it is
\* refused, and the client believes what it did, or is unsure
LEMMA SaysAgrees ==
    ASSUME TypeOK, AgreeInv, NEW s, NEW k, NEW m, Says(s, k, m),
           IF Accepted
           THEN \/ asked'[s][k].mode = "unsure"
                \/ /\ m.type = "subscribe"
                   /\ \/ asked'[s][k].mode = "raw"
                      \/ asked'[s][k].mode = "aggregate" /\ remainder'[s][k] # "none"
                \/ m.type = "unsubscribe" /\ asked'[s][k].mode = "nothing" /\ remainder'[s][k] = "none"
           ELSE \/ asked'[s][k].mode = "unsure"
                \/ asked'[s][k] = asked[s][k] /\ remainder'[s][k] = remainder[s][k]
    PROVE  AgreeInv'
<1>1. UNCHANGED <<open, up, update_time>> /\ mailbox \in Seq(Message) /\ s \in Subs /\ k \in Keys
    BY DEF Says, Send, envVars, subVars, TypeOK
<1>2. ASSUME up, NEW t \in open, NEW j \in Keys, Agrees(t, j)
      PROVE  Agrees(t, j)'
    <2>0. t \in Subs
        BY DEF TypeOK
    <2>1. CASE t # s \/ j # k
        BY <1>2, <2>0, <2>1, SaysElsewhere, AloneAgrees
    <2>2. CASE t = s /\ j = k /\ Accepted
        <3>1. mailbox' = Append(mailbox, m) /\ About(m, s, k) /\ m \in Message
            BY <2>2 DEF Says, Send, Accepted
        <3>2. Settles(mailbox', update_time'[s][k], s, k, m.type)
            BY <1>1, <3>1, AppendSettles
        <3>3. /\ m.type = "subscribe" => Subscribes(s, k)'
              /\ m.type = "unsubscribe" => Unsubscribes(s, k)'
            BY <3>2 DEF Subscribes, Unsubscribes
        <3> QED
            BY <2>2, <3>3 DEF Agrees
    <2>3. CASE t = s /\ j = k /\ ~Accepted
        <3>1. mailbox' = mailbox
            BY <2>3 DEF Says, Send, Accepted
        <3>2. Subscribes(s, k)' <=> Subscribes(s, k)
            BY <1>1, <3>1 DEF Subscribes
        <3>3. Unsubscribes(s, k)' <=> Unsubscribes(s, k)
            BY <1>1, <3>1 DEF Unsubscribes
        <3> QED
            BY <1>2, <2>3, <3>2, <3>3 DEF Agrees
    <2> QED
        BY <2>1, <2>2, <2>3
<1>3. ClosedAsksNothing'
    BY <1>1 DEF AgreeInv, ClosedAsksNothing, Says
<1> QED
    BY <1>1, <1>2, <1>3 DEF AgreeInv

\* What is not the socket of s leaves what it asked and keeps alone
Aside == UNCHANGED <<asked, remainder, to_send>>

LEMMA TurnAgrees ==
    ASSUME TypeOK, NEW s \in Subs, NEW k \in Keys, Turn(s, k), Agrees(s, k),
           asked'[s][k] = asked[s][k], remainder'[s][k] = remainder[s][k]
    PROVE  Agrees(s, k)'
BY TurnSettles DEF Agrees

\* A new socket has asked for nothing, and the Cache knows nothing of it
LEMMA ConnectAgrees ==
    ASSUME TypeOK, SubscriptionsInv, ClosedAsksNothing, NEW s \in Subs, NEW k \in Keys,
           Connect(s), Aside
    PROVE  Agrees(s, k)'
<1>1. /\ s \notin open /\ s \notin subscribers
      /\ \A i \in DOMAIN mailbox : mailbox[i].type # "data" => mailbox[i].sub # s
      /\ UNCHANGED <<mailbox, update_time>>
    BY DEF Connect, subVars
<1>2. asked'[s][k].mode = "nothing" /\ remainder'[s][k] = "none"
    BY <1>1 DEF Aside, ClosedAsksNothing, Nothing
<1>3. update_time[s][k] = None
    BY <1>1 DEF SubscriptionsInv
<1>4. Silent(mailbox, s, k)
    BY <1>1 DEF Silent, About
<1>5. Unsubscribes(s, k)'
    BY <1>1, <1>3, <1>4 DEF Unsubscribes, Settles
<1> QED
    BY <1>2, <1>5 DEF Agrees

\* A socket that stops has nobody to agree with
LEMMA StopAgrees ==
    ASSUME TypeOK, FeedTypeOK, AgreeInv, NEW s \in Subs, Stop(s)
    PROVE  AgreeInv'
<1>1. /\ open' = open \ {s}
      /\ remainder' = [remainder EXCEPT ![s] = [k \in Keys |-> "none"]]
      /\ asked' = [asked EXCEPT ![s] = [k \in Keys |-> Nothing]]
      /\ UNCHANGED <<up, mailbox, update_time>>
    BY DEF Stop, Close
<1>2. ASSUME up, NEW t \in open', NEW k \in Keys
      PROVE  Agrees(t, k)'
    <2>1. t \in Subs /\ t \in open /\ t # s
        BY <1>1 DEF TypeOK
    <2>2. Alone(t, k) /\ remainder'[t][k] = remainder[t][k]
        BY <1>1, <2>1 DEF Alone, FeedTypeOK
    <2> QED
        BY <1>2, <2>1, <2>2, AloneAgrees DEF AgreeInv
<1>3. ClosedAsksNothing'
    BY <1>1 DEF AgreeInv, ClosedAsksNothing, FeedTypeOK
<1> QED
    BY <1>1, <1>2, <1>3 DEF AgreeInv

\* The actors that are not sockets send the Cache rows only
LEMMA ElsewhereMails ==
    ASSUME TypeOK, Elsewhere
    PROVE  \/ subscribe \/ unsubscribe
           \/ /\ UNCHANGED <<up, update_time>>
              /\ mailbox' = mailbox \/ \E m \in Message : m.type = "data" /\ mailbox' = Append(mailbox, m)
<1>1. ASSUME NEW k \in Keys, DbAnswers(k)
      PROVE  /\ UNCHANGED <<up, update_time>>
             /\ \E m \in Message : m.type = "data" /\ mailbox' = Append(mailbox, m)
    <2>1. UNCHANGED <<up, update_time>>
        BY <1>1 DEF DbAnswers, subVars
    <2>2. PICK rows \in get_logs(table[k], pending[k]) :
              mailbox' = Append(mailbox, [type |-> "data", key |-> k, data |-> rows])
        BY <1>1 DEF DbAnswers
    <2>3. rows \in Seq(Row)
        <3>1. table[k] \in SUBSET Row /\ pending[k] \in Int
            BY <1>1 DEF DbAnswers, TypeOK
        <3> QED
            BY <2>2, <3>1, get_logsReturns
    <2>4. [type |-> "data", key |-> k, data |-> rows] \in Message
        BY <2>3 DEF Message
    <2> QED
        BY <2>1, <2>2, <2>4
<1>2. ASSUME NEW s \in Subs, Connect(s)
      PROVE  UNCHANGED <<up, update_time, mailbox>>
    BY <1>2 DEF Connect, subVars
<1> QED
    BY <1>1, <1>2 DEF Elsewhere, Tick, Store, DbFails, DbReturns, request_updates, purge_expired,
           subVars, envVars

\* The actors that are not sockets
LEMMA ElsewhereAgrees ==
    ASSUME TypeOK, SubscriptionsInv, AgreeInv, Elsewhere
    PROVE  AgreeInv'
<1>1. Aside
    BY DEF Elsewhere, Aside
<1>2. ASSUME NEW s \in Subs, Connect(s)
      PROVE  AgreeInv'
    <2>1. open' = open \cup {s} /\ UNCHANGED <<up, mailbox, update_time>>
        BY <1>2 DEF Connect, subVars
    <2>2. ASSUME up, NEW t \in open', NEW k \in Keys
          PROVE  Agrees(t, k)'
        <3>1. CASE t = s
            BY <1>1, <1>2, <3>1, ConnectAgrees DEF AgreeInv
        <3>2. CASE t # s
            <4>1. t \in Subs /\ Agrees(t, k) /\ Alone(t, k) /\ UNCHANGED remainder
                BY <1>1, <2>1, <2>2, <3>2 DEF AgreeInv, TypeOK, Alone, Aside
            <4> QED
                BY <4>1, AloneAgrees
        <3> QED
            BY <3>1, <3>2
    <2>3. ClosedAsksNothing'
        BY <1>1, <2>1 DEF AgreeInv, ClosedAsksNothing, Aside
    <2> QED
        BY <2>1, <2>2, <2>3 DEF AgreeInv
<1>3. CASE UNCHANGED open
    <2>1. ClosedAsksNothing'
        BY <1>1, <1>3 DEF AgreeInv, ClosedAsksNothing, Aside
    <2>2. ASSUME UNCHANGED <<up, update_time>>,
                 mailbox' = mailbox \/ \E m \in Message : m.type = "data" /\ mailbox' = Append(mailbox, m)
          PROVE  AgreeInv'
        <3>1. ASSUME up, NEW s \in open, NEW k \in Keys
              PROVE  Agrees(s, k)'
            <4>1. s \in Subs /\ Agrees(s, k) /\ Alone(s, k) /\ UNCHANGED remainder
                BY <1>1, <2>2, <3>1 DEF AgreeInv, TypeOK, Alone, Aside, About
            <4> QED
                BY <4>1, AloneAgrees
        <3> QED
            BY <1>3, <2>1, <2>2, <3>1 DEF AgreeInv
    <2>3. ASSUME subscribe \/ unsubscribe
          PROVE  AgreeInv'
        <3>1. ASSUME up', NEW s \in open, NEW k \in Keys
              PROVE  Agrees(s, k)'
            <4>1. s \in Subs /\ Turn(s, k) /\ up
                BY <2>3, <3>1, SubscriptionTurns DEF TypeOK, subscribe, unsubscribe, SubscribeVacant,
                       SubscribeOccupied, SubscribePanics
            <4> QED
                BY <1>1, <3>1, <4>1, TurnAgrees DEF AgreeInv, Aside
        <3> QED
            BY <1>3, <2>1, <3>1 DEF AgreeInv
    <2> QED
        BY <2>2, <2>3, ElsewhereMails
<1>4. UNCHANGED open \/ \E s \in Subs : Connect(s)
    BY DEF Elsewhere, Tick, Store, DbAnswers, DbFails, DbReturns, request_updates, purge_expired,
           subscribe, SubscribeVacant, SubscribeOccupied, SubscribePanics, unsubscribe, envVars
<1> QED
    BY <1>2, <1>3, <1>4

\* What the handlers of a socket say
Subscription(s, k, start) == [type |-> "subscribe", sub |-> s, key |-> k, start |-> start]
Unsubscription(s, k) == [type |-> "unsubscribe", sub |-> s, key |-> k]

LEMMA SubscribeSays ==
    ASSUME TypeOK, FeedTypeOK, FeedTypeOK', NEW s \in Subs, NEW k \in Keys, NEW back \in Lookbacks,
           SubscribeRaw(s, k, back) \/ SubscribeAggregate(s, k, back)
    PROVE  Says(s, k, Subscription(s, k, now - back))
<1> DEFINE m == Subscription(s, k, now - back)
<1>1. m \in Message /\ About(m, s, k)
    BY ConstAssumption DEF TypeOK, Message, About, Subscription
<1>2. Send(s, m)
    BY DEF SubscribeRaw, SubscribeAggregate, SendSubscribe, Subscription
<1>3. s \in open
    BY <1>2 DEF Send
<1> HIDE DEF m
<1>4. \A t \in Subs, j \in Keys : t # s \/ j # k =>
          asked'[t][j] = asked[t][j] /\ remainder'[t][j] = remainder[t][j]
    BY DEF SubscribeRaw, SubscribeAggregate, Ask, FeedTypeOK
<1>5. Says(s, k, m)
    BY <1>1, <1>2, <1>3, <1>4 DEF Says, FeedTypeOK
<1> QED
    BY <1>5 DEF m

LEMMA UnsubscribeSays ==
    ASSUME TypeOK, FeedTypeOK, FeedTypeOK', NEW s \in Subs, NEW k \in Keys,
           Unsubscribe(s, k) \/ \E back \in Lookbacks : ReplaceAggregate(s, k, back)
    PROVE  Says(s, k, Unsubscription(s, k))
<1> DEFINE m == Unsubscription(s, k)
<1>1. m \in Message /\ About(m, s, k)
    BY DEF Message, About, Unsubscription
<1>2. Send(s, m)
    BY DEF Unsubscribe, ReplaceAggregate, EndExisting, SendUnsubscribe, Unsubscription
<1>3. s \in open
    BY <1>2 DEF Send
<1> HIDE DEF m
<1>4. \A t \in Subs, j \in Keys : t # s \/ j # k =>
          asked'[t][j] = asked[t][j] /\ remainder'[t][j] = remainder[t][j]
    BY DEF Unsubscribe, ReplaceAggregate, Ask, FeedTypeOK
<1>5. Says(s, k, m)
    BY <1>1, <1>2, <1>3, <1>4 DEF Says, FeedTypeOK
<1> QED
    BY <1>5 DEF m

LEMMA ReplacementSays ==
    ASSUME TypeOK, FeedTypeOK, FeedTypeOK', NEW s \in Subs, SendReplacement(s)
    PROVE  Says(s, to_send[s].key, Subscription(s, to_send[s].key, now - to_send[s].back))
<1> DEFINE k == to_send[s].key
           m == Subscription(s, k, now - to_send[s].back)
<1>0. k \in Keys /\ to_send[s].back \in Lookbacks
    BY DEF SendReplacement, Idle, FeedTypeOK
<1>1. m \in Message /\ About(m, s, k)
    <2>1. now \in Int /\ Lookbacks \subseteq Int
        BY ConstAssumption DEF TypeOK
    <2>2. \A back \in Int : now - back \in Int
        BY <2>1
    <2>3. to_send[s].back \in Int
        BY <1>0, <2>1
    <2>4. now - to_send[s].back \in Int
        BY <2>2, <2>3
    <2> QED
        BY <1>0, <2>4 DEF Message, About, Subscription
<1>2. Send(s, m)
    BY DEF SendReplacement, SendSubscribe, Subscription
<1>3. s \in open
    BY <1>2 DEF Send
<1> HIDE DEF m
<1>4. \A t \in Subs, j \in Keys : t # s \/ j # k =>
          asked'[t][j] = asked[t][j] /\ remainder'[t][j] = remainder[t][j]
    BY DEF SendReplacement, Ask, FeedTypeOK
<1>5. Says(s, k, m)
    BY <1>0, <1>1, <1>2, <1>3, <1>4 DEF Says, FeedTypeOK
<1> QED
    BY <1>5 DEF m

LEMMA AgreeStep ==
    ASSUME TypeOK, SubscriptionsInv, SendInv, FeedTypeOK, AgreeInv, [FeedNext]_feedVars
    PROVE  AgreeInv'
<1>0. FeedTypeOK'
    BY FeedTypeStep
<1>1. ASSUME NEW s \in Subs, NEW k \in Keys, NEW back \in Lookbacks,
             SubscribeRaw(s, k, back) \/ SubscribeAggregate(s, k, back)
      PROVE  AgreeInv'
    <2> DEFINE m == Subscription(s, k, now - back)
    <2>1. Says(s, k, m) /\ m.type = "subscribe"
        BY <1>0, <1>1, SubscribeSays DEF Subscription
    <2> HIDE DEF m
    <2>2. CASE SubscribeRaw(s, k, back)
        <3>1. /\ asked'[s][k] = IF Accepted THEN Asking("raw", asked[s][k], now - back) ELSE asked[s][k]
              /\ remainder'[s][k] = remainder[s][k]
            BY <2>2 DEF SubscribeRaw, Ask, FeedTypeOK
        <3> QED
            BY <2>1, <3>1, SaysAgrees DEF Asking
    <2>3. CASE SubscribeAggregate(s, k, back)
        <3>1. /\ asked'[s][k] = IF Accepted THEN Asking("aggregate", asked[s][k], now - back) ELSE Unsure
              /\ remainder'[s][k] = "empty"
            BY <2>3 DEF SubscribeAggregate, Ask, FeedTypeOK
        <3> QED
            BY <2>1, <3>1, SaysAgrees DEF Asking, Unsure
    <2> QED
        BY <1>1, <2>2, <2>3
<1>2. ASSUME NEW s \in Subs, NEW k \in Keys,
             Unsubscribe(s, k) \/ \E back \in Lookbacks : ReplaceAggregate(s, k, back)
      PROVE  AgreeInv'
    <2> DEFINE m == Unsubscription(s, k)
    <2>1. Says(s, k, m) /\ m.type = "unsubscribe"
        BY <1>0, <1>2, UnsubscribeSays DEF Unsubscription
    <2> HIDE DEF m
    <2>2. CASE Unsubscribe(s, k)
        <3>1. /\ asked'[s][k] = IF Accepted THEN Nothing ELSE Unsure
              /\ remainder'[s][k] = "none"
            BY <2>2 DEF Unsubscribe, Ask, FeedTypeOK
        <3> QED
            BY <2>1, <3>1, SaysAgrees DEF Nothing, Unsure
    <2>3. CASE \E back \in Lookbacks : ReplaceAggregate(s, k, back)
        <3>1. asked'[s][k] = Unsure
            BY <2>3 DEF ReplaceAggregate, FeedTypeOK
        <3> QED
            BY <2>1, <3>1, SaysAgrees DEF Unsure
    <2> QED
        BY <1>2, <2>2, <2>3
<1>3. ASSUME NEW s \in Subs, SendReplacement(s)
      PROVE  AgreeInv'
    <2> DEFINE k == to_send[s].key
               m == Subscription(s, k, now - to_send[s].back)
    <2>0. k \in Keys /\ remainder[s][k] = "empty"
        BY <1>3 DEF SendReplacement, Idle, FeedTypeOK
    <2>1. Says(s, k, m) /\ m.type = "subscribe"
        BY <1>0, <1>3, ReplacementSays DEF Subscription
    <2>2. /\ asked'[s][k] = IF Accepted THEN Asking("aggregate", Nothing, now - to_send[s].back)
                            ELSE Unsure
          /\ remainder'[s][k] = "empty"
        BY <1>3, <2>0 DEF SendReplacement, Ask, FeedTypeOK
    <2> HIDE DEF m, k
    <2> QED
        BY <2>1, <2>2, SaysAgrees DEF Asking, Unsure
<1>4. ASSUME NEW s \in Subs, HandleArray(s)
      PROVE  AgreeInv'
    <2> DEFINE h == Head(inbox[s]).key
    <2>1. /\ UNCHANGED <<asked, open, up, mailbox, update_time>>
          /\ remainder' = [remainder EXCEPT ![s][h] = IF @ = "none" THEN "none" ELSE "filled"]
        BY <1>4 DEF HandleArray, Consume, envVars
    <2> HIDE DEF h
    <2>2. ASSUME NEW t \in Subs, NEW k \in Keys
          PROVE  remainder'[t][k] = "none" <=> remainder[t][k] = "none"
        BY <2>1 DEF FeedTypeOK
    <2>3. ASSUME up, NEW t \in open, NEW k \in Keys
          PROVE  Agrees(t, k)'
        <3>1. Agrees(t, k) /\ t \in Subs /\ Alone(t, k)
            BY <2>1, <2>3 DEF AgreeInv, TypeOK, Alone
        <3> QED
            BY <2>2, <3>1, AloneAgrees
    <2>4. ClosedAsksNothing'
        BY <2>1, <2>2 DEF AgreeInv, ClosedAsksNothing
    <2> QED
        BY <2>1, <2>3, <2>4 DEF AgreeInv
<1>5. ASSUME NEW s \in Subs, HandleArrayPanics(s) \/ Leave(s)
      PROVE  AgreeInv'
    BY <1>5, StopAgrees DEF HandleArrayPanics, Leave
<1>6. CASE SendData
    <2>1. process_peer_data_response /\ UNCHANGED <<remainder, open, up>>
        <3>1. process_peer_data_response /\ UNCHANGED remainder
            BY <1>6 DEF SendData
        <3>2. UNCHANGED <<open, up>>
            BY <3>1 DEF process_peer_data_response, envVars
        <3> QED
            BY <3>1, <3>2
    <2>4. \A s \in Subs, k \in Keys :
              /\ s \in open /\ Drops(s, k) => asked'[s][k] = Unsure
              /\ ~(s \in open /\ Drops(s, k)) => asked'[s][k] = asked[s][k]
        <3> TAKE s \in Subs, k \in Keys
        <3>1. asked'[s][k] = IF s \in open /\ update_time[s][k] # None /\ update_time'[s][k] = None
                             THEN Unsure ELSE asked[s][k]
            BY <1>6 DEF SendData, Dropped
        <3> QED
            BY <3>1 DEF Drops
    <2>2. ASSUME up, NEW s \in open, NEW k \in Keys
          PROVE  Agrees(s, k)'
        <3>1. s \in Subs /\ Agrees(s, k)
            BY <2>2 DEF AgreeInv, TypeOK
        <3>2. CASE Drops(s, k)
            <4>1. asked'[s][k] = Unsure
                BY <2>4, <2>2, <3>1, <3>2 
            <4> QED
                BY <4>1 DEF Agrees, Unsure
        <3>3. CASE ~Drops(s, k)
            <4>1. Turn(s, k)
                BY <2>1, <3>1, <3>3, SendDataTurns
            <4>2. asked'[s][k] = asked[s][k] /\ remainder'[s][k] = remainder[s][k]
                BY <2>4, <2>1, <3>1, <3>3 
            <4> QED
                BY <3>1, <4>1, <4>2, TurnAgrees
        <3> QED
            BY <3>2, <3>3
    <2>3. ClosedAsksNothing'
        BY <2>4, <2>1 DEF AgreeInv, ClosedAsksNothing
    <2> QED
        BY <2>1, <2>2, <2>3 DEF AgreeInv
<1>7. CASE Elsewhere
    BY <1>7, ElsewhereAgrees
<1>8. CASE UNCHANGED feedVars
    BY <1>8 DEF feedVars, vars, envVars, subVars, AgreeInv, ClosedAsksNothing, Agrees, Subscribes,
           Unsubscribes
<1> QED
    BY <1>1, <1>2, <1>3, <1>4, <1>5, <1>6, <1>7, <1>8 DEF FeedNext

LEMMA AgreeInductive == FeedSpec => [](SendInv /\ FeedTypeOK /\ AgreeInv)
<1>1. FeedInit => SendInv /\ FeedTypeOK /\ AgreeInv
    <2> SUFFICES ASSUME FeedInit PROVE SendInv /\ FeedTypeOK /\ AgreeInv
        OBVIOUS
    <2>1. SendInv /\ FeedTypeOK
        BY ConstantRequests DEF FeedInit, FeedTypeOK, SendInv
    <2>2. /\ mailbox = <<>> /\ open = Subs
          /\ \A s \in Subs, k \in Keys : /\ update_time[s][k] = None
                                         /\ asked[s][k] = Nothing
                                         /\ remainder[s][k] = "none"
        BY DEF FeedInit, Init
    <2>3. \A s \in Subs, k \in Keys : Unsubscribes(s, k)
        BY <2>2 DEF Unsubscribes, Settles, Silent
    <2>4. AgreeInv
        BY <2>2, <2>3 DEF AgreeInv, ClosedAsksNothing, Agrees, Nothing
    <2> QED
        BY <2>1, <2>4
<1>2. TypeOK /\ SubInv /\ SendInv /\ FeedTypeOK /\ AgreeInv /\ [FeedNext]_feedVars
      => SendInv' /\ FeedTypeOK' /\ AgreeInv'
    BY SendInvStep, FeedTypeStep, AgreeStep DEF SubInv
<1>3. FeedSpec => []TypeOK
    BY FeedImplementsCache, TypeCorrect, PTL
<1>4. FeedSpec => []SubInv
    BY FeedImplementsCache, SubscriptionsInductive, PTL
<1> QED
    BY <1>1, <1>2, <1>3, <1>4, PTL DEF FeedSpec

\* Once its messages are handled a client is subscribed in the Cache exactly
\* when it asked to be, and an aggregate subscription is there for an aggregate
\* request and gone after an unsubscribe: whatever the Cache refused, dropped or
\* handled between the two messages of a replacement (process_message and
\* handle_aggregate_subscription; subscribe, unsubscribe and
\* process_peer_data_response).
THEOREM ClientAndCacheAgree == FeedSpec => []AgreeWhenQuiet
<1>1. AgreeInv => AgreeWhenQuiet
    <2> SUFFICES ASSUME AgreeInv, NEW s \in open, NEW k \in Keys, Quiet(s, k)
                 PROVE  /\ asked[s][k].mode \in {"raw", "aggregate"} => update_time[s][k] # None
                        /\ asked[s][k].mode = "nothing" => update_time[s][k] = None
                        /\ asked[s][k].mode = "aggregate" => remainder[s][k] # "none"
                        /\ asked[s][k].mode = "nothing" => remainder[s][k] = "none"
        BY DEF AgreeWhenQuiet
    <2>1. Agrees(s, k)
        BY DEF AgreeInv, Quiet
    <2>2. \A i \in DOMAIN mailbox : ~About(mailbox[i], s, k)
        BY DEF Quiet, About
    <2> QED
        BY <2>1, <2>2 DEF Agrees, Subscribes, Unsubscribes, Settles
<1> QED
    BY <1>1, AgreeInductive, PTL

-----------------------------------------------------------------------------
(* Everything from the start time on                                       *)

\* s was served k from t on: its update time is t still, or that of a row, and
\* of what is recent it has everything in between
Covered(s, k, t) ==
    /\ update_time[s][k] # None
    /\ update_time[s][k] = t \/ \E r \in table[k] : update_time[s][k] = r.created_at
    /\ \A r \in table[k] :
           Recent(r) /\ t < r.created_at /\ r.created_at <= update_time[s][k] => r \in pushed[s][k]

\* A subscription that stays is served on from where it was.
LEMMA CoveredStep ==
    ASSUME InOrder, SubInv, DeliveryInv, [Next]_vars,
           NEW s \in Subs, NEW k \in Keys, NEW t \in Int, Covered(s, k, t),
           update_time'[s][k] # None
    PROVE  Covered(s, k, t)'
<1> USE DEF SubInv, IInv, DeliveryInv
<1>1. IInv' /\ HistoryCached' /\ FromTable'
    BY TypeStep, IInvStep, HistoryCachedStep, FromTableStep
<1>2. /\ table'[k] \subseteq Row /\ table[k] \subseteq table'[k]
      /\ \A r \in table'[k] : r \in Row /\ r.created_at \in Int /\ (Recent(r)' => Recent(r))
      /\ update_time[s][k] \in Int /\ update_time'[s][k] \in Int
    <2>1. table'[k] \subseteq Row /\ table[k] \subseteq table'[k]
        BY <1>1, TableGrows DEF TypeOK
    <2>2. \A r \in table'[k] : r \in Row /\ r.created_at \in Int
        BY <2>1 DEF Row
    <2>3. \A r \in table'[k] : Recent(r)' => Recent(r)
        BY <2>2, RecentBefore
    <2>4. update_time[s][k] \in Int /\ update_time'[s][k] \in Int
        BY <1>1 DEF TypeOK, Covered
    <2> QED
        BY <2>1, <2>2, <2>3, <2>4
<1>3. CASE Kept(s, k)
    <2>1. update_time'[s][k] = update_time[s][k] /\ pushed'[s][k] = pushed[s][k]
        BY <1>3 DEF Kept
    <2>2. ASSUME NEW r \in table'[k], Recent(r)', t < r.created_at, r.created_at <= update_time'[s][k]
          PROVE  r \in pushed'[s][k]
        <3>1. CASE r \in table[k]
            BY <1>2, <2>1, <2>2, <3>1 DEF Covered
        <3>2. CASE r \notin table[k]
            <4>1. PICK h \in Keys, new \in Row : Visible(h, new)
                BY <3>2, EnvironmentStep
            <4>2. \A o \in table[k] : o.created_at < r.created_at
                BY <3>2, <4>1 DEF Visible, TypeOK
            <4>3. update_time[s][k] < r.created_at
                BY <2>2, <4>2 DEF Covered
            <4> QED
                BY <1>2, <2>1, <2>2, <4>3
        <3> QED
            BY <3>1, <3>2
    <2> QED
        BY <1>2, <2>1, <2>2 DEF Covered
<1>4. CASE Served(s, k)
    <2> DEFINE q == deque'[k]
    <2>1. PICK from \in Int : \E n \in SliceStarts(q, from) :
              /\ StartsFrom(s, k, from)
              /\ pushed'[s][k] = pushed[s][k] \cup RowsOf(Slice(q, n))
        BY <1>4 DEF Served
    <2>2. PICK n \in SliceStarts(q, from) :
              /\ StartsFrom(s, k, from)
              /\ pushed'[s][k] = pushed[s][k] \cup RowsOf(Slice(q, n))
        BY <2>1
    <2>3. /\ q \in Seq(Row) /\ Chronological(q) /\ q # <<>>
          /\ table' = table
          /\ update_time'[s][k] = last_updated'[k] /\ k \in cached'
          /\ last_updated'[k] = q[Len(q)].created_at
        BY <1>1, <1>4 DEF TypeOK, DequeInv, Served
    <2>4. RowsOf(q) \subseteq table'[k] /\ \A r \in table'[k] :
              Recent(r)' /\ r.created_at <= last_updated'[k] => r \in RowsOf(q)
        BY <1>1, <2>3 DEF HistoryCached, FromTable
    <2>5. from = update_time[s][k]
        BY <1>2, <2>2, NoneAssumption DEF StartsFrom
    <2> HIDE DEF q
    <2>6. \E r \in table'[k] : update_time'[s][k] = r.created_at
        BY <2>3, <2>4, LastRow
    <2>7. ASSUME NEW r \in table'[k], Recent(r)', t < r.created_at, r.created_at <= update_time'[s][k]
          PROVE  r \in pushed'[s][k]
        <3>1. CASE r.created_at <= from
            BY <1>2, <2>2, <2>3, <2>5, <2>7, <3>1 DEF Covered
        <3>2. CASE r.created_at > from
            BY <2>2, <2>3, <2>4, <2>7, <3>2, SliceHasYoungerThanTime
        <3> QED
            BY <1>2, <3>1, <3>2
    <2> QED
        BY <2>6, <2>7 DEF Covered
<1> QED
    BY <1>3, <1>4, StepServed DEF StepServes, Ended, Opened, Covered

\* A subscription that begins is served from what is asked for.
LEMMA CoveredBegins ==
    ASSUME InOrder, SubInv, DeliveryInv, [Next]_vars,
           NEW s \in Subs, NEW k \in Keys, update_time[s][k] = None,
           update_time'[s][k] # None, NEW t, t = Head(mailbox).start
    PROVE  Covered(s, k, t)'
<1> USE DEF SubInv, IInv, DeliveryInv
<1>1. IInv' /\ HistoryCached' /\ FromTable'
    BY TypeStep, IInvStep, HistoryCachedStep, FromTableStep
<1>2. /\ \A r \in table'[k] : r \in Row /\ r.created_at \in Int
      /\ update_time'[s][k] \in Int
    BY <1>1 DEF TypeOK, Row
<1>3. CASE Opened(s, k)
    <2>1. update_time'[s][k] = t
        BY <1>3 DEF Opened, Requested
    <2>2. \A r \in table'[k] : ~(t < r.created_at /\ r.created_at <= update_time'[s][k])
        BY <1>2, <2>1
    <2> QED
        BY <2>1, <2>2 DEF Covered
<1>4. CASE Served(s, k)
    <2> DEFINE q == deque'[k]
    <2>1. PICK from \in Int : \E n \in SliceStarts(q, from) :
              /\ StartsFrom(s, k, from)
              /\ pushed'[s][k] = pushed[s][k] \cup RowsOf(Slice(q, n))
        BY <1>4 DEF Served
    <2>2. PICK n \in SliceStarts(q, from) :
              /\ StartsFrom(s, k, from)
              /\ pushed'[s][k] = pushed[s][k] \cup RowsOf(Slice(q, n))
        BY <2>1
    <2>3. /\ q \in Seq(Row) /\ Chronological(q) /\ q # <<>>
          /\ update_time'[s][k] = last_updated'[k] /\ k \in cached'
          /\ last_updated'[k] = q[Len(q)].created_at
        BY <1>1, <1>4 DEF TypeOK, DequeInv, Served
    <2>4. RowsOf(q) \subseteq table'[k] /\ \A r \in table'[k] :
              Recent(r)' /\ r.created_at <= last_updated'[k] => r \in RowsOf(q)
        BY <1>1, <2>3 DEF HistoryCached, FromTable
    <2>5. from = t
        BY <2>2, NoneAssumption DEF StartsFrom, Requested
    <2> HIDE DEF q
    <2>6. \E r \in table'[k] : update_time'[s][k] = r.created_at
        BY <2>3, <2>4, LastRow
    <2>7. ASSUME NEW r \in table'[k], Recent(r)', t < r.created_at, r.created_at <= update_time'[s][k]
          PROVE  r \in pushed'[s][k]
        <3>1. r \in RowsOf(Slice(q, n))
            BY <1>2, <2>2, <2>3, <2>4, <2>5, <2>7, SliceHasYoungerThanTime
        <3> QED
            BY <2>2, <3>1
    <2> QED
        BY <2>6, <2>7 DEF Covered
<1> QED
    BY <1>3, <1>4, StepServed DEF StepServes, Kept, Ended

\* m ends the subscription of s to k
Ends(m, s, k) == About(m, s, k) /\ m.type = "unsubscribe"

\* The i-th message of the queue q begins the subscription that will stand, from
\* t on: whatever there is before it, in the Cache or in the queue, is ended
\* before it, and it is not ended after it
Opens(q, u, s, k, t, i) ==
    /\ About(q[i], s, k) /\ q[i].type = "subscribe" /\ q[i].start = t
    /\ \A j \in DOMAIN q : j > i => ~Ends(q[j], s, k)
    /\ \A j \in DOMAIN q : j < i /\ About(q[j], s, k) =>
           \E h \in DOMAIN q : j <= h /\ h < i /\ Ends(q[h], s, k)
    /\ u # None => \E h \in DOMAIN q : h < i /\ Ends(q[h], s, k)
NoEnd(q, s, k) == \A i \in DOMAIN q : ~Ends(q[i], s, k)

\* Another message, which does not end the subscription, is sent to the Cache
LEMMA AppendOpens ==
    ASSUME NEW q \in Seq(Message), NEW m \in Message, NEW u, NEW s, NEW k, NEW t,
           ~Ends(m, s, k)
    PROVE  /\ NoEnd(q, s, k) => NoEnd(Append(q, m), s, k)
           /\ \A i \in DOMAIN q : Opens(q, u, s, k, t, i) =>
                  i \in DOMAIN Append(q, m) /\ Opens(Append(q, m), u, s, k, t, i)
<1> DEFINE p == Append(q, m)
           n == Len(q)
<1>1. /\ n \in Nat /\ DOMAIN q = 1..n /\ DOMAIN p = 1..(n + 1)
      /\ p[n + 1] = m
      /\ \A i \in 1..n : p[i] = q[i]
    BY AppendProperties, LenProperties
<1> HIDE DEF p, n
<1>2. NoEnd(q, s, k) => NoEnd(p, s, k)
    BY <1>1 DEF NoEnd
<1>3. ASSUME NEW i \in DOMAIN q, Opens(q, u, s, k, t, i)
      PROVE  i \in DOMAIN p /\ Opens(p, u, s, k, t, i)
    <2>1. i \in DOMAIN p /\ p[i] = q[i]
        BY <1>1
    <2>2. \A j \in DOMAIN p : j > i => ~Ends(p[j], s, k)
        BY <1>1, <1>3 DEF Opens
    <2>3. ASSUME NEW j \in DOMAIN p, j < i, About(p[j], s, k)
          PROVE  \E h \in DOMAIN p : j <= h /\ h < i /\ Ends(p[h], s, k)
        <3>1. j \in DOMAIN q /\ About(q[j], s, k)
            BY <1>1, <2>3
        <3>2. PICK h \in DOMAIN q : j <= h /\ h < i /\ Ends(q[h], s, k)
            BY <1>3, <2>3, <3>1 DEF Opens
        <3> QED
            BY <1>1, <3>2
    <2>4. u # None => \E h \in DOMAIN p : h < i /\ Ends(p[h], s, k)
        BY <1>1, <1>3 DEF Opens
    <2> QED
        BY <1>3, <2>1, <2>2, <2>3, <2>4 DEF Opens
<1> QED
    BY <1>2, <1>3 DEF p

\* A request is sent when all there was is ended
LEMMA AppendBegins ==
    ASSUME NEW q \in Seq(Message), NEW m \in Message, NEW u, NEW s, NEW k,
           About(m, s, k), m.type = "subscribe", Settles(q, u, s, k, "unsubscribe")
    PROVE  \E i \in DOMAIN Append(q, m) : Opens(Append(q, m), u, s, k, m.start, i)
<1> DEFINE p == Append(q, m)
           n == Len(q)
<1>1. /\ n \in Nat /\ DOMAIN q = 1..n /\ DOMAIN p = 1..(n + 1)
      /\ p[n + 1] = m
      /\ \A i \in 1..n : p[i] = q[i]
    BY AppendProperties, LenProperties
<1> HIDE DEF p
<1>2. \A j \in DOMAIN p : ~(j > n + 1)
    BY <1>1
<1>3. CASE Silent(q, s, k) /\ u = None
    <2>1. \A j \in DOMAIN p : j < n + 1 => ~About(p[j], s, k)
        BY <1>1, <1>3 DEF Silent
    <2>2. Opens(p, u, s, k, m.start, n + 1)
        BY <1>1, <1>2, <1>3, <2>1 DEF Opens
    <2> QED
        BY <1>1, <2>2 DEF p
<1>4. CASE \E i \in DOMAIN q :
               /\ About(q[i], s, k) /\ q[i].type = "unsubscribe"
               /\ \A j \in DOMAIN q : j > i => ~About(q[j], s, k)
    <2>1. PICK i \in DOMAIN q : /\ About(q[i], s, k) /\ q[i].type = "unsubscribe"
                                /\ \A j \in DOMAIN q : j > i => ~About(q[j], s, k)
        BY <1>4
    <2>2. i \in DOMAIN p /\ i < n + 1 /\ Ends(p[i], s, k)
        BY <1>1, <2>1 DEF Ends
    <2>3. ASSUME NEW j \in DOMAIN p, j < n + 1, About(p[j], s, k)
          PROVE  \E h \in DOMAIN p : j <= h /\ h < n + 1 /\ Ends(p[h], s, k)
        <3>1. j \in DOMAIN q /\ About(q[j], s, k)
            BY <1>1, <2>3
        <3>2. j <= i
            BY <1>1, <2>1, <3>1
        <3> QED
            BY <2>2, <3>2
    <2>4. Opens(p, u, s, k, m.start, n + 1)
        BY <1>1, <1>2, <2>2, <2>3 DEF Opens
    <2> QED
        BY <1>1, <2>4 DEF p
<1> QED
    BY <1>3, <1>4 DEF Settles

\* The Cache handles a message before the one that opens
LEMMA TailOpens ==
    ASSUME NEW q \in Seq(Message), q # <<>>, NEW u, NEW v, NEW s, NEW k, NEW t,
           NEW i \in DOMAIN q, i # 1, Opens(q, u, s, k, t, i),
           IF About(Head(q), s, k) THEN v # None <=> Head(q).type = "subscribe"
                                   ELSE v # None <=> u # None
    PROVE  i - 1 \in DOMAIN Tail(q) /\ Opens(Tail(q), v, s, k, t, i - 1)
<1> DEFINE p == Tail(q)
           n == Len(q)
           g == i - 1
<1>1. /\ n \in Nat \ {0} /\ DOMAIN q = 1..n /\ DOMAIN p = 1..(n - 1)
      /\ Head(q) = q[1]
      /\ \A j \in 1..(n - 1) : p[j] = q[j + 1]
    BY HeadTailProperties, EmptySeq, LenProperties
<1> HIDE DEF p, n
<1>2. g \in DOMAIN p /\ p[g] = q[i]
    BY <1>1
<1>3. \A j \in DOMAIN p : j + 1 \in DOMAIN q /\ p[j] = q[j + 1]
    BY <1>1
<1>4. \A j \in DOMAIN p : j > g => ~Ends(p[j], s, k)
    BY <1>1, <1>3 DEF Opens
\* An end before i that is not the head
<1>5. ASSUME NEW j \in DOMAIN q, ~Ends(q[1], s, k) \/ j # 1,
             \E h \in DOMAIN q : j <= h /\ h < i /\ Ends(q[h], s, k)
      PROVE  \E h \in DOMAIN p : j - 1 <= h /\ h < g /\ Ends(p[h], s, k)
    <2>1. PICK h \in DOMAIN q : j <= h /\ h < i /\ Ends(q[h], s, k)
        BY <1>5
    <2>2. h # 1
        BY <1>1, <1>5, <2>1
    <2>3. h - 1 \in DOMAIN p /\ p[h - 1] = q[h] /\ j - 1 <= h - 1 /\ h - 1 < g
        BY <1>1, <2>1, <2>2
    <2> QED
        BY <2>1, <2>3
<1>6. ASSUME NEW j \in DOMAIN p, j < g, About(p[j], s, k)
      PROVE  \E h \in DOMAIN p : j <= h /\ h < g /\ Ends(p[h], s, k)
    <2> DEFINE o == j + 1
    <2>1. o \in DOMAIN q /\ o < i /\ About(q[o], s, k) /\ o # 1 /\ o - 1 = j
        BY <1>1, <1>3, <1>6
    <2>2. \E h \in DOMAIN q : o <= h /\ h < i /\ Ends(q[h], s, k)
        BY <2>1 DEF Opens
    <2> HIDE DEF o
    <2>3. \E h \in DOMAIN p : o - 1 <= h /\ h < g /\ Ends(p[h], s, k)
        BY <1>5, <2>1, <2>2
    <2> QED
        BY <2>1, <2>3
<1>7. ASSUME v # None
      PROVE  \E h \in DOMAIN p : h < g /\ Ends(p[h], s, k)
    <2>0. 1 \in DOMAIN q /\ 1 < i
        BY <1>1
    <2>1. ~Ends(q[1], s, k)
        BY <1>1, <1>7 DEF Ends
    <2>2. \E h \in DOMAIN q : 1 <= h /\ h < i /\ Ends(q[h], s, k)
        <3>1. CASE About(q[1], s, k)
            BY <2>0, <3>1 DEF Opens
        <3>2. CASE ~About(q[1], s, k)
            BY <1>1, <1>7, <3>2 DEF Opens
        <3> QED
            BY <3>1, <3>2
    <2> QED
        BY <1>5, <2>0, <2>1, <2>2
<1>8. Opens(p, v, s, k, t, g)
    <2>1. About(p[g], s, k) /\ p[g].type = "subscribe" /\ p[g].start = t
        BY <1>2 DEF Opens
    <2> HIDE DEF g
    <2> QED
        BY <1>4, <1>6, <1>7, <2>1 DEF Opens
<1> QED
    BY <1>2, <1>8 DEF p, g

\* s is served from t on, or will be when what is queued is handled
ServedFrom(s, k, t) ==
    \/ Covered(s, k, t) /\ NoEnd(mailbox, s, k)
    \/ \E i \in DOMAIN mailbox : Opens(mailbox, update_time[s][k], s, k, t, i)

LEMMA AloneServed ==
    ASSUME InOrder, SubInv, DeliveryInv, [Next]_vars,
           NEW s \in Subs, NEW k \in Keys, NEW t \in Int, Alone(s, k), ServedFrom(s, k, t)
    PROVE  ServedFrom(s, k, t)'
<1>1. mailbox \in Seq(Message)
    BY DEF SubInv, IInv, TypeOK
<1>2. update_time'[s][k] = update_time[s][k]
    BY DEF Alone
<1>3. mailbox' = mailbox \/ \E m \in Message : ~Ends(m, s, k) /\ mailbox' = Append(mailbox, m)
    BY DEF Alone, Ends
<1>4. CASE Covered(s, k, t) /\ NoEnd(mailbox, s, k)
    <2>1. Covered(s, k, t)'
        BY <1>2, <1>4, CoveredStep DEF Covered
    <2>2. NoEnd(mailbox', s, k)
        BY <1>1, <1>3, <1>4, AppendOpens
    <2> QED
        BY <2>1, <2>2 DEF ServedFrom
<1>5. CASE \E i \in DOMAIN mailbox : Opens(mailbox, update_time[s][k], s, k, t, i)
    <2>1. \E i \in DOMAIN mailbox' : Opens(mailbox', update_time[s][k], s, k, t, i)
        BY <1>1, <1>3, <1>5, AppendOpens
    <2> QED
        BY <1>2, <2>1 DEF ServedFrom
<1> QED
    BY <1>4, <1>5 DEF ServedFrom

LEMMA TurnServed ==
    ASSUME InOrder, SubInv, DeliveryInv, [Next]_vars,
           NEW s \in Subs, NEW k \in Keys, NEW t \in Int, Turn(s, k), ServedFrom(s, k, t)
    PROVE  ServedFrom(s, k, t)'
<1> DEFINE n == Len(mailbox)
<1>1. mailbox \in Seq(Message) /\ mailbox # <<>> /\ mailbox' = Tail(mailbox)
    BY DEF SubInv, IInv, TypeOK, Turn
<1>2. /\ n \in Nat \ {0} /\ DOMAIN mailbox = 1..n /\ DOMAIN mailbox' = 1..(n - 1)
      /\ Head(mailbox) = mailbox[1]
      /\ \A i \in 1..(n - 1) : mailbox'[i] = mailbox[i + 1]
    BY <1>1, HeadTailProperties, EmptySeq, LenProperties
<1> HIDE DEF n
<1>3. CASE Covered(s, k, t) /\ NoEnd(mailbox, s, k)
    <2>1. NoEnd(mailbox', s, k) /\ ~Ends(Head(mailbox), s, k)
        BY <1>2, <1>3 DEF NoEnd
    <2>2. update_time'[s][k] # None
        <3>1. About(Head(mailbox), s, k) => Head(mailbox).type = "subscribe"
            <4>1. Head(mailbox) \in Message
                BY <1>1, HeadTailProperties
            <4> QED
                BY <2>1, <4>1 DEF Ends, About, Message
        <3> QED
            BY <1>3, <3>1 DEF Turn, Covered
    <2>3. Covered(s, k, t)'
        BY <1>3, <2>2, CoveredStep
    <2> QED
        BY <2>1, <2>3 DEF ServedFrom
<1>4. ASSUME NEW i \in DOMAIN mailbox, Opens(mailbox, update_time[s][k], s, k, t, i)
      PROVE  ServedFrom(s, k, t)'
    <2>1. CASE i = 1
        <3>1. /\ About(Head(mailbox), s, k) /\ Head(mailbox).type = "subscribe"
              /\ Head(mailbox).start = t
              /\ update_time[s][k] = None
            BY <1>2, <1>4, <2>1 DEF Opens
        <3>2. update_time'[s][k] # None
            BY <3>1 DEF Turn
        <3>3. Covered(s, k, t)'
            BY <3>1, <3>2, CoveredBegins
        <3>4. NoEnd(mailbox', s, k)
            <4>1. \A j \in DOMAIN mailbox : j > 1 => ~Ends(mailbox[j], s, k)
                BY <1>4, <2>1 DEF Opens
            <4>2. \A j \in DOMAIN mailbox' :
                      /\ j + 1 \in DOMAIN mailbox /\ j + 1 > 1
                      /\ mailbox'[j] = mailbox[j + 1]
                BY <1>2
            <4>3. \A j \in DOMAIN mailbox' : ~Ends(mailbox'[j], s, k)
                BY <4>1, <4>2
            <4> QED
                BY <4>3 DEF NoEnd
        <3> QED
            BY <3>3, <3>4 DEF ServedFrom
    <2>2. CASE i # 1
        <3>1. i - 1 \in DOMAIN mailbox' /\ Opens(mailbox', update_time'[s][k], s, k, t, i - 1)
            BY <1>1, <1>4, <2>2, TailOpens DEF Turn
        <3> QED
            BY <3>1 DEF ServedFrom
    <2> QED
        BY <2>1, <2>2
<1> QED
    BY <1>3, <1>4 DEF ServedFrom

\* The start time the client may count on is the one it is served from.
Counts(s, k) ==
    /\ asked[s][k].since # None => ServedFrom(s, k, asked[s][k].since)
    /\ asked[s][k].mode = "nothing" => asked[s][k] = Nothing
\* While a subscription is replaced the Cache is told to end the old one.
Replaces(s) == to_send[s] # None => Unsubscribes(s, to_send[s].key)
SinceInv == up => \A s \in open : Replaces(s) /\ \A k \in Keys : Counts(s, k)

LEMMA AloneCounts ==
    ASSUME InOrder, SubInv, DeliveryInv, FeedTypeOK, [Next]_vars,
           NEW s \in Subs, NEW k \in Keys, Counts(s, k), asked'[s][k] = asked[s][k],
           Alone(s, k) \/ Turn(s, k)
    PROVE  Counts(s, k)'
<1> DEFINE t == asked[s][k].since
<1>1. t # None => t \in Int
    BY DEF FeedTypeOK, Request
<1>2. t # None => ServedFrom(s, k, t)
    BY DEF Counts
<1> HIDE DEF t
<1>3. ASSUME NEW c \in Int, ServedFrom(s, k, c)
      PROVE  ServedFrom(s, k, c)'
    BY <1>3, AloneServed, TurnServed
<1>4. PICK c : c = t
    OBVIOUS
<1>5. c # None => ServedFrom(s, k, c)'
    BY <1>1, <1>2, <1>3, <1>4
<1>6. asked'[s][k].since = c
    BY <1>4 DEF t
<1>7. asked'[s][k].since # None => ServedFrom(s, k, asked[s][k].since)'
    BY <1>5, <1>6
<1> QED
    BY <1>7 DEF Counts

\* The socket asks the Cache, and what the client may count on then is nothing,
\* what it was, or, when there was nothing, what it asks for
LEMMA SaysCounts ==
    ASSUME InOrder, SubInv, DeliveryInv, FeedTypeOK, [Next]_vars, up,
           NEW s \in Subs, NEW k \in Keys, NEW m, Says(s, k, m), Counts(s, k),
           asked'[s][k].mode = "nothing" => asked'[s][k] = Nothing,
           IF Accepted
           THEN \/ asked'[s][k].since = None
                \/ /\ m.type = "subscribe"
                   /\ \/ asked'[s][k].since = asked[s][k].since
                      \/ asked'[s][k].since = m.start /\ Unsubscribes(s, k)
           ELSE asked'[s][k].since = None \/ asked'[s][k] = asked[s][k]
    PROVE  Counts(s, k)'
<1>1. /\ mailbox \in Seq(Message) /\ m \in Message /\ About(m, s, k)
      /\ UNCHANGED update_time
      /\ mailbox' = IF Accepted THEN Append(mailbox, m) ELSE mailbox
    BY DEF Says, Send, subVars, SubInv, IInv, TypeOK, Accepted
<1>2. PICK c : c = asked'[s][k].since
    OBVIOUS
<1>3. ASSUME c # None, c = asked[s][k].since,
             mailbox' = mailbox \/ m.type = "subscribe"
      PROVE  ServedFrom(s, k, c)'
    <2>1. c \in Int /\ ServedFrom(s, k, c)
        BY <1>3 DEF FeedTypeOK, Request, Counts
    <2>2. mailbox' = mailbox \/ (mailbox' = Append(mailbox, m) /\ ~Ends(m, s, k))
        <3>1. CASE mailbox' = mailbox
            BY <3>1
        <3>2. CASE mailbox' # mailbox
            <4>1. mailbox' = Append(mailbox, m)
                BY <1>1, <3>2
            <4>2. m.type # "unsubscribe"
                BY <1>3, <3>2
            <4> QED
                BY <4>1, <4>2 DEF Ends
        <3> QED
            BY <3>1, <3>2
    <2>3. CASE Covered(s, k, c) /\ NoEnd(mailbox, s, k)
        <3>1. Covered(s, k, c)'
            BY <1>1, <2>1, <2>3, CoveredStep DEF Covered
        <3>2. NoEnd(mailbox', s, k)
            BY <1>1, <2>2, <2>3, AppendOpens
        <3> QED
            BY <3>1, <3>2 DEF ServedFrom
    <2>4. CASE \E i \in DOMAIN mailbox : Opens(mailbox, update_time[s][k], s, k, c, i)
        <3>1. \E i \in DOMAIN mailbox' : Opens(mailbox', update_time[s][k], s, k, c, i)
            BY <1>1, <2>2, <2>4, AppendOpens
        <3> QED
            BY <1>1, <3>1 DEF ServedFrom
    <2> QED
        BY <2>1, <2>3, <2>4 DEF ServedFrom
<1>4. ASSUME Accepted, m.type = "subscribe", c = m.start, Unsubscribes(s, k)
      PROVE  ServedFrom(s, k, c)'
    <2>1. \E i \in DOMAIN mailbox' : Opens(mailbox', update_time[s][k], s, k, c, i)
        BY <1>1, <1>4, AppendBegins DEF Unsubscribes
    <2> QED
        BY <1>1, <2>1 DEF ServedFrom
<1>5. c # None => ServedFrom(s, k, c)'
    BY <1>1, <1>2, <1>3, <1>4
<1>6. asked'[s][k].since # None => ServedFrom(s, k, asked[s][k].since)'
    BY <1>2, <1>5
<1> QED
    BY <1>6 DEF Counts


\* A step of other actors: what s asked for is served from where it was
LEMMA KeptCounts ==
    ASSUME InOrder, SubInv, DeliveryInv, FeedTypeOK, [Next]_vars,
           NEW s \in Subs, Replaces(s), \A k \in Keys : Counts(s, k),
           to_send'[s] = to_send[s],
           \A k \in Keys : asked'[s][k] = asked[s][k] /\ (Alone(s, k) \/ Turn(s, k))
    PROVE  Replaces(s)' /\ \A k \in Keys : Counts(s, k)'
<1>1. \A k \in Keys : Counts(s, k)'
    BY AloneCounts
<1>2. ASSUME NEW k \in Keys, Unsubscribes(s, k)
      PROVE  Unsubscribes(s, k)'
    BY <1>2, AloneSettles, TurnSettles DEF SubInv, IInv
<1>3. ASSUME to_send'[s] # None
      PROVE  Unsubscribes(s, to_send[s].key)'
    <2>1. to_send[s].key \in Keys /\ Unsubscribes(s, to_send[s].key)
        BY <1>3 DEF FeedTypeOK, Replaces
    <2>2. PICK k \in Keys : k = to_send[s].key
        BY <2>1
    <2>3. Unsubscribes(s, k)'
        BY <1>2, <2>1, <2>2
    <2>4. to_send'[s].key = k
        BY <2>2
    <2> QED
        BY <2>3, <2>4
<1> QED
    BY <1>1, <1>3 DEF Replaces


\* The socket of s sends a message, and has nothing more to send, or is about to
\* replace the subscription that the message ends
LEMMA SaysSince ==
    ASSUME InOrder, SubInv, DeliveryInv, FeedTypeOK, SinceInv, [Next]_vars,
           NEW s \in Subs, NEW k \in Keys, NEW m, Says(s, k, m),
           \A t \in Subs : t # s => to_send'[t] = to_send[t],
           \/ to_send'[s] = None
           \/ Accepted /\ m.type = "unsubscribe" /\ to_send'[s].key = k,
           asked'[s][k].mode = "nothing" => asked'[s][k] = Nothing,
           IF Accepted
           THEN \/ asked'[s][k].since = None
                \/ /\ m.type = "subscribe"
                   /\ \/ asked'[s][k].since = asked[s][k].since
                      \/ asked'[s][k].since = m.start /\ Unsubscribes(s, k)
           ELSE asked'[s][k].since = None \/ asked'[s][k] = asked[s][k]
    PROVE  SinceInv'
<1>1. TypeOK /\ UNCHANGED <<open, up, update_time>>
    BY DEF SubInv, IInv, Says, Send, envVars, subVars
<1>2. ASSUME up, NEW t \in open, t # s
      PROVE  Replaces(t)' /\ \A j \in Keys : Counts(t, j)'
    <2>1. t \in Subs /\ Replaces(t) /\ \A j \in Keys : Counts(t, j)
        BY <1>1, <1>2 DEF SinceInv, TypeOK
    <2>2. \A j \in Keys : asked'[t][j] = asked[t][j] /\ Alone(t, j)
        BY <1>1, <1>2, <2>1, SaysElsewhere DEF Says
    <2> QED
        BY <1>2, <2>1, <2>2, KeptCounts
<1>3. ASSUME up, s \in open
      PROVE  Replaces(s)' /\ \A j \in Keys : Counts(s, j)'
    <2>1. \A j \in Keys : Counts(s, j)
        BY <1>3 DEF SinceInv
    <2>2. Counts(s, k)'
        BY <1>3, <2>1, SaysCounts
    <2>3. ASSUME NEW j \in Keys, j # k
          PROVE  Counts(s, j)'
        <3>1. Alone(s, j) /\ asked'[s][j] = asked[s][j]
            BY <1>1, <2>3, SaysElsewhere DEF Says
        <3> QED
            BY <2>1, <3>1, AloneCounts
    <2>4. Replaces(s)'
        <3>1. CASE to_send'[s] = None
            BY <3>1 DEF Replaces
        <3>2. CASE Accepted /\ m.type = "unsubscribe" /\ to_send'[s].key = k
            <4>1. /\ mailbox \in Seq(Message) /\ mailbox' = Append(mailbox, m)
                  /\ About(m, s, k) /\ m \in Message
                BY <1>1, <3>2 DEF Says, Send, Accepted, TypeOK
            <4>2. Settles(mailbox', update_time'[s][k], s, k, "unsubscribe")
                BY <1>1, <3>2, <4>1, AppendSettles
            <4> QED
                BY <3>2, <4>2 DEF Replaces, Unsubscribes
        <3> QED
            BY <3>1, <3>2
    <2> QED
        BY <2>2, <2>3, <2>4
<1> QED
    BY <1>1, <1>2, <1>3 DEF SinceInv

\* Rows arrive in the Cache, and it may drop a subscriber to which it cannot
\* send them: a client that cannot count on anything then
LEMMA SendDataSince ==
    ASSUME InOrder, SubInv, DeliveryInv, FeedTypeOK, SinceInv, [Next]_vars, SendData
    PROVE  SinceInv'
<1>0. TypeOK
    BY DEF SubInv, IInv
<1>1. process_peer_data_response /\ UNCHANGED <<open, up, to_send>>
    <2>1. process_peer_data_response /\ UNCHANGED to_send
        BY DEF SendData
    <2> QED
        BY <2>1 DEF process_peer_data_response, envVars
<1>2. ASSUME NEW s \in open, NEW k \in Keys
      PROVE  asked'[s][k] = IF Drops(s, k) THEN Unsure ELSE asked[s][k]
    <2>1. s \in Subs
        BY <1>0 DEF TypeOK
    <2> QED
        BY <2>1 DEF SendData, Dropped, Drops
<1>3. ASSUME up, NEW s \in open, NEW k \in Keys
      PROVE  /\ Counts(s, k)'
             /\ Unsubscribes(s, k) => Unsubscribes(s, k)'
    <2>1. s \in Subs /\ Counts(s, k)
        BY <1>0, <1>3 DEF TypeOK, SinceInv
    <2>2. CASE Drops(s, k)
        <3>1. Counts(s, k)'
            <4>1. asked'[s][k] = Unsure
                BY <1>2, <2>2
            <4> QED
                BY <4>1 DEF Counts, Unsure
        <3>2. /\ mailbox \in Seq(Message) /\ mailbox # <<>> /\ mailbox' = Tail(mailbox)
              /\ ~About(Head(mailbox), s, k)
            BY <1>0, <1>1, HeadMessage DEF process_peer_data_response, NextIs, About, TypeOK
        <3>3. Unsubscribes(s, k) => Unsubscribes(s, k)'
            BY <2>2, <3>2, TailSettles DEF Unsubscribes, Drops
        <3> QED
            BY <3>1, <3>3
    <2>3. CASE ~Drops(s, k)
        <3>1. Turn(s, k)
            BY <1>0, <1>1, <2>1, <2>3, SendDataTurns
        <3>2. asked'[s][k] = asked[s][k]
            BY <1>2, <2>3
        <3> QED
            BY <1>0, <2>1, <3>1, <3>2, AloneCounts, TurnSettles
    <2> QED
        BY <2>2, <2>3
<1>4. ASSUME up, NEW s \in open
      PROVE  Replaces(s)'
    <2>1. s \in Subs /\ Replaces(s) /\ to_send'[s] = to_send[s]
        BY <1>0, <1>1, <1>4 DEF TypeOK, SinceInv
    <2>2. ASSUME to_send[s] # None
          PROVE  Unsubscribes(s, to_send[s].key)'
        <3>1. to_send[s].key \in Keys /\ Unsubscribes(s, to_send[s].key)
            BY <2>1, <2>2 DEF FeedTypeOK, Replaces
        <3>2. PICK k \in Keys : k = to_send[s].key
            BY <3>1
        <3>3. Unsubscribes(s, k)'
            BY <1>3, <1>4, <3>1, <3>2
        <3>4. to_send'[s].key = k
            BY <2>1, <3>2
        <3> QED
            BY <3>3, <3>4
    <2> QED
        BY <2>1, <2>2 DEF Replaces
<1> QED
    BY <1>1, <1>3, <1>4 DEF SinceInv


\* The actors that are not sockets
LEMMA ElsewhereSince ==
    ASSUME InOrder, SubInv, DeliveryInv, FeedTypeOK, AgreeInv, SinceInv, [Next]_vars, Elsewhere
    PROVE  SinceInv'
<1>0. TypeOK /\ Aside
    BY DEF SubInv, IInv, Elsewhere, Aside
<1>1. ASSUME up', UNCHANGED open \/ \E s \in Subs : Connect(s)
      PROVE  SinceInv'
    <2>1. up /\ \A s \in Subs, k \in Keys : Alone(s, k) \/ Turn(s, k)
        <3>1. CASE subscribe \/ unsubscribe
            BY <1>0, <1>1, <3>1, SubscriptionTurns DEF subscribe, unsubscribe, SubscribeVacant,
                   SubscribeOccupied, SubscribePanics
        <3>2. CASE /\ UNCHANGED <<up, update_time>>
                   /\ \/ mailbox' = mailbox
                      \/ \E m \in Message : m.type = "data" /\ mailbox' = Append(mailbox, m)
            BY <1>0, <1>1, <3>2 DEF Alone, Aside, About
        <3> QED
            BY <1>0, <3>1, <3>2, ElsewhereMails
    <2>2. ASSUME NEW s \in open
          PROVE  Replaces(s)' /\ \A k \in Keys : Counts(s, k)'
        <3>1. s \in Subs /\ Replaces(s) /\ \A k \in Keys : Counts(s, k)
            BY <1>0, <2>1, <2>2 DEF TypeOK, SinceInv
        <3> QED
            BY <1>0, <2>1, <3>1, KeptCounts DEF Aside
    <2>3. ASSUME NEW s \in Subs, Connect(s)
          PROVE  Replaces(s)' /\ \A k \in Keys : Counts(s, k)'
        <3>1. s \notin open
            BY <2>3 DEF Connect
        <3>2. to_send'[s] = None /\ \A k \in Keys : asked'[s][k] = Nothing
            BY <1>0, <3>1 DEF Aside, FeedTypeOK, AgreeInv, ClosedAsksNothing
        <3> QED
            BY <3>2 DEF Replaces, Counts, Nothing
    <2>4. open' = open \/ \E s \in Subs : Connect(s) /\ open' = open \cup {s}
        BY <1>1 DEF Connect
    <2> QED
        BY <2>2, <2>3, <2>4 DEF SinceInv
<1>2. UNCHANGED open \/ \E s \in Subs : Connect(s)
    BY DEF Elsewhere, Tick, Store, DbAnswers, DbFails, DbReturns, request_updates, purge_expired,
           subscribe, SubscribeVacant, SubscribeOccupied, SubscribePanics, unsubscribe, envVars
<1> QED
    BY <1>1, <1>2 DEF SinceInv

\* A socket that only handles what it is sent, or stops
LEMMA SilentSince ==
    ASSUME InOrder, SubInv, DeliveryInv, FeedTypeOK, SinceInv, [Next]_vars,
           UNCHANGED <<up, mailbox, update_time, to_send>>, open' \subseteq open,
           \A t \in open', k \in Keys : asked'[t][k] = asked[t][k]
    PROVE  SinceInv'
<1>1. ASSUME up, NEW t \in open'
      PROVE  Replaces(t)' /\ \A k \in Keys : Counts(t, k)'
    <2>1. t \in Subs /\ Replaces(t) /\ \A k \in Keys : Counts(t, k)
        BY <1>1 DEF SubInv, IInv, TypeOK, SinceInv
    <2>2. \A k \in Keys : Alone(t, k)
        BY <1>1 DEF Alone
    <2> QED
        BY <1>1, <2>1, <2>2, KeptCounts
<1> QED
    BY <1>1 DEF SinceInv

LEMMA SinceStep ==
    ASSUME InOrder, SubInv, DeliveryInv, SendInv, FeedTypeOK, AgreeInv, SinceInv,
           [FeedNext]_feedVars
    PROVE  SinceInv'
<1>0. TypeOK /\ FeedTypeOK' /\ [Next]_vars
    BY FeedTypeStep, StepIsCache DEF SubInv, IInv
<1>1. ASSUME NEW s \in Subs, NEW k \in Keys, NEW back \in Lookbacks,
             SubscribeRaw(s, k, back) \/ SubscribeAggregate(s, k, back)
      PROVE  SinceInv'
    <2> DEFINE m == Subscription(s, k, now - back)
    <2>1. Says(s, k, m) /\ m.type = "subscribe" /\ m.start = now - back /\ s \in open
        BY <1>0, <1>1, SubscribeSays DEF Subscription, Says
    <2> HIDE DEF m
    <2>2. UNCHANGED to_send /\ to_send[s] = None
        BY <1>1 DEF SubscribeRaw, SubscribeAggregate, Idle
    <2>3. \/ Accepted /\ \E mode \in {"raw", "aggregate"} :
                 asked'[s][k] = Asking(mode, asked[s][k], m.start)
          \/ ~Accepted /\ asked'[s][k] \in {asked[s][k], Unsure}
        BY <1>1, <2>1 DEF SubscribeRaw, SubscribeAggregate, Ask, FeedTypeOK
    <2>4. CASE ~up
        BY <2>1, <2>4 DEF SinceInv, Says, Send, envVars
    <2>5. CASE up
        <3>1. Counts(s, k) /\ Agrees(s, k)
            BY <2>1, <2>5 DEF SinceInv, AgreeInv
        <3>2. CASE Accepted
            <4>1. /\ asked'[s][k].mode # "nothing"
                  /\ asked'[s][k].since = IF asked[s][k] = Nothing THEN m.start
                                                                  ELSE asked[s][k].since
                BY <2>3, <3>2 DEF Asking
            <4>2. asked[s][k] = Nothing => Unsubscribes(s, k)
                BY <3>1 DEF Agrees, Nothing
            <4> QED
                BY <1>0, <2>1, <2>2, <3>2, <4>1, <4>2, SaysSince
        <3>3. CASE ~Accepted
            <4>1. /\ asked'[s][k].since = None \/ asked'[s][k] = asked[s][k]
                  /\ asked'[s][k].mode = "nothing" => asked'[s][k] = Nothing
                BY <2>3, <3>1, <3>3 DEF Unsure, Counts
            <4> QED
                BY <1>0, <2>1, <2>2, <3>3, <4>1, SaysSince
        <3> QED
            BY <3>2, <3>3
    <2> QED
        BY <2>4, <2>5
<1>2. ASSUME NEW s \in Subs, NEW k \in Keys,
             Unsubscribe(s, k) \/ \E back \in Lookbacks : ReplaceAggregate(s, k, back)
      PROVE  SinceInv'
    <2> DEFINE m == Unsubscription(s, k)
    <2>1. Says(s, k, m) /\ m.type = "unsubscribe"
        BY <1>0, <1>2, UnsubscribeSays DEF Unsubscription
    <2> HIDE DEF m
    <2>2. asked'[s][k] \in {Nothing, Unsure}
        BY <1>2 DEF Unsubscribe, ReplaceAggregate, Ask, FeedTypeOK
    <2>3. /\ \A t \in Subs : t # s => to_send'[t] = to_send[t]
          /\ \/ to_send'[s] = None
             \/ Accepted /\ m.type = "unsubscribe" /\ to_send'[s].key = k
        <3>1. CASE Unsubscribe(s, k)
            BY <3>1 DEF Unsubscribe, Idle
        <3>2. CASE \E back \in Lookbacks : ReplaceAggregate(s, k, back)
            BY <2>1, <3>2 DEF ReplaceAggregate, SendInv
        <3> QED
            BY <1>2, <3>1, <3>2
    <2>4. asked'[s][k].since = None /\ (asked'[s][k].mode = "nothing" => asked'[s][k] = Nothing)
        BY <2>2 DEF Nothing, Unsure
    <2> QED
        BY <1>0, <2>1, <2>3, <2>4, SaysSince
<1>3. ASSUME NEW s \in Subs, SendReplacement(s)
      PROVE  SinceInv'
    <2>1. PICK k \in Keys, m \in Message :
              /\ k = to_send[s].key /\ Says(s, k, m) /\ m.type = "subscribe"
              /\ m.start = now - to_send[s].back
        <3>1. to_send[s].key \in Keys
            BY <1>3 DEF SendReplacement, Idle, FeedTypeOK
        <3> QED
            BY <1>0, <1>3, <3>1, ReplacementSays DEF Says, Subscription
    <2>2. /\ to_send'[s] = None /\ to_send[s] # None
          /\ \A t \in Subs : t # s => to_send'[t] = to_send[t]
        BY <1>3 DEF SendReplacement, Idle, SendInv
    <2>3. asked'[s][k] = IF Accepted THEN Asking("aggregate", Nothing, m.start) ELSE Unsure
        BY <1>3, <2>1 DEF SendReplacement, Ask, FeedTypeOK
    <2>4. asked'[s][k].mode # "nothing" /\ asked'[s][k].since \in {None, m.start}
        BY <2>3 DEF Asking, Unsure
    <2>5. ~Accepted => asked'[s][k].since = None
        BY <2>3 DEF Unsure
    <2>6. up => Unsubscribes(s, k)
        <3>1. s \in open
            BY <2>1 DEF Says
        <3> QED
            BY <2>1, <2>2, <3>1 DEF SinceInv, Replaces
    <2>7. Accepted => up
        BY DEF Accepted
    <2> QED
        BY <1>0, <2>1, <2>2, <2>4, <2>5, <2>6, <2>7, SaysSince
<1>4. ASSUME NEW s \in Subs, HandleArray(s)
      PROVE  SinceInv'
    <2>1. UNCHANGED <<up, mailbox, update_time, to_send, open, asked>>
        BY <1>4 DEF HandleArray, Consume, envVars
    <2> QED
        BY <1>0, <2>1, SilentSince
<1>5. ASSUME NEW s \in Subs, HandleArrayPanics(s) \/ Leave(s)
      PROVE  SinceInv'
    <2>1. Stop(s)
        BY <1>5 DEF HandleArrayPanics, Leave
    <2>2. /\ UNCHANGED <<up, mailbox, update_time, to_send>>
          /\ open' = open \ {s}
          /\ asked' = [asked EXCEPT ![s] = [k \in Keys |-> Nothing]]
        BY <2>1 DEF Stop, Close
    <2>3. \A t \in open', k \in Keys : asked'[t][k] = asked[t][k]
        BY <1>0, <2>2 DEF FeedTypeOK, TypeOK
    <2> QED
        BY <1>0, <2>2, <2>3, SilentSince
<1>6. CASE SendData
    BY <1>0, <1>6, SendDataSince
<1>7. CASE Elsewhere
    BY <1>0, <1>7, ElsewhereSince
<1>8. CASE UNCHANGED feedVars
    <2>1. UNCHANGED <<up, mailbox, update_time, to_send, open, asked>>
        BY <1>8 DEF feedVars, vars, envVars, subVars
    <2> QED
        BY <1>0, <2>1, SilentSince
<1> QED
    BY <1>1, <1>2, <1>3, <1>4, <1>5, <1>6, <1>7, <1>8 DEF FeedNext


LEMMA SinceInductive ==
    ASSUME InOrder
    PROVE  FeedSpec => []SinceInv
<1>1. FeedInit => SinceInv
    <2> SUFFICES ASSUME FeedInit PROVE SinceInv
        OBVIOUS
    <2>1. \A s \in Subs : to_send[s] = None /\ \A k \in Keys : asked[s][k] = Nothing
        BY DEF FeedInit
    <2>2. open = Subs
        BY DEF FeedInit, Init
    <2> QED
        BY <2>1, <2>2 DEF SinceInv, Replaces, Counts, Nothing
<1>2. /\ SubInv /\ DeliveryInv /\ SendInv /\ FeedTypeOK /\ AgreeInv /\ SinceInv
      /\ [FeedNext]_feedVars
      => SinceInv'
    BY SinceStep
<1>3. FeedSpec => []SubInv
    BY FeedImplementsCache, SubscriptionsInductive, PTL
<1>4. Spec => []DeliveryInv
    BY DeliveryInductive
<1>5. FeedSpec => []DeliveryInv
    BY FeedImplementsCache, <1>4, PTL
<1> QED
    BY <1>1, <1>2, <1>3, <1>5, AgreeInductive, PTL DEF FeedSpec

\* Where rows become visible in order, a client that has been told the start
\* time of its subscription has been sent every recent row between that time and
\* the one the Cache believes it is at: though messages were queued, refused or
\* repeated, subscriptions replaced, and it was subscribed before, from another
\* time (subscribe, update_subscribers and process_message).
THEOREM NothingLeftOut ==
    ASSUME InOrder
    PROVE  FeedSpec => []NothingSkipped
<1>1. SinceInv => NothingSkipped
    <2> SUFFICES ASSUME SinceInv, NEW s \in open, NEW k \in Keys, Quiet(s, k),
                        asked[s][k].since # None,
                        NEW r \in table[k], Recent(r), asked[s][k].since < r.created_at,
                        r.created_at <= update_time[s][k]
                 PROVE  r \in pushed[s][k]
        BY DEF NothingSkipped
    <2>1. ServedFrom(s, k, asked[s][k].since)
        BY DEF SinceInv, Counts, Quiet
    <2>2. \A i \in DOMAIN mailbox : ~About(mailbox[i], s, k)
        BY DEF Quiet, About
    <2> QED
        BY <2>1, <2>2 DEF ServedFrom, Opens, Covered
<1>2. FeedSpec => []SinceInv
    BY SinceInductive
<1> QED
    BY <1>1, <1>2, PTL
=============================================================================
