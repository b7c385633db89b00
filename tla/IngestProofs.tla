---------------------------- MODULE IngestProofs -----------------------------
(***************************************************************************)
(* Proofs about Ingest: the type invariant; where logs are before and      *)
(* after a step, and from that the accounting of logs and the foreign key; *)
(* that with one thread the database forgets nothing it knows of a peer.   *)
(***************************************************************************)
EXTENDS Ingest, SequenceTheorems, FiniteSetTheorems, TLAPS

-----------------------------------------------------------------------------
(* The type invariant                                                      *)

\* What try_send makes of the queue
LEMMA OfferType ==
    ASSUME NEW q \in Seq(DbMessage), NEW m \in DbMessage
    PROVE  Offer(q, m) \in Seq(DbMessage)
BY AppendProperties DEF Offer

\* What a thread handles is a message
LEMMA HandlingMessage ==
    ASSUME TypeOK, NEW t \in Threads, NEW op, Handling(t, op)
    PROVE  /\ thread[t] \in DbMessage
           /\ thread[t].op = op
           /\ op = "insert_connection" => thread[t].conn \in Conns
           /\ op = "update_connection" => thread[t].info \in PeerConnection
           /\ op = "insert_logs" => thread[t].logs \in SUBSET Logs
<1>1. thread[t] \in DbMessage /\ thread[t].op = op
    BY DEF TypeOK, Handling
<1> QED
    BY <1>1 DEF DbMessage

LEMMA LearnedType ==
    ASSUME NEW i \in PeerConnection, NEW kind \in Kinds
    PROVE  Learned(i, kind) \in PeerConnection
BY IngestAssumption DEF Learned, PeerConnection

LEMMA TypeInit == Init => TypeOK
<1> SUFFICES ASSUME Init PROVE TypeOK
    OBVIOUS
<1>1. /\ socket \in [Conns -> {"new", "requested", "open", "closed"}]
      /\ info \in [Conns -> PeerConnection]
      /\ received \in 0..MaxLogs
      /\ failures \in 0..MaxFailures
    BY IngestAssumption DEF Init, PeerConnection, Unknown
<1>2. /\ source \in Seq(Conns) /\ Len(source) = received
      /\ mailbox \in Seq(Logs \cup {0})
      /\ logs \in Seq(Logs)
      /\ queue \in Seq(DbMessage)
    BY EmptySeq DEF Init
<1>3. /\ saving \in BOOLEAN
      /\ thread \in [Threads -> DbMessage \cup {Idle}]
      /\ DOMAIN peer_connections \subseteq Conns
      /\ \A c \in DOMAIN peer_connections : peer_connections[c] \in PeerConnection
      /\ {substrate_logs, expired, purged, lost} \subseteq SUBSET Logs
    <2>1. DOMAIN peer_connections = {}
        BY DEF Init
    <2> QED
        BY <2>1 DEF Init
<1> QED
    BY <1>1, <1>2, <1>3 DEF TypeOK

LEMMA TypeStep == TypeOK /\ [Next]_vars => TypeOK'
<1> SUFFICES ASSUME TypeOK, [Next]_vars PROVE TypeOK'
    OBVIOUS
<1> USE DEF vars, socketVars, bufferVars, tableVars
<1>1. ASSUME NEW c \in Conns, Request(c) PROVE TypeOK'
    <2>1. [op |-> "insert_connection", conn |-> c] \in DbMessage
        BY DEF DbMessage
    <2>2. queue' \in Seq(DbMessage)
        BY <1>1, <2>1, AppendProperties DEF Request, TypeOK
    <2> QED
        BY <1>1, <2>2 DEF Request, TypeOK
<1>2. ASSUME NEW c \in Conns, Close(c) PROVE TypeOK'
    BY <1>2 DEF Close, TypeOK
<1>3. ASSUME NEW c \in Conns, NEW kind \in Kinds, NEW timestamped \in Timestamped,
             Receive(c, kind, timestamped)
      PROVE  TypeOK'
    <2>1. Learned(info[c], kind) \in PeerConnection
        BY LearnedType DEF TypeOK
    <2>2. [op |-> "update_connection", conn |-> c, info |-> Learned(info[c], kind)] \in DbMessage
        BY <2>1 DEF DbMessage
    <2>3. info' \in [Conns -> PeerConnection] /\ queue' \in Seq(DbMessage)
        BY <1>3, <2>1, <2>2, OfferType DEF Receive, TypeOK
    <2>4. /\ received' \in 0..MaxLogs
          /\ source' \in Seq(Conns) /\ Len(source') = received'
          /\ mailbox' \in Seq(Logs \cup {0})
          /\ lost' \in SUBSET Logs
        <3>1. CASE Forward(c)
            <4>1. received + 1 \in Logs
                BY <3>1, IngestAssumption DEF Forward, TypeOK, Logs
            <4>2. received' \in 0..MaxLogs
                BY <3>1, IngestAssumption DEF Forward, TypeOK
            <4>3. source' \in Seq(Conns) /\ Len(source') = received'
                BY <3>1, AppendProperties DEF Forward, TypeOK
            <4>4. mailbox' \in Seq(Logs \cup {0})
                <5>1. Append(mailbox, received + 1) \in Seq(Logs \cup {0})
                    BY <4>1, AppendProperties DEF TypeOK
                <5>2. mailbox' = mailbox \/ mailbox' = Append(mailbox, received + 1)
                    BY <3>1 DEF Forward
                <5> QED
                    BY <5>1, <5>2 DEF TypeOK
            <4>5. lost' \in SUBSET Logs
                <5>1. lost \cup {received + 1} \in SUBSET Logs
                    BY <4>1 DEF TypeOK
                <5>2. lost' = lost \/ lost' = lost \cup {received + 1}
                    BY <3>1 DEF Forward
                <5> QED
                    BY <5>1, <5>2 DEF TypeOK
            <4> QED
                BY <4>2, <4>3, <4>4, <4>5
        <3>2. CASE UNCHANGED <<received, source, mailbox, lost>>
            BY <3>2 DEF TypeOK
        <3> QED
            BY <1>3, <3>1, <3>2 DEF Receive
    <2> QED
        BY <1>3, <2>3, <2>4 DEF Receive, TypeOK
<1>4. CASE SaveTimer
    <2>1. mailbox' \in Seq(Logs \cup {0})
        BY <1>4, AppendProperties DEF SaveTimer, TypeOK
    <2> QED
        BY <1>4, <2>1 DEF SaveTimer, TypeOK
<1>5. CASE BufferLog
    <2>1. Head(mailbox) \in Logs /\ mailbox' \in Seq(Logs \cup {0})
        BY <1>5, HeadTailProperties DEF BufferLog, TypeOK
    <2>2. logs' \in Seq(Logs)
        BY <1>5, <2>1, AppendProperties DEF BufferLog, TypeOK
    <2> QED
        BY <1>5, <2>1, <2>2 DEF BufferLog, TypeOK
<1>6. CASE SaveLogs
    <2>1. mailbox' \in Seq(Logs \cup {0})
        BY <1>6, HeadTailProperties DEF SaveLogs, TypeOK
    <2> QED
        BY <1>6, <2>1 DEF SaveLogs, TypeOK
<1>7. CASE SaveBatch
    <2> DEFINE at == SplitAt(Len(logs))
               batch == {logs[i] : i \in (at + 1)..Len(logs)}
    <2>1. Len(logs) \in Nat /\ at \in 0..Len(logs)
        BY IngestAssumption, LenProperties DEF TypeOK, SplitAt
    <2>2. \A i \in 1..Len(logs) : logs[i] \in Logs
        BY ElementOfSeq DEF TypeOK
    <2> HIDE DEF at
    <2>3. batch \in SUBSET Logs
        BY <2>1, <2>2
    <2>4. SubSeq(logs, 1, at) \in Seq(Logs)
        BY <2>1, <2>2, SubSeqProperties
    <2>5. [op |-> "insert_logs", logs |-> batch] \in DbMessage
        BY <2>3 DEF DbMessage
    <2> HIDE DEF batch
    <2>6. /\ logs' = SubSeq(logs, 1, at)
          /\ saving' = (at > 0)
          /\ queue' = Offer(queue, [op |-> "insert_logs", logs |-> batch])
          /\ lost' = IF Len(queue) < DB_MAILBOX THEN lost ELSE lost \cup batch
          /\ UNCHANGED <<socketVars, mailbox, thread, tableVars, failures>>
        BY <1>7 DEF SaveBatch, at, batch
    <2>7. queue' \in Seq(DbMessage)
        BY <2>5, <2>6, OfferType DEF TypeOK
    <2> QED
        BY <2>1, <2>3, <2>4, <2>6, <2>7 DEF TypeOK
<1>8. CASE PurgeTimer
    <2>1. [op |-> "purge_logs"] \in DbMessage
        BY DEF DbMessage
    <2>2. queue' \in Seq(DbMessage)
        BY <1>8, <2>1, OfferType DEF PurgeTimer, TypeOK
    <2> QED
        BY <1>8, <2>2 DEF PurgeTimer, TypeOK
<1>9. ASSUME NEW t \in Threads, Take(t) PROVE TypeOK'
    <2>1. Head(queue) \in DbMessage /\ queue' \in Seq(DbMessage)
        BY <1>9, HeadTailProperties DEF Take, TypeOK
    <2> QED
        BY <1>9, <2>1 DEF Take, TypeOK
<1>10. ASSUME NEW t \in Threads, InsertConnection(t) PROVE TypeOK'
    <2>1. thread[t].conn \in Conns
        BY <1>10, HandlingMessage DEF InsertConnection
    <2>2. Unknown \in PeerConnection
        BY DEF Unknown, PeerConnection
    <2>3. /\ DOMAIN peer_connections' \subseteq Conns
          /\ \A c \in DOMAIN peer_connections' : peer_connections'[c] \in PeerConnection
        BY <1>10, <2>1, <2>2 DEF InsertConnection, TypeOK
    <2>4. socket' \in [Conns -> {"new", "requested", "open", "closed"}]
        BY <1>10, <2>1 DEF InsertConnection, TypeOK
    <2>5. thread' \in [Threads -> DbMessage \cup {Idle}]
        BY <1>10 DEF InsertConnection, Done, TypeOK
    <2> QED
        BY <1>10, <2>3, <2>4, <2>5 DEF InsertConnection, TypeOK
<1>11. ASSUME NEW t \in Threads, UpdateConnection(t) PROVE TypeOK'
    <2>1. thread[t].info \in PeerConnection
        BY <1>11, HandlingMessage DEF UpdateConnection
    <2>2. /\ DOMAIN peer_connections' \subseteq Conns
          /\ \A c \in DOMAIN peer_connections' : peer_connections'[c] \in PeerConnection
        BY <1>11, <2>1 DEF UpdateConnection, TypeOK
    <2> QED
        BY <1>11, <2>2 DEF UpdateConnection, Done, TypeOK
<1>12. ASSUME NEW t \in Threads, InsertLogs(t) PROVE TypeOK'
    <2>1. thread[t].logs \in SUBSET Logs
        BY <1>12, HandlingMessage DEF InsertLogs
    <2> QED
        BY <1>12, <2>1 DEF InsertLogs, Done, TypeOK
<1>13. ASSUME NEW t \in Threads, PurgeExpiredLogs(t) PROVE TypeOK'
    <2>1. [op |-> "purge_connections"] \in DbMessage
        BY DEF DbMessage
    <2> QED
        BY <1>13, <2>1 DEF PurgeExpiredLogs, TypeOK
<1>14. ASSUME NEW t \in Threads, PurgeConnections(t) PROVE TypeOK'
    <2>1. /\ DOMAIN peer_connections' \subseteq Conns
          /\ \A c \in DOMAIN peer_connections' : peer_connections'[c] \in PeerConnection
        BY <1>14 DEF PurgeConnections, TypeOK
    <2> QED
        BY <1>14, <2>1 DEF PurgeConnections, Done, TypeOK
<1>15. ASSUME NEW t \in Threads, Fail(t) PROVE TypeOK'
    <2>1. [op |-> "purge_connections"] \in DbMessage
        BY DEF DbMessage
    <2>2. thread' \in [Threads -> DbMessage \cup {Idle}]
        BY <1>15, <2>1 DEF Fail, TypeOK
    <2>3. socket' \in [Conns -> {"new", "requested", "open", "closed"}]
        <3>1. CASE thread[t].op = "insert_connection"
            <4>1. thread[t].conn \in Conns
                BY <1>15, <3>1, HandlingMessage DEF Fail, Handling
            <4> QED
                BY <1>15, <3>1, <4>1 DEF Fail, TypeOK
        <3> QED
            BY <1>15, <3>1 DEF Fail, TypeOK
    <2>4. lost' \in SUBSET Logs
        <3>1. CASE thread[t].op = "insert_logs"
            <4>1. thread[t].logs \in SUBSET Logs
                BY <1>15, <3>1, HandlingMessage DEF Fail, Handling
            <4> QED
                BY <1>15, <3>1, <4>1 DEF Fail, TypeOK
        <3> QED
            BY <1>15, <3>1 DEF Fail, TypeOK
    <2>5. failures' \in 0..MaxFailures
        BY <1>15, IngestAssumption DEF Fail, TypeOK
    <2> QED
        BY <1>15, <2>2, <2>3, <2>4, <2>5 DEF Fail, TypeOK
<1>16. ASSUME NEW l \in Logs, Expire(l) PROVE TypeOK'
    BY <1>16 DEF Expire, TypeOK
<1>17. CASE UNCHANGED vars
    BY <1>17 DEF TypeOK
<1> QED
    BY <1>1, <1>2, <1>3, <1>4, <1>5, <1>6, <1>7, <1>8, <1>9, <1>10, <1>11, <1>12, <1>13,
       <1>14, <1>15, <1>16, <1>17 DEF Next, Work

\* Every variable has its type, in every state.
THEOREM IngestTypeCorrect == Spec => []TypeOK
BY TypeInit, TypeStep, PTL DEF Spec

-----------------------------------------------------------------------------
(* Where logs are                                                          *)

LEMMA PositionsAppend ==
    ASSUME NEW S, NEW q \in Seq(S), NEW x \in S, NEW l, NEW name
    PROVE  /\ x = l => Positions(name, Append(q, x), l)
                          = Positions(name, q, l) \cup {<<name, Len(q) + 1>>}
           /\ x # l => Positions(name, Append(q, x), l) = Positions(name, q, l)
<1> DEFINE a == Append(q, x)
<1>1. /\ Len(q) \in Nat
      /\ DOMAIN q = 1..Len(q)
      /\ DOMAIN a = 1..(Len(q) + 1)
      /\ \A i \in 1..Len(q) : a[i] = q[i]
      /\ a[Len(q) + 1] = x
    BY AppendProperties, LenProperties
<1> HIDE DEF a
<1>2. {i \in DOMAIN a : a[i] = l} =
          {i \in DOMAIN q : q[i] = l} \cup {i \in {Len(q) + 1} : x = l}
    BY <1>1
<1> QED
    BY <1>2 DEF Positions, a

LEMMA PositionsTail ==
    ASSUME NEW S, NEW q \in Seq(S), q # <<>>, NEW l, NEW name
    PROVE  Positions(name, Tail(q), l)
               = {<<name, i - 1>> : i \in {j \in DOMAIN q : j > 1 /\ q[j] = l}}
<1> DEFINE p == Tail(q)
<1>1. /\ Len(q) \in Nat
      /\ DOMAIN q = 1..Len(q)
      /\ DOMAIN p = 1..(Len(q) - 1)
      /\ \A i \in 1..(Len(q) - 1) : p[i] = q[i + 1]
    BY HeadTailProperties, LenProperties
<1> HIDE DEF p
<1>2. {i \in DOMAIN p : p[i] = l} = {i - 1 : i \in {j \in DOMAIN q : j > 1 /\ q[j] = l}}
    <2>1. ASSUME NEW i \in DOMAIN p, p[i] = l
          PROVE  i + 1 \in DOMAIN q /\ i + 1 > 1 /\ q[i + 1] = l /\ i = (i + 1) - 1
        BY <1>1, <2>1
    <2>2. ASSUME NEW j \in DOMAIN q, j > 1, q[j] = l
          PROVE  j - 1 \in DOMAIN p /\ p[j - 1] = l
        BY <1>1, <2>2
    <2> QED
        BY <2>1, <2>2
<1> QED
    BY <1>2 DEF Positions, p

LEMMA BatchesAppend ==
    ASSUME NEW q \in Seq(DbMessage), NEW m \in DbMessage, NEW l
    PROVE  /\ m.op = "insert_logs" /\ l \in m.logs =>
                  Batches(Append(q, m), l) = Batches(q, l) \cup {<<"queue", Len(q) + 1>>}
           /\ ~(m.op = "insert_logs" /\ l \in m.logs) =>
                  Batches(Append(q, m), l) = Batches(q, l)
<1> DEFINE a == Append(q, m)
           B(i) == a[i].op = "insert_logs" /\ l \in a[i].logs
           Q(i) == q[i].op = "insert_logs" /\ l \in q[i].logs
           M == m.op = "insert_logs" /\ l \in m.logs
<1>1. /\ Len(q) \in Nat
      /\ DOMAIN q = 1..Len(q)
      /\ DOMAIN a = 1..(Len(q) + 1)
      /\ \A i \in 1..Len(q) : a[i] = q[i]
      /\ a[Len(q) + 1] = m
    BY AppendProperties, LenProperties
<1>2. (\A i \in 1..Len(q) : B(i) <=> Q(i)) /\ (B(Len(q) + 1) <=> M)
    BY <1>1
<1>3. Batches(a, l) = {<<"queue", i>> : i \in {j \in DOMAIN a : B(j)}}
    BY DEF Batches
<1>4. Batches(q, l) = {<<"queue", i>> : i \in {j \in DOMAIN q : Q(j)}}
    BY DEF Batches
<1> HIDE DEF a, B, Q, M
<1>5. {i \in DOMAIN a : B(i)} = {i \in DOMAIN q : Q(i)} \cup {i \in {Len(q) + 1} : M}
    BY <1>1, <1>2
<1>6. M => Batches(a, l) = Batches(q, l) \cup {<<"queue", Len(q) + 1>>}
    BY <1>3, <1>4, <1>5
<1>7. ~M => Batches(a, l) = Batches(q, l)
    BY <1>3, <1>4, <1>5
<1> QED
    BY <1>6, <1>7 DEF a, M

LEMMA BatchesTail ==
    ASSUME NEW q \in Seq(DbMessage), q # <<>>, NEW l
    PROVE  Batches(Tail(q), l)
               = {<<"queue", i - 1>> : i \in {j \in DOMAIN q :
                      j > 1 /\ q[j].op = "insert_logs" /\ l \in q[j].logs}}
<1> DEFINE p == Tail(q)
           P(i) == p[i].op = "insert_logs" /\ l \in p[i].logs
           Q(i) == q[i].op = "insert_logs" /\ l \in q[i].logs
<1>1. /\ Len(q) \in Nat
      /\ DOMAIN q = 1..Len(q)
      /\ DOMAIN p = 1..(Len(q) - 1)
      /\ \A i \in 1..(Len(q) - 1) : p[i] = q[i + 1]
    BY HeadTailProperties, LenProperties
<1>2. \A i \in 1..(Len(q) - 1) : P(i) <=> Q(i + 1)
    BY <1>1
<1>3. Batches(p, l) = {<<"queue", i>> : i \in {j \in DOMAIN p : P(j)}}
    BY DEF Batches
<1> HIDE DEF p, P, Q
<1>4. {i \in DOMAIN p : P(i)} = {i - 1 : i \in {j \in DOMAIN q : j > 1 /\ Q(j)}}
    <2>1. ASSUME NEW i \in DOMAIN p, P(i)
          PROVE  i + 1 \in DOMAIN q /\ i + 1 > 1 /\ Q(i + 1) /\ i = (i + 1) - 1
        BY <1>1, <1>2, <2>1
    <2>2. ASSUME NEW j \in DOMAIN q, j > 1, Q(j)
          PROVE  j - 1 \in DOMAIN p /\ P(j - 1)
        BY <1>1, <1>2, <2>2
    <2> QED
        BY <2>1, <2>2
<1> QED
    BY <1>3, <1>4 DEF p, Q

\* The threads that handle a batch with the log, and the tables it is in
InHands(l) == {<<"thread", t>> : t \in {u \in Threads : InHand(u, l)}}
InTables(l) ==
    Member("table", substrate_logs, l) \cup Member("purged", purged, l)
        \cup Member("lost", lost, l)

LEMMA PlacesParts ==
    ASSUME NEW l
    PROVE  /\ Places(l) = Positions("mailbox", mailbox, l) \cup Positions("logs", logs, l)
                          \cup Batches(queue, l) \cup InHands(l) \cup InTables(l)
           /\ Places(l)' = Positions("mailbox", mailbox', l) \cup Positions("logs", logs', l)
                          \cup Batches(queue', l) \cup InHands(l)' \cup InTables(l)'
BY DEF Places, InHands, InTables

\* The first component tells the parts from each other
LEMMA Names ==
    ASSUME NEW l
    PROVE  /\ \A name, q : \A p \in Positions(name, q, l) : p[1] = name /\ p = <<name, p[2]>>
           /\ \A q : \A p \in Batches(q, l) : p[1] = "queue" /\ p = <<"queue", p[2]>>
           /\ \A p \in InHands(l) : p[1] = "thread" /\ p = <<"thread", p[2]>>
           /\ \A name, S : \A p \in Member(name, S, l) : p = <<name, l>>
           /\ \A p \in InTables(l) : p[1] \in {"table", "purged", "lost"}
BY DEF Positions, Batches, InHands, InTables, Member

\* A step carries a log when each of its places goes over into one place
Carried(l) == \E f : Places(l)' = {f[p] : p \in Places(l)}

LEMMA StaysCarried ==
    ASSUME NEW l, Places(l)' = Places(l)
    PROVE  Carried(l)
<1> DEFINE f == [p \in Places(l) |-> p]
<1>1. Places(l)' = {f[p] : p \in Places(l)}
    OBVIOUS
<1> QED
    BY <1>1 DEF Carried

\* BufferLog: the head of the mailbox becomes the last of the logs
LEMMA BufferLogCarries ==
    ASSUME TypeOK, NEW l \in Logs, BufferLog
    PROVE  Carried(l)
<1> DEFINE n == Len(logs) + 1
           M == Positions("mailbox", mailbox, l)
           L == Positions("logs", logs, l)
           R == Batches(queue, l) \cup InHands(l) \cup InTables(l)
           f == [p \in Places(l) |->
                    IF p = <<"mailbox", 1>> THEN <<"logs", n>>
                    ELSE IF p[1] = "mailbox" THEN <<"mailbox", p[2] - 1>> ELSE p]
<1>1. /\ mailbox \in Seq(Logs \cup {0}) /\ mailbox # <<>>
      /\ 1 \in DOMAIN mailbox /\ DOMAIN mailbox \subseteq Nat \ {0}
      /\ mailbox[1] = Head(mailbox)
      /\ Head(mailbox) \in Logs
      /\ mailbox' = Tail(mailbox)
      /\ logs' = Append(logs, Head(mailbox))
      /\ logs \in Seq(Logs)
    BY HeadTailProperties, LenProperties DEF BufferLog, TypeOK
<1>2. Positions("mailbox", mailbox', l)
        = {<<"mailbox", i - 1>> : i \in {j \in DOMAIN mailbox : j > 1 /\ mailbox[j] = l}}
    BY <1>1, PositionsTail
<1>3. /\ <<"mailbox", 1>> \in M => Positions("logs", logs', l) = L \cup {<<"logs", n>>}
      /\ <<"mailbox", 1>> \notin M => Positions("logs", logs', l) = L
    BY <1>1, PositionsAppend DEF Positions
<1>4. /\ Batches(queue', l) = Batches(queue, l)
      /\ InHands(l)' = InHands(l)
      /\ InTables(l)' = InTables(l)
    BY DEF BufferLog, InHands, InHand, Handling, tableVars, InTables, Member
<1>5. \A p \in L \cup R : p[1] # "mailbox"
    BY Names
<1>6. /\ M = {<<"mailbox", i>> : i \in {j \in DOMAIN mailbox : mailbox[j] = l}}
      /\ Places(l) = M \cup L \cup R
      /\ Places(l)' = Positions("mailbox", mailbox', l) \cup Positions("logs", logs', l) \cup R
    BY <1>4, PlacesParts DEF Positions
<1> HIDE DEF M, L, R
<1>7. Places(l)' = {f[p] : p \in Places(l)}
    <2>1. ASSUME NEW p \in Places(l) PROVE f[p] \in Places(l)'
        <3>1. CASE p \in L \cup R
            BY <3>1, <1>3, <1>5, <1>6
        <3>2. CASE p = <<"mailbox", 1>> /\ p \in M
            BY <3>2, <1>3, <1>5, <1>6
        <3>3. CASE p # <<"mailbox", 1>> /\ p \in M
            BY <3>3, <1>1, <1>2, <1>6
        <3> QED
            BY <1>6, <2>1, <3>1, <3>2, <3>3
    <2>2. ASSUME NEW p \in Places(l)' PROVE \E q \in Places(l) : p = f[q]
        <3>1. CASE p \in L \cup R
            BY <3>1, <1>5, <1>6
        <3>2. CASE p \in Positions("mailbox", mailbox', l)
            <4>1. PICK i \in DOMAIN mailbox : i > 1 /\ mailbox[i] = l /\ p = <<"mailbox", i - 1>>
                BY <3>2, <1>2
            <4>2. <<"mailbox", i>> \in Places(l) /\ p = f[<<"mailbox", i>>]
                BY <4>1, <1>6
            <4> QED
                BY <4>2
        <3>3. CASE <<"mailbox", 1>> \in M /\ p = <<"logs", n>>
            BY <3>3, <1>6
        <3> QED
            BY <2>2, <1>3, <1>6, <3>1, <3>2, <3>3
    <2> HIDE DEF f
    <2> QED
        BY <2>1, <2>2
<1> QED
    BY <1>7 DEF Carried

\* SaveLogs: the mailbox loses its head, which is no log
LEMMA SaveLogsCarries ==
    ASSUME TypeOK, NEW l \in Logs, SaveLogs
    PROVE  Carried(l)
<1> DEFINE M == Positions("mailbox", mailbox, l)
           R == Positions("logs", logs, l) \cup Batches(queue, l) \cup InHands(l) \cup InTables(l)
           f == [p \in Places(l) |-> IF p[1] = "mailbox" THEN <<"mailbox", p[2] - 1>> ELSE p]
<1>1. /\ mailbox \in Seq(Logs \cup {0}) /\ mailbox # <<>>
      /\ DOMAIN mailbox \subseteq Nat \ {0}
      /\ mailbox[1] # l
      /\ mailbox' = Tail(mailbox)
    BY HeadTailProperties, LenProperties DEF SaveLogs, TypeOK, Logs
<1>2. Positions("mailbox", mailbox', l)
        = {<<"mailbox", i - 1>> : i \in {j \in DOMAIN mailbox : mailbox[j] = l}}
    <2>1. \A j \in DOMAIN mailbox : mailbox[j] = l => j > 1
        BY <1>1
    <2> QED
        BY <1>1, <2>1, PositionsTail
<1>3. R = Positions("logs", logs', l) \cup Batches(queue', l) \cup InHands(l)' \cup InTables(l)'
    BY DEF SaveLogs, InHands, InHand, Handling, tableVars, InTables, Member
<1>4. \A p \in R : p[1] # "mailbox"
    BY Names
<1>5. /\ M = {<<"mailbox", i>> : i \in {j \in DOMAIN mailbox : mailbox[j] = l}}
      /\ Places(l) = M \cup R
      /\ Places(l)' = Positions("mailbox", mailbox', l) \cup R
    BY <1>3, PlacesParts DEF Positions
<1> HIDE DEF M, R
<1>6. ASSUME NEW p \in Places(l) PROVE f[p] \in Places(l)'
    BY <1>2, <1>4, <1>5, <1>6
<1>7. ASSUME NEW p \in Places(l)' PROVE \E q \in Places(l) : p = f[q]
    <2>1. CASE p \in R
        BY <2>1, <1>4, <1>5
    <2>2. CASE p \in Positions("mailbox", mailbox', l)
        <3>1. PICK i \in DOMAIN mailbox : mailbox[i] = l /\ p = <<"mailbox", i - 1>>
            BY <2>2, <1>2
        <3>2. <<"mailbox", i>> \in Places(l) /\ p = f[<<"mailbox", i>>]
            BY <3>1, <1>5
        <3> QED
            BY <3>2
    <2> QED
        BY <1>5, <1>7, <2>1, <2>2
<1> HIDE DEF f
<1>8. Places(l)' = {f[p] : p \in Places(l)}
    BY <1>6, <1>7
<1> QED
    BY <1>8 DEF Carried

\* SaveBatch: the last logs become a batch of the queue, or are lost
LEMMA SaveBatchCarries ==
    ASSUME TypeOK, NEW l \in Logs, SaveBatch
    PROVE  Carried(l)
<1> DEFINE at == SplitAt(Len(logs))
           batch == {logs[i] : i \in (at + 1)..Len(logs)}
           message == [op |-> "insert_logs", logs |-> batch]
           room == Len(queue) < DB_MAILBOX
           to == IF room THEN <<"queue", Len(queue) + 1>> ELSE <<"lost", l>>
           L == Positions("logs", logs, l)
           R == Positions("mailbox", mailbox, l) \cup Batches(queue, l) \cup InHands(l)
                \cup InTables(l)
           f == [p \in Places(l) |-> IF p[1] = "logs" /\ p[2] > at THEN to ELSE p]
<1>1. Len(logs) \in Nat /\ DOMAIN logs = 1..Len(logs) /\ at \in 0..Len(logs)
    BY IngestAssumption, LenProperties DEF TypeOK, SplitAt
<1>2. \A i \in 1..Len(logs) : logs[i] \in Logs
    BY ElementOfSeq DEF TypeOK
<1>3. /\ logs' = SubSeq(logs, 1, at)
      /\ queue' = Offer(queue, message)
      /\ lost' = IF room THEN lost ELSE lost \cup batch
      /\ UNCHANGED <<mailbox, thread, substrate_logs, purged>>
    BY DEF SaveBatch, tableVars
<1> HIDE DEF at
<1>4. Positions("logs", logs', l) = {p \in L : p[2] <= at}
    <2>1. DOMAIN logs' = 1..at /\ \A i \in 1..at : logs'[i] = logs[i]
        BY <1>1, <1>2, <1>3, SubSeqProperties
    <2>2. {i \in DOMAIN logs' : logs'[i] = l} = {i \in DOMAIN logs : logs[i] = l /\ i <= at}
        BY <1>1, <2>1
    <2> QED
        BY <1>1, <2>2 DEF Positions
<1>5. message \in DbMessage
    BY <1>1, <1>2 DEF DbMessage
<1>6. l \in batch <=> \E p \in L : p[2] > at
    <2>1. \A i : i \in (at + 1)..Len(logs) <=> i \in DOMAIN logs /\ i > at
        BY <1>1
    <2>2. l \in batch <=> \E i \in DOMAIN logs : i > at /\ logs[i] = l
        BY <2>1
    <2>3. L = {<<"logs", i>> : i \in {j \in DOMAIN logs : logs[j] = l}}
        BY DEF Positions
    <2> HIDE DEF L, batch
    <2>4. ASSUME NEW p \in L, p[2] > at PROVE l \in batch
        BY <2>2, <2>3, <2>4
    <2>5. ASSUME NEW i \in DOMAIN logs, i > at, logs[i] = l PROVE \E p \in L : p[2] > at
        <3>1. <<"logs", i>> \in L /\ <<"logs", i>>[2] > at
            BY <2>3, <2>5
        <3> QED
            BY <3>1
    <2> QED
        BY <2>2, <2>4, <2>5
<1>7. Batches(queue', l) \cup Member("lost", lost', l)
        = Batches(queue, l) \cup Member("lost", lost, l) \cup {to : p \in {x \in L : x[2] > at}}
    <2>1. CASE room
        <3>1. queue' = Append(queue, message) /\ lost' = lost
            BY <1>3, <2>1 DEF Offer
        <3>2. l \in batch => Batches(queue', l) = Batches(queue, l) \cup {to}
            BY <1>5, <2>1, <3>1, BatchesAppend DEF TypeOK
        <3>3. l \notin batch => Batches(queue', l) = Batches(queue, l)
            BY <1>5, <2>1, <3>1, BatchesAppend DEF TypeOK
        <3> HIDE DEF batch, message, to, L
        <3> QED
            BY <1>6, <3>1, <3>2, <3>3
    <2>2. CASE ~room
        <3>1. queue' = queue /\ lost' = lost \cup batch
            BY <1>3, <2>2 DEF Offer
        <3>2. l \in batch => Member("lost", lost', l) = Member("lost", lost, l) \cup {to}
            BY <2>2, <3>1 DEF Member
        <3>3. l \notin batch => Member("lost", lost', l) = Member("lost", lost, l)
            BY <3>1 DEF Member
        <3> HIDE DEF batch, message, to, L
        <3> QED
            BY <1>6, <3>1, <3>2, <3>3
    <2> QED
        BY <2>1, <2>2
<1>8. R \cup {to : p \in {x \in L : x[2] > at}}
        = Positions("mailbox", mailbox', l) \cup Batches(queue', l) \cup InHands(l)' \cup InTables(l)'
    <2>1. /\ Positions("mailbox", mailbox', l) = Positions("mailbox", mailbox, l)
          /\ InHands(l)' = InHands(l)
          /\ Member("table", substrate_logs', l) = Member("table", substrate_logs, l)
          /\ Member("purged", purged', l) = Member("purged", purged, l)
        BY <1>3 DEF InHands, InHand, Handling
    <2> HIDE DEF L, to
    <2> QED
        BY <1>7, <2>1 DEF InTables
<1>9. (\A p \in L : p[1] = "logs" /\ p[2] \in Nat) /\ (\A p \in R : p[1] # "logs")
    <2>1. \A p \in L : p[1] = "logs" /\ p[2] \in Nat
        BY <1>1 DEF Positions
    <2> QED
        BY <2>1, Names
<1>10. /\ Places(l) = L \cup R
       /\ Places(l)' = {p \in L : p[2] <= at} \cup R \cup {to : p \in {x \in L : x[2] > at}}
    BY <1>4, <1>8, PlacesParts
<1>11. at \in Nat
    BY <1>1
<1> HIDE DEF L, R, to
<1>12. Places(l)' = {f[p] : p \in Places(l)}
    <2>1. ASSUME NEW p \in Places(l) PROVE f[p] \in Places(l)'
        BY <1>9, <1>10, <1>11, <2>1
    <2>2. ASSUME NEW p \in Places(l)' PROVE \E q \in Places(l) : p = f[q]
        <3>1. CASE p \in R
            BY <3>1, <1>9, <1>10
        <3>2. CASE p \in L /\ p[2] <= at
            BY <3>2, <1>9, <1>10, <1>11
        <3>3. CASE p = to /\ \E x \in L : x[2] > at
            BY <3>3, <1>9, <1>10
        <3> QED
            BY <2>2, <1>10, <3>1, <3>2, <3>3
    <2> HIDE DEF f
    <2> QED
        BY <2>1, <2>2
<1> QED
    BY <1>12 DEF Carried

\* Take: the head of the queue becomes what the thread handles
LEMMA TakeCarries ==
    ASSUME TypeOK, NEW l \in Logs, NEW t \in Threads, Take(t)
    PROVE  Carried(l)
<1> DEFINE Q == Batches(queue, l)
           H == InHands(l)
           R == Positions("mailbox", mailbox, l) \cup Positions("logs", logs, l) \cup InTables(l)
           f == [p \in Places(l) |->
                    IF p = <<"queue", 1>> THEN <<"thread", t>>
                    ELSE IF p[1] = "queue" THEN <<"queue", p[2] - 1>> ELSE p]
<1>1. /\ queue \in Seq(DbMessage) /\ queue # <<>>
      /\ 1 \in DOMAIN queue /\ DOMAIN queue \subseteq Nat \ {0}
      /\ queue[1] = Head(queue)
      /\ Head(queue) \in DbMessage /\ Head(queue) # Idle
      /\ queue' = Tail(queue)
    BY HeadTailProperties, LenProperties, IdleAssumption DEF Take, TypeOK
<1>2. Batches(queue', l)
        = {<<"queue", i - 1>> : i \in {j \in DOMAIN queue :
               j > 1 /\ queue[j].op = "insert_logs" /\ l \in queue[j].logs}}
    BY <1>1, BatchesTail
<1>3. /\ \A u \in Threads \ {t} : InHand(u, l)' <=> InHand(u, l)
      /\ ~InHand(t, l)
      /\ InHand(t, l)' <=> <<"queue", 1>> \in Q
    <2>1. thread[t] = Idle /\ thread' = [thread EXCEPT ![t] = Head(queue)]
        BY DEF Take
    <2>2. thread'[t] = queue[1] /\ thread'[t] # Idle
        BY <1>1, <2>1 DEF TypeOK
    <2>3. \A u \in Threads \ {t} : thread'[u] = thread[u]
        BY <2>1 DEF TypeOK
    <2>4. <<"queue", 1>> \in Q <=> queue[1].op = "insert_logs" /\ l \in queue[1].logs
        BY <1>1 DEF Batches
    <2> QED
        BY <2>1, <2>2, <2>3, <2>4 DEF InHand, Handling
<1>4. InHands(l)' = H \cup {<<"thread", t>> : p \in {<<"queue", 1>>} \cap Q}
    <2>1. \A u \in Threads : InHand(u, l)' <=> InHand(u, l) \/ (u = t /\ <<"queue", 1>> \in Q)
        BY <1>3
    <2> HIDE DEF Q
    <2>2. {u \in Threads : InHand(u, l)'}
            = {u \in Threads : InHand(u, l)} \cup {u \in {t} : <<"queue", 1>> \in Q}
        BY <2>1
    <2> QED
        BY <2>2 DEF InHands
<1>5. R = Positions("mailbox", mailbox', l) \cup Positions("logs", logs', l) \cup InTables(l)'
    BY DEF Take, bufferVars, tableVars, InTables, Member
<1>6. \A p \in R \cup H : p[1] # "queue"
    BY Names
<1>7. Q = {<<"queue", i>> : i \in {j \in DOMAIN queue :
               queue[j].op = "insert_logs" /\ l \in queue[j].logs}}
    BY DEF Batches
<1>8. /\ Places(l) = Q \cup H \cup R
      /\ Places(l)' = Batches(queue', l) \cup InHands(l)' \cup R
    BY <1>5, PlacesParts
<1> HIDE DEF Q, H, R
<1>9. Places(l)' = {f[p] : p \in Places(l)}
    <2>1. ASSUME NEW p \in Places(l) PROVE f[p] \in Places(l)'
        <3>1. CASE p \in R \cup H
            BY <3>1, <1>4, <1>6, <1>8
        <3>2. CASE p = <<"queue", 1>> /\ p \in Q
            BY <3>2, <1>4, <1>8
        <3>3. CASE p # <<"queue", 1>> /\ p \in Q
            BY <3>3, <1>1, <1>2, <1>7, <1>8
        <3> QED
            BY <1>8, <2>1, <3>1, <3>2, <3>3
    <2>2. ASSUME NEW p \in Places(l)' PROVE \E q \in Places(l) : p = f[q]
        <3>1. CASE p \in R \cup H
            BY <3>1, <1>6, <1>8
        <3>2. CASE p \in Batches(queue', l)
            <4>1. PICK i \in DOMAIN queue :
                      /\ i > 1 /\ queue[i].op = "insert_logs" /\ l \in queue[i].logs
                      /\ p = <<"queue", i - 1>>
                BY <3>2, <1>2
            <4>2. <<"queue", i>> \in Places(l) /\ p = f[<<"queue", i>>]
                BY <4>1, <1>7, <1>8
            <4> QED
                BY <4>2
        <3>3. CASE <<"queue", 1>> \in Q /\ p = <<"thread", t>>
            BY <3>3, <1>8
        <3> QED
            BY <2>2, <1>4, <1>8, <3>1, <3>2, <3>3
    <2> HIDE DEF f
    <2> QED
        BY <2>1, <2>2
<1> QED
    BY <1>9 DEF Carried

\* A thread has done with its batch: the logs of the batch go where `to` says,
\* the table or the lost ones; no other log moves.
LEMMA BatchDoneCarries ==
    ASSUME TypeOK, NEW l \in Logs, NEW t \in Threads, Handling(t, "insert_logs"),
           thread' = [thread EXCEPT ![t] = Idle],
           UNCHANGED <<mailbox, logs, queue, purged>>,
           NEW refused \in BOOLEAN,
           IF refused THEN lost' = lost \cup thread[t].logs /\ UNCHANGED substrate_logs
           ELSE substrate_logs' = substrate_logs \cup thread[t].logs /\ UNCHANGED lost
    PROVE  Carried(l)
<1> DEFINE H == InHands(l)
           R == Positions("mailbox", mailbox, l) \cup Positions("logs", logs, l)
                \cup Batches(queue, l) \cup InTables(l)
           to == IF refused THEN <<"lost", l>> ELSE <<"table", l>>
           f == [p \in Places(l) |-> IF p = <<"thread", t>> THEN to ELSE p]
<1>1. H = {<<"thread", u>> : u \in {v \in Threads : InHand(v, l)}}
    BY DEF InHands
<1>2. InHands(l)' = H \ {<<"thread", t>>}
    <2>1. thread'[t] = Idle /\ \A u \in Threads \ {t} : thread'[u] = thread[u]
        BY DEF TypeOK
    <2>2. \A u \in Threads : InHand(u, l)' <=> InHand(u, l) /\ u # t
        BY <2>1 DEF InHand, Handling
    <2>3. {u \in Threads : InHand(u, l)'} = {u \in Threads : InHand(u, l)} \ {t}
        BY <2>2
    <2>4. InHands(l)' = {<<"thread", u>> : u \in {v \in Threads : InHand(v, l)} \ {t}}
        BY <2>3 DEF InHands
    <2> HIDE DEF H
    <2> QED
        BY <1>1, <2>4
<1>3. <<"thread", t>> \in H <=> l \in thread[t].logs
    BY <1>1 DEF InHand
<1>4. /\ l \in thread[t].logs => InTables(l)' = InTables(l) \cup {to}
      /\ l \notin thread[t].logs => InTables(l)' = InTables(l)
    <2>1. CASE refused
        BY <2>1 DEF InTables, Member
    <2>2. CASE ~refused
        BY <2>2 DEF InTables, Member
    <2> QED
        BY <2>1, <2>2
<1>5. \A p \in R : p[1] # "thread"
    BY Names
<1>6. /\ Places(l) = H \cup R
      /\ Places(l)' = InHands(l)' \cup R \cup {to : p \in {<<"thread", t>>} \cap H}
    <2>1. Places(l)' = Positions("mailbox", mailbox, l) \cup Positions("logs", logs, l)
                       \cup Batches(queue, l) \cup InHands(l)' \cup InTables(l)'
        BY PlacesParts
    <2>2. Places(l) = H \cup R
        BY PlacesParts
    <2> HIDE DEF H, to
    <2> QED
        BY <1>3, <1>4, <2>1, <2>2
<1> HIDE DEF H, R, to
<1>7. Places(l)' = {f[p] : p \in Places(l)}
    <2>1. ASSUME NEW p \in Places(l) PROVE f[p] \in Places(l)'
        <3>1. CASE p = <<"thread", t>>
            <4>1. p \in H
                BY <3>1, <2>1, <1>5, <1>6
            <4>2. to \in Places(l)'
                BY <3>1, <4>1, <1>6
            <4> QED
                BY <3>1, <4>2
        <3>2. CASE p # <<"thread", t>>
            BY <3>2, <1>2, <1>6, <2>1
        <3> QED
            BY <3>1, <3>2
    <2>2. ASSUME NEW p \in Places(l)' PROVE \E q \in Places(l) : p = f[q]
        BY <1>2, <1>5, <1>6, <2>2
    <2> HIDE DEF f
    <2> QED
        BY <2>1, <2>2
<1> QED
    BY <1>7 DEF Carried

\* What a thread does with a message that is no batch is nothing to logs
LEMMA NoBatchInHand ==
    ASSUME TypeOK, NEW l, NEW t \in Threads, NEW m,
           thread' = [thread EXCEPT ![t] = m],
           ~Handling(t, "insert_logs"), m = Idle \/ m.op # "insert_logs"
    PROVE  InHands(l)' = InHands(l)
<1>1. /\ \A u \in Threads \ {t} : thread'[u] = thread[u]
      /\ thread'[t] = m
    BY DEF TypeOK
<1>2. \A u \in Threads : InHand(u, l)' <=> InHand(u, l)
    BY <1>1 DEF InHand, Handling
<1> QED
    BY <1>2 DEF InHands

LEMMA OfferOther ==
    ASSUME TypeOK, NEW l, NEW m \in DbMessage, m.op # "insert_logs"
    PROVE  /\ Batches(Offer(queue, m), l) = Batches(queue, l)
           /\ Batches(Append(queue, m), l) = Batches(queue, l)
BY BatchesAppend DEF Offer, TypeOK

\* PurgeExpiredLogs: what may be purged of the table is purged
LEMMA PurgeCarries ==
    ASSUME TypeOK, NEW l \in Logs, NEW t \in Threads, PurgeExpiredLogs(t)
    PROVE  Carried(l)
<1> DEFINE R == Positions("mailbox", mailbox, l) \cup Positions("logs", logs, l)
                \cup Batches(queue, l) \cup InHands(l) \cup Member("lost", lost, l)
           T == Member("table", substrate_logs, l)
           P == Member("purged", purged, l)
           f == [p \in Places(l) |->
                    IF p = <<"table", l>> /\ Purgeable(l) THEN <<"purged", l>> ELSE p]
<1>1. R = Positions("mailbox", mailbox', l) \cup Positions("logs", logs', l)
          \cup Batches(queue', l) \cup InHands(l)' \cup Member("lost", lost', l)
    <2>1. InHands(l)' = InHands(l)
        BY NoBatchInHand DEF PurgeExpiredLogs, Handling
    <2> QED
        BY <2>1 DEF PurgeExpiredLogs, bufferVars
<1>2. T = {<<"table", l>> : x \in {l} \cap substrate_logs}
    BY DEF Member
<1>3. Member("table", substrate_logs', l) = {p \in T : ~Purgeable(l)}
    BY DEF PurgeExpiredLogs, Member
<1>4. Member("purged", purged', l) = P \cup {<<"purged", l>> : p \in {x \in T : Purgeable(l)}}
    BY DEF PurgeExpiredLogs, Member
<1>5. \A p \in R \cup P : p # <<"table", l>>
    <2>1. /\ \A p \in Positions("mailbox", mailbox, l) \cup Positions("logs", logs, l)
                     \cup Batches(queue, l) \cup InHands(l) : p[1] # "table"
          /\ \A p \in Member("lost", lost, l) \cup P : p[1] # "table"
        BY Names
    <2> QED
        BY <2>1
<1>6. /\ Places(l) = R \cup T \cup P
      /\ Places(l)' = R \cup Member("table", substrate_logs', l) \cup Member("purged", purged', l)
    BY <1>1, PlacesParts DEF InTables
<1>7. \A p \in T : p = <<"table", l>>
    BY <1>2
<1> HIDE DEF R, T, P
<1>8. Places(l)' = {f[p] : p \in Places(l)}
    <2>1. ASSUME NEW p \in Places(l) PROVE f[p] \in Places(l)'
        BY <1>3, <1>4, <1>5, <1>6, <1>7, <2>1
    <2>2. ASSUME NEW p \in Places(l)' PROVE \E q \in Places(l) : p = f[q]
        <3>1. CASE p \in R \cup P
            BY <3>1, <1>5, <1>6
        <3>2. CASE p \in T /\ ~Purgeable(l)
            BY <3>2, <1>6
        <3>3. CASE p = <<"purged", l>> /\ Purgeable(l) /\ T # {}
            BY <3>3, <1>6, <1>7
        <3> QED
            BY <2>2, <1>3, <1>4, <1>6, <3>1, <3>2, <3>3
    <2> HIDE DEF f
    <2> QED
        BY <2>1, <2>2
<1> QED
    BY <1>8 DEF Carried

\* Every step carries every log, whatever the step, except that Receive makes
\* a new one.
LEMMA StepCarries ==
    ASSUME TypeOK, [Next]_vars, NEW l \in Logs, l = received + 1 => UNCHANGED received
    PROVE  Carried(l)
<1> USE DEF vars, socketVars, bufferVars, tableVars
<1> DEFINE Unmoved ==
        /\ Positions("mailbox", mailbox', l) = Positions("mailbox", mailbox, l)
        /\ logs' = logs
        /\ Batches(queue', l) = Batches(queue, l)
        /\ InHands(l)' = InHands(l)
        /\ InTables(l)' = InTables(l)
<1>a. ASSUME Unmoved PROVE Carried(l)
    BY <1>a, PlacesParts, StaysCarried
<1>b. UNCHANGED <<substrate_logs, purged, lost>> => InTables(l)' = InTables(l)
    BY DEF InTables, Member
<1>c. UNCHANGED thread => InHands(l)' = InHands(l)
    BY DEF InHands, InHand, Handling
<1>1. ASSUME NEW c \in Conns, Request(c) PROVE Carried(l)
    <2>1. [op |-> "insert_connection", conn |-> c] \in DbMessage
        BY DEF DbMessage
    <2> QED
        BY <1>1, <1>a, <1>b, <1>c, <2>1, OfferOther DEF Request
<1>2. ASSUME NEW c \in Conns, Close(c) PROVE Carried(l)
    BY <1>2, <1>a, <1>b, <1>c DEF Close
<1>3. ASSUME NEW c \in Conns, NEW kind \in Kinds, NEW timestamped \in Timestamped,
             Receive(c, kind, timestamped)
      PROVE  Carried(l)
    <2> DEFINE m == [op |-> "update_connection", conn |-> c, info |-> Learned(info[c], kind)]
    <2>1. m \in DbMessage
        BY LearnedType DEF DbMessage, TypeOK
    <2>2. queue' = queue \/ queue' = Offer(queue, m)
        BY <1>3 DEF Receive
    <2>3. Batches(queue', l) = Batches(queue, l)
        BY <2>1, <2>2, OfferOther
    <2>4. /\ Positions("mailbox", mailbox', l) = Positions("mailbox", mailbox, l)
          /\ InTables(l)' = InTables(l)
        <3>1. CASE Forward(c)
            <4>1. received + 1 \in Logs /\ received + 1 # l
                BY <3>1, IngestAssumption DEF Forward, TypeOK, Logs
            <4>2. mailbox' = mailbox \/ mailbox' = Append(mailbox, received + 1)
                BY <3>1 DEF Forward
            <4>3. Positions("mailbox", mailbox', l) = Positions("mailbox", mailbox, l)
                <5>1. mailbox \in Seq(Logs \cup {0}) /\ received + 1 \in Logs \cup {0}
                    BY <4>1 DEF TypeOK
                <5>2. Positions("mailbox", Append(mailbox, received + 1), l)
                        = Positions("mailbox", mailbox, l)
                    BY <4>1, <5>1, PositionsAppend
                <5> QED
                    BY <4>2, <5>2
            <4>4. l \in lost' <=> l \in lost
                BY <3>1, <4>1 DEF Forward
            <4>5. UNCHANGED <<substrate_logs, purged>>
                BY <1>3 DEF Receive
            <4> QED
                BY <4>3, <4>4, <4>5 DEF InTables, Member
        <3>2. CASE UNCHANGED <<received, source, mailbox, lost>>
            BY <3>2, <1>3, <1>b DEF Receive
        <3> QED
            BY <1>3, <3>1, <3>2 DEF Receive
    <2> QED
        BY <1>3, <1>a, <1>c, <2>3, <2>4 DEF Receive
<1>4. CASE SaveTimer
    <2>1. Positions("mailbox", mailbox', l) = Positions("mailbox", mailbox, l)
        <3>1. mailbox \in Seq(Logs \cup {0}) /\ 0 \in Logs \cup {0} /\ 0 # l
            BY DEF TypeOK, Logs
        <3>2. Positions("mailbox", Append(mailbox, 0), l) = Positions("mailbox", mailbox, l)
            BY <3>1, PositionsAppend
        <3> QED
            BY <1>4, <3>2 DEF SaveTimer
    <2> QED
        BY <1>4, <1>a, <1>b, <1>c, <2>1 DEF SaveTimer
<1>5. CASE BufferLog
    BY <1>5, BufferLogCarries
<1>6. CASE SaveLogs
    BY <1>6, SaveLogsCarries
<1>7. CASE SaveBatch
    BY <1>7, SaveBatchCarries
<1>8. CASE PurgeTimer
    <2>1. [op |-> "purge_logs"] \in DbMessage
        BY DEF DbMessage
    <2> QED
        BY <1>8, <1>a, <1>b, <1>c, <2>1, OfferOther DEF PurgeTimer
<1>9. ASSUME NEW t \in Threads, Take(t) PROVE Carried(l)
    BY <1>9, TakeCarries
<1>10. ASSUME NEW t \in Threads, InsertConnection(t) PROVE Carried(l)
    <2>1. InHands(l)' = InHands(l)
        <3>1. ~Handling(t, "insert_logs") /\ thread' = [thread EXCEPT ![t] = Idle]
            BY <1>10 DEF InsertConnection, Done, Handling
        <3> QED
            BY <3>1, NoBatchInHand
    <2> QED
        BY <1>10, <1>a, <1>b, <2>1 DEF InsertConnection
<1>11. ASSUME NEW t \in Threads, UpdateConnection(t) PROVE Carried(l)
    <2>1. InHands(l)' = InHands(l)
        <3>1. ~Handling(t, "insert_logs") /\ thread' = [thread EXCEPT ![t] = Idle]
            BY <1>11 DEF UpdateConnection, Done, Handling
        <3> QED
            BY <3>1, NoBatchInHand
    <2> QED
        BY <1>11, <1>a, <1>b, <2>1 DEF UpdateConnection
<1>12. ASSUME NEW t \in Threads, InsertLogs(t) PROVE Carried(l)
    <2> DEFINE refused == ~\A x \in thread[t].logs : Stored(source[x])
    <2>1. refused \in BOOLEAN
        OBVIOUS
    <2>2. IF refused THEN lost' = lost \cup thread[t].logs /\ UNCHANGED substrate_logs
          ELSE substrate_logs' = substrate_logs \cup thread[t].logs /\ UNCHANGED lost
        BY <1>12 DEF InsertLogs
    <2> HIDE DEF refused
    <2>3. /\ Handling(t, "insert_logs")
          /\ thread' = [thread EXCEPT ![t] = Idle]
          /\ UNCHANGED <<mailbox, logs, queue, purged>>
        BY <1>12 DEF InsertLogs, Done
    <2> QED
        BY <2>1, <2>2, <2>3, BatchDoneCarries
<1>13. ASSUME NEW t \in Threads, PurgeExpiredLogs(t) PROVE Carried(l)
    BY <1>13, PurgeCarries
<1>14. ASSUME NEW t \in Threads, PurgeConnections(t) PROVE Carried(l)
    <2>1. InHands(l)' = InHands(l)
        <3>1. ~Handling(t, "insert_logs") /\ thread' = [thread EXCEPT ![t] = Idle]
            BY <1>14 DEF PurgeConnections, Done, Handling
        <3> QED
            BY <3>1, NoBatchInHand
    <2> QED
        BY <1>14, <1>a, <1>b, <2>1 DEF PurgeConnections
<1>15. ASSUME NEW t \in Threads, Fail(t) PROVE Carried(l)
    <2>1. CASE thread[t].op = "insert_logs"
        <3>1. /\ Handling(t, "insert_logs")
              /\ thread' = [thread EXCEPT ![t] = Idle]
              /\ UNCHANGED <<mailbox, logs, queue, purged, substrate_logs>>
              /\ lost' = lost \cup thread[t].logs
            BY <1>15, <2>1 DEF Fail, Handling
        <3> QED
            BY <3>1, BatchDoneCarries
    <2>2. CASE thread[t].op # "insert_logs"
        <3>1. InHands(l)' = InHands(l)
            <4> DEFINE m == IF thread[t].op = "purge_logs" THEN [op |-> "purge_connections"]
                            ELSE Idle
            <4>1. thread' = [thread EXCEPT ![t] = m]
                BY <1>15 DEF Fail
            <4>2. m = Idle \/ m.op # "insert_logs"
                OBVIOUS
            <4> HIDE DEF m
            <4> QED
                BY <2>2, <4>1, <4>2, NoBatchInHand DEF Handling
        <3> QED
            BY <1>15, <2>2, <1>a, <1>b, <3>1 DEF Fail
    <2> QED
        BY <2>1, <2>2
<1>16. ASSUME NEW x \in Logs, Expire(x) PROVE Carried(l)
    BY <1>16, <1>a, <1>b, <1>c DEF Expire
<1>17. CASE UNCHANGED vars
    BY <1>17, <1>a, <1>b, <1>c
<1> QED
    BY <1>1, <1>2, <1>3, <1>4, <1>5, <1>6, <1>7, <1>8, <1>9, <1>10, <1>11, <1>12, <1>13,
       <1>14, <1>15, <1>16, <1>17 DEF Next, Work

-----------------------------------------------------------------------------
(* The accounting of logs                                                  *)

\* What Forward adds to the places of the log it makes: the mailbox of the
\* LogBuffer, or lost
LEMMA NewLogHasOnePlace ==
    ASSUME TypeOK, NEW l \in Logs, l = received + 1, Places(l) = {},
           NEW c \in Conns, NEW kind \in Kinds, NEW timestamped \in Timestamped,
           Receive(c, kind, timestamped), Forward(c)
    PROVE  \E p : Places(l)' = {p}
<1> DEFINE m == [op |-> "update_connection", conn |-> c, info |-> Learned(info[c], kind)]
<1>1. Batches(queue', l) = Batches(queue, l)
    <2>1. m \in DbMessage
        BY LearnedType DEF DbMessage, TypeOK
    <2>2. queue' = queue \/ queue' = Offer(queue, m)
        BY DEF Receive
    <2> QED
        BY <2>1, <2>2, OfferOther
<1>2. /\ UNCHANGED <<logs, thread, substrate_logs, purged>>
      /\ InHands(l)' = InHands(l)
      /\ Positions("logs", logs', l) = Positions("logs", logs, l)
    BY DEF Receive, InHands, InHand, Handling, tableVars
<1>3. /\ Positions("mailbox", mailbox, l) = {} /\ Positions("logs", logs, l) = {}
      /\ Batches(queue, l) = {} /\ InHands(l) = {}
      /\ Member("table", substrate_logs, l) = {} /\ Member("purged", purged, l) = {}
      /\ Member("lost", lost, l) = {}
    BY PlacesParts DEF InTables
<1>4. Places(l)' = Positions("mailbox", mailbox', l) \cup Member("lost", lost', l)
    BY <1>1, <1>2, <1>3, PlacesParts DEF InTables
<1>5. CASE Len(mailbox) < BUFFER_MAILBOX
    <2>1. mailbox' = Append(mailbox, l) /\ lost' = lost
        BY <1>5 DEF Forward
    <2>2. mailbox \in Seq(Logs \cup {0}) /\ l \in Logs \cup {0}
        BY DEF TypeOK
    <2>3. Positions("mailbox", mailbox', l) = {<<"mailbox", Len(mailbox) + 1>>}
        BY <1>3, <2>1, <2>2, PositionsAppend
    <2> QED
        BY <1>3, <1>4, <2>1, <2>3
<1>6. CASE ~(Len(mailbox) < BUFFER_MAILBOX)
    <2>1. mailbox' = mailbox /\ lost' = lost \cup {l}
        BY <1>6 DEF Forward
    <2>2. Member("lost", lost', l) = {<<"lost", l>>}
        BY <2>1 DEF Member
    <2> QED
        BY <1>3, <1>4, <2>1, <2>2
<1> QED
    BY <1>5, <1>6

\* A log that was received is in one place, one that was not is nowhere.
PlacesInv ==
    \A l \in Logs : IF l <= received THEN \E p : Places(l) = {p} ELSE Places(l) = {}
AccountingInv == TypeOK /\ PlacesInv

\* What is carried from one place is in one place, from none in none
LEMMA CarriedKeeps ==
    ASSUME NEW l, Carried(l)
    PROVE  /\ Places(l) = {} => Places(l)' = {}
           /\ (\E p : Places(l) = {p}) => \E p : Places(l)' = {p}
<1>1. PICK f : Places(l)' = {f[p] : p \in Places(l)}
    BY DEF Carried
<1>2. Places(l) = {} => Places(l)' = {}
    BY <1>1
<1>3. ASSUME NEW p, Places(l) = {p} PROVE Places(l)' = {f[p]}
    BY <1>1, <1>3
<1> QED
    BY <1>2, <1>3

\* received grows by one, and only with a Forward
LEMMA ReceivedStep ==
    ASSUME TypeOK, [Next]_vars
    PROVE  \/ UNCHANGED received
           \/ /\ received' = received + 1
              /\ \E c \in Conns, kind \in Kinds, timestamped \in Timestamped :
                     Receive(c, kind, timestamped) /\ Forward(c)
<1>1. ASSUME NEW c \in Conns, NEW kind \in Kinds, NEW timestamped \in Timestamped,
             Receive(c, kind, timestamped)
      PROVE  UNCHANGED received \/ (received' = received + 1 /\ Forward(c))
    BY <1>1 DEF Receive, Forward
<1>2. \/ UNCHANGED received
      \/ \E c \in Conns, kind \in Kinds, timestamped \in Timestamped :
             Receive(c, kind, timestamped)
    BY DEF Next, vars, socketVars, Request, Close, SaveTimer, BufferLog, SaveLogs, SaveBatch,
       PurgeTimer, Work, Take, InsertConnection, UpdateConnection, InsertLogs, PurgeExpiredLogs,
       PurgeConnections, Fail, Expire
<1> QED
    BY <1>1, <1>2

LEMMA PlacesInit == Init => PlacesInv
<1> SUFFICES ASSUME Init, NEW l \in Logs PROVE ~(l <= received) /\ Places(l) = {}
    BY DEF PlacesInv
<1>1. ~(l <= received)
    BY DEF Init, Logs
<1>2. DOMAIN mailbox = {} /\ DOMAIN logs = {} /\ DOMAIN queue = {}
    BY DEF Init
<1>3. \A t \in Threads : thread[t] = Idle
    BY DEF Init
<1>4. substrate_logs = {} /\ purged = {} /\ lost = {}
    BY DEF Init
<1> QED
    BY <1>1, <1>2, <1>3, <1>4 DEF Places, Positions, Batches, InHand, Handling, Member

LEMMA PlacesStep == AccountingInv /\ [Next]_vars => PlacesInv'
<1> SUFFICES ASSUME AccountingInv, [Next]_vars, NEW l \in Logs
             PROVE  IF l <= received' THEN \E p : Places(l)' = {p} ELSE Places(l)' = {}
    BY DEF PlacesInv
<1>1. TypeOK /\ (IF l <= received THEN \E p : Places(l) = {p} ELSE Places(l) = {})
    BY DEF AccountingInv, PlacesInv
<1>2. received \in Nat /\ l \in Nat
    BY <1>1 DEF TypeOK, Logs
<1>3. CASE UNCHANGED received
    BY <1>1, <1>3, StepCarries, CarriedKeeps
<1>4. CASE received' = received + 1 /\ l # received + 1
    <2>1. l <= received' <=> l <= received
        BY <1>2, <1>4
    <2> QED
        BY <1>1, <1>4, <2>1, StepCarries, CarriedKeeps
<1>5. CASE received' = received + 1 /\ l = received + 1
    <2>1. Places(l) = {} /\ l <= received' /\ received' # received
        BY <1>1, <1>2, <1>5
    <2>2. PICK c \in Conns, kind \in Kinds, timestamped \in Timestamped :
              Receive(c, kind, timestamped) /\ Forward(c)
        BY <1>1, <2>1, ReceivedStep
    <2> QED
        BY <1>1, <1>5, <2>1, <2>2, NewLogHasOnePlace
<1> QED
    BY <1>1, <1>3, <1>4, <1>5, ReceivedStep

LEMMA Accounting == Spec => []AccountingInv
<1>1. Init => AccountingInv
    BY TypeInit, PlacesInit DEF AccountingInv
<1>2. AccountingInv /\ [Next]_vars => AccountingInv'
    BY TypeStep, PlacesStep DEF AccountingInv
<1> QED
    BY <1>1, <1>2, PTL DEF Spec

\* A log is in one place, in every state: whatever is batched, refused by a
\* full queue, taken by a thread, failed, stored or purged, no log is stored
\* twice and none is forgotten.
THEOREM LogsAccountedOnce == Spec => []AccountedOnce
<1>1. AccountingInv => AccountedOnce
    <2> SUFFICES ASSUME AccountingInv, NEW l \in 1..received PROVE Cardinality(Places(l)) = 1
        BY DEF AccountedOnce
    <2>1. l \in Logs /\ l <= received
        BY IngestAssumption DEF AccountingInv, TypeOK, Logs
    <2>2. PICK p : Places(l) = {p}
        BY <2>1 DEF AccountingInv, PlacesInv
    <2> QED
        BY <2>2, FS_Singleton
<1> QED
    BY <1>1, Accounting, PTL

-----------------------------------------------------------------------------
(* The foreign key                                                         *)

\* A log in the table was received
LEMMA StoredWasReceived ==
    ASSUME AccountingInv, NEW l \in substrate_logs
    PROVE  l \in DOMAIN source
<1>1. l \in Logs
    BY DEF AccountingInv, TypeOK
<1>2. <<"table", l>> \in Places(l)
    BY DEF Places, Member
<1>3. l <= received
    BY <1>1, <1>2 DEF AccountingInv, PlacesInv
<1>4. DOMAIN source = 1..received
    BY LenProperties DEF AccountingInv, TypeOK
<1> QED
    BY <1>1, <1>3, <1>4 DEF Logs

\* The connection of a log never changes
LEMMA SourceFixed ==
    ASSUME TypeOK, [Next]_vars
    PROVE  \A l \in DOMAIN source : source'[l] = source[l]
<1>1. CASE UNCHANGED source
    BY <1>1
<1>2. CASE \E c \in Conns : source' = Append(source, c)
    BY <1>2, AppendProperties, LenProperties DEF TypeOK
<1>3. ASSUME NEW c \in Conns, NEW kind \in Kinds, NEW timestamped \in Timestamped,
             Receive(c, kind, timestamped)
      PROVE  UNCHANGED source \/ source' = Append(source, c)
    BY <1>3 DEF Receive, Forward
<1> QED
    BY <1>1, <1>2, <1>3 DEF Next, vars, socketVars, Request, Close, SaveTimer, BufferLog,
       SaveLogs, SaveBatch, PurgeTimer, Work, Take, InsertConnection, UpdateConnection,
       InsertLogs, PurgeExpiredLogs, PurgeConnections, Fail, Expire

LEMMA ForeignKeysStep == AccountingInv /\ ForeignKeys /\ [Next]_vars => ForeignKeys'
<1> SUFFICES ASSUME AccountingInv, ForeignKeys, [Next]_vars PROVE ForeignKeys'
    OBVIOUS
<1> USE DEF tableVars
<1>1. TypeOK
    BY DEF AccountingInv
<1>2. \A l \in substrate_logs : source'[l] = source[l]
    BY <1>1, StoredWasReceived, SourceFixed
<1>3. ASSUME substrate_logs' \subseteq substrate_logs,
             DOMAIN peer_connections \subseteq DOMAIN peer_connections'
      PROVE  ForeignKeys'
    BY <1>2, <1>3 DEF ForeignKeys, Stored
<1>4. ASSUME NEW t \in Threads, InsertConnection(t) PROVE ForeignKeys'
    <2>1. DOMAIN peer_connections' = DOMAIN peer_connections \cup {thread[t].conn}
        BY <1>4 DEF InsertConnection
    <2> QED
        BY <1>3, <1>4, <2>1 DEF InsertConnection
<1>5. ASSUME NEW t \in Threads, UpdateConnection(t) PROVE ForeignKeys'
    <2>1. DOMAIN peer_connections' = DOMAIN peer_connections
        BY <1>5 DEF UpdateConnection
    <2> QED
        BY <1>3, <1>5, <2>1 DEF UpdateConnection
<1>6. ASSUME NEW t \in Threads, InsertLogs(t) PROVE ForeignKeys'
    <2>1. UNCHANGED <<source, peer_connections>>
        BY <1>6 DEF InsertLogs, socketVars
    <2>2. CASE \A l \in thread[t].logs : Stored(source[l])
        <3>1. substrate_logs' = substrate_logs \cup thread[t].logs
            BY <1>6, <2>2 DEF InsertLogs
        <3> QED
            BY <2>1, <2>2, <3>1 DEF ForeignKeys, Stored
    <2>3. CASE ~\A l \in thread[t].logs : Stored(source[l])
        BY <1>3, <1>6, <2>1, <2>3 DEF InsertLogs
    <2> QED
        BY <2>2, <2>3
<1>7. ASSUME NEW t \in Threads, PurgeExpiredLogs(t) PROVE ForeignKeys'
    BY <1>3, <1>7 DEF PurgeExpiredLogs
<1>8. ASSUME NEW t \in Threads, PurgeConnections(t) PROVE ForeignKeys'
    <2>1. UNCHANGED <<source, substrate_logs>>
        BY <1>8 DEF PurgeConnections, socketVars
    <2>2. DOMAIN peer_connections' = {d \in DOMAIN peer_connections : ~Unreferenced(d)}
        BY <1>8 DEF PurgeConnections
    <2>3. \A l \in substrate_logs : ~Unreferenced(source[l])
        BY DEF Unreferenced, LogsOf
    <2> QED
        BY <2>1, <2>2, <2>3 DEF ForeignKeys, Stored
<1>9. CASE UNCHANGED <<substrate_logs, peer_connections>>
    BY <1>3, <1>9
<1> QED
    BY <1>4, <1>5, <1>6, <1>7, <1>8, <1>9 DEF Next, vars, Request, Close, Receive, SaveTimer,
       BufferLog, SaveLogs, SaveBatch, PurgeTimer, Work, Take, Fail, Expire

\* In every state every log of the table has its connection in the table:
\* a thread that inserts and a thread that purges, which does so in two
\* transactions, do not leave one behind.
THEOREM ForeignKeysHold == Spec => []ForeignKeys
<1>1. Init => ForeignKeys
    BY DEF Init, ForeignKeys
<1>2. AccountingInv /\ ForeignKeys /\ [Next]_vars => ForeignKeys'
    BY ForeignKeysStep
<1> QED
    BY <1>1, <1>2, Accounting, PTL DEF Spec

-----------------------------------------------------------------------------
(* What the database knows of a peer                                       *)

\* Message n may come after m: no second insert of a connection, and an update
\* says all that an earlier one said
Follows(m, n) ==
    /\ m.op = "insert_connection" /\ n.op = "insert_connection" => m.conn # n.conn
    /\ m.op = "update_connection" /\ n.op = "update_connection" /\ m.conn = n.conn =>
           Below(m.info, n.info)

\* Message m is one that is still to be handled: an insert is the first of its
\* connection, an update says no less than the row and no more than the socket
Fits(m) ==
    /\ m.op = "insert_connection" => socket[m.conn] # "new" /\ ~Stored(m.conn)
    /\ m.op = "update_connection" =>
           /\ Below(m.info, info[m.conn])
           /\ Stored(m.conn) => Below(peer_connections[m.conn], m.info)

\* A row knows no more than its socket, and what is queued is in order, behind
\* what a thread handles
QueueInOrder ==
    /\ \A i, j \in DOMAIN queue : i < j => Follows(queue[i], queue[j])
    /\ \A i \in DOMAIN queue : Fits(queue[i])
ThreadsFirst ==
    \A t \in Threads : thread[t] # Idle =>
        /\ Fits(thread[t])
        /\ \A i \in DOMAIN queue : Follows(thread[t], queue[i])
RowsBelow == \A c \in DOMAIN peer_connections :
                 socket[c] # "new" /\ Below(peer_connections[c], info[c])
KnowledgeInv == QueueInOrder /\ ThreadsFirst /\ RowsBelow

\* What a message tells is added to what was known.
LEMMA LearnedAbove ==
    ASSUME NEW i \in PeerConnection, NEW kind \in Kinds
    PROVE  Below(i, Learned(i, kind))
BY IngestAssumption DEF Learned, PeerConnection, Below

\* What fits goes on to fit while sockets learn, and rows neither come nor change.
LEMMA GoesOnToFit ==
    ASSUME \A c \in Conns : /\ socket[c] # "new" => socket'[c] # "new"
                            /\ Below(info[c], info'[c]),
           \A c \in DOMAIN peer_connections' :
               c \in DOMAIN peer_connections /\ peer_connections'[c] = peer_connections[c]
    PROVE  \A m \in DbMessage : Fits(m) => Fits(m)'
<1> SUFFICES ASSUME NEW m \in DbMessage, Fits(m) PROVE Fits(m)'
    OBVIOUS
<1>1. CASE m.op = "insert_connection"
    <2>1. m.conn \in Conns
        BY <1>1 DEF DbMessage
    <2> QED
        BY <1>1, <2>1 DEF Fits, Stored
<1>2. CASE m.op = "update_connection"
    <2>1. m.conn \in Conns
        BY <1>2 DEF DbMessage
    <2>2. Below(m.info, info'[m.conn])
        BY <1>2, <2>1 DEF Fits, Below
    <2> QED
        BY <1>2, <2>2 DEF Fits, Stored
<1> QED
    BY <1>1, <1>2 DEF Fits

\* What is queued and handled stays in order while it goes on to fit.
LEMMA SameInOrder ==
    ASSUME TypeOK, QueueInOrder, ThreadsFirst, UNCHANGED <<queue, thread>>,
           \A m \in DbMessage : Fits(m) => Fits(m)'
    PROVE  QueueInOrder' /\ ThreadsFirst'
<1>1. ASSUME NEW i \in DOMAIN queue' PROVE Fits(queue[i])'
    <2>1. PICK x \in DbMessage : x = queue'[i] /\ Fits(x)
        BY ElementOfSeq, LenProperties DEF TypeOK, QueueInOrder
    <2>2. Fits(x)'
        BY <2>1
    <2> QED
        BY <2>1, <2>2 DEF Fits, Stored
<1>2. ASSUME NEW t \in Threads, thread'[t] # Idle PROVE Fits(thread[t])'
    <2>1. PICK x \in DbMessage : x = thread'[t] /\ Fits(x)
        BY <1>2 DEF TypeOK, ThreadsFirst
    <2>2. Fits(x)'
        BY <2>1
    <2> QED
        BY <2>1, <2>2 DEF Fits, Stored
<1> QED
    BY <1>1, <1>2 DEF QueueInOrder, ThreadsFirst

\* A message that fits and may come after what is there can be added.
LEMMA OfferInOrder ==
    ASSUME TypeOK, NEW m \in DbMessage, QueueInOrder, ThreadsFirst,
           queue' = Append(queue, m) \/ queue' = Offer(queue, m),
           UNCHANGED thread,
           \A x \in DbMessage : Fits(x) => Fits(x)' /\ Follows(x, m),
           Fits(m)'
    PROVE  QueueInOrder' /\ ThreadsFirst'
<1>1. /\ \A i \in DOMAIN queue : queue[i] \in DbMessage
      /\ \A t \in Threads : thread[t] # Idle => thread[t] \in DbMessage
    BY ElementOfSeq, LenProperties DEF TypeOK
<1>2. ASSUME NEW t \in Threads, thread'[t] # Idle
      PROVE  Fits(thread[t])' /\ Follows(thread[t], m)
    <2>1. thread'[t] = thread[t] /\ thread[t] \in DbMessage /\ Fits(thread[t])
        BY <1>1, <1>2 DEF ThreadsFirst
    <2>2. PICK x \in DbMessage : x = thread[t] /\ x = thread'[t]
        BY <2>1
    <2>3. Fits(x)' /\ Follows(x, m)
        BY <2>1, <2>2
    <2> QED
        BY <2>2, <2>3 DEF Fits, Stored
<1>3. ASSUME NEW i \in DOMAIN queue, NEW x, x = queue[i]
      PROVE  Fits(x)' /\ Follows(x, m)
    BY <1>1, <1>3 DEF QueueInOrder
<1>4. CASE queue' = queue
    <2>1. ASSUME NEW i \in DOMAIN queue' PROVE Fits(queue[i])'
        <3>1. PICK x : x = queue[i] /\ x = queue'[i]
            BY <1>4
        <3>2. Fits(x)'
            BY <1>3, <1>4, <2>1, <3>1
        <3> QED
            BY <3>1, <3>2 DEF Fits, Stored
    <2> QED
        BY <1>2, <1>4, <2>1 DEF QueueInOrder, ThreadsFirst
<1>5. CASE queue' = Append(queue, m)
    <2>1. queue \in Seq(DbMessage)
        BY DEF TypeOK
    <2> DEFINE n == Len(queue) + 1
    <2>2. /\ DOMAIN queue' = 1..n /\ DOMAIN queue = 1..(n - 1) /\ n \in Nat \ {0}
          /\ queue'[n] = m /\ \A i \in 1..(n - 1) : queue'[i] = queue[i]
        BY <1>5, <2>1, AppendProperties, LenProperties
    <2> HIDE DEF n
    <2>3. \A i \in DOMAIN queue' : i = n \/ i \in DOMAIN queue
        BY <2>2
    <2>4. ASSUME NEW i \in DOMAIN queue', NEW j \in DOMAIN queue', i < j
          PROVE  Follows(queue'[i], queue'[j])
        <3>1. i \in DOMAIN queue /\ queue'[i] = queue[i]
            BY <2>2, <2>4
        <3>2. CASE j = n
            BY <1>3, <2>2, <3>1, <3>2
        <3>3. CASE j \in DOMAIN queue
            BY <2>2, <2>4, <3>1, <3>3 DEF QueueInOrder
        <3> QED
            BY <2>3, <3>2, <3>3
    <2>5. ASSUME NEW i \in DOMAIN queue' PROVE Fits(queue[i])'
        <3>1. PICK x : x = queue'[i] /\ (x = m \/ (i \in DOMAIN queue /\ x = queue[i]))
            BY <2>2, <2>3
        <3>2. Fits(x)'
            BY <1>3, <3>1
        <3> QED
            BY <3>1, <3>2 DEF Fits, Stored
    <2>6. ASSUME NEW t \in Threads, thread[t] # Idle
          PROVE  \A i \in DOMAIN queue' : Follows(thread[t], queue'[i])
        BY <1>2, <2>2, <2>3, <2>6 DEF ThreadsFirst
    <2> QED
        BY <1>2, <2>4, <2>5, <2>6 DEF QueueInOrder, ThreadsFirst
<1> QED
    BY <1>4, <1>5 DEF Offer

\* Rows go on to know no more than sockets while these learn, and rows neither
\* come nor change.
LEMMA RowsStayBelow ==
    ASSUME RowsBelow, DOMAIN peer_connections \subseteq Conns,
           \A c \in Conns : /\ socket[c] # "new" => socket'[c] # "new"
                            /\ Below(info[c], info'[c]),
           \A c \in DOMAIN peer_connections' :
               c \in DOMAIN peer_connections /\ peer_connections'[c] = peer_connections[c]
    PROVE  RowsBelow'
<1> SUFFICES ASSUME NEW c \in DOMAIN peer_connections'
             PROVE  socket'[c] # "new" /\ Below(peer_connections'[c], info'[c])
    BY DEF RowsBelow
<1>1. /\ c \in Conns /\ socket[c] # "new" /\ Below(peer_connections[c], info[c])
      /\ peer_connections'[c] = peer_connections[c]
    BY DEF RowsBelow
<1> QED
    BY <1>1 DEF Below

\* A thread takes the head of the queue, which is before the rest.
LEMMA TakeInOrder ==
    ASSUME TypeOK, QueueInOrder, ThreadsFirst, NEW t \in Threads, Take(t)
    PROVE  QueueInOrder' /\ ThreadsFirst'
<1>1. queue \in Seq(DbMessage) /\ queue # <<>> /\ queue' = Tail(queue)
    BY DEF TypeOK, Take
<1>2. 1 \in DOMAIN queue /\ Head(queue) = queue[1]
    BY <1>1
<1>3. \A i \in DOMAIN queue' : i \in Nat \ {0} /\ i + 1 \in DOMAIN queue /\ queue'[i] = queue[i + 1]
    BY <1>1
<1>4. \A m \in DbMessage : Fits(m) => Fits(m)'
    BY DEF Take, socketVars, tableVars, Fits, Stored
<1>5. ASSUME NEW i \in DOMAIN queue', NEW j \in DOMAIN queue', i < j
      PROVE  Follows(queue'[i], queue'[j])
    <2>1. i + 1 < j + 1
        BY <1>3, <1>5
    <2> QED
        BY <1>3, <2>1 DEF QueueInOrder
<1>6. \A i \in DOMAIN queue : queue[i] \in DbMessage /\ Fits(queue[i])
    BY <1>1, ElementOfSeq, LenProperties DEF QueueInOrder
<1>7. ASSUME NEW i \in DOMAIN queue' PROVE Fits(queue[i])'
    <2>1. PICK x \in DbMessage : x = queue'[i] /\ Fits(x)
        BY <1>3, <1>6
    <2>2. Fits(x)'
        BY <1>4, <2>1
    <2> QED
        BY <2>1, <2>2 DEF Fits, Stored
<1>8. ASSUME NEW u \in Threads, thread'[u] # Idle
      PROVE  Fits(thread[u])' /\ \A i \in DOMAIN queue' : Follows(thread'[u], queue'[i])
    <2>1. PICK x \in DbMessage : /\ x = thread'[u] /\ Fits(x)
                                 /\ \A i \in DOMAIN queue' : Follows(x, queue'[i])
        <3>1. CASE u = t
            <4>1. thread'[u] = queue[1]
                BY <1>1, <1>2, <3>1 DEF Take, TypeOK
            <4>2. \A i \in DOMAIN queue' : Follows(queue[1], queue'[i])
                <5> SUFFICES ASSUME NEW i \in DOMAIN queue' PROVE Follows(queue[1], queue[i + 1])
                    BY <1>3
                <5>1. i + 1 \in DOMAIN queue /\ 1 < i + 1
                    BY <1>3
                <5> QED
                    BY <1>2, <5>1 DEF QueueInOrder
            <4> QED
                BY <1>2, <1>6, <4>1, <4>2
        <3>2. CASE u # t
            <4>1. thread'[u] = thread[u] /\ thread[u] \in DbMessage
                BY <1>8, <3>2 DEF Take, TypeOK
            <4> QED
                BY <1>3, <1>8, <4>1 DEF ThreadsFirst
        <3> QED
            BY <3>1, <3>2
    <2>2. Fits(x)'
        BY <1>4, <2>1
    <2> QED
        BY <2>1, <2>2 DEF Fits, Stored
<1> QED
    BY <1>5, <1>7, <1>8 DEF QueueInOrder, ThreadsFirst

\* The only thread has handled its message: what is queued came after it.
LEMMA DoneInOrder ==
    ASSUME TypeOK, QueueInOrder, ThreadsFirst, UNCHANGED queue,
           NEW t \in Threads, \A u \in Threads : u = t, thread[t] # Idle,
           thread'[t] # Idle => thread'[t].op = "purge_connections",
           \A m \in DbMessage : Fits(m) /\ Follows(thread[t], m) => Fits(m)'
    PROVE  QueueInOrder' /\ ThreadsFirst'
<1>1. \A i \in DOMAIN queue : /\ queue[i] \in DbMessage /\ Fits(queue[i])
                              /\ Follows(thread[t], queue[i])
    BY ElementOfSeq, LenProperties DEF TypeOK, QueueInOrder, ThreadsFirst
<1>2. ASSUME NEW i \in DOMAIN queue' PROVE Fits(queue[i])'
    <2>1. PICK x \in DbMessage : x = queue'[i] /\ Fits(x) /\ Follows(thread[t], x)
        BY <1>1
    <2>2. Fits(x)'
        BY <2>1
    <2> QED
        BY <2>1, <2>2 DEF Fits, Stored
<1>3. thread'[t] # Idle =>
          /\ Fits(thread[t])'
          /\ \A i \in DOMAIN queue' : Follows(thread'[t], queue'[i])
    BY DEF Fits, Follows
<1> QED
    BY <1>2, <1>3 DEF QueueInOrder, ThreadsFirst

\* With one thread, each step keeps rows, messages and sockets in order.
LEMMA KnowledgeStep ==
    ASSUME \A t, u \in Threads : t = u, TypeOK, KnowledgeInv, [Next]_vars
    PROVE  KnowledgeInv'
<1> USE DEF KnowledgeInv
<1>1. /\ info \in [Conns -> PeerConnection] /\ DOMAIN peer_connections \subseteq Conns
      /\ \A c \in Conns : Below(info[c], info[c])
    BY DEF TypeOK, Below
<1>2. ASSUME NEW c \in Conns, Request(c) PROVE KnowledgeInv'
    <2> DEFINE m == [op |-> "insert_connection", conn |-> c]
    <2>1. /\ socket[c] = "new" /\ socket' = [socket EXCEPT ![c] = "requested"]
          /\ queue' = Append(queue, m) /\ m \in DbMessage
          /\ UNCHANGED <<info, thread, peer_connections>>
        BY <1>2 DEF Request, tableVars, DbMessage
    <2>2. \A d \in Conns : (socket[d] # "new" => socket'[d] # "new") /\ Below(info[d], info'[d])
        BY <1>1, <2>1 DEF TypeOK
    <2>3. c \notin DOMAIN peer_connections
        BY <2>1 DEF RowsBelow
    <2>4. socket'[c] = "requested"
        BY <2>1 DEF TypeOK
    <2>5. Fits(m)'
        BY <2>1, <2>3, <2>4 DEF Fits, Stored
    <2>6. \A x \in DbMessage : Fits(x) => Follows(x, m)
        BY <2>1 DEF Fits, Follows
    <2>7. \A x \in DbMessage : Fits(x) => Fits(x)'
        BY <2>1, <2>2, GoesOnToFit
    <2>8. RowsBelow'
        BY <1>1, <2>1, <2>2, RowsStayBelow
    <2> HIDE DEF m
    <2> QED
        BY <2>1, <2>5, <2>6, <2>7, <2>8, OfferInOrder
<1>3. ASSUME NEW c \in Conns, NEW kind \in Kinds, NEW timestamped \in Timestamped,
             Receive(c, kind, timestamped)
      PROVE  KnowledgeInv'
    <2>1. UNCHANGED <<socket, thread, peer_connections>>
        BY <1>3 DEF Receive, tableVars
    <2>2. CASE UNCHANGED <<info, queue>>
        BY <2>1, <2>2 DEF QueueInOrder, ThreadsFirst, RowsBelow, Fits, Stored
    <2>3. CASE Identifies(c, kind)
        <3>1. PICK i \in PeerConnection : i = Learned(info[c], kind) /\ Below(info[c], i)
            BY <1>1, LearnedType, LearnedAbove
        <3>2. PICK m \in DbMessage : /\ m = [op |-> "update_connection", conn |-> c, info |-> i]
                                     /\ m.op = "update_connection" /\ m.conn = c /\ m.info = i
            <4> DEFINE u == [op |-> "update_connection", conn |-> c, info |-> i]
            <4>1. u \in DbMessage
                BY DEF DbMessage
            <4>2. u.op = "update_connection" /\ u.conn = c /\ u.info = i
                OBVIOUS
            <4> HIDE DEF u
            <4> QED
                BY <4>1, <4>2 DEF u
        <3>3. info' = [info EXCEPT ![c] = i] /\ queue' = Offer(queue, m)
            BY <1>3, <2>3, <3>1, <3>2 DEF Receive
        <3>4. info'[c] = i /\ \A d \in Conns : Below(info[d], info'[d])
            BY <1>1, <3>1, <3>3
        <3>5. \A x \in DbMessage : Fits(x) => Follows(x, m)
            BY <3>1, <3>2 DEF Fits, Follows, Below
        <3>6. Fits(m)'
            <4>1. Below(i, i)
                BY DEF Below
            <4>2. c \in DOMAIN peer_connections => Below(peer_connections[c], i)
                BY <3>1 DEF RowsBelow, Below
            <4> QED
                BY <2>1, <3>2, <3>4, <4>1, <4>2 DEF Fits, Stored
        <3>7. \A x \in DbMessage : Fits(x) => Fits(x)'
            BY <2>1, <3>4, GoesOnToFit
        <3>8. RowsBelow'
            BY <1>1, <2>1, <3>4, RowsStayBelow
        <3>9. \A x \in DbMessage : Fits(x) => Fits(x)' /\ Follows(x, m)
            BY <3>5, <3>7
        <3>10. QueueInOrder' /\ ThreadsFirst'
            BY <2>1, <3>3, <3>6, <3>9, OfferInOrder
        <3> QED
            BY <3>8, <3>10
    <2> QED
        BY <1>3, <2>2, <2>3 DEF Receive
<1>4. ASSUME NEW m \in DbMessage, m.op \notin {"insert_connection", "update_connection"},
             queue' = Offer(queue, m), UNCHANGED <<socket, info, thread, peer_connections>>
      PROVE  KnowledgeInv'
    <2>1. \A x \in DbMessage : Fits(x) => Fits(x)' /\ Follows(x, m)
        BY <1>4 DEF Fits, Stored, Follows
    <2>2. Fits(m)'
        BY <1>4 DEF Fits
    <2>3. RowsBelow'
        BY <1>4 DEF RowsBelow
    <2> QED
        BY <1>4, <2>1, <2>2, <2>3, OfferInOrder
<1>5. CASE SaveBatch
    <2> DEFINE at == SplitAt(Len(logs))
               batch == {logs[i] : i \in (at + 1)..Len(logs)}
               m == [op |-> "insert_logs", logs |-> batch]
    <2>1. queue' = Offer(queue, m) /\ UNCHANGED <<socket, info, thread, peer_connections>>
        BY <1>5 DEF SaveBatch, socketVars, tableVars
    <2>2. m \in DbMessage
        <3>1. at \in Nat /\ logs \in Seq(Logs)
            BY IngestAssumption, LenProperties DEF TypeOK, SplitAt
        <3>2. batch \subseteq Logs
            BY <3>1, ElementOfSeq
        <3> QED
            BY <3>2 DEF DbMessage
    <2> HIDE DEF m
    <2>3. m.op = "insert_logs"
        BY DEF m
    <2> QED
        BY <1>4, <2>1, <2>2, <2>3
<1>6. CASE PurgeTimer
    <2>1. [op |-> "purge_logs"] \in DbMessage
        BY DEF DbMessage
    <2> QED
        BY <1>4, <1>6, <2>1 DEF PurgeTimer, socketVars, tableVars
<1>7. ASSUME NEW t \in Threads, Take(t) PROVE KnowledgeInv'
    <2>1. RowsBelow'
        BY <1>7 DEF Take, socketVars, tableVars, RowsBelow
    <2> QED
        BY <1>7, <2>1, TakeInOrder
<1>8. ASSUME NEW t \in Threads, thread[t] # Idle, UNCHANGED queue,
             thread'[t] # Idle => thread'[t].op = "purge_connections",
             \A m \in DbMessage : Fits(m) /\ Follows(thread[t], m) => Fits(m)'
      PROVE  QueueInOrder' /\ ThreadsFirst'
    BY <1>8, DoneInOrder
<1>9. ASSUME NEW t \in Threads, InsertConnection(t) PROVE KnowledgeInv'
    <2> DEFINE c == thread[t].conn
    <2>1. /\ c \in Conns /\ thread[t] # Idle /\ thread[t].op = "insert_connection"
          /\ thread'[t] = Idle /\ UNCHANGED <<queue, info>>
          /\ DOMAIN peer_connections' = DOMAIN peer_connections \cup {c}
          /\ peer_connections'[c] = Unknown
          /\ \A d \in DOMAIN peer_connections : d # c => peer_connections'[d] = peer_connections[d]
        BY <1>9, HandlingMessage DEF InsertConnection, Handling, Done, TypeOK
    <2>2. socket[c] # "new" /\ \A d \in Conns : socket[d] # "new" => socket'[d] # "new"
        BY <1>9, <2>1 DEF ThreadsFirst, Fits, InsertConnection, TypeOK
    <2>3. \A i : Below(Unknown, i)
        BY DEF Unknown, Below
    <2>4. ASSUME NEW m \in DbMessage, Fits(m), Follows(thread[t], m) PROVE Fits(m)'
        <3>1. CASE m.op = "insert_connection"
            <4>1. m.conn \in Conns /\ m.conn # c
                BY <2>1, <2>4, <3>1 DEF DbMessage, Follows
            <4> QED
                BY <2>1, <2>2, <2>4, <3>1, <4>1 DEF Fits, Stored
        <3>2. CASE m.op = "update_connection"
            <4> HIDE DEF c
            <4> QED
                BY <2>1, <2>3, <2>4, <3>2 DEF Fits, Stored
        <3> QED
            BY <3>1, <3>2 DEF Fits
    <2>5. RowsBelow'
        <3> SUFFICES ASSUME NEW d \in DOMAIN peer_connections'
                     PROVE  socket'[d] # "new" /\ Below(peer_connections'[d], info'[d])
            BY DEF RowsBelow
        <3>1. CASE d = c
            BY <2>1, <2>2, <2>3, <3>1
        <3>2. CASE d # c
            BY <1>1, <2>1, <2>2, <3>2 DEF RowsBelow
        <3> QED
            BY <3>1, <3>2
    <2> QED
        BY <1>8, <2>1, <2>4, <2>5
<1>10. ASSUME NEW t \in Threads, UpdateConnection(t) PROVE KnowledgeInv'
    <2> DEFINE c == thread[t].conn
    <2>1. /\ thread[t] # Idle /\ thread[t].op = "update_connection"
          /\ thread'[t] = Idle /\ UNCHANGED <<queue, info, socket>>
          /\ DOMAIN peer_connections' = DOMAIN peer_connections
          /\ \A d \in DOMAIN peer_connections :
                 peer_connections'[d] = IF d = c THEN thread[t].info ELSE peer_connections[d]
        BY <1>10, HandlingMessage DEF UpdateConnection, Handling, Done, TypeOK, socketVars
    <2>2. Below(thread[t].info, info[c])
        BY <2>1 DEF ThreadsFirst, Fits
    <2>3. ASSUME NEW m \in DbMessage, Fits(m), Follows(thread[t], m) PROVE Fits(m)'
        BY <2>1, <2>3 DEF Fits, Stored, Follows
    <2>4. RowsBelow'
        BY <2>1, <2>2 DEF RowsBelow
    <2> QED
        BY <1>8, <2>1, <2>3, <2>4
<1>11. ASSUME NEW t \in Threads, InsertLogs(t) \/ PurgeExpiredLogs(t) \/ PurgeConnections(t) \/ Fail(t)
       PROVE  KnowledgeInv'
    <2>1. /\ thread[t] # Idle /\ UNCHANGED <<queue, info>>
          /\ thread'[t] # Idle => thread'[t].op = "purge_connections"
        BY <1>11 DEF InsertLogs, PurgeExpiredLogs, PurgeConnections, Fail, Handling, Done,
           TypeOK, socketVars
    <2>2. \A d \in Conns : (socket[d] # "new" => socket'[d] # "new") /\ Below(info[d], info'[d])
        BY <1>1, <1>11, <2>1 DEF InsertLogs, PurgeExpiredLogs, PurgeConnections, Fail, TypeOK,
           socketVars
    <2>3. \A d \in DOMAIN peer_connections' :
              d \in DOMAIN peer_connections /\ peer_connections'[d] = peer_connections[d]
        BY <1>11 DEF InsertLogs, PurgeExpiredLogs, PurgeConnections, Fail, tableVars
    <2>4. \A m \in DbMessage : Fits(m) => Fits(m)'
        BY <2>2, <2>3, GoesOnToFit
    <2>5. RowsBelow'
        BY <1>1, <2>2, <2>3, RowsStayBelow
    <2> QED
        BY <1>8, <2>1, <2>4, <2>5
<1>12. ASSUME NEW c \in Conns, Close(c) PROVE KnowledgeInv'
    <2>1. /\ UNCHANGED <<info, queue, thread, peer_connections>>
          /\ \A d \in Conns : socket[d] # "new" => socket'[d] # "new"
        BY <1>12 DEF Close, TypeOK, tableVars
    <2>2. \A m \in DbMessage : Fits(m) => Fits(m)'
        BY <1>1, <2>1, GoesOnToFit
    <2>3. RowsBelow'
        BY <1>1, <2>1, RowsStayBelow
    <2>4. QueueInOrder' /\ ThreadsFirst'
        BY <2>1, <2>2, SameInOrder
    <2> QED
        BY <2>3, <2>4
<1>13. CASE UNCHANGED <<socket, info, queue, thread, peer_connections>>
    BY <1>13 DEF QueueInOrder, ThreadsFirst, RowsBelow, Fits, Stored
<1> QED
    BY <1>2, <1>3, <1>5, <1>6, <1>7, <1>9, <1>10, <1>11, <1>12, <1>13 DEF Next, vars, socketVars,
       tableVars, SaveTimer, BufferLog, SaveLogs, Work, Expire

\* With one thread, no step makes the database forget what it knows of a peer:
\* rows are inserted once, and an update that is written says all that the
\* updates before it said.
THEOREM RowsRemember ==
    ASSUME \A t, u \in Threads : t = u
    PROVE  Spec => KnowledgeKept
<1>1. Init => KnowledgeInv
    <2> SUFFICES ASSUME Init PROVE KnowledgeInv
        OBVIOUS
    <2>1. DOMAIN queue = {} /\ DOMAIN peer_connections = {} /\ \A t \in Threads : thread[t] = Idle
        BY DEF Init
    <2> QED
        BY <2>1 DEF KnowledgeInv, QueueInOrder, ThreadsFirst, RowsBelow
<1>2. TypeOK /\ KnowledgeInv /\ [Next]_vars => KnowledgeInv'
    BY KnowledgeStep
<1> DEFINE Kept == \A c \in DOMAIN peer_connections \cap DOMAIN peer_connections' :
                       Below(peer_connections[c], peer_connections'[c])
<1>3. TypeOK /\ KnowledgeInv /\ [Next]_vars => [Kept]_vars
    <2> SUFFICES ASSUME TypeOK, KnowledgeInv, Next PROVE Kept
        OBVIOUS
    <2>1. \A i : Below(i, i)
        BY DEF Below
    <2>2. ASSUME NEW t \in Threads, InsertConnection(t) PROVE Kept
        <3>1. thread[t] # Idle /\ thread[t].op = "insert_connection"
            BY <2>2 DEF InsertConnection, Handling
        <3>2. thread[t].conn \notin DOMAIN peer_connections
            BY <3>1 DEF KnowledgeInv, ThreadsFirst, Fits, Stored
        <3> QED
            BY <2>1, <2>2, <3>2 DEF InsertConnection
    <2>3. ASSUME NEW t \in Threads, UpdateConnection(t) PROVE Kept
        <3>1. thread[t] # Idle /\ thread[t].op = "update_connection"
            BY <2>3 DEF UpdateConnection, Handling
        <3>2. thread[t].conn \in DOMAIN peer_connections =>
                  Below(peer_connections[thread[t].conn], thread[t].info)
            BY <3>1 DEF KnowledgeInv, ThreadsFirst, Fits, Stored
        <3> QED
            BY <2>1, <2>3, <3>2 DEF UpdateConnection
    <2>4. ASSUME NEW t \in Threads, PurgeConnections(t) PROVE Kept
        BY <2>1, <2>4 DEF PurgeConnections
    <2>5. CASE UNCHANGED peer_connections
        BY <2>1, <2>5
    <2> QED
        BY <2>2, <2>3, <2>4, <2>5 DEF Next, tableVars, Request, Close, Receive, SaveTimer,
           BufferLog, SaveLogs, SaveBatch, PurgeTimer, Work, Take, InsertLogs,
           PurgeExpiredLogs, Fail, Expire
<1> QED
    BY <1>1, <1>2, <1>3, IngestTypeCorrect, PTL DEF Spec, KnowledgeKept

=============================================================================
