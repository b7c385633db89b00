------------------------------- MODULE Ingest -------------------------------
(***************************************************************************)
(* How telemetry reaches the database: the websocket of a node             *)
(* (src/web/root.rs), the LogBuffer that batches (src/main.rs), and the    *)
(* threads of the DbExecutor (src/db/mod.rs) that write and purge.         *)
(*                                                                         *)
(* The handlers of a socket and of the LogBuffer run to completion, except *)
(* that SaveLogs puts its batches into the queue of the DbExecutor one by  *)
(* one while the threads, which are threads of the system, take from it.   *)
(* A DbExecutor thread handles a message by one SQL statement, or two for  *)
(* PurgeLogs; each is a transaction.                                       *)
(***************************************************************************)
EXTENDS Integers, Sequences, FiniteSets

CONSTANTS
    Conns,            \* connections of nodes
    Audit,            \* those made to /audit
    Threads,          \* of the DbExecutor
    Idle,             \* a thread without a message
    Kinds,            \* the messages nodes send, see Learned
    Timestamped,      \* and whether they carry a timestamp
    DB_BATCH_SIZE,
    BUFFER_MAILBOX,   \* capacity of the LogBuffer's mailbox
    DB_MAILBOX,       \* capacity of the DbExecutor's queue
    MaxLogs,          \* bound: logs ever received
    MaxFailures       \* bound: statements that fail

ASSUME IngestAssumption ==
    /\ Audit \subseteq Conns
    /\ Kinds \subseteq {"connected", "anonymous", "state", "other"}
    /\ Timestamped \subseteq BOOLEAN
    /\ {DB_BATCH_SIZE, BUFFER_MAILBOX, DB_MAILBOX, MaxLogs, MaxFailures} \subseteq Nat

VARIABLES
    socket,            \* the connection: new, requested, open or closed
    info,              \* peer_connection in the memory of its socket
    received,          \* logs read from sockets: 1..received
    source,            \* the connection of each log
    mailbox,           \* of the LogBuffer: logs, and 0 for SaveLogs
    logs,              \* LogBuffer.logs
    saving,            \* SaveLogs is in its loop
    queue,             \* of the DbExecutor
    thread,            \* what each of its threads handles
    peer_connections,  \* table: the id and what is known of the peer
    substrate_logs,    \* table
    expired,           \* logs older than LOG_EXPIRY_H
    purged,            \* history: logs deleted by PurgeLogs
    lost,              \* history: logs received and never to be stored
    failures           \* statements that failed

bufferVars == <<mailbox, logs, saving>>
socketVars == <<socket, info, received, source>>
tableVars == <<peer_connections, substrate_logs, expired, purged>>
vars == <<socketVars, bufferVars, queue, thread, tableVars, lost, failures>>

\* What matters of a PeerConnection: is the peer_id known, and the rest
PeerConnection == [peer_id : BOOLEAN, name : BOOLEAN]
Unknown == [peer_id |-> FALSE, name |-> FALSE]
Logs == 1..MaxLogs
DbMessage ==
    [op : {"insert_connection"}, conn : Conns]
    \cup [op : {"update_connection"}, conn : Conns, info : PeerConnection]
    \cup [op : {"insert_logs"}, logs : SUBSET Logs]
    \cup [op : {"purge_logs", "purge_connections"}]

ASSUME IdleAssumption == Idle \notin DbMessage

Init ==
    /\ socket = [c \in Conns |-> "new"]
    /\ info = [c \in Conns |-> Unknown]
    /\ received = 0
    /\ source = <<>>
    /\ mailbox = <<>>
    /\ logs = <<>>
    /\ saving = FALSE
    /\ queue = <<>>
    /\ thread = [t \in Threads |-> Idle]
    /\ peer_connections = <<>>
    /\ substrate_logs = {}
    /\ expired = {}
    /\ purged = {}
    /\ lost = {}
    /\ failures = 0

Stored(c) == c \in DOMAIN peer_connections
LogsOf(c) == {l \in substrate_logs : source[l] = c}

\* try_send to the DbExecutor: what the queue becomes
Offer_Oldest(q, m) ==  \* mutant: the oldest message makes room
    IF Len(q) < DB_MAILBOX THEN Append(q, m) ELSE Append(Tail(q), m)
Offer_Busy(q, m) == IF q = <<>> THEN <<m>> ELSE q  \* mutant: no queue
Offer(q, m) == IF Len(q) < DB_MAILBOX THEN Append(q, m) ELSE q

-----------------------------------------------------------------------------
(* A node's socket                                                         *)

\* establish_connection: the handshake waits for the row of the connection;
\* send().await waits for room in the queue
Request(c) ==
    /\ socket[c] = "new"
    /\ Len(queue) < DB_MAILBOX
    /\ socket' = [socket EXCEPT ![c] = "requested"]
    /\ queue' = Append(queue, [op |-> "insert_connection", conn |-> c])
    /\ UNCHANGED <<info, received, source, bufferVars, thread, tableVars, lost, failures>>

\* The node goes away: during the handshake, by a Close, by an error, or
\* because its pings stopped.  A row that is being inserted stays.
Close(c) ==
    /\ socket[c] \in {"requested", "open"}
    /\ socket' = [socket EXCEPT ![c] = "closed"]
    /\ UNCHANGED <<info, received, source, bufferVars, queue, thread, tableVars, lost, failures>>

\* What a message tells of the peer while its id is not known: system.connected
\* with and without a network_id, and the state of older nodes
Learned_Alone(i, kind) ==  \* mutant: what this message tells, alone
    [peer_id |-> kind \in {"connected", "state"}, name |-> kind \in {"connected", "anonymous"}]
Learned(i, kind) ==
    CASE kind = "connected" -> [peer_id |-> TRUE, name |-> TRUE]
      [] kind = "anonymous" -> [i EXCEPT !.name = TRUE]
      [] kind = "state" -> [i EXCEPT !.peer_id = TRUE]
      [] kind = "other" -> i
Identifies(c, kind) == ~info[c].peer_id /\ kind # "other"

\* A text or binary message.  First the peer is identified, then, if there is
\* a timestamp, the log goes to the LogBuffer; either may be refused.  (What
\* does not parse is dropped.)
Forward(c) ==
    /\ received < MaxLogs
    /\ received' = received + 1
    /\ source' = Append(source, c)
    /\ IF Len(mailbox) < BUFFER_MAILBOX
       THEN mailbox' = Append(mailbox, received + 1) /\ UNCHANGED lost
       ELSE lost' = lost \cup {received + 1} /\ UNCHANGED mailbox
Receive(c, kind, timestamped) ==
    /\ socket[c] = "open"
    /\ IF Identifies(c, kind)
       THEN /\ info' = [info EXCEPT ![c] = Learned(@, kind)]
            /\ queue' = Offer(queue, [op |-> "update_connection", conn |-> c,
                                      info |-> Learned(info[c], kind)])
       ELSE UNCHANGED <<info, queue>>
    /\ IF timestamped THEN Forward(c) ELSE UNCHANGED <<received, source, mailbox, lost>>
    /\ UNCHANGED <<socket, logs, saving, thread, tableVars, failures>>

-----------------------------------------------------------------------------
(* LogBuffer                                                               *)

\* PeriodicAction: SaveLogs every DB_SAVE_LATENCY_MS; bound: the last one has
\* been handled
SaveTimer ==
    /\ \A i \in DOMAIN mailbox : mailbox[i] # 0
    /\ Len(mailbox) < BUFFER_MAILBOX
    /\ mailbox' = Append(mailbox, 0)
    /\ UNCHANGED <<socketVars, logs, saving, queue, thread, tableVars, lost, failures>>

\* Handler<NewSubstrateLog>
BufferLog_Any ==  \* mutant: whatever the message is
    /\ ~saving
    /\ mailbox # <<>>
    /\ logs' = Append(logs, Head(mailbox))
    /\ mailbox' = Tail(mailbox)
    /\ UNCHANGED <<socketVars, saving, queue, thread, tableVars, lost, failures>>
BufferLog ==
    /\ ~saving
    /\ mailbox # <<>> /\ Head(mailbox) # 0
    /\ logs' = Append(logs, Head(mailbox))
    /\ mailbox' = Tail(mailbox)
    /\ UNCHANGED <<socketVars, saving, queue, thread, tableVars, lost, failures>>

\* Handler<SaveLogs>: while the buffer is not empty ...
SaveLogs ==
    /\ ~saving
    /\ mailbox # <<>> /\ Head(mailbox) = 0
    /\ saving' = (logs # <<>>)
    /\ mailbox' = Tail(mailbox)
    /\ UNCHANGED <<socketVars, logs, queue, thread, tableVars, lost, failures>>

\* ... split off the LAST logs and try_send them; a refused batch is gone
SplitAt_Full(n) == IF n < DB_BATCH_SIZE THEN n ELSE n - DB_BATCH_SIZE  \* mutant: full batches only
SplitAt(n) == IF n < DB_BATCH_SIZE THEN 0 ELSE n - DB_BATCH_SIZE
SaveBatch ==
    /\ saving
    /\ LET at == SplitAt(Len(logs))
           batch == {logs[i] : i \in (at + 1)..Len(logs)}
       IN /\ logs' = SubSeq(logs, 1, at)
          /\ saving' = (at > 0)
          /\ queue' = Offer(queue, [op |-> "insert_logs", logs |-> batch])
          /\ lost' = IF Len(queue) < DB_MAILBOX THEN lost ELSE lost \cup batch
    /\ UNCHANGED <<socketVars, mailbox, thread, tableVars, failures>>

-----------------------------------------------------------------------------
(* DbExecutor                                                              *)

\* PeriodicAction: PurgeLogs every PURGE_INTERVAL_S, which is long: bound: the
\* last one has left the queue
PurgeTimer ==
    /\ \A i \in DOMAIN queue : queue[i].op # "purge_logs"
    /\ queue' = Offer(queue, [op |-> "purge_logs"])
    /\ UNCHANGED <<socketVars, bufferVars, thread, tableVars, lost, failures>>

\* A thread takes the next message
Take(t) ==
    /\ thread[t] = Idle
    /\ queue # <<>>
    /\ thread' = [thread EXCEPT ![t] = Head(queue)]
    /\ queue' = Tail(queue)
    /\ UNCHANGED <<socketVars, bufferVars, tableVars, lost, failures>>

Handling(t, op) == thread[t] # Idle /\ thread[t].op = op
Done(t) == thread' = [thread EXCEPT ![t] = Idle]

\* Handler<NewPeerConnection>, and the handshake goes on
InsertConnection(t) ==
    /\ Handling(t, "insert_connection")
    /\ LET c == thread[t].conn IN
       /\ peer_connections' = [d \in DOMAIN peer_connections \cup {c} |->
              IF d = c THEN Unknown ELSE peer_connections[d]]
       /\ socket' = [socket EXCEPT ![c] = IF @ = "requested" THEN "open" ELSE @]
    /\ Done(t)
    /\ UNCHANGED <<info, received, source, bufferVars, queue, substrate_logs, expired, purged,
                   lost, failures>>

\* Handler<PeerConnection>: every column is overwritten with the message's
UpdateConnection(t) ==
    /\ Handling(t, "update_connection")
    /\ peer_connections' = [d \in DOMAIN peer_connections |->
           IF d = thread[t].conn THEN thread[t].info ELSE peer_connections[d]]
    /\ Done(t)
    /\ UNCHANGED <<socketVars, bufferVars, queue, substrate_logs, expired, purged, lost, failures>>

\* Handler<LogBatch>: one INSERT.  The foreign key refuses all of it when the
\* row of one of its connections is missing.
InsertLogs(t) ==
    /\ Handling(t, "insert_logs")
    /\ IF \A l \in thread[t].logs : Stored(source[l])
       THEN substrate_logs' = substrate_logs \cup thread[t].logs /\ UNCHANGED lost
       ELSE lost' = lost \cup thread[t].logs /\ UNCHANGED substrate_logs
    /\ Done(t)
    /\ UNCHANGED <<socketVars, bufferVars, queue, peer_connections, expired, purged, failures>>

\* Handler<PurgeLogs>: the expired logs of connections without audit ...
Purgeable(l) == l \in expired /\ source[l] \notin Audit
PurgeExpiredLogs(t) ==
    /\ Handling(t, "purge_logs")
    /\ LET gone == {l \in substrate_logs : Purgeable(l)}
       IN substrate_logs' = substrate_logs \ gone /\ purged' = purged \cup gone
    /\ thread' = [thread EXCEPT ![t] = [op |-> "purge_connections"]]
    /\ UNCHANGED <<socketVars, bufferVars, queue, peer_connections, expired, lost, failures>>

\* ... then the connections, open or not, that no log refers to
Unreferenced_NotOpen(c) == socket[c] # "open"  \* mutant: the closed ones
Unreferenced_Purged(c) ==  \* mutant: those whose logs were purged
    LogsOf(c) = {} /\ \E l \in purged : source[l] = c
Unreferenced(c) == LogsOf(c) = {}
PurgeConnections(t) ==
    /\ Handling(t, "purge_connections")
    /\ peer_connections' = [c \in {d \in DOMAIN peer_connections : ~Unreferenced(d)} |->
           peer_connections[c]]
    /\ Done(t)
    /\ UNCHANGED <<socketVars, bufferVars, queue, substrate_logs, expired, purged, lost, failures>>

\* No connection from the pool, or the statement fails: the handler logs it
\* and goes on.  The handshake that waits for the row is refused.
Fail(t) ==
    /\ failures < MaxFailures
    /\ thread[t] # Idle
    /\ failures' = failures + 1
    /\ thread' = [thread EXCEPT ![t] =
           IF @.op = "purge_logs" THEN [op |-> "purge_connections"] ELSE Idle]
    /\ socket' = IF thread[t].op = "insert_connection"
                 THEN [socket EXCEPT ![thread[t].conn] = "closed"] ELSE socket
    /\ lost' = IF thread[t].op = "insert_logs" THEN lost \cup thread[t].logs ELSE lost
    /\ UNCHANGED <<info, received, source, bufferVars, queue, tableVars>>

\* A log that is in the database gets older than LOG_EXPIRY_H
Expire(l) ==
    /\ l \in substrate_logs \ expired
    /\ expired' = expired \cup {l}
    /\ UNCHANGED <<socketVars, bufferVars, queue, thread, peer_connections, substrate_logs,
                   purged, lost, failures>>

-----------------------------------------------------------------------------
Work(t) ==
    \/ Take(t)
    \/ InsertConnection(t)
    \/ UpdateConnection(t)
    \/ InsertLogs(t)
    \/ PurgeExpiredLogs(t)
    \/ PurgeConnections(t)

Next ==
    \/ \E c \in Conns : Request(c) \/ Close(c)
    \/ \E c \in Conns, kind \in Kinds, timestamped \in Timestamped : Receive(c, kind, timestamped)
    \/ SaveTimer
    \/ BufferLog
    \/ SaveLogs
    \/ SaveBatch
    \/ PurgeTimer
    \/ \E t \in Threads : Work(t) \/ Fail(t)
    \/ \E l \in Logs : Expire(l)

Spec == Init /\ [][Next]_vars

\* The timer that saves fires whenever there is room for its message, the
\* LogBuffer serves its mailbox, and the threads work
FairSpec ==
    /\ Spec
    /\ WF_vars(SaveTimer)
    /\ WF_vars(BufferLog \/ SaveLogs \/ SaveBatch)
    /\ \A t \in Threads : WF_vars(Work(t))

-----------------------------------------------------------------------------
(* Properties                                                              *)

TypeOK ==
    /\ socket \in [Conns -> {"new", "requested", "open", "closed"}]
    /\ info \in [Conns -> PeerConnection]
    /\ received \in 0..MaxLogs
    /\ source \in Seq(Conns) /\ Len(source) = received
    /\ mailbox \in Seq(Logs \cup {0})
    /\ logs \in Seq(Logs)
    /\ saving \in BOOLEAN
    /\ queue \in Seq(DbMessage)
    /\ thread \in [Threads -> DbMessage \cup {Idle}]
    /\ DOMAIN peer_connections \subseteq Conns
    /\ \A c \in DOMAIN peer_connections : peer_connections[c] \in PeerConnection
    /\ {substrate_logs, expired, purged, lost} \subseteq SUBSET Logs
    /\ failures \in 0..MaxFailures

\* Where a log is: in a sequence of logs, in a batch of a queue, in the batch a
\* thread handles, or in a set of logs
Positions(name, q, l) == {<<name, i>> : i \in {j \in DOMAIN q : q[j] = l}}
Batches(q, l) ==
    {<<"queue", i>> : i \in {j \in DOMAIN q : q[j].op = "insert_logs" /\ l \in q[j].logs}}
InHand(t, l) == Handling(t, "insert_logs") /\ l \in thread[t].logs
Member(name, S, l) == {<<name, x>> : x \in {l} \cap S}
Places(l) ==
    Positions("mailbox", mailbox, l)
    \cup Positions("logs", logs, l)
    \cup Batches(queue, l)
    \cup {<<"thread", t>> : t \in {u \in Threads : InHand(u, l)}}
    \cup Member("table", substrate_logs, l)
    \cup Member("purged", purged, l)
    \cup Member("lost", lost, l)

\* A log is in one place: batching, refused batches, failing statements and
\* purges neither store it twice nor forget it.
AccountedOnce == \A l \in 1..received : Cardinality(Places(l)) = 1

\* No purge deletes the connection of a log that stays, though it deletes in
\* two transactions while other threads insert.
ForeignKeys == \A l \in substrate_logs : Stored(source[l])

\* What the database knows of a peer it does not forget, as long as there is a
\* row.  An update overwrites every column, also with what is not known: this
\* needs that a later update says all that an earlier one said, that updates are
\* written in the order in which they were sent, and that no row is inserted over
\* another.  It holds for one thread; two may write in the opposite order.
Below(i, j) == (i.peer_id => j.peer_id) /\ (i.name => j.name)
KnowledgeKept ==
    [][\A c \in DOMAIN peer_connections \cap DOMAIN peer_connections' :
           Below(peer_connections[c], peer_connections'[c])]_vars

\* A log does not stay in the buffer, whatever else arrives.
LogsSettle ==
    \A l \in Logs : (l <= received) ~> (l \in substrate_logs \cup purged \cup lost)

\* A peer the socket knows is known in the database, as long as there is a row.
\* The socket sends the update only once: this holds where the queue has room
\* and statements succeed.  It holds for one thread, and is violated with two:
\* an older update, without the peer_id, may be the last to be written.
PeersIdentified ==
    \A c \in Conns : info[c].peer_id ~> (Stored(c) => peer_connections[c].peer_id)

\* Of a connection that was closed nothing stays in the database but for audit,
\* provided that logs get old and purges happen, though its row may be inserted
\* only after the node went away, may never have a log, and its last logs may be
\* stored between purges and between the two transactions of one.
Purging == WF_vars(PurgeTimer) /\ \A l \in Logs : WF_vars(Expire(l))
ClosedLeave ==
    Purging => \A c \in Conns \ Audit :
        socket[c] = "closed" ~> [](~Stored(c) /\ LogsOf(c) = {})

\* Violated.  "/audit: incoming telemetry with no expiry": no log of an audit
\* connection is lost where the queues have room and statements succeed.
AuditLogsNotLost == \A l \in lost : source[l] \notin Audit
=============================================================================
