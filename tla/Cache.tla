------------------------------- MODULE Cache --------------------------------
(***************************************************************************)
(* The Cache actor (src/cache/mod.rs), the part of the DbExecutor that     *)
(* answers its polls (src/db/peer_data.rs), and, as its environment, the   *)
(* sockets of the live feed that subscribe to it.                          *)
(*                                                                         *)
(* An actor handles one message or one timer at a time, so each handler is *)
(* one action.  Two rules of the actor runtime matter and are relied upon: *)
(* after `ctx.wait(fut)` nothing of the actor runs until fut is ready; and *)
(* the mailbox is emptied before timers are polled, so an answer that was  *)
(* sent before the wait ended is handled before the next timer.            *)
(***************************************************************************)
EXTENDS CacheOps

CONSTANTS
    Keys,                    \* the PeerMessages: (peer_id, msg)
    Subs,                    \* addresses of feed sockets
    None,                    \* Option::None
    CACHE_EXPIRY_S,          \* history kept per key
    CACHE_TIMEOUT_S,         \* an entry unused for this long is dropped
    CACHE_UPDATE_TIMEOUT_S,  \* a quarter of the age at which an update is aborted
    CACHE_MAILBOX,           \* capacity of the Cache's mailbox
    FEED_MAILBOX,            \* capacity of a socket's mailbox
    \* bounds and assumptions on the environment
    MaxTime,                 \* the clock stops here
    MaxRows,                 \* rows ever stored
    Skews,                   \* how far a row's stamp is behind the clock when it becomes visible
    InOrder,                 \* TRUE: rows of a key become visible in strict timestamp order
    FailUntil,               \* queries may fail before this time
    Lookbacks                \* how far before now clients put start_time

ASSUME NoneAssumption == None \notin Int
ASSUME ConstAssumption ==
    /\ {CACHE_EXPIRY_S, CACHE_TIMEOUT_S, CACHE_UPDATE_TIMEOUT_S} \subseteq Nat
    /\ {CACHE_MAILBOX, FEED_MAILBOX, MaxTime, MaxRows, FailUntil} \subseteq Nat
    /\ InOrder \in BOOLEAN
    /\ Lookbacks \subseteq Nat
    /\ Skews \subseteq Int

VARIABLES
    now,             \* the clock
    table,           \* substrate_logs: the rows visible under each key
    stored,          \* how many rows were stored: the last id
    \* Cache.cache, a HashMap: its keys, and one function per field of its
    \* values (an absent key has the reset value)
    cached, deque, last_updated, started_update, last_used,
    \* Cache.subscribers: recipients, and per recipient and key the update time
    subscribers, update_time,
    up,              \* FALSE once the actor has panicked
    mailbox,         \* of the Cache
    waiting,         \* the actor is suspended in ctx.wait
    pending,         \* the PeerMessageTimes not yet queried
    open,            \* the sockets that are connected
    inbox,           \* their mailboxes
    pushed           \* history: the rows sent under the present subscription

cacheVars == <<cached, deque, last_updated, started_update, last_used>>
subVars == <<subscribers, update_time, inbox, pushed>>
dbVars == <<waiting, pending>>
envVars == <<now, table, stored, open>>
vars == <<cacheVars, subVars, dbVars, envVars, up, mailbox>>

PeerDataArray == [key : Keys, data : Seq(Row)]
Message == [type : {"subscribe"}, sub : Subs, key : Keys, start : Int]
           \cup [type : {"unsubscribe"}, sub : Subs, key : Keys]
           \cup [type : {"data"}, key : Keys, data : Seq(Row)]

Init ==
    /\ now = 0
    /\ table = [k \in Keys |-> {}]
    /\ stored = 0
    /\ cached = {}
    /\ deque = [k \in Keys |-> <<>>]
    /\ last_updated = [k \in Keys |-> 0]
    /\ started_update = [k \in Keys |-> None]
    /\ last_used = [k \in Keys |-> 0]
    /\ subscribers = {}
    /\ update_time = [s \in Subs |-> [k \in Keys |-> None]]
    /\ up = TRUE
    /\ mailbox = <<>>
    /\ waiting = FALSE
    /\ pending = [k \in Keys |-> None]
    /\ open = Subs
    /\ inbox = [s \in Subs |-> <<>>]
    /\ pushed = [s \in Subs |-> [k \in Keys |-> {}]]

-----------------------------------------------------------------------------
(* The environment: time, the table, the clients                           *)

Tick ==
    /\ now < MaxTime
    /\ now' = now + 1
    /\ UNCHANGED <<cacheVars, subVars, dbVars, table, stored, open, up, mailbox>>

\* A log of key k becomes visible, stamped t by the clock of its node
Store(k, t) ==
    /\ stored < MaxRows
    /\ InOrder => \A r \in table[k] : r.created_at < t
    /\ stored' = stored + 1
    /\ table' = [table EXCEPT ![k] = @ \cup {[id |-> stored + 1, created_at |-> t]}]
    /\ UNCHANGED <<cacheVars, subVars, dbVars, now, open, up, mailbox>>

\* A client (re)connects.  Addresses are never reused, so the address can be
\* taken for a new one only when the Cache holds nothing of the old one.
Connect(s) ==
    /\ s \notin open \cup subscribers
    /\ \A i \in DOMAIN mailbox : mailbox[i].type # "data" => mailbox[i].sub # s
    /\ open' = open \cup {s}
    /\ UNCHANGED <<cacheVars, subVars, dbVars, now, table, stored, up, mailbox>>

\* The socket actor stops; what it had not handled is lost
Close(s) ==
    /\ s \in open
    /\ open' = open \ {s}
    /\ inbox' = [inbox EXCEPT ![s] = <<>>]
    /\ UNCHANGED <<cacheVars, subscribers, update_time, pushed, dbVars,
                   now, table, stored, up, mailbox>>

\* The socket handles the next array
Consume(s) ==
    /\ inbox[s] # <<>>
    /\ inbox' = [inbox EXCEPT ![s] = Tail(@)]
    /\ UNCHANGED <<cacheVars, subscribers, update_time, pushed, dbVars,
                   envVars, up, mailbox>>

\* process_message: try_send of a Subscription, refused when the mailbox is
\* full or the Cache is gone (the client is told, nothing changes)
Send(s, m) ==
    /\ s \in open
    /\ IF up /\ Len(mailbox) < CACHE_MAILBOX
       THEN mailbox' = Append(mailbox, m)
       ELSE UNCHANGED mailbox
    /\ UNCHANGED <<cacheVars, subVars, dbVars, envVars, up>>

SendSubscribe_Unset(s, k, back) ==  \* mutant: no default start_time
    Send(s, [type |-> "subscribe", sub |-> s, key |-> k, start |-> None])
SendSubscribe(s, k, back) ==
    Send(s, [type |-> "subscribe", sub |-> s, key |-> k, start |-> now - back])
SendUnsubscribe(s, k) ==
    Send(s, [type |-> "unsubscribe", sub |-> s, key |-> k])

-----------------------------------------------------------------------------
(* DbExecutor: Handler<PeerMessageTimeList>.  The keys of the list come in *)
(* the order of a HashMap, that is, in any order.                          *)

\* The query succeeds and its result is sent with do_send, which ignores the
\* capacity of the mailbox
DbAnswers(k) ==
    /\ pending[k] # None
    /\ \E rows \in get_logs(table[k], pending[k]) :
           mailbox' = Append(mailbox, [type |-> "data", key |-> k, data |-> rows])
    /\ pending' = [pending EXCEPT ![k] = None]
    /\ UNCHANGED <<cacheVars, subVars, envVars, up, waiting>>

\* No connection, or the query fails: the key is skipped without an answer
DbFails(k) ==
    /\ pending[k] # None
    /\ now < FailUntil
    /\ pending' = [pending EXCEPT ![k] = None]
    /\ UNCHANGED <<cacheVars, subVars, envVars, up, mailbox, waiting>>

\* The handler returns: the future the Cache waits for is ready
DbReturns ==
    /\ waiting
    /\ \A k \in Keys : pending[k] = None
    /\ waiting' = FALSE
    /\ UNCHANGED <<cacheVars, subVars, envVars, up, mailbox, pending>>

-----------------------------------------------------------------------------
(* Cache: timers                                                           *)

updates_in_progress == {k \in cached : started_update[k] # None}

Runs == up /\ ~waiting
MailboxFirst == \A i \in DOMAIN mailbox : mailbox[i].type # "data"
TimerRuns == Runs /\ MailboxFirst

\* The updates request_updates gives up
TimedOut ==
    {k \in updates_in_progress : now - started_update[k] > 4 * CACHE_UPDATE_TIMEOUT_S}

\* initialise_update: the entries its retain keeps, and those it polls for
Retained == {k \in cached : last_used[k] + CACHE_TIMEOUT_S > now}
Due_NoRetry == {k \in Retained : k \notin updates_in_progress}  \* mutant: never given up
Due == {k \in Retained : k \notin updates_in_progress \/ k \in TimedOut}

\* ctx.wait, unless there was nothing to ask
Suspends_Never == FALSE  \* mutant: the Cache does not wait for the query
Suspends == Due # {}

request_updates ==
    /\ TimerRuns
    /\ cached' = Retained
    /\ deque' = [k \in Keys |-> IF k \in Retained THEN deque[k] ELSE <<>>]
    /\ last_updated' = [k \in Keys |-> IF k \in Retained THEN last_updated[k] ELSE 0]
    /\ last_used' = [k \in Keys |-> IF k \in Retained THEN last_used[k] ELSE 0]
    /\ started_update' = [k \in Keys |-> IF k \in Due THEN now
                                         ELSE IF k \in Retained THEN started_update[k]
                                         ELSE None]
    /\ pending' = [k \in Keys |-> IF k \in Due THEN last_updated[k] ELSE pending[k]]
    /\ waiting' = Suspends
    /\ UNCHANGED <<subVars, envVars, up, mailbox>>

purge_expired ==
    /\ TimerRuns
    /\ deque' = [k \in Keys |-> Purged(deque[k], now - CACHE_EXPIRY_S)]
    /\ UNCHANGED <<cached, last_updated, started_update, last_used,
                   subVars, dbVars, envVars, up, mailbox>>

-----------------------------------------------------------------------------
(* Cache: handlers                                                         *)

\* The actor runs and its next message is of the given type
NextIs(type) ==
    /\ Runs
    /\ mailbox # <<>>
    /\ Head(mailbox).type = type

\* try_send to a socket
Accepts(s) == s \in open /\ Len(inbox[s]) < FEED_MAILBOX

\* The subscribers S of key k are sent the slice of the deque q that begins,
\* for each, at start[s]
update_subscribers(S, k, q, start) ==
    /\ inbox' = [s \in Subs |->
           IF s \in S THEN Append(inbox[s], [key |-> k, data |-> Slice(q, start[s])])
           ELSE inbox[s]]
    /\ pushed' = [s \in Subs |->
           IF s \in S THEN [pushed[s] EXCEPT ![k] = @ \cup RowsOf(Slice(q, start[s]))]
           ELSE IF s \in subscribers' THEN pushed[s]
           ELSE [j \in Keys |-> {}]]

\* The subscribers of k; those that do not accept are dropped with all their
\* subscriptions (send_updates and the removal of the dead)
Subscribed(k) == {s \in subscribers : update_time[s][k] # None}
Dead_Kept(k) == {}  \* mutant: they stay
Dead(k) == {s \in Subscribed(k) : ~Accepts(s)}
Reached(k) == {s \in Subscribed(k) : Accepts(s)}

send_updates(k, q, stamp) ==
    /\ subscribers' = subscribers \ Dead(k)
    /\ update_time' = [s \in Subs |->
           IF s \in Dead(k) THEN [j \in Keys |-> None]
           ELSE IF s \in Reached(k) THEN [update_time[s] EXCEPT ![k] = stamp]
           ELSE update_time[s]]
    /\ last_used' = IF Reached(k) = {} THEN last_used ELSE [last_used EXCEPT ![k] = now]
    /\ \E start \in [Reached(k) -> 1..(Len(q) + 1)] :
           /\ \A s \in Reached(k) : start[s] \in SliceStarts(q, update_time[s][k])
           /\ update_subscribers(Reached(k), k, q, start)

process_peer_data_response ==
    /\ NextIs("data")
    /\ mailbox' = Tail(mailbox)
    /\ LET k == Head(mailbox).key
           q == deque[k] \o Head(mailbox).data
           expected == k \in updates_in_progress
       IN /\ started_update' = [started_update EXCEPT ![k] = IF expected THEN None ELSE @]
          /\ IF expected /\ Head(mailbox).data # <<>>
             THEN /\ deque' = [deque EXCEPT ![k] = q]
                  /\ last_updated' = [last_updated EXCEPT ![k] = q[Len(q)].created_at]
                  /\ send_updates(k, q, q[Len(q)].created_at)
             ELSE UNCHANGED <<deque, last_updated, last_used, subVars>>
    /\ UNCHANGED <<cached, dbVars, envVars, up>>

\* The update time a subscriber starts from: or_insert keeps an existing one
StartFrom_Insert(s, k, start) == start  \* mutant: insert
StartFrom(s, k, start) == IF update_time[s][k] = None THEN start ELSE update_time[s][k]

\* subscribe, Entry::Vacant
SubscribeVacant ==
    /\ NextIs("subscribe")
    /\ mailbox' = Tail(mailbox)
    /\ LET s == Head(mailbox).sub
           k == Head(mailbox).key
       IN /\ k \notin cached
          /\ subscribers' = subscribers \cup {s}
          /\ update_time' = [update_time EXCEPT ![s][k] = StartFrom(s, k, Head(mailbox).start)]
          /\ cached' = cached \cup {k}
          /\ last_updated' = [last_updated EXCEPT ![k] = now - CACHE_EXPIRY_S]
          /\ last_used' = [last_used EXCEPT ![k] = now]
    /\ UNCHANGED <<deque, started_update, inbox, pushed, dbVars, envVars, up>>

\* subscribe, Entry::Occupied: what is cached is sent at once; a failure to
\* send is ignored and the subscription stays
SubscribeOccupied ==
    /\ NextIs("subscribe")
    /\ mailbox' = Tail(mailbox)
    /\ LET s == Head(mailbox).sub
           k == Head(mailbox).key
           from == StartFrom(s, k, Head(mailbox).start)
       IN /\ k \in cached
          /\ subscribers' = subscribers \cup {s}
          /\ \E i \in SliceStarts(deque[k], from) :
                IF Accepts(s)
                THEN /\ update_time' = [update_time EXCEPT ![s][k] = last_updated[k]]
                     /\ last_used' = [last_used EXCEPT ![k] = now]
                     /\ update_subscribers({s}, k, deque[k], [t \in {s} |-> i])
                ELSE /\ update_time' = [update_time EXCEPT ![s][k] = from]
                     /\ UNCHANGED <<last_used, inbox, pushed>>
    /\ UNCHANGED <<cached, deque, last_updated, started_update, dbVars, envVars, up>>

\* subscribe, Entry::Occupied with nothing in the deque: the search for the
\* closest row finds none and `expect("")` panics.  The actor is not
\* supervised: its state and its mailbox are gone.
SubscribePanics ==
    /\ NextIs("subscribe")
    /\ Head(mailbox).key \in cached
    /\ deque[Head(mailbox).key] = <<>>
    /\ up' = FALSE
    /\ mailbox' = <<>>
    /\ cached' = {}
    /\ deque' = [k \in Keys |-> <<>>]
    /\ last_updated' = [k \in Keys |-> 0]
    /\ started_update' = [k \in Keys |-> None]
    /\ last_used' = [k \in Keys |-> 0]
    /\ subscribers' = {}
    /\ update_time' = [s \in Subs |-> [k \in Keys |-> None]]
    /\ pushed' = [s \in Subs |-> [k \in Keys |-> {}]]
    /\ UNCHANGED <<inbox, dbVars, envVars>>

subscribe == SubscribeVacant \/ SubscribeOccupied \/ SubscribePanics

unsubscribe ==
    /\ NextIs("unsubscribe")
    /\ mailbox' = Tail(mailbox)
    /\ LET s == Head(mailbox).sub
           k == Head(mailbox).key
       IN /\ update_time' = [update_time EXCEPT ![s][k] = None]
          /\ pushed' = [pushed EXCEPT ![s][k] = {}]
    /\ UNCHANGED <<cacheVars, subscribers, inbox, dbVars, envVars, up>>

-----------------------------------------------------------------------------
handle == process_peer_data_response \/ subscribe \/ unsubscribe

Next ==
    \/ Tick
    \/ \E k \in Keys, skew \in Skews : Store(k, now - skew)
    \/ \E s \in Subs : Connect(s) \/ Close(s) \/ Consume(s)
    \/ \E s \in Subs, k \in Keys, back \in Lookbacks : SendSubscribe(s, k, back)
    \/ \E s \in Subs, k \in Keys : SendUnsubscribe(s, k)
    \/ \E k \in Keys : DbAnswers(k) \/ DbFails(k)
    \/ DbReturns
    \/ request_updates
    \/ purge_expired
    \/ process_peer_data_response
    \/ SubscribeVacant
    \/ SubscribeOccupied
    \/ SubscribePanics
    \/ unsubscribe

Spec == Init /\ [][Next]_vars

\* Time passes, a query ends, the update timer fires; and, because the actor
\* empties its mailbox before it polls its timers, a message is handled even
\* though every update suspends the actor again (strong fairness).
FairSpec ==
    /\ Spec
    /\ WF_vars(Tick)
    /\ \A k \in Keys : WF_vars(DbAnswers(k) \/ DbFails(k))
    /\ WF_vars(DbReturns)
    /\ WF_vars(request_updates)
    /\ SF_vars(handle)
-----------------------------------------------------------------------------
(* Properties                                                              *)

\* Every variable has its type.
TypeOK ==
    /\ now \in Nat
    /\ table \in [Keys -> SUBSET Row]
    /\ stored \in Nat
    /\ cached \subseteq Keys
    /\ deque \in [Keys -> Seq(Row)]
    /\ last_updated \in [Keys -> Int]
    /\ started_update \in [Keys -> Int \cup {None}]
    /\ last_used \in [Keys -> Int]
    /\ subscribers \subseteq Subs
    /\ update_time \in [Subs -> [Keys -> Int \cup {None}]]
    /\ up \in BOOLEAN
    /\ mailbox \in Seq(Message)
    /\ waiting \in BOOLEAN
    /\ pending \in [Keys -> Int \cup {None}]
    /\ open \subseteq Subs
    /\ inbox \in [Subs -> Seq(PeerDataArray)]
    /\ pushed \in [Subs -> [Keys -> SUBSET Row]]

IsAnswer(i, k) == mailbox[i].type = "data" /\ mailbox[i].key = k

\* A deque is in the order of its timestamps, which binary_search_by relies
\* upon, holds no row twice (the open question of process_peer_data_response),
\* and ends in the row last_updated was taken from, also after a purge.
DequeInv ==
    \A k \in Keys : deque[k] # <<>> =>
        /\ k \in cached
        /\ Chronological(deque[k])
        /\ Distinct(deque[k])
        /\ last_updated[k] = deque[k][Len(deque[k])].created_at

QueryExpected(k) ==
    pending[k] # None =>
        /\ waiting
        /\ k \in updates_in_progress
        /\ pending[k] = last_updated[k]
        /\ \A i \in DOMAIN mailbox : ~IsAnswer(i, k)
AnswerExpected(k) ==
    \A i \in DOMAIN mailbox : IsAnswer(i, k) =>
        /\ k \in updates_in_progress
        /\ Chronological(mailbox[i].data)
        /\ Distinct(mailbox[i].data)
        /\ \A r \in RowsOf(mailbox[i].data) : r.created_at > last_updated[k]
        /\ \A j \in DOMAIN mailbox : IsAnswer(j, k) => i = j

\* A query asks for what follows the present last row of an entry that waits
\* for it, and so does every answer under way; no entry has two.  An answer
\* that outlives its update or its entry never meets a later one.
ResponsesExpected == \A k \in Keys : QueryExpected(k) /\ AnswerExpected(k)

\* Whoever was sent rows of a key is where the cache is: its update time is
\* the last row of the deque, whatever was purged, unsubscribed, refused or
\* evicted since.
SubscribersInStep ==
    \A s \in Subs, k \in Keys :
        pushed[s][k] # {} /\ deque[k] # <<>> => update_time[s][k] = last_updated[k]

\* The time a key is polled from goes forward as long as it stays cached.
LastUpdatedNeverRewinds ==
    [][\A k \in cached \cap cached' : last_updated'[k] >= last_updated[k]]_vars

\* A subscriber is ahead of the cache when it holds rows younger than the last
\* poll: only when the entry was dropped and made anew, and polls its history
\* again.
Ahead(s, k) == \E r \in pushed[s][k] : r.created_at > last_updated[k]
SentAgain(s, k) ==
    IF Len(inbox'[s]) > Len(inbox[s]) /\ inbox'[s][Len(inbox'[s])].key = k
    THEN RowsOf(inbox'[s][Len(inbox'[s])].data) \cap pushed[s][k]
    ELSE {}

\* Where a subscriber is not ahead of the cache, the rows it is sent again
\* share the timestamp of the last.
OnlyTiesSentAgain ==
    [][\A s \in Subs, k \in Keys : ~Ahead(s, k) =>
           \A r \in SentAgain(s, k) : r.created_at = update_time[s][k]]_vars

\* The rows of the history that is kept: purge_expired may drop the others
Recent(r) == Fresh(r, now - CACHE_EXPIRY_S)

\* Where rows become visible in order, an entry holds all of its recent history,
\* up to the row it polls from, whatever failed, was cut short by the limit of
\* the query, purged, or dropped and made anew.
HistoryCached ==
    \A k \in cached : \A r \in table[k] :
        Recent(r) /\ r.created_at <= last_updated[k] => r \in RowsOf(deque[k])

\* Where rows become visible in order, a subscriber has, after any row it has
\* and up to its update time, all recent rows.  Older ones it may lack: its
\* entry was dropped and made anew when they were too old to be polled.
PushedGapless ==
    \A s \in Subs, k \in Keys : \A p \in pushed[s][k], r \in table[k] :
        /\ Recent(r)
        /\ p.created_at < r.created_at
        /\ r.created_at <= update_time[s][k]
        => r \in pushed[s][k]

\* Where rows become visible in order, the Cache implements Delivery: what was
\* pushed under a subscription only grows and has all recent rows up to the
\* update time, while entries are dropped and made anew, polls fail or are cut
\* short, sockets refuse rows and lose their subscriptions.
Promise == INSTANCE Delivery WITH
    rows <- table,
    horizon <- now - CACHE_EXPIRY_S + MILLI - 1,
    subscribed <- [s \in Subs |-> {k \in Keys : update_time[s][k] # None}],
    position <- update_time,
    delivered <- pushed
ImplementsDelivery == Promise!Spec

\* A visible row the cache has still to poll, younger than what a subscriber
\* has or asked for, is sent to it: unless it unsubscribes or is dropped, the
\* entry is evicted, or the actor dies.
Awaited(s, k, n) ==
    /\ update_time[s][k] # None
    /\ k \in cached
    /\ \E r \in table[k] :
           r.id = n /\ r.created_at > last_updated[k] /\ r.created_at > update_time[s][k]
Sent(s, k, n) == \E r \in pushed[s][k] : r.id = n
RowsReachSubscribers ==
    \A s \in Subs, k \in Keys, n \in 1..MaxRows :
        Awaited(s, k, n) ~> \/ Sent(s, k, n)
                            \/ update_time[s][k] = None
                            \/ k \notin cached

\* Violated.  "If we have some data cached already, send it without waiting":
\* a subscription is served, the Cache survives it.
NeverPanics == up

\* Violated.  "Pushing relevant data to them as it becomes available": every
\* visible row younger than what a subscriber has is sent to it, or the
\* subscription ends.
AllRowsReachSubscribers ==
    \A s \in Subs, k \in Keys, n \in 1..MaxRows :
        (/\ update_time[s][k] # None
         /\ \E r \in table[k] : r.id = n /\ r.created_at > update_time[s][k])
        ~> (Sent(s, k, n) \/ update_time[s][k] = None)
=============================================================================
