# A verification of substrate-analytics

TLA+ specifications of the parts of substrate-analytics that run concurrently,
TLC runs that check them on small instances, and proofs for every instance.
Paths are those of the repository, `src/src/cache/mod.rs` being its
`src/cache/mod.rs`; the definitions carry the names of the source where they can.
`PROJECT.json` maps each definition to the lines it stands for.

## The system

Nodes of a network send telemetry over a websocket; it is batched into
PostgreSQL; clients of a live feed subscribe to one kind of message of one node
and are pushed its rows, as they are or aggregated. Everything is an actor
(actix): it has a mailbox, handles one message or one timer at a time, and
shares nothing. The database is reached through the DbExecutor, a pool of
threads with one queue.

| Component | Source | State | Operations | Speaks to |
|---|---|---|---|---|
| Cache | `cache/mod.rs` | per key: deque of rows, `last_updated`, `started_update`, `last_used`; per subscriber and key: update time | timers `request_updates`, `purge_expired`; messages `Subscription`, `PeerDataArray` | polls the DbExecutor and waits for it; pushes to feed sockets with `try_send` |
| Polls | `db/peer_data.rs` | none | `PeerMessageTimeList`: one query per key | answers the Cache with `do_send` |
| Feed socket | `web/feed.rs` | heartbeat; per key an aggregate subscription with a remainder | text messages, `PeerDataArray`, heartbeat | `try_send` to the Cache |
| Node socket | `web/root.rs` | what is known of the peer; heartbeat | handshake, messages, heartbeat | DbExecutor (waits for the row of the connection, then `try_send`), LogBuffer (`try_send`) |
| LogBuffer | `main.rs` | the logs not yet saved | `NewSubstrateLog`, `SaveLogs` | DbExecutor (`try_send` of batches) |
| DbExecutor | `db/mod.rs` | the tables | insert and update a connection, insert a batch, purge | PostgreSQL |
| PeriodicAction | `util/mod.rs` | none | sends `SaveLogs`, `PurgeLogs` | `try_send` |
| Metrics | `web/metrics.rs` | atomic counters | count, render | |
| Queries, benchmarks, dashboard | `db/`, `web/` | tables | read-only SQL, single inserts, files | |

What is hard, by component, and what makes it correct:

- **Cache.** Polls are answered later, or never; between poll and answer entries
  are dropped and made anew, subscribers come and go, and rows become visible in
  an order that is not that of their timestamps. It is correct when deques stay
  in order and free of duplicates (a binary search relies on it), when an answer
  is only ever applied to the update that asked for it, when a subscriber
  gets no row twice and none is left out, and when every row gets there.
- **Polls.** The bound of a query, and its `>` on timestamps, decide what the next
  poll skips.
- **Feed socket.** Rows of the interval that is not over are kept and aggregated
  again with the next array; each must count once. What the socket knows of a
  subscription and what the Cache knows of it are changed by different messages,
  each of which may be refused; they must agree in the end.
- **Heartbeats and metrics.** A socket looks at the time of the last answer once
  per interval; it must disconnect the silent and only them. A gauge is the
  difference of two counters that other threads increment.
- **Node socket, LogBuffer, DbExecutor.** Queues are bounded and refused messages
  dropped; threads overtake each other; a purge is two transactions. It is
  correct when each log is stored once or lost for a reason, the foreign key holds,
  the database learns who a peer is and does not forget it, and what is no longer
  wanted leaves it, but for audit.

The hazards are listed with their lines in `PROJECT.json`.

## Modules

**CacheOps** holds the pure computations: where the slice for a subscriber starts
(`SliceStarts`, from `update_subscriber`), what a purge leaves (`Purged`) and what
a query may answer (`get_logs`). They are sets of results where the code's choice
is not determined: which of several equal timestamps a binary search finds, and
how the database orders ties. `MILLI` clock units are a millisecond, since the
search rounds to milliseconds what the database stores in microseconds.

**Cache** is the Cache actor, the handler of its polls, and an environment: the
clock, the table, clients that connect, subscribe, unsubscribe and close. The
HashMap `cache` is the set `cached` of its keys and one function per field of
`PeerMessageCache`; `subscribers` is a set and the function `update_time`. One
action per handler: `request_updates` (timeouts, `initialise_update` and the
suspension, in one), `purge_expired`, `process_peer_data_response` (with
`send_updates` and the removal of the dead), `SubscribeVacant`,
`SubscribeOccupied`, `SubscribePanics`, `unsubscribe`. The database answers one
key at a time while the Cache is suspended (`DbAnswers`, `DbFails`, `DbReturns`).
`pushed` is a history variable: what a subscriber was sent under its present
subscription.

Rules of the actor runtime that the model takes from actix: `ctx.wait` suspends
all of the actor, mailbox and timers; the mailbox is polled before the timers,
so an answer sent before the wait ended is handled before the next
`request_updates` (`MailboxFirst`); `do_send` ignores a mailbox's capacity,
`try_send` does not. The extra slot actix grants each sender and timer ticks that
pile up during a wait are left out: the former is a larger capacity, the latter
repeat a timer at the same time, which the unconstrained timers allow.
`Instant` and the wall clock are one clock.

**Delivery** is the abstract specification of the feed: of each key it subscribed to a
subscriber holds visible rows, which only grow until the subscription ends; what it
gets lies before its `position`, and up to there it has everything since its first
row that is younger than the `horizon`. It has rows, subscriptions and what was
delivered, and nothing of deques, polls and mailboxes. Three things happen: a row becomes
visible (`Appear`), rows get old (`Age`), and rows are delivered (`Deliver`, which
is several subscribers at once, since one answer serves some and drops others).
Cache implements it where rows become visible in order, under the mapping `Promise`:
`rows <- table`, `subscribed` and `position` from `update_time`, `delivered <- pushed`,
and `horizon <- now - CACHE_EXPIRY_S + MILLI - 1`, the youngest timestamp that a purge,
which compares whole milliseconds, may take for expired.

**Feed** EXTENDS Cache and puts the feed socket in the place of its clients: `remainder`
is, per key, whether there is an aggregate subscription and whether its
`aggregate_remainder` holds rows, all that decides about control. A handler is an action
(`SubscribeRaw`, `SubscribeAggregate`, `Unsubscribe`, `HandleArray`,
`HandleArrayPanics`, `Leave`), except that replacing an aggregate subscription sends two messages
(`ReplaceAggregate`, `SendReplacement`, with `to_send` between them), and the Cache,
on another thread, may run between the two. Handlers of one socket do not interleave
(`Idle`). Each other action of Cache is taken over (`SendData`, `Elsewhere`). `asked` is a history variable: what
the client may believe, given the replies it got. It is "unsure" after an error that
followed a change, and when the Cache drops it without telling it.

**Sockets** is the life of the websockets, of nodes and of the feed: the handshake,
the start of the actor, heartbeats, pings and pongs, Drop; with the counters each step
increments and the gauges that are computed from them. Times are relative: since
the socket heard from its peer (`hb`), until its next heartbeat (`due`), since each
unanswered ping (`pings`); so time needs no bound. `scrape` is a request to
`/metrics/` that has loaded the first counter of a gauge and not yet the second, in
either order, since the loads are relaxed. `aborted` remembers that a feed socket
was dropped before its actor had started.

**Ingest** is the way of a log into the database: node sockets (`Request`,
`Receive`, `Close`), the LogBuffer (`BufferLog`, `SaveLogs`, and `SaveBatch` for
each turn of its loop, since other threads take from the queue meanwhile), the
timers, and threads that take messages from one queue and execute each
statement as one transaction. A log is a number; what is known of a peer is
whether its id and its other columns are. Names, versions and the content of
logs are left out.

**Aggregation** is the handler of `PeerDataArray` for an aggregate subscription:
the loop over the rows as a recursive function of the number of rows it has seen
(`Loop`, one `Turn` per row), with the state the loop has (`start_ts`, `accum`,
`last_index`, `aggregates`). A measurement is the row it comes from. What an aggregate
shows of the measurements of one target and name is the operator `Pick`: integer
division towards zero for the mean, rounded indexes into the sorted times for the
median and the percentile. Sorting is by counting: the place of a measurement is the
number of those not after it.

**MCCache**, **MCIngest** and **MCFeed** add symmetry for TLC. **CacheProofs**,
**DeliveryProofs**, **FeedProofs**, **AgreementProofs**, **IngestProofs**, **SocketsProofs**,
**AggregationProofs** and **PickProofs** hold the proofs.
The operators named `X_Y` and commented *mutant* are changed copies of `X` that
show which property notices the change; no specification uses them.

## Runs

| Run | Shows |
|---|---|
| `cache_safety` | types; deques in order (`DequeInv`); answers expected (`ResponsesExpected`); a subscriber is where the cache is (`SubscribersInStep`); polls go forward (`LastUpdatedNeverRewinds`); whoever is not ahead of the cache is sent again only rows tied with the last (`OnlyTiesSentAgain`) |
| `cache_delivery` | what is sent has no gaps among recent rows (`PushedGapless`), and neither has what is cached (`HistoryCached`); each row still to be polled is sent (`RowsReachSubscribers`); the Cache implements Delivery (`ImplementsDelivery`) |
| `feed_safety` | types, and that a replaced subscription is emptied until its successor is sent (`FeedTypeOK`); socket, Cache and client agree about a subscription once nothing about it is under way (`AgreeWhenQuiet`); of the recent rows of the table none after the start time that counts is left out (`NothingSkipped`) |
| `ingest_safety` | types; each log in one place (`AccountedOnce`); the foreign key (`ForeignKeys`) |
| `ingest_delivery` | logs leave the buffer (`LogsSettle`); peers become known (`PeersIdentified`); what the database knows of a peer it does not forget (`KnowledgeKept`); of a connection that was closed nothing stays (`ClosedLeave`) |
| `aggregation_safety` | types; nothing aggregated twice (`AggregatedOnce`); timestamps increase (`StampsIncrease`); an aggregate covers one interval (`WithinInterval`); the time shown stands for the measurements (`PicksRepresent`) |
| `sockets_heartbeat` | types; a peer that answers in time stays (`AnsweringStays`); a silent one is noticed within timeout and interval (`SilentNoticed`) and leaves (`SilentLeaves`); gauges count the sockets (`GaugesExact`) |

Five runs find the code at odds with what the repository says of it:

| Run | Finding |
|---|---|
| `cache_panic` | a subscription to a key that is cached but has no rows yet panics the Cache (`cache/mod.rs:324`) |
| `cache_starvation` | an entry without new rows for `CACHE_TIMEOUT_S` is dropped although it has subscribers (`cache/mod.rs:61`), who get nothing more |
| `ingest_audit` | a purge deletes the row of an open connection without logs (`db/mod.rs:183`), and its logs are refused from then on, together with those batched with them |
| `ingest_overtaken` | two updates of a connection are written in the opposite order (`db/mod.rs:106`) and its `peer_id` is lost |
| `aggregation_forgets` | an array that closes two intervals drops the measurement that closed the first (`web/feed.rs:91`) |

Met while reading and not a run of its own:

- A start time equal to the timestamp of the last cached row is answered with an
  empty array (`cache/mod.rs:302`), which the feed's `expect` (`web/feed.rs:58`) calls
  impossible: the socket of a client whose aggregate has no rows yet panics. Feed has
  this step (`HandleArrayPanics`).
- A raw subscription to a key that has an aggregate subscription does not end it:
  the client goes on getting aggregates, and its new `start_time` is ignored
  (`or_insert`, `cache/mod.rs:400`).
- When the Cache refuses the first message of a replacement, the socket has the new
  aggregate and the Cache the old subscription; rows under way for the
  replaced subscription are aggregated for the new one, and sent again for it.
- A request to `/feed/` whose handshake fails counts as a disconnection of something
  that never connected, and the gauge of feeds is one too low from then on and
  wraps below zero (`web/metrics.rs:196`); `aborted` in Sockets.
- A node that sends logs but answers no pings is disconnected: text and binary
  messages do not count as being heard (`web/root.rs:205-227`).
- An entry that is dropped (`CACHE_TIMEOUT_S`) while a client is subscribed, and made anew by
  another subscription more than `CACHE_EXPIRY_S` later, polls from the beginning of the
  history only: the client never gets the rows in between that are too old by
  then. `PushedGapless`, Delivery and `NothingSkipped` speak of recent rows for that reason.
- An entry made anew polls its history again. When `RECORD_LIMIT` cuts the first answer
  short, the update time of a client subscribed before goes back to the last row of
  that answer (`Ahead` in Cache), and the rows after it are sent to it once more.
- With `DB_BATCH_SIZE` 0 `SaveLogs` does not end (`main.rs:131`): Ingest admits the
  value, and `LogsSettle` is violated with it.
- With the defaults, an update is given up after 60 s, when `CACHE_TIMEOUT_S` drops
  the entry anyway; while the database hangs the Cache is suspended, and the
  timeout that should abort the update is not looked at.
- Rows that become visible with a timestamp not younger than the last one polled
  are never polled; a purge keeps a deque whole when all of it is expired; the
  README's "whichever is reached sooner" (batch size or latency) is only the latency.

### Bounds

- `cache_safety`: one key, two symmetric sockets, two rows, clock 0..2, stamps on time
  or two units late, mailboxes of one message, an update given up after one unit, an entry dropped
  after one, rows purged after two, queries that may fail before time 1. Keys do
  not interact but through the mailbox and the suspension; two sockets suffice
  for one to be served while another is refused. Time runs long enough for an entry
  to be dropped and made again, a poll to fail and be repeated, and a purge.
- `cache_delivery`: one socket and three rows with `RECORD_LIMIT` 1, so that a
  poll leaves rows behind; milliseconds of two clock units, so that the search
  rounds; rows that expire after three units of a clock 0..4, and an entry dropped after
  one, so that it is purged, dropped and made anew while the client stays
  subscribed; rows visible in strict order of time (`InOrder`), without which
  `PushedGapless` does not hold and rows are skipped.
- `ingest_safety`: two connections, one of them audit, two logs, two threads, a
  LogBuffer mailbox of one and a queue of two, so that both refuse; one failure;
  messages with and without a timestamp.
- `ingest_delivery`: one connection, three logs in batches of two, one thread, a
  peer that first sends information without its id; room in the queue, no failures.
  All messages carry a timestamp, so that `MaxLogs` bounds the updates too and
  the queue has room for them. The connection may close at any time: while its row is
  being inserted, before it sent a log, with logs in the buffer, and between the two
  transactions of a purge.
- `aggregation_safety`: five rows in arrays of up to three, two clock units to the
  second, intervals of a second, ten timestamps. Three rows are what it takes for
  one array to close two intervals. When all rows have come nothing happens
  any more, hence `CHECK_DEADLOCK FALSE`. `PicksRepresent` looks at all sequences of up to
  ten times out of {-3, 0, 3}: ten is where the percentile first is not the last one,
  and the mean of negative times is where division towards zero matters.
- `feed_safety`: one socket, one key, two rows visible in order, a Cache mailbox
  of two (a replacement fits, or only its first message, or nothing), a socket mailbox of
  one, so that the Cache drops the socket; start times now and two units ago, before and after
  what is cached. The other sockets of a Cache matter to one only through the
  mailbox, which is full often enough.
- `sockets_heartbeat`: a node with interval 2 and timeout 4, where a ping may be
  unanswered when the next is sent, and a feed with 1 and 3, where three may be; counters modulo 4
  (the code's wrap at 2^64), so that they wrap. Connections are independent but for the counters.

### Fairness

`FairSpec` of Cache: time passes; a query ends, in an answer or a failure, and so
does the handler (the database does not hang); the interval timer fires (weak
fairness, as it stays enabled until it does); the mailbox is served with strong
fairness, because each update suspends the actor again but the mailbox is polled
whenever it resumes. Nothing is assumed of clients, nor that queries succeed
before time `FailUntil`. `FairSpec` of Ingest: the timer that sends `SaveLogs` fires, the LogBuffer
serves its mailbox, each thread works. Nothing is assumed of nodes. `ClosedLeave` has a
premise of its own, `Purging`: logs get old, and the timer that sends `PurgeLogs` fires
when there is room for its message. A firing that finds the queue full is repeated an
interval later (`PeriodicAction`), and arrivals end, so there is room again. It is no
part of `FairSpec`, so that `PeersIdentified`, which is about rows that stay, is not
fulfilled by a purge.
`FairSpec` of Sockets: time passes, a heartbeat that is due runs, a pong that is under way
arrives (weak fairness; `Tick` does not go beyond a heartbeat or the time for an
answer, so neither is starved by the clock). Peers may fall silent at any time.
Aggregation and Feed are checked for safety only.

`RowsReachSubscribers` ends its obligation when the subscription ends or the entry is
dropped, and speaks of rows after the last one polled; `cache_starvation`
shows what remains of the stronger promise. `PeersIdentified` and
`KnowledgeKept` hold with one thread (`NUM_THREADS` 1) and not with two: `ingest_overtaken`
shows it of the former, by a step that violates the latter.

## Proofs

Every invariant and action property of the passing runs is also a theorem, for all
values of the constants that satisfy the named assumptions of the module: any number of
sockets, keys, connections, rows and threads, any capacities and times. The proofs
of a component are in modules of their own.

`CacheProofs`, of `Spec` in Cache:

- `TypeCorrect`: `TypeOK` is invariant.
- `DequesInOrder`, `AnswersExpected`: `DequeInv` and `ResponsesExpected` are. Neither
  `DequeInv` alone nor with the types is inductive: an answer is appended to a deque, and that
  this leaves it in order and free of duplicates needs that the answer holds only
  rows after the present `last_updated`, that there is one answer per entry, and
  that none outlives its entry. So `IInv == TypeOK /\ DequeInv /\ ResponsesExpected`
  is what the steps preserve (`IInvStep`, one step per action). `ResponsesExpected` in
  turn rests on the suspension: while a query runs, nothing of the Cache does
  (`RunsAlone`), and no timer runs before the answers are handled.
- `PollsGoForward`: `LastUpdatedNeverRewinds`, by `Inductive` and `AppendedRows`.
- `NothingYoungerLeftOut`: in a chronological deque the slice for a
  subscriber starts after no row younger than its update time, although
  distances are compared in truncated milliseconds (`MillisMonotone`).

The lemmas before them say what a slice, a purge and a query keep
(`SliceKeeps`, `PurgedKeeps`, `get_logsReturns`).

`DeliveryProofs`, of the same `Spec`. What a step does to one subscription is said once
(`StepServed`): it is left alone (`Kept`), ends (`Ended`), begins without rows (`Opened`), or is
sent a slice of its deque from where it was or asked to start (`Served`).
What it does to an entry likewise (`EntryStep`). From that:

- `InStep`: `SubscribersInStep`, with `SubInv`: only recipients have update times, and only
  subscriptions have rows.
- `TiesOnly`: `OnlyTiesSentAgain`.
- `NothingMadeUp`: what is cached, under way or was sent are rows of the table, under
  their own key.
- `HistoryWhole`, `NoGaps`, `CacheDelivers`: `HistoryCached`, `PushedGapless` and the
  refinement `ImplementsDelivery`, under `ASSUME InOrder`, without which they are false.
  `HistoryCached` is not inductive: an answer may be cut short by `RECORD_LIMIT`, and
  that it then has all rows up to its last is `AnswersGapless`; an entry that is empty polls
  from the beginning of the history (`StartsAtHistory`), so that a row that it
  never polls is not recent. `PushedGapless` follows since a slice is taken from a
  deque without holes at a row (`PositionIsRow`). For the refinement each step of
  Cache is matched with `Appear`, `Age`, `Deliver` or a stutter (`DeliveryStep`).

`FeedProofs`, of `FeedSpec`:

- `FeedImplementsCache`: it implements `Spec` of Cache. A step of a socket is a step of a client, or
  of nobody; the second message of a replacement is one a client may send since
  `to_send` holds a key and a start time (`SendInv`, the only invariant needed).
  So the theorems above hold with the sockets as they are (`FeedKeepsCache`).
- `FeedTypeCorrect`: `FeedTypeOK` is invariant. Its last part, that the socket is open
  and its new aggregate empty while `to_send` is set, rests on handlers of one
  socket not interleaving (`Idle`).

`AgreementProofs`, of `FeedSpec`:

- `ClientAndCacheAgree`: `AgreeWhenQuiet`. The property speaks of a client about which
  nothing is queued, and the step that empties the queue would have to establish it;
  so the invariant is about what the queue comes to (`AgreeInv`): the last message
  about a subscription, or else the Cache, says what the client asked for (`Settles`). Sending
  a message makes it the last word (`AppendSettles`), handling one turns the word into
  the state of the Cache (`TailSettles`). A socket that is closed has asked for nothing.
- `NothingLeftOut`: `NothingSkipped`, under `ASSUME InOrder`. The invariant (`SinceInv`) says
  where the subscription that will stand in the end is served from: either it stands already,
  was served everything recent since its start (`Covered`) and no queued message ends it,
  or the message that opens it is queued with an end of all before it and
  none after (`Opens`). While a replacement is between its two messages the first
  is still the last word (`Replaces`), whatever the Cache handles or drops meanwhile. That
  a subscription stays covered is `CoveredStep`, from `HistoryCached` of DeliveryProofs.

`IngestProofs`, of `Spec` in Ingest:

- `IngestTypeCorrect`: `TypeOK`.
- `LogsAccountedOnce`: `AccountedOnce`. The property counts; the invariant (`PlacesInv`) names
  the one place of each log that was received: a mailbox, the buffer, a batch that is being
  split off, queued or in the hands of a thread, the table, or lost. Each action carries
  logs from one place to another (`StepCarries`, and a lemma per action), and what is
  carried keeps one place (`CarriedKeeps`).
- `ForeignKeysHold`: `ForeignKeys`, with the former: a stored log was received, and its
  connection is the one it came from (`SourceFixed`).
- `RowsRemember`: `KnowledgeKept`, under `ASSUME \A t, u \in Threads : t = u`, without which
  it is false. It needs more than the order of updates in the queue: the invariant
  (`KnowledgeInv`) is that what is known of a peer only grows from the row to the
  update the thread has in hand, to each next one in the queue (`QueueInOrder`,
  `ThreadsFirst`, `RowsBelow`) and to the socket, and that a connection whose insert is
  under way has no row and no second insert. Refused updates and failing statements leave gaps
  in this order and do not upset it.

`SocketsProofs`, of `Spec` in Sockets:

- `SocketsTypeCorrect`: `TypeOK`, which needs `Clean`: a socket whose actor does not run waits
  for no answer, or its pings would grow old unheeded.
- `SilentAreNoticed`: `SilentNoticed`. Between heartbeats a socket that passed the last one may
  have been silent for the timeout and the part of the interval that is over (`NoticedInv`).
- `AnsweringAreKept`: `AnsweringStays`, of each step. Pings were sent at heartbeats, so they
  are whole intervals old when one is due, and a peer that answers was heard at most an
  interval before the oldest that is unanswered (`AnswersInv`, `HeardInTime`).
- `GaugesAreExact`: `GaugesExact`. The counters of a kind differ by the sockets there are,
  modulo their width (`CountsInv`), and what a request has loaded is still there unless
  it was disturbed (`LoadedInv`).

`AggregationProofs`, of `Spec` in Aggregation: `AggregationTypeCorrect`, `NoneAggregatedTwice`
(`AggregatedOnce`), `TimestampsIncrease` (`StampsIncrease`) and `OneInterval` (`WithinInterval`),
for arrays of any length. The loop has an invariant of its own (`LoopInv`): what is
collected are measurements of the open interval, from the row that opened it on; what
was sent before is in order and made of earlier rows (`Sound`, `UpTo`). It is carried from array to
array by `AggInv`: the rows kept begin where the last aggregate ended. Induction over the
turns of the loop is by the least turn that would violate the invariant (`Least`, from
the well-foundedness of the naturals), as is the existence of the recursive function
(`LoopIs`).

`PickProofs`: `PickRepresents`, for any number of measurements of any value, and from it
`PicksStandForAll` (`PicksRepresent`). No two measurements have the same place (`PlacesDiffer`), so each place
is taken (`PlacesTaken`), and counting what is on either side of a place gives median,
percentile, minimum and maximum. The mean needs that a sum is a number (`SumType`,
by the least set of indexes for which it would not be) and that division loses less than one.

Only model-checked: the liveness properties `RowsReachSubscribers`, `LogsSettle`,
`PeersIdentified`, `ClosedLeave` and `SilentLeaves`, since fairness and ENABLED are beyond the prover.

## Not modelled

- The JSON queries (`db/nodes.rs`, `db/reputation.rs`, `db/stats.rs` and their handlers in
  `web/`) and the benchmarks: single SQL statements behind stateless handlers.
  What they return is PostgreSQL's evaluation of their text; a model would
  repeat the statements and have nothing to check them against.
- The dashboard (files), start-up (its values are the CONSTANTS), the text of messages and
  what of it does not parse, the counters of metrics that are only incremented and
  shown (messages, bytes, requests), the figures of the system.
- `aggregate_interval` 0 is excluded by assumption: the loop that advances `start_ts`
  then does not end inside one handler, which is no step of a specification.
- Overflow: the sum of an aggregate (`web/feed.rs:132`) is a number here and 64 bits wide in
  the code.
- What follows the panic of an actor, and a query that never ends: `SubscribePanics` and
  `HandleArrayPanics` are the steps that lead there.
- The database is taken to apply each statement at once. It is not taken to be
  restarted: nothing in memory survives a crash of the program, and
  nothing in it depends on what was in the tables before.

## Plan

1. The steps of the liveness arguments that are not temporal, as lemmas: an update that is given up
   is asked for again; a heartbeat that finds a silent peer ends its socket.
2. Larger instances of Feed: two sockets, rows out of order.
