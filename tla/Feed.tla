-------------------------------- MODULE Feed --------------------------------
(***************************************************************************)
(* The socket of a client of the live feed (src/web/feed.rs), composed     *)
(* with the Cache, the database and the table of module Cache: the clients *)
(* there send what they like, here a socket sends what its handlers send.  *)
(*                                                                         *)
(* Sockets and the Cache run on different threads.  A handler of a socket  *)
(* is one action, but for the replacement of an aggregate subscription,    *)
(* which sends two messages to the Cache: the Cache may run between them.  *)
(* The clock stands still while a handler runs.                            *)
(***************************************************************************)
EXTENDS Cache

VARIABLES
    remainder,  \* WebSocket.aggregate_subscriptions: per key "none", or whether
                \* the aggregate_remainder of the subscription is "empty" or "filled"
    to_send,    \* the Subscription the socket still has to send, or None
    asked       \* history: what the client asked for last, and from when on

feedVars == <<vars, remainder, to_send, asked>>

\* A subscription that follows another one without an unsubscribe between them
\* does not begin anew in the Cache (or_insert): `since` is the start time that
\* counts, None when the client cannot know.  The client is unsure after an
\* error, and when the Cache has dropped it.
Request == [mode : {"nothing", "raw", "aggregate", "unsure"}, since : Int \cup {None}]
Nothing == [mode |-> "nothing", since |-> None]
Unsure == [mode |-> "unsure", since |-> None]
Asking(mode, old, start) ==
    [mode |-> mode, since |-> IF old = Nothing THEN start ELSE old.since]

FeedInit ==
    /\ Init
    /\ remainder = [s \in Subs |-> [k \in Keys |-> "none"]]
    /\ to_send = [s \in Subs |-> None]
    /\ asked = [s \in Subs |-> [k \in Keys |-> Nothing]]

-----------------------------------------------------------------------------
(* The socket                                                              *)

\* The handler of the last message has returned
Idle_Always(s) == TRUE  \* mutant: the handler gives way between its messages
Idle(s) == to_send[s] = None

\* try_send to the Cache succeeds
Accepted == up /\ Len(mailbox) < CACHE_MAILBOX

\* The client is answered with an error when it does not
Ask(s, k, request, refused) ==
    asked' = [asked EXCEPT ![s][k] = IF Accepted THEN request ELSE refused]

\* process_message, "subscribe" without an aggregate_type: an aggregate
\* subscription to the key stays in force
SubscribeRaw(s, k, back) ==
    /\ Idle(s)
    /\ SendSubscribe(s, k, back)
    /\ Ask(s, k, Asking("raw", asked[s][k], now - back), asked[s][k])
    /\ UNCHANGED <<remainder, to_send>>

\* ... with an aggregate_type, and there is no aggregate subscription yet
SubscribeAggregate(s, k, back) ==
    /\ Idle(s)
    /\ remainder[s][k] = "none"
    /\ remainder' = [remainder EXCEPT ![s][k] = "empty"]
    /\ SendSubscribe(s, k, back)
    /\ Ask(s, k, Asking("aggregate", asked[s][k], now - back), Unsure)
    /\ UNCHANGED to_send

\* ... and there is one: it is replaced, then the Cache is told to end it; when
\* the Cache refuses the handler returns with an error
EndExisting_Not(s, k) == UNCHANGED vars  \* mutant: the Cache is not told
EndExisting(s, k) == SendUnsubscribe(s, k)
ReplaceAggregate(s, k, back) ==
    /\ Idle(s) /\ s \in open
    /\ remainder[s][k] # "none"
    /\ remainder' = [remainder EXCEPT ![s][k] = "empty"]
    /\ EndExisting(s, k)
    /\ to_send' = [to_send EXCEPT ![s] = IF Accepted THEN [key |-> k, back |-> back] ELSE None]
    /\ asked' = [asked EXCEPT ![s][k] = Unsure]

\* ... otherwise, the new subscription follows
SendReplacement(s) ==
    /\ ~Idle(s)
    /\ LET k == to_send[s].key
           back == to_send[s].back
       IN /\ SendSubscribe(s, k, back)
          /\ Ask(s, k, Asking("aggregate", Nothing, now - back), Unsure)
    /\ to_send' = [to_send EXCEPT ![s] = None]
    /\ UNCHANGED remainder

\* process_message, "unsubscribe": first the aggregate subscription, if any, is
\* removed
Unsubscribe_Local(s, k) ==  \* mutant: that is all for an aggregate subscription
    /\ Idle(s)
    /\ IF remainder[s][k] = "none" THEN SendUnsubscribe(s, k) ELSE s \in open /\ UNCHANGED vars
    /\ remainder' = [remainder EXCEPT ![s][k] = "none"]
    /\ Ask(s, k, Nothing, Unsure)
    /\ UNCHANGED to_send
Unsubscribe(s, k) ==
    /\ Idle(s)
    /\ SendUnsubscribe(s, k)
    /\ remainder' = [remainder EXCEPT ![s][k] = "none"]
    /\ Ask(s, k, Nothing, Unsure)
    /\ UNCHANGED to_send

\* The actor stops: a Close, an error, the heartbeat, or a panic
Stop(s) ==
    /\ Close(s)
    /\ remainder' = [remainder EXCEPT ![s] = [k \in Keys |-> "none"]]
    /\ asked' = [asked EXCEPT ![s] = [k \in Keys |-> Nothing]]
    /\ UNCHANGED to_send
Leave(s) == Idle(s) /\ Stop(s)

\* Handler<PeerDataArray>: sent on, or collected when there is an aggregate
\* subscription; then the remainder keeps a row at least (Kept in Aggregation)
Rows(s) == Head(inbox[s]).data
Remainder(s) == remainder[s][Head(inbox[s]).key]
HandleArray(s) ==
    /\ Idle(s)
    /\ Consume(s)
    /\ Rows(s) # <<>> \/ Remainder(s) # "empty"
    /\ remainder' = [remainder EXCEPT ![s][Head(inbox[s]).key] =
           IF @ = "none" THEN "none" ELSE "filled"]
    /\ UNCHANGED <<to_send, asked>>

\* `expect("Shouldn't be empty ...")` panics on an empty array when nothing was
\* collected before
HandleArrayPanics(s) ==
    /\ Idle(s)
    /\ inbox[s] # <<>>
    /\ Rows(s) = <<>> /\ Remainder(s) = "empty"
    /\ Stop(s)

-----------------------------------------------------------------------------
(* The Cache and the environment, as they are                              *)

\* A client whose subscription the Cache drops is not told
Dropped(s, k) == s \in open /\ update_time[s][k] # None /\ update_time'[s][k] = None
SendData ==
    /\ process_peer_data_response
    /\ asked' = [s \in Subs |-> [k \in Keys |-> IF Dropped(s, k) THEN Unsure ELSE asked[s][k]]]
    /\ UNCHANGED <<remainder, to_send>>

Elsewhere ==
    /\ \/ (\A s \in Subs : Idle(s)) /\ Tick
       \/ \E k \in Keys, skew \in Skews : Store(k, now - skew)
       \/ \E s \in Subs : Connect(s)
       \/ \E k \in Keys : DbAnswers(k) \/ DbFails(k)
       \/ DbReturns
       \/ request_updates
       \/ purge_expired
       \/ subscribe
       \/ unsubscribe
    /\ UNCHANGED <<remainder, to_send, asked>>

FeedNext ==
    \/ \E s \in Subs, k \in Keys, back \in Lookbacks :
           SubscribeRaw(s, k, back) \/ SubscribeAggregate(s, k, back) \/ ReplaceAggregate(s, k, back)
    \/ \E s \in Subs, k \in Keys : Unsubscribe(s, k)
    \/ \E s \in Subs : SendReplacement(s) \/ HandleArray(s) \/ HandleArrayPanics(s) \/ Leave(s)
    \/ SendData
    \/ Elsewhere

FeedSpec == FeedInit /\ [][FeedNext]_feedVars

-----------------------------------------------------------------------------
(* Properties                                                              *)

FeedTypeOK ==
    /\ remainder \in [Subs -> [Keys -> {"none", "empty", "filled"}]]
    /\ asked \in [Subs -> [Keys -> Request]]
    /\ \A s \in Subs : to_send[s] # None =>
           /\ to_send[s] \in [key : Keys, back : Lookbacks]
           /\ s \in open
           /\ remainder[s][to_send[s].key] = "empty"

\* Nothing of s about k is under way to the Cache
Quiet(s, k) ==
    /\ up
    /\ Idle(s)
    /\ \A i \in DOMAIN mailbox :
           mailbox[i].type # "data" => mailbox[i].sub # s \/ mailbox[i].key # k

\* Once its messages are handled a client is subscribed in the Cache exactly
\* when it asked to be, and an aggregate subscription is there for an aggregate
\* request and gone after an unsubscribe: whatever was replaced, repeated after
\* a refusal, or dropped and asked for again.
AgreeWhenQuiet ==
    \A s \in open, k \in Keys : Quiet(s, k) =>
        /\ asked[s][k].mode \in {"raw", "aggregate"} => update_time[s][k] # None
        /\ asked[s][k].mode = "nothing" => update_time[s][k] = None
        /\ asked[s][k].mode = "aggregate" => remainder[s][k] # "none"
        /\ asked[s][k].mode = "nothing" => remainder[s][k] = "none"

\* Where rows become visible in order: of the recent rows, none between the
\* start time a client asked for and the time the Cache believes it is at was
\* left out, though the same client was subscribed before, from another time.
NothingSkipped ==
    \A s \in open, k \in Keys : Quiet(s, k) /\ asked[s][k].since # None =>
        \A r \in table[k] :
            /\ Recent(r)
            /\ asked[s][k].since < r.created_at
            /\ r.created_at <= update_time[s][k]
            => r \in pushed[s][k]
=============================================================================
