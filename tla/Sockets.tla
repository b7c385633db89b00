------------------------------ MODULE Sockets -------------------------------
(***************************************************************************)
(* The life of the websockets: those of nodes (src/web/root.rs) and those  *)
(* of clients of the feed (src/web/feed.rs), from the handshake to Drop,   *)
(* with their heartbeats; and the counters of src/web/metrics.rs that      *)
(* count them, incremented by many threads and loaded by another.          *)
(*                                                                         *)
(* Time is what has passed since a socket last heard from its peer, since  *)
(* a ping was sent, and what is left until the next heartbeat.             *)
(***************************************************************************)
EXTENDS Integers, Sequences, FiniteSets

CONSTANTS
    Conns,              \* connections; one may be made again after it ended
    Feeds,              \* those to /feed/, the others are of nodes
    None,
    HEARTBEAT_INTERVAL, CLIENT_TIMEOUT_S,            \* of nodes
    FEED_HEARTBEAT_INTERVAL, FEED_CLIENT_TIMEOUT_S,  \* of feeds
    Modulus             \* of the arithmetic of an AtomicU64: 2^64

ASSUME SocketsAssumption ==
    /\ Feeds \subseteq Conns
    /\ IsFiniteSet(Conns)
    /\ {HEARTBEAT_INTERVAL, FEED_HEARTBEAT_INTERVAL, Modulus} \subseteq Nat \ {0}
    /\ HEARTBEAT_INTERVAL <= CLIENT_TIMEOUT_S /\ CLIENT_TIMEOUT_S \in Nat
    /\ FEED_HEARTBEAT_INTERVAL <= FEED_CLIENT_TIMEOUT_S /\ FEED_CLIENT_TIMEOUT_S \in Nat

VARIABLES
    stage,       \* of each connection
    hb,          \* time since its socket heard a ping or pong
    due,         \* time until its next heartbeat
    pings,       \* time since each ping was sent that is not answered yet
    responsive,  \* the peer answers pings
    connected, disconnected,  \* Metrics: per kind of socket, see Kind
    scrape,      \* a request to /metrics/ between the two loads of a gauge
    aborted      \* history: a feed socket was dropped before it started

timeVars == <<hb, due, pings, responsive>>
metrics == <<connected, disconnected>>
vars == <<stage, timeVars, metrics, scrape, aborted>>

Kind(c) == IF c \in Feeds THEN "feed" ELSE "node"
Interval(c) == IF c \in Feeds THEN FEED_HEARTBEAT_INTERVAL ELSE HEARTBEAT_INTERVAL
Timeout(c) == IF c \in Feeds THEN FEED_CLIENT_TIMEOUT_S ELSE CLIENT_TIMEOUT_S

\* The time a peer that answers takes for it, at most: less than the last
\* heartbeat that is not after the timeout
Latency(c) == (Timeout(c) \div Interval(c)) * Interval(c) - 1

Init ==
    /\ stage = [c \in Conns |-> "new"]
    /\ hb = [c \in Conns |-> 0]
    /\ due = [c \in Conns |-> 0]
    /\ pings = [c \in Conns |-> <<>>]
    /\ responsive = [c \in Conns |-> TRUE]
    /\ connected = [kind \in {"node", "feed"} |-> 0]
    /\ disconnected = [kind \in {"node", "feed"} |-> 0]
    /\ scrape = None
    /\ aborted = FALSE

\* u64 arithmetic of a release build
Wrap_Not(n) == n  \* mutant: without a modulus
Wrap(n) == n % Modulus
Count(counter, kind) == [counter EXCEPT ![kind] = Wrap(@ + 1)]

\* A gauge whose counters move between its two loads may be off, also below
\* zero, by the sockets that came or went: it is not followed further
Disturb(kind) == scrape' = IF scrape # None /\ scrape.kind = kind THEN None ELSE scrape

\* The socket is gone, and Drop counts it; its times are forgotten
Drop(c) ==
    /\ stage' = [stage EXCEPT ![c] = "new"]
    /\ hb' = [hb EXCEPT ![c] = 0]
    /\ due' = [due EXCEPT ![c] = 0]
    /\ pings' = [pings EXCEPT ![c] = <<>>]
    /\ responsive' = [responsive EXCEPT ![c] = TRUE]
    /\ disconnected' = Count(disconnected, Kind(c))
    /\ Disturb(Kind(c))

\* The actor starts: the first heartbeat is an interval away
Started(c) ==
    /\ stage' = [stage EXCEPT ![c] = "open"]
    /\ due' = [due EXCEPT ![c] = Interval(c)]
    /\ UNCHANGED <<hb, pings, responsive>>

-----------------------------------------------------------------------------
(* A node connects                                                         *)

\* establish_connection: the row of the connection is asked for ...
Request(c) ==
    /\ c \notin Feeds
    /\ stage[c] = "new"
    /\ stage' = [stage EXCEPT ![c] = "requested"]
    /\ UNCHANGED <<timeVars, metrics, scrape, aborted>>

\* ... it cannot be saved, or the node goes away meanwhile: there never was a
\* socket
Refuse(c) ==
    /\ stage[c] = "requested"
    /\ stage' = [stage EXCEPT ![c] = "new"]
    /\ UNCHANGED <<timeVars, metrics, scrape, aborted>>

\* ... or a NodeSocket is made and counted, and the handshake follows
Establish(c) ==
    /\ stage[c] = "requested"
    /\ stage' = [stage EXCEPT ![c] = "handshake"]
    /\ connected' = Count(connected, "node")
    /\ Disturb("node")
    /\ UNCHANGED <<timeVars, disconnected, aborted>>
StartNode_Counting(c) ==  \* mutant: counted again, when the actor starts
    /\ c \notin Feeds
    /\ stage[c] = "handshake"
    /\ Started(c)
    /\ connected' = Count(connected, "node")
    /\ Disturb("node")
    /\ UNCHANGED <<disconnected, aborted>>
StartNode(c) ==
    /\ c \notin Feeds
    /\ stage[c] = "handshake"
    /\ Started(c)
    /\ UNCHANGED <<metrics, scrape, aborted>>

(* A client of the feed connects                                           *)

\* ws_index: a WebSocket is made for the handshake ...
Accept(c) ==
    /\ c \in Feeds
    /\ stage[c] = "new"
    /\ stage' = [stage EXCEPT ![c] = "handshake"]
    /\ UNCHANGED <<timeVars, metrics, scrape, aborted>>

\* ... and counted when the actor starts
StartFeed(c) ==
    /\ c \in Feeds
    /\ stage[c] = "handshake"
    /\ Started(c)
    /\ connected' = Count(connected, "feed")
    /\ Disturb("feed")
    /\ UNCHANGED <<disconnected, aborted>>

\* The handshake fails, or the peer goes away before the actor has started;
\* bound: once for feeds
Abort(c) ==
    /\ stage[c] = "handshake"
    /\ c \in Feeds => ~aborted
    /\ Drop(c)
    /\ aborted' = (aborted \/ c \in Feeds)
    /\ UNCHANGED connected

-----------------------------------------------------------------------------
(* An open connection                                                      *)

\* A Close, a protocol error, the end of the stream
Leave(c) ==
    /\ stage[c] = "open"
    /\ Drop(c)
    /\ UNCHANGED <<connected, aborted>>

\* Every interval: the socket is stopped, or the peer is sent a ping
Unheard_Early(c) == hb[c] >= Timeout(c)  \* mutant: >=
Unheard(c) == hb[c] > Timeout(c)
Disconnect(c) ==
    /\ stage[c] = "open" /\ due[c] = 0
    /\ Unheard(c)
    /\ Drop(c)
    /\ UNCHANGED <<connected, aborted>>
SendPing_Refreshing(c) ==  \* mutant: having sent a ping counts as having heard
    /\ stage[c] = "open" /\ due[c] = 0
    /\ ~Unheard(c)
    /\ due' = [due EXCEPT ![c] = Interval(c)]
    /\ hb' = [hb EXCEPT ![c] = 0]
    /\ pings' = [pings EXCEPT ![c] = IF responsive[c] THEN Append(@, 0) ELSE @]
    /\ UNCHANGED <<stage, responsive, metrics, scrape, aborted>>
SendPing_Late(c) ==  \* mutant: the next one is a timeout away
    /\ stage[c] = "open" /\ due[c] = 0
    /\ ~Unheard(c)
    /\ due' = [due EXCEPT ![c] = Timeout(c)]
    /\ pings' = [pings EXCEPT ![c] = IF responsive[c] THEN Append(@, 0) ELSE @]
    /\ UNCHANGED <<stage, hb, responsive, metrics, scrape, aborted>>
SendPing(c) ==
    /\ stage[c] = "open" /\ due[c] = 0
    /\ ~Unheard(c)
    /\ due' = [due EXCEPT ![c] = Interval(c)]
    /\ pings' = [pings EXCEPT ![c] = IF responsive[c] THEN Append(@, 0) ELSE @]
    /\ UNCHANGED <<stage, hb, responsive, metrics, scrape, aborted>>

\* A pong arrives, or a ping of the peer's own.  Text and binary messages do
\* not count as being heard.
Pong(c) ==
    /\ stage[c] = "open"
    /\ pings[c] # <<>>
    /\ pings' = [pings EXCEPT ![c] = Tail(@)]
    /\ hb' = [hb EXCEPT ![c] = 0]
    /\ UNCHANGED <<stage, due, responsive, metrics, scrape, aborted>>
Ping(c) ==
    /\ stage[c] = "open" /\ responsive[c]
    /\ hb' = [hb EXCEPT ![c] = 0]
    /\ UNCHANGED <<stage, due, pings, responsive, metrics, scrape, aborted>>

\* The peer or the network dies without a word
FallSilent(c) ==
    /\ stage[c] = "open" /\ responsive[c]
    /\ responsive' = [responsive EXCEPT ![c] = FALSE]
    /\ pings' = [pings EXCEPT ![c] = <<>>]
    /\ UNCHANGED <<stage, hb, due, metrics, scrape, aborted>>

\* Time passes, not beyond a heartbeat, nor beyond the time for an answer
Open == {c \in Conns : stage[c] = "open"}
Tick ==
    /\ Open # {}
    /\ \A c \in Open : due[c] > 0 /\ \A i \in DOMAIN pings[c] : pings[c][i] < Latency(c)
    /\ hb' = [c \in Conns |-> IF c \in Open THEN hb[c] + 1 ELSE hb[c]]
    /\ due' = [c \in Conns |-> IF c \in Open THEN due[c] - 1 ELSE due[c]]
    /\ pings' = [c \in Conns |-> [i \in DOMAIN pings[c] |-> pings[c][i] + 1]]
    /\ UNCHANGED <<stage, responsive, metrics, scrape, aborted>>

-----------------------------------------------------------------------------
(* Metrics                                                                 *)

\* Display for Metrics: a gauge is the difference of two counters.  They are
\* loaded one after the other, and Relaxed, so in any order.
Load(kind) ==
    /\ scrape = None
    /\ scrape' \in {[kind |-> kind, loaded |-> "connected", value |-> connected[kind]],
                    [kind |-> kind, loaded |-> "disconnected", value |-> disconnected[kind]]}
    /\ UNCHANGED <<stage, timeVars, metrics, aborted>>

\* What the second load makes of it
Gauge ==
    Wrap(IF scrape.loaded = "connected" THEN scrape.value - disconnected[scrape.kind]
         ELSE connected[scrape.kind] - scrape.value)
Render ==
    /\ scrape # None
    /\ scrape' = None
    /\ UNCHANGED <<stage, timeVars, metrics, aborted>>

-----------------------------------------------------------------------------
Next ==
    \/ \E c \in Conns :
           \/ Request(c) \/ Refuse(c) \/ Establish(c) \/ StartNode(c)
           \/ Accept(c) \/ StartFeed(c) \/ Abort(c)
           \/ Leave(c) \/ Disconnect(c) \/ SendPing(c)
           \/ Pong(c) \/ Ping(c) \/ FallSilent(c)
    \/ Tick
    \/ \E kind \in {"node", "feed"} : Load(kind)
    \/ Render

Spec == Init /\ [][Next]_vars

\* Time passes, heartbeats run, answers arrive
FairSpec ==
    /\ Spec
    /\ WF_vars(Tick)
    /\ \A c \in Conns : WF_vars(Disconnect(c) \/ SendPing(c)) /\ WF_vars(Pong(c))

-----------------------------------------------------------------------------
(* Properties                                                              *)

Counter == 0..Modulus - 1
TypeOK ==
    /\ stage \in [Conns -> {"new", "requested", "handshake", "open"}]
    /\ hb \in [Conns -> Nat]
    /\ due \in [Conns -> Nat] /\ pings \in [Conns -> Seq(Nat)]
    /\ \A c \in Conns :
           due[c] <= Interval(c) /\ \A i \in DOMAIN pings[c] : pings[c][i] <= Latency(c)
    /\ responsive \in [Conns -> BOOLEAN]
    /\ {connected, disconnected} \subseteq [{"node", "feed"} -> Counter]
    /\ scrape # None =>
           scrape \in [kind : {"node", "feed"}, loaded : {"connected", "disconnected"},
                       value : Counter]
    /\ aborted \in BOOLEAN

\* A peer that answers every ping within its Latency is never disconnected by
\* the heartbeat, though it looks at the time of the last answer only once per
\* interval and several pings may be unanswered.
AnsweringStays == [][\A c \in Conns : responsive[c] => ~Disconnect(c)]_vars

\* A silent peer is noticed within the timeout and an interval.
SilentNoticed == \A c \in Open : hb[c] <= Timeout(c) + Interval(c)

\* A peer that falls silent is disconnected, whatever else is connected.
SilentLeaves == \A c \in Conns : ~responsive[c] ~> stage[c] # "open"

\* A gauge whose counters did not move between the two loads is the number of
\* sockets that exist: a node's that are made, a feed's that have started,
\* unless a feed was dropped before it had started, which is counted only as
\* having disconnected.
Live(kind) ==
    {c \in Conns : /\ Kind(c) = kind
                   /\ stage[c] = "open" \/ (kind = "node" /\ stage[c] = "handshake")}
GaugesExact ==
    scrape # None /\ (aborted => scrape.kind = "node") =>
        Gauge = Wrap(Cardinality(Live(scrape.kind)))
=============================================================================
