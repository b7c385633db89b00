----------------------------- MODULE FeedProofs -----------------------------
(***************************************************************************)
(* Proofs about the feed sockets: with the sockets as they are, the Cache  *)
(* behaves as it does with clients that send what they like.  So what      *)
(* CacheProofs proves holds for Feed, too.                                 *)
(***************************************************************************)
EXTENDS Feed, CacheProofs

\* What a socket still has to send is a subscription.
SendInv == to_send \in [Subs -> [key : Keys, back : Lookbacks] \cup {None}]

LEMMA SendInvStep ==
    ASSUME SendInv, [FeedNext]_feedVars
    PROVE  SendInv'
<1>1. ASSUME NEW s \in Subs, NEW k \in Keys, NEW back \in Lookbacks,
             ReplaceAggregate(s, k, back)
      PROVE  SendInv'
    BY <1>1 DEF ReplaceAggregate, SendInv
<1>2. ASSUME NEW s \in Subs, SendReplacement(s)
      PROVE  SendInv'
    BY <1>2 DEF SendReplacement, SendInv
<1>3. CASE UNCHANGED to_send
    BY <1>3 DEF SendInv
<1>4. \/ UNCHANGED to_send
      \/ \E s \in Subs, k \in Keys, back \in Lookbacks : ReplaceAggregate(s, k, back)
      \/ \E s \in Subs : SendReplacement(s)
    BY DEF FeedNext, feedVars, SubscribeRaw, SubscribeAggregate, Unsubscribe, HandleArray,
           HandleArrayPanics, Leave, Stop, SendData, Elsewhere
<1> QED
    BY <1>1, <1>2, <1>3, <1>4

\* A step of the composition is a step of Cache, or leaves it alone.
LEMMA StepIsCache ==
    ASSUME SendInv, [FeedNext]_feedVars
    PROVE  [Next]_vars
<1>1. ASSUME NEW s \in Subs, NEW k \in Keys, NEW back \in Lookbacks,
             \/ SubscribeRaw(s, k, back)
             \/ SubscribeAggregate(s, k, back)
             \/ ReplaceAggregate(s, k, back)
      PROVE  Next
    <2>1. SendSubscribe(s, k, back) \/ SendUnsubscribe(s, k)
        BY <1>1 DEF SubscribeRaw, SubscribeAggregate, ReplaceAggregate, EndExisting
    <2> QED
        BY <2>1 DEF Next
<1>2. ASSUME NEW s \in Subs, NEW k \in Keys, Unsubscribe(s, k)
      PROVE  Next
    BY <1>2 DEF Unsubscribe, Next
<1>3. ASSUME NEW s \in Subs, SendReplacement(s)
      PROVE  Next
    <2>1. to_send[s] \in [key : Keys, back : Lookbacks]
        BY <1>3 DEF SendReplacement, Idle, SendInv
    <2>2. SendSubscribe(s, to_send[s].key, to_send[s].back)
        BY <1>3 DEF SendReplacement
    <2>3. to_send[s].key \in Keys /\ to_send[s].back \in Lookbacks
        BY <2>1
    <2> QED
        BY <2>2, <2>3 DEF Next
<1>4. ASSUME NEW s \in Subs, HandleArray(s) \/ HandleArrayPanics(s) \/ Leave(s)
      PROVE  Next
    <2>1. Consume(s) \/ Close(s)
        BY <1>4 DEF HandleArray, HandleArrayPanics, Leave, Stop
    <2> QED
        BY <2>1 DEF Next
<1>5. CASE SendData
    BY <1>5 DEF SendData, Next
<1>6. CASE Elsewhere
    BY <1>6 DEF Elsewhere, Next, subscribe
<1>7. CASE UNCHANGED feedVars
    BY <1>7 DEF feedVars
<1> QED
    BY <1>1, <1>2, <1>3, <1>4, <1>5, <1>6, <1>7 DEF FeedNext

\* Feed implements Cache: subscriptions that are replaced by two messages,
\* handlers that panic, refusals in between are all within what Cache allows
\* its clients.
THEOREM FeedImplementsCache == FeedSpec => Spec
<1>1. FeedInit => Init /\ SendInv
    BY DEF FeedInit, SendInv
<1>2. SendInv /\ [FeedNext]_feedVars => SendInv'
    BY SendInvStep
<1>3. SendInv /\ [FeedNext]_feedVars => [Next]_vars
    BY StepIsCache
<1> QED
    BY <1>1, <1>2, <1>3, PTL DEF FeedSpec, Spec

\* So the deques stay in order and without duplicates, and answers are those
\* expected, with the sockets as they are.
THEOREM FeedKeepsCache == FeedSpec => []IInv
BY FeedImplementsCache, Inductive, PTL

-----------------------------------------------------------------------------
(* What a socket keeps                                                     *)

\* The times a client asks for are times
LEMMA AskingType ==
    ASSUME NEW mode \in {"raw", "aggregate"}, NEW old \in Request, NEW start \in Int
    PROVE  Asking(mode, old, start) \in Request
BY DEF Asking, Request

LEMMA AskKeepsType ==
    ASSUME asked \in [Subs -> [Keys -> Request]],
           NEW s \in Subs, NEW k \in Keys, NEW request \in Request, NEW refused \in Request,
           Ask(s, k, request, refused)
    PROVE  asked' \in [Subs -> [Keys -> Request]]
BY DEF Ask

LEMMA ConstantRequests == Nothing \in Request /\ Unsure \in Request
BY DEF Nothing, Unsure, Request

LEMMA FeedTypeStep ==
    ASSUME TypeOK, SendInv, FeedTypeOK, [FeedNext]_feedVars
    PROVE  FeedTypeOK'
<1> USE DEF FeedTypeOK
<1>0. now \in Int /\ Lookbacks \subseteq Int
    BY ConstAssumption DEF TypeOK
<1>1. ASSUME NEW s \in Subs, NEW k \in Keys, NEW back \in Lookbacks, SubscribeRaw(s, k, back)
      PROVE  FeedTypeOK'
    <2>1. asked' \in [Subs -> [Keys -> Request]]
        <3>1. asked[s][k] \in Request /\ now - back \in Int
            BY <1>0
        <3>2. Asking("raw", asked[s][k], now - back) \in Request
            BY <3>1, AskingType
        <3> QED
            BY <1>1, <3>1, <3>2, AskKeepsType DEF SubscribeRaw
    <2>2. UNCHANGED <<remainder, to_send, open>>
        BY <1>1 DEF SubscribeRaw, SendSubscribe, Send, envVars
    <2> QED
        BY <2>1, <2>2
<1>2. ASSUME NEW s \in Subs, NEW k \in Keys, NEW back \in Lookbacks,
             SubscribeAggregate(s, k, back)
      PROVE  FeedTypeOK'
    <2>1. asked' \in [Subs -> [Keys -> Request]]
        <3>1. asked[s][k] \in Request /\ now - back \in Int
            BY <1>0
        <3>2. Asking("aggregate", asked[s][k], now - back) \in Request
            BY <3>1, AskingType
        <3> QED
            BY <1>2, <3>2, ConstantRequests, AskKeepsType DEF SubscribeAggregate
    <2>2. /\ UNCHANGED <<to_send, open>>
          /\ remainder' = [remainder EXCEPT ![s][k] = "empty"]
        BY <1>2 DEF SubscribeAggregate, SendSubscribe, Send, envVars
    <2> QED
        BY <2>1, <2>2
<1>3. ASSUME NEW s \in Subs, NEW k \in Keys, NEW back \in Lookbacks, ReplaceAggregate(s, k, back)
      PROVE  FeedTypeOK'
    <2>1. asked' \in [Subs -> [Keys -> Request]]
        BY <1>3, ConstantRequests DEF ReplaceAggregate
    <2>2. /\ remainder' = [remainder EXCEPT ![s][k] = "empty"]
          /\ to_send' = [to_send EXCEPT ![s] =
                 IF Accepted THEN [key |-> k, back |-> back] ELSE None]
          /\ s \in open /\ UNCHANGED open
        BY <1>3 DEF ReplaceAggregate, EndExisting, SendUnsubscribe, Send, envVars
    <2>3. ASSUME NEW t \in Subs, to_send'[t] # None
          PROVE  /\ to_send'[t] \in [key : Keys, back : Lookbacks]
                 /\ t \in open'
                 /\ remainder'[t][to_send'[t].key] = "empty"
        <3>1. CASE t = s
            BY <2>2, <2>3, <3>1 DEF SendInv
        <3>2. CASE t # s
            BY <2>2, <2>3, <3>2 DEF SendInv
        <3> QED
            BY <3>1, <3>2
    <2>4. remainder' \in [Subs -> [Keys -> {"none", "empty", "filled"}]]
        BY <2>2
    <2> QED
        BY <2>1, <2>3, <2>4
<1>4. ASSUME NEW s \in Subs, SendReplacement(s)
      PROVE  FeedTypeOK'
    <2>1. /\ to_send[s] # None
          /\ to_send[s].key \in Keys /\ to_send[s].back \in Lookbacks
        BY <1>4 DEF SendReplacement, Idle
    <2>2. asked' \in [Subs -> [Keys -> Request]]
        <3>1. now - to_send[s].back \in Int
            <4>1. ASSUME NEW back \in Int PROVE now - back \in Int
                BY <1>0
            <4>2. to_send[s].back \in Int
                BY <1>0, <2>1
            <4> QED
                BY <4>1, <4>2
        <3>2. Asking("aggregate", Nothing, now - to_send[s].back) \in Request
            BY <3>1, ConstantRequests, AskingType
        <3> QED
            BY <1>4, <2>1, <3>2, ConstantRequests, AskKeepsType DEF SendReplacement
    <2>3. UNCHANGED <<remainder, open>> /\ to_send' = [to_send EXCEPT ![s] = None]
        BY <1>4 DEF SendReplacement, SendSubscribe, Send, envVars
    <2> QED
        BY <2>2, <2>3 DEF SendInv
<1>5. ASSUME NEW s \in Subs, NEW k \in Keys, Unsubscribe(s, k)
      PROVE  FeedTypeOK'
    <2>1. asked' \in [Subs -> [Keys -> Request]]
        BY <1>5, ConstantRequests, AskKeepsType DEF Unsubscribe
    <2>2. /\ UNCHANGED <<to_send, open>>
          /\ remainder' = [remainder EXCEPT ![s][k] = "none"]
          /\ to_send[s] = None
        BY <1>5 DEF Unsubscribe, Idle, SendUnsubscribe, Send, envVars
    <2> QED
        BY <2>1, <2>2
<1>6. ASSUME NEW s \in Subs, Idle(s), Stop(s)
      PROVE  FeedTypeOK'
    <2>1. /\ UNCHANGED to_send /\ to_send[s] = None
          /\ open' = open \ {s}
          /\ remainder' = [remainder EXCEPT ![s] = [k \in Keys |-> "none"]]
          /\ asked' = [asked EXCEPT ![s] = [k \in Keys |-> Nothing]]
        BY <1>6 DEF Stop, Idle, Close
    <2>2. asked' \in [Subs -> [Keys -> Request]]
        BY <2>1, ConstantRequests
    <2> QED
        BY <2>1, <2>2
<1>7. ASSUME NEW s \in Subs, HandleArray(s)
      PROVE  FeedTypeOK'
    <2> DEFINE j == Head(inbox[s]).key
    <2>1. /\ UNCHANGED <<to_send, asked, open>> /\ to_send[s] = None
          /\ remainder' = [remainder EXCEPT ![s][j] = IF @ = "none" THEN "none" ELSE "filled"]
        BY <1>7 DEF HandleArray, Idle, Consume, envVars
    <2> HIDE DEF j
    <2> QED
        BY <2>1
<1>8. CASE SendData
    <2>1. asked' \in [Subs -> [Keys -> Request]]
        BY <1>8, ConstantRequests DEF SendData
    <2>2. UNCHANGED <<remainder, to_send, open>>
        BY <1>8 DEF SendData, process_peer_data_response, envVars
    <2> QED
        BY <2>1, <2>2
<1>9. CASE Elsewhere
    <2>1. UNCHANGED <<remainder, to_send, asked>> /\ open \subseteq open'
        BY <1>9 DEF Elsewhere, Tick, Store, Connect, DbAnswers, DbFails, DbReturns, request_updates,
               purge_expired, subscribe, SubscribeVacant, SubscribeOccupied, SubscribePanics,
               unsubscribe, envVars
    <2> QED
        BY <2>1
<1>10. CASE UNCHANGED feedVars
    BY <1>10 DEF feedVars, vars, envVars
<1>11. ASSUME NEW s \in Subs, Leave(s) \/ HandleArrayPanics(s)
       PROVE  Idle(s) /\ Stop(s)
    BY <1>11 DEF Leave, HandleArrayPanics
<1> QED
    BY <1>1, <1>2, <1>3, <1>4, <1>5, <1>6, <1>7, <1>8, <1>9, <1>10, <1>11 DEF FeedNext

\* Every variable of the sockets has its type, and a subscription that is being
\* replaced has an empty remainder until its successor is sent.
THEOREM FeedTypeCorrect == FeedSpec => []FeedTypeOK
<1>1. FeedInit => FeedTypeOK /\ SendInv
    BY ConstantRequests DEF FeedInit, FeedTypeOK, SendInv
<1>2. SendInv /\ [FeedNext]_feedVars => SendInv'
    BY SendInvStep
<1>3. TypeOK /\ SendInv /\ FeedTypeOK /\ [FeedNext]_feedVars => FeedTypeOK'
    BY FeedTypeStep
<1>4. FeedSpec => []TypeOK
    BY FeedImplementsCache, TypeCorrect, PTL
<1> QED
    BY <1>1, <1>2, <1>3, <1>4, PTL DEF FeedSpec
=============================================================================
