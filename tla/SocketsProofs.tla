---------------------------- MODULE SocketsProofs ----------------------------
(***************************************************************************)
(* Proofs about Sockets: types, the heartbeat's two promises, and the      *)
(* gauges, for any number of connections, any intervals and timeouts, and  *)
(* counters of any width.                                                  *)
(***************************************************************************)
EXTENDS Sockets, FiniteSetTheorems, TLAPS

-----------------------------------------------------------------------------
(* Arithmetic                                                              *)

\* The timeout in whole intervals: at least one, and not more than the timeout.
LEMMA WholeIntervals ==
    ASSUME NEW I \in Nat \ {0}, NEW T \in Nat, I <= T
    PROVE  /\ T \div I \in Nat
           /\ (T \div I) * I \in Nat
           /\ (T \div I) * I >= 1
           /\ (T \div I) * I <= T
<1>1. T \div I \in Nat
    OBVIOUS
<1>2. (T \div I) * I \in Nat
    BY <1>1
<1>3. (T \div I) * I >= 1
    OBVIOUS
<1>4. (T \div I) * I <= T
    OBVIOUS
<1> QED
    BY <1>1, <1>2, <1>3, <1>4

\* Of two multiples the lesser is an interval below the other.
LEMMA NextMultiple ==
    ASSUME NEW I \in Nat \ {0}, NEW j \in Int, NEW n \in Int, j * I < n * I
    PROVE  (j * I) + I <= n * I
<1>1. (j + 1) * I <= n * I
    OBVIOUS
<1>2. (j + 1) * I = (j * I) + I
    OBVIOUS
<1> QED
    BY <1>1, <1>2

\* Counters keep the range of their type.
LEMMA WrapType ==
    ASSUME NEW n \in Int
    PROVE  Wrap(n) \in Counter
<1>1. Modulus \in Nat \ {0}
    BY SocketsAssumption
<1> QED
    BY <1>1 DEF Wrap, Counter

\* A number is its remainder and a multiple of the modulus.
LEMMA WrapIs ==
    ASSUME NEW n \in Int
    PROVE  /\ n \div Modulus \in Int
           /\ n = ((n \div Modulus) * Modulus) + Wrap(n)
<1>1. Modulus \in Nat \ {0}
    BY SocketsAssumption
<1> QED
    BY <1>1 DEF Wrap

\* Two remainders that differ by a multiple of the modulus are the same.
LEMMA SameRemainder ==
    ASSUME NEW x \in Counter, NEW y \in Counter, NEW q \in Int, x = y + (q * Modulus)
    PROVE  x = y
<1>1. Modulus \in Nat \ {0}
    BY SocketsAssumption
<1>2. x \in Int /\ y \in Int /\ 0 <= x /\ x < Modulus /\ 0 <= y /\ y < Modulus
    BY <1>1 DEF Counter
<1>3. CASE q = 0
    BY <1>1, <1>2, <1>3
<1>4. CASE q >= 1
    <2>1. q * Modulus >= Modulus
        BY <1>1, <1>4
    <2> QED
        BY <1>1, <1>2, <2>1
<1>5. CASE q <= 0 - 1
    <2>1. q * Modulus <= 0 - Modulus
        BY <1>1, <1>5
    <2> QED
        BY <1>1, <1>2, <2>1
<1> QED
    BY <1>3, <1>4, <1>5

\* The counters m and d differ by n, as far as counters of their width can tell
Balanced(m, d, n) == \E q \in Int : m - d = n + (q * Modulus)

\* Equal up to multiples of the modulus, so equal when wrapped.
LEMMA BalancedGauge ==
    ASSUME NEW m \in Int, NEW d \in Int, NEW n \in Int, Balanced(m, d, n)
    PROVE  Wrap(m - d) = Wrap(n)
<1>1. Modulus \in Nat \ {0}
    BY SocketsAssumption
<1>2. PICK q \in Int : m - d = n + (q * Modulus)
    BY DEF Balanced
<1> DEFINE a == m - d
           qa == a \div Modulus
           qn == n \div Modulus
           p == (qn - qa) + q
<1>3. a \in Int
    OBVIOUS
<1>4. qa \in Int /\ a = (qa * Modulus) + Wrap(a)
    BY <1>3, WrapIs
<1>5. qn \in Int /\ n = (qn * Modulus) + Wrap(n)
    BY WrapIs
<1>6. Wrap(a) \in Counter /\ Wrap(n) \in Counter /\ Wrap(a) \in Int /\ Wrap(n) \in Int
    BY <1>1, <1>3, WrapType DEF Counter
<1> HIDE DEF qa, qn
<1>7. p * Modulus = ((qn * Modulus) - (qa * Modulus)) + (q * Modulus)
    BY <1>1, <1>4, <1>5
<1>8. p \in Int
    BY <1>4, <1>5
<1> HIDE DEF p
<1>9. Wrap(a) = Wrap(n) + (p * Modulus)
    <2>1. qn * Modulus \in Int /\ qa * Modulus \in Int /\ q * Modulus \in Int
        BY <1>1, <1>4, <1>5
    <2>2. a = n + (q * Modulus)
        BY <1>2
    <2> HIDE DEF a
    <2> QED
        BY <1>3, <1>4, <1>5, <1>6, <1>7, <2>1, <2>2
<1>10. Wrap(a) = Wrap(n)
    BY <1>6, <1>8, <1>9, SameRemainder
<1> QED
    BY <1>10

\* A socket counted as it comes, ...
LEMMA BalancedUp ==
    ASSUME NEW m \in Int, NEW d \in Int, NEW n \in Int, Balanced(m, d, n)
    PROVE  Balanced(Wrap(m + 1), d, n + 1)
<1>1. Modulus \in Nat \ {0}
    BY SocketsAssumption
<1>2. PICK q \in Int : m - d = n + (q * Modulus)
    BY DEF Balanced
<1> DEFINE r == (m + 1) \div Modulus
<1>3. r \in Int /\ m + 1 = (r * Modulus) + Wrap(m + 1)
    BY WrapIs
<1>4. Wrap(m + 1) \in Int
    BY <1>1, WrapType DEF Counter
<1> HIDE DEF r
<1>5. (q - r) * Modulus = (q * Modulus) - (r * Modulus)
    BY <1>1, <1>3
<1>6. q - r \in Int
    BY <1>3
<1>7. Wrap(m + 1) - d = (n + 1) + ((q - r) * Modulus)
    <2>1. r * Modulus \in Int /\ q * Modulus \in Int
        BY <1>1, <1>3
    <2>2. Wrap(m + 1) = (m + 1) - (r * Modulus)
        BY <1>3, <1>4, <2>1
    <2> QED
        BY <1>2, <1>5, <2>1, <2>2
<1> QED
    BY <1>6, <1>7 DEF Balanced

\* ... and as it goes.
LEMMA BalancedDown ==
    ASSUME NEW m \in Int, NEW d \in Int, NEW n \in Int, Balanced(m, d, n)
    PROVE  Balanced(m, Wrap(d + 1), n - 1)
<1>1. Modulus \in Nat \ {0}
    BY SocketsAssumption
<1>2. PICK q \in Int : m - d = n + (q * Modulus)
    BY DEF Balanced
<1> DEFINE r == (d + 1) \div Modulus
<1>3. r \in Int /\ d + 1 = (r * Modulus) + Wrap(d + 1)
    BY WrapIs
<1>4. Wrap(d + 1) \in Int
    BY <1>1, WrapType DEF Counter
<1> HIDE DEF r
<1>5. (q + r) * Modulus = (q * Modulus) + (r * Modulus)
    BY <1>1, <1>3
<1>6. q + r \in Int
    BY <1>3
<1>7. m - Wrap(d + 1) = (n - 1) + ((q + r) * Modulus)
    <2>1. r * Modulus \in Int /\ q * Modulus \in Int
        BY <1>1, <1>3
    <2>2. Wrap(d + 1) = (d + 1) - (r * Modulus)
        BY <1>3, <1>4, <2>1
    <2> QED
        BY <1>2, <1>5, <2>1, <2>2
<1> QED
    BY <1>6, <1>7 DEF Balanced


-----------------------------------------------------------------------------
(* Types                                                                   *)

\* Intervals are positive and not longer than timeouts; a peer's latency is less
\* than the timeout.
LEMMA Times ==
    ASSUME NEW c \in Conns
    PROVE  /\ Interval(c) \in Nat \ {0}
           /\ Timeout(c) \in Nat
           /\ Interval(c) <= Timeout(c)
           /\ Latency(c) \in Nat
           /\ Kind(c) \in {"node", "feed"}
<1>1. Interval(c) \in Nat \ {0} /\ Timeout(c) \in Nat /\ Interval(c) <= Timeout(c)
    BY SocketsAssumption DEF Interval, Timeout
<1> DEFINE I == Interval(c)
           T == Timeout(c)
<1>2. (T \div I) * I \in Nat /\ (T \div I) * I >= 1
    <2> HIDE DEF I, T
    <2> QED
        BY <1>1, WholeIntervals DEF I, T
<1>3. Latency(c) \in Nat
    <2>1. Latency(c) = ((T \div I) * I) - 1
        BY DEF Latency
    <2> HIDE DEF I, T
    <2> QED
        BY <1>2, <2>1
<1> QED
    BY <1>1, <1>3 DEF Kind

\* A socket whose actor does not run waits for no answer, and only nodes wait for
\* a row of the database
Clean ==
    \A c \in Conns :
        /\ stage[c] # "open" => pings[c] = <<>> /\ hb[c] = 0
        /\ stage[c] = "requested" => c \notin Feeds

TypeInv == TypeOK /\ Clean

LEMMA SocketsTypeInit == Init => TypeInv
<1> SUFFICES ASSUME Init
             PROVE  TypeInv
    OBVIOUS
<1>1. \A c \in Conns : due[c] <= Interval(c) /\ pings[c] = <<>>
    BY Times DEF Init
<1>2. 0 \in Counter
    BY SocketsAssumption DEF Counter
<1>3. due \in [Conns -> Nat] /\ hb \in [Conns -> Nat] /\ pings \in [Conns -> Seq(Nat)]
    BY DEF Init
<1>4. \A c \in Conns : due[c] <= Interval(c) /\ \A i \in DOMAIN pings[c] : pings[c][i] <= Latency(c)
    BY <1>1
<1>5. {connected, disconnected} \subseteq [{"node", "feed"} -> Counter]
    BY <1>2 DEF Init
<1>6. scrape = None /\ aborted \in BOOLEAN
    BY DEF Init
<1> QED
    BY <1>1, <1>3, <1>4, <1>5, <1>6 DEF Init, TypeInv, TypeOK, Clean

\* Counting keeps a counter in its range.
LEMMA CountType ==
    ASSUME TypeOK, NEW kind \in {"node", "feed"}
    PROVE  /\ Count(connected, kind) \in [{"node", "feed"} -> Counter]
           /\ Count(disconnected, kind) \in [{"node", "feed"} -> Counter]
<1>1. connected[kind] \in Int /\ disconnected[kind] \in Int
    BY SocketsAssumption DEF TypeOK, Counter
<1>2. Wrap(connected[kind] + 1) \in Counter /\ Wrap(disconnected[kind] + 1) \in Counter
    BY <1>1, WrapType
<1> QED
    BY <1>2 DEF TypeOK, Count

\* A socket that is dropped leaves nothing behind but the count.
LEMMA DropType ==
    ASSUME TypeInv, NEW c \in Conns, Drop(c), connected' = connected, aborted' \in BOOLEAN
    PROVE  TypeInv'
<1>1. /\ due' \in [Conns -> Nat] /\ pings' \in [Conns -> Seq(Nat)]
      /\ \A d \in Conns :
             due'[d] <= Interval(d) /\ \A i \in DOMAIN pings'[d] : pings'[d][i] <= Latency(d)
    BY Times DEF TypeInv, TypeOK, Drop
<1>2. disconnected' \in [{"node", "feed"} -> Counter]
    BY CountType, Times DEF TypeInv, Drop
<1>3. Clean'
    BY DEF TypeInv, TypeOK, Clean, Drop
<1>4. TypeOK'
    BY <1>1, <1>2 DEF TypeInv, TypeOK, Drop, Disturb
<1> QED
    BY <1>3, <1>4 DEF TypeInv

LEMMA SocketsTypeStep == TypeInv /\ [Next]_vars => TypeInv'
<1> SUFFICES ASSUME TypeInv, [Next]_vars
             PROVE  TypeInv'
    OBVIOUS
<1> USE DEF TypeInv
<1>1. ASSUME NEW c \in Conns, Request(c) \/ Refuse(c) \/ Accept(c)
      PROVE  TypeInv'
    <2>1. UNCHANGED <<timeVars, metrics, scrape, aborted>>
        BY <1>1 DEF Request, Refuse, Accept
    <2>2. /\ Clean'
          /\ stage' \in [Conns -> {"new", "requested", "handshake", "open"}]
        BY <1>1, <2>1 DEF Request, Refuse, Accept, TypeOK, Clean, timeVars
    <2> QED
        BY <2>1, <2>2 DEF TypeOK, timeVars, metrics
<1>2. ASSUME NEW c \in Conns, Establish(c)
      PROVE  TypeInv'
    <2>1. connected' \in [{"node", "feed"} -> Counter]
        BY <1>2, CountType DEF Establish
    <2> QED
        BY <1>2, <2>1 DEF Establish, Disturb, TypeOK, Clean, timeVars
<1>3. ASSUME NEW c \in Conns, StartNode(c) \/ StartFeed(c)
      PROVE  TypeInv'
    <2>1. Started(c)
        BY <1>3 DEF StartNode, StartFeed
    <2>2. /\ stage' \in [Conns -> {"new", "requested", "handshake", "open"}]
          /\ due' \in [Conns -> Nat]
          /\ \A d \in Conns : due'[d] <= Interval(d)
          /\ hb' = hb /\ pings' = pings /\ responsive' = responsive
          /\ Clean'
        BY <2>1, Times DEF Started, TypeOK, Clean
    <2>3. connected' \in [{"node", "feed"} -> Counter] /\ disconnected' = disconnected
        BY <1>3, CountType DEF StartNode, StartFeed, TypeOK, metrics
    <2>4. (scrape' = scrape \/ scrape' = None) /\ aborted' = aborted
        BY <1>3 DEF StartNode, StartFeed, Disturb
    <2> QED
        BY <2>2, <2>3, <2>4 DEF TypeOK
<1>4. ASSUME NEW c \in Conns, Abort(c) \/ Leave(c) \/ Disconnect(c)
      PROVE  TypeInv'
    <2>1. Drop(c) /\ connected' = connected /\ aborted' \in BOOLEAN
        BY <1>4 DEF Abort, Leave, Disconnect, TypeOK
    <2> QED
        BY <2>1, DropType
<1>5. ASSUME NEW c \in Conns, SendPing(c)
      PROVE  TypeInv'
    <2>1. due' \in [Conns -> Nat] /\ \A d \in Conns : due'[d] <= Interval(d)
        BY <1>5, Times DEF SendPing, TypeOK
    <2>2. pings' \in [Conns -> Seq(Nat)]
        BY <1>5 DEF SendPing, TypeOK
    <2>3. ASSUME NEW d \in Conns, NEW i \in DOMAIN pings'[d]
          PROVE  pings'[d][i] <= Latency(d)
        <3>1. pings'[d] = pings[d] \/ (d = c /\ pings'[d] = Append(pings[d], 0))
            BY <1>5 DEF SendPing, TypeOK
        <3>2. pings[d] \in Seq(Nat) /\ \A j \in DOMAIN pings[d] : pings[d][j] <= Latency(d)
            BY DEF TypeOK
        <3>3. CASE pings'[d] = pings[d]
            BY <3>2, <3>3
        <3>4. CASE pings'[d] = Append(pings[d], 0)
            <4>1. Len(pings[d]) \in Nat /\ i \in 1..Len(pings[d]) + 1
                BY <3>2, <3>4
            <4>2. CASE i = Len(pings[d]) + 1
                BY <3>2, <3>4, <4>2, Times
            <4>3. CASE i # Len(pings[d]) + 1
                <5>1. i \in 1..Len(pings[d])
                    BY <4>1, <4>3
                <5> QED
                    BY <3>2, <3>4, <5>1
            <4> QED
                BY <4>2, <4>3
        <3> QED
            BY <3>1, <3>3, <3>4
    <2> QED
        BY <1>5, <2>1, <2>2, <2>3 DEF SendPing, TypeOK, Clean, metrics
<1>6. ASSUME NEW c \in Conns, Pong(c)
      PROVE  TypeInv'
    <2>1. pings[c] \in Seq(Nat) /\ pings[c] # <<>>
        BY <1>6 DEF Pong, TypeOK
    <2>2. Tail(pings[c]) \in Seq(Nat)
        BY <2>1
    <2>3. \A i \in DOMAIN Tail(pings[c]) : Tail(pings[c])[i] <= Latency(c)
        BY <2>1 DEF TypeOK
    <2>4. \A d \in Conns : pings'[d] = IF d = c THEN Tail(pings[c]) ELSE pings[d]
        BY <1>6 DEF Pong, TypeOK
    <2> QED
        BY <1>6, <2>2, <2>3, <2>4 DEF Pong, TypeOK, Clean, metrics
<1>7. ASSUME NEW c \in Conns, Ping(c)
      PROVE  TypeInv'
    BY <1>7 DEF Ping, TypeOK, Clean, metrics
<1>8. ASSUME NEW c \in Conns, FallSilent(c)
      PROVE  TypeInv'
    BY <1>8 DEF FallSilent, TypeOK, Clean, metrics
<1>9. ASSUME Tick
      PROVE  TypeInv'
    <2>1. \A c \in Conns : hb'[c] \in Nat /\ (stage[c] # "open" => hb'[c] = 0)
        BY <1>9 DEF Tick, Open, TypeOK, Clean
    <2>2. due' \in [Conns -> Nat] /\ \A c \in Conns : due'[c] <= Interval(c)
        <3>1. \A c \in Conns : due[c] \in Nat /\ Interval(c) \in Nat /\ due[c] <= Interval(c)
            BY Times DEF TypeOK
        <3>2. \A c \in Open : due[c] > 0
            BY <1>9 DEF Tick
        <3>3. due' = [c \in Conns |-> IF c \in Open THEN due[c] - 1 ELSE due[c]]
            BY <1>9 DEF Tick
        <3>4. \A c \in Conns : due'[c] \in Nat /\ due'[c] <= Interval(c)
            BY <3>1, <3>2, <3>3
        <3> QED
            BY <3>3, <3>4
    <2>3. ASSUME NEW c \in Conns
          PROVE  /\ pings'[c] \in Seq(Nat)
                 /\ \A i \in DOMAIN pings'[c] : pings'[c][i] <= Latency(c)
                 /\ stage[c] # "open" => pings'[c] = <<>>
        <3>1. pings[c] \in Seq(Nat) /\ DOMAIN pings[c] = 1..Len(pings[c])
              /\ Len(pings[c]) \in Nat
            BY DEF TypeOK
        <3>2. pings'[c] = [i \in 1..Len(pings[c]) |-> pings[c][i] + 1]
            BY <1>9, <3>1 DEF Tick
        <3>3. CASE c \in Open
            <4>1. \A i \in 1..Len(pings[c]) :
                      pings[c][i] + 1 \in Nat /\ pings[c][i] + 1 <= Latency(c)
                BY <1>9, <3>1, <3>3, Times DEF Tick
            <4> QED
                BY <3>1, <3>2, <3>3, <4>1 DEF Open
        <3>4. CASE c \notin Open
            <4>1. pings[c] = <<>>
                BY <3>4 DEF Open, Clean
            <4>2. pings'[c] = <<>>
                BY <3>2, <4>1
            <4> QED
                BY <4>2
        <3> QED
            BY <3>3, <3>4
    <2>4. hb' \in [Conns -> Nat] /\ pings' \in [Conns -> Seq(Nat)]
        BY <1>9, <2>1, <2>3 DEF Tick
    <2> QED
        BY <1>9, <2>1, <2>2, <2>3, <2>4 DEF Tick, TypeOK, Clean, metrics
<1>10. ASSUME NEW kind \in {"node", "feed"}, Load(kind)
       PROVE  TypeInv'
    BY <1>10 DEF Load, TypeOK, Clean, timeVars, metrics
<1>11. CASE Render
    BY <1>11 DEF Render, TypeOK, Clean, timeVars, metrics
<1>12. CASE UNCHANGED vars
    BY <1>12 DEF vars, TypeOK, Clean, timeVars, metrics
<1> QED
    BY <1>1, <1>2, <1>3, <1>4, <1>5, <1>6, <1>7, <1>8, <1>9, <1>10, <1>11, <1>12 DEF Next

LEMMA SocketsTypes == Spec => []TypeInv
<1> QED
    BY SocketsTypeInit, SocketsTypeStep, PTL DEF Spec

\* Every variable has its type: in particular heartbeats are never overdue, no
\* ping is unanswered longer than a peer may take, and only sockets whose actor
\* runs wait for answers.
THEOREM SocketsTypeCorrect == Spec => []TypeOK
<1>1. TypeInv => TypeOK
    BY DEF TypeInv
<1> QED
    BY <1>1, SocketsTypes, PTL


-----------------------------------------------------------------------------
(* Heartbeats                                                              *)

\* Between two heartbeats a socket that passed the first may be unheard for the
\* timeout and the part of the interval that has passed since
NoticedInv == \A c \in Open : hb[c] <= (Timeout(c) + Interval(c)) - due[c]

LEMMA NoticedStep == TypeInv /\ NoticedInv /\ [Next]_vars => NoticedInv'
<1> SUFFICES ASSUME TypeInv, NoticedInv, [Next]_vars, NEW c \in Conns, stage'[c] = "open"
             PROVE  hb'[c] <= (Timeout(c) + Interval(c)) - due'[c]
    BY DEF NoticedInv, Open
<1>1. /\ hb[c] \in Nat /\ due[c] \in Nat
      /\ Interval(c) \in Nat \ {0} /\ Timeout(c) \in Nat /\ due[c] <= Interval(c)
    BY Times DEF TypeInv, TypeOK
<1>2. stage[c] = "open" => hb[c] <= (Timeout(c) + Interval(c)) - due[c]
    BY DEF NoticedInv, Open
<1>3. ASSUME stage[c] = "open", hb'[c] = hb[c], due'[c] = due[c]
      PROVE  hb'[c] <= (Timeout(c) + Interval(c)) - due'[c]
    BY <1>2, <1>3
<1>4. ASSUME NEW d \in Conns,
             \/ Request(d) \/ Refuse(d) \/ Accept(d) \/ Establish(d) \/ FallSilent(d)
      PROVE  hb'[c] <= (Timeout(c) + Interval(c)) - due'[c]
    <2>1. stage[c] = "open" /\ hb'[c] = hb[c] /\ due'[c] = due[c]
        BY <1>4 DEF Request, Refuse, Accept, Establish, FallSilent, timeVars, TypeInv, TypeOK
    <2> QED
        BY <1>3, <2>1
<1>5. ASSUME NEW d \in Conns, StartNode(d) \/ StartFeed(d)
      PROVE  hb'[c] <= (Timeout(c) + Interval(c)) - due'[c]
    <2>1. stage[d] = "handshake" /\ Started(d)
        BY <1>5 DEF StartNode, StartFeed
    <2>2. CASE c = d
        <3>1. hb'[c] = 0 /\ due'[c] = Interval(c)
            BY <2>1, <2>2 DEF Started, TypeInv, TypeOK, Clean
        <3> QED
            BY <1>1, <3>1
    <2>3. CASE c # d
        BY <1>3, <2>1, <2>3 DEF Started, TypeInv, TypeOK
    <2> QED
        BY <2>2, <2>3
<1>6. ASSUME NEW d \in Conns, Abort(d) \/ Leave(d) \/ Disconnect(d)
      PROVE  hb'[c] <= (Timeout(c) + Interval(c)) - due'[c]
    <2>1. Drop(d)
        BY <1>6 DEF Abort, Leave, Disconnect
    <2>2. c # d /\ stage[c] = "open" /\ hb'[c] = hb[c] /\ due'[c] = due[c]
        BY <2>1 DEF Drop, TypeInv, TypeOK
    <2> QED
        BY <1>3, <2>2
<1>7. ASSUME NEW d \in Conns, SendPing(d)
      PROVE  hb'[c] <= (Timeout(c) + Interval(c)) - due'[c]
    <2>1. CASE c = d
        <3>1. hb'[c] = hb[c] /\ hb[c] <= Timeout(c) /\ due'[c] = Interval(c)
            BY <1>1, <1>7, <2>1 DEF SendPing, Unheard, TypeInv, TypeOK
        <3> QED
            BY <1>1, <3>1
    <2>2. CASE c # d
        BY <1>3, <1>7, <2>2 DEF SendPing, TypeInv, TypeOK
    <2> QED
        BY <2>1, <2>2
<1>8. ASSUME NEW d \in Conns, Pong(d) \/ Ping(d)
      PROVE  hb'[c] <= (Timeout(c) + Interval(c)) - due'[c]
    <2>1. stage' = stage /\ due' = due /\ (hb'[c] = hb[c] \/ hb'[c] = 0)
        BY <1>8 DEF Pong, Ping, TypeInv, TypeOK
    <2> QED
        BY <1>1, <1>2, <2>1
<1>9. CASE Tick
    <2>1. c \in Open /\ stage' = stage
        BY <1>9 DEF Tick, Open
    <2>2. hb'[c] = hb[c] + 1 /\ due'[c] = due[c] - 1
        BY <1>9, <2>1 DEF Tick
    <2> QED
        BY <1>1, <1>2, <2>1, <2>2 DEF Open
<1>10. CASE Render \/ UNCHANGED vars \/ \E kind \in {"node", "feed"} : Load(kind)
    <2>1. stage' = stage /\ hb' = hb /\ due' = due
        BY <1>10 DEF Render, Load, vars, timeVars
    <2> QED
        BY <1>3, <2>1
<1> QED
    BY <1>4, <1>5, <1>6, <1>7, <1>8, <1>9, <1>10 DEF Next

\* A silent peer is noticed within the timeout and one interval: the heartbeat
\* looks only once per interval, and a socket that passes it just in time is
\* looked at again an interval later.
THEOREM SilentAreNoticed == Spec => []SilentNoticed
<1>1. Init => NoticedInv
    BY DEF Init, NoticedInv, Open
<1>2. TypeInv /\ NoticedInv => SilentNoticed
    <2> SUFFICES ASSUME TypeInv, NoticedInv, NEW c \in Open
                 PROVE  hb[c] <= Timeout(c) + Interval(c)
        BY DEF SilentNoticed
    <2>1. c \in Conns /\ hb[c] <= (Timeout(c) + Interval(c)) - due[c]
        BY DEF NoticedInv, Open
    <2>2. hb[c] \in Nat /\ due[c] \in Nat /\ Interval(c) \in Nat /\ Timeout(c) \in Nat
        BY <2>1, Times DEF TypeInv, TypeOK
    <2> QED
        BY <2>1, <2>2
<1> QED
    BY <1>1, <1>2, NoticedStep, SocketsTypes, PTL DEF Spec

\* A ping of this age was sent at a heartbeat
AtHeartbeat(c, age) ==
    \E j \in Nat : age = (Interval(c) - due[c]) + (j * Interval(c))

\* Of a peer that answers: all unanswered pings were sent at a heartbeat.  While
\* there is one, the peer was heard at most an interval before the oldest was
\* sent; while there is none, it was heard since the last heartbeat.
AnswersInv ==
    \A c \in Open :
        /\ \A i \in DOMAIN pings[c] : AtHeartbeat(c, pings[c][i])
        /\ responsive[c] => IF pings[c] = <<>> THEN hb[c] <= Interval(c) - due[c]
                            ELSE hb[c] <= pings[c][1] + Interval(c)

\* At a heartbeat a peer that answers was heard within the timeout: the oldest
\* unanswered ping is a whole number of intervals old, but less than the timeout
\* in whole intervals, so at least an interval less.
LEMMA HeardInTime ==
    ASSUME TypeInv, AnswersInv, NEW c \in Open, responsive[c], due[c] = 0
    PROVE  ~Unheard(c)
<1> DEFINE I == Interval(c)
           T == Timeout(c)
           n == T \div I
<1>1. c \in Conns /\ hb[c] \in Nat /\ pings[c] \in Seq(Nat)
    BY DEF Open, TypeInv, TypeOK
<1>2. I \in Nat \ {0} /\ T \in Nat /\ I <= T
    BY <1>1, Times
<1>3. n \in Nat /\ n * I \in Nat /\ n * I <= T
    <2> HIDE DEF I, T
    <2> QED
        BY <1>2, WholeIntervals
<1>4. Latency(c) = (n * I) - 1
    BY DEF Latency
<1>5. CASE pings[c] = <<>>
    <2>1. hb[c] <= I
        BY <1>2, <1>5 DEF AnswersInv
    <2> HIDE DEF I, T
    <2>2. ~(hb[c] > T)
        BY <1>1, <1>2, <2>1
    <2> QED
        BY <2>2 DEF Unheard, T
<1>6. CASE pings[c] # <<>>
    <2>1. 1 \in DOMAIN pings[c] /\ pings[c][1] \in Nat /\ pings[c][1] <= Latency(c)
        <3>1. 1 \in DOMAIN pings[c] /\ pings[c][1] \in Nat
            BY <1>1, <1>6
        <3> QED
            BY <1>1, <3>1 DEF TypeInv, TypeOK
    <2>2. PICK j \in Nat : pings[c][1] = I + (j * I)
        <3>1. AtHeartbeat(c, pings[c][1])
            BY <2>1 DEF AnswersInv
        <3>2. I - due[c] = I
            BY <1>2
        <3> QED
            BY <3>1, <3>2 DEF AtHeartbeat
    <2>3. hb[c] <= pings[c][1] + I
        BY <1>6 DEF AnswersInv
    <2> DEFINE p == pings[c][1]
    <2> HIDE DEF I, T, n, p
    <2>4. p \in Nat /\ p < n * I
        BY <1>3, <1>4, <2>1 DEF p
    <2>5. p = (j + 1) * I
        <3>1. (j + 1) * I = (j * I) + I
            BY <1>2
        <3>2. j * I \in Int
            BY <1>2
        <3> QED
            BY <1>2, <2>2, <3>1, <3>2 DEF p
    <2>6. p + I <= n * I
        <3>1. (j + 1) * I < n * I
            BY <2>4, <2>5
        <3>2. j + 1 \in Int /\ n \in Int
            BY <1>3
        <3>3. ((j + 1) * I) + I <= n * I
            BY <1>2, <3>1, <3>2, NextMultiple
        <3> QED
            BY <2>5, <3>3
    <2>7. hb[c] <= p + I
        BY <2>3 DEF p
    <2>8. ~(hb[c] > T)
        BY <1>1, <1>2, <1>3, <2>4, <2>6, <2>7
    <2> QED
        BY <2>8 DEF Unheard, T
<1> QED
    BY <1>5, <1>6

\* Of the pings on the way, a new one comes last, and the first one leaves.
LEMMA FirstStays ==
    ASSUME NEW u \in Seq(Nat), u # <<>>, NEW e \in Nat
    PROVE  Append(u, e) # <<>> /\ Append(u, e)[1] = u[1]
OBVIOUS

LEMMA RestMoves ==
    ASSUME NEW u \in Seq(Nat), u # <<>>
    PROVE  /\ \A i \in DOMAIN Tail(u) : i + 1 \in DOMAIN u /\ Tail(u)[i] = u[i + 1]
           /\ Tail(u) # <<>> => Tail(u)[1] \in Nat
<1>1. Tail(u) \in Seq(Nat)
    OBVIOUS
<1>2. \A i \in DOMAIN Tail(u) : i + 1 \in DOMAIN u /\ Tail(u)[i] = u[i + 1]
    OBVIOUS
<1> QED
    BY <1>1, <1>2

LEMMA AnswersStep == TypeInv /\ AnswersInv /\ [Next]_vars => AnswersInv'
<1> DEFINE Heartbeats(c) == \A i \in DOMAIN pings[c] : AtHeartbeat(c, pings[c][i])
           Heard(c) == responsive[c] =>
                           IF pings[c] = <<>> THEN hb[c] <= Interval(c) - due[c]
                           ELSE hb[c] <= pings[c][1] + Interval(c)
<1> SUFFICES ASSUME TypeInv, AnswersInv, [Next]_vars, NEW c \in Conns, stage'[c] = "open"
             PROVE  Heartbeats(c)' /\ Heard(c)'
    BY DEF AnswersInv, Open
<1>1. /\ hb[c] \in Nat /\ due[c] \in Nat /\ pings[c] \in Seq(Nat)
      /\ Interval(c) \in Nat \ {0} /\ due[c] <= Interval(c)
    BY Times DEF TypeInv, TypeOK
<1>2. stage[c] = "open" => Heartbeats(c) /\ Heard(c)
    BY DEF AnswersInv, Open
<1>3. ASSUME stage[c] = "open", hb'[c] = hb[c], due'[c] = due[c], pings'[c] = pings[c],
             responsive'[c] = responsive[c]
      PROVE  Heartbeats(c)' /\ Heard(c)'
    BY <1>2, <1>3 DEF AtHeartbeat
<1>4. ASSUME NEW d \in Conns, Request(d) \/ Refuse(d) \/ Accept(d) \/ Establish(d)
      PROVE  Heartbeats(c)' /\ Heard(c)'
    <2>1. stage[c] = "open" /\ UNCHANGED timeVars
        BY <1>4 DEF Request, Refuse, Accept, Establish, TypeInv, TypeOK
    <2>2. /\ hb'[c] = hb[c] /\ due'[c] = due[c] /\ pings'[c] = pings[c]
          /\ responsive'[c] = responsive[c]
        BY <2>1 DEF timeVars
    <2> QED
        BY <1>3, <2>1, <2>2
<1>5. ASSUME NEW d \in Conns, StartNode(d) \/ StartFeed(d)
      PROVE  Heartbeats(c)' /\ Heard(c)'
    <2>1. stage[d] = "handshake" /\ Started(d)
        BY <1>5 DEF StartNode, StartFeed
    <2>2. CASE c = d
        <3>1. hb'[c] = 0 /\ due'[c] = Interval(c) /\ pings'[c] = <<>>
            BY <2>1, <2>2 DEF Started, TypeInv, TypeOK, Clean
        <3> QED
            BY <1>1, <3>1
    <2>3. CASE c # d
        <3>1. /\ stage[c] = "open" /\ hb'[c] = hb[c] /\ due'[c] = due[c]
              /\ pings'[c] = pings[c] /\ responsive'[c] = responsive[c]
            BY <2>1, <2>3 DEF Started, TypeInv, TypeOK
        <3> QED
            BY <1>3, <3>1
    <2> QED
        BY <2>2, <2>3
<1>6. ASSUME NEW d \in Conns, Abort(d) \/ Leave(d) \/ Disconnect(d)
      PROVE  Heartbeats(c)' /\ Heard(c)'
    <2>1. Drop(d)
        BY <1>6 DEF Abort, Leave, Disconnect
    <2>2. /\ stage[c] = "open" /\ hb'[c] = hb[c] /\ due'[c] = due[c]
          /\ pings'[c] = pings[c] /\ responsive'[c] = responsive[c]
        BY <2>1 DEF Drop, TypeInv, TypeOK
    <2> QED
        BY <1>3, <2>2
<1>7. ASSUME NEW d \in Conns, SendPing(d)
      PROVE  Heartbeats(c)' /\ Heard(c)'
    <2>1. CASE c # d
        <3>1. /\ stage[c] = "open" /\ hb'[c] = hb[c] /\ due'[c] = due[c]
              /\ pings'[c] = pings[c] /\ responsive'[c] = responsive[c]
            BY <1>7, <2>1 DEF SendPing, TypeInv, TypeOK
        <3> QED
            BY <1>3, <3>1
    <2>2. CASE c = d
        <3>1. /\ stage[c] = "open" /\ due[c] = 0 /\ due'[c] = Interval(c)
              /\ hb'[c] = hb[c] /\ responsive'[c] = responsive[c]
              /\ pings'[c] = IF responsive[c] THEN Append(pings[c], 0) ELSE pings[c]
            BY <1>7, <2>2 DEF SendPing, TypeInv, TypeOK
        <3>2. Heartbeats(c)'
            <4> SUFFICES ASSUME NEW i \in DOMAIN pings'[c]
                         PROVE  \E j \in Nat :
                                    pings'[c][i] = (Interval(c) - due'[c]) + (j * Interval(c))
                BY DEF AtHeartbeat
            <4>1. CASE i \in DOMAIN pings[c]
                <5>1. pings'[c][i] = pings[c][i]
                    BY <1>1, <3>1, <4>1
                <5>2. PICK j \in Nat :
                          pings[c][i] = (Interval(c) - due[c]) + (j * Interval(c))
                    BY <1>2, <3>1, <4>1 DEF AtHeartbeat
                <5> DEFINE I == Interval(c)
                           p == pings[c][i]
                <5>3. p = I + (j * I)
                    BY <1>1, <3>1, <5>2
                <5>4. I \in Nat
                    BY <1>1
                <5> HIDE DEF I, p
                <5>5. p = 0 + ((j + 1) * I)
                    BY <5>3, <5>4
                <5>6. j + 1 \in Nat
                    OBVIOUS
                <5>7. I - I = 0
                    BY <5>4
                <5> QED
                    BY <3>1, <5>1, <5>5, <5>6, <5>7 DEF I, p
            <4>2. CASE i \notin DOMAIN pings[c]
                <5>1. pings'[c][i] = 0
                    BY <1>1, <3>1, <4>2
                <5>2. 0 = (Interval(c) - Interval(c)) + (0 * Interval(c))
                    BY <1>1
                <5> QED
                    BY <3>1, <5>1, <5>2
            <4> QED
                BY <4>1, <4>2
        <3>3. Heard(c)'
            <4> SUFFICES ASSUME responsive[c]
                         PROVE  pings'[c] # <<>> /\ hb[c] <= pings'[c][1] + Interval(c)
                BY <3>1
            <4>1. pings'[c] = Append(pings[c], 0)
                BY <3>1
            <4>2. CASE pings[c] = <<>>
                <5>1. hb[c] <= Interval(c)
                    BY <1>1, <1>2, <3>1, <4>2
                <5>2. pings'[c] # <<>> /\ pings'[c][1] = 0
                    BY <4>1, <4>2
                <5> QED
                    BY <1>1, <5>1, <5>2
            <4>3. CASE pings[c] # <<>>
                <5>1. pings'[c] # <<>> /\ pings'[c][1] = pings[c][1]
                    BY <1>1, <4>1, <4>3, FirstStays
                <5> QED
                    BY <1>2, <3>1, <4>3, <5>1
            <4> QED
                BY <4>2, <4>3
        <3> QED
            BY <3>2, <3>3
    <2> QED
        BY <2>1, <2>2
<1>8. ASSUME NEW d \in Conns, Pong(d)
      PROVE  Heartbeats(c)' /\ Heard(c)'
    <2>1. CASE c # d
        <3>1. /\ stage[c] = "open" /\ hb'[c] = hb[c] /\ due'[c] = due[c]
              /\ pings'[c] = pings[c] /\ responsive'[c] = responsive[c]
            BY <1>8, <2>1 DEF Pong, TypeInv, TypeOK
        <3> QED
            BY <1>3, <3>1
    <2>2. CASE c = d
        <3>1. /\ stage[c] = "open" /\ due'[c] = due[c] /\ hb'[c] = 0
              /\ pings[c] # <<>> /\ pings'[c] = Tail(pings[c])
            BY <1>8, <2>2 DEF Pong, TypeInv, TypeOK
        <3>2. \A i \in DOMAIN pings'[c] :
                  i + 1 \in DOMAIN pings[c] /\ pings'[c][i] = pings[c][i + 1]
            BY <1>1, <3>1, RestMoves
        <3>3. Heartbeats(c)'
            BY <1>2, <3>1, <3>2 DEF AtHeartbeat
        <3>4. pings'[c] # <<>> => pings'[c][1] \in Nat
            BY <1>1, <3>1, RestMoves
        <3>5. 0 <= Interval(c) - due[c]
            BY <1>1
        <3>6. pings'[c] # <<>> => 0 <= pings'[c][1] + Interval(c)
            BY <1>1, <3>4
        <3>7. Heard(c)'
            BY <3>1, <3>5, <3>6
        <3> QED
            BY <3>3, <3>7
    <2> QED
        BY <2>1, <2>2
<1>9. ASSUME NEW d \in Conns, Ping(d)
      PROVE  Heartbeats(c)' /\ Heard(c)'
    <2>1. /\ stage[c] = "open" /\ due'[c] = due[c] /\ pings'[c] = pings[c]
          /\ responsive'[c] = responsive[c] /\ (hb'[c] = hb[c] \/ hb'[c] = 0)
        BY <1>9 DEF Ping, TypeInv, TypeOK
    <2>2. pings[c] # <<>> => pings[c][1] \in Nat
        BY <1>1
    <2>3. Heartbeats(c)'
        BY <1>2, <2>1 DEF AtHeartbeat
    <2>4. Heard(c)'
        BY <1>1, <1>2, <2>1, <2>2
    <2> QED
        BY <2>3, <2>4
<1>10. ASSUME NEW d \in Conns, FallSilent(d)
       PROVE  Heartbeats(c)' /\ Heard(c)'
    <2>1. CASE c # d
        <3>1. /\ stage[c] = "open" /\ hb'[c] = hb[c] /\ due'[c] = due[c]
              /\ pings'[c] = pings[c] /\ responsive'[c] = responsive[c]
            BY <1>10, <2>1 DEF FallSilent, TypeInv, TypeOK
        <3> QED
            BY <1>3, <3>1
    <2>2. CASE c = d
        <3>1. ~responsive'[c] /\ pings'[c] = <<>>
            BY <1>10, <2>2 DEF FallSilent, TypeInv, TypeOK
        <3> QED
            BY <3>1
    <2> QED
        BY <2>1, <2>2
<1>11. CASE Tick
    <2>1. c \in Open /\ stage' = stage /\ responsive' = responsive
        BY <1>11 DEF Tick, Open
    <2>2. hb'[c] = hb[c] + 1 /\ due'[c] = due[c] - 1
        BY <1>11, <2>1 DEF Tick
    <2>3. pings'[c] = [i \in DOMAIN pings[c] |-> pings[c][i] + 1]
        BY <1>11 DEF Tick
    <2>4. \A i \in DOMAIN pings[c] : pings[c][i] \in Nat
        BY <1>1
    <2>5. Heartbeats(c)'
        <3> SUFFICES ASSUME NEW i \in DOMAIN pings[c]
                     PROVE  \E j \in Nat :
                                pings[c][i] + 1 = (Interval(c) - due'[c]) + (j * Interval(c))
            BY <2>3 DEF AtHeartbeat
        <3>1. PICK j \in Nat : pings[c][i] = (Interval(c) - due[c]) + (j * Interval(c))
            BY <1>2, <2>1 DEF AtHeartbeat, Open
        <3>2. j * Interval(c) \in Int
            BY <1>1
        <3>3. pings[c][i] + 1 = (Interval(c) - due'[c]) + (j * Interval(c))
            BY <1>1, <2>2, <2>4, <3>1, <3>2
        <3> QED
            BY <3>3
    <2>6. Heard(c)'
        <3> SUFFICES ASSUME responsive[c]
                     PROVE  IF pings'[c] = <<>> THEN hb'[c] <= Interval(c) - due'[c]
                            ELSE hb'[c] <= pings'[c][1] + Interval(c)
            BY <2>1
        <3>1. CASE pings[c] = <<>>
            <4>1. pings'[c] = <<>>
                BY <2>3, <3>1
            <4> QED
                BY <1>1, <1>2, <2>1, <2>2, <3>1, <4>1 DEF Open
        <3>2. CASE pings[c] # <<>>
            <4>1. 1 \in DOMAIN pings[c]
                BY <1>1, <3>2
            <4>2. pings'[c] # <<>> /\ pings'[c][1] = pings[c][1] + 1
                BY <1>1, <2>3, <4>1
            <4>3. pings[c][1] \in Nat
                BY <2>4, <4>1
            <4> QED
                BY <1>1, <1>2, <2>1, <2>2, <3>2, <4>2, <4>3 DEF Open
        <3> QED
            BY <3>1, <3>2
    <2> QED
        BY <2>5, <2>6
<1>12. CASE Render \/ UNCHANGED vars \/ \E kind \in {"node", "feed"} : Load(kind)
    <2>1. stage' = stage /\ UNCHANGED timeVars
        BY <1>12 DEF Render, Load, vars, timeVars
    <2> QED
        BY <1>3, <2>1 DEF timeVars
<1> HIDE DEF Heartbeats, Heard
<1> QED
    BY <1>4, <1>5, <1>6, <1>7, <1>8, <1>9, <1>10, <1>11, <1>12 DEF Next

\* The heartbeat never disconnects a peer that answers every ping within its
\* latency, whatever the interval and the timeout, and however many pings are
\* unanswered at a time.
THEOREM AnsweringAreKept == Spec => AnsweringStays
<1>1. Init => AnswersInv
    BY DEF Init, AnswersInv, Open
<1>2. TypeInv /\ AnswersInv => \A c \in Conns : responsive[c] => ~Disconnect(c)
    <2> SUFFICES ASSUME TypeInv, AnswersInv, NEW c \in Conns, responsive[c], Disconnect(c)
                 PROVE  FALSE
        OBVIOUS
    <2>1. c \in Open /\ due[c] = 0 /\ Unheard(c)
        BY DEF Disconnect, Open
    <2> QED
        BY <2>1, HeardInTime
<1>3. Spec => [](TypeInv /\ AnswersInv)
    BY <1>1, AnswersStep, SocketsTypes, PTL DEF Spec
<1> QED
    BY <1>2, <1>3, PTL DEF AnsweringStays


-----------------------------------------------------------------------------
(* Gauges                                                                  *)

Kinds == {"node", "feed"}

\* The two counters of a kind differ by the sockets there are
CountsInv ==
    \A kind \in Kinds : (kind = "feed" => ~aborted) =>
        Balanced(connected[kind], disconnected[kind], Cardinality(Live(kind)))

\* What a request to /metrics/ has loaded is still the value of the counter
LoadedInv ==
    scrape # None =>
        scrape.value = IF scrape.loaded = "connected" THEN connected[scrape.kind]
                       ELSE disconnected[scrape.kind]

GaugeInv == CountsInv /\ LoadedInv

LEMMA LiveFinite ==
    ASSUME NEW kind
    PROVE  IsFiniteSet(Live(kind)) /\ Cardinality(Live(kind)) \in Nat
<1>1. IsFiniteSet(Conns) /\ Live(kind) \in SUBSET Conns
    BY SocketsAssumption DEF Live
<1>2. IsFiniteSet(Live(kind))
    BY <1>1, FS_Subset
<1> QED
    BY <1>2, FS_CardinalityType

\* A step that moves no counter and no socket, and loads nothing, keeps GaugeInv.
LEMMA GaugeKept ==
    ASSUME GaugeInv, UNCHANGED metrics, aborted' = aborted, scrape' \in {scrape, None},
           \A kind \in Kinds : Live(kind)' = Live(kind)
    PROVE  GaugeInv'
<1>1. CountsInv'
    BY DEF GaugeInv, CountsInv, metrics
<1>2. LoadedInv'
    BY DEF GaugeInv, LoadedInv, metrics
<1> QED
    BY <1>1, <1>2 DEF GaugeInv

\* A socket that comes and is counted keeps it, ...
LEMMA GaugeUp ==
    ASSUME TypeOK, GaugeInv, NEW kind \in Kinds, NEW c \in Conns,
           connected' = Count(connected, kind), disconnected' = disconnected,
           aborted' = aborted, Disturb(kind),
           c \notin Live(kind), Live(kind)' = Live(kind) \cup {c},
           \A other \in Kinds \ {kind} : Live(other)' = Live(other)
    PROVE  GaugeInv'
<1>1. /\ connected' = [connected EXCEPT ![kind] = Wrap(@ + 1)]
      /\ connected \in [Kinds -> Counter] /\ disconnected \in [Kinds -> Counter]
    BY DEF TypeOK, Count, Kinds
<1>2. \A k \in Kinds : connected[k] \in Int /\ disconnected[k] \in Int
    BY <1>1, SocketsAssumption DEF Counter
<1>3. Cardinality(Live(kind))' = Cardinality(Live(kind)) + 1
    BY LiveFinite, FS_AddElement
<1>4. ASSUME NEW k \in Kinds, k = "feed" => ~aborted'
      PROVE  Balanced(connected[k], disconnected[k], Cardinality(Live(k)))'
    <2>1. Balanced(connected[k], disconnected[k], Cardinality(Live(k)))
        BY <1>4 DEF GaugeInv, CountsInv
    <2>2. CASE k = kind
        <3>1. Cardinality(Live(kind)) \in Int
            BY LiveFinite
        <3>2. Balanced(Wrap(connected[k] + 1), disconnected[k], Cardinality(Live(k)) + 1)
            BY <1>2, <2>1, <2>2, <3>1, BalancedUp
        <3>3. connected'[k] = Wrap(connected[k] + 1)
            BY <1>1, <2>2
        <3> QED
            BY <1>3, <2>2, <3>2, <3>3 DEF Balanced
    <2>3. CASE k # kind
        <3>1. connected'[k] = connected[k] /\ Live(k)' = Live(k)
            BY <1>1, <2>3
        <3> QED
            BY <2>1, <3>1 DEF Balanced
    <2> QED
        BY <2>2, <2>3
<1>5. LoadedInv'
    <2> SUFFICES ASSUME scrape' # None
                 PROVE  scrape'.value = IF scrape'.loaded = "connected"
                                        THEN connected'[scrape'.kind]
                                        ELSE disconnected'[scrape'.kind]
        BY DEF LoadedInv
    <2>1. scrape' = scrape /\ scrape # None /\ scrape.kind # kind
        BY DEF Disturb
    <2>2. scrape.kind \in Kinds
        BY <2>1 DEF TypeOK, Kinds
    <2> QED
        BY <1>1, <2>1, <2>2 DEF GaugeInv, LoadedInv
<1> QED
    BY <1>4, <1>5 DEF GaugeInv, CountsInv

\* ... and so does one that goes; but for a feed socket that never was counted,
\* after which nothing is said of feeds.
LEMMA GaugeDown ==
    ASSUME TypeOK, GaugeInv, NEW kind \in Kinds, NEW c \in Conns,
           disconnected' = Count(disconnected, kind), connected' = connected,
           Disturb(kind),
           aborted => aborted',
           \/ kind = "feed" /\ aborted'
           \/ c \in Live(kind) /\ Live(kind)' = Live(kind) \ {c},
           \A other \in Kinds \ {kind} : Live(other)' = Live(other)
    PROVE  GaugeInv'
<1>1. /\ disconnected' = [disconnected EXCEPT ![kind] = Wrap(@ + 1)]
      /\ connected \in [Kinds -> Counter] /\ disconnected \in [Kinds -> Counter]
    BY DEF TypeOK, Count, Kinds
<1>2. \A k \in Kinds : connected[k] \in Int /\ disconnected[k] \in Int
    BY <1>1, SocketsAssumption DEF Counter
<1>3. ASSUME NEW k \in Kinds, k = "feed" => ~aborted'
      PROVE  Balanced(connected[k], disconnected[k], Cardinality(Live(k)))'
    <2>1. Balanced(connected[k], disconnected[k], Cardinality(Live(k)))
        BY <1>3 DEF GaugeInv, CountsInv
    <2>2. CASE k = kind
        <3>1. c \in Live(kind) /\ Live(kind)' = Live(kind) \ {c}
            BY <1>3, <2>2
        <3>2. Cardinality(Live(kind))' = Cardinality(Live(kind)) - 1
            BY <3>1, LiveFinite, FS_RemoveElement
        <3>3. Cardinality(Live(kind)) \in Int
            BY LiveFinite
        <3>4. Balanced(connected[k], Wrap(disconnected[k] + 1), Cardinality(Live(k)) - 1)
            BY <1>2, <2>1, <2>2, <3>3, BalancedDown
        <3>5. disconnected'[k] = Wrap(disconnected[k] + 1)
            BY <1>1, <2>2
        <3> QED
            BY <2>2, <3>2, <3>4, <3>5 DEF Balanced
    <2>3. CASE k # kind
        <3>1. disconnected'[k] = disconnected[k] /\ Live(k)' = Live(k)
            BY <1>1, <2>3
        <3> QED
            BY <2>1, <3>1 DEF Balanced
    <2> QED
        BY <2>2, <2>3
<1>4. LoadedInv'
    <2> SUFFICES ASSUME scrape' # None
                 PROVE  scrape'.value = IF scrape'.loaded = "connected"
                                        THEN connected'[scrape'.kind]
                                        ELSE disconnected'[scrape'.kind]
        BY DEF LoadedInv
    <2>1. scrape' = scrape /\ scrape # None /\ scrape.kind # kind
        BY DEF Disturb
    <2>2. scrape.kind \in Kinds
        BY <2>1 DEF TypeOK, Kinds
    <2> QED
        BY <1>1, <2>1, <2>2 DEF GaugeInv, LoadedInv
<1> QED
    BY <1>3, <1>4 DEF GaugeInv, CountsInv

LEMMA GaugeStep == TypeInv /\ GaugeInv /\ [Next]_vars => GaugeInv'
<1> SUFFICES ASSUME TypeInv, GaugeInv, [Next]_vars
             PROVE  GaugeInv'
    OBVIOUS
<1> USE DEF TypeInv
<1>1. ASSUME NEW c \in Conns, Request(c) \/ Refuse(c) \/ Accept(c) \/ StartNode(c)
      PROVE  GaugeInv'
    <2>1. UNCHANGED metrics /\ scrape' = scrape /\ aborted' = aborted
        BY <1>1 DEF Request, Refuse, Accept, StartNode
    <2>2. \A kind \in Kinds : Live(kind)' = Live(kind)
        BY <1>1 DEF Request, Refuse, Accept, StartNode, Started, Live, Kind, TypeOK
    <2> QED
        BY <2>1, <2>2, GaugeKept
<1>2. ASSUME NEW c \in Conns, Establish(c)
      PROVE  GaugeInv'
    <2>1. c \notin Feeds
        BY <1>2 DEF Establish, Clean
    <2>2. c \notin Live("node") /\ Live("node")' = Live("node") \cup {c}
        BY <1>2, <2>1 DEF Establish, Live, Kind, TypeOK
    <2>3. \A other \in Kinds \ {"node"} : Live(other)' = Live(other)
        BY <1>2, <2>1 DEF Establish, Live, Kind, TypeOK
    <2> QED
        BY <1>2, <2>2, <2>3, GaugeUp DEF Establish, Kinds
<1>3. ASSUME NEW c \in Conns, StartFeed(c)
      PROVE  GaugeInv'
    <2>1. c \notin Live("feed") /\ Live("feed")' = Live("feed") \cup {c}
        BY <1>3 DEF StartFeed, Started, Live, Kind, TypeOK
    <2>2. \A other \in Kinds \ {"feed"} : Live(other)' = Live(other)
        BY <1>3 DEF StartFeed, Started, Live, Kind, TypeOK
    <2> QED
        BY <1>3, <2>1, <2>2, GaugeUp DEF StartFeed, Kinds
<1>4. ASSUME NEW c \in Conns, Abort(c) \/ Leave(c) \/ Disconnect(c)
      PROVE  GaugeInv'
    <2>1. /\ Drop(c) /\ connected' = connected
          /\ stage[c] = "open" \/ stage[c] = "handshake"
          /\ aborted' = (aborted \/ (c \in Feeds /\ stage[c] = "handshake"))
        BY <1>4 DEF Abort, Leave, Disconnect, TypeOK
    <2>2. /\ stage' = [stage EXCEPT ![c] = "new"]
          /\ disconnected' = Count(disconnected, Kind(c)) /\ Disturb(Kind(c))
        BY <2>1 DEF Drop
    <2>3. Kind(c) \in Kinds
        BY DEF Kind, Kinds
    <2>4. \A other \in Kinds \ {Kind(c)} : Live(other)' = Live(other)
        BY <2>2 DEF Live, TypeOK
    <2>5. \/ Kind(c) = "feed" /\ aborted'
          \/ c \in Live(Kind(c)) /\ Live(Kind(c))' = Live(Kind(c)) \ {c}
        <3>1. CASE c \in Feeds /\ stage[c] = "handshake"
            BY <2>1, <3>1 DEF Kind
        <3>2. CASE ~(c \in Feeds /\ stage[c] = "handshake")
            BY <2>1, <2>2, <3>2 DEF Kind, Live, TypeOK
        <3> QED
            BY <3>1, <3>2
    <2>6. aborted => aborted'
        BY <2>1
    <2> QED
        BY <2>1, <2>2, <2>3, <2>4, <2>5, <2>6, GaugeDown
<1>5. ASSUME NEW c \in Conns, SendPing(c) \/ Pong(c) \/ Ping(c) \/ FallSilent(c)
      PROVE  GaugeInv'
    <2>1. stage' = stage /\ UNCHANGED metrics /\ scrape' = scrape /\ aborted' = aborted
        BY <1>5 DEF SendPing, Pong, Ping, FallSilent
    <2> QED
        BY <2>1, GaugeKept DEF Live
<1>6. CASE Tick \/ Render \/ UNCHANGED vars
    <2>1. stage' = stage /\ UNCHANGED metrics /\ scrape' \in {scrape, None}
          /\ aborted' = aborted
        BY <1>6 DEF Tick, Render, vars
    <2> QED
        BY <2>1, GaugeKept DEF Live
<1>7. ASSUME NEW kind \in Kinds, Load(kind)
      PROVE  GaugeInv'
    <2>1. stage' = stage /\ UNCHANGED metrics /\ aborted' = aborted
        BY <1>7 DEF Load
    <2>2. CountsInv'
        BY <2>1 DEF GaugeInv, CountsInv, Live, metrics
    <2>3. LoadedInv'
        BY <1>7, <2>1 DEF Load, LoadedInv, metrics
    <2> QED
        BY <2>2, <2>3 DEF GaugeInv
<1> QED
    BY <1>1, <1>2, <1>3, <1>4, <1>5, <1>6, <1>7 DEF Next, Kinds

LEMMA GaugeInit == Init => GaugeInv
<1> SUFFICES ASSUME Init
             PROVE  GaugeInv
    OBVIOUS
<1>1. \A kind \in Kinds : Live(kind) = {}
    BY DEF Init, Live
<1>2. \A kind \in Kinds : Cardinality(Live(kind)) = 0
    BY <1>1, FS_EmptySet
<1>3. 0 - 0 = 0 + (0 * Modulus) /\ 0 \in Int
    BY SocketsAssumption
<1>4. \A kind \in Kinds : connected[kind] = 0 /\ disconnected[kind] = 0
    BY DEF Init, Kinds
<1> QED
    BY <1>2, <1>3, <1>4 DEF Init, GaugeInv, CountsInv, LoadedInv, Balanced

\* A gauge whose two loads no socket comes or goes between is the number of
\* sockets of its kind, in either order of the loads, and however often the
\* counters have wrapped; for feeds, as long as none was dropped before it started.
THEOREM GaugesAreExact == Spec => []GaugesExact
<1>1. TypeOK /\ GaugeInv => GaugesExact
    <2> SUFFICES ASSUME TypeOK, GaugeInv, scrape # None, aborted => scrape.kind = "node"
                 PROVE  Gauge = Wrap(Cardinality(Live(scrape.kind)))
        BY DEF GaugesExact
    <2>1. scrape.kind \in Kinds
        BY DEF TypeOK, Kinds
    <2>2. Balanced(connected[scrape.kind], disconnected[scrape.kind],
                   Cardinality(Live(scrape.kind)))
        BY <2>1 DEF GaugeInv, CountsInv
    <2>3. connected[scrape.kind] \in Int /\ disconnected[scrape.kind] \in Int
        BY <2>1, SocketsAssumption DEF TypeOK, Kinds, Counter
    <2>4. Cardinality(Live(scrape.kind)) \in Int
        BY LiveFinite
    <2>5. Wrap(connected[scrape.kind] - disconnected[scrape.kind])
              = Wrap(Cardinality(Live(scrape.kind)))
        BY <2>2, <2>3, <2>4, BalancedGauge
    <2>6. Gauge = Wrap(connected[scrape.kind] - disconnected[scrape.kind])
        BY DEF Gauge, GaugeInv, LoadedInv
    <2> QED
        BY <2>5, <2>6
<1>2. TypeInv /\ GaugeInv => GaugesExact
    BY <1>1 DEF TypeInv
<1> QED
    BY <1>2, SocketsTypes, GaugeInit, GaugeStep, PTL DEF Spec
=============================================================================
