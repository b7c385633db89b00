-------------------------- MODULE AggregationProofs --------------------------
(***************************************************************************)
(* Proofs about Aggregation: what the loop of the handler computes, for    *)
(* arrays of any length, intervals of any number of seconds and clocks of  *)
(* any resolution.                                                         *)
(*                                                                         *)
(* The loop is a recursive function of the number of rows it has seen.     *)
(* Facts about it are proved by the least number for which they would      *)
(* fail, which needs no induction rule but that the naturals are well      *)
(* founded (WFMin).                                                        *)
(***************************************************************************)
EXTENDS Aggregation, WellFoundedInduction, TLAPS

\* What is appended to the second of two sequences is appended to both.
LEMMA AppendBehind ==
    ASSUME NEW S, NEW u \in Seq(S), NEW v \in Seq(S), NEW e \in S
    PROVE  u \o Append(v, e) = Append(u \o v, e)
OBVIOUS

\* A set of naturals that has an element has a least one.
LEMMA Least ==
    ASSUME NEW T \in SUBSET Nat, T # {}
    PROVE  \E x \in T : \A y \in T : x <= y
<1>1. IsWellFoundedOn(OpToRel(<, Nat), Nat)
    BY NatLessThanWellFounded
<1>2. PICK x \in T : \A y \in T : <<y, x>> \notin OpToRel(<, Nat)
    BY <1>1, WFMin
<1>3. ASSUME NEW y \in T
      PROVE  x <= y
    <2>1. ~(y < x)
        BY <1>2 DEF OpToRel
    <2> QED
        BY <2>1
<1> QED
    BY <1>3

\* The loop is what its turns make of it, one after the other: the recursive
\* function of Loop is defined.
LEMMA LoopIs ==
    ASSUME NEW q, NEW n \in Nat, n = Len(q)
    PROVE  /\ Loop(q)[0] = Start(q)
           /\ \A i \in 1..n : Loop(q)[i] = Turn(Loop(q)[i - 1], q[i], i)
<1> DEFINE Runs(f, m) ==
        f = [i \in 0..m |-> IF i = 0 THEN Start(q) ELSE Turn(f[i - 1], q[i], i)]
<1>1. \A m \in Nat : \E f : Runs(f, m)
    <2> DEFINE T == {m \in Nat : ~\E f : Runs(f, m)}
    <2> SUFFICES ASSUME T # {}
                 PROVE  FALSE
        OBVIOUS
    <2>1. PICK m \in T : \A y \in T : m <= y
        <3> T \in SUBSET Nat
            OBVIOUS
        <3> HIDE DEF T
        <3> QED
            BY Least
    <2>2. CASE m = 0
        <3> DEFINE f == [i \in 0..0 |-> Start(q)]
        <3>1. f = [i \in 0..0 |-> IF i = 0 THEN Start(q) ELSE Turn(f[i - 1], q[i], i)]
            OBVIOUS
        <3> QED
            BY <2>1, <2>2, <3>1
    <2>3. CASE m # 0
        <3>1. m - 1 \in Nat /\ m - 1 \notin T
            <4>1. m \in Nat
                BY <2>1
            <4> HIDE DEF T
            <4> QED
                BY <2>1, <2>3, <4>1
        <3>2. PICK f : Runs(f, m - 1)
            BY <3>1
        <3> DEFINE g == [i \in 0..m |-> IF i \in 0..(m - 1) THEN f[i]
                                        ELSE Turn(f[m - 1], q[m], m)]
        <3>3. ASSUME NEW i \in 0..m
              PROVE  g[i] = IF i = 0 THEN Start(q) ELSE Turn(g[i - 1], q[i], i)
            <4>1. CASE i = m
                <5>1. g[i] = Turn(f[m - 1], q[m], m) /\ g[i - 1] = f[m - 1]
                    BY <2>3, <3>1, <4>1
                <5> QED
                    BY <2>3, <4>1, <5>1
            <4>2. CASE i # m
                <5>1. i \in 0..(m - 1) /\ g[i] = f[i]
                    BY <3>1, <4>2
                <5>2. i # 0 => i - 1 \in 0..m /\ i - 1 \in 0..(m - 1) /\ g[i - 1] = f[i - 1]
                    BY <3>1, <5>1
                <5>3. f[i] = IF i = 0 THEN Start(q) ELSE Turn(f[i - 1], q[i], i)
                    BY <3>2, <5>1
                <5> QED
                    BY <5>1, <5>2, <5>3
            <4> QED
                BY <4>1, <4>2
        <3>4. g = [i \in 0..m |-> g[i]]
            OBVIOUS
        <3> HIDE DEF g
        <3>5. Runs(g, m)
            BY <3>3, <3>4
        <3> QED
            BY <2>1, <3>5
    <2> QED
        BY <2>2, <2>3
<1>2. Loop(q) = CHOOSE f : Runs(f, n)
    BY DEF Loop
<1>3. \E f : Runs(f, n)
    BY <1>1
<1> HIDE DEF Runs
<1>4. Runs(Loop(q), n)
    BY <1>2, <1>3
<1> QED
    BY <1>4 DEF Runs


-----------------------------------------------------------------------------
(* Intervals                                                               *)

\* A second is as long as another.
LEMMA Seconds ==
    ASSUME NEW a \in Nat, NEW b \in Nat
    PROVE  /\ timestamp(a) \in Nat
           /\ a <= b => timestamp(a) <= timestamp(b)
           /\ timestamp(b) <= timestamp(a) => b < a + SECOND
<1>1. SECOND \in Nat \ {0}
    BY AggregationAssumption
<1>2. a \div SECOND \in Nat /\ b \div SECOND \in Nat
    BY <1>1
<1>3. a <= b => a \div SECOND <= b \div SECOND
    BY <1>1
<1>4. b \div SECOND <= a \div SECOND => b < a + SECOND
    BY <1>1
<1> QED
    BY <1>2, <1>3, <1>4 DEF timestamp

LEMMA IntervalType == interval_dur \in Nat \ {0}
<1>1. SECOND \in Nat \ {0} /\ update_interval \in Nat \ {0}
    BY AggregationAssumption
<1> QED
    BY <1>1 DEF interval_dur

\* A row that opens a new interval advances start_ts by at least an interval, and
\* not up to itself.
LEMMA AdvancedIs ==
    ASSUME NEW start_ts \in Nat, NEW log \in Log, Closes(start_ts, log)
    PROVE  /\ Advanced(start_ts, log.created_at) \in Nat
           /\ Advanced(start_ts, log.created_at) >= start_ts + interval_dur
           /\ Advanced(start_ts, log.created_at) < log.created_at
<1> DEFINE I == interval_dur
           t == log.created_at
           d == (t - start_ts) - 1
           k == d \div I
<1>1. I \in Nat \ {0}
    BY IntervalType
<1>2. t \in Nat
    BY AggregationAssumption DEF Log
<1> HIDE DEF I, t
<1>3. start_ts + I < t
    <2>1. timestamp(t) > timestamp(start_ts + I)
        BY DEF Closes, t, I
    <2>2. start_ts + I \in Nat
        BY <1>1
    <2>3. t <= start_ts + I => timestamp(t) <= timestamp(start_ts + I)
        BY <1>2, <2>2, Seconds
    <2>4. timestamp(t) \in Nat /\ timestamp(start_ts + I) \in Nat
        BY <1>2, <2>2, Seconds
    <2> QED
        BY <1>2, <2>1, <2>2, <2>3, <2>4
<1>4. d \in Nat /\ d >= I
    BY <1>1, <1>2, <1>3
<1>5. Advanced(start_ts, t) = start_ts + (k * I)
    BY DEF Advanced, I
<1> HIDE DEF d
<1>6. k \in Nat /\ k * I <= d /\ k * I \in Nat /\ k * I >= I
    <2>1. k \in Nat /\ k >= 1
        BY <1>1, <1>4
    <2>2. k * I <= d
        BY <1>1, <1>4
    <2> HIDE DEF k
    <2> QED
        BY <1>1, <2>1, <2>2
<1> HIDE DEF k
<1>7. k * I <= (t - start_ts) - 1
    BY <1>6 DEF d
<1> QED
    BY <1>1, <1>2, <1>5, <1>6, <1>7 DEF t, I

-----------------------------------------------------------------------------
(* What aggregates are to be                                               *)

Aggregate == [created_at : 0..MaxTime, rows : SUBSET Log]

\* The rows of a sequence came in this order, and their timestamps follow it
InSequence(q) ==
    \A i, j \in DOMAIN q : i < j => /\ q[i].id < q[j].id
                                    /\ q[i].created_at <= q[j].created_at

\* It has measurements, and they are within an interval
Within(a) ==
    /\ a.rows # {}
    /\ \A x, y \in a.rows :
           /\ timestamp(x.created_at) <= timestamp(a.created_at)
           /\ y.created_at - x.created_at < interval_dur + SECOND

\* Later aggregates have later timestamps and later rows; each is within an interval
Sound(all) ==
    /\ all \in Seq(Aggregate)
    /\ \A i, j \in DOMAIN all : i < j =>
           /\ all[i].created_at < all[j].created_at
           /\ \A x \in all[i].rows, y \in all[j].rows : x.id < y.id
    /\ \A i \in DOMAIN all : Within(all[i])

\* They are not from after stamp, and made of rows before the row id
UpTo(all, stamp, id) ==
    \A i \in DOMAIN all : all[i].created_at <= stamp /\ \A x \in all[i].rows : x.id < id

\* An aggregate may be added whose timestamp and rows come after those.
LEMMA AppendSound ==
    ASSUME NEW all, Sound(all), NEW stamp \in Nat, NEW id \in Nat, UpTo(all, stamp, id),
           NEW a \in Aggregate, a.created_at > stamp, Within(a),
           NEW id2 \in Nat, id <= id2,
           \A x \in a.rows : id <= x.id /\ x.id < id2
    PROVE  Sound(Append(all, a)) /\ UpTo(Append(all, a), a.created_at, id2)
<1> DEFINE more == Append(all, a)
<1>1. all \in Seq(Aggregate) /\ Len(all) \in Nat
    BY DEF Sound
<1>2. more \in Seq(Aggregate) /\ DOMAIN more = 1..(Len(all) + 1)
    BY <1>1
<1>3. \A i \in DOMAIN all : i \in DOMAIN more /\ more[i] = all[i]
    BY <1>1
<1>4. more[Len(all) + 1] = a
    BY <1>1
<1>5. \A i \in DOMAIN more : i \in DOMAIN all \/ i = Len(all) + 1
    BY <1>1, <1>2
<1>6. \A i, j \in DOMAIN more : i < j => i \in DOMAIN all
    BY <1>1, <1>2
<1>7. \A i \in DOMAIN all : /\ all[i].created_at \in Nat
                            /\ \A x \in all[i].rows : x.id \in Nat
    <2> SUFFICES ASSUME NEW i \in DOMAIN all
                 PROVE  /\ all[i].created_at \in Nat
                        /\ \A x \in all[i].rows : x.id \in Nat
        OBVIOUS
    <2>1. all[i] \in Aggregate
        BY <1>1
    <2> QED
        BY <2>1, AggregationAssumption DEF Aggregate, Log
<1>8. a.created_at \in Nat /\ \A x \in a.rows : x.id \in Nat
    BY AggregationAssumption DEF Aggregate, Log
<1> HIDE DEF more
<1>9. ASSUME NEW i \in DOMAIN more, NEW j \in DOMAIN more, i < j
      PROVE  /\ more[i].created_at < more[j].created_at
             /\ \A x \in more[i].rows, y \in more[j].rows : x.id < y.id
    <2>1. i \in DOMAIN all /\ more[i] = all[i]
        BY <1>3, <1>6, <1>9
    <2>2. CASE j \in DOMAIN all
        BY <1>3, <1>9, <2>1, <2>2 DEF Sound
    <2>3. CASE j = Len(all) + 1
        <3>1. all[i].created_at <= stamp /\ \A x \in all[i].rows : x.id < id
            BY <2>1 DEF UpTo
        <3>2. all[i].created_at < a.created_at
            BY <1>7, <1>8, <2>1, <3>1
        <3>3. \A x \in all[i].rows, y \in a.rows : x.id < y.id
            BY <1>7, <1>8, <2>1, <3>1
        <3> QED
            BY <1>4, <2>1, <2>3, <3>2, <3>3
    <2> QED
        BY <1>5, <2>2, <2>3
<1>10. \A i \in DOMAIN more : Within(more[i])
    <2> SUFFICES ASSUME NEW i \in DOMAIN more
                 PROVE  Within(more[i])
        OBVIOUS
    <2>1. CASE i \in DOMAIN all
        BY <1>3, <2>1 DEF Sound
    <2>2. CASE i = Len(all) + 1
        BY <1>4, <2>2
    <2> QED
        BY <1>5, <2>1, <2>2
<1>11. ASSUME NEW i \in DOMAIN more
       PROVE  /\ more[i].created_at <= a.created_at
              /\ \A x \in more[i].rows : x.id < id2
    <2>1. CASE i \in DOMAIN all
        <3>1. all[i].created_at <= stamp /\ \A x \in all[i].rows : x.id < id
            BY <2>1 DEF UpTo
        <3> QED
            BY <1>3, <1>7, <1>8, <2>1, <3>1
    <2>2. CASE i = Len(all) + 1
        BY <1>4, <1>8, <2>2
    <2> QED
        BY <1>5, <2>1, <2>2
<1> QED
    BY <1>2, <1>9, <1>10, <1>11 DEF Sound, UpTo, more


-----------------------------------------------------------------------------
(* The loop                                                                *)

\* The state of the loop over q after i rows, with the aggregates sent before it:
\* what is collected are rows of the open interval, which began with the row
\* last_index; all aggregates are from before it.
State == [start_ts : 0..MaxTime, accum : SUBSET Log, last_index : Nat,
          aggregates : Seq(Aggregate)]
LoopInv(base, q, i, s) ==
    /\ s \in State
    /\ s.last_index \in 1..Len(q)
    /\ s.last_index <= i \/ s.last_index = 1
    /\ s.start_ts <= q[s.last_index].created_at
    /\ \A x \in s.accum :
           /\ \E k \in s.last_index..i : x = q[k]
           /\ timestamp(x.created_at) <= timestamp(s.start_ts + interval_dur)
    /\ Sound(base \o s.aggregates)
    /\ UpTo(base \o s.aggregates, s.start_ts, q[s.last_index].id)

\* What is collected, if anything, lies within the interval, and a second of rounding, and is
\* not from a later second than the timestamp it gets.
LEMMA AccumWithin ==
    ASSUME NEW base, NEW q \in Seq(Log), InSequence(q), NEW i \in 1..Len(q), NEW s,
           LoopInv(base, q, i - 1, s), s.accum # {},
           NEW stamp \in Nat, stamp >= s.start_ts + interval_dur
    PROVE  Within([created_at |-> stamp, rows |-> s.accum])
<1> SUFFICES ASSUME NEW x \in s.accum, NEW y \in s.accum
             PROVE  /\ timestamp(x.created_at) <= timestamp(stamp)
                    /\ y.created_at - x.created_at < interval_dur + SECOND
    BY DEF Within
<1> DEFINE I == interval_dur
           tx == x.created_at
           ty == y.created_at
           from == s.start_ts
<1>1. /\ I \in Nat \ {0} /\ SECOND \in Nat \ {0}
      /\ from \in Nat /\ tx \in Nat /\ ty \in Nat
    BY IntervalType, AggregationAssumption DEF LoopInv, State, Log
<1>2. PICK k \in s.last_index..(i - 1) : x = q[k]
    BY DEF LoopInv
<1>3. from <= tx
    <2>1. s.last_index \in DOMAIN q /\ k \in DOMAIN q /\ s.last_index \in Nat /\ k \in Nat
        BY <1>2 DEF LoopInv
    <2>2. q[s.last_index].created_at <= q[k].created_at
        <3>1. CASE s.last_index = k
            <4>1. q[k] \in Log
                BY <2>1
            <4>2. q[k].created_at \in Nat
                BY <4>1, AggregationAssumption DEF Log
            <4> QED
                BY <3>1, <4>2
        <3>2. CASE s.last_index # k
            <4>1. s.last_index < k
                BY <1>2, <2>1, <3>2
            <4> QED
                BY <2>1, <4>1 DEF InSequence
        <3> QED
            BY <3>1, <3>2
    <2>3. from <= q[s.last_index].created_at
        BY DEF LoopInv
    <2>4. q[s.last_index] \in Log
        BY <2>1
    <2>5. q[s.last_index].created_at \in Nat
        BY <2>4, AggregationAssumption DEF Log
    <2> QED
        BY <1>1, <1>2, <2>2, <2>3, <2>5
<1>4. /\ timestamp(tx) <= timestamp(from + I)
      /\ timestamp(ty) <= timestamp(from + I)
    BY DEF LoopInv
<1>5. stamp >= from + I
    OBVIOUS
<1> HIDE DEF I, tx, ty, from
<1>6. from + I \in Nat
    BY <1>1
<1>7. timestamp(tx) <= timestamp(stamp)
    <2>1. timestamp(from + I) <= timestamp(stamp)
        BY <1>5, <1>6, Seconds
    <2>2. timestamp(tx) \in Nat /\ timestamp(from + I) \in Nat /\ timestamp(stamp) \in Nat
        BY <1>1, <1>6, Seconds
    <2> QED
        BY <1>4, <2>1, <2>2
<1>8. ty < (from + I) + SECOND
    BY <1>1, <1>4, <1>6, Seconds
<1>9. ty - tx < I + SECOND
    BY <1>1, <1>3, <1>8
<1> QED
    BY <1>7, <1>9 DEF I, tx, ty

\* Each turn keeps the invariant of the loop.
LEMMA TurnStep ==
    ASSUME NEW base \in Seq(Aggregate), NEW q \in Seq(Log), InSequence(q),
           NEW i \in 1..Len(q), NEW s, LoopInv(base, q, i - 1, s)
    PROVE  LoopInv(base, q, i, Turn(s, q[i], i))
<1> DEFINE log == q[i]
<1>1. /\ log \in Log /\ log.created_at \in Nat /\ log.created_at \in 0..MaxTime /\ log.id \in Nat
      /\ i \in DOMAIN q /\ i \in Nat
    <2>1. log \in Log
        OBVIOUS
    <2>2. MaxTime \in Nat /\ MaxRows \in Nat
        BY AggregationAssumption
    <2> QED
        BY <2>1, <2>2 DEF Log
<1>2. /\ s \in State /\ s.start_ts \in Nat /\ s.accum \in SUBSET Log
      /\ s.aggregates \in Seq(Aggregate)
      /\ s.last_index \in DOMAIN q /\ s.last_index \in Nat
    BY AggregationAssumption DEF LoopInv, State
<1>3. CASE ~Closes(s.start_ts, log)
    <2>1. timestamp(log.created_at) <= timestamp(s.start_ts + interval_dur)
        <3>1. s.start_ts + interval_dur \in Nat
            BY <1>2, IntervalType
        <3>2. timestamp(log.created_at) \in Nat /\ timestamp(s.start_ts + interval_dur) \in Nat
            BY <1>1, <3>1, Seconds
        <3> QED
            BY <1>3, <3>2 DEF Closes
    <2>2. Turn(s, log, i) = Collect(s, log)
        BY <1>3 DEF Turn
    <2> DEFINE n == Collect(s, log)
    <2>3. /\ n \in State
          /\ n.start_ts = s.start_ts /\ n.last_index = s.last_index
          /\ n.aggregates = s.aggregates
          /\ n.accum \subseteq s.accum \cup {log}
        BY <1>1, <1>2 DEF Collect, State
    <2>4. s.last_index <= i
        BY <1>1, <1>2 DEF LoopInv
    <2>5. ASSUME NEW x \in n.accum
          PROVE  /\ \E k \in n.last_index..i : x = q[k]
                 /\ timestamp(x.created_at) <= timestamp(n.start_ts + interval_dur)
        <3>1. CASE x = log
            BY <1>1, <1>2, <2>1, <2>3, <2>4, <3>1
        <3>2. CASE x \in s.accum
            <4>1. PICK k \in s.last_index..(i - 1) : x = q[k]
                BY <3>2 DEF LoopInv
            <4>2. k \in s.last_index..i
                BY <1>1, <1>2, <4>1
            <4>3. timestamp(x.created_at) <= timestamp(s.start_ts + interval_dur)
                BY <3>2 DEF LoopInv
            <4> QED
                BY <2>3, <4>1, <4>2, <4>3
        <3> QED
            BY <2>3, <2>5, <3>1, <3>2
    <2>6. s.last_index \in 1..Len(q) /\ s.start_ts <= q[s.last_index].created_at
        BY DEF LoopInv
    <2> HIDE DEF n
    <2>7. LoopInv(base, q, i, n)
        BY <2>3, <2>4, <2>5, <2>6 DEF LoopInv
    <2> QED
        BY <2>2, <2>7 DEF n
<1>4. CASE Closes(s.start_ts, log)
    <2> DEFINE stamp == Advanced(s.start_ts, log.created_at)
               a == [created_at |-> stamp, rows |-> s.accum]
               n == Close(s, log, i)
               all == base \o s.aggregates
               id == q[s.last_index].id
    <2>1. stamp \in Nat /\ stamp >= s.start_ts + interval_dur /\ stamp < log.created_at
        BY <1>1, <1>2, <1>4, AdvancedIs
    <2>2. stamp > s.start_ts /\ stamp \in 0..MaxTime
        <3> HIDE DEF stamp
        <3>1. log.created_at <= MaxTime /\ MaxTime \in Nat
            BY <1>1, AggregationAssumption
        <3> QED
            BY <1>1, <1>2, <2>1, <3>1, IntervalType
    <2>3. Turn(s, log, i) = n
        BY <1>4 DEF Turn
    <2>4. a \in Aggregate
        BY <1>2, <2>2 DEF Aggregate
    <2>5. s.accum # {} => Within(a)
        BY <1>1, <2>1, AccumWithin
    <2>6. \A k \in DOMAIN q : q[k].id \in Nat
        <3> SUFFICES ASSUME NEW k \in DOMAIN q
                     PROVE  q[k].id \in Nat
            OBVIOUS
        <3>1. q[k] \in Log
            OBVIOUS
        <3> QED
            BY <3>1, AggregationAssumption DEF Log
    <2>7. id \in Nat /\ id <= log.id
        <3>1. s.last_index <= i
            BY <1>1, <1>2 DEF LoopInv
        <3>2. s.last_index = i \/ s.last_index < i
            BY <1>1, <1>2, <3>1
        <3> QED
            BY <1>1, <1>2, <2>6, <3>2 DEF InSequence
    <2>8. \A x \in s.accum : id <= x.id /\ x.id < log.id
        <3> SUFFICES ASSUME NEW x \in s.accum
                     PROVE  id <= x.id /\ x.id < log.id
            OBVIOUS
        <3>1. PICK k \in s.last_index..(i - 1) : x = q[k]
            BY DEF LoopInv
        <3>2. k \in DOMAIN q /\ k < i /\ (k = s.last_index \/ s.last_index < k)
            BY <1>1, <1>2, <3>1
        <3> QED
            BY <1>1, <1>2, <2>6, <3>1, <3>2 DEF InSequence
    <2>9. Sound(all) /\ UpTo(all, s.start_ts, id) /\ all \in Seq(Aggregate)
        BY DEF LoopInv, Sound
    <2>10. n = [start_ts |-> stamp, accum |-> {}, last_index |-> i,
                aggregates |-> With(s.aggregates, stamp, s.accum)]
        BY DEF Close
    <2>11. /\ With(s.aggregates, stamp, s.accum) \in Seq(Aggregate)
           /\ \/ base \o With(s.aggregates, stamp, s.accum) = all
              \/ s.accum # {} /\ base \o With(s.aggregates, stamp, s.accum) = Append(all, a)
        <3>1. CASE s.accum = {}
            BY <1>2, <3>1 DEF With
        <3>2. CASE s.accum # {}
            <4>1. With(s.aggregates, stamp, s.accum) = Append(s.aggregates, a)
                BY <3>2 DEF With
            <4> HIDE DEF a
            <4>2. Append(s.aggregates, a) \in Seq(Aggregate)
                BY <1>2, <2>4
            <4>3. base \o Append(s.aggregates, a) = Append(base \o s.aggregates, a)
                <5>1. s.aggregates \in Seq(Aggregate)
                    BY <1>2
                <5> QED
                    BY <2>4, <5>1, AppendBehind
            <4> QED
                BY <3>2, <4>1, <4>2, <4>3
        <3> QED
            BY <3>1, <3>2
    <2> HIDE DEF stamp, a, n, all, id
    <2>12. a.created_at = stamp /\ a.rows = s.accum
        BY DEF a
    <2>13. Sound(all) /\ UpTo(all, stamp, log.id)
        <3>1. \A m \in DOMAIN all :
                  /\ all[m].created_at \in Nat
                  /\ \A x \in all[m].rows : x.id \in Nat
            <4> SUFFICES ASSUME NEW m \in DOMAIN all
                         PROVE  /\ all[m].created_at \in Nat
                                /\ \A x \in all[m].rows : x.id \in Nat
                OBVIOUS
            <4>1. all[m] \in Aggregate
                BY <2>9
            <4> QED
                BY <4>1, AggregationAssumption DEF Aggregate, Log
        <3> SUFFICES ASSUME NEW m \in DOMAIN all
                     PROVE  /\ all[m].created_at <= stamp
                            /\ \A x \in all[m].rows : x.id < log.id
            BY <2>9 DEF UpTo
        <3>2. all[m].created_at <= s.start_ts /\ \A x \in all[m].rows : x.id < id
            BY <2>9 DEF UpTo
        <3>3. all[m].created_at <= stamp
            BY <1>2, <2>2, <3>1, <3>2
        <3>4. ASSUME NEW x \in all[m].rows
              PROVE  x.id < log.id
            BY <1>1, <2>7, <3>1, <3>2
        <3> QED
            BY <3>3, <3>4
    <2>14. s.accum # {} => Sound(Append(all, a)) /\ UpTo(Append(all, a), stamp, log.id)
        BY <1>1, <1>2, <2>2, <2>4, <2>5, <2>7, <2>8, <2>9, <2>12, AppendSound
    <2>15. /\ n \in State
           /\ n.start_ts = stamp /\ n.last_index = i /\ n.accum = {}
           /\ n.aggregates = With(s.aggregates, stamp, s.accum)
        BY <1>1, <2>2, <2>10, <2>11 DEF State
    <2>16. LoopInv(base, q, i, n)
        <3>1. Sound(base \o n.aggregates) /\ UpTo(base \o n.aggregates, stamp, log.id)
            BY <2>11, <2>13, <2>14, <2>15
        <3>2. stamp <= q[i].created_at
            BY <1>1, <2>1
        <3>3. i \in 1..Len(q) /\ i <= i
            BY <1>1
        <3> QED
            BY <2>15, <3>1, <3>2, <3>3 DEF LoopInv
    <2> QED
        BY <2>3, <2>16 DEF n
<1> QED
    BY <1>3, <1>4


\* Before the first row nothing is collected.
LEMMA StartInv ==
    ASSUME NEW base, NEW q \in Seq(Log), q # <<>>,
           Sound(base), UpTo(base, q[1].created_at, q[1].id)
    PROVE  LoopInv(base, q, 0, Start(q))
<1>1. 1 \in DOMAIN q /\ q[1] \in Log /\ 1 \in 1..Len(q)
    OBVIOUS
<1>2. q[1].created_at \in 0..MaxTime /\ q[1].created_at <= q[1].created_at
    BY <1>1, AggregationAssumption DEF Log
<1>3. /\ Start(q) \in State
      /\ Start(q).start_ts = q[1].created_at /\ Start(q).last_index = 1
      /\ Start(q).accum = {} /\ Start(q).aggregates = <<>>
    BY <1>2 DEF Start, State
<1>4. base \o <<>> = base
    BY DEF Sound
<1> QED
    BY <1>1, <1>2, <1>3, <1>4 DEF LoopInv

\* The invariant holds after every row, so after the last: by the least row it
\* would fail after.
LEMMA LoopKeeps ==
    ASSUME NEW base, NEW q \in Seq(Log), q # <<>>, InSequence(q),
           Sound(base), UpTo(base, q[1].created_at, q[1].id)
    PROVE  LoopInv(base, q, Len(q), Loop(q)[Len(q)])
<1> DEFINE T == {i \in 0..Len(q) : ~LoopInv(base, q, i, Loop(q)[i])}
<1>1. Len(q) \in Nat /\ base \in Seq(Aggregate)
    BY DEF Sound
<1>2. /\ Loop(q)[0] = Start(q)
      /\ \A i \in 1..Len(q) : Loop(q)[i] = Turn(Loop(q)[i - 1], q[i], i)
    BY <1>1, LoopIs
<1> SUFFICES ASSUME T # {}
             PROVE  FALSE
    BY <1>1
<1>3. T \in SUBSET Nat
    BY <1>1
<1>4. PICK x \in T : \A y \in T : x <= y
    <2> HIDE DEF T
    <2> QED
        BY <1>3, Least
<1>5. x \in 0..Len(q) /\ ~LoopInv(base, q, x, Loop(q)[x])
    BY <1>4
<1>6. x # 0
    BY <1>2, <1>5, StartInv
<1>7. x - 1 \in 0..Len(q) /\ x - 1 \notin T
    <2>1. x \in Nat
        BY <1>5
    <2> HIDE DEF T
    <2> QED
        BY <1>1, <1>4, <1>5, <1>6, <2>1
<1>8. LoopInv(base, q, x - 1, Loop(q)[x - 1])
    BY <1>7
<1>9. x \in 1..Len(q)
    BY <1>5, <1>6
<1>10. LoopInv(base, q, x, Turn(Loop(q)[x - 1], q[x], x))
    BY <1>1, <1>8, <1>9, TurnStep
<1> QED
    BY <1>2, <1>5, <1>9, <1>10

-----------------------------------------------------------------------------
(* The handler                                                             *)

\* Between two arrays: what was sent is sound, and all of it is from before the
\* first row that is kept, which the next interval starts from.
AggInv ==
    /\ TypeOK
    /\ InSequence(aggregate_remainder)
    /\ \A i \in DOMAIN aggregate_remainder :
           /\ aggregate_remainder[i].id <= Len(received)
           /\ aggregate_remainder[i].created_at <= latest
    /\ Sound(sent)
    /\ IF aggregate_remainder = <<>> THEN sent = <<>>
       ELSE UpTo(sent, aggregate_remainder[1].created_at, aggregate_remainder[1].id)

LEMMA AggInit == Init => AggInv
<1> SUFFICES ASSUME Init
             PROVE  AggInv
    OBVIOUS
<1>1. TypeOK
    BY DEF Init, TypeOK
<1>2. Sound(sent)
    BY DEF Init, Sound
<1> QED
    BY <1>1, <1>2 DEF Init, AggInv, InSequence

\* New rows follow those that are kept.
LEMMA RowsFollow ==
    ASSUME NEW q \in Seq(Log), NEW data \in Seq(Log), NEW last \in Nat, NEW stamp \in Nat,
           InSequence(q), InSequence(data),
           \A i \in DOMAIN q : q[i].id <= last /\ q[i].created_at <= stamp,
           \A i \in DOMAIN data : data[i].id > last /\ data[i].created_at >= stamp
    PROVE  InSequence(q \o data)
<1> SUFFICES ASSUME NEW i \in DOMAIN (q \o data), NEW j \in DOMAIN (q \o data), i < j
             PROVE  /\ (q \o data)[i].id < (q \o data)[j].id
                    /\ (q \o data)[i].created_at <= (q \o data)[j].created_at
    BY DEF InSequence
<1>1. /\ Len(q) \in Nat /\ Len(data) \in Nat
      /\ i \in 1..(Len(q) + Len(data)) /\ j \in 1..(Len(q) + Len(data))
    OBVIOUS
<1>2. \A k \in DOMAIN q : q[k].id \in Nat /\ q[k].created_at \in Nat
    <2> SUFFICES ASSUME NEW k \in DOMAIN q
                 PROVE  q[k].id \in Nat /\ q[k].created_at \in Nat
        OBVIOUS
    <2>1. q[k] \in Log
        OBVIOUS
    <2> QED
        BY <2>1, AggregationAssumption DEF Log
<1>3. \A k \in DOMAIN data : data[k].id \in Nat /\ data[k].created_at \in Nat
    <2> SUFFICES ASSUME NEW k \in DOMAIN data
                 PROVE  data[k].id \in Nat /\ data[k].created_at \in Nat
        OBVIOUS
    <2>1. data[k] \in Log
        OBVIOUS
    <2> QED
        BY <2>1, AggregationAssumption DEF Log
<1>4. CASE j <= Len(q)
    <2>1. i \in DOMAIN q /\ j \in DOMAIN q /\ (q \o data)[i] = q[i] /\ (q \o data)[j] = q[j]
        BY <1>1, <1>4
    <2> QED
        BY <2>1 DEF InSequence
<1>5. CASE i > Len(q)
    <2>1. /\ i - Len(q) \in DOMAIN data /\ j - Len(q) \in DOMAIN data
          /\ (q \o data)[i] = data[i - Len(q)] /\ (q \o data)[j] = data[j - Len(q)]
          /\ i - Len(q) < j - Len(q)
        BY <1>1, <1>5
    <2> QED
        BY <2>1 DEF InSequence
<1>6. CASE i <= Len(q) /\ j > Len(q)
    <2>1. /\ i \in DOMAIN q /\ j - Len(q) \in DOMAIN data
          /\ (q \o data)[i] = q[i] /\ (q \o data)[j] = data[j - Len(q)]
        BY <1>1, <1>6
    <2>2. /\ q[i].id <= last /\ q[i].created_at <= stamp
          /\ data[j - Len(q)].id > last /\ data[j - Len(q)].created_at >= stamp
        BY <2>1
    <2> QED
        BY <1>2, <1>3, <2>1, <2>2
<1> QED
    BY <1>1, <1>4, <1>5, <1>6

\* The rest of a sequence of rows is one, and its rows are among them.
LEMMA RestInSequence ==
    ASSUME NEW q \in Seq(Log), InSequence(q), NEW from \in 1..Len(q)
    PROVE  /\ SubSeq(q, from, Len(q)) \in Seq(Log)
           /\ SubSeq(q, from, Len(q)) # <<>>
           /\ SubSeq(q, from, Len(q))[1] = q[from]
           /\ InSequence(SubSeq(q, from, Len(q)))
           /\ \A i \in DOMAIN SubSeq(q, from, Len(q)) :
                  \E j \in DOMAIN q : SubSeq(q, from, Len(q))[i] = q[j]
<1> DEFINE rest == SubSeq(q, from, Len(q))
<1>1. Len(q) \in Nat /\ from \in Nat /\ from <= Len(q)
    OBVIOUS
<1>2. rest \in Seq(Log) /\ Len(rest) = (Len(q) - from) + 1
    BY <1>1
<1>3. \A i \in 1..Len(rest) : rest[i] = q[(from + i) - 1] /\ (from + i) - 1 \in DOMAIN q
    BY <1>1, <1>2
<1>4. DOMAIN rest = 1..Len(rest) /\ Len(rest) >= 1 /\ Len(rest) \in Nat
    BY <1>1, <1>2
<1> HIDE DEF rest
<1>5. rest # <<>> /\ rest[1] = q[from]
    BY <1>1, <1>2, <1>3, <1>4
<1>6. InSequence(rest)
    <2> SUFFICES ASSUME NEW i \in 1..Len(rest), NEW j \in 1..Len(rest), i < j
                 PROVE  rest[i].id < rest[j].id /\ rest[i].created_at <= rest[j].created_at
        BY <1>4 DEF InSequence
    <2>1. (from + i) - 1 < (from + j) - 1
        BY <1>1
    <2> QED
        BY <1>3, <2>1 DEF InSequence
<1> QED
    BY <1>2, <1>3, <1>4, <1>5, <1>6 DEF rest


\* What is known of the rows an array brings: they are numbered on, and not
\* younger than those before.
NewRows(data) ==
    /\ data \in Seq(Log) /\ data # <<>>
    /\ InSequence(data)
    /\ \A i \in DOMAIN data :
           /\ data[i].id > Len(received) /\ data[i].id <= Len(received) + Len(data)
           /\ data[i].created_at >= latest
           /\ data[i].created_at <= data[Len(data)].created_at

LEMMA ReceiveIs ==
    ASSUME TypeOK, Receive
    PROVE  \E data : NewRows(data) /\ handle(data) /\ received' = received \o data
<1> DEFINE Data(n, t, m) == [i \in 1..n |-> [id |-> Len(received) + i, created_at |-> t[i],
                                             measured |-> m[i]]]
           Brings(n, t, m) ==
               /\ Len(received) + n <= MaxRows
               /\ \A i, j \in 1..n : i < j => t[i] <= t[j]
               /\ handle(Data(n, t, m))
               /\ received' = received \o Data(n, t, m)
<1>1. \E n \in 1..MaxArray : \E t \in [1..n -> latest..MaxTime], m \in [1..n -> BOOLEAN] :
          Brings(n, t, m)
    BY DEF Receive
<1>2. PICK n \in 1..MaxArray :
          \E t \in [1..n -> latest..MaxTime], m \in [1..n -> BOOLEAN] : Brings(n, t, m)
    <2> HIDE DEF Brings
    <2> QED
        BY <1>1
<1>3. PICK t \in [1..n -> latest..MaxTime], m \in [1..n -> BOOLEAN] : Brings(n, t, m)
    <2> HIDE DEF Brings
    <2> QED
        BY <1>2
<1> DEFINE data == Data(n, t, m)
<1>4. /\ Len(received) + n <= MaxRows
      /\ \A i, j \in 1..n : i < j => t[i] <= t[j]
      /\ handle(data)
      /\ received' = received \o data
    BY <1>3
<1>5. /\ n \in Nat /\ n >= 1 /\ MaxRows \in Nat /\ MaxTime \in Nat
      /\ received \in Seq(Log) /\ Len(received) \in Nat
    BY AggregationAssumption DEF TypeOK
<1>6. latest \in Nat
    <2>1. CASE received = <<>>
        BY <2>1 DEF latest
    <2>2. CASE received # <<>>
        <3>1. received[Len(received)] \in Log
            BY <1>5, <2>2
        <3> QED
            BY <1>5, <2>2, <3>1 DEF latest, Log
    <2> QED
        BY <2>1, <2>2
<1>7. ASSUME NEW i \in 1..n
      PROVE  /\ data[i] \in Log
             /\ data[i].id = Len(received) + i /\ data[i].created_at = t[i]
             /\ t[i] \in Nat /\ t[i] >= latest /\ t[i] <= t[n]
    <2> DEFINE log == [id |-> Len(received) + i, created_at |-> t[i], measured |-> m[i]]
    <2>1. data[i] = log
        OBVIOUS
    <2>2. t[i] \in latest..MaxTime /\ m[i] \in BOOLEAN
        OBVIOUS
    <2>3. Len(received) + i \in 1..MaxRows
        BY <1>4, <1>5
    <2>4. t[i] \in 0..MaxTime /\ t[i] \in Nat /\ t[i] >= latest
        BY <1>5, <1>6, <2>2
    <2>5. t[i] <= t[n]
        <3>1. CASE i = n
            BY <2>4, <3>1
        <3>2. CASE i # n
            BY <1>4, <1>5, <3>2
        <3> QED
            BY <3>1, <3>2
    <2>6. log \in Log
        BY <2>2, <2>3, <2>4 DEF Log
    <2> QED
        BY <2>1, <2>4, <2>5, <2>6
<1>8. data \in Seq(Log) /\ Len(data) = n /\ DOMAIN data = 1..n
    BY <1>5, <1>7
<1>9. data # <<>> /\ n \in DOMAIN data
    <2> HIDE DEF data
    <2> QED
        BY <1>5, <1>8
<1> HIDE DEF data
<1>10. InSequence(data)
    <2> SUFFICES ASSUME NEW i \in 1..n, NEW j \in 1..n, i < j
                 PROVE  data[i].id < data[j].id /\ data[i].created_at <= data[j].created_at
        BY <1>8 DEF InSequence
    <2>1. t[i] <= t[j]
        BY <1>4
    <2> QED
        BY <1>5, <1>7, <2>1
<1>11. \A i \in DOMAIN data :
          /\ data[i].id > Len(received) /\ data[i].id <= Len(received) + Len(data)
          /\ data[i].created_at >= latest
          /\ data[i].created_at <= data[Len(data)].created_at
    BY <1>5, <1>7, <1>8, <1>9
<1> QED
    BY <1>4, <1>8, <1>9, <1>10, <1>11 DEF NewRows

LEMMA AggStep == AggInv /\ [Next]_vars => AggInv'
<1> SUFFICES ASSUME AggInv, [Next]_vars
             PROVE  AggInv'
    OBVIOUS
<1>1. CASE UNCHANGED vars
    BY <1>1 DEF vars, AggInv, TypeOK, latest
<1>2. CASE Receive
    <2>1. PICK data : NewRows(data) /\ handle(data) /\ received' = received \o data
        BY <1>2, ReceiveIs DEF AggInv
    <2> DEFINE q == aggregate_remainder \o data
               s == Loop(q)[Len(q)]
               li == s.last_index
    <2>2. /\ aggregate_remainder \in Seq(Log) /\ data \in Seq(Log) /\ data # <<>>
          /\ received \in Seq(Log) /\ Len(received) \in Nat
          /\ Len(data) \in Nat /\ Len(data) >= 1 /\ Len(data) \in DOMAIN data
        <3>1. data \in Seq(Log) /\ data # <<>>
            BY <2>1 DEF NewRows
        <3> QED
            BY <3>1 DEF AggInv, TypeOK
    <2>3. /\ received' \in Seq(Log) /\ Len(received') = Len(received) + Len(data)
          /\ received' # <<>> /\ received'[Len(received')] = data[Len(data)]
          /\ latest' = data[Len(data)].created_at
        <3>1. received' \in Seq(Log) /\ Len(received') = Len(received) + Len(data)
            BY <2>1, <2>2
        <3>2. received'[Len(received')] = data[Len(data)]
            BY <2>1, <2>2, <3>1
        <3>3. received' # <<>>
            BY <2>2, <3>1
        <3> QED
            BY <3>1, <3>2, <3>3 DEF latest
    <2>4. /\ latest \in Nat /\ data[Len(data)].created_at \in Nat
          /\ latest <= data[Len(data)].created_at
        <3>1. received = <<>> => latest \in Nat
            BY DEF latest
        <3>2. ASSUME received # <<>>
              PROVE  latest \in Nat
            <4>1. received[Len(received)] \in Log
                BY <2>2, <3>2
            <4> QED
                BY <3>2, <4>1, AggregationAssumption DEF latest, Log
        <3>3. data[Len(data)] \in Log
            BY <2>2
        <3>4. latest <= data[Len(data)].created_at
            BY <2>1, <2>2 DEF NewRows
        <3> QED
            BY <3>1, <3>2, <3>3, <3>4, AggregationAssumption DEF Log
    <2>5. q \in Seq(Log) /\ q # <<>> /\ Len(q) \in Nat
        <3>1. q \in Seq(Log)
            BY <2>2
        <3>2. Len(q) = Len(aggregate_remainder) + Len(data) /\ Len(aggregate_remainder) \in Nat
            BY <2>2
        <3> HIDE DEF q
        <3> QED
            BY <2>2, <3>1, <3>2
    <2>6. InSequence(q)
        BY <2>1, <2>2, <2>4, RowsFollow DEF AggInv, NewRows
    <2>7. Sound(sent) /\ UpTo(sent, q[1].created_at, q[1].id)
        <3>1. CASE aggregate_remainder = <<>>
            BY <3>1 DEF AggInv, UpTo
        <3>2. CASE aggregate_remainder # <<>>
            <4>1. q[1] = aggregate_remainder[1]
                BY <2>2, <3>2
            <4> QED
                BY <3>2, <4>1 DEF AggInv
        <3> QED
            BY <3>1, <3>2 DEF AggInv
    <2>8. ASSUME NEW j \in DOMAIN q
          PROVE  q[j].id <= Len(received') /\ q[j].created_at <= latest'
        <3>1. CASE j <= Len(aggregate_remainder)
            <4>1. j \in DOMAIN aggregate_remainder /\ q[j] = aggregate_remainder[j]
                BY <2>2, <3>1
            <4>2. q[j].id <= Len(received) /\ q[j].created_at <= latest
                BY <4>1 DEF AggInv
            <4>3. q[j] \in Log
                BY <2>5
            <4>4. q[j].id \in Nat /\ q[j].created_at \in Nat
                BY <4>3, AggregationAssumption DEF Log
            <4> HIDE DEF q
            <4> QED
                BY <2>2, <2>3, <2>4, <4>2, <4>4
        <3>2. CASE j > Len(aggregate_remainder)
            <4>1. /\ j - Len(aggregate_remainder) \in DOMAIN data
                  /\ q[j] = data[j - Len(aggregate_remainder)]
                BY <2>2, <3>2
            <4> QED
                BY <2>1, <2>3, <4>1 DEF NewRows
        <3>3. j \in Nat /\ Len(aggregate_remainder) \in Nat
            BY <2>2, <2>5
        <3> QED
            BY <3>1, <3>2, <3>3
    <2>9. aggregate_remainder' = SubSeq(q, li, Len(q)) /\ sent' = sent \o s.aggregates
        BY <2>1 DEF handle, Kept
    <2> HIDE DEF q
    <2>10. LoopInv(sent, q, Len(q), s)
        BY <2>5, <2>6, <2>7, LoopKeeps
    <2> HIDE DEF s
    <2>11. /\ li \in 1..Len(q) /\ s.start_ts <= q[li].created_at /\ s.start_ts \in Nat
           /\ Sound(sent') /\ UpTo(sent', s.start_ts, q[li].id)
        BY <2>9, <2>10, AggregationAssumption DEF LoopInv, State
    <2> HIDE DEF li
    <2>12. /\ aggregate_remainder' \in Seq(Log) /\ aggregate_remainder' # <<>>
           /\ aggregate_remainder'[1] = q[li]
           /\ InSequence(aggregate_remainder')
           /\ \A i \in DOMAIN aggregate_remainder' :
                  \E j \in DOMAIN q : aggregate_remainder'[i] = q[j]
        BY <2>5, <2>6, <2>9, <2>11, RestInSequence
    <2>13. UpTo(sent', q[li].created_at, q[li].id)
        <3>1. q[li] \in Log
            BY <2>5, <2>11
        <3>2. q[li].created_at \in Nat
            BY <3>1, AggregationAssumption DEF Log
        <3>3. \A i \in DOMAIN sent' : sent'[i].created_at \in Nat
            <4> SUFFICES ASSUME NEW i \in DOMAIN sent'
                         PROVE  sent'[i].created_at \in Nat
                OBVIOUS
            <4>1. sent'[i] \in Aggregate
                BY <2>11 DEF Sound
            <4> QED
                BY <4>1, AggregationAssumption DEF Aggregate
        <3> QED
            BY <2>11, <3>2, <3>3 DEF UpTo
    <2>14. TypeOK'
        BY <2>3, <2>11, <2>12 DEF TypeOK, Sound, Aggregate
    <2>15. \A i \in DOMAIN aggregate_remainder' :
               /\ aggregate_remainder'[i].id <= Len(received')
               /\ aggregate_remainder'[i].created_at <= latest'
        BY <2>8, <2>12
    <2> QED
        BY <2>11, <2>12, <2>13, <2>14, <2>15 DEF AggInv
<1> QED
    BY <1>1, <1>2 DEF Next

THEOREM AggInductive == Spec => []AggInv
<1> QED
    BY AggInit, AggStep, PTL DEF Spec

\* The rows kept, the aggregates sent and the rows received keep their types.
THEOREM AggregationTypeCorrect == Spec => []TypeOK
<1>1. AggInv => TypeOK
    BY DEF AggInv
<1> QED
    BY <1>1, AggInductive, PTL

\* No measurement is aggregated twice, however arrays and intervals cut the rows.
THEOREM NoneAggregatedTwice == Spec => []AggregatedOnce
<1>1. AggInv => AggregatedOnce
    <2> SUFFICES ASSUME AggInv
                 PROVE  AggregatedOnce
        OBVIOUS
    <2>1. \A i \in DOMAIN sent : \A x \in sent[i].rows : x.id \in Nat
        <3> SUFFICES ASSUME NEW i \in DOMAIN sent, NEW x \in sent[i].rows
                     PROVE  x.id \in Nat
            OBVIOUS
        <3>1. sent[i] \in Aggregate
            BY DEF AggInv, Sound
        <3> QED
            BY <3>1, AggregationAssumption DEF Aggregate, Log
    <2>2. ASSUME NEW i \in DOMAIN sent, NEW j \in DOMAIN sent, i # j
          PROVE  sent[i].rows \cap sent[j].rows = {}
        <3>1. i \in Int /\ j \in Int
            BY DEF AggInv, TypeOK
        <3>2. i < j \/ j < i
            BY <2>2, <3>1
        <3>3. \A x \in sent[i].rows, y \in sent[j].rows : x.id < y.id \/ y.id < x.id
            BY <3>2 DEF AggInv, Sound
        <3> QED
            BY <2>1, <3>3
    <2>3. ASSUME NEW i \in DOMAIN sent, NEW x \in sent[i].rows,
                 x \in RowsIn(aggregate_remainder)
          PROVE  FALSE
        <3>1. PICK k \in DOMAIN aggregate_remainder : x = aggregate_remainder[k]
            BY <2>3 DEF RowsIn
        <3>2. /\ aggregate_remainder \in Seq(Log) /\ aggregate_remainder # <<>>
              /\ 1 \in DOMAIN aggregate_remainder /\ k \in Nat /\ (k = 1 \/ 1 < k)
            BY <3>1 DEF AggInv, TypeOK
        <3>3. x.id < aggregate_remainder[1].id
            BY <3>2 DEF AggInv, UpTo
        <3>4. x.id = aggregate_remainder[1].id \/ aggregate_remainder[1].id < x.id
            BY <3>1, <3>2 DEF AggInv, InSequence
        <3>5. aggregate_remainder[1] \in Log
            BY <3>2
        <3>6. aggregate_remainder[1].id \in Nat /\ x.id \in Nat
            BY <2>1, <3>5, AggregationAssumption DEF Log
        <3> QED
            BY <3>3, <3>4, <3>6
    <2> QED
        BY <2>2, <2>3 DEF AggregatedOnce, Aggregated
<1> QED
    BY <1>1, AggInductive, PTL

\* Aggregates leave in the order of their timestamps, without a repetition,
\* although each array begins its intervals anew.
THEOREM TimestampsIncrease == Spec => []StampsIncrease
<1>1. AggInv => StampsIncrease
    BY DEF AggInv, Sound, StampsIncrease
<1> QED
    BY <1>1, AggInductive, PTL

\* The measurements of an aggregate are those of one interval, to the second, and
\* not from a later second than it says.
THEOREM OneInterval == Spec => []WithinInterval
<1>1. AggInv => WithinInterval
    BY DEF AggInv, Sound, Within, WithinInterval
<1> QED
    BY <1>1, AggInductive, PTL
=============================================================================
