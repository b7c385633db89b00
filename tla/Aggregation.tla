----------------------------- MODULE Aggregation ----------------------------
(***************************************************************************)
(* What a socket of the live feed (src/web/feed.rs) makes of the arrays    *)
(* the Cache sends it for a key it has an aggregate subscription to: logs  *)
(* are collected per interval, and the socket keeps those of the interval  *)
(* that is not over yet.                                                   *)
(*                                                                         *)
(* The arrays are those of one subscription: rows in the order of their    *)
(* timestamps, none sent twice.  None is empty: what an empty one does is  *)
(* HandleArrayPanics in Feed.  A measurement is the row it comes from; the *)
(* time an aggregate shows for its measurements is Pick.                   *)
(***************************************************************************)
EXTENDS Integers, Sequences, FiniteSets, SequencesExt

CONSTANTS SECOND,           \* clock units per second
          update_interval,  \* of the subscription, in seconds
          \* bounds
          MaxRows,          \* rows received
          MaxArray,         \* rows of one array
          MaxTime,          \* timestamps
          Times,            \* measured times, and their negatives
          MaxMeasurements   \* measurements of one aggregate

\* An interval of 0 is accepted from a client, too; then the loop that advances
\* start_ts does not end.
ASSUME AggregationAssumption ==
    /\ {SECOND, update_interval} \subseteq Nat \ {0}
    /\ {MaxRows, MaxArray, MaxTime, MaxMeasurements} \subseteq Nat
    /\ Times \subseteq Nat

VARIABLES aggregate_remainder,
          sent,     \* history: the aggregates computed, with the rows they stand for
          received  \* history: all rows, numbered as they came

vars == <<aggregate_remainder, sent, received>>

\* A log: measured when its time, target and name could be parsed
Log == [id : 1..MaxRows, created_at : 0..MaxTime, measured : BOOLEAN]
RowsIn(q) == {q[i] : i \in DOMAIN q}

Init ==
    /\ aggregate_remainder = <<>>
    /\ sent = <<>>
    /\ received = <<>>

interval_dur == update_interval * SECOND
timestamp(t) == t \div SECOND  \* whole seconds

\* The start of the interval that log belongs to: start_ts is advanced while
\* the following interval starts before it
Advanced_Next(start_ts, t) ==  \* mutant: to the interval after
    start_ts + ((t - start_ts - 1) \div interval_dur + 1) * interval_dur
Advanced(start_ts, t) == start_ts + ((t - start_ts - 1) \div interval_dur) * interval_dur

\* A row opens a new interval, or is collected.  An interval without measurements
\* is not sent.
Closes(start_ts, log) == timestamp(log.created_at) > timestamp(start_ts + interval_dur)
With(aggregates, stamp, rows) ==
    IF rows = {} THEN aggregates ELSE Append(aggregates, [created_at |-> stamp, rows |-> rows])
Close_Keep(s, log, idx) ==  \* mutant: what was collected is collected again
    [start_ts |-> Advanced(s.start_ts, log.created_at), accum |-> s.accum, last_index |-> idx,
     aggregates |-> With(s.aggregates, Advanced(s.start_ts, log.created_at), s.accum)]
Close(s, log, idx) ==
    [start_ts |-> Advanced(s.start_ts, log.created_at), accum |-> {}, last_index |-> idx,
     aggregates |-> With(s.aggregates, Advanced(s.start_ts, log.created_at), s.accum)]
Collect(s, log) == IF log.measured THEN [s EXCEPT !.accum = @ \cup {log}] ELSE s

\* The loop over the rows q, kept and received, and its state after i of them
Start(q) ==
    [start_ts |-> q[1].created_at, accum |-> {}, last_index |-> 1, aggregates |-> <<>>]
Turn(s, log, idx) == IF Closes(s.start_ts, log) THEN Close(s, log, idx) ELSE Collect(s, log)
Loop(q) ==
    LET after[i \in 0..Len(q)] ==
            IF i = 0 THEN Start(q) ELSE Turn(after[i - 1], q[i], i)
    IN after

\* The time an aggregate shows for the measurements of a target and name:
\* division truncates towards zero, indexes of the sorted measurements downwards
Quotient(a, n) == IF a < 0 THEN -((-a) \div n) ELSE a \div n
Sorted_Not(measurements) == measurements  \* mutant: left as they came
\* The place of the i-th measurement is the number of those up to it
Place(ms, i) == Cardinality({j \in DOMAIN ms : ms[j] < ms[i] \/ (ms[j] = ms[i] /\ j <= i)})
Sorted(measurements) ==
    [k \in DOMAIN measurements |->
        measurements[CHOOSE i \in DOMAIN measurements : Place(measurements, i) = k]]
AggregateType == {"mean", "median", "min", "max", "percentile90"}
Pick(type, measurements) ==
    LET n == Len(measurements) IN
    CASE type = "mean" -> Quotient(FoldSeq(+, 0, measurements), n)
      [] type = "median" -> Sorted(measurements)[n \div 2 + 1]
      [] type = "min" -> Min(Range(measurements))
      [] type = "max" -> Max(Range(measurements))
      [] type = "percentile90" -> Sorted(measurements)[(9 * n) \div 10 + 1]

\* split_off(last_index)
Kept_All(q, s) == q  \* mutant: nothing is removed
Kept_Before(q, s) ==  \* mutant: from the row before
    SubSeq(q, IF s.last_index > 1 THEN s.last_index - 1 ELSE 1, Len(q))
Kept(q, s) == SubSeq(q, s.last_index, Len(q))

\* Handler<PeerDataArray>
handle(data) ==
    LET q == aggregate_remainder \o data
        s == Loop(q)[Len(q)]
    IN /\ aggregate_remainder' = Kept(q, s)
       /\ sent' = sent \o s.aggregates

\* The next rows of the subscription, as the Cache sends them
latest == IF received = <<>> THEN 0 ELSE received[Len(received)].created_at
Receive ==
    \E n \in 1..MaxArray : \E t \in [1..n -> latest..MaxTime], m \in [1..n -> BOOLEAN] :
        LET data == [i \in 1..n |-> [id |-> Len(received) + i, created_at |-> t[i],
                                     measured |-> m[i]]]
        IN /\ Len(received) + n <= MaxRows
           /\ \A i, j \in 1..n : i < j => t[i] <= t[j]
           /\ handle(data)
           /\ received' = received \o data

Next == Receive

Spec == Init /\ [][Next]_vars

-----------------------------------------------------------------------------
(* Properties                                                              *)

TypeOK ==
    /\ aggregate_remainder \in Seq(Log)
    /\ sent \in Seq([created_at : 0..MaxTime, rows : SUBSET Log])
    /\ received \in Seq(Log)

Aggregated == UNION {sent[i].rows : i \in DOMAIN sent}

\* No measurement is aggregated twice, though the rows of the open interval
\* are collected again with every array.
AggregatedOnce ==
    /\ \A i, j \in DOMAIN sent : i # j => sent[i].rows \cap sent[j].rows = {}
    /\ Aggregated \cap RowsIn(aggregate_remainder) = {}

\* Aggregates leave in the order of their timestamps, no two with the same,
\* though start_ts begins anew with every array.
StampsIncrease ==
    \A i, j \in DOMAIN sent : i < j => sent[i].created_at < sent[j].created_at

\* The measurements of an aggregate lie within one interval, to the second, and
\* are not from a later second than its timestamp.
WithinInterval ==
    \A i \in DOMAIN sent : \A a, b \in sent[i].rows :
        /\ timestamp(a.created_at) <= timestamp(sent[i].created_at)
        /\ b.created_at - a.created_at < interval_dur + SECOND

\* An aggregate has measurements, and for each target and name among them the
\* time it shows stands for them, however many they are and in whatever order
\* they came: the mean is off by less than one, half of them lie on either side
\* of the median, nine tenths up to the percentile and a tenth from it on.
Represents(type, v, ms) ==
    LET n == Len(ms)
        AtMost == Cardinality({i \in 1..n : ms[i] <= v})
        AtLeast == Cardinality({i \in 1..n : ms[i] >= v})
    IN CASE type = "mean" -> n * v - FoldSeq(+, 0, ms) \in (1 - n)..(n - 1)
         [] type = "median" -> v \in Range(ms) /\ 2 * AtMost >= n /\ 2 * AtLeast >= n
         [] type = "min" -> v \in Range(ms) /\ AtLeast = n
         [] type = "max" -> v \in Range(ms) /\ AtMost = n
         [] type = "percentile90" -> v \in Range(ms) /\ 10 * AtMost >= 9 * n /\ 10 * AtLeast >= n
AllRepresented ==
    [n \in 1..MaxMeasurements |->
        \A ms \in [1..n -> Times \cup {-t : t \in Times}], type \in AggregateType :
            Represents(type, Pick(type, ms), ms)]
PicksRepresent ==
    \A i \in DOMAIN sent : sent[i].rows # {} /\ \A n \in 1..MaxMeasurements : AllRepresented[n]

\* Violated.  "Remove measurements that have been aggregated": a measurement
\* received is kept or aggregated.
NoneForgotten ==
    \A log \in RowsIn(received) :
        log.measured => log \in Aggregated \cup RowsIn(aggregate_remainder)
=============================================================================
