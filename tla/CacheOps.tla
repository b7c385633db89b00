------------------------------ MODULE CacheOps ------------------------------
(***************************************************************************)
(* The two pure computations of src/cache/mod.rs: where in a deque the     *)
(* slice sent to a subscriber starts (update_subscriber) and what          *)
(* purge_expired leaves of a deque; and the query of src/db/peer_data.rs   *)
(* that fills the deque (get_logs).                                        *)
(*                                                                         *)
(* A stored log is a row: its created_at and the id of the table.  The     *)
(* program never reads the id; it tells apart rows of equal timestamps.    *)
(***************************************************************************)
EXTENDS Integers, Sequences

CONSTANTS MILLI,         \* clock units per millisecond
          RECORD_LIMIT   \* rows one query returns at most

ASSUME MilliAssumption == MILLI \in Nat \ {0}
ASSUME LimitAssumption == RECORD_LIMIT \in Nat \ {0}

Row == [id : Nat, created_at : Int]

Chronological(q) == \A i, j \in DOMAIN q : i < j => q[i].created_at <= q[j].created_at
Distinct(q) == \A i, j \in DOMAIN q : i # j => q[i] # q[j]
RowsOf(q) == {q[i] : i \in DOMAIN q}

\* |a - b|.num_milliseconds(): both signs are truncated towards zero
Millis(a, b) == (IF a < b THEN b - a ELSE a - b) \div MILLI

\* binary_search_by: any of the rows stamped exactly t may be the one found
Exact(q, t) == {i \in DOMAIN q : q[i].created_at = t}

\* min_by over |created_at - t| in milliseconds: the first of the nearest
Nearest(q, t) ==
    {i \in DOMAIN q :
        /\ \A j \in DOMAIN q :
               Millis(q[i].created_at, t) <= Millis(q[j].created_at, t)
        /\ \A j \in DOMAIN q : j < i =>
               Millis(q[i].created_at, t) < Millis(q[j].created_at, t)}

\* The places (from 1) where the slice sent to a subscriber may start.  There
\* is none for an empty deque: `expect("")` panics.
SliceStarts_All(q, t) == IF q = <<>> THEN {} ELSE {1}  \* mutant: the whole deque
SliceStarts(q, t) ==
    IF Exact(q, t) # {} THEN {i + 1 : i \in Exact(q, t)} ELSE Nearest(q, t)

\* deque[idx..]
Slice(q, i) == SubSeq(q, i, Len(q))

\* purge_expired: drop what precedes the first row younger than the expiry
\* time by a full millisecond.  When no row is, idx stays 0: nothing goes.
Fresh(r, expiry) == r.created_at > expiry /\ Millis(r.created_at, expiry) > 0
PurgeStart(q, expiry) ==
    {i \in DOMAIN q : Fresh(q[i], expiry) /\ \A j \in DOMAIN q : j < i => ~Fresh(q[j], expiry)}
Purged_Next(q, expiry) ==  \* mutant: from the row after that
    IF PurgeStart(q, expiry) = {} THEN q
    ELSE Slice(q, (CHOOSE i \in PurgeStart(q, expiry) : TRUE) + 1)
Purged(q, expiry) ==
    IF PurgeStart(q, expiry) = {} THEN q
    ELSE Slice(q, CHOOSE i \in PurgeStart(q, expiry) : TRUE)

\* get_logs: the rows after t, ORDER BY created_at ASC LIMIT RECORD_LIMIT; the
\* database orders rows of equal timestamps as it likes
Matching_All(rows, t) == rows                                        \* mutant: no bound
Matching_Inclusive(rows, t) == {r \in rows : r.created_at >= t}      \* mutant: >=
Matching_Coarse(rows, t) == {r \in rows : r.created_at >= t + MILLI} \* mutant: milliseconds
Matching(rows, t) == {r \in rows : r.created_at > t}
get_logs(rows, t) ==
    UNION {{q \in [1..n -> Matching(rows, t)] :
                /\ Chronological(q)
                /\ Distinct(q)
                /\ \A r \in Matching(rows, t) \ RowsOf(q) :
                       /\ n = RECORD_LIMIT
                       /\ \A i \in 1..n : q[i].created_at <= r.created_at} :
           n \in 0..RECORD_LIMIT}
=============================================================================
