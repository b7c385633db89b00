------------------------------ MODULE Delivery ------------------------------
(***************************************************************************)
(* What the live feed promises where the rows of a key become visible in   *)
(* the order of their timestamps: a subscriber holds, of each key it       *)
(* subscribed to, rows that only grow in number until the subscription     *)
(* ends; what it gets lies before its position; and up to there it has     *)
(* everything since its first row that is not beyond the horizon of the    *)
(* history.  No caches, polls, mailboxes or clocks.  Cache implements it.  *)
(***************************************************************************)
EXTENDS Integers

CONSTANTS Keys, Subs

VARIABLES rows,        \* the visible rows of each key
          horizon,     \* no promise is made of rows stamped up to here
          subscribed,  \* the keys each subscriber is subscribed to
          position,    \* how far it has been served
          delivered    \* the rows it holds under the subscription

vars == <<rows, horizon, subscribed, position, delivered>>

Init ==
    /\ rows = [k \in Keys |-> {}]
    /\ horizon \in Int
    /\ subscribed = [s \in Subs |-> {}]
    /\ delivered = [s \in Subs |-> [k \in Keys |-> {}]]

\* S has all of R that is younger than the horizon, from its first row up to
\* the position
Complete(S, R, upto) ==
    \A p \in S, r \in R :
        /\ r.created_at > horizon
        /\ p.created_at < r.created_at
        /\ r.created_at <= upto
        => r \in S

\* A row becomes visible, younger than those of its key
Appear(k) ==
    /\ \E new \in rows'[k] :
           /\ rows' = [rows EXCEPT ![k] = @ \cup {new}]
           /\ \A r \in rows[k] : r.created_at < new.created_at
    /\ UNCHANGED <<horizon, subscribed, position, delivered>>

\* Rows get old
Age ==
    /\ horizon' > horizon
    /\ UNCHANGED <<rows, subscribed, position, delivered>>

\* Subscriptions begin and end, and rows are delivered: several of this in one
\* step, as one message may serve some subscribers and drop others
Holds(s, k) ==
    IF k \in subscribed'[s]
    THEN /\ delivered[s][k] \subseteq delivered'[s][k]
         /\ delivered'[s][k] \subseteq rows[k]
         /\ \A r \in delivered'[s][k] \ delivered[s][k] : r.created_at <= position'[s][k]
         /\ Complete(delivered'[s][k], rows[k], position'[s][k])
    ELSE delivered'[s][k] = {}
Deliver ==
    /\ subscribed' \in [Subs -> SUBSET Keys]
    /\ DOMAIN delivered' = Subs
    /\ \A s \in Subs : DOMAIN delivered'[s] = Keys
    /\ \A s \in Subs, k \in Keys : Holds(s, k)
    /\ UNCHANGED <<rows, horizon>>

Next == Deliver \/ Age \/ \E k \in Keys : Appear(k)

Spec == Init /\ [][Next]_vars
=============================================================================
