--------------------------- MODULE BroadcastChannel ---------------------------
(***************************************************************************)
(* What the bus promises for one message type (spec.md, sections 4.1, 8  *)
(* and 9): a publish is seen by every receiver subscribed at that moment, *)
(* a late subscriber sees only later messages, and a receiver gets the    *)
(* messages in publication order without a gap.  Messages are numbered   *)
(* 1..published; delivered[r] lists the ones receiver r got, and from[r] *)
(* is how many had been published when it subscribed.  There is no       *)
(* capacity here: lag is exactly what the promise rules out.              *)
(***************************************************************************)
EXTENDS Naturals, Sequences

CONSTANTS Receivers

VARIABLES
    published,   \* messages published so far
    from,        \* per receiver: messages published before it subscribed
    delivered,   \* per receiver: the messages it got, in order
    live,        \* receivers subscribed and not dropped
    gone         \* receivers that were dropped

Init ==
    /\ published = 0
    /\ from = [r \in Receivers |-> 0]
    /\ delivered = [r \in Receivers |-> <<>>]
    /\ live = {}
    /\ gone = {}

\* A publish is a message only when someone listens.
Publish ==
    /\ live # {}
    /\ published' = published + 1
    /\ UNCHANGED <<from, delivered, live, gone>>

Join(r) ==
    /\ r \notin live \union gone
    /\ live' = live \union {r}
    /\ from' = [from EXCEPT ![r] = published]
    /\ UNCHANGED <<published, delivered, gone>>

Leave(r) ==
    /\ r \in live
    /\ live' = live \ {r}
    /\ gone' = gone \union {r}
    /\ UNCHANGED <<published, from, delivered>>

\* The next message after the last one consumed, never a later one.
Deliver(r) ==
    /\ r \in live
    /\ from[r] + Len(delivered[r]) < published
    /\ delivered' = [delivered EXCEPT ![r] =
                        Append(@, from[r] + Len(delivered[r]) + 1)]
    /\ UNCHANGED <<published, from, live, gone>>

Next ==
    \/ Publish
    \/ \E r \in Receivers : Join(r) \/ Leave(r) \/ Deliver(r)

Spec == Init /\ [][Next]_<<published, from, delivered, live, gone>>

=============================================================================
