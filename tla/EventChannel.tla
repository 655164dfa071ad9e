---------------------------- MODULE EventChannel ----------------------------
(***************************************************************************)
(* What ofxBeatLink promises of its events, without threads or mutexes:    *)
(* one first-in first-out channel per kind, written by the network and     *)
(* emptied by the main thread in batches.  A batch is what is pending when *)
(* it is taken up; nothing joins it, and it is delivered to its end.       *)
(***************************************************************************)
EXTENDS Integers, Sequences

CONSTANTS
    Kinds,      \* kinds of event
    Devices     \* what an event can be about

VARIABLES
    pending,    \* per kind, published and not delivered
    delivered,  \* per kind, how many were delivered
    serving     \* the kinds whose batch is being delivered: none or one

vars == <<pending, delivered, serving>>

Event == [device : Devices \cup {0}, id : Nat]

Init ==
    /\ pending = [k \in Kinds |-> <<>>]
    /\ delivered = [k \in Kinds |-> 0]
    /\ serving = {}

\* The next event of kind k; it waits while a batch of its kind is delivered.
Publish(k, d) ==
    /\ k \notin serving
    /\ pending' = [pending EXCEPT ![k] = Append(@,
                     [device |-> d, id |-> delivered[k] + Len(pending[k]) + 1])]
    /\ UNCHANGED <<delivered, serving>>

Take(k) ==
    /\ serving = {}
    /\ serving' = {k}
    /\ UNCHANGED <<pending, delivered>>

Deliver(k) ==
    /\ k \in serving
    /\ pending[k] # <<>>
    /\ Head(pending[k]).id = delivered[k] + 1
    /\ pending' = [pending EXCEPT ![k] = Tail(@)]
    /\ delivered' = [delivered EXCEPT ![k] = @ + 1]
    /\ UNCHANGED serving

Finish(k) ==
    /\ serving = {k}
    /\ pending[k] = <<>>
    /\ serving' = {}
    /\ UNCHANGED <<pending, delivered>>

Next == \E k \in Kinds : \/ \E d \in Devices : Publish(k, d)
                         \/ Take(k)
                         \/ Deliver(k)
                         \/ Finish(k)

Spec == Init /\ [][Next]_vars
=============================================================================
