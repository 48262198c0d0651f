---------------------------- MODULE BundleQueue ----------------------------
(***************************************************************************)
(* What the server promises about bundles with a time stamp: they wait     *)
(* until the block their time falls into, are performed in the order of    *)
(* their times (in any order if the times are equal), and no block is      *)
(* computed while a bundle that is due by its end still waits.  At most    *)
(* Limit bundles wait.                                                     *)
(***************************************************************************)
EXTENDS Integers, FiniteSets

CONSTANTS Bundles, Times, Limit

VARIABLES waiting,    \* events: a time and a packet
          performed,  \* the packets that have been performed
          blockEnd    \* the end of the block computed last

vars == <<waiting, performed, blockEnd>>

Init == waiting = {} /\ performed = {} /\ blockEnd = 0

Schedule(e) ==
    /\ Cardinality(waiting) < Limit
    /\ \A f \in waiting : f.packet # e.packet
    /\ e.packet \notin performed
    /\ waiting' = waiting \cup {e}
    /\ UNCHANGED <<performed, blockEnd>>

\* One of the earliest is performed; its messages may clear the queue.
PerformNext(e) ==
    /\ \A f \in waiting : e.time <= f.time
    /\ waiting' \in {waiting \ {e}, {}}
    /\ performed' = performed \cup {e.packet}
    /\ UNCHANGED blockEnd

\* A message without a time.
PerformAtOnce(p) ==
    /\ p \notin performed
    /\ waiting' \in {waiting, {}}
    /\ performed' = performed \cup {p}
    /\ UNCHANGED blockEnd

\* The block that ends at time t is computed.
Block(t) ==
    /\ \A e \in waiting : e.time > t
    /\ blockEnd' = t
    /\ UNCHANGED <<waiting, performed>>

Next ==
    \/ \E p \in Bundles, t \in Times : Schedule([time |-> t, packet |-> p])
    \/ \E e \in waiting : PerformNext(e)
    \/ \E p \in Bundles : PerformAtOnce(p)
    \/ \E t \in Times : Block(t)

Spec == Init /\ [][Next]_vars
=============================================================================
