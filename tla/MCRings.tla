------------------------------ MODULE MCRings ------------------------------
(* Instances of RingHandoff for TLC. *)
EXTENDS RingHandoff, TLC

CONSTANTS a

OneKey == {a}
FirstRing == [k \in OneKey |-> 0]

\* A pool and a subscription by key, each with rings of one entry: enough deliveries for the loop
\* to wait, a pool before it reads one more, by key with one in hand.
BothOfOne == {[keyed |-> FALSE, ring |-> 1, items |-> 2], [keyed |-> TRUE, ring |-> 1, items |-> 3]}
=============================================================================
