------------------------------ MODULE Dispatch ------------------------------
(***************************************************************************)
(* What every concurrent dispatch of a subscription promises, whatever its *)
(* hand-off: it reads deliveries off the stream, starts each at most once, *)
(* never has more than a fixed number read and unfinished, runs the        *)
(* deliveries of one key one after another in the order they were read,    *)
(* and drops none unless it breaks: a worker dies or the loop is aborted.  *)
(*                                                                         *)
(* The ring hand-off, the Tokio worker pool and the Tokio batch pool       *)
(* implement it.                                                           *)
(***************************************************************************)
EXTENDS Naturals, Sequences, FiniteSets

CONSTANTS
  Keys,      \* the partition keys
  NoKey      \* a delivery that no key orders

VARIABLES
  limit,     \* the most deliveries read and unfinished
  keyOf,     \* the key of each delivery read, in reading order
  waiting,   \* the deliveries read and not started
  running,   \* the deliveries in a handler
  done,      \* the deliveries whose handler finished
  broken     \* a worker died, or the loop was aborted

vars == <<limit, keyOf, waiting, running, done, broken>>

Init ==
  /\ limit \in Nat
  /\ keyOf = << >>
  /\ waiting = {} /\ running = {} /\ done = {}
  /\ broken = FALSE

\* The loop reads a delivery.
Take(k) ==
  /\ Cardinality(waiting \cup running) < limit
  /\ keyOf' = Append(keyOf, k)
  /\ waiting' = waiting \cup {Len(keyOf) + 1}
  /\ UNCHANGED <<limit, running, done, broken>>

Ahead(n) == {m \in 1 .. n - 1 : keyOf[m] = keyOf[n]}

\* A handler starts on a delivery: none of its key before it is left.
Begin(n) ==
  /\ n \in waiting
  /\ keyOf[n] # NoKey => Ahead(n) \cap (waiting \cup running) = {}
  /\ waiting' = waiting \ {n}
  /\ running' = running \cup {n}
  /\ UNCHANGED <<limit, keyOf, done, broken>>

Finish(n) ==
  /\ n \in running
  /\ running' = running \ {n}
  /\ done' = done \cup {n}
  /\ UNCHANGED <<limit, keyOf, waiting, broken>>

\* A part of the dispatch breaks, or broke before, and takes deliveries with it.
Drop(lost) ==
  /\ broken' = TRUE
  /\ waiting' = waiting \ lost
  /\ running' = running \ lost
  /\ UNCHANGED <<limit, keyOf, done>>

Next ==
  \/ \E k \in Keys \cup {NoKey} : Take(k)
  \/ \E n \in waiting : Begin(n)
  \/ \E n \in running : Finish(n)
  \/ \E lost \in SUBSET (waiting \cup running) : Drop(lost)

Spec == Init /\ [][Next]_vars
=============================================================================
