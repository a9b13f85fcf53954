--------------------------- MODULE SharedOutcome ---------------------------
(***************************************************************************)
(* What the .error and the .then of one outcome for a whole batch do       *)
(* (publish_failure/fixed.rs and boxed.rs, dispatch/settle.rs:150): each   *)
(* element ends with a publish that failed, or with none that did; once    *)
(* the last one ended the .error runs once, told of every failure in the   *)
(* order of the batch, and the .then runs once if an element ended with no *)
(* failure.  BatchFan (a build without a heap) and BatchGather (one with)  *)
(* implement it.                                                           *)
(*                                                                         *)
(* The rule of the .then is the code's: an element for which the runtime   *)
(* made no publish reports that none failed (Unpublished::Part).  Where    *)
(* every element makes a publish it is the documented one, "when at least  *)
(* one copy was published; when every copy fails it does not run"          *)
(* (docs/components/subscribers/messages/error.md:66); where some make     *)
(* none and every copy fails the code runs the .then and the document says *)
(* it does not.                                                            *)
(***************************************************************************)
EXTENDS Naturals, Sequences, SequencesExt

CONSTANT Elements

VARIABLES
  ended,     \* o -> the elements that ended
  failed,    \* o -> those whose publish failed
  heard,     \* o -> what its .error was told; empty until it ran
  followed   \* o -> its .then ran

vars == <<ended, failed, heard, followed>>

(* The outcomes a mount is given, as many as the implementation considers. *)
Outcomes == DOMAIN ended

(* s is the elements of S in the order of the batch. *)
InOrder(s, S) == ToSet(s) = S /\ \A i, j \in 1 .. Len(s) : i < j => s[i] < s[j]

Init ==
  /\ ended = [o \in Outcomes |-> {}]
  /\ failed = [o \in Outcomes |-> {}]
  /\ heard = [o \in Outcomes |-> << >>]
  /\ followed = [o \in Outcomes |-> FALSE]

End(o, i, ok) ==
  /\ i \in Elements \ ended[o]
  /\ ended' = [ended EXCEPT ![o] = @ \cup {i}]
  /\ failed' = IF ok THEN failed ELSE [failed EXCEPT ![o] = @ \cup {i}]

React(o) ==
  /\ heard[o] = << >> /\ ended'[o] = Elements /\ failed'[o] # {}
  /\ heard' = [heard EXCEPT ![o] = heard'[o]] /\ InOrder(heard'[o], failed'[o])

(* An element that failed nothing is enough, also one that published       *)
(* nothing.                                                                *)
Follow(o) ==
  /\ ~followed[o] /\ ended'[o] = Elements /\ failed'[o] # Elements
  /\ followed' = [followed EXCEPT ![o] = TRUE]

(* The last element may end, the .error run and the .then run in one step. *)
Step(o) ==
  /\ (\E i \in Elements, ok \in BOOLEAN : End(o, i, ok)) \/ UNCHANGED <<ended, failed>>
  /\ React(o) \/ UNCHANGED heard
  /\ Follow(o) \/ UNCHANGED followed

Next == \E o \in Outcomes : Step(o)

Spec == Init /\ [][Next]_vars
=============================================================================
