--------------------------- MODULE MCSubscription ---------------------------
(* Instances of MemorySubscription for TLC. *)
EXTENDS MemorySubscription

CONSTANTS s1, k1, k2

OneSub == {s1}
OneSlot == {k1}
TwoSlots == {k1, k2}
OneSize == {1}

KeepTwo == [kind |-> "Messages", messages |-> 2, bytes |-> 1]
=============================================================================
