----------------------------- MODULE Settlement -----------------------------
(***************************************************************************)
(* How the runtime settles the deliveries of one subscription by what its  *)
(* handler returned (crates/runtime/src/dispatch/settle.rs): the ack, the  *)
(* requeue, the delay a broker holds itself, the copy the runtime          *)
(* publishes in its place, and the dead letter or the rejection once the   *)
(* attempts are spent.                                                     *)
(*                                                                         *)
(* A message is in one of three hands: the broker's and the handler's      *)
(* (dlv), the runtime's (job: the copy between the drop of the original    *)
(* and the end of its publish), or nobody's, when it has its fate.  Every  *)
(* await of the code lies between two actions: the settlement and the      *)
(* publish can fail, and the process can die, in between.                  *)
(***************************************************************************)
EXTENDS Naturals, FiniteSets

CONSTANTS
  Messages,
  MaxAttempts,   \* max_attempts(n) of the declaration; 0: none declared
  Confs,         \* the transports and declarations considered
  MaxErrors,     \* bound: settlements the broker refuses
  MaxRefusals,   \* bound: publishes of a copy that fail
  MaxCrashes,    \* bound: deaths of the process
  MaxCount       \* bound: the counters of deliveries saturate here

(* A transport and the declaration over it: whether it reports             *)
(* redelivery_count and supports_nack_after, whether it settles at all     *)
(* (else ack and nack answer AckError::Unsupported), whether               *)
(* dead_letter(name) is declared, copy_path ("published", "kept", or       *)
(* "none" where the broker moves deliveries itself), the room the host has *)
(* for delayed copies, and the highest retry count a message's headers     *)
(* have room for, which a build without a heap fixes.                      *)
Configurations ==
  [counts : BOOLEAN, native : BOOLEAN, settles : BOOLEAN, dead : BOOLEAN,
   path : {"published", "kept", "none"}, room : Nat, fits : Nat]

ASSUME SettlementAssumption ==
  /\ IsFiniteSet(Messages)
  /\ MaxAttempts \in Nat /\ MaxCount \in Nat \ {0}
  /\ MaxErrors \in Nat /\ MaxRefusals \in Nat /\ MaxCrashes \in Nat
  /\ Confs \subseteq Configurations

VARIABLES
  conf,     \* what the service was built with
  dlv,      \* m -> the delivery at the broker or with its handler
  job,      \* m -> the copy the runtime holds
  used,     \* room taken in the host's store of delayed copies
  fate,     \* m -> how the message ended
  runs,     \* m -> times the handler got it
  slips,    \* m -> deliveries no attempt was counted for (see Slip)
  lost,     \* m -> what lost it
  errors, refusals, crashes

vars == <<conf, dlv, job, used, fate, runs, slips, lost, errors, refusals, crashes>>

Counts == conf.counts
Native == conf.native
Settles == conf.settles
DeadLetter == conf.dead
Path == conf.path
Capacity == conf.room

-----------------------------------------------------------------------------
(* What a settlement in flight will do once the broker answered. *)
Intent(op, dead, waits, room) ==
  [op |-> op, dead |-> dead, waits |-> waits, room |-> room]

Plain(op) == Intent(op, FALSE, FALSE, FALSE)

(* hdr is the framework's retry-count header, dels the deliveries so far.  *)
Delivery(st, hdr, dels) ==
  [st |-> st, hdr |-> hdr, dels |-> dels, todo |-> Plain("none")]

Copy(st, hdr, todo) == [st |-> st, hdr |-> hdr, todo |-> todo]

NoDelivery == Delivery("none", 0, 0)
NoCopy == Copy("none", 0, Plain("none"))

Bump(n) == IF n < MaxCount THEN n + 1 ELSE n

Init ==
  /\ conf \in Confs
  /\ dlv = [m \in Messages |-> Delivery("queued", 0, 0)]
  /\ job = [m \in Messages |-> NoCopy]
  /\ used = 0
  /\ fate = [m \in Messages |-> "none"]
  /\ runs = [m \in Messages |-> 0]
  /\ slips = [m \in Messages |-> 0]
  /\ lost = [m \in Messages |-> "no"]
  /\ errors = 0 /\ refusals = 0 /\ crashes = 0

-----------------------------------------------------------------------------
(* A broker that leaves the delay to the runtime continues the count the   *)
(* copy's header carries; one that holds delays is never handed a copy.    *)
RedeliveryCount(m) == dlv[m].dels + (IF Native THEN 0 ELSE dlv[m].hdr)

AttemptOf(m) == IF Counts THEN RedeliveryCount(m) ELSE dlv[m].hdr + 1

(* The cap off by one. *)
AtCapEarly(m) == MaxAttempts > 0 /\ AttemptOf(m) + 1 >= MaxAttempts

AtCap(m) == MaxAttempts > 0 /\ AttemptOf(m) >= MaxAttempts

RedeliveryOf(m) ==
  CASE AtCap(m) -> IF DeadLetter THEN "dead" ELSE "reject"
    [] MaxAttempts = 0 /\ DeadLetter -> "dead"
    [] OTHER -> "subscription"

(* The kept path raises the retry count in the delivery's own headers. *)
Fits(m) == Path = "kept" => dlv[m].hdr < conf.fits

(* Sends a copy, now or after a delay.  The kept path requeues a delivery  *)
(* whose headers have no room for the count, a dead letter's too.  The     *)
(* published path reserves room for a copy that waits and requeues the     *)
(* delivery without it; the kept path takes a record for every copy, and   *)
(* without one a copy that leaves at once spills while one that would wait *)
(* has nowhere to wait.                                                    *)
SendCopy(m, dead, waits) ==
  LET roomy == used < Capacity
  IN IF ~Fits(m) THEN Plain("requeue")
     ELSE IF waits /\ ~roomy THEN Plain(IF Path = "published" THEN "requeue" ELSE "full")
     ELSE Intent("copy", dead, waits, IF Path = "published" THEN waits ELSE roomy)

(* The spent, or redirected, delivery. *)
Spend(m) == IF RedeliveryOf(m) = "dead" THEN SendCopy(m, TRUE, FALSE) ELSE Plain("spent")

SettleRetry(m) ==
  IF (MaxAttempts = 0 /\ ~DeadLetter) \/ Path = "none" THEN Plain("requeue")
  ELSE IF RedeliveryOf(m) # "subscription" THEN Spend(m)
  ELSE IF Counts THEN Plain("requeue")
  ELSE SendCopy(m, FALSE, FALSE)

(* The copy published although the broker can hold the delay itself. *)
SettleNackAfterCopies(m, waits) ==
  IF RedeliveryOf(m) # "subscription" THEN Spend(m) ELSE SendCopy(m, FALSE, waits)

SettleNackAfter(m, waits) ==
  IF Native
  THEN IF MaxAttempts > 0 /\ Path # "none" /\ RedeliveryOf(m) # "subscription"
       THEN Spend(m)
       ELSE Plain("after")
  ELSE IF Path = "none" THEN Plain("requeue")
  ELSE IF RedeliveryOf(m) # "subscription" THEN Spend(m)
  ELSE SendCopy(m, FALSE, waits)

-----------------------------------------------------------------------------
(* No copy can carry the count of a delivery that goes back: its headers   *)
(* are full, or nobody else counts and the store is full.                  *)
Uncounted(m) == ~Fits(m) \/ (~Counts /\ ~(used < Capacity))

(* A delivery that no count records: the broker kept it, or took it back.  *)
Slip(S) == slips' = [m \in Messages |-> IF m \in S THEN Bump(slips[m]) ELSE slips[m]]

(* The broker hands the message to the subscription, whose handler runs. *)
Deliver(m) ==
  /\ dlv[m].st = "queued"
  /\ dlv' = [dlv EXCEPT ![m].st = "running", ![m].dels = Bump(@)]
  /\ runs' = [runs EXCEPT ![m] = Bump(@)]
  /\ UNCHANGED <<job, used, fate, slips, lost, errors, refusals, crashes>>

(* The handler returned; the code runs to the await of the settlement. *)
Outcomes == {"ack", "drop", "retry", "after", "zero"}

Decide(m, o) ==
  CASE o = "ack"   -> Plain("ack")
    [] o = "drop"  -> Plain("drop")
    [] o = "retry" -> SettleRetry(m)
    [] OTHER       -> SettleNackAfter(m, o = "after")

SettleOutcome(m) ==
  /\ dlv[m].st = "running"
  /\ \E o \in Outcomes :
       LET todo == Decide(m, o)
       IN /\ dlv' = [dlv EXCEPT ![m].st = "settling", ![m].todo = todo]
          /\ used' = IF todo.room THEN used + 1 ELSE used
          /\ IF todo.op = "requeue" /\ Uncounted(m) THEN Slip({m}) ELSE UNCHANGED slips
  /\ UNCHANGED <<job, fate, runs, lost, errors, refusals, crashes>>

(* The settlement took effect.  Where the transport settles nothing a      *)
(* requeue brings nothing back.                                            *)
Requeued(m) ==
  /\ dlv' = [dlv EXCEPT ![m] =
               IF Settles THEN Delivery("queued", @.hdr, @.dels) ELSE NoDelivery]
  /\ lost' = IF Settles THEN lost ELSE [lost EXCEPT ![m] = "unsettled"]
  /\ UNCHANGED <<job, used, fate>>

(* nack_after of a transport that counts nothing republishes with the      *)
(* header raised.                                                          *)
HeldBack(m) ==
  /\ dlv' = [dlv EXCEPT ![m] =
               Delivery("held", IF Counts THEN @.hdr ELSE Bump(@.hdr), @.dels)]
  /\ UNCHANGED <<job, used, fate, lost>>

Ended(m, how) ==
  /\ dlv' = [dlv EXCEPT ![m] = NoDelivery]
  /\ fate' = [fate EXCEPT ![m] = how]
  /\ UNCHANGED <<job, used, lost>>

(* The copy's count left as the delivery carried it. *)
CopiedUncounted(m) ==
  LET d == dlv[m]
  IN /\ dlv' = [dlv EXCEPT ![m] = NoDelivery]
     /\ job' = [job EXCEPT ![m] =
                  Copy(IF d.todo.waits THEN "waiting" ELSE "publishing", d.hdr, d.todo)]
     /\ UNCHANGED <<used, fate, lost>>

(* An unsupported settlement taken for a failed one: no copy leaves. *)
CopiedIfSettled(m) ==
  /\ dlv' = [dlv EXCEPT ![m] = NoDelivery]
  /\ job' = IF Settles THEN [job EXCEPT ![m] = Copy("publishing", dlv[m].hdr, dlv[m].todo)]
            ELSE job
  /\ UNCHANGED <<used, fate, lost>>

(* The original is gone: the copy, its count raised, is the runtime's. *)
Copied(m) ==
  LET d == dlv[m]
  IN /\ dlv' = [dlv EXCEPT ![m] = NoDelivery]
     /\ job' = [job EXCEPT ![m] =
                  Copy(IF d.todo.waits THEN "waiting" ELSE "publishing",
                       Bump(d.hdr), d.todo)]
     /\ UNCHANGED <<used, fate, lost>>

(* A kept copy that found every record taken is a failed publish. *)
NoFreeRecord(m) ==
  /\ dlv' = [dlv EXCEPT ![m] = NoDelivery]
  /\ lost' = [lost EXCEPT ![m] = "full"]
  /\ UNCHANGED <<job, used, fate>>

(* Ok(()), and Err(AckError::Unsupported) where the transport settles      *)
(* nothing.                                                                *)
Settled(m) ==
  LET op == dlv[m].todo.op
  IN /\ dlv[m].st = "settling"
     /\ \/ op = "ack" /\ Ended(m, "acked")
        \/ op = "drop" /\ Ended(m, "dropped")
        \/ op = "spent" /\ Ended(m, "spent")
        \/ op = "requeue" /\ Requeued(m)
        \/ op = "after" /\ HeldBack(m)
        \/ op = "copy" /\ Copied(m)
        \/ op = "full" /\ NoFreeRecord(m)
     /\ UNCHANGED <<runs, slips, errors, refusals, crashes>>

(* The copy leaves although the broker kept the original. *)
SettleFailedCopies(m) ==
  /\ dlv[m].st = "settling" /\ Settles /\ errors < MaxErrors
  /\ errors' = errors + 1
  /\ dlv' = [dlv EXCEPT ![m] = Delivery("queued", @.hdr, @.dels)]
  /\ job' = IF dlv[m].todo.op = "copy"
            THEN [job EXCEPT ![m] = Copy("publishing", Bump(dlv[m].hdr), dlv[m].todo)]
            ELSE job
  /\ Slip({m})
  /\ UNCHANGED <<used, fate, runs, lost, refusals, crashes>>

(* The reservation is not given back. *)
SettleFailedLeaks(m) ==
  /\ dlv[m].st = "settling" /\ Settles /\ errors < MaxErrors
  /\ errors' = errors + 1
  /\ dlv' = [dlv EXCEPT ![m] = Delivery("queued", @.hdr, @.dels)]
  /\ Slip({m})
  /\ UNCHANGED <<job, used, fate, runs, lost, refusals, crashes>>

(* Any other error: the delivery stays with the broker, which redelivers   *)
(* it, no copy leaves, and the room goes back.                             *)
SettleFailed(m) ==
  /\ dlv[m].st = "settling" /\ Settles /\ errors < MaxErrors
  /\ errors' = errors + 1
  /\ dlv' = [dlv EXCEPT ![m] = Delivery("queued", @.hdr, @.dels)]
  /\ used' = IF dlv[m].todo.room THEN used - 1 ELSE used
  /\ Slip({m})
  /\ UNCHANGED <<job, fate, runs, lost, refusals, crashes>>

-----------------------------------------------------------------------------
(* A record armed behind the timer that already runs is never looked at. *)
CopyDueUnarmed(m) ==
  /\ job[m].st = "waiting"
  /\ \A o \in Messages \ {m} : job[o].st # "waiting"
  /\ job' = [job EXCEPT ![m].st = "publishing"]
  /\ UNCHANGED <<dlv, used, fate, runs, slips, lost, errors, refusals, crashes>>

(* The delay of a kept or detached copy has passed. *)
CopyDue(m) ==
  /\ job[m].st = "waiting"
  /\ job' = [job EXCEPT ![m].st = "publishing"]
  /\ UNCHANGED <<dlv, used, fate, runs, slips, lost, errors, refusals, crashes>>

JobEnds(m) ==
  /\ job[m].st = "publishing"
  /\ job' = [job EXCEPT ![m] = NoCopy]
  /\ used' = IF job[m].todo.room THEN used - 1 ELSE used

(* A new message to the broker, its deliveries counted from the start. *)
CopySent(m) ==
  /\ JobEnds(m)
  /\ IF job[m].todo.dead
     THEN fate' = [fate EXCEPT ![m] = "dead"] /\ UNCHANGED dlv
     ELSE dlv' = [dlv EXCEPT ![m] = Delivery("queued", job[m].hdr, 0)] /\ UNCHANGED fate
  /\ UNCHANGED <<runs, slips, lost, errors, refusals, crashes>>

(* publish_lost: the failure goes to .error or to the log. *)
CopyLost(m) ==
  /\ refusals < MaxRefusals
  /\ refusals' = refusals + 1
  /\ JobEnds(m)
  /\ lost' = [lost EXCEPT ![m] = "refused"]
  /\ UNCHANGED <<dlv, fate, runs, slips, errors, crashes>>

(* The broker's own timer of a delay it holds. *)
HeldDue(m) ==
  /\ dlv[m].st = "held"
  /\ dlv' = [dlv EXCEPT ![m].st = "queued"]
  /\ UNCHANGED <<job, used, fate, runs, slips, lost, errors, refusals, crashes>>

(* The process dies and starts again: the broker redelivers what was not   *)
(* settled, and what only the runtime held is gone.                        *)
Crash ==
  LET inHand == {m \in Messages : dlv[m].st \in {"running", "settling"}}
      inCopy == {m \in Messages : job[m].st # "none"}
      gone   == inCopy \cup (IF Settles THEN {} ELSE inHand)
  IN /\ crashes < MaxCrashes
     /\ crashes' = crashes + 1
     /\ inHand \cup inCopy # {}
     /\ dlv' = [m \in Messages |->
                  IF m \notin inHand THEN dlv[m]
                  ELSE IF Settles THEN Delivery("queued", dlv[m].hdr, dlv[m].dels)
                  ELSE NoDelivery]
     /\ job' = [m \in Messages |-> NoCopy]
     /\ used' = 0
     /\ lost' = [m \in Messages |-> IF m \in gone THEN "crash" ELSE lost[m]]
     /\ Slip(inHand)
     /\ UNCHANGED <<conf, fate, runs, errors, refusals>>

Step(m) ==
  /\ \/ Deliver(m) \/ SettleOutcome(m) \/ Settled(m) \/ SettleFailed(m)
     \/ CopyDue(m) \/ CopySent(m) \/ CopyLost(m) \/ HeldDue(m)
  /\ UNCHANGED conf

Next == Crash \/ \E m \in Messages : Step(m)

Safe == Init /\ [][Next]_vars

(* The loop polls, the handler returns, the broker answers and the timers  *)
(* fire; nothing says which answer comes.                                  *)
Spec == Safe /\ \A m \in Messages : WF_vars(Step(m))

-----------------------------------------------------------------------------
States == {"none", "queued", "running", "settling", "held"}
Ops == {"none", "ack", "drop", "spent", "requeue", "after", "copy", "full"}
Intents == [op : Ops, dead : BOOLEAN, waits : BOOLEAN, room : BOOLEAN]

Places(m) ==
  {p \in {"delivery", "copy", "fate", "lost"} :
     \/ p = "delivery" /\ dlv[m].st # "none"
     \/ p = "copy" /\ job[m].st # "none"
     \/ p = "fate" /\ fate[m] # "none"
     \/ p = "lost" /\ lost[m] # "no"}

(* A message is never both with the broker and in a copy of the runtime,   *)
(* and one that has ended stays ended: a settlement that failed sends no   *)
(* copy on top of the delivery the broker keeps.                           *)
OneLiveCopy == \A m \in Messages : \A p, q \in Places(m) : p = q

(* A message only disappears by what the code says may lose it: a refused  *)
(* publish, a full store of kept copies, a crash under a copy, or a        *)
(* transport that settles nothing.  A broker that counts, settles and      *)
(* holds delays itself loses nothing to a crash while no dead letter is on *)
(* its way.                                                                *)
NothingLost ==
  \A m \in Messages :
    /\ Places(m) # {}
    /\ lost[m] = "crash" => ~(Counts /\ Native /\ Settles /\ ~DeadLetter)

(* The room taken is the room of the settlements and copies under way: a   *)
(* failed settlement, a failed publish and a crash all give it back, and   *)
(* it never exceeds the store.                                             *)
RoomAccounted ==
  /\ used <= Capacity
  /\ used = Cardinality({m \in Messages : dlv[m].st = "settling" /\ dlv[m].todo.room})
          + Cardinality({m \in Messages : job[m].st # "none" /\ job[m].todo.room})

(* Under a cap the handler gets a message max_attempts times, and once     *)
(* more for each delivery the broker took back without settling it or got  *)
(* back uncounted, for a store or headers that are full.  A broker that    *)
(* counts and leaves delays to the runtime is left out: it has two         *)
(* counters (see AttemptsCapped).                                          *)
CapHolds ==
  MaxAttempts > 0 /\ Path # "none" /\ (Counts => Native) =>
    \A m \in Messages : runs[m] <= MaxAttempts + slips[m]

(* What the documentation says of max_attempts, of every broker: the same  *)
(* bound, with nothing left out.                                           *)
AttemptsCapped ==
  MaxAttempts > 0 /\ Path # "none" =>
    \A m \in Messages : runs[m] <= MaxAttempts + slips[m]

(* No message is dead-lettered or rejected as spent before it had all the  *)
(* deliveries its cap allows.                                              *)
NotSpentEarly ==
  MaxAttempts > 0 =>
    \A m \in Messages : fate[m] \in {"spent", "dead"} => runs[m] >= MaxAttempts

(* Under a cap every message ends: handled, dropped, spent, dead-lettered  *)
(* or lost, however often its handler asks for a retry.  That takes        *)
(* headers with room for the count: one whose headers are full goes round  *)
(* for as long as its handler asks, its dead letter included.              *)
EveryMessageEnds ==
  (Path = "kept" => conf.fits >= MaxAttempts) =>
    \A m \in Messages : <>[](dlv[m].st = "none" /\ job[m].st = "none")
=============================================================================
